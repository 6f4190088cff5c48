-------------------------------- MODULE Oracle --------------------------------
(***************************************************************************)
(* execute.differential_check: a generated candidate runs on the head      *)
(* checkout, again and again, and then on the base checkout.  Both         *)
(* checkouts are created once for a run of the pipeline and used by all    *)
(* its candidates, so what a candidate leaves in them, or leaves running,  *)
(* is there for the next one unless reset_workdir removes it.  A candidate *)
(* is what it does on each side under each of the two test runners.        *)
(***************************************************************************)
EXTENDS Naturals, Sequences

CONSTANTS
  Candidates, NoCandidate,
  Habit,        \* Habit[c]: what candidate c does, see Habits
  Reruns,       \* cfg.reruns
  ForceShim         \* JITTEST_FORCE_MINIRUNNER

Sides == {"head", "base"}
Runners == {"pytest", "shim"}
Behaviours == {"passes", "fails", "skips", "collects_nothing", "breaks", "hangs"}

(* What may be left in a checkout.  "lock" is an index.lock of a git that  *)
(* was killed; "reserved" a file under a name that the cleaning excludes   *)
(* (.jittest*, *.egg-info); "staged" one that was added to the index.      *)
Leftovers == {"edited", "untracked", "bytecode", "staged", "ignored", "reserved", "lock"}
ResetProof == {"staged", "ignored", "reserved", "lock"}

(* heeds: leftovers that make the candidate fail; commits: it moves HEAD;  *)
(* lingers: it leaves a process that writes its leavings later.            *)
Habits == [does : [Sides -> [Runners -> SUBSET Behaviours]], leaves : SUBSET Leftovers,
           heeds : SUBSET Leftovers, commits : BOOLEAN, lingers : BOOLEAN]

ASSUME OracleAssumption ==
  /\ Habit \in [Candidates -> Habits] /\ NoCandidate \notin Candidates
  /\ Reruns \in Nat /\ ForceShim \in BOOLEAN

VARIABLES
  tree,   \* what is left over in each checkout
  moved,  \* the checkouts whose HEAD a candidate moved
  stray,  \* the candidate that left a process running in each checkout
  check   \* the check in progress

oracleVars == <<tree, moved, stray, check>>

(* excused is history: an execution saw what reset_workdir could not       *)
(* remove, or what a process that was still running may have written, or   *)
(* not all executions used the same runner.                                *)
NoCheck == [stage |-> "none", cand |-> NoCandidate, heads |-> 0, runners |-> {},
            excused |-> FALSE, verdict |-> "none"]

Worktrees ==
  /\ tree = [s \in Sides |-> {}] /\ moved = {}
  /\ stray = [s \in Sides |-> NoCandidate] /\ check = NoCheck
FreshWorktrees ==
  /\ tree' = [s \in Sides |-> {}] /\ moved' = {}
  /\ stray' = [s \in Sides |-> NoCandidate] /\ check' = NoCheck

(* Mutant of ResetWorkdir: git checkout alone, without git clean.          *)
CheckoutOnly(left) == left \ ({"bytecode"} \cup (IF "lock" \in left THEN {} ELSE {"edited"}))

(* reset_workdir: git checkout restores from the index and does nothing    *)
(* while the index is locked, which nobody asks about; git clean spares    *)
(* what is ignored, staged or excluded; bytecode is removed by hand.       *)
ResetWorkdir(left) ==
  left \ ({"untracked", "bytecode"} \cup (IF "lock" \in left THEN {} ELSE {"edited"}))

(* Mutant of RunOutcome: exit code 0 is a pass. *)
ExitZeroIsPass(does, runner) ==
  CASE does \in {"passes", "skips"}              -> "PASS"
    [] does = "fails"                            -> "FAIL"
    [] does = "collects_nothing"                 -> "NOTRUN"
    [] does = "hangs"                            -> "TIMEOUT"
    [] OTHER                                     -> "ERROR"

(* run_test.  A skipped test exits 0 under pytest, where the junit report  *)
(* has to show a test that passed, and 5 under the shim.                   *)
RunOutcome(does, runner) ==
  CASE does = "passes"                           -> "PASS"
    [] does = "fails"                            -> "FAIL"
    [] does \in {"skips", "collects_nothing"}    -> "NOTRUN"
    [] does = "hangs"                            -> "TIMEOUT"
    [] OTHER                                     -> "ERROR"

(* Ends the check before or after an execution on the head or the base. *)
HeadVerdict(first, outcome) ==
  IF ~first THEN "head_flaky"
  ELSE CASE outcome = "ERROR"   -> "head_uncollectable"
         [] outcome = "TIMEOUT" -> "head_timeout"
         [] outcome = "NOTRUN"  -> "head_notrun"
         [] outcome = "PASS"    -> "head_passed"
BaseVerdict(outcome) ==
  CASE outcome = "PASS"   -> "catching"
    [] outcome = "FAIL"   -> "head_failed_base_failed_latent"
    [] outcome = "NOTRUN" -> "base_notrun"
    [] OTHER              -> "base_uncollectable"
Dispositions ==
  {"head_uncollectable", "head_timeout", "head_notrun", "head_passed", "head_flaky", "catching",
   "head_failed_base_failed_latent", "base_notrun", "base_uncollectable", "provenance_failed"}

BeginCheck(c) ==
  /\ check' = [NoCheck EXCEPT !.stage = "verify_head", !.cand = c]
  /\ UNCHANGED <<tree, moved, stray>>

Side == IF check.stage \in {"verify_head", "run_head"} THEN "head" ELSE "base"
Ends(verdict) == [check EXCEPT !.stage = "ruled", !.verdict = verdict]

(* Mutant of VerifySide: the checkouts are not compared with the commits.  *)
CleanSide ==
  /\ check.stage \in {"verify_head", "verify_base"}
  /\ tree' = [tree EXCEPT ![Side] = ResetWorkdir(@)]
  /\ check' = [check EXCEPT !.stage = IF @ = "verify_head" THEN "run_head" ELSE "run_base",
       !.excused = @ \/ tree[Side] \cap ResetProof # {} \/ stray[Side] # NoCandidate]
  /\ UNCHANGED <<moved, stray>>

(* verify_workdir compares the checkout with the resolved commit; then the *)
(* checkout is cleaned, once for all the executions on that side.          *)
VerifySide ==
  /\ check.stage \in {"verify_head", "verify_base"}
  /\ IF Side \in moved
       THEN check' = Ends("provenance_failed") /\ UNCHANGED tree
       ELSE /\ tree' = [tree EXCEPT ![Side] = ResetWorkdir(@)]
            /\ check' = [check EXCEPT !.stage = IF @ = "verify_head" THEN "run_head" ELSE "run_base",
                 !.excused = @ \/ tree[Side] \cap ResetProof # {} \/ stray[Side] # NoCandidate]
  /\ UNCHANGED <<moved, stray>>

(* detect_runner asks for pytest again before every execution, and takes   *)
(* the shim when the answer is late.                                       *)
DetectRunner == IF ForceShim THEN {"shim"} ELSE Runners

(* A checkout whose HEAD was moved may hold anything.                      *)
Does(c, side, runner) ==
  IF Habit[c].heeds \cap tree[side] # {} THEN {"fails"}
  ELSE Habit[c].does[side][runner] \cup (IF side \in moved THEN {"fails"} ELSE {})

(* Whatever ran may have left that behind; a timeout kills the whole       *)
(* session of the candidate, its end does not.                             *)
Leaves(c, outcome) ==
  \/ UNCHANGED <<tree, moved, stray>>
  \/ /\ tree' = [tree EXCEPT ![Side] = @ \cup Habit[c].leaves]
     /\ moved' = IF Habit[c].commits THEN moved \cup {Side} ELSE moved
     /\ stray' = IF Habit[c].lingers /\ outcome # "TIMEOUT"
                   THEN [stray EXCEPT ![Side] = c] ELSE stray

RunSide ==
  /\ check.stage \in {"run_head", "run_base"}
  /\ \E runner \in DetectRunner : \E does \in Does(check.cand, Side, runner) :
       LET outcome == RunOutcome(does, runner)
           after == [check EXCEPT !.runners = @ \cup {runner},
                                  !.heads = IF Side = "head" THEN @ + 1 ELSE @]
           enough == after.heads >= Reruns
       IN  /\ check' =
                IF Side = "base" THEN [after EXCEPT !.stage = "ruled", !.verdict = BaseVerdict(outcome)]
                ELSE IF outcome # "FAIL"
                  THEN [after EXCEPT !.stage = "ruled", !.verdict = HeadVerdict(check.heads = 0, outcome)]
                ELSE [after EXCEPT !.stage = IF enough THEN "verify_base" ELSE "run_head"]
           /\ Leaves(check.cand, outcome)

(* A process that a candidate left behind writes at a time of its own.     *)
StrayWrites ==
  \E s \in Sides :
    /\ stray[s] # NoCandidate /\ ~(Habit[stray[s]].leaves \subseteq tree[s])
    /\ tree' = [tree EXCEPT ![s] = @ \cup Habit[stray[s]].leaves]
    /\ UNCHANGED <<moved, stray, check>>

OracleStep == VerifySide \/ RunSide \/ StrayWrites

(* The pipeline has taken the verdict. *)
EndCheck == check' = NoCheck /\ UNCHANGED <<tree, moved, stray>>

(* What any user of the oracle does with it. *)
OracleNext == OracleStep \/ (\E c \in Candidates : BeginCheck(c)) \/ EndCheck \/ FreshWorktrees
OracleSpec == Worktrees /\ [][OracleNext]_oracleVars

(* A catching verdict is about the change: unless an execution saw what    *)
(* reset_workdir cannot remove, or what a process left behind may have     *)
(* written, or the two sides ran under different runners, the candidate is *)
(* one that can fail on head and pass on base by itself, whatever earlier  *)
(* candidates did to the checkouts that they share.                        *)
CatchNeedsTheChange ==
  check.verdict = "catching" /\ ~check.excused /\ (\A r, s \in check.runners : r = s) =>
    \E r \in check.runners : /\ "fails" \in Habit[check.cand].does["head"][r]
                             /\ "passes" \in Habit[check.cand].does["base"][r]

OracleTypeOK ==
  /\ tree \in [Sides -> SUBSET Leftovers] /\ moved \subseteq Sides
  /\ stray \in [Sides -> Candidates \cup {NoCandidate}]
  /\ check.cand \in Candidates \cup {NoCandidate}
  /\ check.verdict \in Dispositions \cup {"none"}
  /\ check.heads \in 0..(Reruns + 1) /\ check.runners \subseteq Runners
=============================================================================
