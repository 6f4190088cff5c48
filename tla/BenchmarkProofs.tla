---------------------------- MODULE BenchmarkProofs ---------------------------
(***************************************************************************)
(* Proofs about the oracle of generated tests and the programs that use    *)
(* it, for any candidates, reruns, targets, bugs and thresholds: a catch   *)
(* is about the change, a bug is run only where its revisions are, each    *)
(* attempt ends in one way, and every count stays within its bound; and    *)
(* about the gauntlet, for any instances: an arm compares what it is named *)
(* for.                                                                    *)
(***************************************************************************)
EXTENDS Benchmark, Gauntlet, FiniteSetTheorems, SequenceTheorems, WellFoundedInduction, TLAPS

Stages == {"none", "verify_head", "run_head", "verify_base", "run_base", "ruled"}
OracleTyped ==
  /\ tree \in [Sides -> SUBSET Leftovers] /\ moved \subseteq Sides
  /\ stray \in [Sides -> Candidates \cup {NoCandidate}]
  /\ check \in [stage : Stages, cand : Candidates \cup {NoCandidate}, heads : Nat,
                runners : SUBSET Runners, excused : BOOLEAN, verdict : Dispositions \cup {"none"}]
  /\ check.stage # "none" => check.cand \in Candidates
  /\ check.stage # "ruled" => check.verdict = "none"
  /\ check.stage = "ruled" => check.verdict \in Dispositions

(* A side that was cleaned and is not excused holds its commit and nothing *)
(* else, until something has run there.                                    *)
Clean(side) == tree[side] = {} /\ stray[side] = NoCandidate /\ side \notin moved
HeadStarts == check.stage = "verify_head" => check.runners = {} /\ check.heads = 0
HeadClean ==
  check.stage = "run_head" /\ check.heads = 0 /\ ~check.excused => Clean("head") /\ check.runners = {}
BaseClean == check.stage = "run_base" /\ ~check.excused => Clean("base")
HeadFailed ==
  /\ ~check.excused
  /\ check.stage \in {"verify_base", "run_base"} \/ (check.stage = "run_head" /\ check.heads # 0)
  => \E r \in check.runners : "fails" \in Habit[check.cand].does["head"][r]

OracleInv == OracleTyped /\ HeadStarts /\ HeadClean /\ BaseClean /\ HeadFailed /\ CatchNeedsTheChange

(* Only a failing test fails and only a passing one passes. *)
LEMMA Outcomes ==
  ASSUME NEW does \in Behaviours, NEW r \in Runners
  PROVE  /\ RunOutcome(does, r) = "FAIL" => does = "fails"
         /\ RunOutcome(does, r) = "PASS" => does = "passes"
         /\ RunOutcome(does, r) \in {"PASS", "FAIL", "NOTRUN", "TIMEOUT", "ERROR"}
BY DEF Behaviours, RunOutcome

LEMMA BaseOutcomes ==
  ASSUME NEW outcome \in {"PASS", "FAIL", "NOTRUN", "TIMEOUT", "ERROR"}
  PROVE  /\ BaseVerdict(outcome) \in Dispositions
         /\ BaseVerdict(outcome) = "catching" => outcome = "PASS"
BY DEF BaseVerdict, Dispositions

LEMMA HeadOutcomes ==
  ASSUME NEW outcome \in {"PASS", "NOTRUN", "TIMEOUT", "ERROR"}, NEW first \in BOOLEAN
  PROVE  HeadVerdict(first, outcome) \in Dispositions \ {"catching"}
BY DEF HeadVerdict, Dispositions

(* reset_workdir removes whatever it can remove. *)
LEMMA ResetCleans ==
  ASSUME NEW left \in SUBSET Leftovers
  PROVE  /\ ResetWorkdir(left) \in SUBSET Leftovers
         /\ left \cap ResetProof = {} => ResetWorkdir(left) = {}
BY DEF ResetWorkdir, ResetProof, Leftovers

(* What a habit is: needed to know what may happen in a clean checkout. *)
LEMMA CleanDoes ==
  ASSUME NEW c \in Candidates, NEW side \in Sides, NEW r \in Runners, Clean(side)
  PROVE  Does(c, side, r) = Habit[c].does[side][r]
<1>1. Habit[c] \in Habits  BY OracleAssumption
<1>2. Habit[c].heeds \cap tree[side] = {}  BY <1>1 DEF Clean, Habits
<1>. QED  BY <1>2 DEF Does, Clean

LEMMA DoesBehave ==
  ASSUME NEW c \in Candidates, NEW side \in Sides, NEW r \in Runners
  PROVE  Does(c, side, r) \subseteq Behaviours
<1>1. Habit[c] \in Habits  BY OracleAssumption
<1>2. Habit[c].does \in [Sides -> [Runners -> SUBSET Behaviours]]  BY <1>1 DEF Habits
<1>3. Habit[c].does[side][r] \in SUBSET Behaviours  BY <1>2
<1>. QED  BY <1>3 DEF Does, Behaviours

LEMMA InitOracle == Worktrees => OracleInv
<1> SUFFICES ASSUME Worktrees PROVE OracleInv  OBVIOUS
<1>1. OracleTyped
  BY DEF Worktrees, OracleTyped, NoCheck, Stages, Sides, Leftovers, Runners
<1>. QED  BY <1>1 DEF Worktrees, OracleInv, NoCheck, HeadStarts, HeadClean, BaseClean, HeadFailed, CatchNeedsTheChange

LEMMA FreshOracle == FreshWorktrees => OracleInv'
<1> SUFFICES ASSUME FreshWorktrees PROVE OracleInv'  OBVIOUS
<1>1. OracleTyped'
  BY DEF FreshWorktrees, OracleTyped, NoCheck, Stages, Sides, Leftovers, Runners
<1>. QED  BY <1>1 DEF FreshWorktrees, OracleInv, NoCheck, HeadStarts, HeadClean, BaseClean, HeadFailed, CatchNeedsTheChange

LEMMA BeginOracle == ASSUME OracleInv, NEW c \in Candidates, BeginCheck(c) PROVE OracleInv'
<1>1. OracleTyped'
  BY DEF OracleInv, BeginCheck, OracleTyped, NoCheck, Stages, Runners
<1>. QED  BY <1>1 DEF BeginCheck, OracleInv, NoCheck, HeadStarts, HeadClean, BaseClean, HeadFailed, CatchNeedsTheChange

LEMMA EndOracle == ASSUME OracleInv, EndCheck PROVE OracleInv'
<1>1. OracleTyped'
  BY DEF OracleInv, EndCheck, OracleTyped, NoCheck, Stages, Runners
<1>. QED  BY <1>1 DEF EndCheck, OracleInv, NoCheck, HeadStarts, HeadClean, BaseClean, HeadFailed, CatchNeedsTheChange

(* What happens to the check when a side is verified. *)
LEMMA VerifyOracle == ASSUME OracleInv, VerifySide PROVE OracleInv'
<1>. USE DEF OracleInv
<1>1. CASE Side \in moved
  <2>1. check' = [check EXCEPT !.stage = "ruled", !.verdict = "provenance_failed"]
    BY <1>1 DEF VerifySide, Ends
  <2>2. UNCHANGED <<tree, moved, stray>>  BY <1>1 DEF VerifySide
  <2>3. OracleTyped'  BY <2>1, <2>2 DEF OracleTyped, Stages, Dispositions, VerifySide
  <2>4. check'.stage = "ruled" /\ check'.verdict = "provenance_failed"  BY <2>1 DEF OracleTyped
  <2>. QED  BY <2>3, <2>4 DEF HeadStarts, HeadClean, BaseClean, HeadFailed, CatchNeedsTheChange
<1>2. CASE Side \notin moved
  <2>. DEFINE seen == check.excused \/ tree[Side] \cap ResetProof # {} \/ stray[Side] # NoCandidate
              stage == IF check.stage = "verify_head" THEN "run_head" ELSE "run_base"
  <2>1. check' = [check EXCEPT !.stage = stage, !.excused = seen]
    BY <1>2 DEF VerifySide
  <2>2. tree' = [tree EXCEPT ![Side] = ResetWorkdir(tree[Side])] /\ moved' = moved /\ stray' = stray
    BY <1>2 DEF VerifySide
  <2>3. Side \in Sides  BY DEF Side, Sides
  <2>4. tree[Side] \in SUBSET Leftovers  BY <2>3 DEF OracleTyped
  <2>5. /\ check'.stage = stage /\ check'.excused = seen /\ check'.verdict = check.verdict
        /\ check'.cand = check.cand /\ check'.heads = check.heads /\ check'.runners = check.runners
    BY <2>1 DEF OracleTyped
  <2>6. check'.stage \in {"run_head", "run_base"} /\ check'.verdict = "none" /\ check.cand \in Candidates
    BY <2>5 DEF OracleTyped, VerifySide
  <2>7. tree' \in [Sides -> SUBSET Leftovers]
    BY <2>2, <2>3, <2>4, ResetCleans DEF OracleTyped
  <2>8. check' \in [stage : Stages, cand : Candidates \cup {NoCandidate}, heads : Nat,
                    runners : SUBSET Runners, excused : BOOLEAN, verdict : Dispositions \cup {"none"}]
    BY <2>1 DEF OracleTyped, Stages
  <2>9. OracleTyped'
    BY <2>2, <2>5, <2>6, <2>7, <2>8 DEF OracleTyped
  <2>10. ASSUME ~check'.excused PROVE Clean(Side)' /\ ~check.excused
    <3>1. tree[Side] \cap ResetProof = {} /\ stray[Side] = NoCandidate /\ ~check.excused
      BY <2>5, <2>10
    <3>2. tree'[Side] = {}  BY <2>2, <2>3, <2>4, <3>1, ResetCleans DEF OracleTyped
    <3>3. Side' = Side  BY <2>5, <2>6 DEF Side, VerifySide
    <3>. QED  BY <3>1, <3>2, <3>3, <2>2, <1>2 DEF Clean
  <2>11. check'.stage = "run_head" => Side = "head" /\ check.stage = "verify_head"
    BY <2>5, <2>6 DEF Side
  <2>12. check'.stage = "run_base" => Side = "base" /\ check.stage = "verify_base"
    BY <2>5, <2>6 DEF Side, VerifySide
  <2>13. Side' = Side  BY <2>5, <2>6 DEF Side, VerifySide
  <2>14. HeadStarts' /\ CatchNeedsTheChange'  BY <2>6 DEF HeadStarts, CatchNeedsTheChange
  <2>15. HeadClean'
    BY <2>5, <2>10, <2>11, <2>13 DEF HeadStarts, HeadClean, Clean
  <2>16. BaseClean'
    BY <2>5, <2>10, <2>12, <2>13 DEF BaseClean, Clean
  <2>17. HeadFailed'
    BY <2>5, <2>6, <2>10, <2>11, <2>12 DEF HeadStarts, HeadFailed
  <2>. QED  BY <2>9, <2>14, <2>15, <2>16, <2>17
<1>. QED  BY <1>1, <1>2

LEMMA StrayOracle == ASSUME OracleInv, StrayWrites PROVE OracleInv'
<1>. USE DEF OracleInv
<1>1. PICK s \in Sides : /\ stray[s] # NoCandidate
                         /\ tree' = [tree EXCEPT ![s] = @ \cup Habit[stray[s]].leaves]
                         /\ UNCHANGED <<moved, stray, check>>
  BY DEF StrayWrites
<1>2. stray[s] \in Candidates  BY <1>1 DEF OracleTyped
<1>3. Habit[stray[s]].leaves \in SUBSET Leftovers
  <2>1. Habit[stray[s]] \in Habits  BY <1>2, OracleAssumption
  <2>. QED  BY <2>1 DEF Habits
<1>4. OracleTyped'  BY <1>1, <1>3 DEF OracleTyped
<1>5. \A side \in Sides : Clean(side) => Clean(side)'  BY <1>1 DEF Clean, OracleTyped
<1>. QED  BY <1>1, <1>4, <1>5 DEF HeadStarts, HeadClean, BaseClean, HeadFailed, CatchNeedsTheChange, Sides

LEMMA LeavesTyped ==
  ASSUME OracleTyped, NEW outcome, check.cand \in Candidates, Leaves(check.cand, outcome)
  PROVE  /\ tree' \in [Sides -> SUBSET Leftovers] /\ moved' \subseteq Sides
         /\ stray' \in [Sides -> Candidates \cup {NoCandidate}]
<1>1. Side \in Sides  BY DEF Side, Sides
<1>2. Habit[check.cand] \in Habits  BY OracleAssumption
<1>3. Habit[check.cand].leaves \in SUBSET Leftovers  BY <1>2 DEF Habits
<1>4. CASE UNCHANGED <<tree, moved, stray>>  BY <1>4 DEF OracleTyped
<1>5. CASE /\ tree' = [tree EXCEPT ![Side] = @ \cup Habit[check.cand].leaves]
           /\ moved' = IF Habit[check.cand].commits THEN moved \cup {Side} ELSE moved
           /\ stray' = IF Habit[check.cand].lingers /\ outcome # "TIMEOUT"
                         THEN [stray EXCEPT ![Side] = check.cand] ELSE stray
  BY <1>1, <1>3, <1>5 DEF OracleTyped
<1>. QED  BY <1>4, <1>5 DEF Leaves

LEMMA RunOracle == ASSUME OracleInv, RunSide PROVE OracleInv'
<1>. USE DEF OracleInv
<1>1. PICK runner \in DetectRunner : \E does \in Does(check.cand, Side, runner) :
         LET outcome == RunOutcome(does, runner)
             after == [check EXCEPT !.runners = @ \cup {runner},
                                    !.heads = IF Side = "head" THEN @ + 1 ELSE @]
             enough == after.heads >= Reruns
         IN  /\ check' =
                  IF Side = "base" THEN [after EXCEPT !.stage = "ruled", !.verdict = BaseVerdict(outcome)]
                  ELSE IF outcome # "FAIL"
                    THEN [after EXCEPT !.stage = "ruled", !.verdict = HeadVerdict(check.heads = 0, outcome)]
                  ELSE [after EXCEPT !.stage = IF enough THEN "verify_base" ELSE "run_head"]
             /\ Leaves(check.cand, outcome)
  BY DEF RunSide
<1>. DEFINE after == [check EXCEPT !.runners = check.runners \cup {runner},
                                   !.heads = IF Side = "head" THEN check.heads + 1 ELSE check.heads]
<1>2. PICK does \in Does(check.cand, Side, runner) :
         /\ check' =
              IF Side = "base" THEN [after EXCEPT !.stage = "ruled", !.verdict = BaseVerdict(RunOutcome(does, runner))]
              ELSE IF RunOutcome(does, runner) # "FAIL"
                THEN [after EXCEPT !.stage = "ruled", !.verdict = HeadVerdict(check.heads = 0, RunOutcome(does, runner))]
              ELSE [after EXCEPT !.stage = IF after.heads >= Reruns THEN "verify_base" ELSE "run_head"]
         /\ Leaves(check.cand, RunOutcome(does, runner))
  BY <1>1
<1>3. runner \in Runners  BY DEF DetectRunner, Runners
<1>4. check.stage \in {"run_head", "run_base"} /\ check.cand \in Candidates /\ check.verdict = "none"
  BY DEF RunSide, OracleTyped
<1>5. Side \in Sides /\ (Side = "head" <=> check.stage = "run_head") /\ (Side = "base" <=> check.stage = "run_base")
  BY <1>4 DEF Side, Sides
<1>. DEFINE outcome == RunOutcome(does, runner)
<1>6. /\ does \in Behaviours
      /\ outcome = "FAIL" => does = "fails"
      /\ outcome = "PASS" => does = "passes"
      /\ outcome \in {"PASS", "FAIL", "NOTRUN", "TIMEOUT", "ERROR"}
  <2>1. does \in Behaviours  BY <1>2, <1>3, <1>4, <1>5, DoesBehave
  <2>. QED  BY <2>1, <1>3, Outcomes
<1>. HIDE DEF outcome
<1>7. /\ tree' \in [Sides -> SUBSET Leftovers] /\ moved' \subseteq Sides
      /\ stray' \in [Sides -> Candidates \cup {NoCandidate}]
  <2>1. Leaves(check.cand, outcome)  BY <1>2 DEF outcome
  <2>. QED  BY <2>1, <1>4, LeavesTyped DEF OracleTyped
<1>8. /\ after \in [stage : Stages, cand : Candidates \cup {NoCandidate}, heads : Nat,
                    runners : SUBSET Runners, excused : BOOLEAN, verdict : Dispositions \cup {"none"}]
      /\ after.cand = check.cand /\ after.excused = check.excused /\ after.stage = check.stage
      /\ after.runners = check.runners \cup {runner} /\ after.verdict = check.verdict
      /\ after.heads = IF Side = "head" THEN check.heads + 1 ELSE check.heads
  <2>. DEFINE heads == IF Side = "head" THEN check.heads + 1 ELSE check.heads
              runners == check.runners \cup {runner}
  <2>1. heads \in Nat /\ runners \in SUBSET Runners  BY <1>3 DEF OracleTyped
  <2>2. after = [check EXCEPT !.runners = runners, !.heads = heads]  OBVIOUS
  <2>. HIDE DEF heads, runners, after
  <2>3. after \in [stage : Stages, cand : Candidates \cup {NoCandidate}, heads : Nat,
                   runners : SUBSET Runners, excused : BOOLEAN, verdict : Dispositions \cup {"none"}]
    BY <2>1, <2>2 DEF OracleTyped
  <2>4. /\ after.cand = check.cand /\ after.excused = check.excused /\ after.stage = check.stage
        /\ after.runners = runners /\ after.verdict = check.verdict /\ after.heads = heads
    BY <2>2 DEF OracleTyped
  <2>. QED  BY <2>3, <2>4 DEF heads, runners
<1>. HIDE DEF after
<1>9. ASSUME ~check.excused, Clean(Side) PROVE does \in Habit[check.cand].does[Side][runner]
  BY <1>2, <1>3, <1>4, <1>5, <1>9, CleanDoes
<1>10. CASE Side = "base"
  <2>1. check' = [after EXCEPT !.stage = "ruled", !.verdict = BaseVerdict(outcome)]
    BY <1>2, <1>10 DEF outcome
  <2>2. BaseVerdict(outcome) \in Dispositions /\ (BaseVerdict(outcome) = "catching" => outcome = "PASS")
    BY <1>6, BaseOutcomes
  <2>3. /\ check'.stage = "ruled" /\ check'.verdict = BaseVerdict(outcome) /\ check'.cand = check.cand
        /\ check'.excused = check.excused /\ check'.runners = check.runners \cup {runner}
    BY <2>1, <1>8
  <2>4. OracleTyped'
    <3>1. check' \in [stage : Stages, cand : Candidates \cup {NoCandidate}, heads : Nat,
                      runners : SUBSET Runners, excused : BOOLEAN, verdict : Dispositions \cup {"none"}]
      BY <2>1, <2>2, <1>8 DEF Stages
    <3>. QED  BY <3>1, <2>2, <2>3, <1>4, <1>7 DEF OracleTyped
  <2>5. CatchNeedsTheChange'
    <3> SUFFICES ASSUME check'.verdict = "catching", ~check'.excused, \A r, s \in check'.runners : r = s
                 PROVE  \E r \in check'.runners : /\ "fails" \in Habit[check'.cand].does["head"][r]
                                                  /\ "passes" \in Habit[check'.cand].does["base"][r]
      BY DEF CatchNeedsTheChange
    <3>1. PICK r \in check.runners : "fails" \in Habit[check.cand].does["head"][r]
      BY <1>4, <1>5, <1>10, <2>3 DEF HeadFailed
    <3>2. Clean("base")  BY <1>5, <1>10, <2>3 DEF BaseClean
    <3>3. "passes" \in Habit[check.cand].does["base"][runner]
      BY <3>2, <1>6, <1>9, <1>10, <2>2, <2>3
    <3>4. r = runner /\ r \in check'.runners  BY <2>3
    <3>. QED  BY <3>1, <3>3, <3>4, <2>3
  <2>. QED  BY <2>3, <2>4, <2>5 DEF HeadStarts, HeadClean, BaseClean, HeadFailed
<1>11. CASE Side = "head" /\ outcome # "FAIL"
  <2>1. check' = [after EXCEPT !.stage = "ruled", !.verdict = HeadVerdict(check.heads = 0, outcome)]
    BY <1>2, <1>11 DEF outcome
  <2>2. HeadVerdict(check.heads = 0, outcome) \in Dispositions \ {"catching"}
    <3>1. (check.heads = 0) \in BOOLEAN  OBVIOUS
    <3>. QED  BY <3>1, <1>6, <1>11, HeadOutcomes
  <2>3. /\ check'.stage = "ruled" /\ check'.verdict = HeadVerdict(check.heads = 0, outcome)
        /\ check'.verdict # "catching" /\ check'.cand = check.cand
    BY <2>1, <2>2, <1>8
  <2>4. OracleTyped'
    <3>1. check' \in [stage : Stages, cand : Candidates \cup {NoCandidate}, heads : Nat,
                      runners : SUBSET Runners, excused : BOOLEAN, verdict : Dispositions \cup {"none"}]
      BY <2>1, <2>2, <1>8 DEF Stages
    <3>. QED  BY <3>1, <2>2, <2>3, <1>4, <1>7 DEF OracleTyped
  <2>. QED  BY <2>3, <2>4 DEF HeadStarts, HeadClean, BaseClean, HeadFailed, CatchNeedsTheChange
<1>12. CASE Side = "head" /\ outcome = "FAIL"
  <2>1. check' = [after EXCEPT !.stage = IF after.heads >= Reruns THEN "verify_base" ELSE "run_head"]
    BY <1>2, <1>12 DEF outcome
  <2>2. /\ check'.stage \in {"verify_base", "run_head"} /\ check'.verdict = "none" /\ check'.cand = check.cand
        /\ check'.excused = check.excused /\ check'.runners = check.runners \cup {runner}
        /\ check'.heads = check.heads + 1
    BY <2>1, <1>4, <1>8, <1>12
  <2>3. OracleTyped'
    <3>1. check' \in [stage : Stages, cand : Candidates \cup {NoCandidate}, heads : Nat,
                      runners : SUBSET Runners, excused : BOOLEAN, verdict : Dispositions \cup {"none"}]
      BY <2>1, <1>8 DEF Stages
    <3>. QED  BY <3>1, <2>2, <1>4, <1>7 DEF OracleTyped
  <2>4. check.heads \in Nat /\ check'.heads # 0  BY <2>2 DEF OracleTyped
  <2>5. ASSUME ~check'.excused PROVE \E r \in check'.runners : "fails" \in Habit[check'.cand].does["head"][r]
    <3>1. CASE check.heads = 0
      <4>1. Clean("head")  BY <3>1, <2>2, <2>5, <1>5, <1>12 DEF HeadClean
      <4>2. "fails" \in Habit[check.cand].does["head"][runner]
        BY <4>1, <2>2, <2>5, <1>6, <1>9, <1>12
      <4>. QED  BY <4>2, <2>2
    <3>2. CASE check.heads # 0
      <4>1. \E r \in check.runners : "fails" \in Habit[check.cand].does["head"][r]
        BY <3>2, <2>2, <2>5, <1>5, <1>12 DEF HeadFailed
      <4>. QED  BY <4>1, <2>2
    <3>. QED  BY <3>1, <3>2
  <2>. QED  BY <2>2, <2>3, <2>4, <2>5 DEF HeadStarts, HeadClean, BaseClean, HeadFailed, CatchNeedsTheChange
<1>. QED  BY <1>5, <1>10, <1>11, <1>12 DEF Sides

LEMMA StutterOracle == OracleInv /\ UNCHANGED oracleVars => OracleInv'
<1> SUFFICES ASSUME OracleInv, UNCHANGED oracleVars PROVE OracleInv'  OBVIOUS
<1>. QED  BY DEF oracleVars, OracleInv, OracleTyped, HeadStarts, HeadClean, BaseClean, HeadFailed,
                 CatchNeedsTheChange, Clean

LEMMA OracleHolds == OracleSpec => []OracleInv
<1>1. Worktrees => OracleInv  BY InitOracle
<1>2. OracleInv /\ [OracleNext]_oracleVars => OracleInv'
  <2> SUFFICES ASSUME OracleInv, [OracleNext]_oracleVars PROVE OracleInv'  OBVIOUS
  <2>1. CASE VerifySide  BY <2>1, VerifyOracle
  <2>2. CASE RunSide  BY <2>2, RunOracle
  <2>3. CASE StrayWrites  BY <2>3, StrayOracle
  <2>4. ASSUME NEW c \in Candidates, BeginCheck(c) PROVE OracleInv'  BY <2>4, BeginOracle
  <2>5. CASE EndCheck  BY <2>5, EndOracle
  <2>6. CASE FreshWorktrees  BY <2>6, FreshOracle
  <2>7. CASE UNCHANGED oracleVars  BY <2>7, StutterOracle
  <2>. QED  BY <2>1, <2>2, <2>3, <2>4, <2>5, <2>6, <2>7 DEF OracleNext, OracleStep
<1>. QED  BY <1>1, <1>2, PTL DEF OracleSpec

(* However the oracle is used, and whatever the candidates do to the two   *)
(* checkouts they share, a catch that is not excused is about the change.  *)
THEOREM CatchesAreAboutTheChange == OracleSpec => []CatchNeedsTheChange
<1>1. OracleInv => CatchNeedsTheChange  BY DEF OracleInv
<1>. QED  BY <1>1, OracleHolds, PTL

-----------------------------------------------------------------------------
(* The programs use the oracle as its specification says. *)
LEMMA PipelineUsesOracle == PipelineStep => [OracleNext]_oracleVars
<1>1. Screen => [OracleNext]_oracleVars  BY DEF Screen, Return, OracleNext
<1>2. BudgetRefuses \/ ModelFails \/ ModelGone \/ ModelDeclines \/ Unusable \/ Convince => UNCHANGED oracleVars
  BY DEF BudgetRefuses, ModelFails, ModelGone, ModelDeclines, Unusable, Convince
<1>3. Generate => [OracleNext]_oracleVars  BY DEF Generate, OracleNext
<1>4. Judge => [OracleNext]_oracleVars  BY DEF Judge, OracleNext
<1>5. Discard \/ JudgeRaises => EndCheck  BY DEF Discard, JudgeRaises
<1>6. Assess => EndCheck  BY DEF Assess
<1>7. EndRun => UNCHANGED oracleVars  BY DEF EndRun, Return
<1>. QED  BY <1>1, <1>2, <1>3, <1>4, <1>5, <1>6, <1>7 DEF PipelineStep, OracleNext

(* run_bugsinpy, false_positives and fp_ladder use the oracle, through the *)
(* pipeline, as OracleSpec says: what the oracle promises they have.       *)
THEOREM BenchmarkImplementsOracle == Spec => OracleSpec
<1>1. Init => Worktrees  BY DEF Init, PipelineInit
<1>2. [Next]_vars => [OracleNext]_oracleVars
  <2> SUFFICES ASSUME [Next]_vars PROVE [OracleNext]_oracleVars  OBVIOUS
  <2>1. CASE CloneFails \/ EnsureRepo \/ SummarizeBugs \/ FinishRung
    BY <2>1 DEF CloneFails, EnsureRepo, SummarizeBugs, FinishRung
  <2>2. CASE EvaluateOne  BY <2>2 DEF EvaluateOne, BeginRun
  <2>3. CASE BugDone \/ BugRaised \/ Kill \/ PairDone
    <3>1. FreshWorktrees  BY <2>3 DEF BugDone, BugRaised, Kill, PairDone, RunOver
    <3>. QED  BY <3>1 DEF OracleNext
  <2>4. CASE StartPair  BY <2>4 DEF StartPair, BeginRun
  <2>5. CASE RunPipeline  BY <2>5, PipelineUsesOracle DEF RunPipeline
  <2>6. CASE UNCHANGED vars  BY <2>6 DEF vars
  <2>. QED  BY <2>1, <2>2, <2>3, <2>4, <2>5, <2>6 DEF Next
<1>. QED  BY <1>1, <1>2, PTL DEF Spec, OracleSpec

(* In every run of the programs a catch is about the change.               *)
THEOREM BenchmarkCatches == Spec => []CatchNeedsTheChange
BY BenchmarkImplementsOracle, CatchesAreAboutTheChange, PTL

-----------------------------------------------------------------------------
(* The bug in hand is the head of the list, and its clone has what it      *)
(* needs from the moment that ensure_repo has returned.                    *)
DriveTyped ==
  /\ drive = [mode |-> drive.mode, stage |-> drive.stage, todo |-> drive.todo, rung |-> drive.rung,
              rows |-> drive.rows, summaries |-> drive.summaries, verdict |-> drive.verdict]
  /\ drive.todo \in Seq(Pairs) /\ clone = [j \in Projects |-> clone[j]]
InHand == drive.mode = "bugs" /\ drive.stage \in {"ensured", "running"}
Ensured ==
  /\ drive.stage \in {"ensured", "running"} => drive.todo # <<>>
  /\ InHand => clone[Here].is = "repo" /\ Needs[Current] \subseteq clone[Here].has
RevisionsInv == DriveTyped /\ Ensured

LEMMA Starts == ASSUME NEW mode PROVE /\ Start(mode).stage = "next" /\ Start(mode).todo \in Seq(Pairs)
                                      /\ drive = Start(mode) /\ clone = [j \in Projects |-> clone[j]] => DriveTyped
<1>1. Bugs \in Seq(Pairs) /\ Merges \in Seq(Pairs)  BY BenchmarkAssumption
<1>. QED  BY <1>1 DEF Start, DriveTyped

LEMMA AdvanceShape ==
  ASSUME DriveTyped, NEW row, NEW after, after = Advance(row)
  PROVE  after = [mode |-> after.mode, stage |-> after.stage, todo |-> after.todo, rung |-> after.rung,
                  rows |-> after.rows, summaries |-> after.summaries, verdict |-> after.verdict]
BY DEF DriveTyped, Advance

(* Whatever leaves the bug in hand alone keeps the invariant, and so does  *)
(* the end of its turn, whatever row it gets.                              *)
LEMMA TurnEnds ==
  ASSUME RevisionsInv, NEW row, drive.todo # <<>>, drive' = Advance(row),
         clone' = [j \in Projects |-> clone'[j]]
  PROVE  RevisionsInv'
<1>1. drive'.stage = "next" /\ drive'.todo = Tail(drive.todo) /\ drive'.mode = drive.mode
  BY DEF RevisionsInv, DriveTyped, Advance
<1>2. Tail(drive.todo) \in Seq(Pairs)  BY DEF RevisionsInv, DriveTyped
<1>3. DriveTyped'  BY <1>1, <1>2 DEF RevisionsInv, DriveTyped, Advance
<1>. QED  BY <1>1, <1>3 DEF RevisionsInv, Ensured, InHand

LEMMA RevisionsHold == Spec => []RevisionsInv
<1>1. Init => RevisionsInv
  <2> SUFFICES ASSUME Init PROVE RevisionsInv  OBVIOUS
  <2>1. PICK mode \in Modes : drive = Start(mode)  BY DEF Init
  <2>2. clone = [j \in Projects |-> clone[j]]  BY DEF Init
  <2>. QED  BY <2>1, <2>2, Starts DEF RevisionsInv, Ensured, InHand
<1>2. RevisionsInv /\ [Next]_vars => RevisionsInv'
  <2> SUFFICES ASSUME RevisionsInv, [Next]_vars PROVE RevisionsInv'  OBVIOUS
  <2>1. CASE CloneFails
    <3>1. clone' = [j \in Projects |-> clone'[j]]
      BY <2>1 DEF CloneFails, RevisionsInv, DriveTyped
    <3>. QED  BY <2>1, <3>1, TurnEnds DEF CloneFails
  <2>2. CASE EnsureRepo
    <3>1. PICK has : /\ clone' = [clone EXCEPT ![Here] = [is |-> "repo", has |-> has]]
                     /\ drive' = IF Needs[Current] \subseteq has THEN [drive EXCEPT !.stage = "ensured"]
                                 ELSE Advance(NoRow("commits_missing"))
      BY <2>2 DEF EnsureRepo
    <3>2. drive.todo # <<>>  BY <2>2 DEF EnsureRepo
    <3>3. clone' = [j \in Projects |-> clone'[j]]  BY <3>1 DEF RevisionsInv, DriveTyped
    <3>4. Here \in Projects
      <4>1. Current \in Pairs  BY <3>2 DEF Current, RevisionsInv, DriveTyped
      <4>. QED  BY <4>1, BenchmarkAssumption DEF Here
    <3>5. CASE Needs[Current] \subseteq has
      <4>1. drive' = [drive EXCEPT !.stage = "ensured"]  BY <3>1, <3>5
      <4>2. drive'.todo = drive.todo  BY <4>1 DEF RevisionsInv, DriveTyped
      <4>3. Here' = Here /\ Current' = Current  BY <4>2 DEF Here, Current
      <4>4. clone'[Here].is = "repo" /\ clone'[Here].has = has
        BY <3>1, <3>4 DEF RevisionsInv, DriveTyped
      <4>5. DriveTyped'  BY <4>1, <4>2, <3>3 DEF RevisionsInv, DriveTyped
      <4>. QED  BY <4>2, <4>3, <4>4, <4>5, <3>2, <3>5 DEF RevisionsInv, Ensured
    <3>6. CASE ~(Needs[Current] \subseteq has)  BY <3>1, <3>2, <3>3, <3>6, TurnEnds
    <3>. QED  BY <3>5, <3>6
  <2>3. CASE EvaluateOne
    <3>1. drive.mode = "bugs" /\ drive.stage = "ensured" /\ clone' = clone  BY <2>3 DEF EvaluateOne
    <3>2. drive.todo # <<>>  BY <3>1 DEF RevisionsInv, Ensured, InHand
    <3>3. clone' = [j \in Projects |-> clone'[j]]  BY <3>1 DEF RevisionsInv, DriveTyped
    <3>4. CASE drive' = Advance(NoRow("skipped"))  BY <3>2, <3>3, <3>4, TurnEnds
    <3>5. CASE drive' = [drive EXCEPT !.stage = "running"]
      <4>1. drive'.todo = drive.todo  BY <3>5 DEF RevisionsInv, DriveTyped
      <4>2. Here' = Here /\ Current' = Current  BY <4>1 DEF Here, Current
      <4>3. DriveTyped'  BY <3>1, <3>5, <4>1 DEF RevisionsInv, DriveTyped
      <4>. QED  BY <3>1, <4>1, <4>2, <4>3 DEF RevisionsInv, Ensured, InHand
    <3>. QED  BY <2>3, <3>4, <3>5 DEF EvaluateOne
  <2>4. CASE BugDone
    <3>1. InHand /\ clone' = clone  BY <2>4 DEF BugDone, InHand
    <3>2. drive.todo # <<>>  BY <3>1 DEF RevisionsInv, Ensured, InHand
    <3>. DEFINE row == Row(Classify(report), report)
                after == Advance(row)
    <3>3. drive' = after \/ drive' = [after EXCEPT !.todo = <<>>]  BY <2>4 DEF BugDone
    <3>. HIDE DEF row
    <3>4. after.stage = "next" /\ after.todo \in Seq(Pairs)
      BY <3>2 DEF Advance, RevisionsInv, DriveTyped
    <3>5. after = [mode |-> after.mode, stage |-> after.stage, todo |-> after.todo, rung |-> after.rung,
                   rows |-> after.rows, summaries |-> after.summaries, verdict |-> after.verdict]
      BY AdvanceShape DEF RevisionsInv
    <3>. HIDE DEF after
    <3>6. drive'.stage = "next" /\ drive'.todo \in Seq(Pairs)
      <4>1. CASE drive' = after  BY <4>1, <3>4
      <4>2. CASE drive' = [after EXCEPT !.todo = <<>>]
        <5>1. drive'.stage = "next" /\ drive'.todo = <<>>  BY <4>2, <3>4, <3>5
        <5>. QED  BY <5>1
      <4>. QED  BY <3>3, <4>1, <4>2
    <3>7. DriveTyped'  BY <3>1, <3>3, <3>5, <3>6 DEF RevisionsInv, DriveTyped
    <3>. QED  BY <3>6, <3>7 DEF RevisionsInv, Ensured, InHand
  <2>5. CASE BugRaised
    <3>1. InHand /\ clone' = clone /\ drive' = Advance(NoRow("error"))  BY <2>5 DEF BugRaised, InHand
    <3>. QED  BY <3>1, TurnEnds DEF RevisionsInv, Ensured, InHand, DriveTyped
  <2>6. CASE SummarizeBugs
    BY <2>6 DEF SummarizeBugs, RevisionsInv, DriveTyped, Ensured, InHand
  <2>7. CASE Kill
    <3>1. drive' = Start("bugs")  BY <2>7 DEF Kill
    <3>2. clone' = [j \in Projects |-> clone'[j]]  BY <2>7 DEF Kill, RevisionsInv, DriveTyped
    <3>3. drive'.stage = "next" /\ drive'.todo \in Seq(Pairs)  BY <3>1, Starts
    <3>4. DriveTyped'  BY <3>1, <3>2, <3>3 DEF DriveTyped, Start
    <3>. QED  BY <3>3, <3>4 DEF RevisionsInv, Ensured, InHand
  <2>8. CASE StartPair
    BY <2>8 DEF StartPair, RevisionsInv, DriveTyped, Ensured, InHand
  <2>9. CASE PairDone
    <3>1. drive.mode = "ladder" /\ clone' = clone  BY <2>9 DEF PairDone
    <3>2. PICK row : drive' = Advance(row)  BY <2>9 DEF PairDone
    <3>3. drive.todo # <<>>  BY <2>9 DEF PairDone, RevisionsInv, Ensured
    <3>. QED  BY <3>1, <3>2, <3>3, TurnEnds DEF RevisionsInv, DriveTyped
  <2>10. CASE FinishRung
    <3>1. clone' = clone /\ drive.mode = "ladder"  BY <2>10 DEF FinishRung
    <3>2. Merges \in Seq(Pairs)  BY BenchmarkAssumption
    <3>3. PICK summaries, verdict :
             \/ drive' = [drive EXCEPT !.rung = drive.rung + 1, !.todo = Merges, !.rows = <<>>, !.summaries = summaries]
             \/ drive' = [drive EXCEPT !.stage = "done", !.rows = <<>>, !.summaries = summaries, !.verdict = verdict]
      BY <2>10 DEF FinishRung
    <3>4. DriveTyped' /\ drive'.mode = "ladder"  BY <3>1, <3>2, <3>3 DEF RevisionsInv, DriveTyped
    <3>5. drive'.stage # "ensured" /\ drive'.stage # "running"  BY <2>10, <3>3 DEF FinishRung, Idle, RevisionsInv, DriveTyped
    <3>. QED  BY <3>4, <3>5 DEF RevisionsInv, Ensured, InHand
  <2>11. CASE RunPipeline \/ UNCHANGED vars
    <3>1. UNCHANGED <<drive, clone>>  BY <2>11 DEF RunPipeline, vars
    <3>. QED  BY <3>1 DEF RevisionsInv, DriveTyped, Ensured, InHand, Here, Current
  <2>. QED  BY <2>1, <2>2, <2>3, <2>4, <2>5, <2>6, <2>7, <2>8, <2>9, <2>10, <2>11 DEF Next
<1>. QED  BY <1>1, <1>2, PTL DEF Spec

(* ensure_repo hands over only what it has found complete, and nothing is  *)
(* taken away from a clone while a bug is in hand: for any bugs, clones    *)
(* and fetches, and wherever earlier runs of the program were killed.      *)
THEOREM BugsHaveTheirRevisions == Spec => []RevisionsArePresent
<1>1. RevisionsInv => RevisionsArePresent  BY DEF RevisionsInv, Ensured, InHand, RevisionsArePresent
<1>. QED  BY <1>1, RevisionsHold, PTL

-----------------------------------------------------------------------------
(* The account of a run of the pipeline.  One attempt is open while its    *)
(* candidate is judged or assessed; an exception leaves the counts where   *)
(* they are, and the story of ledger and report is the same at any time.   *)
IsSeq(s) == \E S : s \in Seq(S)
RunShape(r) ==
  /\ r = [stage |-> r.stage, pair |-> r.pair, threshold |-> r.threshold, queue |-> r.queue,
          attempt |-> r.attempt]
  /\ r.attempt \in 1..PerTarget
ReportShape(r) ==
  r = [status |-> r.status, considered |-> r.considered, attempts |-> r.attempts,
       requests |-> r.requests, throttled |-> r.throttled, generated |-> r.generated,
       stops |-> r.stops, dropped |-> r.dropped, findings |-> r.findings, latent |-> r.latent]
Counted(r) ==
  /\ ReportShape(r) /\ r.attempts \in Nat /\ r.generated \in Nat /\ r.stops \in Nat
  /\ r.dropped \in [Causes -> Nat] /\ IsFiniteSet(Units(r.dropped)) /\ IsSeq(r.findings)
AccountTyped == RunShape(run) /\ Counted(report) /\ IsSeq(recorded)

Balance(r, rows, open) ==
  /\ r.attempts = Cardinality(Units(r.dropped)) + Len(r.findings) + r.stops + open
  /\ r.generated = Len(rows) + r.dropped["unsafe"] + open
Open(stage) == IF stage \in {"judge", "assess"} THEN 1 ELSE 0
Balanced == run.stage # "raised" => Balance(report, recorded, Open(run.stage))

CatchingIn(rows, last) == {k \in 1..last : rows[k][1] = "catching"}
Tells(rows, findings) ==
  /\ Len(findings) = Cardinality(CatchingIn(rows, Len(rows)))
  /\ \A k \in CatchingIn(rows, Len(rows)) : findings[Cardinality(CatchingIn(rows, k))] = rows[k][2]
AccountInv == AccountTyped /\ Balanced /\ Tells(recorded, report.findings)

LEMMA AppendIsSeq ==
  ASSUME NEW s, IsSeq(s), NEW x
  PROVE  /\ IsSeq(Append(s, x)) /\ Len(s) \in Nat /\ Len(Append(s, x)) = Len(s) + 1
         /\ Append(s, x)[Len(s) + 1] = x
         /\ \A k \in 1..Len(s) : Append(s, x)[k] = s[k]
<1>1. PICK S : s \in Seq(S)  BY DEF IsSeq
<1>. DEFINE T == S \cup {x}
<1>2. s \in Seq(T) /\ x \in T  BY <1>1
<1>. HIDE DEF T
<1>3. Append(s, x) \in Seq(T)  BY <1>2
<1>. QED  BY <1>2, <1>3 DEF IsSeq

(* A row that is written last tells of what is appended last. *)
LEMMA RowAppended ==
  ASSUME NEW rows, IsSeq(rows), NEW findings, IsSeq(findings), NEW oracle, NEW finding,
         Tells(rows, findings)
  PROVE  /\ oracle # "catching" => Tells(Append(rows, <<oracle, finding>>), findings)
         /\ oracle = "catching" => Tells(Append(rows, <<oracle, finding>>), Append(findings, finding))
<1>. DEFINE row == <<oracle, finding>>
            after == Append(rows, row)
            n == Len(rows)
<1>1. /\ n \in Nat /\ Len(after) = n + 1 /\ after[n + 1] = row
      /\ \A k \in 1..n : after[k] = rows[k]
  BY AppendIsSeq
<1>2. row[1] = oracle /\ row[2] = finding  OBVIOUS
<1>. HIDE DEF row, after
<1>3. ASSUME NEW k \in 1..n PROVE CatchingIn(after, k) = CatchingIn(rows, k)
  BY <1>1 DEF CatchingIn
<1>3a. CatchingIn(after, n) = CatchingIn(rows, n)  BY <1>1 DEF CatchingIn
<1>4. ASSUME NEW k \in Nat PROVE IsFiniteSet(CatchingIn(rows, k))
  <2>1. IsFiniteSet(1..k)  BY FS_Interval
  <2>. QED  BY <2>1, FS_Subset DEF CatchingIn
<1>5. CASE oracle # "catching"
  <2>1. CatchingIn(after, n + 1) = CatchingIn(rows, n)
    BY <1>1, <1>2, <1>5 DEF CatchingIn
  <2>2. Len(findings) = Cardinality(CatchingIn(after, Len(after)))
    BY <2>1, <1>1 DEF Tells
  <2>3. ASSUME NEW k \in CatchingIn(after, Len(after))
        PROVE  findings[Cardinality(CatchingIn(after, k))] = after[k][2]
    <3>1. k \in CatchingIn(rows, n) /\ k \in 1..n  BY <2>1, <1>1 DEF CatchingIn
    <3>. QED  BY <3>1, <1>1, <1>3 DEF Tells
  <2>. QED  BY <2>2, <2>3, <1>5 DEF Tells, row, after
<1>6. CASE oracle = "catching"
  <2>. DEFINE before == CatchingIn(rows, n)
              found == Append(findings, finding)
  <2>1. CatchingIn(after, n + 1) = before \cup {n + 1}
    BY <1>1, <1>2, <1>6 DEF CatchingIn
  <2>2. n + 1 \notin before  BY <1>1 DEF CatchingIn
  <2>3. IsFiniteSet(before)  BY <1>1, <1>4
  <2>. HIDE DEF before
  <2>4. Cardinality(before \cup {n + 1}) = Cardinality(before) + 1
    BY <2>2, <2>3, FS_AddElement
  <2>5. /\ Len(findings) \in Nat /\ Len(found) = Len(findings) + 1 /\ found[Len(findings) + 1] = finding
        /\ \A k \in 1..Len(findings) : found[k] = findings[k]
    BY AppendIsSeq
  <2>6. Len(findings) = Cardinality(before)  BY DEF Tells, before
  <2>. HIDE DEF found
  <2>7. Cardinality(CatchingIn(after, n + 1)) = Len(findings) + 1  BY <2>1, <2>4, <2>6
  <2>8. Len(found) = Cardinality(CatchingIn(after, Len(after)))
    BY <2>5, <2>7, <1>1
  <2>9. ASSUME NEW k \in CatchingIn(after, Len(after))
        PROVE  found[Cardinality(CatchingIn(after, k))] = after[k][2]
    <3>1. CASE k = n + 1  BY <3>1, <2>5, <2>7, <1>1, <1>2
    <3>2. CASE k # n + 1
      <4>1. k \in CatchingIn(after, n + 1)  BY <2>9, <1>1
      <4>2. k \in before  BY <4>1, <3>2, <2>1
      <4>2a. k \in 1..n  BY <4>2 DEF before, CatchingIn
      <4>3. findings[Cardinality(CatchingIn(rows, k))] = rows[k][2]
        BY <4>2 DEF before, Tells
      <4>4. Cardinality(CatchingIn(rows, k)) \in 1..Len(findings)
        <5>. DEFINE A == CatchingIn(rows, k)
        <5>1. A \in SUBSET before  BY <4>2a, <1>1 DEF CatchingIn, before
        <5>2. k \in A  BY <4>2, <4>2a DEF before, CatchingIn
        <5>. HIDE DEF A
        <5>3. IsFiniteSet(A) /\ Cardinality(A) <= Cardinality(before)
          BY <5>1, <2>3, FS_Subset
        <5>4. Cardinality(A) \in Nat  BY <5>3, FS_CardinalityType
        <5>5. Cardinality(A) # 0
          <6>1. A # {}  BY <5>2
          <6>. QED  BY <6>1, <5>3, FS_EmptySet
        <5>6. Cardinality(A) \in 1..Len(findings)  BY <5>3, <5>4, <5>5, <2>5, <2>6
        <5>. QED  BY <5>6 DEF A
      <4>5. CatchingIn(after, k) = CatchingIn(rows, k)  BY <4>2a, <1>3
      <4>. QED  BY <4>2a, <4>3, <4>4, <4>5, <2>5, <1>1
    <3>. QED  BY <3>1, <3>2
  <2>10. Tells(after, found)  BY <2>8, <2>9 DEF Tells
  <2>. QED  BY <2>10, <1>6 DEF row, after, found
<1>. QED  BY <1>5, <1>6

(* One more of what was dropped is one more unit, unless the model had     *)
(* declined; how many attempts that saved is none.                         *)
LEMMA DropOne ==
  ASSUME NEW d \in [Causes -> Nat], IsFiniteSet(Units(d)), NEW cause \in Causes \ {"short_circuit"},
         NEW e, e = [d EXCEPT ![cause] = d[cause] + 1]
  PROVE  /\ e \in [Causes -> Nat] /\ IsFiniteSet(Units(e))
         /\ Cardinality(Units(e)) = Cardinality(Units(d)) + 1
<1>1. e \in [Causes -> Nat] /\ e[cause] = d[cause] + 1 /\ \A c \in Causes \ {cause} : e[c] = d[c]
  OBVIOUS
<1>. DEFINE u == <<cause, d[cause] + 1>>
<1>2. u \notin Units(d)  BY DEF Units
<1>3. Units(e) = Units(d) \cup {u}
  <2>1. ASSUME NEW c \in Causes \ {"short_circuit"}, NEW i \in 1..e[c], <<c, i>> # u
        PROVE  i \in 1..d[c]
    BY <2>1, <1>1
  <2>2. ASSUME NEW c \in Causes \ {"short_circuit"}, NEW i \in 1..d[c] PROVE i \in 1..e[c]
    BY <2>2, <1>1
  <2>3. d[cause] + 1 \in 1..e[cause]  BY <1>1
  <2>4. u \in Units(e)  BY <2>3 DEF Units
  <2>5. Units(d) \subseteq Units(e)  BY <2>2 DEF Units
  <2>. HIDE DEF u
  <2>6. Units(e) \subseteq Units(d) \cup {u}  BY <2>1 DEF Units
  <2>. QED  BY <2>4, <2>5, <2>6
<1>. HIDE DEF u
<1>. DEFINE U == Units(d)
<1>4. IsFiniteSet(U) /\ u \notin U  BY <1>2
<1>. HIDE DEF U
<1>5. IsFiniteSet(U \cup {u}) /\ Cardinality(U \cup {u}) = Cardinality(U) + 1  BY <1>4, FS_AddElement
<1>6. Units(e) = U \cup {u}  BY <1>3 DEF U
<1>. QED  BY <1>1, <1>5, <1>6 DEF U

LEMMA DropSaved ==
  ASSUME NEW d \in [Causes -> Nat], NEW n \in Nat, NEW e, e = [d EXCEPT !["short_circuit"] = n]
  PROVE  /\ e \in [Causes -> Nat] /\ Units(e) = Units(d)
         /\ \A c \in Causes \ {"short_circuit"} : e[c] = d[c]
<1>1. e \in [Causes -> Nat] /\ \A c \in Causes \ {"short_circuit"} : e[c] = d[c]
  OBVIOUS
<1>2. Units(e) = Units(d)  BY <1>1 DEF Units
<1>. QED  BY <1>1, <1>2

(* What happens to the fields of a report. *)
LEMMA CauseNames ==
  /\ Unanswered \cup GoneStatuses \cup (Dispositions \ {"catching"}) \cup
     {"model_declined", "parse_failed", "unsafe"} \in SUBSET (Causes \ {"short_circuit"})
  /\ "unsafe" \notin Unanswered \cup GoneStatuses \cup Dispositions /\ "short_circuit" \in Causes
BY DEF Causes, Unanswered, GoneStatuses, Dispositions

LEMMA DropKeeps ==
  ASSUME NEW r, Counted(r), NEW cause \in Causes \ {"short_circuit"}
  PROVE  LET s == Drop(r, cause)
         IN  /\ Counted(s) /\ s.attempts = r.attempts /\ s.generated = r.generated /\ s.stops = r.stops
             /\ s.findings = r.findings /\ s.throttled = r.throttled /\ s.latent = r.latent
             /\ Cardinality(Units(s.dropped)) = Cardinality(Units(r.dropped)) + 1
             /\ cause # "unsafe" => s.dropped["unsafe"] = r.dropped["unsafe"]
             /\ cause = "unsafe" => s.dropped["unsafe"] = r.dropped["unsafe"] + 1
<1>. DEFINE s == Drop(r, cause)
            d == r.dropped
            e == [d EXCEPT ![cause] = d[cause] + 1]
<1>1. d \in [Causes -> Nat] /\ IsFiniteSet(Units(d)) /\ cause \in Causes  BY DEF Counted
<1>2. s = [r EXCEPT !.dropped = e]  BY DEF Drop
<1>3. /\ e \in [Causes -> Nat] /\ IsFiniteSet(Units(e))
      /\ Cardinality(Units(e)) = Cardinality(Units(d)) + 1
  BY <1>1, DropOne
<1>4. /\ e[cause] = d[cause] + 1 /\ "unsafe" \in Causes /\ (cause # "unsafe" => e["unsafe"] = d["unsafe"])
  BY <1>1, CauseNames
<1>. HIDE DEF e, s
<1>5. /\ s.attempts = r.attempts /\ s.generated = r.generated /\ s.stops = r.stops
      /\ s.findings = r.findings /\ s.throttled = r.throttled /\ s.latent = r.latent
      /\ s.dropped = e /\ ReportShape(s)
  BY <1>2 DEF Counted, ReportShape
<1>6. Counted(s)  BY <1>3, <1>5 DEF Counted
<1>7. Cardinality(Units(s.dropped)) = Cardinality(Units(r.dropped)) + 1
  BY <1>3, <1>5 DEF d
<1>8. /\ cause # "unsafe" => s.dropped["unsafe"] = r.dropped["unsafe"]
      /\ cause = "unsafe" => s.dropped["unsafe"] = r.dropped["unsafe"] + 1
  BY <1>4, <1>5
<1>. HIDE DEF d
<1>. QED  BY <1>5, <1>6, <1>7, <1>8 DEF s

(* An attempt is counted when it is made, whether it is answered or not.   *)
LEMMA AskedKeeps ==
  ASSUME Counted(report)
  PROVE  /\ Counted(Asked) /\ Counted(Answered)
         /\ Asked.attempts = report.attempts + 1 /\ Answered.attempts = report.attempts + 1
         /\ Asked.generated = report.generated /\ Answered.generated = report.generated
         /\ Asked.stops = report.stops /\ Answered.stops = report.stops
         /\ Asked.findings = report.findings /\ Answered.findings = report.findings
         /\ Asked.dropped = report.dropped /\ Answered.dropped = report.dropped
<1>. DEFINE r == report
<1>1. /\ ReportShape(Asked) /\ Asked.attempts = r.attempts + 1 /\ Asked.generated = r.generated
      /\ Asked.stops = r.stops /\ Asked.findings = r.findings /\ Asked.dropped = r.dropped
  BY DEF Asked, Counted, ReportShape
<1>1a. Answered = [r EXCEPT !.attempts = r.attempts + 1, !.requests = r.requests + 1]  BY DEF Answered
<1>1b. Answered =
        [status |-> r.status, considered |-> r.considered, attempts |-> r.attempts + 1,
         requests |-> r.requests + 1, throttled |-> r.throttled, generated |-> r.generated,
         stops |-> r.stops, dropped |-> r.dropped, findings |-> r.findings, latent |-> r.latent]
  <2>1. ReportShape(r)  BY DEF Counted
  <2>. HIDE DEF r
  <2>. QED  BY <1>1a, <2>1 DEF ReportShape
<1>2. /\ ReportShape(Answered) /\ Answered.attempts = r.attempts + 1 /\ Answered.generated = r.generated
      /\ Answered.stops = r.stops /\ Answered.findings = r.findings /\ Answered.dropped = r.dropped
  BY <1>1b DEF ReportShape
<1>3. Counted(Asked)  BY <1>1 DEF Counted
<1>4. Counted(Answered)  BY <1>2 DEF Counted
<1>. QED  BY <1>1, <1>2, <1>3, <1>4

LEMMA NextKeeps ==
  ASSUME RunShape(run)
  PROVE  /\ RunShape(NextTarget) /\ NextTarget.stage = "ask"
         /\ RunShape(NextAttempt) /\ NextAttempt.stage = "ask"
<1>1. PerTarget \in Nat \ {0}  BY PipelineAssumption
<1>2. RunShape(NextTarget) /\ NextTarget.stage = "ask"
  <2>1. NextTarget = [run EXCEPT !.stage = "ask", !.queue = Tail(run.queue), !.attempt = 1]
    BY DEF NextTarget
  <2>2. NextTarget = [stage |-> "ask", pair |-> run.pair, threshold |-> run.threshold,
                      queue |-> Tail(run.queue), attempt |-> 1]
    BY <2>1 DEF RunShape
  <2>. QED  BY <1>1, <2>2 DEF RunShape
<1>3. CASE run.attempt = PerTarget  BY <1>2, <1>3 DEF NextAttempt
<1>4. CASE run.attempt # PerTarget
  <2>1. run.attempt + 1 \in 1..PerTarget  BY <1>1, <1>4 DEF RunShape
  <2>2. NextAttempt = [run EXCEPT !.stage = "ask", !.attempt = run.attempt + 1]
    BY <1>4 DEF NextAttempt
  <2>. QED  BY <2>1, <2>2, <1>2 DEF RunShape
<1>. QED  BY <1>2, <1>3, <1>4

LEMMA StageKeeps ==
  ASSUME RunShape(run), NEW stage, NEW r, r = [run EXCEPT !.stage = stage]
  PROVE  RunShape(r) /\ r.stage = stage
BY DEF RunShape

LEMMA BalanceTyped ==
  ASSUME AccountInv
  PROVE  /\ Cardinality(Units(report.dropped)) \in Nat /\ Len(report.findings) \in Nat
         /\ Len(recorded) \in Nat /\ report.dropped["unsafe"] \in Nat
         /\ report.attempts \in Nat /\ report.generated \in Nat /\ report.stops \in Nat
<1>1. Cardinality(Units(report.dropped)) \in Nat
  BY FS_CardinalityType DEF AccountInv, AccountTyped, Counted
<1>2. Len(report.findings) \in Nat /\ Len(recorded) \in Nat
  BY AppendIsSeq DEF AccountInv, AccountTyped, Counted
<1>. QED  BY <1>1, <1>2, CauseNames DEF AccountInv, AccountTyped, Counted, Causes

(* An attempt that ends before there is a candidate ends in one way.      *)
LEMMA AttemptEnds ==
  ASSUME AccountInv, run.stage = "ask", RunShape(run'), run'.stage = "ask", recorded' = recorded,
         Counted(report'), report'.findings = report.findings, report'.attempts = report.attempts + 1,
         Cardinality(Units(report'.dropped)) + report'.stops = Cardinality(Units(report.dropped)) + report.stops + 1,
         report'.generated + report.dropped["unsafe"] = report.generated + report'.dropped["unsafe"]
  PROVE  AccountInv'
<1>1. AccountTyped'  BY DEF AccountInv, AccountTyped
<1>2. Balanced'
  <2>. DEFINE u == Cardinality(Units(report.dropped))   uu == Cardinality(Units(report'.dropped))
              f == Len(report.findings)   n == Len(recorded)
              d == report.dropped["unsafe"]   dd == report'.dropped["unsafe"]
  <2>1. report.attempts = u + f + report.stops /\ report.generated = n + d
    <3>1. Balance(report, recorded, 0)  BY DEF AccountInv, Balanced, Open
    <3>2. /\ report.attempts = u + f + report.stops + 0 /\ report.generated = n + d + 0
      BY <3>1 DEF Balance
    <3>3. u \in Nat /\ f \in Nat /\ n \in Nat /\ d \in Nat /\ report.stops \in Nat
      BY BalanceTyped
    <3>. QED  BY <3>2, <3>3
  <2>2. /\ uu \in Nat /\ report'.stops \in Nat /\ dd \in Nat /\ report'.generated \in Nat
    BY FS_CardinalityType, CauseNames DEF Counted, Causes
  <2>3. u \in Nat /\ f \in Nat /\ n \in Nat /\ d \in Nat /\ report.stops \in Nat
    BY BalanceTyped
  <2>4. Len(report'.findings) = f /\ Len(recorded') = n  OBVIOUS
  <2>. HIDE DEF u, uu, f, n, d, dd
  <2>5. uu + report'.stops = u + report.stops + 1 /\ report'.generated + d = report.generated + dd
    BY DEF u, uu, d, dd
  <2>5a. report'.attempts = uu + f + report'.stops + 0 /\ report'.generated = n + dd + 0
    BY <2>1, <2>2, <2>3, <2>5
  <2>6. Balance(report', recorded', 0)
    BY <2>4, <2>5a DEF Balance, uu, dd
  <2>. QED  BY <2>6 DEF Balanced, Open
<1>. QED  BY <1>1, <1>2 DEF AccountInv

LEMMA BudgetAccount == ASSUME AccountInv, BudgetRefuses PROVE AccountInv'
<1>1. /\ Counted(report) /\ Counted(Asked) /\ RunShape(NextTarget) /\ NextTarget.stage = "ask"
  BY AskedKeeps, NextKeeps DEF AccountInv, AccountTyped
<1>2. /\ run' = NextTarget /\ recorded' = recorded /\ run.stage = "ask"
      /\ report' = [Asked EXCEPT !.stops = Asked.stops + 1]
  BY DEF BudgetRefuses, Asking
<1>3. /\ ReportShape(report') /\ report'.attempts = Asked.attempts /\ report'.generated = Asked.generated
      /\ report'.stops = Asked.stops + 1 /\ report'.dropped = Asked.dropped
      /\ report'.findings = Asked.findings
  BY <1>1, <1>2 DEF Counted, ReportShape
<1>4. Counted(report')  BY <1>1, <1>3 DEF Counted
<1>5. /\ report'.attempts = report.attempts + 1 /\ report'.generated = report.generated
      /\ report'.stops = report.stops + 1 /\ report'.findings = report.findings
      /\ report'.dropped = report.dropped
  BY <1>1, <1>3, AskedKeeps
<1>6. /\ Cardinality(Units(report'.dropped)) = Cardinality(Units(report.dropped))
      /\ report'.dropped["unsafe"] = report.dropped["unsafe"]
  BY <1>5
<1>7. Cardinality(Units(report'.dropped)) + report'.stops = Cardinality(Units(report.dropped)) + report.stops + 1
  BY <1>5, <1>6, BalanceTyped
<1>8. report'.generated + report.dropped["unsafe"] = report.generated + report'.dropped["unsafe"]
  BY <1>5, <1>6
<1>9. RunShape(run') /\ run'.stage = "ask"  BY <1>1, <1>2
<1>. QED  BY <1>2, <1>4, <1>5, <1>7, <1>8, <1>9, AttemptEnds

(* What an attempt that is dropped for one cause leaves; the other fields  *)
(* are of no account.                                                      *)
LEMMA DropEnds ==
  ASSUME AccountInv, run.stage = "ask", RunShape(run'), run'.stage = "ask", recorded' = recorded,
         NEW r, r = Asked \/ r = Answered, NEW cause \in Causes \ {"short_circuit"},
         Counted(report'), report'.attempts = r.attempts, report'.stops = r.stops,
         report'.findings = r.findings, Units(report'.dropped) = Units(Drop(r, cause).dropped),
         report'.dropped["unsafe"] = Drop(r, cause).dropped["unsafe"],
         report'.generated = IF cause = "unsafe" THEN r.generated + 1 ELSE r.generated
  PROVE  AccountInv'
<1>1. /\ Counted(r) /\ r.attempts = report.attempts + 1 /\ r.generated = report.generated
      /\ r.stops = report.stops /\ r.findings = report.findings /\ r.dropped = report.dropped
  BY AskedKeeps DEF AccountInv, AccountTyped
<1>2. /\ Cardinality(Units(Drop(r, cause).dropped)) = Cardinality(Units(r.dropped)) + 1
      /\ cause # "unsafe" => Drop(r, cause).dropped["unsafe"] = r.dropped["unsafe"]
      /\ cause = "unsafe" => Drop(r, cause).dropped["unsafe"] = r.dropped["unsafe"] + 1
  BY <1>1, DropKeeps
<1>3. /\ Cardinality(Units(report'.dropped)) = Cardinality(Units(report.dropped)) + 1
      /\ cause # "unsafe" => report'.dropped["unsafe"] = report.dropped["unsafe"]
      /\ cause = "unsafe" => report'.dropped["unsafe"] = report.dropped["unsafe"] + 1
  BY <1>1, <1>2
<1>4. Cardinality(Units(report'.dropped)) + report'.stops = Cardinality(Units(report.dropped)) + report.stops + 1
  BY <1>1, <1>3, BalanceTyped
<1>5. report'.generated + report.dropped["unsafe"] = report.generated + report'.dropped["unsafe"]
  BY <1>1, <1>3, BalanceTyped
<1>. QED  BY <1>1, <1>4, <1>5, AttemptEnds

LEMMA FailAccount == ASSUME AccountInv, ModelFails PROVE AccountInv'
<1>1. /\ Counted(Asked) /\ RunShape(NextAttempt) /\ NextAttempt.stage = "ask"
  BY AskedKeeps, NextKeeps DEF AccountInv, AccountTyped
<1>2. PICK cause \in Unanswered :
        /\ run' = NextAttempt /\ recorded' = recorded /\ run.stage = "ask"
        /\ \E n : report' = [Drop(Asked, cause) EXCEPT !.throttled = n]
  BY DEF ModelFails, Asking
<1>3. cause \in Causes \ {"short_circuit"} /\ cause # "unsafe"  BY CauseNames
<1>. DEFINE s == Drop(Asked, cause)
<1>4. /\ Counted(s) /\ s.attempts = Asked.attempts /\ s.generated = Asked.generated
      /\ s.stops = Asked.stops /\ s.findings = Asked.findings
  BY <1>1, <1>3, DropKeeps
<1>5. \E n : report' = [s EXCEPT !.throttled = n]  BY <1>2
<1>. HIDE DEF s
<1>6. /\ ReportShape(report') /\ report'.attempts = s.attempts /\ report'.generated = s.generated
      /\ report'.stops = s.stops /\ report'.dropped = s.dropped /\ report'.findings = s.findings
  BY <1>4, <1>5 DEF Counted, ReportShape
<1>7. Counted(report')  BY <1>4, <1>6 DEF Counted
<1>8. /\ Units(report'.dropped) = Units(Drop(Asked, cause).dropped)
      /\ report'.dropped["unsafe"] = Drop(Asked, cause).dropped["unsafe"]
  BY <1>6 DEF s
<1>9. RunShape(run') /\ run'.stage = "ask"  BY <1>1, <1>2
<1>. QED  BY <1>2, <1>3, <1>4, <1>6, <1>7, <1>8, <1>9, DropEnds

LEMMA GoneAccount == ASSUME AccountInv, ModelGone PROVE AccountInv'
<1>1. Counted(Asked) /\ RunShape(run)  BY AskedKeeps DEF AccountInv, AccountTyped
<1>2. PICK status \in GoneStatuses :
        /\ run' = [run EXCEPT !.queue = <<>>] /\ recorded' = recorded /\ run.stage = "ask"
        /\ report' = [Drop(Asked, status) EXCEPT !.status = status]
  BY DEF ModelGone, Asking
<1>3. status \in Causes \ {"short_circuit"} /\ status # "unsafe"  BY CauseNames
<1>. DEFINE s == Drop(Asked, status)
<1>4. /\ Counted(s) /\ s.attempts = Asked.attempts /\ s.generated = Asked.generated
      /\ s.stops = Asked.stops /\ s.findings = Asked.findings
  BY <1>1, <1>3, DropKeeps
<1>5. report' = [s EXCEPT !.status = status]  BY <1>2
<1>. HIDE DEF s
<1>6. /\ ReportShape(report') /\ report'.attempts = s.attempts /\ report'.generated = s.generated
      /\ report'.stops = s.stops /\ report'.dropped = s.dropped /\ report'.findings = s.findings
  BY <1>4, <1>5 DEF Counted, ReportShape
<1>7. Counted(report')  BY <1>4, <1>6 DEF Counted
<1>8. /\ Units(report'.dropped) = Units(Drop(Asked, status).dropped)
      /\ report'.dropped["unsafe"] = Drop(Asked, status).dropped["unsafe"]
  BY <1>6 DEF s
<1>9. RunShape(run') /\ run'.stage = "ask"  BY <1>1, <1>2 DEF RunShape
<1>. QED  BY <1>2, <1>3, <1>4, <1>6, <1>7, <1>8, <1>9, DropEnds

LEMMA DeclineAccount == ASSUME AccountInv, ModelDeclines PROVE AccountInv'
<1>1. /\ Counted(Answered) /\ RunShape(run) /\ RunShape(NextTarget) /\ NextTarget.stage = "ask"
  BY AskedKeeps, NextKeeps DEF AccountInv, AccountTyped
<1>. DEFINE s == Drop(Answered, "model_declined")
            n == s.dropped["short_circuit"] + (PerTarget - run.attempt)
            e == [s.dropped EXCEPT !["short_circuit"] = n]
<1>2. run' = NextTarget /\ recorded' = recorded /\ run.stage = "ask" /\ report' = [s EXCEPT !.dropped = e]
  BY DEF ModelDeclines, Asking
<1>3. "model_declined" \in Causes \ {"short_circuit"}  BY CauseNames
<1>4. /\ Counted(s) /\ s.attempts = Answered.attempts /\ s.generated = Answered.generated
      /\ s.stops = Answered.stops /\ s.findings = Answered.findings
  BY <1>1, <1>3, DropKeeps
<1>. HIDE DEF s
<1>5. s.dropped \in [Causes -> Nat]  BY <1>4 DEF Counted
<1>6. n \in Nat
  <2>1. PerTarget \in Nat /\ run.attempt \in 1..PerTarget  BY <1>1, PipelineAssumption DEF RunShape
  <2>2. s.dropped["short_circuit"] \in Nat  BY <1>5, CauseNames
  <2>. QED  BY <2>1, <2>2
<1>. HIDE DEF n
<1>7. /\ e \in [Causes -> Nat] /\ Units(e) = Units(s.dropped)
      /\ \A c \in Causes \ {"short_circuit"} : e[c] = s.dropped[c]
  BY <1>5, <1>6, DropSaved
<1>. HIDE DEF e
<1>8. /\ ReportShape(report') /\ report'.attempts = s.attempts /\ report'.generated = s.generated
      /\ report'.stops = s.stops /\ report'.dropped = e /\ report'.findings = s.findings
  BY <1>2, <1>4 DEF Counted, ReportShape
<1>9. Counted(report')  BY <1>4, <1>7, <1>8 DEF Counted
<1>10. "unsafe" \in Causes \ {"short_circuit"}  BY CauseNames
<1>11. /\ Units(report'.dropped) = Units(Drop(Answered, "model_declined").dropped)
       /\ report'.dropped["unsafe"] = Drop(Answered, "model_declined").dropped["unsafe"]
  BY <1>7, <1>8, <1>10 DEF s
<1>12. RunShape(run') /\ run'.stage = "ask"  BY <1>1, <1>2
<1>. QED  BY <1>2, <1>3, <1>4, <1>8, <1>9, <1>11, <1>12, DropEnds

LEMMA UnusableAccount == ASSUME AccountInv, Unusable PROVE AccountInv'
<1>1. /\ Counted(Answered) /\ RunShape(NextAttempt) /\ NextAttempt.stage = "ask"
  BY AskedKeeps, NextKeeps DEF AccountInv, AccountTyped
<1>2. /\ run' = NextAttempt /\ recorded' = recorded /\ run.stage = "ask"
  BY DEF Unusable, Asking
<1>3. RunShape(run') /\ run'.stage = "ask"  BY <1>1, <1>2
<1>4. {"parse_failed", "unsafe"} \subseteq Causes \ {"short_circuit"}  BY CauseNames
<1>5. CASE report' = Drop(Answered, "parse_failed")
  <2>1. /\ Counted(report') /\ report'.attempts = Answered.attempts
        /\ report'.generated = Answered.generated /\ report'.stops = Answered.stops
        /\ report'.findings = Answered.findings
    BY <1>1, <1>4, <1>5, DropKeeps
  <2>. QED  BY <1>2, <1>3, <1>4, <1>5, <2>1, DropEnds
<1>6. CASE report' = [Drop(Answered, "unsafe") EXCEPT !.generated = @ + 1]
  <2>. DEFINE s == Drop(Answered, "unsafe")
  <2>1. /\ Counted(s) /\ s.attempts = Answered.attempts /\ s.generated = Answered.generated
        /\ s.stops = Answered.stops /\ s.findings = Answered.findings
    BY <1>1, <1>4, DropKeeps
  <2>2. report' = [s EXCEPT !.generated = s.generated + 1]  BY <1>6
  <2>. HIDE DEF s
  <2>3. /\ ReportShape(report') /\ report'.attempts = s.attempts /\ report'.generated = s.generated + 1
        /\ report'.stops = s.stops /\ report'.dropped = s.dropped /\ report'.findings = s.findings
    BY <2>1, <2>2 DEF Counted, ReportShape
  <2>4. Counted(report')  BY <2>1, <2>3 DEF Counted
  <2>5. /\ Units(report'.dropped) = Units(Drop(Answered, "unsafe").dropped)
        /\ report'.dropped["unsafe"] = Drop(Answered, "unsafe").dropped["unsafe"]
    BY <2>3 DEF s
  <2>. QED  BY <1>2, <1>3, <1>4, <2>1, <2>3, <2>4, <2>5, DropEnds
<1>. QED  BY <1>5, <1>6 DEF Unusable

LEMMA GenerateAccount == ASSUME AccountInv, Generate PROVE AccountInv'
<1>1. Counted(Answered) /\ RunShape(run)  BY AskedKeeps DEF AccountInv, AccountTyped
<1>2. /\ run' = [run EXCEPT !.stage = "judge"] /\ recorded' = recorded /\ run.stage = "ask"
      /\ report' = [Answered EXCEPT !.generated = Answered.generated + 1]
  BY DEF Generate, Asking
<1>3. /\ ReportShape(report') /\ report'.attempts = Answered.attempts
      /\ report'.generated = Answered.generated + 1 /\ report'.stops = Answered.stops
      /\ report'.dropped = Answered.dropped /\ report'.findings = Answered.findings
  BY <1>1, <1>2 DEF Counted, ReportShape
<1>4. Counted(report')  BY <1>1, <1>3 DEF Counted
<1>5. /\ report'.attempts = report.attempts + 1 /\ report'.generated = report.generated + 1
      /\ report'.stops = report.stops /\ report'.findings = report.findings
      /\ report'.dropped = report.dropped
  BY <1>3, AskedKeeps DEF AccountInv, AccountTyped
<1>6. RunShape(run') /\ run'.stage = "judge"  BY <1>1, <1>2, StageKeeps
<1>7. AccountTyped'  BY <1>2, <1>4, <1>6 DEF AccountInv, AccountTyped
<1>8. Balanced'
  <2>1. Balance(report, recorded, 0)  BY <1>2 DEF AccountInv, Balanced, Open
  <2>2. Balance(report', recorded', 1)  BY <1>2, <1>5, <2>1, BalanceTyped DEF Balance
  <2>. QED  BY <1>6, <2>2 DEF Balanced, Open
<1>. QED  BY <1>2, <1>5, <1>7, <1>8 DEF AccountInv

(* What leaves the counts alone, and goes on or ends. *)
LEMMA CountsStay ==
  ASSUME AccountInv, RunShape(run'), run.stage # "raised",
         run'.stage = "raised" \/ Open(run'.stage) = Open(run.stage), recorded' = recorded,
         Counted(report'), report'.attempts = report.attempts, report'.generated = report.generated,
         report'.stops = report.stops, report'.dropped = report.dropped,
         report'.findings = report.findings
  PROVE  AccountInv'
<1>1. AccountTyped'  BY DEF AccountInv, AccountTyped
<1>2. Balanced'
  <2>1. Balance(report, recorded, Open(run.stage))  BY DEF AccountInv, Balanced
  <2>2. Balance(report', recorded', Open(run.stage))  BY <2>1 DEF Balance
  <2>. QED  BY <2>2 DEF Balanced
<1>. QED  BY <1>1, <1>2 DEF AccountInv

LEMMA ReturnKeeps ==
  ASSUME Counted(report), NEW r, NEW status, NEW considered,
         r = [report EXCEPT !.status = status, !.considered = considered]
  PROVE  /\ Counted(r) /\ r.attempts = report.attempts /\ r.generated = report.generated
         /\ r.stops = report.stops /\ r.dropped = report.dropped /\ r.findings = report.findings
<1>1. r = [status |-> status, considered |-> considered, attempts |-> report.attempts,
           requests |-> report.requests, throttled |-> report.throttled, generated |-> report.generated,
           stops |-> report.stops, dropped |-> report.dropped, findings |-> report.findings,
           latent |-> report.latent]
  BY DEF Counted, ReportShape
<1>2. /\ ReportShape(r) /\ r.attempts = report.attempts /\ r.generated = report.generated
      /\ r.stops = report.stops /\ r.dropped = report.dropped /\ r.findings = report.findings
  BY <1>1 DEF ReportShape
<1>. QED  BY <1>2 DEF Counted

LEMMA ReturnAccount ==
  ASSUME AccountInv, run.stage \in {"diff", "ask"}, NEW status, NEW considered, Return(status, considered)
  PROVE  AccountInv'
<1>1. /\ run' = [run EXCEPT !.stage = "returned"] /\ recorded' = recorded
      /\ report' = [report EXCEPT !.status = status, !.considered = considered]
  BY DEF Return
<1>2. Counted(report) /\ RunShape(run)  BY DEF AccountInv, AccountTyped
<1>3. /\ Counted(report') /\ report'.attempts = report.attempts /\ report'.generated = report.generated
      /\ report'.stops = report.stops /\ report'.dropped = report.dropped
      /\ report'.findings = report.findings
  BY <1>1, <1>2, ReturnKeeps
<1>4. RunShape(run') /\ run'.stage = "returned"  BY <1>1, <1>2, StageKeeps
<1>5. Open(run'.stage) = Open(run.stage)  BY <1>4 DEF Open
<1>. QED  BY <1>1, <1>3, <1>4, <1>5, CountsStay

LEMMA ScreenAccount == ASSUME AccountInv, Screen PROVE AccountInv'
<1>1. run.stage = "diff" /\ Counted(report) /\ RunShape(run)
  BY DEF Screen, AccountInv, AccountTyped
<1>2. CASE \E status, considered : Return(status, considered)  BY <1>1, <1>2, ReturnAccount
<1>3. ASSUME NEW considered, NEW queue, report' = [report EXCEPT !.considered = considered],
             recorded' = recorded,
             run' = [run EXCEPT !.stage = "raised"] \/ run' = [run EXCEPT !.stage = "ask", !.queue = queue]
      PROVE  AccountInv'
  <2>1. /\ ReportShape(report') /\ report'.attempts = report.attempts
        /\ report'.generated = report.generated /\ report'.stops = report.stops
        /\ report'.dropped = report.dropped /\ report'.findings = report.findings
    BY <1>1, <1>3 DEF Counted, ReportShape
  <2>2. Counted(report')  BY <1>1, <2>1 DEF Counted
  <2>3. RunShape(run') /\ run'.stage \in {"raised", "ask"}
    <3>1. CASE run' = [run EXCEPT !.stage = "raised"]  BY <3>1, <1>1, StageKeeps
    <3>2. CASE run' = [run EXCEPT !.stage = "ask", !.queue = queue]
      <4>1. run' = [stage |-> "ask", pair |-> run.pair, threshold |-> run.threshold,
                    queue |-> queue, attempt |-> run.attempt]
        BY <3>2, <1>1 DEF RunShape
      <4>. QED  BY <4>1, <1>1 DEF RunShape
    <3>. QED  BY <3>1, <3>2, <1>3
  <2>4. run'.stage = "raised" \/ Open(run'.stage) = Open(run.stage)  BY <1>1, <2>3 DEF Open
  <2>. QED  BY <1>1, <1>3, <2>1, <2>2, <2>3, <2>4, CountsStay
<1>4. \/ \E status, considered : Return(status, considered)
      \/ \E considered, queue :
           /\ report' = [report EXCEPT !.considered = considered] /\ recorded' = recorded
           /\ run' = [run EXCEPT !.stage = "raised"] \/ run' = [run EXCEPT !.stage = "ask", !.queue = queue]
  BY DEF Screen
<1>. QED  BY <1>2, <1>3, <1>4

LEMMA EndRunAccount == ASSUME AccountInv, EndRun PROVE AccountInv'
<1>1. run.stage \in {"diff", "ask"} /\ \E status, considered : Return(status, considered)
  BY DEF EndRun
<1>. QED  BY <1>1, ReturnAccount

LEMMA ConvinceAccount == ASSUME AccountInv, Convince PROVE AccountInv'
<1>1. /\ run.stage = "judge" /\ run' = [run EXCEPT !.stage = "assess"]
      /\ report' = report /\ recorded' = recorded
  BY DEF Convince
<1>2. RunShape(run') /\ run'.stage = "assess"  BY <1>1, StageKeeps DEF AccountInv, AccountTyped
<1>3. Open(run'.stage) = Open(run.stage)  BY <1>1, <1>2 DEF Open
<1>4. Counted(report')  BY <1>1 DEF AccountInv, AccountTyped
<1>. QED  BY <1>1, <1>2, <1>3, <1>4, CountsStay

LEMMA JudgeRaisesAccount == ASSUME AccountInv, JudgeRaises PROVE AccountInv'
<1>1. /\ run.stage = "judge" /\ run' = [run EXCEPT !.stage = "raised"]
      /\ report' = report /\ recorded' = recorded
  BY DEF JudgeRaises
<1>2. RunShape(run') /\ run'.stage = "raised"  BY <1>1, StageKeeps DEF AccountInv, AccountTyped
<1>3. Counted(report')  BY <1>1 DEF AccountInv, AccountTyped
<1>. QED  BY <1>1, <1>2, <1>3, CountsStay

(* A row that is written closes the attempt, in the report and in the      *)
(* ledger; one that cannot be written leaves the findings as they were.    *)
LEMMA RecordAccount ==
  ASSUME AccountInv, run.stage \in {"judge", "assess"}, NEW oracle, NEW finding,
         NEW after, RunShape(after), after.stage = "ask",
         NEW rep, Counted(rep), Record(oracle, finding, after, rep),
         rep.attempts = report.attempts, rep.generated = report.generated, rep.stops = report.stops,
         rep.dropped["unsafe"] = report.dropped["unsafe"],
         oracle # "catching" =>
           /\ rep.findings = report.findings
           /\ Cardinality(Units(rep.dropped)) = Cardinality(Units(report.dropped)) + 1,
         oracle = "catching" =>
           rep.findings = Append(report.findings, finding) /\ Units(rep.dropped) = Units(report.dropped)
  PROVE  AccountInv'
<1>1. RunShape(run) /\ Counted(report) /\ IsSeq(report.findings) /\ IsSeq(recorded)
  BY DEF AccountInv, AccountTyped, Counted
<1>2. CASE /\ run' = [run EXCEPT !.stage = "raised"] /\ recorded' = recorded
           /\ report' = [rep EXCEPT !.findings = report.findings, !.latent = report.latent]
  <2>1. report' = [status |-> rep.status, considered |-> rep.considered, attempts |-> rep.attempts,
                   requests |-> rep.requests, throttled |-> rep.throttled, generated |-> rep.generated,
                   stops |-> rep.stops, dropped |-> rep.dropped, findings |-> report.findings,
                   latent |-> report.latent]
    BY <1>2 DEF Counted, ReportShape
  <2>2. /\ ReportShape(report') /\ report'.attempts = rep.attempts /\ report'.generated = rep.generated
        /\ report'.stops = rep.stops /\ report'.dropped = rep.dropped
        /\ report'.findings = report.findings
    BY <2>1 DEF ReportShape
  <2>3. Counted(report')  BY <1>1, <2>2 DEF Counted
  <2>4. RunShape(run') /\ run'.stage = "raised"  BY <1>1, <1>2, StageKeeps
  <2>5. AccountTyped'  BY <1>1, <1>2, <2>3, <2>4 DEF AccountTyped
  <2>6. Balanced'  BY <2>4 DEF Balanced
  <2>. QED  BY <1>2, <2>2, <2>5, <2>6 DEF AccountInv
<1>3. CASE run' = after /\ recorded' = Append(recorded, <<oracle, finding>>) /\ report' = rep
  <2>1. AccountTyped'
    <3>1. IsSeq(recorded')  BY <1>1, <1>3, AppendIsSeq
    <3>. QED  BY <1>3, <3>1 DEF AccountTyped
  <2>2. Balanced'
    <3>. DEFINE u == Cardinality(Units(report.dropped))   f == Len(report.findings)
                n == Len(recorded)   d == report.dropped["unsafe"]
    <3>1. /\ report.attempts = u + f + report.stops + 1 /\ report.generated = n + d + 1
          /\ u \in Nat /\ f \in Nat /\ n \in Nat /\ d \in Nat /\ report.stops \in Nat
      <4>1. Balance(report, recorded, 1)  BY DEF AccountInv, Balanced, Open
      <4>. QED  BY <4>1, BalanceTyped DEF Balance
    <3>2. Len(recorded') = Len(recorded) + 1  BY <1>1, <1>3, AppendIsSeq
    <3>3. ASSUME oracle # "catching" PROVE Balance(rep, recorded', 0)
      <4>1. /\ Len(rep.findings) = Len(report.findings)
            /\ Cardinality(Units(rep.dropped)) = Cardinality(Units(report.dropped)) + 1
        BY <3>3
      <4>2. rep.dropped["unsafe"] = d  OBVIOUS
      <4>. HIDE DEF u, f, n, d
      <4>3. rep.attempts = (u + 1) + f + rep.stops + 0 /\ rep.generated = (n + 1) + d + 0
        BY <3>1
      <4>. QED  BY <3>2, <4>1, <4>2, <4>3 DEF Balance, u, f, n
    <3>4. ASSUME oracle = "catching" PROVE Balance(rep, recorded', 0)
      <4>1. /\ Len(rep.findings) = Len(report.findings) + 1
            /\ Cardinality(Units(rep.dropped)) = Cardinality(Units(report.dropped))
        BY <3>4, <1>1, AppendIsSeq
      <4>2. rep.dropped["unsafe"] = d  OBVIOUS
      <4>. HIDE DEF u, f, n, d
      <4>3. rep.attempts = u + (f + 1) + rep.stops + 0 /\ rep.generated = (n + 1) + d + 0
        BY <3>1
      <4>. QED  BY <3>2, <4>1, <4>2, <4>3 DEF Balance, u, f, n
    <3>. QED  BY <1>3, <3>3, <3>4 DEF Balanced, Open
  <2>3. Tells(recorded, report.findings)'
    <3>1. Tells(recorded, report.findings)  BY DEF AccountInv
    <3>. QED  BY <1>1, <1>3, <3>1, RowAppended
  <2>. QED  BY <2>1, <2>2, <2>3 DEF AccountInv
<1>. QED  BY <1>2, <1>3 DEF Record

LEMMA DiscardAccount == ASSUME AccountInv, OracleInv, Discard PROVE AccountInv'
<1>1. Counted(report) /\ RunShape(run)  BY DEF AccountInv, AccountTyped
<1>2. run.stage = "judge" /\ check.stage = "ruled" /\ check.verdict # "catching"  BY DEF Discard
<1>3. check.verdict \in Causes \ {"short_circuit"} /\ check.verdict # "unsafe"
  <2>1. check.verdict \in Dispositions \ {"catching"}  BY <1>2 DEF OracleInv, OracleTyped
  <2>. QED  BY <2>1, CauseNames
<1>. DEFINE dropped == Drop(report, check.verdict)
            oracle == IF Latent THEN "latent" ELSE "discarded"
            rep == IF Latent /\ LatentMode
                     THEN [dropped EXCEPT !.latent = Append(dropped.latent, Finding(FALSE))] ELSE dropped
<1>4. /\ Counted(dropped) /\ dropped.attempts = report.attempts /\ dropped.generated = report.generated
      /\ dropped.stops = report.stops /\ dropped.findings = report.findings
      /\ Cardinality(Units(dropped.dropped)) = Cardinality(Units(report.dropped)) + 1
      /\ dropped.dropped["unsafe"] = report.dropped["unsafe"]
  BY <1>1, <1>3, DropKeeps
<1>5. Record(oracle, Finding(FALSE), NextAttempt, rep)  BY DEF Discard
<1>6. oracle # "catching"  OBVIOUS
<1>. HIDE DEF dropped, oracle
<1>7. /\ ReportShape(rep) /\ rep.attempts = dropped.attempts /\ rep.generated = dropped.generated
      /\ rep.stops = dropped.stops /\ rep.findings = dropped.findings /\ rep.dropped = dropped.dropped
  <2>. DEFINE longer == Append(dropped.latent, Finding(FALSE))
              other == [dropped EXCEPT !.latent = longer]
  <2>1. rep = other \/ rep = dropped  OBVIOUS
  <2>. HIDE DEF longer, rep
  <2>2. /\ ReportShape(other) /\ other.attempts = dropped.attempts /\ other.generated = dropped.generated
        /\ other.stops = dropped.stops /\ other.findings = dropped.findings
        /\ other.dropped = dropped.dropped
    BY <1>4 DEF Counted, ReportShape
  <2>. QED  BY <2>1, <2>2, <1>4 DEF Counted
<1>. HIDE DEF rep
<1>8. Counted(rep)  BY <1>4, <1>7 DEF Counted
<1>9. /\ rep.attempts = report.attempts /\ rep.generated = report.generated /\ rep.stops = report.stops
      /\ rep.findings = report.findings /\ rep.dropped["unsafe"] = report.dropped["unsafe"]
      /\ Cardinality(Units(rep.dropped)) = Cardinality(Units(report.dropped)) + 1
  BY <1>4, <1>7
<1>10. RunShape(NextAttempt) /\ NextAttempt.stage = "ask"  BY <1>1, NextKeeps
<1>. QED  BY <1>2, <1>5, <1>6, <1>8, <1>9, <1>10, RecordAccount

LEMMA AssessAccount == ASSUME AccountInv, Assess PROVE AccountInv'
<1>1. Counted(report) /\ RunShape(run) /\ IsSeq(report.findings)  BY DEF AccountInv, AccountTyped, Counted
<1>2. run.stage = "assess"  BY DEF Assess
<1>3. PICK should_report, n :
        Record("catching", Finding(should_report), NextTarget,
               [report EXCEPT !.requests = n, !.findings = Append(report.findings, Finding(should_report))])
  BY DEF Assess
<1>. DEFINE longer == Append(report.findings, Finding(should_report))
            rep == [report EXCEPT !.requests = n, !.findings = longer]
<1>4. IsSeq(longer)  BY <1>1, AppendIsSeq
<1>5. Record("catching", Finding(should_report), NextTarget, rep)  BY <1>3
<1>6. longer = Append(report.findings, Finding(should_report))  OBVIOUS
<1>. HIDE DEF longer
<1>7. rep = [status |-> report.status, considered |-> report.considered, attempts |-> report.attempts,
             requests |-> n, throttled |-> report.throttled, generated |-> report.generated,
             stops |-> report.stops, dropped |-> report.dropped, findings |-> longer,
             latent |-> report.latent]
  <2>1. rep = [report EXCEPT !.requests = n, !.findings = longer]  OBVIOUS
  <2>2. ReportShape(report)  BY <1>1 DEF Counted
  <2>. HIDE DEF rep
  <2>. QED  BY <2>1, <2>2 DEF ReportShape
<1>. HIDE DEF rep
<1>8. /\ ReportShape(rep) /\ rep.attempts = report.attempts /\ rep.generated = report.generated
      /\ rep.stops = report.stops /\ rep.dropped = report.dropped /\ rep.findings = longer
  BY <1>7 DEF ReportShape
<1>9. Counted(rep)  BY <1>1, <1>4, <1>8 DEF Counted
<1>10. rep.dropped["unsafe"] = report.dropped["unsafe"] /\ Units(rep.dropped) = Units(report.dropped)
  BY <1>8
<1>11. RunShape(NextTarget) /\ NextTarget.stage = "ask"  BY <1>1, NextKeeps
<1>. QED  BY <1>2, <1>5, <1>6, <1>8, <1>9, <1>10, <1>11, RecordAccount

LEMMA FreshAccount ==
  /\ Counted(NoReport) /\ Balance(NoReport, <<>>, 0) /\ Tells(<<>>, NoReport.findings)
  /\ IsSeq(<<>>) /\ RunShape(NoRun)
<1>. DEFINE none == [c \in Causes |-> 0]
<1>1. none \in [Causes -> Nat] /\ Units(none) = {} /\ none["unsafe"] = 0
  <2>1. "unsafe" \in Causes  BY CauseNames
  <2>2. none["unsafe"] = 0  BY <2>1
  <2>3. ASSUME NEW u \in Units(none) PROVE FALSE
    <3>1. PICK c \in Causes : u \in {c} \X (1..none[c])  BY <2>3 DEF Units
    <3>2. none[c] = 0  OBVIOUS
    <3>. QED  BY <3>1, <3>2
  <2>. QED  BY <2>2, <2>3
<1>. HIDE DEF none
<1>2. NoReport = [status |-> "ok", considered |-> 0, attempts |-> 0, requests |-> 0, throttled |-> 0,
                  generated |-> 0, stops |-> 0, dropped |-> none, findings |-> <<>>, latent |-> <<>>]
  BY DEF NoReport, none
<1>3. /\ ReportShape(NoReport) /\ NoReport.attempts = 0 /\ NoReport.generated = 0 /\ NoReport.stops = 0
      /\ NoReport.dropped = none /\ NoReport.findings = <<>>
  BY <1>2 DEF ReportShape
<1>4. IsFiniteSet({}) /\ Cardinality({}) = 0  BY FS_EmptySet
<1>5. IsSeq(<<>>) /\ Len(<<>>) = 0
  <2>1. <<>> \in Seq({})  OBVIOUS
  <2>. QED  BY <2>1 DEF IsSeq
<1>5a. /\ Units(NoReport.dropped) = {} /\ NoReport.dropped["unsafe"] = 0
       /\ NoReport.dropped \in [Causes -> Nat]
  BY <1>1, <1>3
<1>6. Counted(NoReport)
  <2>1. IsFiniteSet(Units(NoReport.dropped))  BY <1>4, <1>5a
  <2>2. IsSeq(NoReport.findings)  BY <1>3, <1>5
  <2>. QED  BY <1>3, <1>5a, <2>1, <2>2 DEF Counted
<1>7. Balance(NoReport, <<>>, 0)
  <2>1. Cardinality(Units(NoReport.dropped)) = 0  BY <1>4, <1>5a
  <2>2. Len(NoReport.findings) = 0  BY <1>3, <1>5
  <2>. QED  BY <1>3, <1>5, <1>5a, <2>1, <2>2 DEF Balance
<1>8. CatchingIn(<<>>, Len(<<>>)) = {}  BY <1>5 DEF CatchingIn
<1>9. Tells(<<>>, NoReport.findings)  BY <1>3, <1>4, <1>5, <1>8 DEF Tells
<1>10. RunShape(NoRun)  BY PipelineAssumption DEF RunShape, NoRun
<1>. QED  BY <1>5, <1>6, <1>7, <1>9, <1>10

LEMMA BeginAccount == ASSUME NEW p, NEW threshold, BeginRun(p, threshold) PROVE AccountInv'
<1>1. /\ report' = NoReport /\ recorded' = <<>>
      /\ run' = [NoRun EXCEPT !.stage = "diff", !.pair = p, !.threshold = threshold]
  BY DEF BeginRun
<1>2. run' = [stage |-> "diff", pair |-> p, threshold |-> threshold, queue |-> <<>>, attempt |-> 1]
  BY <1>1 DEF NoRun
<1>3. RunShape(run') /\ run'.stage = "diff"  BY <1>2, PipelineAssumption DEF RunShape
<1>. QED  BY <1>1, <1>3, FreshAccount DEF AccountInv, AccountTyped, Balanced, Open

LEMMA OverAccount == ASSUME RunOver PROVE AccountInv'
<1>1. run' = NoRun /\ report' = NoReport /\ recorded' = <<>> /\ NoRun.stage = "idle"
  BY DEF RunOver, NoRun
<1>. QED  BY <1>1, FreshAccount DEF AccountInv, AccountTyped, Balanced, Open

LEMMA AccountStays == ASSUME AccountInv, UNCHANGED pipelineVars PROVE AccountInv'
BY DEF pipelineVars, AccountInv, AccountTyped, Balanced

LEMMA AccountHolds == Spec => []AccountInv
<1>1. Init => AccountInv
  <2> SUFFICES ASSUME Init PROVE AccountInv  OBVIOUS
  <2>1. run = NoRun /\ report = NoReport /\ recorded = <<>> /\ NoRun.stage = "idle"
    BY DEF Init, PipelineInit, NoRun
  <2>. QED  BY <2>1, FreshAccount DEF AccountInv, AccountTyped, Balanced, Open
<1>2. AccountInv /\ OracleInv /\ [Next]_vars => AccountInv'
  <2> SUFFICES ASSUME AccountInv, OracleInv, [Next]_vars PROVE AccountInv'  OBVIOUS
  <2>1. CASE CloneFails \/ EnsureRepo \/ SummarizeBugs \/ FinishRung
    BY <2>1, AccountStays DEF CloneFails, EnsureRepo, SummarizeBugs, FinishRung
  <2>2. CASE EvaluateOne  BY <2>2, AccountStays, BeginAccount DEF EvaluateOne
  <2>3. CASE BugDone \/ BugRaised \/ Kill \/ PairDone
    BY <2>3, OverAccount DEF BugDone, BugRaised, Kill, PairDone
  <2>4. CASE StartPair  BY <2>4, BeginAccount DEF StartPair
  <2>5. CASE RunPipeline
    <3>1. CASE Screen  BY <3>1, ScreenAccount
    <3>2. CASE BudgetRefuses  BY <3>2, BudgetAccount
    <3>3. CASE ModelFails  BY <3>3, FailAccount
    <3>4. CASE ModelGone  BY <3>4, GoneAccount
    <3>5. CASE ModelDeclines  BY <3>5, DeclineAccount
    <3>6. CASE Unusable  BY <3>6, UnusableAccount
    <3>7. CASE Generate  BY <3>7, GenerateAccount
    <3>8. CASE Judge  BY <3>8, AccountStays DEF Judge
    <3>9. CASE Discard  BY <3>9, DiscardAccount
    <3>10. CASE Convince  BY <3>10, ConvinceAccount
    <3>11. CASE Assess  BY <3>11, AssessAccount
    <3>12. CASE EndRun  BY <3>12, EndRunAccount
    <3>13. CASE JudgeRaises  BY <3>13, JudgeRaisesAccount
    <3>. QED  BY <2>5, <3>1, <3>2, <3>3, <3>4, <3>5, <3>6, <3>7, <3>8, <3>9, <3>10, <3>11, <3>12, <3>13
              DEF RunPipeline, PipelineStep
  <2>6. CASE UNCHANGED vars  BY <2>6, AccountStays DEF vars
  <2>. QED  BY <2>1, <2>2, <2>3, <2>4, <2>5, <2>6 DEF Next
<1>3. Spec => []OracleInv  BY BenchmarkImplementsOracle, OracleHolds, PTL
<1>. QED  BY <1>1, <1>2, <1>3, PTL DEF Spec

(* However the model answers and whatever the oracle rules, each call of   *)
(* llm.complete ends in exactly one way, and the ledger tells the story of *)
(* the report: in any benchmark run, for any targets, limits and rungs.    *)
THEOREM AttemptsAreAccounted == Spec => []AttemptsAccounted
<1>1. AccountInv => AttemptsAccounted
  <2> SUFFICES ASSUME AccountInv PROVE AttemptsAccounted  OBVIOUS
  <2>1. ASSUME run.stage = "returned"
        PROVE  /\ report.attempts = Cardinality(Units(report.dropped)) + Len(report.findings) + report.stops
               /\ report.generated = Len(recorded) + report.dropped["unsafe"]
    <3>1. Balance(report, recorded, 0)  BY <2>1 DEF AccountInv, Balanced, Open
    <3>. QED  BY <3>1, BalanceTyped DEF Balance
  <2>2. \A last : CatchingIn(recorded, last) = Catching(last)  BY DEF CatchingIn, Catching
  <2>. QED  BY <2>1, <2>2 DEF AccountInv, Tells, AttemptsAccounted
<1>. QED  BY <1>1, AccountHolds, PTL

-----------------------------------------------------------------------------
(* Where an execution leaves the check. *)
LEMMA RunSideEnds ==
  ASSUME OracleInv, RunSide
  PROVE  \E stage :
           LET n == IF Side = "head" THEN check.heads + 1 ELSE check.heads
           IN  /\ check'.heads = n /\ check'.stage = stage
               /\ stage = "ruled" \/ (Side = "head" /\ stage = IF n >= Reruns THEN "verify_base" ELSE "run_head")
<1>. DEFINE n == IF Side = "head" THEN check.heads + 1 ELSE check.heads
<1>. SUFFICES \E stage :
                /\ check'.heads = n /\ check'.stage = stage
                /\ stage = "ruled" \/ (Side = "head" /\ stage = IF n >= Reruns THEN "verify_base" ELSE "run_head")
  OBVIOUS
<1>0. check \in [stage : Stages, cand : Candidates \cup {NoCandidate}, heads : Nat,
                 runners : SUBSET Runners, excused : BOOLEAN, verdict : Dispositions \cup {"none"}]
  BY DEF OracleInv, OracleTyped
<1>1. PICK runner, does :
        LET outcome == RunOutcome(does, runner)
            after == [check EXCEPT !.runners = @ \cup {runner},
                                   !.heads = IF Side = "head" THEN @ + 1 ELSE @]
            enough == after.heads >= Reruns
        IN  check' =
              IF Side = "base" THEN [after EXCEPT !.stage = "ruled", !.verdict = BaseVerdict(outcome)]
              ELSE IF outcome # "FAIL"
                THEN [after EXCEPT !.stage = "ruled", !.verdict = HeadVerdict(check.heads = 0, outcome)]
              ELSE [after EXCEPT !.stage = IF enough THEN "verify_base" ELSE "run_head"]
  BY DEF RunSide
<1>. DEFINE rs == check.runners \cup {runner}
            after == [check EXCEPT !.runners = rs, !.heads = n]
<1>2. \/ \E v : check' = [after EXCEPT !.stage = "ruled", !.verdict = v]
      \/ /\ check' = [after EXCEPT !.stage = IF after.heads >= Reruns THEN "verify_base" ELSE "run_head"]
         /\ Side # "base"
  BY <1>1
<1>3. Side \in {"head", "base"}  BY DEF Side
<1>4. after = [check EXCEPT !.runners = rs, !.heads = n]  OBVIOUS
<1>. HIDE DEF after, rs, n
<1>5. /\ after.heads = n
      /\ after = [stage |-> after.stage, cand |-> after.cand, heads |-> after.heads,
                  runners |-> after.runners, excused |-> after.excused, verdict |-> after.verdict]
  BY <1>4, <1>0
<1>6. CASE \E v : check' = [after EXCEPT !.stage = "ruled", !.verdict = v]
  BY <1>5, <1>6
<1>7. CASE /\ check' = [after EXCEPT !.stage = IF after.heads >= Reruns THEN "verify_base" ELSE "run_head"]
           /\ Side # "base"
  BY <1>3, <1>5, <1>7
<1>. QED  BY <1>2, <1>6, <1>7

(* No candidate is executed on the head more often than it has to be. *)
HeadsBound ==
  /\ check.heads <= Reruns + 1
  /\ check.stage \in {"verify_head", "run_head"} => check.heads = 0 \/ check.heads < Reruns

LEMMA HeadsHold == OracleSpec => []HeadsBound
<1>1. Worktrees => HeadsBound
  BY OracleAssumption DEF Worktrees, NoCheck, HeadsBound
<1>2. OracleInv /\ HeadsBound /\ [OracleNext]_oracleVars => HeadsBound'
  <2> SUFFICES ASSUME OracleInv, HeadsBound, [OracleNext]_oracleVars PROVE HeadsBound'  OBVIOUS
  <2>. USE OracleAssumption
  <2>1. check \in [stage : Stages, cand : Candidates \cup {NoCandidate}, heads : Nat,
                   runners : SUBSET Runners, excused : BOOLEAN, verdict : Dispositions \cup {"none"}]
    BY DEF OracleInv, OracleTyped
  <2>2. CASE VerifySide
    <3>1. check'.heads = check.heads  BY <2>1, <2>2 DEF VerifySide, Ends
    <3>2. check'.stage = "run_head" => check.stage = "verify_head"  BY <2>1, <2>2 DEF VerifySide, Ends
    <3>3. check'.stage # "verify_head"  BY <2>1, <2>2 DEF VerifySide, Ends
    <3>. QED  BY <3>1, <3>2, <3>3 DEF HeadsBound
  <2>3. CASE RunSide
    <3>. DEFINE n == IF Side = "head" THEN check.heads + 1 ELSE check.heads
    <3>1. PICK stage :
            /\ check'.heads = n /\ check'.stage = stage
            /\ stage = "ruled" \/ (Side = "head" /\ stage = IF n >= Reruns THEN "verify_base" ELSE "run_head")
      BY <2>3, RunSideEnds
    <3>. HIDE DEF n
    <3>2. check'.heads = n /\ check'.stage = stage  BY <3>1
    <3>3. check.heads \in Nat  BY <2>1
    <3>4. n <= Reruns + 1 /\ n \in Nat
      <4>1. Side = "head" => check.stage \in {"verify_head", "run_head"}  BY DEF Side
      <4>. QED  BY <4>1, <3>3 DEF n, HeadsBound
    <3>. QED  BY <3>1, <3>2, <3>4 DEF HeadsBound
  <2>4. CASE StrayWrites  BY <2>4 DEF StrayWrites, HeadsBound
  <2>5. ASSUME NEW c \in Candidates, BeginCheck(c) PROVE HeadsBound'
    BY <2>5 DEF BeginCheck, NoCheck, HeadsBound
  <2>6. CASE EndCheck \/ FreshWorktrees  BY <2>6 DEF EndCheck, FreshWorktrees, NoCheck, HeadsBound
  <2>7. CASE UNCHANGED oracleVars  BY <2>7 DEF oracleVars, HeadsBound
  <2>. QED  BY <2>2, <2>3, <2>4, <2>5, <2>6, <2>7 DEF OracleNext, OracleStep
<1>. QED  BY <1>1, <1>2, OracleHolds, PTL DEF OracleSpec

(* No more is ranked than may be. *)
LEMMA RankIsShort ==
  ASSUME NEW p \in Pairs, NEW threshold
  PROVE  IsSeq(Rank(p, threshold)) /\ Len(Rank(p, threshold)) \in 0..MaxTargets
<1>. DEFINE above == {t \in Kept(p) : Score[t] >= threshold}
            most == IF Cardinality(above) < MaxTargets THEN Cardinality(above) ELSE MaxTargets
            at(i) == CHOOSE t \in above : Cardinality({u \in above : Score[u] > Score[t]}) = i - 1
<1>1. Cardinality(above) \in Nat
  <2>1. above \in SUBSET Targets  BY PipelineAssumption DEF Kept
  <2>. HIDE DEF above
  <2>2. IsFiniteSet(Targets)  BY PipelineAssumption
  <2>. QED  BY <2>1, <2>2, FS_Subset, FS_CardinalityType
<1>2. most \in 0..MaxTargets  BY <1>1, PipelineAssumption
<1>3. Rank(p, threshold) = [i \in 1..most |-> at(i)]  BY DEF Rank
<1>. HIDE DEF above, most, at
<1>4. [i \in 1..most |-> at(i)] \in Seq({at(i) : i \in 1..most})  BY <1>2
<1>5. Len([i \in 1..most |-> at(i)]) = most  BY <1>2
<1>. QED  BY <1>2, <1>3, <1>4, <1>5 DEF IsSeq

(* The bounds of a run: the attempts made and those to come fit, and two   *)
(* requests at most belong to an attempt, its own and the assessor's.      *)
Running == {"diff", "ask", "judge", "assess", "returned", "raised"}
ToCome(r) == IF r.queue = <<>> THEN 0
             ELSE (Len(r.queue) - 1) * PerTarget + (PerTarget - r.attempt) + 1
Places ==
  /\ run.stage \in {"idle"} \cup Running
  /\ run.stage \in {"judge", "assess"} <=> check.stage # "none"
  /\ run.stage \in {"judge", "assess"} => run.queue # <<>>
  /\ run.stage \in {"idle", "diff"} => run.attempt = 1 /\ report.attempts = 0
Bounded ==
  /\ IsSeq(run.queue) /\ Len(run.queue) <= MaxTargets /\ report.considered <= MaxTargets
  /\ report.attempts <= MaxTargets * PerTarget /\ report.generated <= report.attempts
  /\ run.stage = "ask" => report.attempts + ToCome(run) <= MaxTargets * PerTarget
  /\ run.stage \in {"judge", "assess"} => report.attempts + ToCome(run) <= MaxTargets * PerTarget + 1
Requested ==
  /\ report.requests \in Nat /\ report.requests <= 2 * report.attempts
  /\ run.stage # "raised" => report.requests <= report.attempts + Len(report.findings)
WorkInv == Places /\ Bounded /\ Requested

LEMMA Products ==
  ASSUME NEW a \in Nat, NEW b \in Nat, NEW c \in Nat, a <= b
  PROVE  a * c \in Nat /\ a * c <= b * c /\ (a # 0 => (a - 1) * c \in Nat /\ a * c = (a - 1) * c + c)
<1>1. PICK d \in Nat : b = a + d  OBVIOUS
<1>2. b * c = a * c + d * c  BY <1>1
<1>3. a * c \in Nat /\ d * c \in Nat  OBVIOUS
<1>4. a # 0 => a - 1 \in Nat  OBVIOUS
<1>5. a # 0 => (a - 1) * c \in Nat  BY <1>4
<1>6. a # 0 => a * c = (a - 1) * c + c  OBVIOUS
<1>. QED  BY <1>2, <1>3, <1>5, <1>6

LEMMA TailIsSeq ==
  ASSUME NEW s, IsSeq(s), s # <<>>
  PROVE  IsSeq(Tail(s)) /\ Len(s) \in Nat \ {0} /\ Len(Tail(s)) = Len(s) - 1
<1>1. PICK S : s \in Seq(S)  BY DEF IsSeq
<1>2. Tail(s) \in Seq(S) /\ Len(Tail(s)) = Len(s) - 1  BY <1>1
<1>. QED  BY <1>1, <1>2 DEF IsSeq

(* Each attempt that ends leaves one less to come. *)
LEMMA NextIsLess ==
  ASSUME RunShape(run), IsSeq(run.queue), run.queue # <<>>,
         NEW r, r = NextTarget \/ r = NextAttempt \/ r = [run EXCEPT !.queue = <<>>]
  PROVE  /\ RunShape(r) /\ IsSeq(r.queue) /\ Len(r.queue) <= Len(run.queue)
         /\ ToCome(r) \in Nat /\ ToCome(run) \in Nat /\ ToCome(r) + 1 <= ToCome(run)
<1>. DEFINE n == Len(run.queue)
<1>1. PerTarget \in Nat \ {0} /\ run.attempt \in 1..PerTarget  BY PipelineAssumption DEF RunShape
<1>2. IsSeq(Tail(run.queue)) /\ n \in Nat \ {0} /\ Len(Tail(run.queue)) = n - 1  BY TailIsSeq
<1>3. (n - 1) * PerTarget \in Nat
  <2>1. n - 1 \in Nat  BY <1>2
  <2>. QED  BY <2>1, <1>1
<1>4. ToCome(run) = (n - 1) * PerTarget + (PerTarget - run.attempt) + 1  BY DEF ToCome
<1>5. ToCome(run) \in Nat /\ ToCome(run) >= (n - 1) * PerTarget + 1
  <2>1. PerTarget - run.attempt \in Nat  BY <1>1
  <2>. HIDE DEF n
  <2>. QED  BY <1>3, <1>4, <2>1
<1>6. IsSeq(<<>>) /\ Len(<<>>) = 0  BY FreshAccount
<1>7. CASE r = [run EXCEPT !.queue = <<>>]
  <2>1. RunShape(r) /\ r.queue = <<>>  BY <1>7 DEF RunShape
  <2>2. ToCome(r) = 0  BY <2>1 DEF ToCome
  <2>. QED  BY <2>1, <2>2, <1>2, <1>3, <1>5, <1>6
<1>8. CASE r = NextTarget
  <2>1. r = [stage |-> "ask", pair |-> run.pair, threshold |-> run.threshold,
             queue |-> Tail(run.queue), attempt |-> 1]
    <3>1. r = [run EXCEPT !.stage = "ask", !.queue = Tail(run.queue), !.attempt = 1]
      BY <1>8 DEF NextTarget
    <3>. QED  BY <3>1 DEF RunShape
  <2>2. RunShape(r) /\ r.queue = Tail(run.queue) /\ r.attempt = 1  BY <2>1, <1>1 DEF RunShape
  <2>3. CASE Tail(run.queue) = <<>>
    <3>1. ToCome(r) = 0  BY <2>2, <2>3 DEF ToCome
    <3>. QED  BY <2>2, <3>1, <1>2, <1>3, <1>5
  <2>4. CASE Tail(run.queue) # <<>>
    <3>1. Len(Tail(run.queue)) # 0  BY <2>4, <1>2, TailIsSeq
    <3>2. n - 1 \in Nat /\ n - 1 # 0  BY <3>1, <1>2
    <3>3. /\ (n - 1) * PerTarget = ((n - 1) - 1) * PerTarget + PerTarget
          /\ ((n - 1) - 1) * PerTarget \in Nat
      <4>. DEFINE m == n - 1
      <4>1. m \in Nat /\ m # 0 /\ m <= m /\ PerTarget \in Nat  BY <3>2, <1>1
      <4>. HIDE DEF m
      <4>2. m * PerTarget = (m - 1) * PerTarget + PerTarget /\ (m - 1) * PerTarget \in Nat
        BY <4>1, Products
      <4>. QED  BY <4>2 DEF m
    <3>4. ToCome(r) = ((n - 1) - 1) * PerTarget + (PerTarget - 1) + 1
      BY <2>2, <2>4, <1>2 DEF ToCome
    <3>. HIDE DEF n
    <3>5. ToCome(r) = (n - 1) * PerTarget  BY <3>3, <3>4, <1>1, <1>3
    <3>. QED  BY <2>2, <3>5, <1>2, <1>3, <1>5 DEF n
  <2>. QED  BY <2>3, <2>4
<1>9. CASE r = NextAttempt /\ run.attempt # PerTarget
  <2>1. r = [run EXCEPT !.stage = "ask", !.attempt = run.attempt + 1]  BY <1>9 DEF NextAttempt
  <2>2. run.attempt + 1 \in 1..PerTarget  BY <1>1, <1>9
  <2>3. RunShape(r) /\ r.queue = run.queue /\ r.attempt = run.attempt + 1
    BY <2>1, <2>2 DEF RunShape
  <2>4. ToCome(r) = (n - 1) * PerTarget + (PerTarget - (run.attempt + 1)) + 1
    BY <2>3 DEF ToCome
  <2>5. PerTarget - (run.attempt + 1) \in Nat /\ PerTarget - run.attempt = PerTarget - (run.attempt + 1) + 1
    BY <2>2, <1>1
  <2>6. ToCome(r) \in Nat /\ ToCome(r) + 1 <= ToCome(run)
    <3>. HIDE DEF n
    <3>. QED  BY <2>4, <2>5, <1>3, <1>4
  <2>. QED  BY <2>3, <2>6, <1>2, <1>5
<1>10. CASE r = NextAttempt /\ run.attempt = PerTarget  BY <1>8, <1>10 DEF NextAttempt
<1>. QED  BY <1>7, <1>8, <1>9, <1>10

(* How the actions of the pipeline change what an attempt costs.           *)
LEMMA AskedBounds ==
  ASSUME AccountInv, WorkInv, Asking,
         run' = NextTarget \/ run' = NextAttempt \/ run' = [run EXCEPT !.queue = <<>>],
         NEW r, r = Asked \/ r = Answered, recorded' = recorded, UNCHANGED check,
         report'.attempts = r.attempts, report'.requests = r.requests, report'.findings = r.findings,
         report'.considered = r.considered, report'.generated \in {r.generated, r.generated + 1}
  PROVE  WorkInv'
<1>1. /\ RunShape(run) /\ Counted(report) /\ IsSeq(run.queue) /\ run.queue # <<>> /\ run.stage = "ask"
  BY DEF AccountInv, AccountTyped, WorkInv, Bounded, Asking
<1>2. /\ RunShape(run') /\ IsSeq(run'.queue) /\ Len(run'.queue) <= Len(run.queue)
      /\ ToCome(run') \in Nat /\ ToCome(run) \in Nat /\ ToCome(run') + 1 <= ToCome(run)
  BY <1>1, NextIsLess
<1>3. run'.stage = "ask"
  <2>1. CASE run' = [run EXCEPT !.queue = <<>>]  BY <2>1, <1>1 DEF RunShape
  <2>. QED  BY <2>1, <1>1, NextKeeps
<1>4. /\ r.attempts = report.attempts + 1 /\ r.requests \in {report.requests, report.requests + 1}
      /\ r.findings = report.findings /\ r.considered = report.considered
      /\ r.generated = report.generated
  <2>1. ReportShape(report) /\ report.requests \in Nat  BY <1>1 DEF Counted, WorkInv, Requested
  <2>2. CASE r = Asked  BY <2>1, <2>2 DEF Asked, ReportShape
  <2>3. CASE r = Answered
    <3>1. r = [status |-> report.status, considered |-> report.considered, attempts |-> report.attempts + 1,
               requests |-> report.requests + 1, throttled |-> report.throttled,
               generated |-> report.generated, stops |-> report.stops, dropped |-> report.dropped,
               findings |-> report.findings, latent |-> report.latent]
      BY <2>1, <2>3 DEF Answered, ReportShape
    <3>. QED  BY <3>1
  <2>. QED  BY <2>2, <2>3
<1>5. /\ report.attempts \in Nat /\ report.generated \in Nat /\ report.requests \in Nat
      /\ Len(report.findings) \in Nat /\ MaxTargets * PerTarget \in Nat
  <2>1. MaxTargets * PerTarget \in Nat  BY PipelineAssumption
  <2>. QED  BY <2>1, BalanceTyped DEF WorkInv, Requested
<1>6. Places'  BY <1>1, <1>3 DEF WorkInv, Places
<1>7. Bounded'
  <2>1. Len(run'.queue) <= MaxTargets
    <3>1. Len(run'.queue) \in Nat /\ Len(run.queue) \in Nat  BY <1>1, <1>2, AppendIsSeq
    <3>. QED  BY <3>1, <1>2, PipelineAssumption DEF WorkInv, Bounded
  <2>2. report.attempts + ToCome(run) <= MaxTargets * PerTarget  BY <1>1 DEF WorkInv, Bounded
  <2>3. report'.attempts + ToCome(run') <= MaxTargets * PerTarget /\ report'.attempts <= MaxTargets * PerTarget
    BY <2>2, <1>2, <1>4, <1>5
  <2>4. report'.generated <= report'.attempts /\ report'.considered <= MaxTargets
    BY <1>4, <1>5 DEF WorkInv, Bounded
  <2>. QED  BY <1>2, <1>3, <2>1, <2>3, <2>4 DEF Bounded
<1>8. Requested'
  <2>1. Len(report'.findings) = Len(report.findings)  BY <1>4
  <2>2. report.requests <= 2 * report.attempts /\ report.requests <= report.attempts + Len(report.findings)
    BY <1>1 DEF WorkInv, Requested
  <2>3. /\ report'.requests \in Nat /\ report'.requests <= report.requests + 1
        /\ report'.attempts = report.attempts + 1
    BY <1>4, <1>5
  <2>4. /\ report'.requests <= 2 * report'.attempts
        /\ report'.requests <= report'.attempts + Len(report'.findings)
    <3>. DEFINE q == report.requests   a == report.attempts   f == Len(report.findings)
                qq == report'.requests   aa == report'.attempts
    <3>1. q \in Nat /\ a \in Nat /\ f \in Nat /\ q <= 2 * a /\ q <= a + f  BY <2>2, <1>5
    <3>2. qq \in Nat /\ qq <= q + 1 /\ aa = a + 1  BY <2>3
    <3>. HIDE DEF q, a, f, qq, aa
    <3>3. qq <= 2 * aa /\ qq <= aa + f  BY <3>1, <3>2
    <3>. QED  BY <3>3, <2>1 DEF qq, aa, f
  <2>. QED  BY <2>3, <2>4 DEF Requested
<1>. QED  BY <1>6, <1>7, <1>8 DEF WorkInv

LEMMA AskedWork ==
  ASSUME AccountInv, WorkInv, BudgetRefuses \/ ModelFails \/ ModelGone \/ ModelDeclines \/ Unusable
  PROVE  WorkInv'
<1>1. Counted(Asked) /\ Counted(Answered)  BY AskedKeeps DEF AccountInv, AccountTyped
<1>2. ASSUME NEW rep, Counted(rep), NEW cause, NEW s, s = Drop(rep, cause)
      PROVE  /\ ReportShape(s) /\ s.attempts = rep.attempts /\ s.requests = rep.requests
             /\ s.findings = rep.findings /\ s.considered = rep.considered /\ s.generated = rep.generated
  <2>. DEFINE e == [rep.dropped EXCEPT ![cause] = @ + 1]
  <2>1. s = [rep EXCEPT !.dropped = e]  BY <1>2 DEF Drop
  <2>. HIDE DEF e
  <2>. QED  BY <2>1, <1>2 DEF Counted, ReportShape
<1>3. Asking /\ recorded' = recorded /\ UNCHANGED check
  BY DEF BudgetRefuses, ModelFails, ModelGone, ModelDeclines, Unusable, oracleVars
<1>4. CASE BudgetRefuses
  <2>1. report' = [Asked EXCEPT !.stops = @ + 1] /\ run' = NextTarget  BY <1>4 DEF BudgetRefuses
  <2>2. /\ report'.attempts = Asked.attempts /\ report'.requests = Asked.requests
        /\ report'.findings = Asked.findings /\ report'.considered = Asked.considered
        /\ report'.generated = Asked.generated
    BY <2>1, <1>1 DEF Counted, ReportShape
  <2>. QED  BY <1>3, <2>1, <2>2, AskedBounds
<1>5. CASE ModelFails
  <2>1. PICK cause, n : report' = [Drop(Asked, cause) EXCEPT !.throttled = n]  BY <1>5 DEF ModelFails
  <2>. DEFINE s == Drop(Asked, cause)
  <2>2. /\ ReportShape(s) /\ s.attempts = Asked.attempts /\ s.requests = Asked.requests
        /\ s.findings = Asked.findings /\ s.considered = Asked.considered
        /\ s.generated = Asked.generated
    BY <1>1, <1>2
  <2>3. report' = [s EXCEPT !.throttled = n]  BY <2>1
  <2>. HIDE DEF s
  <2>4. /\ report'.attempts = Asked.attempts /\ report'.requests = Asked.requests
        /\ report'.findings = Asked.findings /\ report'.considered = Asked.considered
        /\ report'.generated = Asked.generated
    BY <2>2, <2>3 DEF ReportShape
  <2>5. run' = NextAttempt  BY <1>5 DEF ModelFails
  <2>. QED  BY <1>3, <2>4, <2>5, AskedBounds
<1>6. CASE ModelGone
  <2>1. PICK status : report' = [Drop(Asked, status) EXCEPT !.status = status]  BY <1>6 DEF ModelGone
  <2>. DEFINE s == Drop(Asked, status)
  <2>2. /\ ReportShape(s) /\ s.attempts = Asked.attempts /\ s.requests = Asked.requests
        /\ s.findings = Asked.findings /\ s.considered = Asked.considered
        /\ s.generated = Asked.generated
    BY <1>1, <1>2
  <2>3. report' = [s EXCEPT !.status = status]  BY <2>1
  <2>. HIDE DEF s
  <2>4. /\ report'.attempts = Asked.attempts /\ report'.requests = Asked.requests
        /\ report'.findings = Asked.findings /\ report'.considered = Asked.considered
        /\ report'.generated = Asked.generated
    BY <2>2, <2>3 DEF ReportShape
  <2>5. run' = [run EXCEPT !.queue = <<>>]  BY <1>6 DEF ModelGone
  <2>. QED  BY <1>3, <2>4, <2>5, AskedBounds
<1>7. CASE ModelDeclines
  <2>. DEFINE s == Drop(Answered, "model_declined")
              e == [s.dropped EXCEPT !["short_circuit"] = @ + (PerTarget - run.attempt)]
  <2>1. report' = [s EXCEPT !.dropped = e]  BY <1>7 DEF ModelDeclines
  <2>2. /\ ReportShape(s) /\ s.attempts = Answered.attempts /\ s.requests = Answered.requests
        /\ s.findings = Answered.findings /\ s.considered = Answered.considered
        /\ s.generated = Answered.generated
    BY <1>1, <1>2
  <2>. HIDE DEF s, e
  <2>3. /\ report'.attempts = Answered.attempts /\ report'.requests = Answered.requests
        /\ report'.findings = Answered.findings /\ report'.considered = Answered.considered
        /\ report'.generated = Answered.generated
    BY <2>1, <2>2 DEF ReportShape
  <2>4. run' = NextTarget  BY <1>7 DEF ModelDeclines
  <2>. QED  BY <1>3, <2>3, <2>4, AskedBounds
<1>8. CASE Unusable
  <2>1. run' = NextAttempt  BY <1>8 DEF Unusable
  <2>2. CASE report' = Drop(Answered, "parse_failed")
    <3>1. /\ report'.attempts = Answered.attempts /\ report'.requests = Answered.requests
          /\ report'.findings = Answered.findings /\ report'.considered = Answered.considered
          /\ report'.generated = Answered.generated
      BY <2>2, <1>1, <1>2
    <3>. QED  BY <1>3, <2>1, <3>1, AskedBounds
  <2>3. CASE report' = [Drop(Answered, "unsafe") EXCEPT !.generated = @ + 1]
    <3>. DEFINE s == Drop(Answered, "unsafe")
    <3>1. /\ ReportShape(s) /\ s.attempts = Answered.attempts /\ s.requests = Answered.requests
          /\ s.findings = Answered.findings /\ s.considered = Answered.considered
          /\ s.generated = Answered.generated
      BY <1>1, <1>2
    <3>2. report' = [s EXCEPT !.generated = s.generated + 1]  BY <2>3
    <3>. HIDE DEF s
    <3>3. /\ report'.attempts = Answered.attempts /\ report'.requests = Answered.requests
          /\ report'.findings = Answered.findings /\ report'.considered = Answered.considered
          /\ report'.generated = Answered.generated + 1
      BY <3>1, <3>2 DEF ReportShape
    <3>. QED  BY <1>3, <2>1, <3>3, AskedBounds
  <2>. QED  BY <1>8, <2>2, <2>3 DEF Unusable
<1>. QED  BY <1>4, <1>5, <1>6, <1>7, <1>8

LEMMA GenerateWork == ASSUME AccountInv, WorkInv, Generate PROVE WorkInv'
<1>1. /\ RunShape(run) /\ Counted(report) /\ Counted(Answered) /\ run.stage = "ask" /\ run.queue # <<>>
      /\ report.requests \in Nat
  BY AskedKeeps DEF AccountInv, AccountTyped, Generate, Asking, WorkInv, Requested
<1>2. run' = [run EXCEPT !.stage = "judge"] /\ report' = [Answered EXCEPT !.generated = Answered.generated + 1]
  BY DEF Generate
<1>3. /\ run'.stage = "judge" /\ run'.queue = run.queue /\ run'.attempt = run.attempt
  BY <1>1, <1>2 DEF RunShape
<1>4. Answered = [status |-> report.status, considered |-> report.considered, attempts |-> report.attempts + 1,
                  requests |-> report.requests + 1, throttled |-> report.throttled,
                  generated |-> report.generated, stops |-> report.stops, dropped |-> report.dropped,
                  findings |-> report.findings, latent |-> report.latent]
  <2>1. Answered = [report EXCEPT !.attempts = report.attempts + 1, !.requests = report.requests + 1]
    BY DEF Answered
  <2>2. ReportShape(report)  BY <1>1 DEF Counted
  <2>. QED  BY <2>1, <2>2 DEF ReportShape
<1>5. /\ report'.attempts = report.attempts + 1 /\ report'.requests = report.requests + 1
      /\ report'.generated = report.generated + 1 /\ report'.findings = report.findings
      /\ report'.considered = report.considered
  <2>. DEFINE s == Answered
  <2>1. s.generated = report.generated  BY <1>4
  <2>2. report' = [status |-> s.status, considered |-> s.considered, attempts |-> s.attempts,
                   requests |-> s.requests, throttled |-> s.throttled, generated |-> s.generated + 1,
                   stops |-> s.stops, dropped |-> s.dropped, findings |-> s.findings, latent |-> s.latent]
    BY <1>1, <1>2 DEF Counted, ReportShape
  <2>. QED  BY <2>1, <2>2, <1>4
<1>6. ToCome(run') = ToCome(run) /\ ToCome(run) \in Nat
  BY <1>1, <1>3, NextIsLess DEF ToCome, WorkInv, Bounded
<1>7. /\ report.attempts \in Nat /\ report.generated \in Nat /\ Len(report.findings) \in Nat
      /\ MaxTargets * PerTarget \in Nat
  <2>1. MaxTargets * PerTarget \in Nat  BY PipelineAssumption
  <2>. QED  BY <2>1, BalanceTyped
<1>8. PICK c \in Candidates : BeginCheck(c)  BY DEF Generate
<1>9. check'.stage # "none"  BY <1>8 DEF BeginCheck, NoCheck
<1>10. Places'  BY <1>1, <1>3, <1>9 DEF Places, Running
<1>11. Bounded'
  <2>1. report.attempts + ToCome(run) <= MaxTargets * PerTarget /\ ToCome(run) >= 1
    <3>1. report.attempts + ToCome(run) <= MaxTargets * PerTarget  BY <1>1 DEF WorkInv, Bounded
    <3>2. ToCome(NextTarget) + 1 <= ToCome(run) /\ ToCome(NextTarget) \in Nat
      BY <1>1, NextIsLess DEF WorkInv, Bounded
    <3>. QED  BY <1>6, <3>1, <3>2
  <2>2. /\ report'.attempts <= MaxTargets * PerTarget
        /\ report'.attempts + ToCome(run') <= MaxTargets * PerTarget + 1
    <3>. DEFINE tried == report.attempts
                more == ToCome(run)
                most == MaxTargets * PerTarget
    <3>1. tried \in Nat /\ more \in Nat /\ most \in Nat /\ tried + more <= most /\ more >= 1
      BY <1>6, <1>7, <2>1
    <3>2. report'.attempts = tried + 1 /\ ToCome(run') = more  BY <1>5, <1>6
    <3>. HIDE DEF tried, more, most
    <3>3. tried + 1 <= most /\ (tried + 1) + more <= most + 1  BY <3>1
    <3>. QED  BY <3>2, <3>3 DEF most
  <2>3. report'.generated <= report'.attempts
    BY <1>5, <1>7 DEF WorkInv, Bounded
  <2>. QED  BY <2>2, <2>3, <1>3, <1>5 DEF WorkInv, Bounded
<1>12. Requested'
  <2>1. Len(report'.findings) = Len(report.findings)  BY <1>5
  <2>2. report.requests <= 2 * report.attempts /\ report.requests <= report.attempts + Len(report.findings)
    BY <1>1 DEF WorkInv, Requested
  <2>3. /\ report'.requests \in Nat /\ report'.requests <= 2 * report'.attempts
        /\ report'.requests <= report'.attempts + Len(report'.findings)
    <3>. DEFINE asked == report.requests
                tried == report.attempts
                found == Len(report.findings)
    <3>1. asked \in Nat /\ tried \in Nat /\ found \in Nat /\ asked <= 2 * tried /\ asked <= tried + found
      BY <1>1, <1>7, <2>2
    <3>2. report'.requests = asked + 1 /\ report'.attempts = tried + 1 /\ Len(report'.findings) = found
      BY <1>5, <2>1
    <3>. HIDE DEF asked, tried, found
    <3>3. asked + 1 \in Nat /\ asked + 1 <= 2 * (tried + 1) /\ asked + 1 <= (tried + 1) + found  BY <3>1
    <3>. QED  BY <3>2, <3>3
  <2>. QED  BY <2>3 DEF Requested
<1>. QED  BY <1>10, <1>11, <1>12 DEF WorkInv

(* A check that has begun is there until the pipeline ends it. *)
LEMMA CheckGoesOn == ASSUME OracleInv, OracleStep, check.stage # "none" PROVE check'.stage # "none"
<1>1. check \in [stage : Stages, cand : Candidates \cup {NoCandidate}, heads : Nat,
                 runners : SUBSET Runners, excused : BOOLEAN, verdict : Dispositions \cup {"none"}]
  BY DEF OracleInv, OracleTyped
<1>2. CASE VerifySide  BY <1>1, <1>2 DEF VerifySide, Ends
<1>3. CASE RunSide
  <2>1. check'.stage \in {"ruled", "verify_base", "run_head"}  BY <1>3, RunSideEnds
  <2>. QED  BY <2>1
<1>4. CASE StrayWrites  BY <1>4 DEF StrayWrites
<1>. QED  BY <1>2, <1>3, <1>4 DEF OracleStep

LEMMA RecordWork ==
  ASSUME AccountInv, WorkInv, run.stage \in {"judge", "assess"}, EndCheck,
         NEW oracle, NEW finding, NEW after, after = NextAttempt \/ after = NextTarget,
         NEW rep, ReportShape(rep), Record(oracle, finding, after, rep),
         rep.attempts = report.attempts, rep.generated = report.generated,
         rep.considered = report.considered, rep.requests \in Nat, rep.requests <= 2 * report.attempts,
         rep.requests <= report.attempts + Len(rep.findings)
  PROVE  WorkInv'
<1>1. RunShape(run) /\ Counted(report) /\ IsSeq(run.queue) /\ run.queue # <<>>
  BY DEF AccountInv, AccountTyped, WorkInv, Bounded, Places
<1>2. check'.stage = "none"  BY DEF EndCheck, NoCheck
<1>3. report.attempts \in Nat /\ MaxTargets * PerTarget \in Nat
  <2>1. MaxTargets * PerTarget \in Nat  BY PipelineAssumption
  <2>. QED  BY <2>1, BalanceTyped
<1>4. CASE /\ run' = [run EXCEPT !.stage = "raised"]
           /\ report' = [rep EXCEPT !.findings = report.findings, !.latent = report.latent]
  <2>1. run'.stage = "raised" /\ run'.queue = run.queue  BY <1>1, <1>4 DEF RunShape
  <2>2. report' = [status |-> rep.status, considered |-> rep.considered, attempts |-> rep.attempts,
                   requests |-> rep.requests, throttled |-> rep.throttled, generated |-> rep.generated,
                   stops |-> rep.stops, dropped |-> rep.dropped, findings |-> report.findings,
                   latent |-> report.latent]
    BY <1>4 DEF ReportShape
  <2>3. /\ report'.attempts = report.attempts /\ report'.generated = report.generated
        /\ report'.considered = report.considered /\ report'.requests = rep.requests
    BY <2>2
  <2>4. Places'  BY <1>2, <2>1 DEF Places, Running
  <2>5. Bounded'  BY <2>1, <2>3 DEF WorkInv, Bounded
  <2>6. Requested'  BY <2>1, <2>3 DEF Requested
  <2>. QED  BY <2>4, <2>5, <2>6 DEF WorkInv
<1>5. CASE run' = after /\ report' = rep
  <2>1. /\ IsSeq(run'.queue) /\ Len(run'.queue) <= Len(run.queue)
        /\ ToCome(run') \in Nat /\ ToCome(run) \in Nat /\ ToCome(run') + 1 <= ToCome(run)
    BY <1>1, <1>5, NextIsLess
  <2>2. run'.stage = "ask"  BY <1>1, <1>5, NextKeeps
  <2>3. Places'  BY <1>2, <2>2 DEF Places, Running
  <2>4. Bounded'
    <3>1. Len(run'.queue) <= MaxTargets
      <4>1. Len(run'.queue) \in Nat /\ Len(run.queue) \in Nat  BY <1>1, <2>1, AppendIsSeq
      <4>. QED  BY <4>1, <2>1, PipelineAssumption DEF WorkInv, Bounded
    <3>2. report.attempts + ToCome(run) <= MaxTargets * PerTarget + 1  BY DEF WorkInv, Bounded
    <3>3. report.attempts + ToCome(run') <= MaxTargets * PerTarget  BY <3>2, <2>1, <1>3
    <3>. QED  BY <3>1, <3>3, <2>1, <2>2, <1>5 DEF WorkInv, Bounded
  <2>5. Requested'  BY <1>5 DEF Requested
  <2>. QED  BY <2>3, <2>4, <2>5 DEF WorkInv
<1>. QED  BY <1>4, <1>5 DEF Record

LEMMA DiscardWork == ASSUME AccountInv, WorkInv, Discard PROVE WorkInv'
<1>1. run.stage = "judge" /\ EndCheck /\ ReportShape(report) /\ Counted(report)
  BY DEF Discard, AccountInv, AccountTyped, Counted
<1>. DEFINE e == [report.dropped EXCEPT ![check.verdict] = @ + 1]
            dropped == Drop(report, check.verdict)
            longer == Append(dropped.latent, Finding(FALSE))
            rep == IF Latent /\ LatentMode THEN [dropped EXCEPT !.latent = longer] ELSE dropped
<1>2. \E oracle : Record(oracle, Finding(FALSE), NextAttempt, rep)  BY DEF Discard
<1>3. dropped = [report EXCEPT !.dropped = e]  BY DEF Drop
<1>4. rep = dropped \/ rep = [dropped EXCEPT !.latent = longer]  OBVIOUS
<1>. HIDE DEF e, dropped, longer, rep
<1>5. /\ ReportShape(dropped) /\ dropped.attempts = report.attempts /\ dropped.requests = report.requests
      /\ dropped.findings = report.findings /\ dropped.considered = report.considered
      /\ dropped.generated = report.generated
  BY <1>1, <1>3 DEF ReportShape
<1>6. /\ ReportShape(rep) /\ rep.attempts = report.attempts /\ rep.requests = report.requests
      /\ rep.findings = report.findings /\ rep.considered = report.considered
      /\ rep.generated = report.generated
  BY <1>4, <1>5 DEF ReportShape
<1>7. WorkInv => /\ report.requests \in Nat /\ report.requests <= 2 * report.attempts
                 /\ report.requests <= report.attempts + Len(report.findings)
  BY <1>1 DEF WorkInv, Requested
<1>. QED  BY <1>1, <1>2, <1>6, <1>7, RecordWork

LEMMA AssessWork == ASSUME AccountInv, WorkInv, Assess PROVE WorkInv'
<1>1. run.stage = "assess" /\ EndCheck /\ ReportShape(report) /\ IsSeq(report.findings)
  BY DEF Assess, AccountInv, AccountTyped, Counted
<1>2. PICK answers, should_report :
        Record("catching", Finding(should_report), NextTarget,
               [report EXCEPT !.requests = @ + (IF answers THEN 1 ELSE 0),
                              !.findings = Append(@, Finding(should_report))])
  BY DEF Assess
<1>. DEFINE more == IF answers THEN 1 ELSE 0
            longer == Append(report.findings, Finding(should_report))
            n == report.requests + more
            rep == [report EXCEPT !.requests = n, !.findings = longer]
<1>3. Record("catching", Finding(should_report), NextTarget, rep) /\ more \in {0, 1}  BY <1>2
<1>. HIDE DEF more
<1>4. Len(longer) = Len(report.findings) + 1  BY <1>1, AppendIsSeq
<1>5. /\ report.attempts \in Nat /\ Len(report.findings) \in Nat
      /\ Len(report.findings) + 1 <= report.attempts
  <2>1. Balance(report, recorded, 1)  BY <1>1 DEF AccountInv, Balanced, Open
  <2>. QED  BY <2>1, BalanceTyped DEF Balance
<1>6. report.requests \in Nat /\ report.requests <= report.attempts + Len(report.findings)
  BY <1>1 DEF WorkInv, Requested
<1>7. /\ n \in Nat /\ n <= 2 * report.attempts /\ n <= report.attempts + Len(longer)
  <2>. DEFINE f == Len(report.findings)
              asked == report.requests
              tried == report.attempts
              l == Len(longer)
  <2>1. /\ more \in {0, 1} /\ l = f + 1 /\ tried \in Nat /\ f \in Nat /\ f + 1 <= tried
        /\ asked \in Nat /\ asked <= tried + f /\ n = asked + more
    BY <1>3, <1>4, <1>5, <1>6
  <2>. HIDE DEF f, asked, tried, l, n
  <2>2. n \in Nat /\ n <= 2 * tried /\ n <= tried + l  BY <2>1
  <2>. QED  BY <2>2 DEF tried, l
<1>. HIDE DEF longer, n
<1>8. rep = [status |-> report.status, considered |-> report.considered, attempts |-> report.attempts,
             requests |-> n, throttled |-> report.throttled, generated |-> report.generated,
             stops |-> report.stops, dropped |-> report.dropped, findings |-> longer,
             latent |-> report.latent]
  <2>1. rep = [report EXCEPT !.requests = n, !.findings = longer]  OBVIOUS
  <2>. HIDE DEF rep
  <2>. QED  BY <1>1, <2>1 DEF ReportShape
<1>. HIDE DEF rep
<1>9. /\ ReportShape(rep) /\ rep.attempts = report.attempts /\ rep.requests = n
      /\ rep.findings = longer /\ rep.considered = report.considered /\ rep.generated = report.generated
  BY <1>8 DEF ReportShape
<1>. QED  BY <1>1, <1>3, <1>7, <1>9, RecordWork

LEMMA ConvinceWork == ASSUME AccountInv, WorkInv, Convince PROVE WorkInv'
<1>1. /\ run.stage = "judge" /\ run' = [run EXCEPT !.stage = "assess"]
      /\ report' = report /\ check' = check /\ RunShape(run)
  BY DEF Convince, AccountInv, AccountTyped, oracleVars
<1>2. run'.stage = "assess" /\ run'.queue = run.queue /\ run'.attempt = run.attempt
  BY <1>1 DEF RunShape
<1>3. ToCome(run') = ToCome(run)  BY <1>2 DEF ToCome
<1>. QED  BY <1>1, <1>2, <1>3 DEF WorkInv, Places, Bounded, Requested, Running

LEMMA JudgeWork == ASSUME OracleInv, WorkInv, Judge PROVE WorkInv'
<1>1. /\ run.stage = "judge" /\ run' = run /\ report' = report /\ OracleStep
  BY DEF Judge, pipelineVars
<1>2. check'.stage # "none"  BY <1>1, CheckGoesOn DEF WorkInv, Places
<1>. QED  BY <1>1, <1>2 DEF WorkInv, Places, Bounded, Requested, Running

LEMMA JudgeRaisesWork == ASSUME AccountInv, WorkInv, JudgeRaises PROVE WorkInv'
<1>1. /\ run.stage = "judge" /\ run' = [run EXCEPT !.stage = "raised"]
      /\ report' = report /\ check' = NoCheck /\ RunShape(run)
  BY DEF JudgeRaises, EndCheck, AccountInv, AccountTyped
<1>2. /\ run'.stage = "raised" /\ run'.queue = run.queue /\ run'.attempt = run.attempt
      /\ check'.stage = "none"
  BY <1>1 DEF RunShape, NoCheck
<1>3. Places'  BY <1>2 DEF Places, Running
<1>4. Bounded'  BY <1>1, <1>2 DEF WorkInv, Bounded
<1>5. Requested'  BY <1>1, <1>2 DEF WorkInv, Requested
<1>. QED  BY <1>3, <1>4, <1>5 DEF WorkInv

(* The queue is what was ranked; nothing has been asked before.            *)
LEMMA ReturnWork ==
  ASSUME AccountInv, WorkInv, run.stage \in {"diff", "ask"}, NEW status, NEW considered,
         considered <= MaxTargets, Return(status, considered)
  PROVE  WorkInv'
<1>1. /\ run' = [run EXCEPT !.stage = "returned"] /\ check' = check
      /\ report' = [report EXCEPT !.status = status, !.considered = considered]
      /\ RunShape(run) /\ ReportShape(report)
  BY DEF Return, AccountInv, AccountTyped, Counted, oracleVars
<1>2. run'.stage = "returned" /\ run'.queue = run.queue  BY <1>1 DEF RunShape
<1>3. report' = [status |-> status, considered |-> considered, attempts |-> report.attempts,
                 requests |-> report.requests, throttled |-> report.throttled,
                 generated |-> report.generated, stops |-> report.stops, dropped |-> report.dropped,
                 findings |-> report.findings, latent |-> report.latent]
  BY <1>1 DEF ReportShape
<1>4. /\ report'.considered = considered /\ report'.attempts = report.attempts
      /\ report'.requests = report.requests /\ report'.generated = report.generated
      /\ report'.findings = report.findings
  BY <1>3
<1>5. Requested'
  <2>1. run.stage # "raised"  OBVIOUS
  <2>. QED  BY <1>2, <1>4, <2>1 DEF WorkInv, Requested
<1>. QED  BY <1>1, <1>2, <1>4, <1>5 DEF WorkInv, Places, Bounded, Running

LEMMA EndRunWork == ASSUME AccountInv, WorkInv, EndRun PROVE WorkInv'
<1>1. /\ run.stage \in {"diff", "ask"} /\ report.considered <= MaxTargets
      /\ \E status : Return(status, report.considered)
  BY DEF EndRun, WorkInv, Bounded
<1>. QED  BY <1>1, ReturnWork

LEMMA ScreenWork == ASSUME AccountInv, WorkInv, run.pair \in Pairs, Screen PROVE WorkInv'
<1>. DEFINE ranked == Rank(run.pair, run.threshold)
<1>1. /\ run.stage = "diff" /\ ReportShape(report) /\ RunShape(run) /\ MaxTargets \in Nat
      /\ report.attempts = 0 /\ run.attempt = 1 /\ PerTarget \in Nat
  BY PipelineAssumption DEF Screen, AccountInv, AccountTyped, Counted, WorkInv, Places
<1>2. IsSeq(ranked) /\ Len(ranked) \in 0..MaxTargets  BY RankIsShort
<1>. HIDE DEF ranked
<1>3. ASSUME NEW status, NEW considered, considered \in {0, Len(ranked)}, Return(status, considered)
      PROVE  WorkInv'
  <2>1. considered <= MaxTargets  BY <1>1, <1>2, <1>3
  <2>. QED  BY <1>1, <1>3, <2>1, ReturnWork
<1>4. ASSUME report' = [report EXCEPT !.considered = Len(ranked)],
             \/ run' = [run EXCEPT !.stage = "raised"] /\ check' = check
             \/ run' = [run EXCEPT !.stage = "ask", !.queue = ranked] /\ check' = NoCheck
      PROVE  WorkInv'
  <2>1. /\ report'.considered = Len(ranked) /\ report'.attempts = report.attempts
        /\ report'.requests = report.requests /\ report'.generated = report.generated
        /\ report'.findings = report.findings
    BY <1>1, <1>4 DEF ReportShape
  <2>2. /\ run'.stage \in {"raised", "ask"} /\ check'.stage = "none" /\ run'.attempt = 1
        /\ IsSeq(run'.queue) /\ Len(run'.queue) \in 0..MaxTargets
    <3>1. CASE run' = [run EXCEPT !.stage = "raised"] /\ check' = check
      <4>1. run'.stage = "raised" /\ run'.queue = run.queue /\ run'.attempt = run.attempt
        BY <3>1, <1>1 DEF RunShape
      <4>2. Len(run.queue) \in Nat  BY AppendIsSeq DEF WorkInv, Bounded
      <4>. QED  BY <3>1, <4>1, <4>2, <1>1 DEF WorkInv, Bounded, Places
    <3>2. CASE run' = [run EXCEPT !.stage = "ask", !.queue = ranked] /\ check' = NoCheck
      <4>1. run' = [stage |-> "ask", pair |-> run.pair, threshold |-> run.threshold,
                    queue |-> ranked, attempt |-> run.attempt]
        BY <3>2, <1>1 DEF RunShape
      <4>. QED  BY <3>2, <4>1, <1>1, <1>2 DEF NoCheck
    <3>. QED  BY <3>1, <3>2, <1>4
  <2>3. Places'  BY <2>2 DEF Places, Running
  <2>4. Bounded'
    <3>. DEFINE n == Len(run'.queue)
    <3>1. n \in Nat /\ n <= MaxTargets  BY <2>2, <1>1
    <3>2. ToCome(run') <= MaxTargets * PerTarget
      <4>1. /\ n * PerTarget \in Nat /\ n * PerTarget <= MaxTargets * PerTarget
            /\ n # 0 => (n - 1) * PerTarget \in Nat /\ n * PerTarget = (n - 1) * PerTarget + PerTarget
        <5>. HIDE DEF n
        <5>. QED  BY <3>1, <1>1, Products
      <4>2. MaxTargets * PerTarget \in Nat  BY <1>1
      <4>3. CASE run'.queue = <<>>  BY <4>3, <4>2 DEF ToCome
      <4>4. CASE run'.queue # <<>>
        <5>1. n # 0  BY <4>4, <2>2, TailIsSeq
        <5>2. ToCome(run') = (n - 1) * PerTarget + (PerTarget - 1) + 1  BY <4>4, <2>2 DEF ToCome
        <5>. HIDE DEF n
        <5>. QED  BY <4>1, <4>2, <5>1, <5>2, <1>1
      <4>. QED  BY <4>3, <4>4
    <3>3. ToCome(run') \in Int
      <4>1. (n - 1) * PerTarget \in Int  BY <3>1, <1>1
      <4>. QED  BY <4>1, <2>2, <1>1 DEF ToCome
    <3>4. report'.attempts + ToCome(run') <= MaxTargets * PerTarget  BY <2>1, <3>2, <3>3, <1>1
    <3>. QED  BY <2>1, <2>2, <3>1, <3>4, <1>2 DEF WorkInv, Bounded
  <2>5. Requested'
    <3>1. run.stage # "raised"  BY <1>1
    <3>. QED  BY <2>1, <3>1 DEF WorkInv, Requested
  <2>. QED  BY <2>3, <2>4, <2>5 DEF WorkInv
<1>5. \/ \E status, considered : considered \in {0, Len(ranked)} /\ Return(status, considered)
      \/ /\ report' = [report EXCEPT !.considered = Len(ranked)]
         /\ \/ run' = [run EXCEPT !.stage = "raised"] /\ check' = check
            \/ run' = [run EXCEPT !.stage = "ask", !.queue = ranked] /\ check' = NoCheck
  BY DEF Screen, ranked, oracleVars, FreshWorktrees
<1>. QED  BY <1>3, <1>4, <1>5

LEMMA FreshWork ==
  /\ NoReport.attempts = 0 /\ NoReport.requests = 0 /\ NoReport.generated = 0 /\ NoReport.considered = 0
  /\ NoReport.findings = <<>> /\ IsSeq(<<>>) /\ Len(<<>>) = 0
  /\ MaxTargets \in Nat /\ MaxTargets * PerTarget \in Nat
<1>1. IsSeq(<<>>) /\ Len(<<>>) = 0  BY FreshAccount
<1>2. MaxTargets \in Nat /\ MaxTargets * PerTarget \in Nat  BY PipelineAssumption
<1>. QED  BY <1>1, <1>2 DEF NoReport

LEMMA BeginWork ==
  ASSUME WorkInv, NEW p, NEW threshold, BeginRun(p, threshold), run.stage = "idle"
  PROVE  WorkInv' /\ run'.stage = "diff" /\ run'.pair = p
<1>1. /\ report' = NoReport /\ check' = check
      /\ run' = [NoRun EXCEPT !.stage = "diff", !.pair = p, !.threshold = threshold]
  BY DEF BeginRun, oracleVars
<1>2. run' = [stage |-> "diff", pair |-> p, threshold |-> threshold, queue |-> <<>>, attempt |-> 1]
  BY <1>1 DEF NoRun
<1>3. run'.stage = "diff" /\ run'.pair = p /\ run'.queue = <<>> /\ run'.attempt = 1  BY <1>2
<1>4. check'.stage = "none"  BY <1>1 DEF WorkInv, Places
<1>5. Places'  BY <1>1, <1>3, <1>4, FreshWork DEF Places, Running
<1>6. Bounded'  BY <1>1, <1>3, FreshWork DEF Bounded
<1>7. Requested'  BY <1>1, <1>3, FreshWork DEF Requested
<1>. QED  BY <1>3, <1>5, <1>6, <1>7 DEF WorkInv

LEMMA IdleWork ==
  /\ run = NoRun /\ report = NoReport /\ check = NoCheck => WorkInv
  /\ run' = NoRun /\ report' = NoReport /\ check' = NoCheck => WorkInv'
<1>1. NoRun.stage = "idle" /\ NoRun.queue = <<>> /\ NoRun.attempt = 1 /\ NoCheck.stage = "none"
  BY DEF NoRun, NoCheck
<1>2. ASSUME run = NoRun, report = NoReport, check = NoCheck PROVE WorkInv
  BY <1>1, <1>2, FreshWork DEF WorkInv, Places, Bounded, Requested
<1>3. ASSUME run' = NoRun, report' = NoReport, check' = NoCheck PROVE WorkInv'
  BY <1>1, <1>3, FreshWork DEF WorkInv, Places, Bounded, Requested
<1>. QED  BY <1>2, <1>3

(* The pair of a run stays, and the run does not become idle by itself.    *)
LEMMA PairStays ==
  ASSUME AccountInv, PipelineStep
  PROVE  run.stage # "idle" /\ run'.stage # "idle" /\ run'.pair = run.pair
<1>1. RunShape(run)  BY DEF AccountInv, AccountTyped
<1>2. ASSUME NEW r, \/ r = NextTarget \/ r = NextAttempt \/ \E stage : r = [run EXCEPT !.stage = stage]
                   \/ \E queue : \/ r = [run EXCEPT !.queue = queue]
                                 \/ r = [run EXCEPT !.stage = "ask", !.queue = queue]
      PROVE  r.pair = run.pair
  BY <1>1, <1>2 DEF NextTarget, NextAttempt, RunShape
<1>3. CASE Screen
  <2>1. run.stage = "diff"  BY <1>3 DEF Screen
  <2>2. \/ run' = [run EXCEPT !.stage = "raised"] \/ run' = [run EXCEPT !.stage = "returned"]
        \/ \E queue : run' = [run EXCEPT !.stage = "ask", !.queue = queue]
    BY <1>3 DEF Screen, Return
  <2>3. run'.stage # "idle"  BY <2>2, <1>1 DEF RunShape
  <2>. QED  BY <1>2, <2>1, <2>2, <2>3
<1>4. CASE BudgetRefuses \/ ModelFails \/ ModelGone \/ ModelDeclines \/ Unusable
  <2>1. /\ run.stage = "ask"
        /\ run' = NextTarget \/ run' = NextAttempt \/ run' = [run EXCEPT !.queue = <<>>]
    BY <1>4 DEF BudgetRefuses, ModelFails, ModelGone, ModelDeclines, Unusable, Asking
  <2>2. run'.stage # "idle"
    <3>1. CASE run' = [run EXCEPT !.queue = <<>>]  BY <2>1, <3>1, <1>1 DEF RunShape
    <3>. QED  BY <2>1, <3>1, <1>1, NextKeeps
  <2>. QED  BY <1>2, <2>1, <2>2
<1>5. CASE Generate \/ Convince \/ EndRun
  <2>1. /\ run.stage # "idle"
        /\ \E stage \in Running : run' = [run EXCEPT !.stage = stage]
    BY <1>5 DEF Generate, Convince, EndRun, Return, Asking, Running
  <2>2. run'.stage # "idle"  BY <2>1, <1>1 DEF RunShape, Running
  <2>. QED  BY <1>2, <2>1, <2>2
<1>6. CASE Judge  BY <1>6 DEF Judge, pipelineVars
<1>8. CASE JudgeRaises
  <2>1. run.stage # "idle" /\ run' = [run EXCEPT !.stage = "raised"]  BY <1>8 DEF JudgeRaises
  <2>. QED  BY <2>1, <1>1 DEF RunShape
<1>7. CASE Discard \/ Assess
  <2>1. /\ run.stage # "idle"
        /\ run' = NextTarget \/ run' = NextAttempt \/ run' = [run EXCEPT !.stage = "raised"]
    BY <1>7 DEF Discard, Assess, Record
  <2>2. run'.stage # "idle"
    <3>1. CASE run' = [run EXCEPT !.stage = "raised"]  BY <3>1, <1>1 DEF RunShape
    <3>. QED  BY <2>1, <3>1, <1>1, NextKeeps
  <2>. QED  BY <1>2, <2>1, <2>2
<1>. QED  BY <1>3, <1>4, <1>5, <1>6, <1>7, <1>8 DEF PipelineStep

LEMMA PipelineWork ==
  ASSUME OracleInv, AccountInv, WorkInv, run.stage # "idle" => run.pair \in Pairs, PipelineStep
  PROVE  WorkInv'
<1>1. CASE Screen
  <2>1. run.stage = "diff"  BY <1>1 DEF Screen
  <2>. QED  BY <1>1, <2>1, ScreenWork
<1>2. CASE BudgetRefuses \/ ModelFails \/ ModelGone \/ ModelDeclines \/ Unusable  BY <1>2, AskedWork
<1>3. CASE Generate  BY <1>3, GenerateWork
<1>4. CASE Judge  BY <1>4, JudgeWork
<1>5. CASE Discard  BY <1>5, DiscardWork
<1>6. CASE Convince  BY <1>6, ConvinceWork
<1>7. CASE Assess  BY <1>7, AssessWork
<1>8. CASE EndRun  BY <1>8, EndRunWork
<1>9. CASE JudgeRaises  BY <1>9, JudgeRaisesWork
<1>. QED  BY <1>1, <1>2, <1>3, <1>4, <1>5, <1>6, <1>7, <1>8, <1>9 DEF PipelineStep

(* Where the drivers stand: one summary for each rung that is done.        *)
DriveInv ==
  /\ drive.mode \in Modes /\ drive.stage \in {"next", "ensured", "running", "done"}
  /\ drive.stage = "running" <=> run.stage # "idle"
  /\ run.pair \in Pairs \cup {NoPair} /\ (run.stage # "idle" => run.pair \in Pairs)
  /\ drive.rung \in 1..Len(Thresholds)
  /\ IsSeq(drive.summaries) /\ Len(drive.summaries) <= Len(Thresholds)
  /\ drive.stage # "done" =>
       Len(drive.summaries) = IF drive.mode = "ladder" THEN drive.rung - 1 ELSE 0
ClonesTyped ==
  \A j \in Projects : clone[j].is \in {"absent", "husk", "repo"} /\ clone[j].has \subseteq Commits

LEMMA StartDrive ==
  ASSUME NEW mode \in Modes
  PROVE  /\ drive = Start(mode) /\ run = NoRun => DriveInv
         /\ drive' = Start(mode) /\ run' = NoRun => DriveInv'
<1>1. Len(Thresholds) \in Nat \ {0}
  <2>1. Thresholds \in Seq(Nat) /\ Thresholds # <<>>  BY BenchmarkAssumption
  <2>. QED  BY <2>1
<1>2. /\ Start(mode).mode = mode /\ Start(mode).stage = "next" /\ Start(mode).rung = 1
      /\ Start(mode).summaries = <<>> /\ NoRun.stage = "idle" /\ NoRun.pair = NoPair
  BY DEF Start, NoRun
<1>3. /\ drive = Start(mode) => Len(drive.summaries) = IF drive.mode = "ladder" THEN drive.rung - 1 ELSE 0
      /\ drive' = Start(mode) =>
           Len(drive'.summaries) = IF drive'.mode = "ladder" THEN drive'.rung - 1 ELSE 0
  BY <1>2, FreshWork
<1>4. ASSUME drive = Start(mode), run = NoRun PROVE DriveInv
  BY <1>1, <1>2, <1>3, <1>4, FreshWork DEF DriveInv
<1>5. ASSUME drive' = Start(mode), run' = NoRun PROVE DriveInv'
  BY <1>1, <1>2, <1>3, <1>5, FreshWork DEF DriveInv
<1>. QED  BY <1>4, <1>5

(* The steps that leave rung and summaries alone. *)
LEMMA TurnDrive ==
  ASSUME DriveInv, drive.stage # "done", drive'.mode = drive.mode, drive'.rung = drive.rung,
         drive'.summaries = drive.summaries, drive'.stage \in {"next", "ensured", "running"},
         drive'.stage = "running" <=> run'.stage # "idle",
         run'.pair \in Pairs \cup {NoPair}, run'.stage # "idle" => run'.pair \in Pairs
  PROVE  DriveInv'
BY DEF DriveInv

LEMMA DriveFields ==
  ASSUME DriveTyped, NEW d, \/ \E row : d = Advance(row) \/ \E other, t : d = [Advance(other) EXCEPT !.todo = t]
                            \/ \E stage : d = [drive EXCEPT !.stage = stage]
  PROVE  d.mode = drive.mode /\ d.rung = drive.rung /\ d.summaries = drive.summaries
<1>1. ASSUME NEW row, NEW a, a = Advance(row)
      PROVE  /\ a = [mode |-> drive.mode, stage |-> "next", todo |-> Tail(drive.todo), rung |-> drive.rung,
                     rows |-> Append(drive.rows, row), summaries |-> drive.summaries,
                     verdict |-> drive.verdict]
  <2>1. a = [drive EXCEPT !.stage = "next", !.todo = Tail(drive.todo), !.rows = Append(drive.rows, row)]
    BY <1>1 DEF Advance
  <2>. QED  BY <2>1 DEF DriveTyped
<1>2. CASE \E row : d = Advance(row)  BY <1>1, <1>2
<1>3. CASE \E row, t : d = [Advance(row) EXCEPT !.todo = t]
  <2>1. PICK row, t : d = [Advance(row) EXCEPT !.todo = t]  BY <1>3
  <2>. DEFINE a == Advance(row)
  <2>2. a = [mode |-> drive.mode, stage |-> "next", todo |-> Tail(drive.todo), rung |-> drive.rung,
             rows |-> Append(drive.rows, row), summaries |-> drive.summaries, verdict |-> drive.verdict]
    BY <1>1
  <2>3. d = [a EXCEPT !.todo = t]  BY <2>1
  <2>. HIDE DEF a
  <2>. QED  BY <2>2, <2>3
<1>4. CASE \E stage : d = [drive EXCEPT !.stage = stage]  BY <1>4 DEF DriveTyped
<1>. QED  BY <1>2, <1>3, <1>4

LEMMA ClonesKeep == ASSUME RevisionsInv, ClonesTyped, Next PROVE ClonesTyped'
<1>2. drive.todo # <<>> => Current \in Pairs /\ Here \in Projects /\ OnBranches[Here] \subseteq Commits
                           /\ Needs[Current] \subseteq Commits
  <2>1. drive.todo # <<>> => Current \in Pairs  BY DEF Current, RevisionsInv, DriveTyped
  <2>. QED  BY <2>1, BenchmarkAssumption DEF Here
<1>3. CASE CloneFails
  <2>1. clone' = [clone EXCEPT ![Here] = NoClone]  BY <1>3 DEF CloneFails
  <2>2. NoClone.is = "absent" /\ NoClone.has \subseteq Commits  BY DEF NoClone
  <2>. QED  BY <2>1, <2>2 DEF ClonesTyped, RevisionsInv, DriveTyped
<1>4. CASE EnsureRepo
  <2>. DEFINE start == IF Usable THEN clone[Here] ELSE Cloned(Here)
  <2>1. PICK fetched \in SUBSET ((Needs[Current] \ start.has) \cap Fetchable[Here]) :
          clone' = [clone EXCEPT ![Here] = [is |-> "repo", has |-> start.has \cup fetched]]
    BY <1>4 DEF EnsureRepo
  <2>2. drive.todo # <<>>  BY <1>4 DEF EnsureRepo
  <2>3. start.has \subseteq Commits  BY <1>2, <2>2 DEF Cloned, ClonesTyped
  <2>. HIDE DEF start
  <2>. DEFINE c == [is |-> "repo", has |-> start.has \cup fetched]
  <2>4. c.is = "repo" /\ c.has \subseteq Commits  BY <1>2, <2>1, <2>2, <2>3
  <2>5. clone' = [clone EXCEPT ![Here] = c]  BY <2>1
  <2>. HIDE DEF c
  <2>. QED  BY <2>4, <2>5 DEF ClonesTyped, RevisionsInv, DriveTyped
<1>5. CASE Kill
  <2>1. CASE UNCHANGED clone  BY <2>1 DEF ClonesTyped
  <2>2. CASE ~UNCHANGED clone
    <3>1. /\ drive.todo # <<>>
          /\ \E half \in {[is |-> "husk", has |-> {}]} \cup [is : {"repo"}, has : SUBSET OnBranches[Here]] :
               clone' = [clone EXCEPT ![Here] = half]
      BY <1>5, <2>2 DEF Kill
    <3>2. PICK half \in {[is |-> "husk", has |-> {}]} \cup [is : {"repo"}, has : SUBSET OnBranches[Here]] :
               clone' = [clone EXCEPT ![Here] = half]
      BY <3>1
    <3>3. half.is \in {"husk", "repo"} /\ half.has \subseteq OnBranches[Here]  BY <3>2
    <3>4. half.is \in {"absent", "husk", "repo"} /\ half.has \subseteq Commits  BY <1>2, <3>1, <3>3
    <3>5. clone' = [clone EXCEPT ![Here] = half]  BY <3>2
    <3>. QED  BY <3>4, <3>5 DEF ClonesTyped, RevisionsInv, DriveTyped
  <2>. QED  BY <2>1, <2>2
<1>6. CASE clone' = clone  BY <1>6 DEF ClonesTyped
<1>. QED  BY <1>3, <1>4, <1>5, <1>6 DEF Next, EvaluateOne, BugDone, BugRaised, SummarizeBugs, StartPair,
          PairDone, FinishRung, RunPipeline

LEMMA WorkKeep ==
  ASSUME OracleInv, AccountInv, WorkInv, DriveInv, Next PROVE WorkInv'
<1>1. CASE CloneFails \/ EnsureRepo \/ SummarizeBugs \/ FinishRung
  <2>1. run' = run /\ report' = report /\ check' = check
    BY <1>1 DEF CloneFails, EnsureRepo, SummarizeBugs, FinishRung, pipelineVars, oracleVars
  <2>. QED  BY <2>1 DEF WorkInv, Places, Bounded, Requested, ToCome
<1>2. CASE EvaluateOne
  <2>1. CASE UNCHANGED <<pipelineVars, oracleVars>>
    BY <2>1 DEF pipelineVars, oracleVars, WorkInv, Places, Bounded, Requested, ToCome
  <2>2. CASE ~UNCHANGED <<pipelineVars, oracleVars>>
    <3>1. drive.stage = "ensured" /\ BeginRun(Current, Thresholds[1])  BY <1>2, <2>2 DEF EvaluateOne
    <3>2. run.stage = "idle"  BY <3>1 DEF DriveInv
    <3>. QED  BY <3>1, <3>2, BeginWork
  <2>. QED  BY <2>1, <2>2
<1>3. CASE StartPair
  <2>1. run.stage = "idle" /\ BeginRun(Current, Thresholds[drive.rung])  BY <1>3 DEF StartPair, Idle
  <2>. QED  BY <2>1, BeginWork
<1>4. CASE RunPipeline
  <2>1. PipelineStep /\ (run.stage # "idle" => run.pair \in Pairs)  BY <1>4 DEF RunPipeline, DriveInv
  <2>. QED  BY <2>1, PipelineWork
<1>5. CASE BugDone \/ BugRaised \/ Kill \/ PairDone
  <2>1. RunOver  BY <1>5 DEF BugDone, BugRaised, Kill, PairDone
  <2>2. run' = NoRun /\ report' = NoReport /\ check' = NoCheck  BY <2>1 DEF RunOver, FreshWorktrees
  <2>. QED  BY <2>2, IdleWork
<1>. QED  BY <1>1, <1>2, <1>3, <1>4, <1>5 DEF Next

LEMMA DriveStands ==
  ASSUME DriveInv, drive' = drive, run'.stage = "idle" <=> run.stage = "idle",
         run'.pair = run.pair
  PROVE  DriveInv'
BY DEF DriveInv

LEMMA DriveKeep ==
  ASSUME RevisionsInv, AccountInv, WorkInv, DriveInv, Next PROVE DriveInv'
<1>0. /\ run.stage = "idle" => drive.stage # "running"
      /\ NoRun.stage = "idle" /\ NoRun.pair = NoPair
  BY DEF NoRun, DriveInv
<1>1. ASSUME run' = run \/ run' = NoRun, run'.stage = "idle", drive.stage # "done",
             \/ \E row : drive' = Advance(row) \/ \E t : drive' = [Advance(row) EXCEPT !.todo = t]
             \/ drive' = [drive EXCEPT !.stage = "ensured"]
      PROVE  DriveInv'
  <2>1. /\ drive'.mode = drive.mode /\ drive'.rung = drive.rung /\ drive'.summaries = drive.summaries
    BY <1>1, DriveFields DEF RevisionsInv
  <2>2. drive'.stage \in {"next", "ensured"}
    <3>1. CASE drive' = [drive EXCEPT !.stage = "ensured"]  BY <3>1 DEF RevisionsInv, DriveTyped
    <3>2. CASE \E row : drive' = Advance(row)  BY <3>2 DEF Advance, RevisionsInv, DriveTyped
    <3>3. CASE \E row, t : drive' = [Advance(row) EXCEPT !.todo = t]
      <4>1. PICK row, t : drive' = [Advance(row) EXCEPT !.todo = t]  BY <3>3
      <4>. DEFINE a == Advance(row)
      <4>2. a = [mode |-> a.mode, stage |-> a.stage, todo |-> a.todo, rung |-> a.rung,
                 rows |-> a.rows, summaries |-> a.summaries, verdict |-> a.verdict]
        BY AdvanceShape DEF RevisionsInv
      <4>3. a.stage = "next"  BY DEF Advance, RevisionsInv, DriveTyped
      <4>4. drive' = [a EXCEPT !.todo = t]  BY <4>1
      <4>. HIDE DEF a
      <4>. QED  BY <4>2, <4>3, <4>4
    <3>. QED  BY <1>1, <3>1, <3>2, <3>3
  <2>3. run'.pair \in Pairs \cup {NoPair}  BY <1>0, <1>1 DEF DriveInv
  <2>. QED  BY <1>1, <2>1, <2>2, <2>3, TurnDrive
<1>2. ASSUME drive' = [drive EXCEPT !.stage = "running"], drive.stage # "done", drive.todo # <<>>,
             run.stage = "idle", NEW threshold, BeginRun(Current, threshold)
      PROVE  DriveInv'
  <2>1. run'.stage = "diff" /\ run'.pair = Current  BY <1>2, BeginWork
  <2>2. Current \in Pairs  BY <1>2 DEF Current, RevisionsInv, DriveTyped
  <2>3. drive'.stage = "running"  BY <1>2 DEF RevisionsInv, DriveTyped
  <2>4. drive'.mode = drive.mode /\ drive'.rung = drive.rung /\ drive'.summaries = drive.summaries
    BY <1>2, DriveFields DEF RevisionsInv
  <2>. QED  BY <1>2, <2>1, <2>2, <2>3, <2>4, TurnDrive
<1>3. CASE CloneFails
  <2>1. Idle /\ run' = run /\ drive' = Advance(NoRow("skipped"))
    BY <1>3 DEF CloneFails, pipelineVars
  <2>. QED  BY <1>1, <2>1 DEF Idle
<1>4. CASE EnsureRepo
  <2>1. /\ Idle /\ run' = run
        /\ drive' = [drive EXCEPT !.stage = "ensured"] \/ drive' = Advance(NoRow("commits_missing"))
    BY <1>4 DEF EnsureRepo, pipelineVars
  <2>. QED  BY <1>1, <2>1 DEF Idle
<1>5. CASE EvaluateOne
  <2>1. drive.stage = "ensured" /\ run.stage = "idle" /\ drive.todo # <<>>
    BY <1>5 DEF EvaluateOne, DriveInv, RevisionsInv, Ensured
  <2>2. CASE Needs[Current] = {}
    <3>1. drive' = Advance(NoRow("skipped")) /\ run' = run  BY <1>5, <2>2 DEF EvaluateOne, pipelineVars
    <3>. QED  BY <1>1, <2>1, <3>1
  <2>3. CASE Needs[Current] # {}
    <3>1. BeginRun(Current, Thresholds[1]) /\ drive' = [drive EXCEPT !.stage = "running"]
      BY <1>5, <2>3 DEF EvaluateOne
    <3>. QED  BY <1>2, <2>1, <3>1
  <2>. QED  BY <2>2, <2>3
<1>6. CASE BugDone \/ BugRaised \/ PairDone
  <2>1. drive.stage = "running" /\ run' = NoRun  BY <1>6 DEF BugDone, BugRaised, PairDone, RunOver
  <2>2. \E row : drive' = Advance(row) \/ \E t : drive' = [Advance(row) EXCEPT !.todo = t]
    <3>1. CASE BugDone  BY <3>1 DEF BugDone
    <3>2. CASE BugRaised  BY <3>2 DEF BugRaised
    <3>3. CASE PairDone  BY <3>3 DEF PairDone
    <3>. QED  BY <1>6, <3>1, <3>2, <3>3
  <2>. QED  BY <1>0, <1>1, <2>1, <2>2
<1>7. CASE Kill
  <2>1. drive' = Start("bugs") /\ run' = NoRun /\ drive.mode = "bugs"  BY <1>7 DEF Kill, RunOver
  <2>. QED  BY <2>1, StartDrive DEF DriveInv
<1>8. CASE StartPair
  <2>1. /\ drive.stage = "next" /\ run.stage = "idle" /\ drive.todo # <<>>
        /\ BeginRun(Current, Thresholds[drive.rung]) /\ drive' = [drive EXCEPT !.stage = "running"]
    BY <1>8 DEF StartPair, Idle
  <2>. QED  BY <1>2, <2>1
<1>9. CASE RunPipeline
  <2>1. drive' = drive /\ PipelineStep  BY <1>9 DEF RunPipeline
  <2>2. run.stage # "idle" /\ run'.stage # "idle" /\ run'.pair = run.pair  BY <2>1, PairStays
  <2>. QED  BY <2>1, <2>2, DriveStands
<1>10. CASE SummarizeBugs
  <2>. DEFINE s == <<BugSummary(drive.rows)>>
  <2>1. /\ drive.mode = "bugs" /\ run.stage = "idle" /\ run' = run
        /\ drive' = [drive EXCEPT !.stage = "done", !.summaries = s]
    BY <1>10 DEF SummarizeBugs, Idle, pipelineVars
  <2>2. IsSeq(s) /\ Len(s) = 1
    <3>1. s \in Seq({BugSummary(drive.rows)})  OBVIOUS
    <3>. QED  BY <3>1 DEF IsSeq
  <2>. HIDE DEF s
  <2>3. drive'.stage = "done" /\ drive'.mode = drive.mode /\ drive'.rung = drive.rung /\ drive'.summaries = s
    BY <2>1 DEF RevisionsInv, DriveTyped
  <2>4. Len(s) <= Len(Thresholds) /\ drive.mode \in Modes /\ drive.rung \in 1..Len(Thresholds)
    <3>1. Len(Thresholds) \in Nat  BY BenchmarkAssumption
    <3>2. drive.mode \in Modes /\ drive.rung \in 1..Len(Thresholds)  BY DEF DriveInv
    <3>. QED  BY <2>2, <3>1, <3>2
  <2>5. run'.pair \in Pairs \cup {NoPair} /\ run'.stage = "idle"  BY <2>1 DEF DriveInv
  <2>. QED  BY <2>2, <2>3, <2>4, <2>5 DEF DriveInv
<1>11. CASE FinishRung
  <2>. DEFINE row == RungSummary(drive.rows)
              s == Append(drive.summaries, row)
  <2>1. /\ drive.mode = "ladder" /\ drive.stage = "next" /\ run.stage = "idle" /\ run' = run
        /\ \/ /\ drive.rung < Len(Thresholds)
              /\ drive' = [drive EXCEPT !.rung = drive.rung + 1, !.todo = Merges, !.rows = <<>>, !.summaries = s]
           \/ \E v : drive' = [drive EXCEPT !.stage = "done", !.rows = <<>>, !.summaries = s, !.verdict = v]
    BY <1>11 DEF FinishRung, Idle, pipelineVars
  <2>2. IsSeq(s) /\ Len(s) = Len(drive.summaries) + 1 /\ Len(drive.summaries) = drive.rung - 1
    <3>1. IsSeq(drive.summaries) /\ Len(drive.summaries) = drive.rung - 1  BY <2>1 DEF DriveInv
    <3>. HIDE DEF row
    <3>. QED  BY <3>1, AppendIsSeq
  <2>. HIDE DEF s
  <2>3. Len(Thresholds) \in Nat  BY BenchmarkAssumption
  <2>4. CASE /\ drive.rung < Len(Thresholds)
             /\ drive' = [drive EXCEPT !.rung = drive.rung + 1, !.todo = Merges, !.rows = <<>>, !.summaries = s]
    <3>1. /\ drive'.stage = drive.stage /\ drive'.mode = drive.mode /\ drive'.rung = drive.rung + 1
          /\ drive'.summaries = s
      BY <2>4 DEF RevisionsInv, DriveTyped
    <3>2. drive'.rung \in 1..Len(Thresholds) /\ Len(s) <= Len(Thresholds) /\ Len(s) = drive'.rung - 1
      <4>1. drive.rung \in 1..Len(Thresholds)  BY DEF DriveInv
      <4>. QED  BY <2>2, <2>3, <2>4, <3>1, <4>1
    <3>3. /\ run'.pair \in Pairs \cup {NoPair} /\ run'.stage = "idle"
          /\ drive'.mode \in Modes /\ drive'.mode = "ladder" /\ drive'.stage = "next"
      BY <2>1, <3>1 DEF DriveInv
    <3>. QED  BY <2>2, <3>1, <3>2, <3>3 DEF DriveInv
  <2>5. CASE \E v : drive' = [drive EXCEPT !.stage = "done", !.rows = <<>>, !.summaries = s, !.verdict = v]
    <3>1. /\ drive'.stage = "done" /\ drive'.mode = drive.mode /\ drive'.rung = drive.rung
          /\ drive'.summaries = s
      BY <2>5 DEF RevisionsInv, DriveTyped
    <3>2. drive.rung \in Nat /\ drive.rung <= Len(Thresholds)  BY <2>3 DEF DriveInv
    <3>3. Len(s) <= Len(Thresholds)  BY <2>2, <2>3, <3>2
    <3>. QED  BY <2>1, <2>2, <3>1, <3>3 DEF DriveInv
  <2>. QED  BY <2>1, <2>4, <2>5
<1>. QED  BY <1>3, <1>4, <1>5, <1>6, <1>7, <1>8, <1>9, <1>10, <1>11 DEF Next

(* Whatever the drivers, the pipeline and the oracle do, every count stays *)
(* within what the configuration allows: the attempts within targets times *)
(* candidates, the requests within two for each, the executions of a       *)
(* candidate on the head within the reruns and one.                        *)
THEOREM BenchmarkTypes == Spec => []TypeOK
<1>. DEFINE Inv == WorkInv /\ DriveInv /\ ClonesTyped
<1>1. Init => Inv
  <2> SUFFICES ASSUME Init PROVE Inv  OBVIOUS
  <2>1. PICK mode \in Modes : drive = Start(mode)  BY DEF Init
  <2>2. run = NoRun /\ report = NoReport /\ check = NoCheck /\ clone = [j \in Projects |-> NoClone]
    BY DEF Init, PipelineInit, Worktrees
  <2>3. ClonesTyped  BY <2>2 DEF ClonesTyped, NoClone
  <2>. QED  BY <2>1, <2>2, <2>3, StartDrive, IdleWork
<1>2. OracleInv /\ RevisionsInv /\ AccountInv /\ Inv /\ [Next]_vars => Inv'
  <2> SUFFICES ASSUME OracleInv, RevisionsInv, AccountInv, Inv, [Next]_vars PROVE Inv'  OBVIOUS
  <2>1. CASE Next  BY <2>1, WorkKeep, DriveKeep, ClonesKeep
  <2>2. CASE UNCHANGED vars
    <3>1. run' = run /\ report' = report /\ check' = check /\ drive' = drive /\ clone' = clone
      BY <2>2 DEF vars, pipelineVars, oracleVars
    <3>. QED  BY <3>1 DEF WorkInv, Places, Bounded, Requested, ToCome, DriveInv, ClonesTyped
  <2>. QED  BY <2>1, <2>2
<1>3. OracleInv /\ HeadsBound /\ AccountInv /\ Inv => TypeOK
  <2> SUFFICES ASSUME OracleInv, HeadsBound, AccountInv, Inv PROVE TypeOK  OBVIOUS
  <2>1. OracleTypeOK
    <3>1. check.heads \in 0..(Reruns + 1)
      BY OracleAssumption DEF OracleInv, OracleTyped, HeadsBound
    <3>. QED  BY <3>1 DEF OracleTypeOK, OracleInv, OracleTyped
  <2>2. PipelineTypeOK
    <3>1. run.attempt \in 1..PerTarget  BY DEF AccountInv, AccountTyped, RunShape
    <3>. QED  BY <2>1, <3>1 DEF PipelineTypeOK, WorkInv, Places, Bounded, Requested, Running, DriveInv
  <2>3. DOMAIN Thresholds = 1..Len(Thresholds)  BY BenchmarkAssumption
  <2>. QED  BY <2>2, <2>3 DEF TypeOK, DriveInv, ClonesTyped
<1>4. Spec => []OracleInv /\ []HeadsBound
  BY BenchmarkImplementsOracle, OracleHolds, HeadsHold, PTL
<1>. HIDE DEF Inv
<1>. QED  BY <1>1, <1>2, <1>3, <1>4, RevisionsHold, AccountHolds, PTL DEF Spec

-----------------------------------------------------------------------------
(* The gauntlet of real instances.  What is in the clone is known from the *)
(* point on where _reset_repo has it: before that, it holds whatever       *)
(* earlier arms left there, those that were killed included.               *)
Changes == Patches \cup {CommentIn(file) : file \in SourceFiles}
Litter == {"untracked", "ignored"}
Trees == [commit : Revisions \cup {NoInstance}, applied : SUBSET Changes, litter : SUBSET Litter]
Clones == [is : {"absent", "partial", "repo"}, head : Trees, tree : Trees, untracked : SUBSET Litter,
           unmerged : BOOLEAN, locked : BOOLEAN]
ArmStages == {"idle", "resolve", "checkout", "reset", "clean", "test_patch", "commit_base", "change", "commit_head", "verify"}
TestNodes == {DefaultNode} \cup {TestNode(i, name) : i \in Instances, name \in Arms}
Invocations == [stage : ArmStages, inst : Instances \cup {NoInstance}, name : Arms, base : Trees, head : Trees,
                node : TestNodes, timeout : {1, 300}]
GauntletTyped ==
  /\ fixture \in [Fixtures -> Clones] /\ arm \in Invocations
  /\ ~At("idle") => Inst \in Manifest

(* What the base should be, and what an arm may add to it. *)
Based(i) == [Tree(BaseCommit[i]) EXCEPT !.applied = {TestPatch[i]}]
Additions(i, name) ==
  CASE name = "comment" -> {CommentIn(file) : file \in SourceFiles}
    [] name = "crossed" -> {Solution[j] : j \in Manifest \ {i}}
    [] OTHER            -> {Solution[i]}
With(base, patch) == [base EXCEPT !.applied = @ \cup {patch}]

IsCheckedOut == arm.stage \in {"reset", "clean", "test_patch"} => fixture[Place].head = Tree(BaseCommit[Inst])
IsReset == arm.stage \in {"clean", "test_patch"} => fixture[Place].tree = fixture[Place].head
IsCleaned == arm.stage \in {"test_patch", "commit_base", "change", "commit_head"} => fixture[Place].untracked = {}
HasTests == At("commit_base") => fixture[Place].tree = Based(Inst)
IsBase ==
  arm.stage \in {"change", "commit_head"} => arm.base = Based(Inst) /\ fixture[Place].head = arm.base
IsUnchanged == At("change") => fixture[Place].tree = arm.base
HasChange == At("commit_head") => \E patch \in Additions(Inst, arm.name) : fixture[Place].tree = With(arm.base, patch)
GauntletInv ==
  /\ GauntletTyped /\ IsCheckedOut /\ IsReset /\ IsCleaned /\ HasTests /\ IsBase /\ IsUnchanged /\ HasChange
  /\ ArmIsItsPatch

(* A node to run is one of the instance's, or the default. *)
LEMMA Nowhere == NoTree \in Trees /\ NoFixture \in Clones /\ NoArm \in Invocations
  BY DEF NoTree, Tree, Trees, NoFixture, Clones, NoArm, Invocations, ArmStages, Arms, TestNodes

LEMMA HasPlace ==
  ASSUME GauntletTyped, ~At("idle")
  PROVE  /\ Inst \in Instances /\ Place \in Fixtures /\ fixture[Place] \in Clones
         /\ BaseCommit[Inst] \in Revisions /\ Solution[Inst] \in Patches /\ TestPatch[Inst] \in Patches
         /\ Tree(BaseCommit[Inst]) \in Trees /\ arm.name \in Arms
<1>1. Inst \in Instances  BY GauntletAssumption DEF GauntletTyped
<1>2. /\ Place \in Fixtures /\ BaseCommit[Inst] \in Revisions
      /\ Solution[Inst] \in Patches /\ TestPatch[Inst] \in Patches
  BY <1>1, GauntletAssumption DEF Place
<1>3. fixture[Place] \in Clones /\ arm.name \in Arms  BY <1>2 DEF GauntletTyped, Invocations
<1>. QED  BY <1>1, <1>2, <1>3 DEF Tree, Trees

(* The arm goes on to a stage, having done something to its clone or not. *)
LEMMA GoesOn ==
  ASSUME GauntletTyped, ~At("idle"), NEW stage \in ArmStages, To(stage),
         NEW g \in Clones, Update(g) \/ (g = fixture[Place] /\ UNCHANGED fixture)
  PROVE  /\ GauntletTyped' /\ arm'.stage = stage /\ Inst' = Inst /\ Place' = Place /\ fixture'[Place'] = g
         /\ arm'.name = arm.name /\ arm'.base = arm.base /\ arm'.head = arm.head
<1>1. Place \in Fixtures  BY HasPlace
<1>2. /\ arm' \in Invocations /\ arm'.stage = stage /\ arm'.inst = arm.inst
      /\ arm'.name = arm.name /\ arm'.base = arm.base /\ arm'.head = arm.head
  BY DEF GauntletTyped, Invocations, To
<1>3. Inst' = Inst /\ Place' = Place  BY <1>2 DEF Inst, Place
<1>4. fixture' \in [Fixtures -> Clones] /\ fixture'[Place] = g
  BY <1>1 DEF GauntletTyped, Update
<1>. QED  BY <1>2, <1>3, <1>4 DEF GauntletTyped, At

(* The arm is over. *)
LEMMA IsOver ==
  ASSUME GauntletTyped, Leave, fixture' \in [Fixtures -> Clones]
  PROVE  GauntletInv'
<1>1. arm' = NoArm  BY DEF Leave
<1>2. arm' \in Invocations /\ arm'.stage = "idle"  BY <1>1, Nowhere DEF NoArm
<1>. QED
  BY <1>2 DEF GauntletInv, GauntletTyped, At, IsCheckedOut, IsReset, IsCleaned, HasTests, IsBase, IsUnchanged, HasChange, ArmIsItsPatch

LEMMA Updated ==
  ASSUME GauntletTyped, NEW g \in Clones, Update(g)
  PROVE  fixture' \in [Fixtures -> Clones]
BY DEF GauntletTyped, Update

LEMMA ErrorEnds == ASSUME GauntletTyped, Raise PROVE GauntletInv'
  BY IsOver DEF Raise, GauntletTyped

(* git's commands on a clone. *)
LEMMA Patching ==
  ASSUME NEW f \in Clones, NEW patch \in Changes
  PROVE  /\ Applied(f, patch) \in Clones /\ Conflicted(f, patch) \in Clones
         /\ Applied(f, patch).head = f.head /\ Applied(f, patch).untracked = f.untracked
         /\ Applied(f, patch).tree = With(f.tree, patch)
<1>1. f.tree \in Trees  BY DEF Clones
<1>2. With(f.tree, patch) \in Trees  BY <1>1 DEF With, Trees
<1>3. Applied(f, patch) = [f EXCEPT !.tree = With(f.tree, patch)]  BY DEF Applied, With, Clones
<1>4. /\ Applied(f, patch) \in Clones /\ Applied(f, patch).head = f.head
      /\ Applied(f, patch).untracked = f.untracked /\ Applied(f, patch).tree = With(f.tree, patch)
  BY <1>2, <1>3 DEF Clones
<1>5. Conflicted(f, patch) \in Clones  BY <1>4 DEF Conflicted, Clones
<1>. QED  BY <1>4, <1>5

(* A commit in a clean clone holds what its tree holds. *)
LEMMA Committing ==
  ASSUME NEW f \in Clones
  PROVE  /\ Committed(f) \in Clones /\ Committed(f).head = Committed(f).tree
         /\ f.untracked = {} => Committed(f).untracked = {} /\ Committed(f).tree = f.tree
<1>. DEFINE content == [f.tree EXCEPT !.litter = @ \cup (f.untracked \ {"ignored"})]
<1>1. f.tree \in Trees /\ f.untracked \in SUBSET Litter  BY DEF Clones
<1>2. content \in Trees  BY <1>1 DEF Trees, Litter
<1>3. f.untracked = {} => content = f.tree  BY <1>1 DEF Trees
<1>4. Committed(f) = [f EXCEPT !.head = content, !.tree = content, !.untracked = f.untracked \cap {"ignored"}]
  BY DEF Committed, Clones
<1>. HIDE DEF content
<1>5. f.untracked \cap {"ignored"} \in SUBSET Litter  BY <1>1
<1>6. /\ Committed(f) \in Clones /\ Committed(f).head = content /\ Committed(f).tree = content
      /\ Committed(f).untracked = f.untracked \cap {"ignored"}
  BY <1>2, <1>4, <1>5 DEF Clones
<1>. QED  BY <1>3, <1>6

LEMMA Detaching ==
  ASSUME NEW f \in Clones, NEW commit \in Revisions
  PROVE  Detach(f, commit) \in Clones /\ Detach(f, commit).head = Tree(commit)
<1>. DEFINE carried == [Tree(commit) EXCEPT !.applied = f.tree.applied \ f.head.applied,
                                            !.litter = f.tree.litter \ f.head.litter]
<1>1. f.tree \in Trees /\ f.head \in Trees  BY DEF Clones
<1>2. Tree(commit) \in Trees  BY DEF Tree, Trees
<1>3. carried \in Trees  BY <1>1, <1>2 DEF Trees, Tree
<1>4. Detach(f, commit) = [f EXCEPT !.head = Tree(commit), !.tree = carried]  BY DEF Detach
<1>. HIDE DEF carried
<1>. QED  BY <1>2, <1>3, <1>4 DEF Clones

(* The file a comment goes into is one of the repository's. *)
LEMMA LeastIndex ==
  ASSUME NEW S \in SUBSET Nat, S # {}
  PROVE  Min(S) \in S
<1>1. PICK x \in S : \A y \in S : ~(<<y, x>> \in OpToRel(<, Nat))  BY WFMin, NatLessThanWellFounded
<1>2. \A y \in S : ~(y < x)  BY <1>1, Zenon DEF OpToRel
<1>3. \E z \in S : \A y \in S : z <= y  BY <1>2
<1>. QED  BY <1>3 DEF Min

LEMMA NonemptyLength ==
  ASSUME NEW S, NEW s \in Seq(S), s # <<>>
  PROVE  Len(s) \in Nat /\ Len(s) # 0
OBVIOUS

LEMMA ElementInSet ==
  ASSUME NEW S, NEW s \in Seq(S), NEW k \in 1..Len(s)
  PROVE  s[k] \in S
OBVIOUS

LEMMA CommentHasFile ==
  ASSUME NEW i \in Instances, CommentTarget(i) # NoFile
  PROVE  CommentTarget(i) \in SourceFiles
<1>. DEFINE files == Headers[i]
            named == {k \in DOMAIN files : files[k].named}
            chosen == IF named = {} THEN 1 ELSE Min(named)
            imports == files[chosen].imports
            decisive == {k \in DOMAIN imports : imports[k].finds # NoFile \/ imports[k].ends}
<1>1. files \in Seq(TestFiles)  BY GauntletAssumption
<1>2. files # <<>> /\ decisive # {} /\ CommentTarget(i) = imports[Min(decisive)].finds  BY DEF CommentTarget
<1>. HIDE DEF files
<1>a. files # <<>>  BY <1>2
<1>b. Len(files) \in Nat /\ Len(files) # 0  BY <1>1, <1>a, NonemptyLength
<1>3. chosen \in 1..Len(files)
  <2>1. CASE named = {}
    <3>1. Len(files) \in Nat /\ Len(files) # 0  BY <1>b
    <3>. QED  BY <2>1, <3>1
  <2>2. CASE named # {}
    <3>1. named \in SUBSET Nat /\ named \subseteq 1..Len(files)  BY <1>1
    <3>. HIDE DEF named
    <3>2. Min(named) \in named  BY <2>2, <3>1, LeastIndex
    <3>. QED  BY <2>2, <3>1, <3>2
  <2>. QED  BY <2>1, <2>2
<1>. HIDE DEF chosen
<1>4. files[chosen] \in TestFiles  BY <1>1, <1>3
<1>5. imports \in Seq([finds : SourceFiles \cup {NoFile}, ends : BOOLEAN])  BY <1>4 DEF TestFiles
<1>. HIDE DEF imports
<1>6. decisive \in SUBSET Nat /\ decisive \subseteq 1..Len(imports)  BY <1>5
<1>. HIDE DEF decisive
<1>7. Min(decisive) \in 1..Len(imports)  BY <1>2, <1>6, LeastIndex
<1>8. imports[Min(decisive)] \in [finds : SourceFiles \cup {NoFile}, ends : BOOLEAN]
  BY <1>5, <1>7, ElementInSet
<1>. QED  BY <1>2, <1>8

(* One action each. *)
LEMMA InvokeKeeps == ASSUME GauntletInv, Invoke PROVE GauntletInv'
<1>1. PICK i \in Manifest, name \in Arms : arm' = [NoArm EXCEPT !.stage = "resolve", !.inst = i, !.name = name]
  BY DEF Invoke
<1>2. arm' \in Invocations /\ arm'.stage = "resolve" /\ arm'.inst = i
  BY <1>1, Nowhere, GauntletAssumption DEF Invocations, ArmStages
<1>3. fixture' \in [Fixtures -> Clones]  BY DEF Invoke, GauntletInv, GauntletTyped
<1>. QED
  BY <1>2, <1>3 DEF GauntletInv, GauntletTyped, At, Inst, IsCheckedOut, IsReset, IsCleaned, HasTests, IsBase, IsUnchanged, HasChange, ArmIsItsPatch

LEMMA ResolveKeeps == ASSUME GauntletInv, ResolveRepo PROVE GauntletInv'
<1>. USE DEF GauntletInv
<1>1. ~At("idle") /\ "checkout" \in ArmStages  BY DEF ResolveRepo, At, ArmStages
<1>2. CASE Raise  BY <1>2, ErrorEnds
<1>3. CASE To("checkout")
  <2>1. PICK g \in Clones : Update(g) \/ (g = fixture[Place] /\ UNCHANGED fixture)
    <3>1. ClonedFor(Inst) \in Clones  BY <1>1, HasPlace, Nowhere DEF ClonedFor, Clones
    <3>2. fixture[Place] \in Clones  BY <1>1, HasPlace
    <3>3. Update(ClonedFor(Inst)) \/ UNCHANGED fixture  BY <1>3 DEF ResolveRepo, Raise
    <3>. QED  BY <3>1, <3>2, <3>3
  <2>2. GauntletTyped' /\ arm'.stage = "checkout"  BY <1>1, <1>3, <2>1, GoesOn
  <2>. QED  BY <2>2 DEF At, IsCheckedOut, IsReset, IsCleaned, HasTests, IsBase, IsUnchanged, HasChange, ArmIsItsPatch
<1>. QED  BY <1>2, <1>3 DEF ResolveRepo

(* checkout raises, or has the base checked out. *)
LEMMA CheckoutKeeps == ASSUME GauntletInv, CheckoutBase PROVE GauntletInv'
<1>. USE DEF GauntletInv
<1>1. ~At("idle") /\ "reset" \in ArmStages  BY DEF CheckoutBase, At, ArmStages
<1>2. CASE Raise  BY <1>2, ErrorEnds
<1>3. CASE Update(Detach(fixture[Place], BaseCommit[Inst])) /\ To("reset")
  <2>. DEFINE g == Detach(fixture[Place], BaseCommit[Inst])
  <2>1. g \in Clones /\ g.head = Tree(BaseCommit[Inst])  BY <1>1, HasPlace, Detaching
  <2>. HIDE DEF g
  <2>2. Update(g) /\ To("reset")  BY <1>3 DEF g
  <2>3. GauntletTyped' /\ arm'.stage = "reset" /\ Inst' = Inst /\ fixture'[Place'] = g
    BY <1>1, <2>1, <2>2, GoesOn
  <2>. QED  BY <2>1, <2>3 DEF At, IsCheckedOut, IsReset, IsCleaned, HasTests, IsBase, IsUnchanged, HasChange, ArmIsItsPatch
<1>. QED  BY <1>2, <1>3 DEF CheckoutBase

LEMMA ResetKeeps == ASSUME GauntletInv, ResetHard PROVE GauntletInv'
<1>. USE DEF GauntletInv
<1>1. ~At("idle") /\ "clean" \in ArmStages /\ arm.stage = "reset"  BY DEF ResetHard, At, ArmStages
<1>. DEFINE f == fixture[Place]
            g == [f EXCEPT !.tree = f.head]
<1>2. f \in Clones /\ f.head = Tree(BaseCommit[Inst])  BY <1>1, HasPlace DEF IsCheckedOut
<1>. HIDE DEF f
<1>3. g \in Clones /\ g.head = f.head /\ g.tree = f.head  BY <1>2 DEF Clones
<1>4. Update(g) /\ To("clean")  BY DEF ResetHard, f
<1>. HIDE DEF g
<1>5. GauntletTyped' /\ arm'.stage = "clean" /\ Inst' = Inst /\ fixture'[Place'] = g  BY <1>1, <1>3, <1>4, GoesOn
<1>. QED  BY <1>2, <1>3, <1>5 DEF At, IsCheckedOut, IsReset, IsCleaned, HasTests, IsBase, IsUnchanged, HasChange, ArmIsItsPatch

LEMMA CleanKeeps == ASSUME GauntletInv, CleanRepo PROVE GauntletInv'
<1>. USE DEF GauntletInv
<1>1. ~At("idle") /\ "test_patch" \in ArmStages /\ arm.stage = "clean"  BY DEF CleanRepo, At, ArmStages
<1>. DEFINE f == fixture[Place]
            g == [f EXCEPT !.untracked = {}]
<1>2. f \in Clones /\ f.head = Tree(BaseCommit[Inst]) /\ f.tree = f.head
  BY <1>1, HasPlace DEF IsCheckedOut, IsReset
<1>. HIDE DEF f
<1>3. g \in Clones /\ g.head = f.head /\ g.tree = f.tree /\ g.untracked = {}  BY <1>2 DEF Clones
<1>4. Update(g) /\ To("test_patch")  BY DEF CleanRepo, f
<1>. HIDE DEF g
<1>5. GauntletTyped' /\ arm'.stage = "test_patch" /\ Inst' = Inst /\ fixture'[Place'] = g
  BY <1>1, <1>3, <1>4, GoesOn
<1>. QED  BY <1>2, <1>3, <1>5 DEF At, IsCheckedOut, IsReset, IsCleaned, HasTests, IsBase, IsUnchanged, HasChange, ArmIsItsPatch

(* A patch that does not fit ends the arm; one that fits is in the tree. *)
LEMMA ApplyPatchKeeps ==
  ASSUME GauntletTyped, ~At("idle"), NEW patch \in Changes, NEW next \in ArmStages, ApplyPatch(patch, next)
  PROVE  GauntletInv' \/ (Update(Applied(fixture[Place], patch)) /\ To(next))
<1>1. fixture[Place] \in Clones  BY HasPlace
<1>2. CASE Raise  BY <1>2, ErrorEnds
<1>3. CASE Update(Conflicted(fixture[Place], patch)) /\ Leave
  <2>1. Conflicted(fixture[Place], patch) \in Clones  BY <1>1, Patching
  <2>2. fixture' \in [Fixtures -> Clones]  BY <1>3, <2>1, Updated
  <2>. QED  BY <1>3, <2>2, IsOver
<1>. QED  BY <1>2, <1>3 DEF ApplyPatch

LEMMA TestPatchKeeps == ASSUME GauntletInv, ApplyTestPatch PROVE GauntletInv'
<1>. USE DEF GauntletInv
<1>1. ~At("idle") /\ "commit_base" \in ArmStages /\ arm.stage = "test_patch"
  BY DEF ApplyTestPatch, At, ArmStages
<1>2. TestPatch[Inst] \in Changes  BY <1>1, HasPlace DEF Changes
<1>. DEFINE f == fixture[Place]
            g == Applied(f, TestPatch[Inst])
<1>3. f \in Clones /\ f.head = Tree(BaseCommit[Inst]) /\ f.tree = f.head /\ f.untracked = {}
  BY <1>1, HasPlace DEF IsCheckedOut, IsReset, IsCleaned
<1>4. g \in Clones /\ g.untracked = {} /\ g.tree = With(f.tree, TestPatch[Inst])  BY <1>2, <1>3, Patching
<1>5. With(Tree(BaseCommit[Inst]), TestPatch[Inst]) = Based(Inst)  BY DEF With, Tree, Based
<1>6. ASSUME Update(g), To("commit_base") PROVE GauntletInv'
  <2>. HIDE DEF g
  <2>1. GauntletTyped' /\ arm'.stage = "commit_base" /\ Inst' = Inst /\ fixture'[Place'] = g
    BY <1>1, <1>4, <1>6, GoesOn
  <2>. HIDE DEF f
  <2>. QED
    BY <1>3, <1>4, <1>5, <2>1 DEF At, IsCheckedOut, IsReset, IsCleaned, HasTests, IsBase, IsUnchanged, HasChange, ArmIsItsPatch
<1>7. GauntletInv' \/ (Update(g) /\ To("commit_base"))  BY <1>1, <1>2, ApplyPatchKeeps DEF ApplyTestPatch
<1>. QED  BY <1>6, <1>7

LEMMA CommitBaseKeeps == ASSUME GauntletInv, CommitBase PROVE GauntletInv'
<1>. USE DEF GauntletInv
<1>1. ~At("idle") /\ arm.stage = "commit_base"  BY DEF CommitBase, At
<1>2. CASE Raise  BY <1>2, ErrorEnds
<1>3. CASE ~Raise
  <2>. DEFINE f == fixture[Place]
              g == Committed(f)
  <2>1. f \in Clones /\ f.untracked = {} /\ f.tree = Based(Inst)  BY <1>1, HasPlace DEF IsCleaned, HasTests, At
  <2>2. g \in Clones /\ g.head = Based(Inst) /\ g.tree = Based(Inst) /\ g.untracked = {}  BY <2>1, Committing
  <2>3. Update(g) /\ arm' = [arm EXCEPT !.stage = "change", !.base = g.tree, !.node = TestNode(Inst, arm.name)]
    BY <1>3 DEF CommitBase, CommitAll
  <2>. HIDE DEF f, g
  <2>4. g.tree \in Trees /\ Inst \in Instances /\ arm.name \in Arms  BY <1>1, <2>2, HasPlace DEF Clones
  <2>5. TestNode(Inst, arm.name) \in TestNodes  BY <2>4 DEF TestNodes
  <2>6. arm' \in Invocations /\ arm'.stage = "change" /\ arm'.inst = arm.inst /\ arm'.base = g.tree
    BY <2>3, <2>4, <2>5 DEF GauntletTyped, Invocations, ArmStages
  <2>7. Inst' = Inst /\ Place' = Place  BY <2>6 DEF Inst, Place
  <2>8. fixture' \in [Fixtures -> Clones] /\ fixture'[Place] = g
    BY <1>1, <2>2, <2>3, HasPlace DEF GauntletTyped, Update
  <2>9. GauntletTyped'  BY <1>1, <2>6, <2>7, <2>8 DEF GauntletTyped, At
  <2>. QED
    BY <2>2, <2>6, <2>7, <2>8, <2>9 DEF At, IsCheckedOut, IsReset, IsCleaned, HasTests, IsBase, IsUnchanged, HasChange, ArmIsItsPatch
<1>. QED  BY <1>2, <1>3

(* What an arm applies is one of its additions. *)
LEMMA ChangeIsAnAddition ==
  ASSUME GauntletInv, ApplyChange
  PROVE  \/ GauntletInv'
         \/ \E patch \in Additions(Inst, arm.name) \cap Changes :
              Update(Applied(fixture[Place], patch)) /\ To("commit_head")
<1>. USE DEF GauntletInv
<1>1. ~At("idle") /\ "commit_head" \in ArmStages  BY DEF ApplyChange, At, ArmStages
<1>2. CASE Raise  BY <1>2, ErrorEnds
<1>3. CASE /\ arm.name = "comment" /\ CommentTarget(Inst) # NoFile
           /\ Update(Applied(fixture[Place], CommentIn(CommentTarget(Inst)))) /\ To("commit_head")
  <2>1. CommentTarget(Inst) \in SourceFiles  BY <1>1, <1>3, HasPlace, CommentHasFile
  <2>2. CommentIn(CommentTarget(Inst)) \in Additions(Inst, arm.name) \cap Changes
    BY <1>3, <2>1 DEF Additions, Changes
  <2>. QED  BY <1>3, <2>2
<1>4. CASE arm.name = "crossed" /\ Donor[Inst] \in Manifest /\ ApplyPatch(Solution[Donor[Inst]], "commit_head")
  <2>1. Donor[Inst] # Inst /\ Donor[Inst] \in Instances  BY <1>1, <1>4, HasPlace, GauntletAssumption
  <2>2. Solution[Donor[Inst]] \in Changes  BY <2>1, GauntletAssumption DEF Changes
  <2>3. Solution[Donor[Inst]] \in Additions(Inst, arm.name)  BY <1>4, <2>1 DEF Additions
  <2>. QED  BY <1>1, <1>4, <2>2, <2>3, ApplyPatchKeeps
<1>5. CASE arm.name \in {"gold", "timeout", "p2p"} /\ ApplyPatch(Solution[Inst], "commit_head")
  <2>1. Solution[Inst] \in Changes  BY <1>1, HasPlace DEF Changes
  <2>2. Solution[Inst] \in Additions(Inst, arm.name)  BY <1>5 DEF Additions
  <2>. QED  BY <1>1, <1>5, <2>1, <2>2, ApplyPatchKeeps
<1>. QED  BY <1>2, <1>3, <1>4, <1>5 DEF ApplyChange

LEMMA ChangeKeeps == ASSUME GauntletInv, ApplyChange PROVE GauntletInv'
<1>. USE DEF GauntletInv
<1>1. ~At("idle") /\ "commit_head" \in ArmStages /\ arm.stage = "change"  BY DEF ApplyChange, At, ArmStages
<1>2. ASSUME NEW patch \in Additions(Inst, arm.name) \cap Changes,
             Update(Applied(fixture[Place], patch)), To("commit_head")
      PROVE  GauntletInv'
  <2>. DEFINE f == fixture[Place]
              g == Applied(f, patch)
  <2>1. f \in Clones /\ f.untracked = {} /\ arm.base = Based(Inst) /\ f.head = arm.base /\ f.tree = arm.base
    BY <1>1, HasPlace DEF IsCleaned, IsBase, IsUnchanged, At
  <2>2. g \in Clones /\ g.untracked = {} /\ g.head = arm.base /\ g.tree = With(arm.base, patch)
    BY <1>2, <2>1, Patching
  <2>3. Update(g)  BY <1>2
  <2>. HIDE DEF f, g
  <2>4. /\ GauntletTyped' /\ arm'.stage = "commit_head" /\ Inst' = Inst /\ fixture'[Place'] = g
        /\ arm'.name = arm.name /\ arm'.base = arm.base
    BY <1>1, <1>2, <2>2, <2>3, GoesOn
  <2>5. HasChange'  BY <1>2, <2>2, <2>4 DEF HasChange
  <2>. QED
    BY <2>1, <2>2, <2>4, <2>5 DEF At, IsCheckedOut, IsReset, IsCleaned, HasTests, IsBase, IsUnchanged, ArmIsItsPatch
<1>. QED  BY <1>2, ChangeIsAnAddition

(* What is committed on top of the base is what it did not hold already. *)
LEMMA CommitHeadKeeps == ASSUME GauntletInv, CommitHead PROVE GauntletInv'
<1>. USE DEF GauntletInv
<1>1. ~At("idle") /\ arm.stage = "commit_head"  BY DEF CommitHead, At
<1>2. CASE Raise  BY <1>2, ErrorEnds
<1>3. CASE ~Raise
  <2>. DEFINE f == fixture[Place]
              g == Committed(f)
  <2>1. PICK patch \in Additions(Inst, arm.name) : f.tree = With(arm.base, patch)  BY <1>1 DEF HasChange, At
  <2>2. f \in Clones /\ f.untracked = {} /\ arm.base = Based(Inst) /\ f.head = arm.base
    BY <1>1, HasPlace DEF IsCleaned, IsBase
  <2>3. g \in Clones /\ g.head = g.tree /\ g.tree = With(arm.base, patch) /\ g.untracked = {}  BY <2>1, <2>2, Committing
  <2>4. g.tree # arm.base /\ Update(g)
        /\ arm' = [arm EXCEPT !.stage = "verify", !.head = g.tree, !.timeout = IF arm.name = "timeout" THEN 1 ELSE 300]
    BY <1>3, <2>2 DEF CommitHead, CommitAll, NothingToCommit
  <2>. HIDE DEF f, g
  <2>5. g.tree \in Trees /\ arm.base \in Trees /\ arm \in Invocations  BY <2>3 DEF Clones, GauntletTyped, Invocations
  <2>6. /\ arm' \in Invocations /\ arm'.stage = "verify" /\ arm'.inst = arm.inst /\ arm'.base = arm.base
        /\ arm'.head = With(arm.base, patch) /\ arm'.name = arm.name
    <3>. DEFINE limit == IF arm.name = "timeout" THEN 1 ELSE 300
                next == [arm EXCEPT !.stage = "verify", !.head = g.tree, !.timeout = limit]
    <3>1. limit \in {1, 300}  OBVIOUS
    <3>. HIDE DEF limit
    <3>2. /\ next \in Invocations /\ next.stage = "verify" /\ next.inst = arm.inst /\ next.base = arm.base
          /\ next.head = g.tree /\ next.name = arm.name
      BY <2>5, <3>1 DEF Invocations, ArmStages
    <3>3. arm' = next  BY <2>4 DEF limit
    <3>. HIDE DEF next
    <3>. QED  BY <2>3, <3>2, <3>3
  <2>7. Inst' = Inst /\ Place' = Place  BY <2>6 DEF Inst, Place
  <2>8. fixture' \in [Fixtures -> Clones]  BY <2>3, <2>4, Updated
  <2>9. GauntletTyped'  BY <1>1, <2>6, <2>7, <2>8 DEF GauntletTyped, At
  <2>10. patch \notin arm.base.applied
    <3> SUFFICES ASSUME patch \in arm.base.applied PROVE FALSE  OBVIOUS
    <3>1. With(arm.base, patch) = arm.base  BY <2>5 DEF With, Trees
    <3>. QED  BY <2>3, <2>4, <3>1
  <2>11. ArmIsItsPatch'
    <3>1. arm'.base = Based(Inst)'  BY <2>2, <2>6, <2>7 DEF Based
    <3>2. arm'.head.applied = arm.base.applied \cup {patch}  BY <2>5, <2>6 DEF With, Trees
    <3>3. arm'.head.applied \ arm'.base.applied = {patch}  BY <2>6, <2>10, <3>2
    <3>4. arm'.head = [arm'.base EXCEPT !.applied = @ \cup {patch}]  BY <2>6 DEF With
    <3>5. CASE arm.name = "comment"
      <4>1. \E file \in SourceFiles : {patch} = {CommentIn(file)}  BY <2>1, <3>5 DEF Additions
      <4>. QED  BY <2>6, <3>1, <3>3, <3>4, <3>5, <4>1 DEF ArmIsItsPatch, Based
    <3>6. CASE arm.name = "crossed"
      <4>1. \E i \in Manifest \ {Inst} : {patch} = {Solution[i]}  BY <2>1, <3>6 DEF Additions
      <4>2. Inst' = Inst /\ arm'.name = "crossed"  BY <2>6, <2>7, <3>6
      <4>3. \E i \in Manifest \ {Inst'} : arm'.head.applied \ arm'.base.applied = {Solution[i]}
        BY <3>3, <4>1, <4>2
      <4>. QED  BY <3>1, <3>4, <4>2, <4>3 DEF ArmIsItsPatch, Based
    <3>7. CASE arm.name # "comment" /\ arm.name # "crossed"
      <4>1. {patch} = {Solution[Inst]}  BY <2>1, <3>7 DEF Additions
      <4>. QED  BY <2>6, <2>7, <3>1, <3>3, <3>4, <3>7, <4>1 DEF ArmIsItsPatch, Based
    <3>. QED  BY <3>5, <3>6, <3>7
  <2>. QED  BY <2>6, <2>9, <2>11 DEF At, IsCheckedOut, IsReset, IsCleaned, HasTests, IsBase, IsUnchanged, HasChange
<1>. QED  BY <1>2, <1>3

LEMMA VerifyArmKeeps == ASSUME GauntletInv, VerifyArm PROVE GauntletInv'
<1>. USE DEF GauntletInv
<1>1. ~At("idle") /\ Leave  BY DEF VerifyArm, At
<1>2. PICK left \in SUBSET Litter :
        Update([fixture[Place] EXCEPT !.untracked = @ \cup left])
  BY DEF VerifyArm, Litter
<1>3. fixture[Place] \in Clones  BY <1>1, HasPlace
<1>4. [fixture[Place] EXCEPT !.untracked = @ \cup left] \in Clones  BY <1>3 DEF Clones
<1>. QED  BY <1>1, <1>2, <1>4, Updated, IsOver

LEMMA KillArmKeeps == ASSUME GauntletInv, KillArm PROVE GauntletInv'
<1>. USE DEF GauntletInv
<1>1. ~At("idle") /\ Leave  BY DEF KillArm
<1>2. fixture[Place] \in Clones  BY <1>1, HasPlace
<1>3. [fixture[Place] EXCEPT !.locked = TRUE] \in Clones  BY <1>2 DEF Clones
<1>4. [NoFixture EXCEPT !.is = "partial"] \in Clones  BY Nowhere DEF Clones
<1>5. fixture' \in [Fixtures -> Clones]  BY <1>3, <1>4, Updated DEF KillArm, GauntletTyped
<1>. QED  BY <1>1, <1>5, IsOver

(* Whatever earlier arms of an instance, or arms killed in its clone, left *)
(* there, what verify_test is given is the instance's commit with its own  *)
(* tests, and that with exactly what the arm is named for: run_instance    *)
(* resets and cleans before it applies, and raises when a patch conflicts  *)
(* or a commit would be empty.                                             *)
THEOREM ArmsCompareTheirPatch == GauntletSpec => []ArmIsItsPatch
<1>1. GauntletInit => GauntletInv
  <2> SUFFICES ASSUME GauntletInit PROVE GauntletInv  OBVIOUS
  <2>1. fixture \in [Fixtures -> Clones]  BY Nowhere DEF GauntletInit
  <2>2. arm \in Invocations /\ arm.stage = "idle"  BY Nowhere DEF GauntletInit, NoArm
  <2>. QED
    BY <2>1, <2>2 DEF GauntletInv, GauntletTyped, At, IsCheckedOut, IsReset, IsCleaned, HasTests, IsBase, IsUnchanged, HasChange, ArmIsItsPatch
<1>2. GauntletInv /\ [GauntletNext]_gauntletVars => GauntletInv'
  <2> SUFFICES ASSUME GauntletInv, [GauntletNext]_gauntletVars PROVE GauntletInv'  OBVIOUS
  <2>1. CASE UNCHANGED gauntletVars
    BY <2>1 DEF gauntletVars, GauntletInv, GauntletTyped, At, Inst, Place, IsCheckedOut, IsReset, IsCleaned, HasTests, IsBase,
         IsUnchanged, HasChange, ArmIsItsPatch
  <2>. QED
    BY <2>1, InvokeKeeps, ResolveKeeps, CheckoutKeeps, ResetKeeps, CleanKeeps, TestPatchKeeps, CommitBaseKeeps, ChangeKeeps,
       CommitHeadKeeps, VerifyArmKeeps, KillArmKeeps DEF GauntletNext
<1>3. GauntletInv => ArmIsItsPatch  BY DEF GauntletInv
<1>. QED  BY <1>1, <1>2, <1>3, PTL DEF GauntletSpec
=============================================================================
