------------------------------- MODULE Pipeline -------------------------------
(***************************************************************************)
(* pipeline.run for one pair of revisions: the diff is screened and its    *)
(* targets are ranked, the model is asked for candidates, target by target *)
(* and attempt by attempt, each candidate is judged by the oracle (module  *)
(* Oracle), a catching one is assessed, and every judged one is written to *)
(* the outcome ledger.  Whatever the model does, or fails to do, is        *)
(* accounted for in the report.                                            *)
(***************************************************************************)
EXTENDS Oracle, SequencesExt

CONSTANTS
  Pairs, NoPair,
  Kind,         \* Kind[p]: "ordinary", "empty", "inverted" or "no_python"
  Targets,
  Changed,      \* Changed[p]: the symbols extract_targets finds in the diff
  Ignored,      \* the symbols in files that match cfg.ignore
  Score,        \* their risk scores; ties are broken by name
  MaxTargets,   \* cfg.max_targets
  PerTarget,    \* cfg.candidates_per_target
  LatentMode    \* cfg.latent_mode

ASSUME PipelineAssumption ==
  /\ NoPair \notin Pairs /\ Ignored \subseteq Targets /\ IsFiniteSet(Targets)
  /\ Kind \in [Pairs -> {"ordinary", "empty", "inverted", "no_python"}]
  /\ Changed \in [Pairs -> SUBSET Targets]
  /\ Score \in [Targets -> Nat] /\ \A a, b \in Targets : Score[a] = Score[b] => a = b
  /\ MaxTargets \in Nat \ {0} /\ PerTarget \in Nat \ {0} /\ LatentMode \in BOOLEAN

VARIABLES
  run,      \* where the run is: its pair, the targets to come, the attempt
  report,   \* the Report; attempts counts the calls of llm.complete
  recorded  \* the rows that this run has written to the ledger

pipelineVars == <<run, report, recorded>>

Unanswered == {"rate_limited", "timed_out", "model_error"}
GoneStatuses == {"model_unavailable", "quota_exhausted"}
Causes == Unanswered \cup GoneStatuses \cup (Dispositions \ {"catching"}) \cup
          {"model_declined", "short_circuit", "parse_failed", "unsafe"}

NoRun == [stage |-> "idle", pair |-> NoPair, threshold |-> 0, queue |-> <<>>, attempt |-> 1]

(* stops is history: the attempts that the budget refused, which leave     *)
(* only a line among the errors.                                           *)
NoReport == [status |-> "ok", considered |-> 0, attempts |-> 0, requests |-> 0, throttled |-> 0,
             generated |-> 0, stops |-> 0,
             dropped |-> [c \in Causes |-> 0], findings |-> <<>>, latent |-> <<>>]

PipelineInit == run = NoRun /\ report = NoReport /\ recorded = <<>> /\ Worktrees
BeginRun(p, threshold) ==
  /\ run' = [NoRun EXCEPT !.stage = "diff", !.pair = p, !.threshold = threshold]
  /\ report' = NoReport /\ recorded' = <<>> /\ UNCHANGED oracleVars

(* rank: the targets that reach the threshold, riskiest first, cut off at  *)
(* the maximum.  The i-th is the one that i - 1 others exceed.             *)
Kept(p) == Changed[p] \ Ignored
Rank(p, threshold) ==
  LET above == {t \in Kept(p) : Score[t] >= threshold}
      riskier(t) == {u \in above : Score[u] > Score[t]}
      most == IF Cardinality(above) < MaxTargets THEN Cardinality(above) ELSE MaxTargets
  IN  [i \in 1..most |-> CHOOSE t \in above : Cardinality(riskier(t)) = i - 1]

(* Why a pair is not analysed at all.  An inverted range is asked about    *)
(* only when the diff has no targets.                                      *)
Screening(p, threshold) ==
  CASE Kind[p] = "empty"                                -> "empty"
    [] Kind[p] # "empty" /\ Changed[p] = {}             ->
         CASE Kind[p] = "inverted"  -> "inverted_range"
           [] Kind[p] = "no_python" -> "no_python_in_diff"
           [] OTHER                 -> "no_targets_after_ranking"
    [] Kind[p] # "empty" /\ Changed[p] # {} /\ Kept(p) = {} -> "all_targets_ignored"
    [] Kind[p] # "empty" /\ Kept(p) # {}                ->
         IF Rank(p, threshold) = <<>> THEN "below_risk_threshold" ELSE "ok"

Return(status, considered) ==
  /\ run' = [run EXCEPT !.stage = "returned"]
  /\ report' = [report EXCEPT !.status = status, !.considered = considered]
  /\ UNCHANGED <<recorded, oracleVars>>

(* The part before the first request.  The two worktrees may fail to be    *)
(* created, and that leaves run as an exception.                           *)
Screen ==
  /\ run.stage = "diff"
  /\ LET ranked == Rank(run.pair, run.threshold)
         status == Screening(run.pair, run.threshold)
     IN  \/ Return("git_failed", 0)
         \/ status # "ok" /\ Return(status, 0)
         \/ status = "ok" /\ Return("sandbox_unavailable", Len(ranked))
         \/ /\ status = "ok"
            /\ report' = [report EXCEPT !.considered = Len(ranked)] /\ UNCHANGED recorded
            /\ \/ run' = [run EXCEPT !.stage = "raised"] /\ UNCHANGED oracleVars
               \/ run' = [run EXCEPT !.stage = "ask", !.queue = ranked] /\ FreshWorktrees

Target == Head(run.queue)
NextTarget == [run EXCEPT !.stage = "ask", !.queue = Tail(@), !.attempt = 1]
NextAttempt == IF run.attempt = PerTarget THEN NextTarget
               ELSE [run EXCEPT !.stage = "ask", !.attempt = @ + 1]

Asking == run.stage = "ask" /\ run.queue # <<>>
Asked == [report EXCEPT !.attempts = @ + 1]
Answered == [report EXCEPT !.attempts = @ + 1, !.requests = @ + 1]
Drop(rep, cause) == [rep EXCEPT !.dropped[cause] = @ + 1]

(* BudgetExceeded ends the target; the next target asks, and is refused,   *)
(* again.                                                                  *)
BudgetRefuses ==
  /\ Asking /\ run' = NextTarget /\ report' = [Asked EXCEPT !.stops = @ + 1]
  /\ UNCHANGED <<recorded, oracleVars>>

(* Mutant of ModelFails: a rate limit is counted and not dropped.          *)
ThrottledSilently ==
  /\ Asking /\ run' = NextAttempt
  /\ \E cause \in Unanswered :
       report' = IF cause = "rate_limited" THEN [Asked EXCEPT !.throttled = @ + 1]
                 ELSE Drop(Asked, cause)
  /\ UNCHANGED <<recorded, oracleVars>>

(* A rate limit, a timeout or another model error uses up the attempt.     *)
(* None of them counts as a request.                                       *)
ModelFails ==
  /\ Asking /\ run' = NextAttempt
  /\ \E cause \in Unanswered :
       report' = [Drop(Asked, cause) EXCEPT !.throttled = @ + (IF cause = "rate_limited" THEN 1 ELSE 0)]
  /\ UNCHANGED <<recorded, oracleVars>>

(* A model that is gone, or a quota that is spent, ends the run.           *)
ModelGone ==
  /\ Asking /\ run' = [run EXCEPT !.queue = <<>>]
  /\ \E status \in GoneStatuses : report' = [Drop(Asked, status) EXCEPT !.status = status]
  /\ UNCHANGED <<recorded, oracleVars>>

(* The model declines: no more attempts at this target.                    *)
ModelDeclines ==
  /\ Asking /\ run' = NextTarget
  /\ report' = [Drop(Answered, "model_declined") EXCEPT !.dropped["short_circuit"] =
                  @ + (PerTarget - run.attempt)]
  /\ UNCHANGED <<recorded, oracleVars>>

(* What cannot be parsed is not a candidate; what the safety check refuses *)
(* is one that does not run.                                               *)
Unusable ==
  /\ Asking /\ run' = NextAttempt
  /\ \/ report' = Drop(Answered, "parse_failed")
     \/ report' = [Drop(Answered, "unsafe") EXCEPT !.generated = @ + 1]
  /\ UNCHANGED <<recorded, oracleVars>>

Generate ==
  /\ Asking /\ run' = [run EXCEPT !.stage = "judge"]
  /\ report' = [Answered EXCEPT !.generated = @ + 1]
  /\ \E c \in Candidates : BeginCheck(c)
  /\ UNCHANGED recorded

Judge == run.stage = "judge" /\ OracleStep /\ UNCHANGED pipelineVars

(* Nothing catches an exception out of differential_check: it leaves run,  *)
(* with a candidate that was generated and has no row.                     *)
JudgeRaises ==
  /\ run.stage = "judge" /\ check.stage # "ruled"
  /\ run' = [run EXCEPT !.stage = "raised"] /\ UNCHANGED <<report, recorded>>
  /\ EndCheck

(* What a finding says; a row of the ledger also says what the oracle did. *)
Finding(should_report) ==
  [target |-> Target, attempt |-> run.attempt, cand |-> check.cand, reported |-> should_report]

(* Mutant of Record: the finding is appended before the row is written.    *)
RecordLast(oracle, finding, after, rep) ==
  \/ run' = [run EXCEPT !.stage = "raised"] /\ report' = rep /\ UNCHANGED recorded
  \/ run' = after /\ recorded' = Append(recorded, <<oracle, finding>>) /\ report' = rep

(* Ledger.record writes one row in one transaction; when it cannot, the    *)
(* exception leaves run, before the finding is in the report.              *)
Record(oracle, finding, after, rep) ==
  \/ /\ run' = [run EXCEPT !.stage = "raised"] /\ UNCHANGED recorded
     /\ report' = [rep EXCEPT !.findings = report.findings, !.latent = report.latent]
  \/ run' = after /\ recorded' = Append(recorded, <<oracle, finding>>) /\ report' = rep

Latent == check.verdict = "head_failed_base_failed_latent"

(* Mutant of Discard: only the findings of latent mode are recorded.       *)
DiscardUnrecorded ==
  /\ run.stage = "judge" /\ check.stage = "ruled" /\ check.verdict # "catching"
  /\ LET rep == Drop(report, check.verdict)
     IN  IF Latent /\ LatentMode
           THEN Record("latent", Finding(FALSE), NextAttempt, [rep EXCEPT !.latent = Append(@, Finding(FALSE))])
           ELSE report' = rep /\ run' = NextAttempt /\ UNCHANGED recorded
  /\ EndCheck

Discard ==
  /\ run.stage = "judge" /\ check.stage = "ruled" /\ check.verdict # "catching"
  /\ LET rep == Drop(report, check.verdict)
     IN  Record(IF Latent THEN "latent" ELSE "discarded", Finding(FALSE), NextAttempt,
                IF Latent /\ LatentMode THEN [rep EXCEPT !.latent = Append(@, Finding(FALSE))] ELSE rep)
  /\ EndCheck

Convince ==
  /\ run.stage = "judge" /\ check.stage = "ruled" /\ check.verdict = "catching"
  /\ run' = [run EXCEPT !.stage = "assess"] /\ UNCHANGED <<report, recorded, oracleVars>>

(* The assessor decides only whether the finding is reported; when it does *)
(* not answer the finding stands, unreported.  A finding ends the target.  *)
Assess ==
  /\ run.stage = "assess"
  /\ \E answers \in BOOLEAN : \E should_report \in {FALSE, answers} :
       Record("catching", Finding(should_report), NextTarget,
              [report EXCEPT !.requests = @ + (IF answers THEN 1 ELSE 0),
                             !.findings = Append(@, Finding(should_report))])
  /\ EndCheck

(* The end of run names a run that never got an answer.                    *)
EndRun ==
  /\ run.stage = "ask" /\ run.queue = <<>>
  /\ LET unanswered == report.requests = 0
     IN  Return(IF unanswered /\ report.throttled > 0 THEN "rate_limited"
                ELSE IF unanswered /\ report.status = "ok" /\ report.dropped["model_error"] > 0
                  THEN "model_error"
                ELSE report.status, report.considered)

PipelineStep ==
  \/ Screen \/ BudgetRefuses \/ ModelFails \/ ModelGone \/ ModelDeclines \/ Unusable \/ Generate
  \/ Judge \/ JudgeRaises \/ Discard \/ Convince \/ Assess \/ EndRun

(* Type correctness. *)
PipelineTypeOK ==
  /\ OracleTypeOK
  /\ run.stage \in {"idle", "diff", "ask", "judge", "assess", "returned", "raised"}
  /\ run.pair \in Pairs \cup {NoPair} /\ run.attempt \in 1..PerTarget
  /\ Len(run.queue) <= MaxTargets /\ report.considered <= MaxTargets
  /\ report.requests <= 2 * report.attempts /\ report.generated <= report.attempts
  /\ report.attempts <= MaxTargets * PerTarget
  /\ run.stage \in {"judge", "assess"} <=> check.stage # "none"

(* What was dropped, as so many units: the attempts that a model declined  *)
(* to make are not among them.  And the catching rows among the first ones.*)
Units(dropped) ==
  UNION {{cause} \X (1..dropped[cause]) : cause \in Causes \ {"short_circuit"}}
Catching(last) == {k \in 1..last : recorded[k][1] = "catching"}

(* When run returns, each call of llm.complete ended in exactly one way:   *)
(* it was refused by the budget, dropped for one cause, or led to a        *)
(* finding; and what was generated was judged and recorded, or refused.    *)
(* Even when run ends in an exception the ledger tells the same story as   *)
(* the report: its catching rows are the findings, in their order and with *)
(* the same word on whether they were reported.                            *)
AttemptsAccounted ==
  /\ run.stage = "returned" =>
       /\ report.attempts = Cardinality(Units(report.dropped)) + Len(report.findings) + report.stops
       /\ report.generated = Len(recorded) + report.dropped["unsafe"]
  /\ Len(report.findings) = Cardinality(Catching(Len(recorded)))
  /\ \A k \in Catching(Len(recorded)) :
       report.findings[Cardinality(Catching(k))] = recorded[k][2]
=============================================================================
