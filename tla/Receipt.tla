------------------------------- MODULE Receipt -------------------------------
(***************************************************************************)
(* The vocabulary of a paired verification and the consumer's side of it:  *)
(* what one test execution reports (execute.py), how verify.py grades it,  *)
(* and the cross-field rules by which receipt.validate_semantics accepts   *)
(* or rejects a signed receipt.  Everything here is constant-level; the    *)
(* producer of receipts is module Verify.                                  *)
(***************************************************************************)
EXTENDS Naturals, FiniteSets

Outcomes == {"PASS", "FAIL", "ERROR", "TIMEOUT", "NOTRUN"}

(* FailureKind, as the runner classifies a failure; "none" is its NONE. *)
RunnerKinds == {"none", "assertion", "error", "unknown"}

(* What the captured output of a failed run mentions: an import, syntax or *)
(* collection keyword ("import"), otherwise "AssertionError" or a line     *)
(* starting with assert ("assert"), otherwise neither ("plain").           *)
Texts == {"import", "assert", "plain"}

(* The results run_test can return.  Only exit code 1 (FAIL) leaves the    *)
(* kind to a junit report or to the output, either of which may be missing *)
(* or name no failing test; every other outcome fixes it.                  *)
RunResults ==
  [outcome : {"FAIL"}, kind : RunnerKinds, text : Texts]
    \cup { [outcome |-> "PASS",    kind |-> "none",    text |-> "plain"],
           [outcome |-> "NOTRUN",  kind |-> "none",    text |-> "plain"],
           [outcome |-> "ERROR",   kind |-> "error",   text |-> "plain"],
           [outcome |-> "TIMEOUT", kind |-> "unknown", text |-> "plain"] }

(* The side of a pair that never ran: its environment could not be built.  *)
NoRun == [outcome |-> "NOTRUN", kind |-> "error", text |-> "env"]

(* base_failure_kind and head_failure_kind: the keyword scan of a FAIL     *)
(* outranks the runner's own classification, which outranks the text.      *)
GradeOfFail(run) ==
  IF run.text = "import" THEN "collection"
  ELSE IF run.kind \in {"assertion", "error"} THEN run.kind
  ELSE IF run.text = "assert" THEN "assertion" ELSE "error"

Grade(run) ==
  CASE run.text = "env"          -> "error"
    [] run.outcome = "TIMEOUT"   -> "timeout"
    [] run.outcome = "ERROR"     -> "collection"
    [] run.outcome = "FAIL"      -> GradeOfFail(run)
    [] OTHER                     -> "none"

Grades == {"none", "assertion", "error", "timeout", "collection"}

Verdicts == {"proven_catch", "reproduction_catch", "collection_catch",
             "refuted", "non_discriminating", "inconclusive"}
ProvenVerdicts == {"proven_catch", "reproduction_catch"}

ExitCodeFor(verdict) == IF verdict \in ProvenVerdicts THEN 0 ELSE 1

-----------------------------------------------------------------------------
(* verification_phases of a receipt: a set of records, one per guarded     *)
(* execution.  head executions are numbered 1 (phase "head") and 2, 3, ... *)
(* (phase "head_rerun_n").  outcome is "absent" for a phase that started   *)
(* and was refused before the runner returned.                             *)
HeadRecords(phases) == {p \in phases : p.phase = "head"}

(* The consumer's demand on a proven_catch: distinct head and head_rerun_2 *)
(* records, every head record an assertion failure in the runner's words.  *)
HeadRecordsProve(phases) ==
  /\ {1, 2} \subseteq {p.n : p \in HeadRecords(phases)}
  /\ \A p, q \in HeadRecords(phases) : p.n = q.n => p = q
  /\ \A p \in HeadRecords(phases) : p.outcome = "FAIL" /\ p.kind = "assertion"

(* "required" isolation with no backend can only describe a refusal in     *)
(* which nothing was executed.                                             *)
UnexecutedRefusal(ev) ==
  /\ ev.refused
  /\ ev.verdict = "inconclusive" /\ ~ev.proven
  /\ ev.base.outcome = "NOTRUN" /\ ev.head.outcome = "NOTRUN"
  /\ \A p \in ev.phases : p.outcome \in {"absent", "NOTRUN"}

OutcomesFit(ev) ==
  CASE ev.verdict = "proven_catch" ->
         ev.base.outcome = "PASS" /\ ev.head.outcome = "FAIL" /\ ev.head.grade = "assertion"
    [] ev.verdict = "reproduction_catch" ->
         ev.base.outcome = "FAIL" /\ ev.base.grade = "assertion" /\ ev.head.outcome = "PASS"
    [] ev.verdict = "collection_catch" ->
         ev.base.outcome = "PASS" /\ ev.head.grade = "collection"
    [] ev.verdict = "refuted" ->
         ev.base.outcome = "FAIL" /\ ev.head.outcome = "FAIL"
    [] ev.verdict = "non_discriminating" ->
         ev.base.outcome = "PASS" /\ ev.head.outcome = "PASS"
    [] OTHER -> \* inconclusive needs a reason to be
         \/ ev.refused
         \/ ev.base.outcome \in {"ERROR", "TIMEOUT", "NOTRUN"}
         \/ ev.base.grade \in {"collection", "error", "timeout"}
         \/ ev.head.outcome \in {"ERROR", "TIMEOUT", "NOTRUN"}
         \/ ev.head.grade \in {"error", "timeout"}
         \/ ~ev.agreement
         \/ ev.disposition \in {"env_setup_failed", "env_build_timeout", "head_flaky",
              "base_reproduction_failed", "base_uncollectable", "head_failed_base_failed_latent"}

(* validate_semantics, for receipts of schema 2.1. *)
ValidSemantics(ev) ==
  /\ ev.refused => ev.verdict = "inconclusive" /\ ~ev.proven
  /\ ~ev.agreement =>
       ev.verdict \notin {"proven_catch", "reproduction_catch", "collection_catch"}
  /\ ev.verdict = "proven_catch" => ev.agreement /\ HeadRecordsProve(ev.phases)
  /\ ev.backend = "none" /\ ev.mode = "required" => UnexecutedRefusal(ev)
  /\ OutcomesFit(ev)

(* validate_schema's one cross-field rule. *)
ValidSchema(ev) == ev.proven = (ev.verdict \in ProvenVerdicts)

(* verify_receipt's verdict on a receipt whose signature is intact. *)
Accepted(ev) == ValidSchema(ev) /\ ValidSemantics(ev)
=============================================================================
