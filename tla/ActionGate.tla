----------------------------- MODULE ActionGate -----------------------------
(***************************************************************************)
(* action.run_action: the GitHub Action.  It resolves the comparison, logs *)
(* the changed tests in a census of its own, decides how untrusted code is *)
(* confined, verifies the tests one by one, and turns the results into an  *)
(* exit code under the declared policy.  What verify_test may answer is    *)
(* what module Verify can do; here it is one step per test.                *)
(***************************************************************************)
EXTENDS Census

CONSTANTS PolicyChoices,  \* the policies a workflow may declare
          Overrides,      \* the sandbox modes it may ask for; "none" when it asks for none
          Trusts,         \* what the event payload says of the pull request
          Leftovers       \* tests with a receipt of an earlier invocation in the directory

ASSUME ActionAssumption ==
  /\ PolicyChoices \subseteq {"advisory", "strict", "block-on-refusal"}
  /\ Overrides \subseteq {"none", "off", "required"}
  /\ Trusts \subseteq {"fork", "internal", "unknown"}
  /\ Leftovers \subseteq Tests

S == INSTANCE Sandbox
SandboxModes == {"auto", "required", "off"}

VARIABLES
  request,   \* environment and event: policy, override, trust, backend, number of changed tests
  pc,        \* where the invocation is
  cause,     \* the exception being unwound, or "none"
  test,      \* the test being verified
  ran,       \* where the runner of each test returned an outcome: see Place
  file,      \* the evidence file of each test: "absent", "stale", "fresh"
  answer,    \* what _verify_candidate returns for the test
  results,   \* the results so far, "proven", "judged" or "refusal", or "none"
  code       \* the exit code, once decided

gateVars == <<request, ran, file, results, code>>
vars == <<censusVars, gateVars, pc, cause, test, answer>>

Changed == 1..request.changed
Untrusted == request.trust \in {"fork", "unknown"}

(* Mutant of Mode: an explicit override wins over the trust context. *)
ModeAsAsked ==
  CASE request.override # "none" -> request.override
    [] Untrusted /\ request.override = "none" -> "required"
    [] OTHER -> "auto"

(* The fork-safety contract: untrusted code cannot be downgraded. *)
Mode ==
  CASE Untrusted -> "required"
    [] ~Untrusted /\ request.override = "none" -> "auto"
    [] OTHER -> request.override

(* The hosts plan() may meet while the invocation lasts. *)
HostsOf(backend) == {h \in S!Hosts : backend \/ h.answering = {}}

(* Where verify_test may execute, which plans again: nowhere when it       *)
(* refuses the image or the plan; in a foreign image when HEAD chose it.   *)
Place(mode, h, image) ==
  LET plan == S!PlanSandbox(mode, h, image, TRUE)
      cell == S!Wrap(plan.backend, image)
  IN  IF ~S!ValidateImageRef(image) \/ plan.refused THEN "nowhere"
      ELSE IF cell.network \/ "host" \in cell.writes THEN "host"
      ELSE IF cell.image = "head" THEN "foreign" ELSE "isolated"
PlaceTable ==
  [mode \in SandboxModes |-> [backend \in BOOLEAN |->
     {Place(mode, h, S!LoadRuntimeImage(pins)) : h \in HostsOf(backend), pins \in S!Pinnings}]]

(* What the gate's own plan finds, without a probe and with the stock      *)
(* image for one that is not pinned: whether there is a backend.           *)
AvailableTable ==
  [mode \in SandboxModes |-> [backend \in BOOLEAN |->
     {LET image == S!LoadRuntimeImage(pins)
          usable == IF S!ValidateImageRef(image) THEN image ELSE S!StockImage
      IN  S!PlanSandbox(mode, h, usable, FALSE).backend # "none" :
        h \in HostsOf(backend), pins \in S!Pinnings}]]
Places == {"nowhere"} \cup PlaceTable[Mode][request.backend]

NoAnswer == [result |-> "none", disposition |-> "none", phases |-> FALSE, artifact |-> FALSE]
Answer(result, disposition, phases, artifact) ==
  [result |-> result, disposition |-> disposition, phases |-> phases, artifact |-> artifact]

Ended == {"returned", "raised", "killed"}
Handling == {"except", "failing", "raising"}

-----------------------------------------------------------------------------
Init ==
  /\ CensusInit
  /\ request \in [policy : PolicyChoices, override : Overrides, trust : Trusts,
                  backend : BOOLEAN, changed : 0..MaxTests]
  /\ pc = "open" /\ cause = "none" /\ test = 0
  /\ ran = [t \in Tests |-> "nowhere"]
  /\ file = [t \in Tests |-> IF t \in Leftovers THEN "stale" ELSE "absent"]
  /\ answer = NoAnswer
  /\ results = [t \in Tests |-> "none"]
  /\ code = -1

(* A step of event() on behalf of the current step of the invocation. *)
Eventing == EventStep /\ UNCHANGED <<gateVars, pc, cause, test, answer>>

ExitUnder(policies) == IF request.policy \in policies THEN 1 ELSE 0

-----------------------------------------------------------------------------
(* Base and head cannot be resolved or compared: no denominator is known. *)
RefuseComparison ==
  /\ Idle /\ pc = "open"
  /\ code' = ExitUnder({"strict", "block-on-refusal"})
  /\ pc' = "finish"
  /\ UNCHANGED <<censusVars, request, ran, file, results, cause, test, answer>>

SelectChanged ==
  /\ pc = "open"
  /\ Select
  /\ pc' = "gate"
  /\ UNCHANGED <<gateVars, cause, test, answer>>

(* No test file changed: there is nothing to verify, under any policy. *)
Skip ==
  /\ Idle /\ pc = "gate" /\ Changed = {}
  /\ code' = 0
  /\ pc' = "finish"
  /\ UNCHANGED <<censusVars, request, ran, file, results, cause, test, answer>>

(* Untrusted code and no backend: every test is refused unexecuted. *)
Gate ==
  /\ Idle /\ pc = "gate" /\ Changed # {}
  /\ test' = 1
  /\ \E available \in AvailableTable[Mode][request.backend] :
       pc' = IF Untrusted /\ ~available THEN "refuse" ELSE "verify"
  /\ UNCHANGED <<censusVars, gateVars, cause, answer>>

-----------------------------------------------------------------------------
StartRefused ==
  /\ pc = "refuse" /\ test \in Changed
  /\ StartCandidate(test)
  /\ pc' = "refused"
  /\ UNCHANGED <<gateVars, cause, test, answer>>

(* The refusal receipt may fail to be written; the test is finished anyway. *)
FinishRefused ==
  /\ pc = "refused"
  /\ \E written \in BOOLEAN :
       /\ file' = IF written THEN [file EXCEPT ![test] = "fresh"] ELSE file
       /\ FinishCandidate(test, "refusal", FALSE, written)
  /\ results' = [results EXCEPT ![test] = "refusal"]
  /\ test' = test + 1
  /\ pc' = "refuse"
  /\ UNCHANGED <<request, ran, code, cause, answer>>

ReportRefusal ==
  /\ Idle /\ pc = "refuse" /\ test \notin Changed
  /\ code' = ExitUnder({"strict", "block-on-refusal"})
  /\ pc' = "finish"
  /\ UNCHANGED <<censusVars, request, ran, file, results, cause, test, answer>>

-----------------------------------------------------------------------------
StartVerify ==
  /\ pc = "verify" /\ test \in Changed
  /\ StartCandidate(test)
  /\ pc' = "attempt"
  /\ UNCHANGED <<gateVars, cause, test, answer>>

(* A changed test that was deleted. *)
Missing ==
  /\ Idle /\ pc = "attempt"
  /\ answer' = Answer("refusal", "refusal", FALSE, FALSE)
  /\ pc' = "judge"
  /\ UNCHANGED <<censusVars, gateVars, cause, test>>

(* verify_test returned its evidence and wrote it.  What the consumer's    *)
(* own check does not accept is a refusal; so is an inconclusive verdict,  *)
(* and nothing is proven without an execution.                             *)
Verified ==
  /\ Idle /\ pc = "attempt"
  /\ \E place \in Places, result \in {"proven", "judged", "refusal"} :
       /\ place = "nowhere" => result = "refusal"
       /\ ran' = [ran EXCEPT ![test] = place]
       /\ answer' = Answer(result, result, FALSE, TRUE)
  /\ file' = [file EXCEPT ![test] = "fresh"]
  /\ pc' = "judge"
  /\ UNCHANGED <<censusVars, request, results, code, cause, test>>

(* A typed refusal, with the phases that had been executed. *)
Refused ==
  /\ pc = "attempt"
  /\ \E place \in Places :
       /\ ran' = [ran EXCEPT ![test] = place]
       /\ answer' = Answer("refusal", "refusal", place # "nowhere", FALSE)
  /\ Log("verification_refused", test)
  /\ pc' = "export"
  /\ UNCHANGED <<request, file, results, code, cause, test>>

ExportRefusal ==
  /\ Idle /\ pc = "export"
  /\ file' = [file EXCEPT ![test] = "fresh"]
  /\ answer' = [answer EXCEPT !.artifact = TRUE]
  /\ pc' = "judge"
  /\ UNCHANGED <<censusVars, request, ran, results, code, cause, test>>

(* Mutant of ExportRefusalFails: the path is named although nothing was written. *)
ExportNamesFile ==
  /\ pc = "export"
  /\ Log("refusal_receipt_exception", test)
  /\ answer' = [answer EXCEPT !.artifact = TRUE]
  /\ pc' = "judge"
  /\ UNCHANGED <<gateVars, cause, test>>

ExportRefusalFails ==
  /\ pc = "export"
  /\ Log("refusal_receipt_exception", test)
  /\ pc' = "judge"
  /\ UNCHANGED <<gateVars, cause, test, answer>>

(* Any other exception, before or after the evidence was written: it is    *)
(* named by its class, without phases or artifact.                         *)
Crashed ==
  /\ pc = "attempt"
  /\ \E place \in Places : ran' = [ran EXCEPT ![test] = place]
  /\ file' \in {file, [file EXCEPT ![test] = "fresh"]}
  /\ answer' = Answer("refusal", "refusal", FALSE, FALSE)
  /\ Log("verification_exception", test)
  /\ pc' = "judge"
  /\ UNCHANGED <<request, results, code, cause, test>>

(* The phases come from the evidence file when one was named: what an      *)
(* earlier invocation left there may tell of executions that are not ours. *)
Named == answer.artifact /\ file[test] # "absent"
Observed ==
  IF Named THEN file[test] = "stale" \/ ran[test] # "nowhere" ELSE answer.phases

(* Mutant of Judge: the test is finished in memory only. *)
JudgeUnlogged ==
  /\ Idle /\ pc = "judge"
  /\ data' = [data EXCEPT !.candidates[test] =
                [state |-> "finished", disposition |-> answer.disposition,
                 observed |-> Observed, artifact |-> Named]]
  /\ results' = [results EXCEPT ![test] = answer.result]
  /\ test' = test + 1
  /\ pc' = "verify" /\ answer' = NoAnswer
  /\ UNCHANGED <<journal, hashed, records, snap, call, request, ran, file, code, cause>>

Judge ==
  /\ pc = "judge"
  /\ FinishCandidate(test, answer.disposition, Observed, Named)
  /\ results' = [results EXCEPT ![test] = answer.result]
  /\ test' = test + 1
  /\ pc' = "verify" /\ answer' = NoAnswer
  /\ UNCHANGED <<request, ran, file, code, cause>>

-----------------------------------------------------------------------------
Refusals == {t \in Changed : results[t] = "refusal"}
Proven == {t \in Changed : results[t] = "proven"}

(* Mutant of Report: strict as in 0.4.1, a catch excuses a refusal. *)
ReportAnyCatch ==
  /\ Idle /\ pc = "verify" /\ test \notin Changed
  /\ code' = CASE request.policy = "strict" -> IF Proven # {} THEN 0 ELSE 1
               [] request.policy = "block-on-refusal" -> IF Refusals = {} THEN 0 ELSE 1
               [] OTHER -> 0
  /\ pc' = "finish"
  /\ UNCHANGED <<censusVars, request, ran, file, results, cause, test, answer>>

Report ==
  /\ Idle /\ pc = "verify" /\ test \notin Changed
  /\ code' = CASE request.policy = "strict" ->
                    IF Refusals = {} /\ Proven # {} THEN 0 ELSE 1
               [] request.policy = "block-on-refusal" -> IF Refusals = {} THEN 0 ELSE 1
               [] OTHER -> 0
  /\ pc' = "finish"
  /\ UNCHANGED <<censusVars, request, ran, file, results, cause, test, answer>>

Finish ==
  /\ pc = "finish"
  /\ FinishCensus("finished")
  /\ pc' = "finishing"
  /\ UNCHANGED <<gateVars, cause, test, answer>>

Return ==
  /\ Idle /\ pc = "finishing"
  /\ pc' = "returned"
  /\ UNCHANGED <<censusVars, gateVars, cause, test, answer>>

-----------------------------------------------------------------------------
(* Exceptions.  The constructor runs outside the try; what the handler     *)
(* itself raises replaces the exception and ends the invocation.           *)
Landing == IF pc \in Handling THEN "raised" ELSE "except"

(* The locals of _run_action are lost with its frame. *)
FrameLost ==
  /\ test' = 0 /\ answer' = NoAnswer
  /\ results' = [t \in Tests |-> "none"] /\ code' = -1

Unwind ==
  /\ Raised
  /\ pc' = IF pc = "open" THEN "raised" ELSE Landing
  /\ cause' = call.step
  /\ call' = NotCalling
  /\ FrameLost
  /\ UNCHANGED <<journal, hashed, records, data, snap, request, ran, file>>

(* Files, git, planning and printing may raise between two events; SIGINT  *)
(* may arrive anywhere.                                                    *)
Disturb ==
  /\ Idle /\ pc \notin Ended
  /\ \E fault \in {"exception", "interrupt"} :
       /\ fault = "exception" => pc \in {"open", "gate", "refuse", "verify"}
       /\ cause' = fault
  /\ pc' = Landing
  /\ FrameLost
  /\ UNCHANGED <<censusVars, request, ran, file>>

Handle ==
  /\ pc = "except"
  /\ Log("invocation_exception", 0)
  /\ pc' = "failing"
  /\ UNCHANGED <<gateVars, cause, test, answer>>

FinishFailed ==
  /\ pc = "failing"
  /\ FinishCensus(IF cause = "interrupt" THEN "interrupted" ELSE "failed")
  /\ pc' = "raising"
  /\ UNCHANGED <<gateVars, cause, test, answer>>

Reraise ==
  /\ Idle /\ pc = "raising"
  /\ pc' = "raised"
  /\ UNCHANGED <<censusVars, gateVars, cause, test, answer>>

(* SIGKILL, or the runner goes away: only what is on disk is left. *)
Kill ==
  /\ pc \notin Ended
  /\ pc' = "killed"
  /\ data' = Fresh /\ hashed' = <<>> /\ records' = 0 /\ call' = NotCalling
  /\ cause' = "none" /\ FrameLost
  /\ UNCHANGED <<journal, snap, request, ran, file>>

Step ==
  \/ Eventing \/ RefuseComparison \/ SelectChanged \/ Skip \/ Gate
  \/ StartRefused \/ FinishRefused \/ ReportRefusal
  \/ StartVerify \/ Missing \/ Verified \/ Refused \/ ExportRefusal \/ ExportRefusalFails
  \/ Crashed \/ Judge \/ Report \/ Finish \/ Return
  \/ Unwind \/ Handle \/ FinishFailed \/ Reraise

Next == Step \/ Disturb \/ Kill

Spec == Init /\ [][Next]_vars
-----------------------------------------------------------------------------
(* Type invariant. *)
Results == {"none", "proven", "judged", "refusal"}

TypeOK ==
  /\ CensusTypeOK
  /\ request \in [policy : PolicyChoices, override : Overrides, trust : Trusts,
                  backend : BOOLEAN, changed : 0..MaxTests]
  /\ pc \in {"open", "gate", "refuse", "refused", "verify", "attempt", "export", "judge",
             "finish", "finishing"} \cup Handling \cup Ended
  /\ cause \in {"none", "exception", "interrupt"}
  /\ test \in 0..request.changed + 1
  /\ ran \in [Tests -> {"nowhere", "isolated", "foreign", "host"}]
  /\ file \in [Tests -> {"absent", "stale", "fresh"}]
  /\ answer \in [result : Results, disposition : Dispositions, phases : BOOLEAN,
                 artifact : BOOLEAN]
  /\ results \in [Tests -> Results]
  /\ code \in {-1, 0, 1}

(* A pull request from a fork, or from nobody knows where, never has its   *)
(* tests executed on the host, whatever sandbox mode the workflow asks for *)
(* and whatever the gate's plan and that of verify_test find on the runner *)
(* (action.py:280-330); and no test is executed in an image that only HEAD *)
(* names (Rule 2 of load_runtime_image).                                   *)
UntrustedConfined ==
  \A t \in Tests :
    /\ ran[t] # "foreign"
    /\ Untrusted => ran[t] # "host" /\ (~request.backend => ran[t] = "nowhere")

(* A published census only tells of executions and evidence files of this  *)
(* invocation, also in an output directory that an earlier one has used    *)
(* (action.py:476-487, docs/DEFAULT-ATTEMPT-CENSUS.md:52-54).              *)
EvidenceIsOurs ==
  Published => \A t \in Tests :
    /\ snap.candidates[t].observed => ran[t] # "nowhere"
    /\ snap.candidates[t].artifact => file[t] = "fresh"

Lines(event, t) == {k \in 1..Len(journal) : journal[k].event = event /\ journal[k].test = t}

(* A census the consumer accepts is true, even if the process was killed   *)
(* or failed meanwhile: every changed test was started once and finished   *)
(* once, in this order, with the disposition the snapshot shows            *)
(* (check_distributable.py:77-102).                                        *)
CensusIsTrue ==
  Accepted(Changed) =>
    \A t \in Changed : \E s, f \in 1..Len(journal) :
      /\ Lines("candidate_started", t) = {s} /\ Lines("candidate_finished", t) = {f}
      /\ s < f /\ journal[f].disposition = snap.candidates[t].disposition

(* A green build under a blocking policy is backed by evidence on disk: a  *)
(* census the consumer accepts that shows no refusal and, under strict, a  *)
(* catch that was executed and whose receipt is of this invocation.        *)
ExitIsEvidenced ==
  pc = "returned" /\ code = 0 /\ request.policy # "advisory" =>
    /\ Accepted(Changed)
    /\ \A t \in Changed : snap.candidates[t].disposition # "refusal"
    /\ request.policy = "strict" /\ Changed # {} =>
         \E t \in Changed : /\ snap.candidates[t].disposition = "proven"
                            /\ ran[t] # "nowhere" /\ file[t] = "fresh"

(* As long as no line is written with a number that was already used, the  *)
(* snapshot's count and digest stand for a prefix of the journal, however  *)
(* writes fail and whenever the process dies (results.py:283-296).         *)
SequencedIsBound == Sequenced => BindsPrefix
=============================================================================
