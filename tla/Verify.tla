------------------------------- MODULE Verify -------------------------------
(***************************************************************************)
(* verify.verify_test: one paired verification, from planning to the       *)
(* signed receipt.  BASE is always executed first, HEAD second, neither is *)
(* short-circuited; a HEAD that fails is executed again until `reruns`     *)
(* executions exist; a BASE that fails under a passing HEAD must first     *)
(* survive a pass-to-pass guard.  Every execution is wrapped in the policy *)
(* checks of _run_guarded_phase.  An attempt census follows the run and is *)
(* rewritten by the handler of any exception.  The process may be killed   *)
(* between any two steps, and interrupted (SIGINT) in any of them.         *)
(***************************************************************************)
EXTENDS Receipt, Sequences

CONSTANTS MaxReruns,   \* bound on the reruns argument
          MaxHealth,   \* bound on the unmodified tests common to both revisions
          Modes,       \* the sandbox modes asked for
          Policies     \* the policies that may be set to required

ASSUME RerunsAssumption == MaxReruns \in Nat /\ MaxReruns >= 2
ASSUME HealthAssumption == MaxHealth \in Nat
ASSUME OptionsAssumption ==
  Modes \subseteq {"auto", "required", "off"} /\ Policies \subseteq {"readiness", "output_guard"}

VARIABLES
  options,     \* arguments and environment: sandbox mode, enforced policies, reruns, output
  pc,          \* where the invocation is
  fault,       \* the exception being unwound, or "none"
  backend,     \* the sandbox plan's backend: "unset", "none" or "isolated"
  baseRun, baseErr,    \* the BASE execution, or the EnvSetupError in its place
  headRuns, headErr,   \* the HEAD executions in order, or the EnvSetupError
  healthLeft,  \* pass-to-pass: unmodified common tests not tried yet
  phases,      \* verification_phases
  verdict, disposition,
  signed,      \* the signed evidence, or NoReceipt
  artifact,    \* what output_path holds, or NoReceipt
  census       \* the attempt census as last published

vars == <<options, pc, fault, backend, baseRun, baseErr, headRuns, headErr,
          healthLeft, phases, verdict, disposition, signed, artifact, census>>

NoReceipt == [verdict |-> "none"]

EnvErrors == {"env_setup_failed", "env_build_timeout"}
Faults == {"refused", "exception", "interrupted"}

Executing == {"base", "head", "rerun",
              "health_base", "health_head", "probe_base", "probe_head"}
Ended == {"returned", "refused", "raised", "refusal_exported", "census_lost", "killed"}
Unwinding == {"except"} \cup Ended

-----------------------------------------------------------------------------
(* A guarded execution's record in verification_phases. *)
Rec(phase, n, run, refused) ==
  [phase |-> phase, n |-> n, outcome |-> run.outcome, kind |-> run.kind,
   text |-> run.text, refused |-> refused]

(* A phase whose runner never returned. *)
Unrun == [outcome |-> "absent", kind |-> "none", text |-> "plain"]

Executed(p) == p.outcome # "absent"

(* The record under which the current phase is filed. *)
Filed(run, refused) ==
  CASE pc = "rerun" -> Rec("head", Len(headRuns) + 1, run, refused)
    [] pc \in {"health_base", "health_head"} -> Rec(pc, healthLeft, run, refused)
    [] OTHER -> Rec(pc, 1, run, refused)

(* The checks around a control test only look at PASS against the rest. *)
ControlResults == {run \in RunResults : run.outcome \in {"PASS", "TIMEOUT"}}

-----------------------------------------------------------------------------
Init ==
  /\ options \in [mode : Modes, enforcing : SUBSET Policies, reruns : 2..MaxReruns,
                  output : BOOLEAN]
  /\ pc = "plan"
  /\ fault = "none"
  /\ backend = "unset"
  /\ baseRun = NoRun /\ baseErr = "none"
  /\ headRuns = <<>> /\ headErr = "none"
  /\ healthLeft = 0
  /\ phases = {}
  /\ verdict = "none" /\ disposition = "none"
  /\ signed = NoReceipt /\ artifact = NoReceipt
  /\ census = [state |-> "started", candidate |-> "attempted",
               disposition |-> "none", observed |-> FALSE]

(* Input checks and revision resolution can refuse, and git or the file    *)
(* system can raise, before any plan exists.                               *)
RefuseInput ==
  /\ pc = "plan"
  /\ pc' = "except" /\ fault' \in {"refused", "exception"}
  /\ UNCHANGED <<options, backend, baseRun, baseErr, headRuns, headErr, healthLeft,
                 phases, verdict, disposition, signed, artifact, census>>

(* What plan_sandbox may find: any host, any image with a digest. *)
S == INSTANCE Sandbox
PlansFor ==
  [mode \in Modes |-> {S!PlanSandbox(mode, host, S!StockImage, TRUE) : host \in S!Hosts}]

(* plan_sandbox, whose refusal is checked once more. *)
Plan ==
  /\ pc = "plan"
  /\ \E plan \in PlansFor[options.mode] :
       /\ backend' = IF plan.backend = "none" THEN "none" ELSE "isolated"
       /\ IF plan.refused \/ (options.mode = "required" /\ backend' = "none")
            THEN /\ phases' = {Rec("plan", 1, Unrun, TRUE)}
                 /\ pc' = "except" /\ fault' = "refused"
            ELSE /\ pc' = "base"
                 /\ UNCHANGED <<phases, fault>>
  /\ UNCHANGED <<options, baseRun, baseErr, headRuns, headErr, healthLeft,
                 verdict, disposition, signed, artifact, census>>

-----------------------------------------------------------------------------
(* The ways a guarded phase ends other than by completing.                 *)

(* A path or dependency contract refused before the phase was recorded. *)
RefuseCheckout ==
  /\ pc \in {"base", "head"}
  /\ pc' = "except" /\ fault' = "refused"
  /\ UNCHANGED <<options, backend, baseRun, baseErr, headRuns, headErr, healthLeft,
                 phases, verdict, disposition, signed, artifact, census>>

(* Mutant of RefuseReadiness: a control test's refusal falls back to the probe. *)
RefusalSwallowed ==
  /\ pc \in Executing
  /\ "readiness" \in options.enforcing
  /\ phases' = phases \cup {Filed(Unrun, TRUE)}
  /\ IF pc \in {"health_base", "health_head"}
       THEN pc' = "probe_base" /\ UNCHANGED fault
       ELSE pc' = "except" /\ fault' = "refused"
  /\ UNCHANGED <<options, backend, baseRun, baseErr, headRuns, headErr, healthLeft,
                 verdict, disposition, signed, artifact, census>>

(* Readiness enforced and not satisfied: recorded, never executed. *)
RefuseReadiness ==
  /\ pc \in Executing
  /\ "readiness" \in options.enforcing
  /\ phases' = phases \cup {Filed(Unrun, TRUE)}
  /\ pc' = "except" /\ fault' = "refused"
  /\ UNCHANGED <<options, backend, baseRun, baseErr, headRuns, headErr, healthLeft,
                 verdict, disposition, signed, artifact, census>>

(* Output guard enforced and violated: executed and recorded, then refused. *)
RefuseOutput ==
  /\ pc \in Executing
  /\ "output_guard" \in options.enforcing
  /\ \E run \in RunResults : phases' = phases \cup {Filed(run, TRUE)}
  /\ pc' = "except" /\ fault' = "refused"
  /\ UNCHANGED <<options, backend, baseRun, baseErr, headRuns, headErr, healthLeft,
                 verdict, disposition, signed, artifact, census>>

(* An execution that raises leaves no record, a record without an outcome, *)
(* or, when the worktree or the census fails after the runner returned,    *)
(* one with its outcome.                                                   *)
LeftBy(results) ==
  phases' = phases \/ \E run \in results \cup {Unrun} : phases' = phases \cup {Filed(run, FALSE)}

(* Any other exception of the candidate's own phases (git, a revision      *)
(* mismatch, the OS) ends the invocation.                                  *)
CandidatePhaseRaises ==
  /\ pc \in {"base", "head", "rerun"}
  /\ LeftBy(RunResults)
  /\ pc' = "except" /\ fault' = "exception"
  /\ UNCHANGED <<options, backend, baseRun, baseErr, headRuns, headErr, healthLeft,
                 verdict, disposition, signed, artifact, census>>

-----------------------------------------------------------------------------
(* 1. BASE, then 2. HEAD: an environment that cannot be built takes the    *)
(* place of the execution, and the other side is executed all the same.    *)
RunBase ==
  /\ pc = "base"
  /\ \E run \in RunResults :
       baseRun' = run /\ phases' = phases \cup {Filed(run, FALSE)}
  /\ pc' = "head"
  /\ UNCHANGED <<options, fault, backend, baseErr, headRuns, headErr, healthLeft,
                 verdict, disposition, signed, artifact, census>>

(* Mutant of BaseEnvError: HEAD is short-circuited. *)
BaseErrorSkipsHead ==
  /\ pc = "base"
  /\ baseErr' \in EnvErrors
  /\ pc' = "decide"
  /\ UNCHANGED <<options, fault, backend, baseRun, headRuns, headErr, healthLeft,
                 phases, verdict, disposition, signed, artifact, census>>

BaseEnvError ==
  /\ pc = "base"
  /\ baseErr' \in EnvErrors
  /\ pc' = "head"
  /\ UNCHANGED <<options, fault, backend, baseRun, headRuns, headErr, healthLeft,
                 phases, verdict, disposition, signed, artifact, census>>

(* Mutant of RunHead: a HEAD that does not pass is run again instead. *)
RunHeadUntilPass ==
  /\ pc = "head"
  /\ \E run \in RunResults :
       /\ headRuns' = <<run>>
       /\ phases' = IF run.outcome = "PASS" THEN phases \cup {Filed(run, FALSE)} ELSE phases
       /\ pc' = IF run.outcome = "PASS" THEN "decide" ELSE "head"
  /\ UNCHANGED <<options, fault, backend, baseRun, baseErr, headErr, healthLeft,
                 verdict, disposition, signed, artifact, census>>

RunHead ==
  /\ pc = "head"
  /\ \E run \in RunResults :
       /\ headRuns' = <<run>>
       /\ phases' = phases \cup {Filed(run, FALSE)}
       /\ pc' = IF run.outcome = "FAIL" THEN "rerun" ELSE "decide"
  /\ UNCHANGED <<options, fault, backend, baseRun, baseErr, headErr, healthLeft,
                 verdict, disposition, signed, artifact, census>>

HeadEnvError ==
  /\ pc = "head"
  /\ headErr' \in EnvErrors
  /\ pc' = "decide"
  /\ UNCHANGED <<options, fault, backend, baseRun, baseErr, headRuns, healthLeft,
                 phases, verdict, disposition, signed, artifact, census>>

(* Only a failing HEAD is executed again, each time in a fresh worktree. *)
Rerun ==
  /\ pc = "rerun"
  /\ \E run \in RunResults :
       /\ headRuns' = Append(headRuns, run)
       /\ phases' = phases \cup {Filed(run, FALSE)}
  /\ pc' = IF Len(headRuns) + 1 = options.reruns THEN "decide" ELSE "rerun"
  /\ UNCHANGED <<options, fault, backend, baseRun, baseErr, headErr, healthLeft,
                 verdict, disposition, signed, artifact, census>>

(* Mutant of Agreement: "two generic FAIL outcomes" agree. *)
OutcomeAgreement ==
  headRuns # <<>> /\ headRuns[1].outcome = "FAIL" =>
    /\ Len(headRuns) = options.reruns
    /\ \A i \in DOMAIN headRuns : headRuns[i].outcome = headRuns[1].outcome

(* rerun_agreement: computed for a failing HEAD, TRUE on every other path. *)
Agreement ==
  headRuns # <<>> /\ headRuns[1].outcome = "FAIL" =>
    /\ Len(headRuns) = options.reruns
    /\ \A i \in DOMAIN headRuns :
         headRuns[i].outcome = headRuns[1].outcome /\ headRuns[i].kind = headRuns[1].kind

HeadRun == IF headRuns = <<>> THEN NoRun ELSE headRuns[1]
BaseGrade == Grade(baseRun)
HeadGrade == Grade(HeadRun)
EnvFailed == baseErr # "none" \/ headErr # "none"

-----------------------------------------------------------------------------
(* The verdict ladder, one rung per BASE outcome.                          *)
Give(v, d) == [verdict |-> v, disposition |-> d]

EnvRuling == Give("inconclusive", IF baseErr # "none" THEN baseErr ELSE headErr)

(* Mutant of BasePassedRuling: any failing HEAD is a proof. *)
AnyFailureProves ==
  CASE HeadRun.outcome = "FAIL" /\ Agreement  -> Give("proven_catch", "catching")
    [] HeadRun.outcome = "FAIL" /\ ~Agreement -> Give("inconclusive", "head_flaky")
    [] HeadRun.outcome = "PASS" -> Give("non_discriminating", "head_passed")
    [] OTHER ->
         Give(IF HeadGrade = "collection" THEN "collection_catch" ELSE "inconclusive",
              "head_uncollectable_base_passed")

BasePassedRuling ==
  CASE HeadRun.outcome = "FAIL" /\ HeadGrade = "assertion" /\ Agreement ->
         Give("proven_catch", "catching")
    [] HeadRun.outcome = "FAIL" /\ HeadGrade = "assertion" /\ ~Agreement ->
         Give("inconclusive", "head_flaky")
    [] HeadRun.outcome = "PASS" -> Give("non_discriminating", "head_passed")
    [] OTHER ->
         Give(IF HeadGrade = "collection" THEN "collection_catch" ELSE "inconclusive",
              "head_uncollectable_base_passed")

(* A candidate reproduction is decided by the pass-to-pass guard. *)
CandidateReproduction ==
  ~EnvFailed /\ baseRun.outcome = "FAIL" /\ BaseGrade = "assertion" /\ HeadRun.outcome = "PASS"

(* Mutant of BaseFailedRuling: BASE's grade alone refutes. *)
BaseGradeRefutes ==
  CASE HeadRun.outcome = "PASS" ->
         IF BaseGrade # "assertion" THEN Give("inconclusive", "base_uncollectable")
         ELSE IF pc = "p2p_ok" THEN Give("reproduction_catch", "reproduction_catch")
         ELSE Give("inconclusive", "base_reproduction_failed")
    [] HeadRun.outcome = "FAIL" ->
         Give(IF BaseGrade = "assertion" THEN "refuted" ELSE "inconclusive",
              "head_failed_base_failed_latent")
    [] OTHER -> Give("inconclusive", "base_reproduction_failed")

BaseFailedRuling ==
  CASE HeadRun.outcome = "PASS" ->
         IF BaseGrade # "assertion" THEN Give("inconclusive", "base_uncollectable")
         ELSE IF pc = "p2p_ok" THEN Give("reproduction_catch", "reproduction_catch")
         ELSE Give("inconclusive", "base_reproduction_failed")
    [] HeadRun.outcome = "FAIL" ->
         Give(IF BaseGrade = "assertion" /\ HeadGrade = "assertion"
                THEN "refuted" ELSE "inconclusive",
              "head_failed_base_failed_latent")
    [] OTHER -> Give("inconclusive", "base_reproduction_failed")

Ruling ==
  CASE EnvFailed -> EnvRuling
    [] ~EnvFailed /\ baseRun.outcome = "PASS" -> BasePassedRuling
    [] ~EnvFailed /\ baseRun.outcome = "FAIL" -> BaseFailedRuling
    [] OTHER -> Give("inconclusive", "base_uncollectable")

(* Guard (b) starts: the unmodified common tests are looked up. *)
StartPassToPass ==
  /\ pc = "decide" /\ CandidateReproduction
  /\ \E n \in 0..MaxHealth :
       /\ healthLeft' = n
       /\ pc' = IF n = 0 THEN "probe_base" ELSE "health_base"
  /\ UNCHANGED <<options, fault, backend, baseRun, baseErr, headRuns, headErr,
                 phases, verdict, disposition, signed, artifact, census>>

Rule ==
  /\ \/ pc = "decide" /\ ~CandidateReproduction
     \/ pc \in {"p2p_ok", "p2p_bad"}
  /\ verdict' = Ruling.verdict /\ disposition' = Ruling.disposition
  /\ pc' = "seal"
  /\ UNCHANGED <<options, fault, backend, baseRun, baseErr, headRuns, headErr,
                 healthLeft, phases, signed, artifact, census>>

-----------------------------------------------------------------------------
(* _verify_pass_to_pass: the first unmodified test that passes on both     *)
(* revisions decides; when there is none, or looking for one raises, an    *)
(* assertion probe must pass on both.                                      *)
HealthBase ==
  /\ pc = "health_base"
  /\ \E run \in ControlResults :
       /\ phases' = phases \cup {Filed(run, FALSE)}
       /\ IF run.outcome = "PASS"
            THEN pc' = "health_head" /\ UNCHANGED healthLeft
            ELSE /\ healthLeft' = healthLeft - 1
                 /\ pc' = IF healthLeft = 1 THEN "probe_base" ELSE "health_base"
  /\ UNCHANGED <<options, fault, backend, baseRun, baseErr, headRuns, headErr,
                 verdict, disposition, signed, artifact, census>>

HealthHead ==
  /\ pc = "health_head"
  /\ \E run \in ControlResults :
       /\ phases' = phases \cup {Filed(run, FALSE)}
       /\ IF run.outcome = "PASS"
            THEN pc' = "p2p_ok" /\ UNCHANGED healthLeft
            ELSE /\ healthLeft' = healthLeft - 1
                 /\ pc' = IF healthLeft = 1 THEN "probe_base" ELSE "health_base"
  /\ UNCHANGED <<options, fault, backend, baseRun, baseErr, headRuns, headErr,
                 verdict, disposition, signed, artifact, census>>

(* Any exception but a refusal falls back to the probe. *)
HealthRaises ==
  /\ pc \in {"health_base", "health_head"}
  /\ LeftBy(ControlResults)
  /\ pc' = "probe_base"
  /\ UNCHANGED <<options, fault, backend, baseRun, baseErr, headRuns, headErr, healthLeft,
                 verdict, disposition, signed, artifact, census>>

(* Mutant of Probe: a passing probe on BASE is enough. *)
ProbeBaseOnly ==
  /\ pc \in {"probe_base", "probe_head"}
  /\ \E run \in ControlResults :
       /\ phases' = phases \cup {Filed(run, FALSE)}
       /\ pc' = IF run.outcome # "PASS" THEN "p2p_bad" ELSE "p2p_ok"
  /\ UNCHANGED <<options, fault, backend, baseRun, baseErr, headRuns, headErr, healthLeft,
                 verdict, disposition, signed, artifact, census>>

Probe ==
  /\ pc \in {"probe_base", "probe_head"}
  /\ \E run \in ControlResults :
       /\ phases' = phases \cup {Filed(run, FALSE)}
       /\ pc' = IF run.outcome # "PASS" THEN "p2p_bad"
                ELSE IF pc = "probe_base" THEN "probe_head" ELSE "p2p_ok"
  /\ UNCHANGED <<options, fault, backend, baseRun, baseErr, headRuns, headErr, healthLeft,
                 verdict, disposition, signed, artifact, census>>

ProbeRaises ==
  /\ pc \in {"probe_base", "probe_head"}
  /\ LeftBy(ControlResults)
  /\ pc' = "p2p_bad"
  /\ UNCHANGED <<options, fault, backend, baseRun, baseErr, headRuns, headErr, healthLeft,
                 verdict, disposition, signed, artifact, census>>

-----------------------------------------------------------------------------
(* Evidence: census finished first, then signed, then published atomically.*)
Side(run) == [outcome |-> run.outcome, grade |-> Grade(run)]

Evidence ==
  [verdict |-> verdict, disposition |-> disposition, refused |-> FALSE,
   proven |-> verdict \in ProvenVerdicts, agreement |-> Agreement,
   base |-> Side(baseRun), head |-> Side(HeadRun), phases |-> phases,
   mode |-> options.mode, backend |-> backend, exit |-> ExitCodeFor(verdict)]

Seal ==
  /\ pc = "seal"
  /\ census' = [state |-> "finished", candidate |-> "finished",
                disposition |-> disposition,
                observed |-> \E p \in phases : Executed(p)]
  /\ pc' = "sign"
  /\ UNCHANGED <<options, fault, backend, baseRun, baseErr, headRuns, headErr, healthLeft,
                 phases, verdict, disposition, signed, artifact>>

Sign ==
  /\ pc = "sign"
  /\ signed' = Evidence
  /\ pc' = IF options.output THEN "write" ELSE "return"
  /\ UNCHANGED <<options, fault, backend, baseRun, baseErr, headRuns, headErr, healthLeft,
                 phases, verdict, disposition, artifact, census>>

(* os.replace: the artifact is the old file or the whole receipt. *)
Write ==
  /\ pc = "write"
  /\ artifact' = signed
  /\ pc' = "return"
  /\ UNCHANGED <<options, fault, backend, baseRun, baseErr, headRuns, headErr, healthLeft,
                 phases, verdict, disposition, signed, census>>

(* A census that cannot be written, an unusable signing key, a failed write. *)
ExportFails ==
  /\ pc \in {"seal", "sign", "write"}
  /\ pc' = "except" /\ fault' = "exception"
  /\ UNCHANGED <<options, backend, baseRun, baseErr, headRuns, headErr, healthLeft,
                 phases, verdict, disposition, signed, artifact, census>>

Return ==
  /\ pc = "return"
  /\ pc' = "returned"
  /\ UNCHANGED <<options, fault, backend, baseRun, baseErr, headRuns, headErr, healthLeft,
                 phases, verdict, disposition, signed, artifact, census>>

-----------------------------------------------------------------------------
(* Mutant of Handle: a census that is finished stays so. *)
HandleOnce ==
  /\ pc = "except"
  /\ census' = IF census.state = "finished" THEN census
               ELSE [state |-> IF fault = "interrupted" THEN "interrupted" ELSE "failed",
                     candidate |-> "finished", disposition |-> fault,
                     observed |-> \E p \in phases : Executed(p)]
  /\ pc' = IF fault = "refused" THEN "refused" ELSE "raised"
  /\ UNCHANGED <<options, fault, backend, baseRun, baseErr, headRuns, headErr, healthLeft,
                 phases, verdict, disposition, signed, artifact>>

(* verify_test's handler: whatever the census said, it now says why the    *)
(* invocation did not return.                                              *)
Handle ==
  /\ pc = "except"
  /\ census' = [state |-> IF fault = "interrupted" THEN "interrupted" ELSE "failed",
                candidate |-> "finished", disposition |-> fault,
                observed |-> \E p \in phases : Executed(p)]
  /\ pc' = IF fault = "refused" THEN "refused" ELSE "raised"
  /\ UNCHANGED <<options, fault, backend, baseRun, baseErr, headRuns, headErr, healthLeft,
                 phases, verdict, disposition, signed, artifact>>

(* The handler's own census write fails (a full disk often failed the run  *)
(* too): the census stays what it was.                                     *)
HandleFails ==
  /\ pc = "except"
  /\ pc' = "census_lost"
  /\ UNCHANGED <<options, fault, backend, baseRun, baseErr, headRuns, headErr, healthLeft,
                 phases, verdict, disposition, signed, artifact, census>>

(* _refusal_phase_history exports which phases ran and how they ended, and   *)
(* neither failure kinds nor diagnostics.                                  *)
RefusalPhaseHistory == {[p EXCEPT !.kind = "none", !.text = "plain"] : p \in phases}

(* make_refusal_receipt, called by the CLI once a phase has been recorded. *)
RefusalEvidence ==
  [verdict |-> "inconclusive", disposition |-> "refused", refused |-> TRUE,
   proven |-> FALSE, agreement |-> TRUE,
   base |-> [outcome |-> "NOTRUN", grade |-> "none"],
   head |-> [outcome |-> "NOTRUN", grade |-> "none"], phases |-> RefusalPhaseHistory,
   mode |-> options.mode, backend |-> backend, exit |-> 2]

ExportRefusal ==
  /\ pc = "refused"
  /\ phases # {} /\ options.output
  /\ artifact' = RefusalEvidence
  /\ pc' = "refusal_exported"
  /\ UNCHANGED <<options, fault, backend, baseRun, baseErr, headRuns, headErr, healthLeft,
                 phases, verdict, disposition, signed, census>>

(* _cmd_verify: the statuses the command may end with.  A refusal and the   *)
(* errors it knows are 2; others are a traceback, whose status is 1.       *)
CommandStatuses ==
  CASE pc = "returned" -> {ExitCodeFor(verdict)}
    [] pc \in {"refused", "refusal_exported"} -> {2}
    [] pc \in {"raised", "census_lost"} -> IF fault = "interrupted" THEN {2, 130} ELSE {1, 2}
    [] OTHER -> {}

Interrupt ==
  /\ pc \notin Unwinding
  /\ pc' = "except" /\ fault' = "interrupted"
  /\ UNCHANGED <<options, backend, baseRun, baseErr, headRuns, headErr, healthLeft,
                 phases, verdict, disposition, signed, artifact, census>>

Kill ==
  /\ pc \notin Ended
  /\ pc' = "killed"
  /\ UNCHANGED <<options, fault, backend, baseRun, baseErr, headRuns, headErr, healthLeft,
                 phases, verdict, disposition, signed, artifact, census>>

-----------------------------------------------------------------------------
Refuse == RefuseInput \/ RefuseCheckout \/ RefuseReadiness \/ RefuseOutput
RunCandidate == RunBase \/ BaseEnvError \/ RunHead \/ HeadEnvError \/ Rerun
PassToPass == StartPassToPass \/ HealthBase \/ HealthHead \/ HealthRaises \/ Probe \/ ProbeRaises
Publish == Seal \/ Sign \/ Write \/ ExportFails \/ Return

Step ==
  \/ Plan \/ Refuse \/ RunCandidate \/ CandidatePhaseRaises
  \/ PassToPass \/ Rule \/ Publish \/ Handle \/ HandleFails \/ ExportRefusal

Next == Step \/ Interrupt \/ Kill

(* Every step is bounded by a timeout of its own, so an invocation that is *)
(* not killed keeps stepping.                                              *)
Spec == Init /\ [][Next]_vars
FairSpec == Spec /\ WF_vars(Step)

-----------------------------------------------------------------------------
(* The records the state is made of; PairedOracle's trials are the         *)
(* executed ones.                                                          *)
PhaseNames == {"plan", "base", "head", "health_base", "health_head", "probe_base", "probe_head"}
PhaseRecord ==
  [phase : PhaseNames, n : Nat, outcome : Outcomes \cup {"absent"}, kind : RunnerKinds,
   text : Texts, refused : BOOLEAN]
Dispositions ==
  EnvErrors \cup {"catching", "head_flaky", "head_passed", "head_uncollectable_base_passed",
    "base_uncollectable", "reproduction_catch", "base_reproduction_failed",
    "head_failed_base_failed_latent"}

(* Every guarded phase left a record of this shape. *)
RecordsOK == phases \in SUBSET PhaseRecord

(* Type correctness of the invocation's state. *)
TypeOK ==
  /\ options \in [mode : Modes, enforcing : SUBSET Policies, reruns : 2..MaxReruns,
                  output : BOOLEAN]
  /\ pc \in Executing \cup Unwinding
            \cup {"plan", "decide", "p2p_ok", "p2p_bad", "seal", "sign", "write", "return"}
  /\ fault \in Faults \cup {"none"}
  /\ backend \in {"unset", "none", "isolated"}
  /\ baseRun \in RunResults \cup {NoRun} /\ baseErr \in EnvErrors \cup {"none"}
  /\ headRuns \in Seq(RunResults) /\ headErr \in EnvErrors \cup {"none"}
  /\ healthLeft \in 0..MaxHealth
  /\ RecordsOK
  /\ verdict \in Verdicts \cup {"none"} /\ disposition \in Dispositions \cup {"none"}
  /\ census \in [state : {"started", "finished", "failed", "interrupted"},
                 candidate : {"attempted", "finished"},
                 disposition : Dispositions \cup Faults \cup {"none"},
                 observed : BOOLEAN]

(* An enforced policy that found a problem in any phase, the control tests *)
(* included, leaves no verdict behind: the run ends in a refusal.          *)
PolicyNeverBypassed ==
  (\E p \in phases : p.refused) => signed = NoReceipt /\ verdict = "none"

(* Isolation that was required and is not there means nothing executes. *)
RequiredNeverUnconfined ==
  options.mode = "required" /\ backend # "isolated" => \A p \in phases : ~Executed(p)

(* The two classes of signed receipts validate_semantics rejects although  *)
(* verify_test issued them (run verify_gap_disagreement exhibits the       *)
(* first).                                                                 *)
KnownGap(ev) ==
  \/ ev.verdict = "collection_catch" /\ ~ev.agreement
  \/ /\ ev.verdict = "proven_catch"
     /\ \E p \in HeadRecords(ev.phases) : p.kind # "assertion"

(* Producer and consumer agree: outside the two known gaps, every receipt  *)
(* verify_test signs, and every refusal receipt made from its exception,   *)
(* passes the consumer's own schema and semantic rules.                    *)
ConsumerAgrees ==
  \A ev \in {signed, artifact} \ {NoReceipt} : Accepted(ev) \/ KnownGap(ev)

(* The census never overstates: whatever exception, interrupt or kill      *)
(* comes between its own finish and the published receipt, an invocation   *)
(* that did not return is not left recorded as a catch by its handler, a   *)
(* returned one is recorded with its verdict's disposition, and a          *)
(* published proof never lacks a finished census.  The command's status 0  *)
(* is backed by that census, a proof and the file that was asked for.      *)
CensusTruthful ==
  /\ pc \in {"refused", "raised", "refusal_exported"} =>
       census.state # "finished" /\ census.disposition = fault
  /\ pc = "returned" => census.state = "finished" /\ census.disposition = disposition
  /\ census.observed => \E p \in phases : Executed(p)
  /\ artifact # NoReceipt /\ ~artifact.refused => census.candidate = "finished"
  /\ 0 \in CommandStatuses =>
       /\ census.state = "finished" /\ signed.verdict \in ProvenVerdicts
       /\ options.output => artifact = signed

(* Under the steps' own timeouts every invocation ends. *)
Termination == <>(pc \in Ended)

(* Verify implements PairedOracle. *)
Broken == {side \in {"base", "head"} : (IF side = "base" THEN baseErr ELSE headErr) # "none"}
Oracle == INSTANCE PairedOracle
            WITH trials <- {p \in phases : Executed(p)}, broken <- Broken, ruling <- verdict
Refines == Oracle!Spec

-----------------------------------------------------------------------------
(* Claims of the repository that the code does not keep.                   *)

(* receipt.py's rule: reruns that disagree forbid every catch verdict. *)
DisagreementForbidsCatch ==
  signed # NoReceipt /\ ~signed.agreement =>
    signed.verdict \notin {"proven_catch", "reproduction_catch", "collection_catch"}
=============================================================================
