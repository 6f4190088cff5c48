---------------------------- MODULE VerifyProofs ----------------------------
(***************************************************************************)
(* Proofs about Verify, for every bound on reruns and health tests and     *)
(* every set of sandbox modes and policies: type correctness, the policy   *)
(* and isolation invariants, that Verify implements PairedOracle, that the *)
(* census is true, and that the consumer accepts what is produced; and     *)
(* about Guards, for any manifests and tests: its gates mean what they say.*)
(***************************************************************************)
EXTENDS Verify, Guards, FiniteSetTheorems, WellFoundedInduction, TLAPS

(* Program points after BASE, and after BASE and HEAD. *)
AfterBase == {"head", "rerun", "decide", "health_base", "health_head", "probe_base",
              "probe_head", "p2p_ok", "p2p_bad"}
InPassToPass == {"health_base", "health_head", "probe_base", "probe_head", "p2p_ok", "p2p_bad"}
Undecided == {"plan", "base"} \cup AfterBase

Done == {p \in phases : Executed(p)}

(* A control test is only on its way while one is left to try: what keeps   *)
(* healthLeft a natural number.                                            *)
LeftInv == pc \in {"health_base", "health_head"} => healthLeft > 0

-----------------------------------------------------------------------------
(* Every result of run_test has the fields of a phase record. *)
LEMMA RunResultsTyped ==
  \A run \in RunResults : /\ run.outcome \in Outcomes
                          /\ run.kind \in RunnerKinds
                          /\ run.text \in Texts
  BY DEF RunResults, Outcomes, RunnerKinds, Texts

(* The record a guarded execution leaves is a phase record. *)
LEMMA FiledTyped ==
  ASSUME TypeOK, pc \in Executing, NEW refused \in BOOLEAN,
         NEW run \in RunResults \cup {Unrun}
  PROVE  Filed(run, refused) \in PhaseRecord
<1>1. run.outcome \in Outcomes \cup {"absent"} /\ run.kind \in RunnerKinds /\ run.text \in Texts
  BY RunResultsTyped DEF Unrun, RunnerKinds, Texts
<1>2. Len(headRuns) + 1 \in Nat /\ healthLeft \in Nat /\ 1 \in Nat
  BY HealthAssumption DEF TypeOK
<1>3. \A phase \in PhaseNames, n \in Nat : Rec(phase, n, run, refused) \in PhaseRecord
  BY <1>1 DEF Rec, PhaseRecord
<1>4. pc \in {"base", "head", "rerun", "health_base", "health_head", "probe_base", "probe_head"}
  BY DEF Executing
<1> QED BY <1>2, <1>3, <1>4 DEF Filed, PhaseNames

(* Every rung of the ladder rules with a verdict and disposition of its type. *)
LEMMA RulingTyped ==
  ASSUME TypeOK
  PROVE  Ruling.verdict \in Verdicts /\ Ruling.disposition \in Dispositions
<1> DEFINE R == [verdict : Verdicts, disposition : Dispositions]
<1>1. EnvFailed => EnvRuling \in R
  BY DEF TypeOK, EnvFailed, EnvRuling, Give, Verdicts, Dispositions, EnvErrors
<1>2. BasePassedRuling \in R
  BY DEF BasePassedRuling, Give, Verdicts, Dispositions
<1>3. BaseFailedRuling \in R
  BY DEF BaseFailedRuling, Give, Verdicts, Dispositions
<1>4. Give("inconclusive", "base_uncollectable") \in R
  BY DEF Give, Verdicts, Dispositions
<1>5. Ruling \in R
  BY <1>1, <1>2, <1>3, <1>4 DEF Ruling
<1> QED BY <1>5

(* Type correctness of every step, action by action. *)
LEMMA TypeStep == TypeOK /\ LeftInv /\ [Next]_vars => TypeOK' /\ LeftInv'
<1> SUFFICES ASSUME TypeOK, LeftInv, [Next]_vars PROVE TypeOK' /\ LeftInv'
  OBVIOUS
<1>a. pc \in Executing =>
        /\ Filed(Unrun, TRUE) \in PhaseRecord /\ Filed(Unrun, FALSE) \in PhaseRecord
        /\ \A run \in RunResults :
             Filed(run, TRUE) \in PhaseRecord /\ Filed(run, FALSE) \in PhaseRecord
  <2> SUFFICES ASSUME pc \in Executing, NEW run \in RunResults
               PROVE  /\ Filed(Unrun, TRUE) \in PhaseRecord
                      /\ Filed(Unrun, FALSE) \in PhaseRecord
                      /\ Filed(run, TRUE) \in PhaseRecord
                      /\ Filed(run, FALSE) \in PhaseRecord
    BY DEF RunResults
  <2> QED BY FiledTyped
<1>b. ControlResults \subseteq RunResults
  BY DEF ControlResults
<1>c. phases \subseteq PhaseRecord
  BY DEF TypeOK, RecordsOK
<1>d. ASSUME pc \in Executing, NEW results \in SUBSET RunResults, LeftBy(results)
      PROVE  RecordsOK'
  <2>1. CASE phases' = phases
    BY <1>c, <2>1 DEF RecordsOK
  <2>2. CASE \E run \in results \cup {Unrun} : phases' = phases \cup {Filed(run, FALSE)}
    <3>1. PICK run \in results \cup {Unrun} : phases' = phases \cup {Filed(run, FALSE)}
      BY <2>2
    <3>2. CASE run = Unrun
      BY <1>a, <1>c, <1>d, <3>1, <3>2 DEF RecordsOK
    <3>3. CASE run \in RunResults
      BY <1>a, <1>c, <1>d, <3>1, <3>3 DEF RecordsOK
    <3> QED BY <3>1, <3>2, <3>3
  <2> QED BY <1>d, <2>1, <2>2 DEF LeftBy
<1>1. CASE UNCHANGED vars
  BY <1>1, HealthAssumption DEF TypeOK, LeftInv, RecordsOK, vars
<1>2. CASE RefuseInput
  BY <1>2, HealthAssumption DEF TypeOK, LeftInv, RecordsOK, RefuseInput, Unwinding, Faults
<1>3. CASE Plan
  <2>1. Rec("plan", 1, Unrun, TRUE) \in PhaseRecord
    BY DEF Rec, Unrun, PhaseRecord, PhaseNames, RunnerKinds, Texts
  <2>2. RecordsOK'
    BY <1>3, <1>c, <2>1 DEF RecordsOK, Plan
  <2>3. /\ backend' \in {"none", "isolated"}
        /\ pc' \in {"except", "base"} /\ fault' \in {fault, "refused"}
        /\ UNCHANGED <<options, baseRun, baseErr, headRuns, headErr, healthLeft,
                       verdict, disposition, census>>
    BY <1>3 DEF Plan
  <2> QED BY <2>2, <2>3 DEF TypeOK, LeftInv, Unwinding, Faults, Executing
<1>4. CASE RefuseCheckout
  BY <1>4, HealthAssumption DEF TypeOK, LeftInv, RecordsOK, RefuseCheckout, Unwinding, Faults
<1>5. CASE RefuseReadiness
  <2>1. RecordsOK'
    BY <1>5, <1>a, <1>b, <1>c DEF RecordsOK, RefuseReadiness, Executing
  <2> QED BY <1>5, <2>1, RerunsAssumption, HealthAssumption DEF TypeOK, LeftInv, RefuseReadiness, Unwinding, Faults
<1>6. CASE RefuseOutput
  <2>1. RecordsOK'
    BY <1>6, <1>a, <1>b, <1>c DEF RecordsOK, RefuseOutput, Executing
  <2> QED BY <1>6, <2>1, RerunsAssumption, HealthAssumption DEF TypeOK, LeftInv, RefuseOutput, Unwinding, Faults
<1>7. CASE CandidatePhaseRaises
  <2>1. RecordsOK'
    BY <1>7, <1>b, <1>d DEF CandidatePhaseRaises, Executing
  <2> QED BY <1>7, <2>1, RerunsAssumption, HealthAssumption DEF TypeOK, LeftInv, CandidatePhaseRaises, Unwinding, Faults, Executing
<1>8. CASE RunBase
  <2>1. RecordsOK'
    BY <1>8, <1>a, <1>b, <1>c DEF RecordsOK, RunBase, Executing
  <2> QED BY <1>8, <2>1, RerunsAssumption, HealthAssumption DEF TypeOK, LeftInv, RunBase, Executing
<1>9. CASE BaseEnvError
  BY <1>9, HealthAssumption DEF TypeOK, LeftInv, RecordsOK, BaseEnvError, Executing
<1>10. CASE RunHead
  <2>1. RecordsOK'
    BY <1>10, <1>a, <1>c DEF RecordsOK, RunHead, Executing
  <2>2. headRuns' \in Seq(RunResults)
    BY <1>10 DEF RunHead, TypeOK
  <2> QED BY <1>10, <2>1, <2>2, HealthAssumption DEF TypeOK, LeftInv, RunHead, Executing
<1>11. CASE HeadEnvError
  BY <1>11, HealthAssumption DEF TypeOK, LeftInv, RecordsOK, HeadEnvError, Executing
<1>12. CASE Rerun
  <2>1. RecordsOK'
    BY <1>12, <1>a, <1>c DEF RecordsOK, Rerun, Executing
  <2>2. headRuns' \in Seq(RunResults)
    BY <1>12 DEF Rerun, TypeOK
  <2> QED BY <1>12, <2>1, <2>2, HealthAssumption DEF TypeOK, LeftInv, Rerun, Executing
<1>13. CASE StartPassToPass
  BY <1>13, HealthAssumption DEF TypeOK, LeftInv, RecordsOK, StartPassToPass, Executing
<1>14. CASE Rule
  BY <1>14, RulingTyped, HealthAssumption DEF TypeOK, LeftInv, RecordsOK, Rule
<1>15. CASE HealthBase
  <2>1. RecordsOK'
    BY <1>15, <1>a, <1>b, <1>c DEF RecordsOK, HealthBase, Executing
  <2> QED BY <1>15, <2>1, RerunsAssumption, HealthAssumption DEF TypeOK, LeftInv, HealthBase, Executing
<1>16. CASE HealthHead
  <2>1. RecordsOK'
    BY <1>16, <1>a, <1>b, <1>c DEF RecordsOK, HealthHead, Executing
  <2> QED BY <1>16, <2>1, RerunsAssumption, HealthAssumption DEF TypeOK, LeftInv, HealthHead, Executing
<1>17. CASE HealthRaises
  <2>1. RecordsOK'
    BY <1>17, <1>b, <1>d DEF HealthRaises, Executing
  <2> QED BY <1>17, <2>1, RerunsAssumption, HealthAssumption DEF TypeOK, LeftInv, HealthRaises, Executing
<1>18. CASE Probe
  <2>1. RecordsOK'
    BY <1>18, <1>a, <1>b, <1>c DEF RecordsOK, Probe, Executing
  <2> QED BY <1>18, <2>1, RerunsAssumption, HealthAssumption DEF TypeOK, LeftInv, Probe, Executing
<1>19. CASE ProbeRaises
  <2>1. RecordsOK'
    BY <1>19, <1>b, <1>d DEF ProbeRaises, Executing
  <2> QED BY <1>19, <2>1, RerunsAssumption, HealthAssumption DEF TypeOK, LeftInv, ProbeRaises, Executing
<1>20. CASE Seal
  BY <1>20, HealthAssumption DEF TypeOK, LeftInv, RecordsOK, Seal
<1>21. CASE Sign
  BY <1>21, HealthAssumption DEF TypeOK, LeftInv, RecordsOK, Sign
<1>22. CASE Write
  BY <1>22, HealthAssumption DEF TypeOK, LeftInv, RecordsOK, Write
<1>23. CASE ExportFails
  BY <1>23, HealthAssumption DEF TypeOK, LeftInv, RecordsOK, ExportFails, Unwinding, Faults
<1>24. CASE Return
  BY <1>24, HealthAssumption DEF TypeOK, LeftInv, RecordsOK, Return, Unwinding, Ended
<1>25. CASE Handle
  BY <1>25, HealthAssumption DEF TypeOK, LeftInv, RecordsOK, Handle, Unwinding, Ended, Faults
<1>26. CASE ExportRefusal
  BY <1>26, HealthAssumption DEF TypeOK, LeftInv, RecordsOK, ExportRefusal, Unwinding, Ended
<1>27. CASE Interrupt
  BY <1>27, HealthAssumption DEF TypeOK, LeftInv, RecordsOK, Interrupt, Unwinding, Faults
<1>28. CASE Kill
  BY <1>28, HealthAssumption DEF TypeOK, LeftInv, RecordsOK, Kill, Unwinding, Ended
<1>29. CASE HandleFails
  BY <1>29, HealthAssumption DEF TypeOK, LeftInv, RecordsOK, HandleFails, Unwinding, Ended
<1> QED
  BY <1>1, <1>2, <1>3, <1>4, <1>5, <1>6, <1>7, <1>8, <1>9, <1>10, <1>11, <1>12, <1>13, <1>14,
     <1>15, <1>16, <1>17, <1>18, <1>19, <1>20, <1>21, <1>22, <1>23, <1>24, <1>25, <1>26, <1>27,
     <1>28, <1>29
  DEF Next, Step, Refuse, RunCandidate, PassToPass, Publish

(* An invocation starts well typed. *)
LEMMA TypeInit == Init => TypeOK /\ LeftInv
  BY HealthAssumption DEF Init, TypeOK, LeftInv, RecordsOK

(* Every reachable state of an invocation is type correct, whatever the    *)
(* bounds on reruns and control tests and whatever modes and policies.     *)
THEOREM TypeCorrect == Spec => []TypeOK
  BY TypeInit, TypeStep, PTL DEF Spec

-----------------------------------------------------------------------------
(* What filing an execution writes: its outcome and whether it was refused. *)
LEMMA FiledFields ==
  ASSUME NEW run, NEW refused
  PROVE  /\ Filed(run, refused).refused = refused
         /\ Filed(run, refused).outcome = run.outcome
  BY DEF Filed, Rec

(* The verdict, the signature and the refusals stand in order: before the  *)
(* ladder nothing is decided, and only an unwinding run holds a refusal.   *)
PolicyInv ==
  /\ pc \in Undecided => verdict = "none" /\ signed = NoReceipt
  /\ pc \notin Unwinding => \A p \in phases : ~p.refused
  /\ PolicyNeverBypassed

LEMMA PolicyInit == Init => PolicyInv
  BY DEF Init, PolicyInv, PolicyNeverBypassed, Unwinding, Undecided

(* Each action keeps PolicyInv: those that file a completed execution add  *)
(* no refusal, those that file a refusal start the unwinding while nothing *)
(* is decided, Rule and Sign run only where no refusal is on record.       *)
LEMMA PolicyStep == PolicyInv /\ [Next]_vars => PolicyInv'
<1> SUFFICES ASSUME PolicyInv, [Next]_vars PROVE PolicyInv'
  OBVIOUS
<1> DEFINE NoRefusal == \A p \in phases : ~p.refused
<1>a. ASSUME pc \notin Unwinding, UNCHANGED <<verdict, signed>>, pc \in Undecided, NoRefusal',
             pc' \in Undecided \cup {"decide"}
      PROVE  PolicyInv'
  BY <1>a DEF PolicyInv, PolicyNeverBypassed, Unwinding, Undecided
<1>b. ASSUME pc \in Undecided, UNCHANGED <<verdict, signed>>, pc' \in Unwinding
      PROVE  PolicyInv'
  BY <1>b DEF PolicyInv, PolicyNeverBypassed, Unwinding, Ended, Undecided, AfterBase
<1>c. ASSUME UNCHANGED <<verdict, signed, phases>>, pc' \in Unwinding \/ pc' \notin Undecided,
             pc' \notin Unwinding => pc \notin Unwinding
      PROVE  PolicyInv'
  BY <1>c DEF PolicyInv, PolicyNeverBypassed, Unwinding, Ended, Undecided, AfterBase
<1>1. CASE UNCHANGED vars
  BY <1>1 DEF vars, PolicyInv, PolicyNeverBypassed
<1>2. CASE RefuseInput
  BY <1>2, <1>b DEF RefuseInput, Undecided, Unwinding
<1>3. CASE Plan
  <2>1. CASE pc' = "except"
    BY <1>3, <2>1, <1>b DEF Plan, Undecided, Unwinding
  <2>2. CASE pc' # "except"
    BY <1>3, <2>2, <1>a DEF Plan, Undecided, Unwinding, Ended, PolicyInv
  <2> QED BY <2>1, <2>2
<1>4. CASE RefuseCheckout
  BY <1>4, <1>b DEF RefuseCheckout, Executing, Undecided, AfterBase, Unwinding
<1>5. CASE RefuseReadiness
  BY <1>5, <1>b DEF RefuseReadiness, Executing, Undecided, AfterBase, Unwinding
<1>6. CASE RefuseOutput
  BY <1>6, <1>b DEF RefuseOutput, Executing, Undecided, AfterBase, Unwinding
<1>7. CASE CandidatePhaseRaises
  BY <1>7, <1>b DEF CandidatePhaseRaises, Executing, Undecided, AfterBase, Unwinding
<1>8. CASE RunBase
  <2>1. NoRefusal'
    BY <1>8, FiledFields DEF RunBase, PolicyInv, Unwinding, Ended
  <2> QED BY <1>8, <2>1, <1>a DEF RunBase, Undecided, AfterBase, Unwinding, Ended
<1>9. CASE RunHead
  <2>1. NoRefusal'
    BY <1>9, FiledFields DEF RunHead, PolicyInv, Unwinding, Ended
  <2> QED BY <1>9, <2>1, <1>a DEF RunHead, Undecided, AfterBase, Unwinding, Ended
<1>10. CASE Rerun
  <2>1. NoRefusal'
    BY <1>10, FiledFields DEF Rerun, PolicyInv, Unwinding, Ended
  <2> QED BY <1>10, <2>1, <1>a DEF Rerun, Undecided, AfterBase, Unwinding, Ended
<1>11. CASE HealthBase
  <2>1. NoRefusal'
    BY <1>11, FiledFields DEF HealthBase, PolicyInv, Unwinding, Ended
  <2> QED BY <1>11, <2>1, <1>a DEF HealthBase, Undecided, AfterBase, Unwinding, Ended
<1>12. CASE HealthHead
  <2>1. NoRefusal'
    BY <1>12, FiledFields DEF HealthHead, PolicyInv, Unwinding, Ended
  <2> QED BY <1>12, <2>1, <1>a DEF HealthHead, Undecided, AfterBase, Unwinding, Ended
<1>13. CASE HealthRaises
  <2>1. NoRefusal'
    BY <1>13, FiledFields DEF HealthRaises, LeftBy, PolicyInv, Unwinding, Ended
  <2> QED BY <1>13, <2>1, <1>a DEF HealthRaises, Undecided, AfterBase, Unwinding, Ended
<1>14. CASE Probe
  <2>1. NoRefusal'
    BY <1>14, FiledFields DEF Probe, PolicyInv, Unwinding, Ended
  <2> QED BY <1>14, <2>1, <1>a DEF Probe, Undecided, AfterBase, Unwinding, Ended
<1>15. CASE ProbeRaises
  <2>1. NoRefusal'
    BY <1>15, FiledFields DEF ProbeRaises, LeftBy, PolicyInv, Unwinding, Ended
  <2> QED BY <1>15, <2>1, <1>a DEF ProbeRaises, Undecided, AfterBase, Unwinding, Ended
<1>16. CASE BaseEnvError
  BY <1>16, <1>a DEF BaseEnvError, PolicyInv, Undecided, AfterBase, Unwinding, Ended
<1>17. CASE HeadEnvError
  BY <1>17, <1>a DEF HeadEnvError, PolicyInv, Undecided, AfterBase, Unwinding, Ended
<1>18. CASE StartPassToPass
  BY <1>18, <1>a DEF StartPassToPass, PolicyInv, Undecided, AfterBase, Unwinding, Ended
<1>19. CASE Rule
  BY <1>19 DEF Rule, PolicyInv, PolicyNeverBypassed, Undecided, AfterBase, Unwinding, Ended
<1>20. CASE Sign
  BY <1>20 DEF Sign, PolicyInv, PolicyNeverBypassed, Undecided, AfterBase, Unwinding, Ended
<1>21. CASE Seal
  BY <1>21, <1>c DEF Seal, Undecided, AfterBase, Unwinding, Ended
<1>22. CASE Write
  BY <1>22, <1>c DEF Write, Undecided, AfterBase, Unwinding, Ended
<1>23. CASE ExportFails
  BY <1>23, <1>c DEF ExportFails, Undecided, AfterBase, Unwinding, Ended
<1>24. CASE Return
  BY <1>24, <1>c DEF Return, Undecided, AfterBase, Unwinding, Ended
<1>25. CASE Handle
  BY <1>25, <1>c DEF Handle, Undecided, AfterBase, Unwinding, Ended
<1>26. CASE ExportRefusal
  BY <1>26, <1>c DEF ExportRefusal, Undecided, AfterBase, Unwinding, Ended
<1>27. CASE Interrupt
  BY <1>27, <1>c DEF Interrupt, Undecided, AfterBase, Unwinding, Ended
<1>28. CASE Kill
  BY <1>28, <1>c DEF Kill, Undecided, AfterBase, Unwinding, Ended
<1>29. CASE HandleFails
  BY <1>29, <1>c DEF HandleFails, Unwinding, Ended
<1> QED
  BY <1>1, <1>2, <1>3, <1>4, <1>5, <1>6, <1>7, <1>8, <1>9, <1>10, <1>11, <1>12, <1>13,
     <1>14, <1>15, <1>16, <1>17, <1>18, <1>19, <1>20, <1>21, <1>22, <1>23, <1>24, <1>25,
     <1>26, <1>27, <1>28, <1>29
  DEF Next, Step, Refuse, RunCandidate, PassToPass, Publish

(* Whatever its bounds, options and failures, an invocation whose enforced *)
(* policy found a problem in some phase never holds a verdict or a         *)
(* signature (verify._run_guarded_phase refuses before the ladder).        *)
THEOREM PolicyHolds == Spec => []PolicyNeverBypassed
<1>1. PolicyInv => PolicyNeverBypassed
  BY DEF PolicyInv
<1> QED BY <1>1, PolicyInit, PolicyStep, PTL DEF Spec

-----------------------------------------------------------------------------
(* Past the plan a required isolation is there, and nothing was executed   *)
(* before the plan or after its refusal.                                   *)
ConfinedInv ==
  /\ pc = "plan" => phases = {}
  /\ pc \notin {"plan"} \cup Unwinding =>
       (options.mode = "required" => backend = "isolated")
  /\ RequiredNeverUnconfined

LEMMA ConfinedInit == Init => ConfinedInv
  BY DEF Init, ConfinedInv, RequiredNeverUnconfined

LEMMA ConfinedStep == ConfinedInv /\ [Next]_vars => ConfinedInv'
<1> SUFFICES ASSUME ConfinedInv, [Next]_vars PROVE ConfinedInv'
  OBVIOUS
<1>a. ASSUME pc \notin {"plan"} \cup Unwinding, UNCHANGED <<options, backend>>, pc' # "plan"
      PROVE  ConfinedInv'
  BY <1>a DEF ConfinedInv, RequiredNeverUnconfined
<1>b. ASSUME UNCHANGED <<options, backend, phases>>, pc' # "plan",
             pc' \notin Unwinding => pc \notin {"plan"} \cup Unwinding
      PROVE  ConfinedInv'
  BY <1>b DEF ConfinedInv, RequiredNeverUnconfined
<1>1. CASE UNCHANGED vars
  BY <1>1 DEF vars, ConfinedInv, RequiredNeverUnconfined
<1>2. CASE Plan
  <2>1. CASE pc' = "except"
    <3>1. phases' = {Rec("plan", 1, Unrun, TRUE)} /\ pc' = "except" /\ UNCHANGED options
      BY <1>2, <2>1 DEF Plan
    <3>2. Rec("plan", 1, Unrun, TRUE).outcome = "absent"
      BY DEF Rec, Unrun
    <3> QED BY <3>1, <3>2 DEF ConfinedInv, RequiredNeverUnconfined, Executed, Unwinding
  <2>2. CASE pc' # "except"
    BY <1>2, <2>2 DEF Plan, ConfinedInv, RequiredNeverUnconfined
  <2> QED BY <2>1, <2>2
<1>3. CASE RunBase
  BY <1>3, <1>a DEF RunBase, Unwinding, Ended
<1>4. CASE BaseEnvError
  BY <1>4, <1>a DEF BaseEnvError, Unwinding, Ended
<1>5. CASE RunHead
  BY <1>5, <1>a DEF RunHead, Unwinding, Ended
<1>6. CASE HeadEnvError
  BY <1>6, <1>a DEF HeadEnvError, Unwinding, Ended
<1>7. CASE Rerun
  BY <1>7, <1>a DEF Rerun, Unwinding, Ended
<1>8. CASE RefuseReadiness
  BY <1>8, <1>a DEF RefuseReadiness, Executing, Unwinding, Ended
<1>9. CASE RefuseOutput
  BY <1>9, <1>a DEF RefuseOutput, Executing, Unwinding, Ended
<1>10. CASE CandidatePhaseRaises
  BY <1>10, <1>a DEF CandidatePhaseRaises, Unwinding, Ended
<1>11. CASE StartPassToPass
  BY <1>11, <1>a DEF StartPassToPass, Unwinding, Ended
<1>12. CASE HealthBase
  BY <1>12, <1>a DEF HealthBase, Unwinding, Ended
<1>13. CASE HealthHead
  BY <1>13, <1>a DEF HealthHead, Unwinding, Ended
<1>14. CASE HealthRaises
  BY <1>14, <1>a DEF HealthRaises, Unwinding, Ended
<1>15. CASE Probe
  BY <1>15, <1>a DEF Probe, Unwinding, Ended
<1>16. CASE ProbeRaises
  BY <1>16, <1>a DEF ProbeRaises, Unwinding, Ended
<1>17. CASE RefuseInput
  BY <1>17, <1>b DEF RefuseInput, Executing, Unwinding, Ended
<1>18. CASE RefuseCheckout
  BY <1>18, <1>b DEF RefuseCheckout, Executing, Unwinding, Ended
<1>19. CASE Rule
  BY <1>19, <1>b DEF Rule, Unwinding, Ended
<1>20. CASE Seal
  BY <1>20, <1>b DEF Seal, Unwinding, Ended
<1>21. CASE Sign
  BY <1>21, <1>b DEF Sign, Unwinding, Ended
<1>22. CASE Write
  BY <1>22, <1>b DEF Write, Unwinding, Ended
<1>23. CASE ExportFails
  BY <1>23, <1>b DEF ExportFails, Unwinding, Ended
<1>24. CASE Return
  BY <1>24, <1>b DEF Return, Unwinding, Ended
<1>25. CASE Handle
  BY <1>25, <1>b DEF Handle, Unwinding, Ended
<1>26. CASE ExportRefusal
  BY <1>26, <1>b DEF ExportRefusal, Unwinding, Ended
<1>27. CASE Interrupt
  BY <1>27, <1>b DEF Interrupt, Unwinding, Ended
<1>28. CASE Kill
  BY <1>28, <1>b DEF Kill, Unwinding, Ended
<1>29. CASE HandleFails
  BY <1>29, <1>b DEF HandleFails, Unwinding, Ended
<1> QED
  BY <1>1, <1>2, <1>3, <1>4, <1>5, <1>6, <1>7, <1>8, <1>9, <1>10, <1>11, <1>12, <1>13,
     <1>14, <1>15, <1>16, <1>17, <1>18, <1>19, <1>20, <1>21, <1>22, <1>23, <1>24, <1>25,
     <1>26, <1>27, <1>28, <1>29
  DEF Next, Step, Refuse, RunCandidate, PassToPass, Publish

(* Isolation that was required and is missing means that nothing, control  *)
(* tests and reruns included, is ever executed (sandbox.plan's refusal     *)
(* precedes every guarded phase).                                          *)
THEOREM ConfinementHolds == Spec => []RequiredNeverUnconfined
<1>1. ConfinedInv => RequiredNeverUnconfined
  BY DEF ConfinedInv
<1> QED BY <1>1, ConfinedInit, ConfinedStep, PTL DEF Spec

-----------------------------------------------------------------------------
(* BASE: nothing is on record before it, and it is on record after it. *)
BaseInv ==
  /\ pc \in {"plan", "base"} => phases = {}
  /\ pc \in AfterBase /\ baseErr = "none" =>
       baseRun \in RunResults /\ Rec("base", 1, baseRun, FALSE) \in phases

(* HEAD: the executions and their records are the same thing. *)
HeadInv ==
  /\ \A i \in DOMAIN headRuns : Rec("head", i, headRuns[i], FALSE) \in phases
  /\ pc \in Undecided => \A p \in Done : p.phase = "head" =>
       p.n \in DOMAIN headRuns /\ p = Rec("head", p.n, headRuns[p.n], FALSE)
  /\ pc \in {"plan", "base", "head"} => headRuns = <<>>
  /\ pc = "rerun" => headRuns # <<>>
  /\ pc \in {"decide"} \cup InPassToPass /\ headErr = "none" => headRuns # <<>>

(* The pass-to-pass guard: which controls were tried, and what passed. *)
Passed == [outcome |-> "PASS", kind |-> "none", text |-> "plain"]
ControlInv ==
  /\ pc \in {"head", "rerun", "decide"} => \A p \in Done : p.phase \in {"base", "head"}
  /\ pc = "head" => \A p \in Done : p.phase = "base"
  /\ pc \in InPassToPass => CandidateReproduction
  /\ pc \in {"health_base", "health_head"} =>
       \A p \in Done :
         /\ p.phase \notin {"probe_base", "probe_head"}
         /\ p.phase = "health_head" => p.n > healthLeft
         /\ p.phase = "health_base" =>
              IF pc = "health_base" THEN p.n > healthLeft ELSE p.n >= healthLeft
  /\ pc = "health_head" => Rec("health_base", healthLeft, Passed, FALSE) \in phases
  /\ pc = "probe_base" => \A p \in Done : p.phase \notin {"probe_base", "probe_head"}
  /\ pc = "probe_head" =>
       /\ \A p \in Done : p.phase # "probe_head"
       /\ Rec("probe_base", 1, Passed, FALSE) \in phases
  /\ pc = "p2p_ok" => Oracle!ControlsPassed

(* The inductive invariant behind the refinement. *)
RecordInv == BaseInv /\ HeadInv /\ ControlInv
IInv == TypeOK /\ LeftInv /\ PolicyInv /\ RecordInv

LEMMA RecordInit == Init => RecordInv
  BY DEF Init, RecordInv, BaseInv, HeadInv, ControlInv, AfterBase, InPassToPass, Done

(* A control's result that passed is the passing one. *)
LEMMA PassedControl ==
  ASSUME NEW run \in ControlResults, run.outcome = "PASS"
  PROVE  run = Passed
  BY DEF ControlResults, RunResults, Passed

(* The fields of a record, and which records are executions. *)
LEMMA RecFields ==
  ASSUME NEW phase, NEW n, NEW run, NEW refused
  PROVE  LET p == Rec(phase, n, run, refused) IN
           /\ p.phase = phase /\ p.n = n /\ p.outcome = run.outcome
           /\ p.kind = run.kind /\ p.text = run.text
           /\ Executed(p) <=> run.outcome # "absent"
  BY DEF Rec, Executed

(* The ways a step can change phases, seen from the executed records. *)
LEMMA DoneGrows ==
  ASSUME NEW p, phases' = phases \cup {p}
  PROVE  Done' = IF Executed(p) THEN Done \cup {p} ELSE Done
  BY DEF Done, Executed

LEMMA DoneKept == phases' = phases => Done' = Done
  BY DEF Done

LEMMA UnrunUnexecuted ==
  ASSUME NEW refused PROVE ~Executed(Filed(Unrun, refused))
  BY FiledFields DEF Executed, Unrun

(* Which record an execution is filed under, by program point. *)
LEMMA FiledAs ==
  ASSUME NEW run, NEW refused
  PROVE  /\ pc = "base" => Filed(run, refused) = Rec("base", 1, run, refused)
         /\ pc = "head" => Filed(run, refused) = Rec("head", 1, run, refused)
         /\ pc = "rerun" => Filed(run, refused) = Rec("head", Len(headRuns) + 1, run, refused)
         /\ pc \in {"health_base", "health_head"} =>
              Filed(run, refused) = Rec(pc, healthLeft, run, refused)
         /\ pc \in {"probe_base", "probe_head"} =>
              Filed(run, refused) = Rec(pc, 1, run, refused)
  BY DEF Filed

(* A step inside the guard that leaves both candidate sides alone keeps    *)
(* what is known of them.                                                  *)
LEMMA CandidatesKept ==
  ASSUME RecordInv, pc \in {"decide"} \cup InPassToPass, CandidateReproduction,
         pc' \in InPassToPass, UNCHANGED <<baseRun, baseErr, headRuns, headErr>>,
         phases \subseteq phases', \A p \in Done' : p \in Done \/ p.phase # "head"
  PROVE  BaseInv' /\ HeadInv' /\ CandidateReproduction'
<1>1. BaseInv'
  BY DEF RecordInv, BaseInv, InPassToPass, AfterBase
<1>2. HeadInv'
  <2>1. \A i \in DOMAIN headRuns' : Rec("head", i, headRuns'[i], FALSE) \in phases'
    BY DEF RecordInv, HeadInv
  <2>2. \A p \in Done' : p.phase = "head" =>
          p.n \in DOMAIN headRuns' /\ p = Rec("head", p.n, headRuns'[p.n], FALSE)
    BY DEF RecordInv, HeadInv, Undecided, AfterBase, InPassToPass
  <2>3. headErr' = "none" => headRuns' # <<>>
    BY DEF RecordInv, HeadInv
  <2>4. pc' \notin {"plan", "base", "head", "rerun"}
    BY DEF InPassToPass
  <2> QED BY <2>1, <2>2, <2>3, <2>4 DEF HeadInv
<1>3. CandidateReproduction'
  BY DEF CandidateReproduction, EnvFailed, BaseGrade, HeadRun
<1> QED BY <1>1, <1>2, <1>3

(* The same control passing on both revisions is what ControlsPassed asks. *)
LEMMA BothPassed ==
  ASSUME NEW n, NEW sides \in {<<"health_base", "health_head">>, <<"probe_base", "probe_head">>},
         Rec(sides[1], n, Passed, FALSE) \in phases',
         Rec(sides[2], n, Passed, FALSE) \in phases'
  PROVE  Oracle!ControlsPassed'
<1> DEFINE b == Rec(sides[1], n, Passed, FALSE)
           h == Rec(sides[2], n, Passed, FALSE)
<1>1. /\ b.phase = sides[1] /\ b.n = n /\ b.outcome = "PASS"
      /\ h.phase = sides[2] /\ h.n = n /\ h.outcome = "PASS"
  BY DEF Rec, Passed
<1>2. b \in {p \in phases' : Executed(p)} /\ h \in {p \in phases' : Executed(p)}
  BY <1>1 DEF Executed
<1>3. <<b.phase, h.phase>> \in {<<"health_base", "health_head">>, <<"probe_base", "probe_head">>}
  <2>1. CASE sides = <<"health_base", "health_head">>
    BY <1>1, <2>1
  <2>2. CASE sides = <<"probe_base", "probe_head">>
    BY <1>1, <2>2
  <2> QED BY <2>1, <2>2
<1> QED BY <1>1, <1>2, <1>3 DEF Oracle!ControlsPassed, Executed

(* Each action keeps the records in step with the executions. *)
LEMMA RecordStep == IInv /\ [Next]_vars => RecordInv'
<1> SUFFICES ASSUME IInv, [Next]_vars PROVE RecordInv'
  OBVIOUS
<1>i. RecordInv /\ BaseInv /\ HeadInv /\ ControlInv /\ headRuns \in Seq(RunResults)
  BY DEF IInv, RecordInv, TypeOK
<1>n. healthLeft \in Nat /\ \A p \in Done : p.n \in Nat
  BY HealthAssumption DEF IInv, TypeOK, RecordsOK, PhaseRecord, Done
<1>a. ASSUME pc' \notin Undecided, headRuns' = headRuns, phases \subseteq phases'
      PROVE  RecordInv'
  <2>1. BaseInv'
    BY <1>a, <1>i DEF BaseInv, Undecided, AfterBase
  <2>2. HeadInv'
    BY <1>a, <1>i DEF HeadInv, Undecided, AfterBase, InPassToPass
  <2>3. ControlInv'
    BY <1>a, <1>i DEF ControlInv, Undecided, AfterBase, InPassToPass
  <2> QED BY <2>1, <2>2, <2>3 DEF RecordInv
(* A control execution, completed or not, is filed under its own name and  *)
(* turn, and leaves the candidate sides alone.                             *)
<1>c. ASSUME pc \in {"health_base", "health_head", "probe_base", "probe_head"},
             pc' \in InPassToPass, UNCHANGED <<baseRun, baseErr, headRuns, headErr>>,
             NEW results \in SUBSET ControlResults, LeftBy(results)
      PROVE  /\ BaseInv' /\ HeadInv' /\ CandidateReproduction'
             /\ \A p \in Done' : \/ p \in Done
                                 \/ /\ p.phase = pc
                                    /\ p.n = IF pc \in {"health_base", "health_head"}
                                                THEN healthLeft ELSE 1
  <2>1. CASE phases' = phases
    BY <1>c, <1>i, <2>1, DoneKept, CandidatesKept DEF ControlInv, InPassToPass
  <2>2. CASE \E run \in results \cup {Unrun} : phases' = phases \cup {Filed(run, FALSE)}
    <3>1. PICK run \in results \cup {Unrun} : phases' = phases \cup {Filed(run, FALSE)}
      BY <2>2
    <3> DEFINE r == Filed(run, FALSE)
    <3>2. r.phase = pc /\ r.n = IF pc \in {"health_base", "health_head"} THEN healthLeft ELSE 1
      <4>1. CASE pc \in {"health_base", "health_head"}
        <5>1. r = Rec(pc, healthLeft, run, FALSE)
          BY <4>1, FiledAs
        <5>2. /\ Rec(pc, healthLeft, run, FALSE).phase = pc
              /\ Rec(pc, healthLeft, run, FALSE).n = healthLeft
          BY DEF Rec
        <5> QED BY <4>1, <5>1, <5>2
      <4>2. CASE pc \in {"probe_base", "probe_head"}
        <5>1. r = Rec(pc, 1, run, FALSE)
          BY <4>2, FiledAs
        <5>2. Rec(pc, 1, run, FALSE).phase = pc /\ Rec(pc, 1, run, FALSE).n = 1
          BY DEF Rec
        <5> QED BY <4>2, <5>1, <5>2
      <4> QED BY <1>c, <4>1, <4>2
    <3>3. Done' \subseteq Done \cup {r}
      BY <3>1 DEF Done
    <3>4. \A p \in Done' : p \in Done \/ p.phase # "head"
      BY <1>c, <3>2, <3>3
    <3>5. BaseInv' /\ HeadInv' /\ CandidateReproduction'
      BY <1>c, <1>i, <3>1, <3>4, CandidatesKept DEF ControlInv, InPassToPass
    <3> QED BY <3>2, <3>3, <3>5
  <2> QED BY <1>c, <2>1, <2>2 DEF LeftBy
<1>1. CASE UNCHANGED vars
  <2>1. Done' = Done /\ Oracle!ControlsPassed' = Oracle!ControlsPassed
        /\ CandidateReproduction' = CandidateReproduction
    BY <1>1 DEF vars, Done, Oracle!ControlsPassed, CandidateReproduction, EnvFailed,
                BaseGrade, HeadRun
  <2>2. BaseInv' /\ HeadInv'
    BY <1>1, <1>i, <2>1 DEF vars, BaseInv, HeadInv
  <2>3. ControlInv'
    BY <1>1, <1>i, <2>1 DEF vars, ControlInv
  <2> QED BY <2>2, <2>3 DEF RecordInv
<1>2. CASE Plan
  <2>1. CASE pc' = "except"
    BY <1>2, <1>i, <2>1, <1>a DEF Plan, Undecided, AfterBase, BaseInv
  <2>2. CASE pc' # "except"
    <3>1. pc' = "base" /\ phases' = {} /\ headRuns' = <<>> /\ Done' = {}
      BY <1>2, <1>i, <2>2 DEF Plan, BaseInv, HeadInv, Done
    <3> QED BY <3>1 DEF RecordInv, BaseInv, HeadInv, ControlInv, AfterBase, InPassToPass
  <2> QED BY <2>1, <2>2
<1>3. CASE RunBase
  <2>1. PICK run \in RunResults : baseRun' = run /\ phases' = phases \cup {Filed(run, FALSE)}
    BY <1>3 DEF RunBase
  <2> DEFINE r == Rec("base", 1, run, FALSE)
  <2>a. Filed(run, FALSE) = r
    BY <1>3, FiledAs DEF RunBase
  <2>b. r.phase = "base"
    BY DEF Rec
  <2>2. phases' = {r} /\ headRuns' = <<>> /\ pc' = "head" /\ r.phase = "base"
    BY <1>3, <1>i, <2>1, <2>a, <2>b DEF RunBase, BaseInv, HeadInv
  <2>3. \A p \in Done' : p.phase = "base"
    BY <2>2 DEF Done
  <2>4. BaseInv'
    BY <2>1, <2>2 DEF BaseInv
  <2>5. HeadInv'
    BY <2>2, <2>3 DEF HeadInv, InPassToPass
  <2>6. ControlInv'
    BY <2>2, <2>3 DEF ControlInv, InPassToPass
  <2> QED BY <2>4, <2>5, <2>6 DEF RecordInv
<1>4. CASE BaseEnvError
  <2>1. phases' = {} /\ headRuns' = <<>> /\ pc' = "head" /\ baseErr' # "none" /\ Done' = {}
    BY <1>4, <1>i DEF BaseEnvError, BaseInv, HeadInv, EnvErrors, Done
  <2> QED BY <2>1 DEF RecordInv, BaseInv, HeadInv, ControlInv, InPassToPass
<1>5. CASE RunHead
  <2>1. PICK run \in RunResults : /\ headRuns' = <<run>>
                                  /\ phases' = phases \cup {Filed(run, FALSE)}
    BY <1>5 DEF RunHead
  <2> DEFINE r == Rec("head", 1, run, FALSE)
  <2>2. /\ pc = "head" /\ pc' \in {"rerun", "decide"} /\ UNCHANGED <<baseRun, baseErr>>
        /\ phases' = phases \cup {r} /\ r.phase = "head" /\ r.n = 1
    <3>1. Filed(run, FALSE) = r
      BY <1>5, FiledAs DEF RunHead
    <3>2. r.phase = "head" /\ r.n = 1
      BY DEF Rec
    <3> QED BY <1>5, <2>1, <3>1, <3>2 DEF RunHead
  <2>3. Done' \subseteq Done \cup {r} /\ \A p \in Done : p.phase = "base"
    BY <1>i, <2>2 DEF Done, ControlInv
  <2>4. BaseInv'
    BY <1>i, <2>2 DEF BaseInv, AfterBase
  <2>a. DOMAIN headRuns' = {1} /\ headRuns'[1] = run /\ headRuns' # <<>>
    BY <2>1
  <2>b. \A p \in Done' : p.phase = "head" => p = r
    BY <2>3
  <2>5. HeadInv'
    BY <2>2, <2>a, <2>b DEF HeadInv, InPassToPass
  <2>6. ControlInv'
    BY <2>2, <2>3 DEF ControlInv, InPassToPass
  <2> QED BY <2>4, <2>5, <2>6 DEF RecordInv
<1>6. CASE HeadEnvError
  <2>1. /\ pc = "head" /\ pc' = "decide" /\ UNCHANGED <<baseRun, baseErr, phases, headRuns>>
        /\ headErr' # "none" /\ Done' = Done
    BY <1>6 DEF HeadEnvError, EnvErrors, Done
  <2>2. BaseInv'
    BY <1>i, <2>1 DEF BaseInv, AfterBase
  <2>3. HeadInv'
    BY <1>i, <2>1 DEF HeadInv, Undecided, AfterBase
  <2>4. ControlInv'
    BY <1>i, <2>1 DEF ControlInv, InPassToPass
  <2> QED BY <2>2, <2>3, <2>4 DEF RecordInv
<1>7. CASE Rerun
  <2>1. PICK run \in RunResults : /\ headRuns' = Append(headRuns, run)
                                  /\ phases' = phases \cup {Filed(run, FALSE)}
    BY <1>7 DEF Rerun
  <2> DEFINE r == Rec("head", Len(headRuns) + 1, run, FALSE)
  <2>2. /\ pc = "rerun" /\ pc' \in {"rerun", "decide"} /\ UNCHANGED <<baseRun, baseErr>>
        /\ phases' = phases \cup {r} /\ r.phase = "head" /\ r.n = Len(headRuns) + 1
    <3>1. Filed(run, FALSE) = r
      BY <1>7, FiledAs DEF Rerun
    <3>2. r.phase = "head" /\ r.n = Len(headRuns) + 1
      BY DEF Rec
    <3> QED BY <1>7, <2>1, <3>1, <3>2 DEF Rerun
  <2>3. Done' \subseteq Done \cup {r}
    BY <2>2 DEF Done
  <2>4. /\ DOMAIN headRuns' = DOMAIN headRuns \cup {Len(headRuns) + 1}
        /\ headRuns'[Len(headRuns) + 1] = run
        /\ \A i \in DOMAIN headRuns : headRuns'[i] = headRuns[i]
        /\ headRuns' # <<>>
    BY <1>i, <2>1
  <2>5. BaseInv'
    BY <1>i, <2>2 DEF BaseInv, AfterBase
  <2>6. HeadInv'
    BY <1>i, <2>2, <2>3, <2>4 DEF HeadInv, InPassToPass, Undecided, AfterBase
  <2>7. ControlInv'
    BY <1>i, <2>2, <2>3 DEF ControlInv, InPassToPass
  <2> QED BY <2>5, <2>6, <2>7 DEF RecordInv
<1>8. CASE StartPassToPass
  <2>1. /\ pc = "decide" /\ CandidateReproduction /\ pc' \in {"probe_base", "health_base"}
        /\ UNCHANGED <<baseRun, baseErr, headRuns, headErr, phases>> /\ Done' = Done
    BY <1>8, DoneKept DEF StartPassToPass
  <2>2. BaseInv' /\ HeadInv' /\ CandidateReproduction'
    BY <1>i, <2>1, CandidatesKept DEF InPassToPass
  <2>3. \A p \in Done' : p.phase \in {"base", "head"}
    BY <1>i, <2>1 DEF ControlInv
  <2>4. ControlInv'
    BY <2>1, <2>2, <2>3 DEF ControlInv
  <2> QED BY <2>2, <2>4 DEF RecordInv
<1>9. CASE HealthBase
  <2>1. PICK run \in ControlResults : /\ phases' = phases \cup {Filed(run, FALSE)}
          /\ IF run.outcome = "PASS"
               THEN pc' = "health_head" /\ UNCHANGED healthLeft
               ELSE /\ healthLeft' = healthLeft - 1
                    /\ pc' = IF healthLeft = 1 THEN "probe_base" ELSE "health_base"
    BY <1>9 DEF HealthBase
  <2>2. pc = "health_base" /\ pc' \in {"health_head", "health_base", "probe_base"}
        /\ UNCHANGED <<baseRun, baseErr, headRuns, headErr>> /\ LeftBy(ControlResults)
    BY <1>9, <2>1 DEF HealthBase, LeftBy
  <2>3. /\ BaseInv' /\ HeadInv' /\ CandidateReproduction'
        /\ \A p \in Done' : p \in Done \/ (p.phase = "health_base" /\ p.n = healthLeft)
    BY <1>c, <2>2 DEF InPassToPass
  <2>4. \A p \in Done' : /\ p.phase \notin {"probe_base", "probe_head"}
                         /\ p.phase = "health_head" => p.n > healthLeft
                         /\ p.phase = "health_base" => p.n >= healthLeft
    BY <1>i, <1>n, <2>2, <2>3 DEF ControlInv
  <2>5. CASE run.outcome = "PASS"
    <3>1. Filed(run, FALSE) = Rec("health_base", healthLeft, Passed, FALSE)
      BY <2>2, <2>5, FiledAs, PassedControl
    <3> QED BY <2>1, <2>3, <2>4, <2>5, <3>1 DEF RecordInv, ControlInv
  <2>6. CASE run.outcome # "PASS"
    <3>1. \A p \in Done' : p.n \in Nat
      BY <1>n, <2>3
    <3>2. healthLeft' = healthLeft - 1 /\ pc' \in {"probe_base", "health_base"}
      BY <2>1, <2>6
    <3>3. \A p \in Done' : p.phase \in {"health_head", "health_base"} => p.n > healthLeft'
      BY <1>n, <2>4, <3>1, <3>2
    <3>4. ControlInv'
      BY <2>3, <2>4, <3>2, <3>3 DEF ControlInv
    <3> QED BY <2>3, <3>4 DEF RecordInv
  <2> QED BY <2>5, <2>6
<1>10. CASE HealthHead
  <2>1. PICK run \in ControlResults : /\ phases' = phases \cup {Filed(run, FALSE)}
          /\ IF run.outcome = "PASS"
               THEN pc' = "p2p_ok" /\ UNCHANGED healthLeft
               ELSE /\ healthLeft' = healthLeft - 1
                    /\ pc' = IF healthLeft = 1 THEN "probe_base" ELSE "health_base"
    BY <1>10 DEF HealthHead
  <2>2. pc = "health_head" /\ pc' \in {"p2p_ok", "health_base", "probe_base"}
        /\ UNCHANGED <<baseRun, baseErr, headRuns, headErr>> /\ LeftBy(ControlResults)
    BY <1>10, <2>1 DEF HealthHead, LeftBy
  <2>3. /\ BaseInv' /\ HeadInv' /\ CandidateReproduction'
        /\ \A p \in Done' : p \in Done \/ (p.phase = "health_head" /\ p.n = healthLeft)
    BY <1>c, <2>2 DEF InPassToPass
  <2>4. \A p \in Done' : /\ p.phase \notin {"probe_base", "probe_head"}
                         /\ p.phase \in {"health_head", "health_base"} => p.n >= healthLeft
    BY <1>i, <1>n, <2>2, <2>3 DEF ControlInv
  <2>5. CASE run.outcome = "PASS"
    <3>1. Filed(run, FALSE) = Rec("health_head", healthLeft, Passed, FALSE)
      BY <2>2, <2>5, FiledAs, PassedControl
    <3>2. Rec("health_base", healthLeft, Passed, FALSE) \in phases
      BY <1>i, <2>2 DEF ControlInv
    <3>3. Oracle!ControlsPassed'
      BY <2>1, <3>1, <3>2, BothPassed
    <3> QED BY <2>1, <2>3, <2>5, <3>3 DEF RecordInv, ControlInv
  <2>6. CASE run.outcome # "PASS"
    <3>1. \A p \in Done' : p.n \in Nat
      BY <1>n, <2>3
    <3>2. healthLeft' = healthLeft - 1 /\ pc' \in {"probe_base", "health_base"}
      BY <2>1, <2>6
    <3>3. \A p \in Done' : p.phase \in {"health_head", "health_base"} => p.n > healthLeft'
      BY <1>n, <2>4, <3>1, <3>2
    <3>4. ControlInv'
      BY <2>3, <2>4, <3>2, <3>3 DEF ControlInv
    <3> QED BY <2>3, <3>4 DEF RecordInv
  <2> QED BY <2>5, <2>6
<1>11. CASE HealthRaises
  <2>1. /\ pc \in {"health_base", "health_head"} /\ pc' = "probe_base"
        /\ UNCHANGED <<baseRun, baseErr, headRuns, headErr>> /\ LeftBy(ControlResults)
    BY <1>11 DEF HealthRaises
  <2>2. BaseInv' /\ HeadInv' /\ CandidateReproduction' /\ \A p \in Done' : p \in Done \/ p.phase = pc
    BY <1>c, <2>1 DEF InPassToPass
  <2>3. \A p \in Done' : p.phase \notin {"probe_base", "probe_head"}
    BY <1>i, <2>1, <2>2 DEF ControlInv
  <2> QED BY <2>1, <2>2, <2>3 DEF RecordInv, ControlInv
<1>12. CASE Probe
  <2>1. PICK run \in ControlResults : /\ phases' = phases \cup {Filed(run, FALSE)}
          /\ pc' = IF run.outcome # "PASS" THEN "p2p_bad"
                   ELSE IF pc = "probe_base" THEN "probe_head" ELSE "p2p_ok"
    BY <1>12 DEF Probe
  <2>2. /\ pc \in {"probe_base", "probe_head"} /\ pc' \in {"p2p_bad", "probe_head", "p2p_ok"}
        /\ UNCHANGED <<baseRun, baseErr, headRuns, headErr>> /\ LeftBy(ControlResults)
    BY <1>12, <2>1 DEF Probe, LeftBy
  <2>3. BaseInv' /\ HeadInv' /\ CandidateReproduction' /\ \A p \in Done' : p \in Done \/ p.phase = pc
    BY <1>c, <2>2 DEF InPassToPass
  <2>4. CASE pc' = "p2p_bad"
    BY <2>3, <2>4 DEF RecordInv, ControlInv
  <2>5. CASE pc' = "probe_head"
    <3>1. pc = "probe_base" /\ run.outcome = "PASS"
      BY <2>1, <2>2, <2>5
    <3>2. Filed(run, FALSE) = Rec("probe_base", 1, Passed, FALSE)
      BY <3>1, FiledAs, PassedControl
    <3>3. \A p \in Done' : p.phase # "probe_head"
      BY <1>i, <2>3, <3>1 DEF ControlInv
    <3> QED BY <2>1, <2>3, <2>5, <3>2, <3>3 DEF RecordInv, ControlInv
  <2>6. CASE pc' = "p2p_ok"
    <3>1. pc = "probe_head" /\ run.outcome = "PASS"
      BY <2>1, <2>2, <2>6
    <3>2. Filed(run, FALSE) = Rec("probe_head", 1, Passed, FALSE)
      BY <3>1, FiledAs, PassedControl
    <3>3. Rec("probe_base", 1, Passed, FALSE) \in phases
      BY <1>i, <3>1 DEF ControlInv
    <3>4. Oracle!ControlsPassed'
      BY <2>1, <3>2, <3>3, BothPassed
    <3> QED BY <2>3, <2>6, <3>4 DEF RecordInv, ControlInv
  <2> QED BY <2>2, <2>4, <2>5, <2>6
<1>13. CASE ProbeRaises
  <2>1. /\ pc \in {"probe_base", "probe_head"} /\ pc' = "p2p_bad"
        /\ UNCHANGED <<baseRun, baseErr, headRuns, headErr>> /\ LeftBy(ControlResults)
    BY <1>13 DEF ProbeRaises
  <2>2. BaseInv' /\ HeadInv' /\ CandidateReproduction'
    BY <1>c, <2>1 DEF InPassToPass
  <2> QED BY <2>1, <2>2 DEF RecordInv, ControlInv
<1>14. CASE RefuseInput
  BY <1>14, <1>a DEF RefuseInput, Undecided, AfterBase
<1>15. CASE RefuseCheckout
  BY <1>15, <1>a DEF RefuseCheckout, Undecided, AfterBase
<1>16. CASE RefuseReadiness
  BY <1>16, <1>a DEF RefuseReadiness, Undecided, AfterBase
<1>17. CASE RefuseOutput
  BY <1>17, <1>a DEF RefuseOutput, Undecided, AfterBase
<1>18. CASE CandidatePhaseRaises
  BY <1>18, <1>a DEF CandidatePhaseRaises, LeftBy, Undecided, AfterBase
<1>19. CASE Rule
  BY <1>19, <1>a DEF Rule, Undecided, AfterBase
<1>20. CASE Seal
  BY <1>20, <1>a DEF Seal, Undecided, AfterBase
<1>21. CASE Sign
  BY <1>21, <1>a DEF Sign, Undecided, AfterBase
<1>22. CASE Write
  BY <1>22, <1>a DEF Write, Undecided, AfterBase
<1>23. CASE ExportFails
  BY <1>23, <1>a DEF ExportFails, Undecided, AfterBase
<1>24. CASE Return
  BY <1>24, <1>a DEF Return, Undecided, AfterBase
<1>25. CASE Handle
  BY <1>25, <1>a DEF Handle, Undecided, AfterBase
<1>26. CASE HandleFails
  BY <1>26, <1>a DEF HandleFails, Undecided, AfterBase
<1>27. CASE ExportRefusal
  BY <1>27, <1>a DEF ExportRefusal, Undecided, AfterBase
<1>28. CASE Interrupt
  BY <1>28, <1>a DEF Interrupt, Undecided, AfterBase
<1>29. CASE Kill
  BY <1>29, <1>a DEF Kill, Undecided, AfterBase, Ended
<1> QED
  BY <1>1, <1>2, <1>3, <1>4, <1>5, <1>6, <1>7, <1>8, <1>9, <1>10, <1>11, <1>12, <1>13,
     <1>14, <1>15, <1>16, <1>17, <1>18, <1>19, <1>20, <1>21, <1>22, <1>23, <1>24, <1>25,
     <1>26, <1>27, <1>28, <1>29
  DEF Next, Step, Refuse, RunCandidate, PassToPass, Publish

LEMMA InductiveInit == Init => IInv
  BY TypeInit, PolicyInit, RecordInit DEF IInv

LEMMA InductiveStep == IInv /\ [Next]_vars => IInv'
  BY TypeStep, PolicyStep, RecordStep DEF IInv

-----------------------------------------------------------------------------
(* The instance of PairedOracle has its own copies of Receipt's operators. *)
LEMMA SameWords ==
  /\ Oracle!Outcomes = Outcomes /\ Oracle!RunnerKinds = RunnerKinds
  /\ Oracle!Texts = Texts /\ Oracle!Verdicts = Verdicts
  /\ \A t : Oracle!Grade(t) = Grade(t)
<1>1. \A t : Oracle!GradeOfFail(t) = GradeOfFail(t)
  BY DEF Oracle!GradeOfFail, GradeOfFail
<1>2. \A t : Oracle!Grade(t) = Grade(t)
  BY <1>1 DEF Oracle!Grade, Grade
<1> QED BY <1>2 DEF Oracle!Outcomes, Outcomes, Oracle!RunnerKinds, RunnerKinds, Oracle!Texts,
             Texts, Oracle!Verdicts, Verdicts

(* A record is graded as the execution it records. *)
LEMMA GradeOfRecord ==
  ASSUME NEW phase, NEW n, NEW run
  PROVE  Grade(Rec(phase, n, run, FALSE)) = Grade(run)
<1> DEFINE p == Rec(phase, n, run, FALSE)
<1>1. p.outcome = run.outcome /\ p.kind = run.kind /\ p.text = run.text
  BY DEF Rec
<1>2. GradeOfFail(p) = GradeOfFail(run)
  BY <1>1 DEF GradeOfFail
<1> QED BY <1>1, <1>2 DEF Grade

(* An execution on record is a trial of the oracle. *)
LEMMA OnRecordIsTried ==
  ASSUME NEW side, NEW n, NEW run \in RunResults, Rec(side, n, run, FALSE) \in phases
  PROVE  Oracle!TriedAs(side, run.outcome, Grade(run))
<1> DEFINE p == Rec(side, n, run, FALSE)
<1>1. p.phase = side /\ p.outcome = run.outcome
  BY DEF Rec
<1>2. Executed(p)
  BY <1>1, RunResultsTyped DEF Executed, Outcomes
<1>3. Oracle!Grade(p) = Grade(run)
  BY GradeOfRecord, SameWords
<1>4. p \in {q \in phases : Executed(q)}
  BY <1>2
<1> QED BY <1>1, <1>3, <1>4 DEF Oracle!TriedAs, Executed

(* The next execution is filed in a place no execution holds yet. *)
LEMMA FiledFresh ==
  ASSUME IInv, pc \in Executing, NEW run, NEW refused
  PROVE  \A s \in Done : /\ Filed(run, refused).phase = s.phase
                         => Filed(run, refused).n # s.n
<1>i. /\ BaseInv /\ HeadInv /\ ControlInv /\ headRuns \in Seq(RunResults)
      /\ healthLeft \in Nat /\ \A p \in Done : p.n \in Nat
  BY HealthAssumption DEF IInv, RecordInv, TypeOK, RecordsOK, PhaseRecord, Done
<1>1. CASE pc = "base"
  BY <1>1, <1>i DEF BaseInv, Done
<1>2. CASE pc = "head"
  <2>1. Filed(run, refused).phase = "head"
    BY <1>2 DEF Filed, Rec
  <2> QED BY <1>2, <1>i, <2>1 DEF ControlInv
<1>3. CASE pc = "rerun"
  <2>1. Filed(run, refused).phase = "head" /\ Filed(run, refused).n = Len(headRuns) + 1
    BY <1>3 DEF Filed, Rec
  <2>2. \A s \in Done : s.phase = "head" => s.n \in DOMAIN headRuns
    BY <1>3, <1>i DEF HeadInv, Undecided, AfterBase
  <2>3. Len(headRuns) + 1 \notin DOMAIN headRuns
    BY <1>i
  <2> QED BY <2>1, <2>2, <2>3
<1>4. CASE pc \in {"health_base", "health_head"}
  <2>1. Filed(run, refused).phase = pc /\ Filed(run, refused).n = healthLeft
    BY <1>4 DEF Filed, Rec
  <2> QED BY <1>4, <1>i, <2>1 DEF ControlInv
<1>5. CASE pc \in {"probe_base", "probe_head"}
  <2>1. Filed(run, refused).phase = pc
    BY <1>5 DEF Filed, Rec
  <2> QED BY <1>5, <1>i, <2>1 DEF ControlInv
<1> QED BY <1>1, <1>2, <1>3, <1>4, <1>5 DEF Executing

(* A guarded execution that returned is one trial of the oracle. *)
LEMMA FilingIsTrying ==
  ASSUME IInv, pc \in Executing, NEW run \in RunResults, NEW refused \in BOOLEAN,
         phases' = phases \cup {Filed(run, refused)}, UNCHANGED <<verdict, Broken>>
  PROVE  Oracle!Next
<1> DEFINE t == Filed(run, refused)
<1>1. verdict = "none"
  BY DEF IInv, PolicyInv, Executing, Undecided, AfterBase
<1>2. Executed(t)
  BY FiledFields, RunResultsTyped DEF Executed, Outcomes
<1>3. Done' = Done \cup {t}
  BY <1>2, DoneGrows
<1>4. \A s \in Done : t.phase = s.phase => t.n # s.n
  BY FiledFresh
<1>5. t \notin Done
  BY <1>4
<1>6. t \in Oracle!Trial
  <2>1. t \in PhaseRecord
    BY FiledTyped DEF IInv
  <2>2. t.phase \in Oracle!Sides
    <3>1. pc = "rerun" => t.phase = "head"
      BY DEF Filed, Rec
    <3>2. pc # "rerun" => t.phase = pc
      BY DEF Filed, Rec
    <3> QED BY <3>1, <3>2 DEF Executing, Oracle!Sides
  <2>3. t.outcome \in Outcomes
    BY FiledFields, RunResultsTyped
  <2> QED BY <2>1, <2>2, <2>3, SameWords DEF PhaseRecord, Oracle!Trial
<1>7. Oracle!Try(t)
  BY <1>1, <1>3, <1>4 DEF Oracle!Try, Done
<1> QED BY <1>3, <1>5, <1>6, <1>7 DEF Oracle!Next, Done

(* The environments stay as they are unless one of their errors is noted.  *)
LEMMA BrokenKept == UNCHANGED <<baseErr, headErr>> => UNCHANGED Broken
  BY DEF Broken

(* When the ladder rules, each revision was tried or could not be built.   *)
LEMMA BothSettled ==
  ASSUME IInv, pc \in {"decide"} \cup InPassToPass
  PROVE  Oracle!Settled
<1>i. BaseInv /\ HeadInv /\ headRuns \in Seq(RunResults)
  BY DEF IInv, RecordInv, TypeOK
<1>1. ASSUME NEW side, NEW n, NEW run \in RunResults, Rec(side, n, run, FALSE) \in phases
      PROVE  \E t \in Done : t.phase = side
  <2> DEFINE p == Rec(side, n, run, FALSE)
  <2>1. p.phase = side /\ p.outcome = run.outcome
    BY DEF Rec
  <2>2. Executed(p)
    BY <2>1, RunResultsTyped DEF Executed, Outcomes
  <2> QED BY <1>1, <2>1, <2>2 DEF Done
<1>2. "base" \in Broken \/ \E t \in Done : t.phase = "base"
  <2>1. CASE baseErr # "none"
    BY <2>1 DEF Broken
  <2>2. CASE baseErr = "none"
    <3>1. baseRun \in RunResults /\ Rec("base", 1, baseRun, FALSE) \in phases
      BY <1>i, <2>2 DEF BaseInv, AfterBase, InPassToPass
    <3> QED BY <1>1, <3>1
  <2> QED BY <2>1, <2>2
<1>3. "head" \in Broken \/ \E t \in Done : t.phase = "head"
  <2>1. CASE headErr # "none"
    BY <2>1 DEF Broken
  <2>2. CASE headErr = "none"
    <3>1. headRuns # <<>>
      BY <1>i, <2>2 DEF HeadInv
    <3>2. 1 \in DOMAIN headRuns /\ headRuns[1] \in RunResults
      BY <1>i, <3>1
    <3>3. Rec("head", 1, headRuns[1], FALSE) \in phases
      BY <1>i, <3>2 DEF HeadInv
    <3> QED BY <1>1, <3>2, <3>3
  <2> QED BY <2>1, <2>2
<1> QED BY <1>2, <1>3 DEF Oracle!Settled, Done

(* A step that files nothing executed is no step of the oracle. *)
LEMMA OracleStutters ==
  ASSUME Done' = Done, UNCHANGED <<verdict, Broken>>
  PROVE  UNCHANGED Oracle!ovars
  BY DEF Oracle!ovars, Done

(* An execution that raises is a trial, or nothing. *)
LEMMA RaisingIsTrying ==
  ASSUME IInv, pc \in Executing, NEW results \in SUBSET RunResults, LeftBy(results),
         UNCHANGED <<verdict, Broken>>
  PROVE  [Oracle!Next]_Oracle!ovars
<1>1. CASE phases' = phases
  BY <1>1, DoneKept, OracleStutters
<1>2. CASE \E run \in results \cup {Unrun} : phases' = phases \cup {Filed(run, FALSE)}
  <2>1. PICK run \in results \cup {Unrun} : phases' = phases \cup {Filed(run, FALSE)}
    BY <1>2
  <2>2. CASE run \in RunResults
    BY <2>1, <2>2, FilingIsTrying
  <2>3. CASE run = Unrun
    <3>1. ~Executed(Filed(Unrun, FALSE))
      BY UnrunUnexecuted
    <3>2. Done' = Done
      BY <2>1, <2>3, <3>1, DoneGrows
    <3> QED BY <3>2, OracleStutters
  <2> QED BY <2>1, <2>2, <2>3
<1> QED BY <1>1, <1>2 DEF LeftBy

(* A passing execution has no failure to grade. *)
LEMMA GradeOfPass ==
  ASSUME NEW run \in RunResults, run.outcome = "PASS"
  PROVE  Grade(run) = "none"
  BY DEF RunResults, Grade

(* Agreement makes every HEAD trial the same, and there are two of them. *)
LEMMA AgreementReproduces ==
  ASSUME IInv, pc \in Undecided, headRuns # <<>>, headRuns[1].outcome = "FAIL", Agreement
  PROVE  Oracle!Reproduced
<1>1. /\ headRuns \in Seq(RunResults) /\ Len(headRuns) = options.reruns
      /\ options.reruns \in Nat /\ options.reruns >= 2
  BY RerunsAssumption DEF IInv, TypeOK, Agreement
<1>2. \A s \in Done : s.phase = "head" =>
        /\ s.n \in DOMAIN headRuns
        /\ s.outcome = headRuns[s.n].outcome /\ s.kind = headRuns[s.n].kind
  BY DEF IInv, RecordInv, HeadInv, Rec
<1>3. \A s, t \in Done : s.phase = "head" /\ t.phase = "head" =>
        s.outcome = t.outcome /\ s.kind = t.kind
  BY <1>2 DEF Agreement
<1> DEFINE first == Rec("head", 1, headRuns[1], FALSE)
           second == Rec("head", 2, headRuns[2], FALSE)
<1>4. 1 \in DOMAIN headRuns /\ 2 \in DOMAIN headRuns
  BY <1>1
<1>5. first \in phases /\ second \in phases
  BY <1>4 DEF IInv, RecordInv, HeadInv
<1>6. /\ first.phase = "head" /\ first.n = 1 /\ first.outcome = headRuns[1].outcome
      /\ second.phase = "head" /\ second.n = 2 /\ second.outcome = headRuns[2].outcome
  BY DEF Rec
<1>7. headRuns[1].outcome # "absent" /\ headRuns[2].outcome # "absent"
  BY <1>1, <1>4, RunResultsTyped DEF Outcomes
<1>8. first \in Done /\ second \in Done
  BY <1>5, <1>6, <1>7 DEF Done, Executed
<1> HIDE DEF first, second
<1>9. \E s, t \in Done : s.phase = "head" /\ t.phase = "head" /\ s.n # t.n
  <2>1. first.n # second.n
    BY <1>6
  <2> QED BY <1>6, <1>8, <2>1
<1>10. Done = {p \in phases : Executed(p)}
  BY DEF Done
<1> QED BY <1>3, <1>9, <1>10 DEF Oracle!Reproduced, Done

(* The ladder rules as the trials justify. *)
LEMMA RulingJustified ==
  ASSUME IInv, pc \in {"p2p_ok", "p2p_bad"} \/ (pc = "decide" /\ ~CandidateReproduction)
  PROVE  Oracle!Justified(Ruling.verdict)
<1>i. /\ BaseInv /\ HeadInv /\ ControlInv /\ headRuns \in Seq(RunResults)
      /\ options.reruns \in Nat /\ options.reruns >= 2
  BY RerunsAssumption DEF IInv, RecordInv, TypeOK
<1>1. CASE EnvFailed
  BY <1>1 DEF Ruling, EnvRuling, Give, Oracle!Justified
<1> DEFINE Tried(side, outcome, grade) == Oracle!TriedAs(side, outcome, grade)
<1>t. ASSUME ~EnvFailed
      PROVE  /\ headRuns # <<>> /\ HeadRun = headRuns[1]
             /\ baseRun \in RunResults /\ HeadRun \in RunResults
             /\ Tried("base", baseRun.outcome, BaseGrade) /\ Tried("head", HeadRun.outcome, HeadGrade)
  <2>1. baseRun \in RunResults /\ Rec("base", 1, baseRun, FALSE) \in phases /\ headRuns # <<>>
    BY <1>i, <1>t DEF BaseInv, HeadInv, AfterBase, InPassToPass, EnvFailed
  <2>2. HeadRun = headRuns[1] /\ HeadRun \in RunResults /\ 1 \in DOMAIN headRuns
    BY <1>i, <2>1 DEF HeadRun
  <2>3. Rec("head", 1, HeadRun, FALSE) \in phases
    BY <1>i, <2>2 DEF HeadInv
  <2> QED BY <2>1, <2>2, <2>3, OnRecordIsTried DEF BaseGrade, HeadGrade
<1>2. CASE ~EnvFailed /\ baseRun.outcome = "PASS"
  <2>1. Ruling.verdict = BasePassedRuling.verdict
    BY <1>2 DEF Ruling
  <2>2. Tried("base", "PASS", "none")
    BY <1>2, <1>t, GradeOfPass DEF BaseGrade
  <2>3. CASE HeadRun.outcome = "FAIL" /\ HeadGrade = "assertion" /\ Agreement
    <3>1. Oracle!Reproduced
      BY <1>2, <1>t, <2>3, AgreementReproduces DEF Undecided, AfterBase
    <3>2. BasePassedRuling.verdict = "proven_catch"
      BY <2>3 DEF BasePassedRuling, Give
    <3> QED BY <1>2, <1>t, <2>1, <2>2, <2>3, <3>1, <3>2 DEF Oracle!Justified
  <2>4. CASE HeadRun.outcome = "FAIL" /\ HeadGrade = "assertion" /\ ~Agreement
    <3>1. BasePassedRuling.verdict = "inconclusive"
      BY <2>4 DEF BasePassedRuling, Give
    <3> QED BY <2>1, <3>1 DEF Oracle!Justified
  <2>5. CASE HeadRun.outcome = "PASS"
    <3>1. BasePassedRuling.verdict = "non_discriminating"
      BY <2>5 DEF BasePassedRuling, Give
    <3>2. Tried("head", "PASS", "none")
      BY <1>2, <1>t, <2>5, GradeOfPass DEF HeadGrade
    <3> QED BY <2>1, <2>2, <3>1, <3>2 DEF Oracle!Justified
  <2>6. CASE HeadRun.outcome # "PASS" /\ ~(HeadRun.outcome = "FAIL" /\ HeadGrade = "assertion")
    <3>1. BasePassedRuling.verdict =
            IF HeadGrade = "collection" THEN "collection_catch" ELSE "inconclusive"
      BY <2>6 DEF BasePassedRuling, Give
    <3>2. HeadGrade = "collection" => \E o \in Oracle!Outcomes : Tried("head", o, "collection")
      BY <1>2, <1>t, RunResultsTyped, SameWords
    <3> QED BY <2>1, <2>2, <3>1, <3>2 DEF Oracle!Justified
  <2> QED BY <2>3, <2>4, <2>5, <2>6
<1>3. CASE ~EnvFailed /\ baseRun.outcome = "FAIL"
  <2>1. Ruling.verdict = BaseFailedRuling.verdict
    BY <1>3 DEF Ruling
  <2>2. CASE HeadRun.outcome = "PASS" /\ BaseGrade = "assertion" /\ pc = "p2p_ok"
    <3>1. BaseFailedRuling.verdict = "reproduction_catch"
      BY <2>2 DEF BaseFailedRuling, Give
    <3>2. Tried("base", "FAIL", "assertion") /\ Tried("head", "PASS", "none")
      BY <1>3, <1>t, <2>2, GradeOfPass DEF HeadGrade
    <3>3. Oracle!ControlsPassed
      BY <1>i, <2>2 DEF ControlInv
    <3> QED BY <2>1, <3>1, <3>2, <3>3 DEF Oracle!Justified
  <2>3. CASE HeadRun.outcome = "FAIL" /\ BaseGrade = "assertion" /\ HeadGrade = "assertion"
    <3>1. BaseFailedRuling.verdict = "refuted"
      BY <2>3 DEF BaseFailedRuling, Give
    <3>2. Tried("base", "FAIL", "assertion") /\ Tried("head", "FAIL", "assertion")
      BY <1>3, <1>t, <2>3
    <3> QED BY <2>1, <3>1, <3>2 DEF Oracle!Justified
  <2>4. CASE /\ ~(HeadRun.outcome = "PASS" /\ BaseGrade = "assertion" /\ pc = "p2p_ok")
             /\ ~(HeadRun.outcome = "FAIL" /\ BaseGrade = "assertion" /\ HeadGrade = "assertion")
    <3>1. BaseFailedRuling.verdict = "inconclusive"
      BY <2>4 DEF BaseFailedRuling, Give
    <3> QED BY <2>1, <3>1 DEF Oracle!Justified
  <2> QED BY <2>2, <2>3, <2>4
<1>4. CASE ~EnvFailed /\ baseRun.outcome \notin {"PASS", "FAIL"}
  BY <1>4 DEF Ruling, Give, Oracle!Justified
<1> QED BY <1>1, <1>2, <1>3, <1>4

(* Each action is a trial, the ruling, or nothing the oracle sees. *)
LEMMA RefinementStep == IInv /\ [Next]_vars => [Oracle!Next]_Oracle!ovars
<1> SUFFICES ASSUME IInv, [Next]_vars PROVE [Oracle!Next]_Oracle!ovars
  OBVIOUS
<1>s. ASSUME UNCHANGED <<phases, verdict, baseErr, headErr>> PROVE [Oracle!Next]_Oracle!ovars
  BY <1>s, BrokenKept, DoneKept, OracleStutters
<1>u. ASSUME NEW p, phases' = phases \cup {p}, ~Executed(p), UNCHANGED <<verdict, baseErr, headErr>>
      PROVE  [Oracle!Next]_Oracle!ovars
  BY <1>u, BrokenKept, DoneGrows, OracleStutters
<1>c. ControlResults \subseteq RunResults
  BY DEF ControlResults
<1>1. CASE UNCHANGED vars
  BY <1>1, <1>s DEF vars
<1>2. CASE Plan
  <2>1. CASE phases' = phases
    BY <1>2, <2>1, <1>s DEF Plan
  <2>2. CASE phases' # phases
    <3>1. phases' = {Rec("plan", 1, Unrun, TRUE)} /\ phases = {} /\ UNCHANGED <<verdict, baseErr, headErr>>
      BY <1>2, <2>2 DEF Plan, IInv, RecordInv, BaseInv
    <3>2. ~Executed(Rec("plan", 1, Unrun, TRUE))
      BY DEF Executed, Rec, Unrun
    <3>3. phases' = phases \cup {Rec("plan", 1, Unrun, TRUE)}
      BY <3>1
    <3> QED BY <3>1, <3>2, <3>3, <1>u
  <2> QED BY <2>1, <2>2
<1>3. CASE RefuseReadiness
  <2>1. ~Executed(Filed(Unrun, TRUE))
    BY UnrunUnexecuted
  <2>2. phases' = phases \cup {Filed(Unrun, TRUE)} /\ UNCHANGED <<verdict, baseErr, headErr>>
    BY <1>3 DEF RefuseReadiness
  <2> QED BY <2>1, <2>2, <1>u
<1>4. CASE RefuseOutput
  BY <1>4, BrokenKept, FilingIsTrying DEF RefuseOutput
<1>5. CASE Rule
  <2>1. Oracle!Justified(Ruling.verdict)
    BY <1>5, RulingJustified DEF Rule
  <2>2. verdict = "none" /\ verdict' = Ruling.verdict /\ UNCHANGED phases
    BY <1>5 DEF Rule, IInv, PolicyInv, Undecided, AfterBase
  <2>3. Done' = Done
    BY <2>2, DoneKept
  <2>4. Ruling.verdict \in Oracle!Verdicts
    BY RulingTyped, SameWords DEF IInv
  <2>5. Oracle!Settled
    BY <1>5, BothSettled DEF Rule, InPassToPass
  <2>6. Broken # {} => Ruling.verdict = "inconclusive"
    BY DEF Broken, Ruling, EnvFailed, EnvRuling, Give
  <2>7. UNCHANGED Broken
    BY <1>5, BrokenKept DEF Rule
  <2>8. Oracle!Rule(Ruling.verdict)
    BY <2>1, <2>2, <2>3, <2>5, <2>6, <2>7 DEF Oracle!Rule, Done
  <2> QED BY <2>4, <2>8 DEF Oracle!Next
<1>6. CASE RunBase
  BY <1>6, BrokenKept, FilingIsTrying DEF RunBase, Executing
<1>7. CASE RunHead
  BY <1>7, BrokenKept, FilingIsTrying DEF RunHead, Executing
<1>8. CASE Rerun
  BY <1>8, BrokenKept, FilingIsTrying DEF Rerun, Executing
<1>9. CASE HealthBase
  BY <1>9, <1>c, BrokenKept, FilingIsTrying DEF HealthBase, Executing
<1>10. CASE HealthHead
  BY <1>10, <1>c, BrokenKept, FilingIsTrying DEF HealthHead, Executing
<1>11. CASE Probe
  BY <1>11, <1>c, BrokenKept, FilingIsTrying DEF Probe, Executing
<1>12. CASE CandidatePhaseRaises
  BY <1>12, BrokenKept, RaisingIsTrying DEF CandidatePhaseRaises, Executing
<1>13. CASE HealthRaises
  BY <1>13, <1>c, BrokenKept, RaisingIsTrying DEF HealthRaises, Executing
<1>14. CASE ProbeRaises
  BY <1>14, <1>c, BrokenKept, RaisingIsTrying DEF ProbeRaises, Executing
<1>15. CASE RefuseInput
  BY <1>15, <1>s DEF RefuseInput
<1>16. CASE RefuseCheckout
  BY <1>16, <1>s DEF RefuseCheckout
<1>17. CASE BaseEnvError
  <2>1. Done = {} /\ Done' = Done /\ verdict = "none" /\ UNCHANGED verdict
    BY <1>17, DoneKept
       DEF BaseEnvError, IInv, PolicyInv, RecordInv, BaseInv, Done, Undecided
  <2>2. Broken' = Broken \cup {"base"}
    BY <1>17 DEF BaseEnvError, Broken, EnvErrors
  <2>3. Oracle!Break("base")
    BY <2>1, <2>2 DEF Oracle!Break, Done
  <2> QED BY <2>3 DEF Oracle!Next
<1>18. CASE HeadEnvError
  <2>1. /\ \A p \in Done : p.phase = "base"
        /\ Done' = Done /\ verdict = "none" /\ UNCHANGED verdict
    BY <1>18, DoneKept
       DEF HeadEnvError, IInv, PolicyInv, RecordInv, ControlInv, Undecided, AfterBase
  <2>2. Broken' = Broken \cup {"head"}
    BY <1>18 DEF HeadEnvError, Broken, EnvErrors
  <2>3. Oracle!Break("head")
    BY <2>1, <2>2 DEF Oracle!Break, Done
  <2> QED BY <2>3 DEF Oracle!Next
<1>19. CASE StartPassToPass
  BY <1>19, <1>s DEF StartPassToPass
<1>20. CASE Seal
  BY <1>20, <1>s DEF Seal
<1>21. CASE Sign
  BY <1>21, <1>s DEF Sign
<1>22. CASE Write
  BY <1>22, <1>s DEF Write
<1>23. CASE ExportFails
  BY <1>23, <1>s DEF ExportFails
<1>24. CASE Return
  BY <1>24, <1>s DEF Return
<1>25. CASE Handle
  BY <1>25, <1>s DEF Handle
<1>26. CASE HandleFails
  BY <1>26, <1>s DEF HandleFails
<1>27. CASE ExportRefusal
  BY <1>27, <1>s DEF ExportRefusal
<1>28. CASE Interrupt
  BY <1>28, <1>s DEF Interrupt
<1>29. CASE Kill
  BY <1>29, <1>s DEF Kill
<1> QED
  BY <1>1, <1>2, <1>3, <1>4, <1>5, <1>6, <1>7, <1>8, <1>9, <1>10, <1>11, <1>12, <1>13,
     <1>14, <1>15, <1>16, <1>17, <1>18, <1>19, <1>20, <1>21, <1>22, <1>23, <1>24, <1>25,
     <1>26, <1>27, <1>28, <1>29
  DEF Next, Step, Refuse, RunCandidate, PassToPass, Publish

LEMMA RefinementInit == Init => Oracle!Init
  BY DEF Init, Oracle!Init, Broken

(* The producer implements the paired oracle: whatever refusals, exceptions,*)
(* reruns and controls interleave, executions are recorded once each and   *)
(* never change, and the one verdict ever given is justified by those      *)
(* recorded before it (verify_test against its verdict ladder's promise).  *)
THEOREM Refinement == Spec => Refines
<1>1. Spec => []IInv
  BY InductiveInit, InductiveStep, PTL DEF Spec
<1> QED BY <1>1, RefinementInit, RefinementStep, PTL DEF Spec, Refines, Oracle!Spec
-----------------------------------------------------------------------------
(* What the census says at each place: nothing before it is sealed, the    *)
(* ruling from there to the return; the receipt is signed with the verdict *)
(* and, where a file was asked for, is the file that is returned.          *)
Open == Undecided \cup {"seal"}
Sealed == {"sign", "write", "return", "returned"}
OpenInv == pc \in Open => census.observed = FALSE /\ artifact = NoReceipt
SealedInv ==
  pc \in Sealed => /\ census.state = "finished" /\ census.candidate = "finished"
                   /\ census.disposition = disposition
ReceiptInv ==
  /\ pc \in {"sign", "write"} => artifact = NoReceipt
  /\ pc \in {"write", "return", "returned"} => signed.verdict = verdict
  /\ pc \in {"return", "returned"} /\ options.output => artifact = signed
CensusInv == OpenInv /\ SealedInv /\ ReceiptInv /\ CensusTruthful

(* Only a return with a proof gives the status 0. *)
LEMMA StatusOfProof ==
  0 \in CommandStatuses => pc = "returned" /\ verdict \in ProvenVerdicts
<1>1. CASE pc = "returned"
  BY <1>1 DEF CommandStatuses, ExitCodeFor
<1>2. CASE pc \in {"refused", "refusal_exported"}
  BY <1>2 DEF CommandStatuses
<1>3. CASE pc \in {"raised", "census_lost"}
  BY <1>3 DEF CommandStatuses
<1>4. CASE pc \notin {"returned", "refused", "refusal_exported", "raised", "census_lost"}
  BY <1>4 DEF CommandStatuses
<1> QED BY <1>1, <1>2, <1>3, <1>4

LEMMA CensusInit == Init => CensusInv
  BY StatusOfProof DEF Init, CensusInv, OpenInv, SealedInv, ReceiptInv, CensusTruthful,
     Undecided, AfterBase, Open, Sealed

(* Each action keeps CensusInv: those before the seal leave the census     *)
(* alone, those that begin to unwind leave behind what is already true,    *)
(* and the handler rewrites it.                                            *)
LEMMA CensusStep == CensusInv /\ [Next]_vars => CensusInv'
<1> SUFFICES ASSUME CensusInv, [Next]_vars PROVE CensusInv'
  OBVIOUS
<1>0. (0 \in CommandStatuses => pc = "returned" /\ verdict \in ProvenVerdicts)'
  BY StatusOfProof, PTL
<1>a. ASSUME pc \in Open, UNCHANGED <<artifact, census>>, pc' \in Open
      PROVE  CensusInv'
  BY <1>0, <1>a DEF CensusInv, OpenInv, SealedInv, ReceiptInv, CensusTruthful,
     Undecided, AfterBase, Open, Sealed
<1>b. ASSUME UNCHANGED <<artifact, census>>, pc' \in {"except", "census_lost", "killed"},
             pc \in Open \/ UNCHANGED phases
      PROVE  CensusInv'
  <2>1. OpenInv' /\ SealedInv' /\ ReceiptInv'
    BY <1>b DEF OpenInv, SealedInv, ReceiptInv, Undecided, AfterBase, Open, Sealed
  <2>2. census'.observed => \E p \in phases' : Executed(p)
    BY <1>b DEF CensusInv, OpenInv, CensusTruthful
  <2> QED BY <1>0, <1>b, <2>1, <2>2 DEF CensusInv, CensusTruthful
<1>1. CASE UNCHANGED vars
  BY <1>0, <1>1 DEF vars, CensusInv, OpenInv, SealedInv, ReceiptInv, CensusTruthful
<1>2. CASE RefuseInput
  BY <1>2, <1>b DEF RefuseInput, Open, Undecided
<1>3. CASE Plan
  <2>1. CASE pc' = "except"
    BY <1>3, <2>1, <1>b DEF Plan, Open, Undecided
  <2>2. CASE pc' # "except"
    BY <1>3, <2>2, <1>a DEF Plan, Open, Undecided
  <2> QED BY <2>1, <2>2
<1>4. CASE RefuseCheckout
  BY <1>4, <1>b DEF RefuseCheckout, Open, Undecided, AfterBase
<1>5. CASE RefuseReadiness
  BY <1>5, <1>b DEF RefuseReadiness, Executing, Open, Undecided, AfterBase
<1>6. CASE RefuseOutput
  BY <1>6, <1>b DEF RefuseOutput, Executing, Open, Undecided, AfterBase
<1>7. CASE CandidatePhaseRaises
  BY <1>7, <1>b DEF CandidatePhaseRaises, Open, Undecided, AfterBase
<1>8. CASE RunBase \/ RunHead \/ Rerun
  BY <1>8, <1>a DEF RunBase, RunHead, Rerun, Open, Undecided, AfterBase
<1>9. CASE BaseEnvError \/ HeadEnvError \/ StartPassToPass
  BY <1>9, <1>a DEF BaseEnvError, HeadEnvError, StartPassToPass, Open, Undecided, AfterBase
<1>10. CASE HealthBase \/ HealthHead \/ HealthRaises
  BY <1>10, <1>a DEF HealthBase, HealthHead, HealthRaises, Open, Undecided, AfterBase
<1>11. CASE Probe \/ ProbeRaises
  BY <1>11, <1>a DEF Probe, ProbeRaises, Open, Undecided, AfterBase
<1>12. CASE Rule
  BY <1>12, <1>a DEF Rule, Open, Undecided, AfterBase
<1>13. CASE Seal
  <2>1. OpenInv' /\ SealedInv' /\ ReceiptInv'
    BY <1>13 DEF Seal, CensusInv, OpenInv, SealedInv, ReceiptInv, Undecided, AfterBase, Open, Sealed
  <2>2. CensusTruthful'
    BY <1>0, <1>13 DEF Seal, CensusInv, OpenInv, CensusTruthful, Open
  <2> QED BY <2>1, <2>2 DEF CensusInv
<1>14. CASE Sign
  <2>1. signed'.verdict = verdict'
    BY <1>14 DEF Sign, Evidence
  <2>2. OpenInv' /\ SealedInv' /\ ReceiptInv'
    <3>1. pc' = IF options.output THEN "write" ELSE "return"
      BY <1>14 DEF Sign
    <3>2. artifact' = NoReceipt /\ options' = options
      BY <1>14 DEF Sign, CensusInv, ReceiptInv
    <3>3. SealedInv'
      BY <1>14 DEF Sign, CensusInv, SealedInv, Sealed
    <3> QED BY <2>1, <3>1, <3>2, <3>3 DEF OpenInv, ReceiptInv, Open, Undecided, AfterBase
  <2>3. CensusTruthful'
    BY <1>0, <1>14 DEF Sign, CensusInv, ReceiptInv, CensusTruthful
  <2> QED BY <2>2, <2>3 DEF CensusInv
<1>15. CASE Write
  <2>1. OpenInv' /\ SealedInv' /\ ReceiptInv'
    BY <1>15 DEF Write, CensusInv, OpenInv, SealedInv, ReceiptInv, Undecided, AfterBase, Open, Sealed
  <2>2. CensusTruthful'
    BY <1>0, <1>15 DEF Write, CensusInv, SealedInv, CensusTruthful, Sealed
  <2> QED BY <2>1, <2>2 DEF CensusInv
<1>16. CASE ExportFails
  BY <1>16, <1>b DEF ExportFails
<1>17. CASE Return
  <2>1. OpenInv' /\ SealedInv' /\ ReceiptInv'
    BY <1>17 DEF Return, CensusInv, OpenInv, SealedInv, ReceiptInv, Undecided, AfterBase, Open, Sealed
  <2>2. CensusTruthful'
    BY <1>0, <1>17, <2>1 DEF Return, CensusInv, SealedInv, ReceiptInv, CensusTruthful, Sealed
  <2> QED BY <2>1, <2>2 DEF CensusInv
<1>18. CASE Handle
  <2>1. OpenInv' /\ SealedInv' /\ ReceiptInv'
    BY <1>18 DEF Handle, OpenInv, SealedInv, ReceiptInv, Undecided, AfterBase, Open, Sealed
  <2>2. CensusTruthful'
    BY <1>0, <1>18 DEF Handle, CensusInv, CensusTruthful
  <2> QED BY <2>1, <2>2 DEF CensusInv
<1>19. CASE HandleFails
  BY <1>19, <1>b DEF HandleFails
<1>20. CASE ExportRefusal
  <2>1. OpenInv' /\ SealedInv' /\ ReceiptInv'
    BY <1>20 DEF ExportRefusal, OpenInv, SealedInv, ReceiptInv, Undecided, AfterBase, Open, Sealed
  <2>2. artifact'.refused = TRUE
    BY <1>20 DEF ExportRefusal, RefusalEvidence
  <2>3. CensusTruthful'
    BY <1>0, <1>20, <2>2 DEF ExportRefusal, CensusInv, CensusTruthful
  <2> QED BY <2>1, <2>3 DEF CensusInv
<1>21. CASE Interrupt
  BY <1>21, <1>b DEF Interrupt
<1>22. CASE Kill
  BY <1>22, <1>b DEF Kill
<1> QED
  BY <1>1, <1>2, <1>3, <1>4, <1>5, <1>6, <1>7, <1>8, <1>9, <1>10, <1>11, <1>12, <1>13,
     <1>14, <1>15, <1>16, <1>17, <1>18, <1>19, <1>20, <1>21, <1>22
  DEF Next, Step, Refuse, RunCandidate, PassToPass, Publish

(* For every bound and policy, and whatever raises, interrupts or kills    *)
(* the invocation: what the handler leaves never passes for a finished     *)
(* census, what returned is recorded as it was ruled, and the status 0 has *)
(* a proof, its census and its file behind it (verify_test, _cmd_verify).  *)
THEOREM CensusNeverOverstates == Spec => []CensusTruthful
<1>1. CensusInv => CensusTruthful
  BY DEF CensusInv
<1> QED BY <1>1, CensusInit, CensusStep, PTL DEF Spec
-----------------------------------------------------------------------------
(* What a ruling would be signed as, from the ladder to the signature, is   *)
(* already acceptable; no head record without an outcome survives into it,  *)
(* since only an unwinding leaves one.                                      *)
Agrees(ev) == Accepted(ev) \/ KnownGap(ev)
HeadsExecuted == pc \in Undecided => \A p \in HeadRecords(phases) : Executed(p)
AgreeInv ==
  HeadsExecuted /\ (pc \in {"seal", "sign"} => Agrees(Evidence)) /\ ConsumerAgrees

(* A failure is graded by its words, by the runner or as an error. *)
LEMMA GradeOfFailure ==
  ASSUME NEW run \in RunResults, run.outcome = "FAIL"
  PROVE  Grade(run) \in {"collection", "assertion", "error"}
<1>1. run.text # "env"
  BY DEF RunResults, Texts
<1> QED BY <1>1 DEF Grade, GradeOfFail

(* What the ladder says of a verdict; the consumer asks for the same.       *)
LEMMA RulingFits ==
  ASSUME IInv, pc \in {"p2p_ok", "p2p_bad"} \/ (pc = "decide" /\ ~CandidateReproduction)
  PROVE  LET v == Ruling.verdict IN
         /\ v = "proven_catch" =>
              /\ headRuns # <<>> /\ Agreement /\ baseRun.outcome = "PASS"
              /\ HeadRun.outcome = "FAIL" /\ HeadGrade = "assertion"
         /\ v = "reproduction_catch" =>
              /\ Agreement /\ baseRun.outcome = "FAIL" /\ BaseGrade = "assertion"
              /\ HeadRun.outcome = "PASS"
         /\ v = "collection_catch" => baseRun.outcome = "PASS" /\ HeadGrade = "collection"
         /\ v = "refuted" => baseRun.outcome = "FAIL" /\ HeadRun.outcome = "FAIL"
         /\ v = "non_discriminating" => baseRun.outcome = "PASS" /\ HeadRun.outcome = "PASS"
         /\ v \notin {"proven_catch", "reproduction_catch", "collection_catch", "refuted",
                      "non_discriminating"} =>
              \/ HeadRun.outcome \in {"ERROR", "TIMEOUT", "NOTRUN"}
              \/ HeadGrade \in {"error", "timeout"}
              \/ ~Agreement
              \/ Ruling.disposition \in {"env_setup_failed", "env_build_timeout", "head_flaky",
                   "base_reproduction_failed", "base_uncollectable", "head_failed_base_failed_latent"}
<1>0. /\ baseErr \in EnvErrors \cup {"none"} /\ headErr \in EnvErrors \cup {"none"}
      /\ headRuns \in Seq(RunResults) /\ BaseInv /\ HeadInv
  BY DEF IInv, TypeOK, RecordInv
<1>t. ASSUME ~EnvFailed
      PROVE  headRuns # <<>> /\ HeadRun = headRuns[1] /\ HeadRun \in RunResults
  BY <1>0, <1>t DEF HeadInv, InPassToPass, EnvFailed, HeadRun
<1>p. HeadRun.outcome = "PASS" /\ ~EnvFailed => Agreement
  BY <1>t DEF Agreement
<1>1. CASE EnvFailed
  <2>1. Ruling = EnvRuling
    BY <1>1 DEF Ruling
  <2>2. EnvRuling.verdict = "inconclusive" /\ EnvRuling.disposition \in EnvErrors
    BY <1>0, <1>1 DEF EnvRuling, Give, EnvFailed
  <2> QED BY <2>1, <2>2 DEF EnvErrors
<1>2. CASE ~EnvFailed /\ baseRun.outcome = "PASS"
  <2>1. Ruling = BasePassedRuling
    BY <1>2 DEF Ruling
  <2>2. CASE HeadRun.outcome = "FAIL" /\ HeadGrade = "assertion"
    <3>1. BasePassedRuling = IF Agreement THEN Give("proven_catch", "catching")
                             ELSE Give("inconclusive", "head_flaky")
      BY <2>2 DEF BasePassedRuling
    <3> QED BY <1>2, <1>t, <2>1, <2>2, <3>1 DEF Give
  <2>3. CASE HeadRun.outcome = "PASS"
    <3>1. BasePassedRuling = Give("non_discriminating", "head_passed")
      BY <2>3 DEF BasePassedRuling
    <3> QED BY <1>2, <2>1, <2>3, <3>1 DEF Give
  <2>4. CASE HeadRun.outcome # "PASS" /\ ~(HeadRun.outcome = "FAIL" /\ HeadGrade = "assertion")
    <3>1. BasePassedRuling =
            Give(IF HeadGrade = "collection" THEN "collection_catch" ELSE "inconclusive",
                 "head_uncollectable_base_passed")
      BY <2>4 DEF BasePassedRuling
    <3>2. HeadGrade # "collection" =>
            HeadRun.outcome \in {"ERROR", "TIMEOUT", "NOTRUN"} \/ HeadGrade = "error"
      BY <1>2, <1>t, <2>4, GradeOfFailure, RunResultsTyped DEF Outcomes, HeadGrade
    <3> QED BY <1>2, <2>1, <3>1, <3>2 DEF Give
  <2> QED BY <2>2, <2>3, <2>4
<1>3. CASE ~EnvFailed /\ baseRun.outcome = "FAIL"
  <2>1. Ruling = BaseFailedRuling
    BY <1>3 DEF Ruling
  <2>2. CASE HeadRun.outcome = "PASS"
    <3>1. BaseFailedRuling = IF BaseGrade # "assertion" THEN Give("inconclusive", "base_uncollectable")
                             ELSE IF pc = "p2p_ok" THEN Give("reproduction_catch", "reproduction_catch")
                             ELSE Give("inconclusive", "base_reproduction_failed")
      BY <2>2 DEF BaseFailedRuling
    <3> QED BY <1>3, <1>p, <2>1, <2>2, <3>1 DEF Give
  <2>3. CASE HeadRun.outcome = "FAIL"
    <3>1. BaseFailedRuling =
            Give(IF BaseGrade = "assertion" /\ HeadGrade = "assertion"
                   THEN "refuted" ELSE "inconclusive", "head_failed_base_failed_latent")
      BY <2>3 DEF BaseFailedRuling
    <3> QED BY <1>3, <2>1, <2>3, <3>1 DEF Give
  <2>4. CASE HeadRun.outcome \notin {"PASS", "FAIL"}
    <3>1. BaseFailedRuling = Give("inconclusive", "base_reproduction_failed")
      BY <2>4 DEF BaseFailedRuling
    <3> QED BY <2>1, <3>1 DEF Give
  <2> QED BY <2>2, <2>3, <2>4
<1>4. CASE ~EnvFailed /\ baseRun.outcome \notin {"PASS", "FAIL"}
  <2>1. Ruling = Give("inconclusive", "base_uncollectable")
    BY <1>4 DEF Ruling
  <2> QED BY <2>1 DEF Give
<1> QED BY <1>1, <1>2, <1>3, <1>4

(* The records of a proof: two of them, each the record of an execution     *)
(* that failed like the first.                                              *)
LEMMA ProofRecords ==
  ASSUME IInv, HeadsExecuted, pc \in Undecided,
         headRuns # <<>>, headRuns[1].outcome = "FAIL", Agreement
  PROVE  \/ HeadRecordsProve(phases)
         \/ \E p \in HeadRecords(phases) : p.kind # "assertion"
<1>1. /\ headRuns \in Seq(RunResults) /\ Len(headRuns) = options.reruns
      /\ options.reruns \in Nat /\ options.reruns >= 2
  BY RerunsAssumption DEF IInv, TypeOK, Agreement
<1>2. \A p \in HeadRecords(phases) :
        /\ p.n \in DOMAIN headRuns /\ p = Rec("head", p.n, headRuns[p.n], FALSE)
        /\ p.outcome = headRuns[p.n].outcome
  <2> TAKE p \in HeadRecords(phases)
  <2>1. p \in Done /\ p.phase = "head"
    BY DEF HeadsExecuted, HeadRecords, Done
  <2> QED BY <2>1 DEF IInv, RecordInv, HeadInv, Rec
<1>3. \A p \in HeadRecords(phases) : p.outcome = "FAIL"
  BY <1>2 DEF Agreement
<1>4. \A p, q \in HeadRecords(phases) : p.n = q.n => p = q
  BY <1>2
<1> DEFINE first == Rec("head", 1, headRuns[1], FALSE)
           second == Rec("head", 2, headRuns[2], FALSE)
<1>5. 1 \in DOMAIN headRuns /\ 2 \in DOMAIN headRuns
  BY <1>1
<1>6. first \in phases /\ second \in phases
  BY <1>5 DEF IInv, RecordInv, HeadInv
<1>7. first.phase = "head" /\ first.n = 1 /\ second.phase = "head" /\ second.n = 2
  BY DEF Rec
<1> HIDE DEF first, second
<1>8. {1, 2} \subseteq {p.n : p \in HeadRecords(phases)}
  <2>1. first \in HeadRecords(phases) /\ second \in HeadRecords(phases)
    BY <1>6, <1>7 DEF HeadRecords
  <2> QED BY <1>7, <2>1
<1> QED BY <1>3, <1>4, <1>8 DEF HeadRecordsProve

(* The ladder's ruling is one the consumer accepts, or one of the two gaps. *)
LEMMA RulingAgrees ==
  ASSUME IInv, ConfinedInv, HeadsExecuted, Rule
  PROVE  Agrees(Evidence)'
<1>0. /\ pc \in {"p2p_ok", "p2p_bad"} \/ (pc = "decide" /\ ~CandidateReproduction)
      /\ pc \in Undecided /\ pc \notin {"plan"} \cup Unwinding
      /\ verdict' = Ruling.verdict /\ disposition' = Ruling.disposition
      /\ UNCHANGED <<options, backend, baseRun, headRuns, phases>>
  BY DEF Rule, Undecided, AfterBase, Unwinding, Ended
<1> DEFINE v == Ruling.verdict
           agreed == Agreement
           ev == [verdict |-> v, disposition |-> Ruling.disposition, refused |-> FALSE,
                  proven |-> v \in ProvenVerdicts, agreement |-> agreed,
                  base |-> Side(baseRun), head |-> Side(HeadRun), phases |-> phases,
                  mode |-> options.mode, backend |-> backend, exit |-> ExitCodeFor(v)]
<1>1. Evidence' = ev
  BY <1>0 DEF Evidence, Agreement, HeadRun, ExitCodeFor
<1>2. /\ ev.verdict = v /\ ev.disposition = Ruling.disposition /\ ~ev.refused
      /\ ev.agreement = agreed /\ ev.proven = (v \in ProvenVerdicts)
      /\ ev.base.outcome = baseRun.outcome /\ ev.base.grade = BaseGrade
      /\ ev.head.outcome = HeadRun.outcome /\ ev.head.grade = HeadGrade
      /\ ev.phases = phases /\ ev.mode = options.mode /\ ev.backend = backend
  BY DEF Side, BaseGrade, HeadGrade
<1> HIDE DEF ev
<1>3. ~(ev.backend = "none" /\ ev.mode = "required")
  BY <1>0, <1>2 DEF ConfinedInv
<1>4. v = "proven_catch" => agreed /\ (HeadRecordsProve(phases) \/ KnownGap(ev))
  <2> SUFFICES ASSUME v = "proven_catch"
               PROVE  agreed /\ (HeadRecordsProve(phases) \/ KnownGap(ev))
    OBVIOUS
  <2>1. headRuns # <<>> /\ Agreement /\ HeadRun.outcome = "FAIL"
    BY <1>0, RulingFits
  <2>2. headRuns[1].outcome = "FAIL"
    BY <2>1 DEF HeadRun
  <2>3. HeadRecordsProve(phases) \/ \E p \in HeadRecords(phases) : p.kind # "assertion"
    BY <1>0, <2>1, <2>2, ProofRecords
  <2> QED BY <1>2, <2>1, <2>3 DEF KnownGap
<1>5. ~agreed => v \notin {"proven_catch", "reproduction_catch"}
  BY <1>0, RulingFits
<1>6. OutcomesFit(ev)
  BY <1>0, <1>2, RulingFits DEF OutcomesFit
<1>7. Agrees(ev)
  BY <1>2, <1>3, <1>4, <1>5, <1>6 DEF Agrees, Accepted, ValidSchema, ValidSemantics, KnownGap
<1>8. Agrees(Evidence)' = Agrees(ev)
  BY <1>1 DEF Agrees, Accepted, ValidSchema, ValidSemantics, OutcomesFit, KnownGap,
     UnexecutedRefusal, HeadRecordsProve, HeadRecords
<1> QED BY <1>7, <1>8

(* So is the receipt made of a refusal: what was required and missing has   *)
(* executed nothing.                                                        *)
LEMMA RefusalAgrees ==
  ASSUME TypeOK, RequiredNeverUnconfined
  PROVE  Accepted(RefusalEvidence)
<1> DEFINE ev == RefusalEvidence
<1>1. /\ ev.verdict = "inconclusive" /\ ev.refused /\ ev.proven = FALSE /\ ev.agreement
      /\ ev.base.outcome = "NOTRUN" /\ ev.head.outcome = "NOTRUN"
      /\ ev.phases = RefusalPhaseHistory /\ ev.mode = options.mode /\ ev.backend = backend
  BY DEF RefusalEvidence
<1>2. ASSUME options.mode = "required", backend = "none", NEW p \in RefusalPhaseHistory
      PROVE  p.outcome = "absent"
  <2>1. PICK q \in phases : p = [q EXCEPT !.kind = "none", !.text = "plain"]
    BY DEF RefusalPhaseHistory
  <2>2. q \in PhaseRecord
    BY DEF TypeOK, RecordsOK
  <2>3. p.outcome = q.outcome
    BY <2>1, <2>2 DEF PhaseRecord
  <2>4. q.outcome = "absent"
    BY <1>2 DEF RequiredNeverUnconfined, Executed
  <2> QED BY <2>3, <2>4
<1> HIDE DEF ev
<1>3. ev.backend = "none" /\ ev.mode = "required" => UnexecutedRefusal(ev)
  BY <1>1, <1>2 DEF UnexecutedRefusal
<1>4. OutcomesFit(ev)
  BY <1>1 DEF OutcomesFit
<1>5. ValidSchema(ev)
  <2>1. (ev.verdict \in ProvenVerdicts) = FALSE
    BY <1>1 DEF ProvenVerdicts
  <2> QED BY <1>1, <2>1, Zenon DEF ValidSchema
<1>6. ValidSemantics(ev)
  <2>1. ev.verdict \notin {"proven_catch", "reproduction_catch", "collection_catch"}
    BY <1>1
  <2>2. ~ev.proven
    BY <1>1, Zenon
  <2> QED BY <1>1, <1>3, <1>4, <2>1, <2>2, Zenon DEF ValidSemantics
<1> QED BY <1>5, <1>6 DEF ev, Accepted

(* A receipt is what it was, the would-be one too, when nothing it tells of *)
(* changes.                                                                *)
LEMMA EvidenceKept ==
  ASSUME UNCHANGED <<options, backend, baseRun, headRuns, phases, verdict, disposition>>
  PROVE  Evidence' = Evidence /\ (Agrees(Evidence) => Agrees(Evidence)')
<1>1. Evidence' = Evidence
  BY DEF Evidence, Agreement, HeadRun, Side, ExitCodeFor
<1> QED BY <1>1 DEF Agrees, Accepted, ValidSchema, ValidSemantics, OutcomesFit, KnownGap,
             UnexecutedRefusal, HeadRecordsProve, HeadRecords

LEMMA ReceiptsKept ==
  ASSUME ConsumerAgrees, \A ev \in {signed', artifact'} : ev \in {signed, artifact} \/ Agrees(ev)
  PROVE  ConsumerAgrees'
  BY DEF ConsumerAgrees, Agrees, NoReceipt

LEMMA AgreeStep ==
  IInv /\ ConfinedInv /\ AgreeInv /\ [Next]_vars => AgreeInv'
<1> SUFFICES ASSUME IInv, ConfinedInv, AgreeInv, [Next]_vars PROVE AgreeInv'
  OBVIOUS
<1>0. HeadsExecuted /\ ConsumerAgrees
  BY DEF AgreeInv
<1>f. \A run, refused : /\ Filed(run, refused).outcome = run.outcome
                        /\ pc \in Executing \ {"head", "rerun"} => Filed(run, refused).phase # "head"
  BY DEF Filed, Rec, Executing
<1>a. ASSUME pc \in Undecided, UNCHANGED <<signed, artifact>>, pc' \notin {"seal", "sign"},
             \/ pc' \in Unwinding
             \/ phases' = phases
             \/ \E p : phases' = phases \cup {p} /\ (p.phase # "head" \/ Executed(p))
      PROVE  AgreeInv'
  <2>1. ConsumerAgrees'
    BY <1>0, <1>a, ReceiptsKept
  <2>2. HeadsExecuted'
    BY <1>0, <1>a DEF HeadsExecuted, HeadRecords, Executed, Undecided, AfterBase, Unwinding, Ended
  <2> QED BY <1>a, <2>1, <2>2 DEF AgreeInv
<1>b. ASSUME UNCHANGED <<signed, artifact>>, pc' \in Unwinding
      PROVE  AgreeInv'
  <2>1. ConsumerAgrees'
    BY <1>0, <1>b, ReceiptsKept
  <2>2. HeadsExecuted' /\ pc' \notin {"seal", "sign"}
    BY <1>b DEF HeadsExecuted, Undecided, AfterBase, Unwinding, Ended
  <2> QED BY <2>1, <2>2 DEF AgreeInv
<1>1. CASE UNCHANGED vars
  <2>1. ConsumerAgrees'
    BY <1>0, <1>1, ReceiptsKept DEF vars
  <2>2. HeadsExecuted'
    BY <1>0, <1>1 DEF vars, HeadsExecuted, HeadRecords, Executed
  <2>3. pc' \in {"seal", "sign"} => Agrees(Evidence)'
    BY <1>1, EvidenceKept DEF vars, AgreeInv
  <2> QED BY <2>1, <2>2, <2>3 DEF AgreeInv
<1>2. CASE RefuseInput \/ Refuse \/ CandidatePhaseRaises \/ ExportFails \/ Interrupt \/ Kill
           \/ Handle \/ HandleFails
  <2>1. pc' \in Unwinding /\ UNCHANGED <<signed, artifact>>
    BY <1>2 DEF RefuseInput, Refuse, RefuseCheckout, RefuseReadiness, RefuseOutput, CandidatePhaseRaises,
       ExportFails, Interrupt, Kill, Handle, HandleFails, Unwinding, Ended
  <2> QED BY <1>b, <2>1
<1>3. CASE Plan
  BY <1>3, <1>a DEF Plan, Undecided, Unwinding
<1>4. CASE BaseEnvError \/ HeadEnvError \/ StartPassToPass
  BY <1>4, <1>a DEF BaseEnvError, HeadEnvError, StartPassToPass, Undecided, AfterBase
<1>x. \A run \in RunResults : run.outcome # "absent"
  BY RunResultsTyped DEF Outcomes
<1>5. CASE RunBase \/ RunHead \/ Rerun
  <2>1. \E run \in RunResults : phases' = phases \cup {Filed(run, FALSE)}
    BY <1>5 DEF RunBase, RunHead, Rerun
  <2>2. \E p : phases' = phases \cup {p} /\ Executed(p)
    BY <1>f, <1>x, <2>1 DEF Executed
  <2>3. pc \in Undecided /\ pc' \notin {"seal", "sign"} /\ UNCHANGED <<signed, artifact>>
    BY <1>5 DEF RunBase, RunHead, Rerun, Undecided, AfterBase
  <2> QED BY <1>a, <2>2, <2>3
<1>6. CASE HealthBase \/ HealthHead \/ HealthRaises \/ Probe \/ ProbeRaises
  <2>1. phases' = phases \/ \E run : phases' = phases \cup {Filed(run, FALSE)}
    BY <1>6 DEF HealthBase, HealthHead, HealthRaises, Probe, ProbeRaises, LeftBy
  <2>2. /\ pc \in Undecided /\ pc \in Executing \ {"head", "rerun"}
        /\ pc' \notin {"seal", "sign"} /\ UNCHANGED <<signed, artifact>>
    BY <1>6 DEF HealthBase, HealthHead, HealthRaises, Probe, ProbeRaises, Undecided, AfterBase, Executing
  <2> QED BY <1>a, <1>f, <2>1, <2>2
<1>7. CASE Rule
  <2>1. Agrees(Evidence)'
    BY <1>0, <1>7, RulingAgrees
  <2>2. ConsumerAgrees'
    BY <1>0, <1>7, ReceiptsKept DEF Rule
  <2>3. HeadsExecuted'
    BY <1>7 DEF Rule, HeadsExecuted, Undecided, AfterBase
  <2> QED BY <2>1, <2>2, <2>3 DEF AgreeInv
<1>8. CASE Seal
  <2>1. Agrees(Evidence)'
    BY <1>8, EvidenceKept DEF Seal, AgreeInv
  <2>2. ConsumerAgrees'
    BY <1>0, <1>8, ReceiptsKept DEF Seal
  <2>3. HeadsExecuted'
    BY <1>8 DEF Seal, HeadsExecuted, Undecided, AfterBase
  <2> QED BY <2>1, <2>2, <2>3 DEF AgreeInv
<1>9. CASE Sign
  <2>1. Agrees(signed')
    <3>1. signed' = Evidence /\ Agrees(Evidence)
      BY <1>9 DEF Sign, AgreeInv
    <3> QED BY <3>1
  <2>2. ConsumerAgrees'
    BY <1>0, <1>9, <2>1, ReceiptsKept DEF Sign
  <2>3. HeadsExecuted' /\ pc' \notin {"seal", "sign"}
    BY <1>9 DEF Sign, HeadsExecuted, Undecided, AfterBase
  <2> QED BY <2>2, <2>3 DEF AgreeInv
<1>10. CASE Write \/ Return
  <2>1. ConsumerAgrees'
    BY <1>0, <1>10, ReceiptsKept DEF Write, Return
  <2>2. HeadsExecuted' /\ pc' \notin {"seal", "sign"}
    BY <1>10 DEF Write, Return, HeadsExecuted, Undecided, AfterBase
  <2> QED BY <2>1, <2>2 DEF AgreeInv
<1>11. CASE ExportRefusal
  <2>1. Agrees(artifact')
    <3>1. Accepted(RefusalEvidence)
      BY RefusalAgrees DEF IInv, ConfinedInv
    <3> QED BY <1>11, <3>1 DEF ExportRefusal, Agrees
  <2>2. ConsumerAgrees'
    BY <1>0, <1>11, <2>1, ReceiptsKept DEF ExportRefusal
  <2>3. HeadsExecuted' /\ pc' \notin {"seal", "sign"}
    BY <1>11 DEF ExportRefusal, HeadsExecuted, Undecided, AfterBase
  <2> QED BY <2>2, <2>3 DEF AgreeInv
<1> QED
  BY <1>1, <1>2, <1>3, <1>4, <1>5, <1>6, <1>7, <1>8, <1>9, <1>10, <1>11
  DEF Next, Step, RunCandidate, PassToPass, Publish

(* For every bound on reruns and controls, every mode and policy: outside   *)
(* the two known gaps, whatever verify_test signs, and whatever refusal     *)
(* receipt is made from its exception, its own consumer accepts             *)
(* (validate_schema, validate_semantics).                                   *)
THEOREM ProducerAndConsumerAgree == Spec => []ConsumerAgrees
<1>1. Init => AgreeInv
  BY DEF Init, AgreeInv, HeadsExecuted, HeadRecords, ConsumerAgrees, NoReceipt
<1>2. AgreeInv => ConsumerAgrees
  BY DEF AgreeInv
<1> QED BY <1>1, <1>2, InductiveInit, InductiveStep, ConfinedInit, ConfinedStep, AgreeStep, PTL DEF Spec

-----------------------------------------------------------------------------
(* The guarded phase seen from inside: module Guards.                      *)

LEMMA FirstIsThere ==
  ASSUME NEW lines \in SUBSET Nat, lines # {}
  PROVE  First(lines) \in lines /\ \A j \in lines : First(lines) <= j
<1>1. PICK x \in lines : \A y \in lines : ~(<<y, x>> \in OpToRel(<, Nat))  BY WFMin, NatLessThanWellFounded
<1>2. \A y \in lines : ~(y < x)  BY <1>1, Zenon DEF OpToRel
<1>3. \E z \in lines : \A y \in lines : z <= y  BY <1>2
<1>. QED  BY <1>3 DEF First

LEMMA LatestIsThere ==
  ASSUME NEW n \in Nat, NEW lines \in SUBSET (1..n), lines # {}
  PROVE  Latest(lines) \in lines /\ \A j \in lines : j <= Latest(lines)
<1>. DEFINE back == {n - i : i \in lines}
<1>0. \A i \in lines : i \in 1..n /\ n - i \in Nat
  <2>1. \A i \in 1..n : n - i \in Nat  OBVIOUS
  <2>. QED  BY <2>1
<1>1. back \in SUBSET Nat /\ back # {}  BY <1>0
<1>. HIDE DEF back
<1>2. PICK x \in back : \A y \in back : x <= y  BY <1>1, FirstIsThere
<1>. USE DEF back
<1>3. PICK i \in lines : x = n - i  BY <1>2
<1>4. \A j \in lines : n - i <= n - j  BY <1>2, <1>3
<1>5. \A j \in lines : j <= i  BY <1>0, <1>4
<1>. QED  BY <1>5 DEF Latest

(* Tuples of one width are ordered as the releases they stand for.         *)
LEMMA PartsAreNumbers ==
  ASSUME NEW v \in Seq(Nat), NEW w \in Seq(Nat)
  PROVE  /\ Len(v) \in Nat /\ Wider(v, w) \in Nat /\ Wider(w, v) = Wider(v, w)
         /\ \A i \in Nat \ {0} : Part(v, i) \in Nat
BY DEF Part, Wider

LEMMA PaddedOrder ==
  ASSUME NEW v \in Seq(Nat), NEW w \in Seq(Nat), NEW width \in Nat, width = Wider(v, w)
  PROVE  /\ Pad(v, width) = Pad(w, width) <=> Differ(v, w) = {}
         /\ TupleLess(Pad(v, width), Pad(w, width)) <=> Below(v, w)
<1>. DEFINE p == Pad(v, width)
            q == Pad(w, width)
<1>1. /\ DOMAIN p = 1..width /\ DOMAIN q = 1..width
      /\ \A i \in 1..width : p[i] = Part(v, i) /\ q[i] = Part(w, i)
  BY DEF Pad
<1>2. p = q <=> \A i \in 1..width : Part(v, i) = Part(w, i)
  BY DEF Pad
<1>3. Differ(v, w) = {i \in 1..width : Part(v, i) # Part(w, i)}  BY DEF Differ
<1>4. \A i \in 1..width : Part(v, i) \in Nat /\ Part(w, i) \in Nat  BY PartsAreNumbers
<1>. HIDE DEF p, q
<1>5. ASSUME TupleLess(p, q) PROVE Below(v, w)
  <2>1. PICK i \in 1..width : (\A j \in 1..i - 1 : j \in 1..width /\ p[j] = q[j]) /\ p[i] < q[i]
    BY <1>1, <1>5 DEF TupleLess
  <2>2. i \in Differ(v, w) /\ Part(v, i) < Part(w, i)  BY <1>1, <1>3, <1>4, <2>1
  <2>3. ASSUME NEW j \in Differ(v, w), j < i PROVE FALSE
    <3>1. j \in 1..i - 1 /\ j \in 1..width /\ Part(v, j) # Part(w, j)  BY <1>3, <2>3
    <3>. QED  BY <1>1, <2>1, <3>1
  <2>4. \A j \in Differ(v, w) : i <= j  BY <1>3, <2>3
  <2>. QED  BY <2>2, <2>4 DEF Below
<1>6. ASSUME Below(v, w) PROVE TupleLess(p, q)
  <2>1. PICK i \in Differ(v, w) : (\A j \in Differ(v, w) : i <= j) /\ Part(v, i) < Part(w, i)
    BY <1>6 DEF Below
  <2>2. i \in 1..width  BY <1>3
  <2>3. ASSUME NEW j \in 1..i - 1 PROVE j \in 1..width /\ p[j] = q[j]
    <3>1. j \in 1..width /\ ~(i <= j)  BY <2>2
    <3>2. j \notin Differ(v, w)  BY <2>1, <3>1
    <3>. QED  BY <1>1, <1>3, <3>1, <3>2
  <2>. QED  BY <1>1, <2>1, <2>2, <2>3 DEF TupleLess
<1>. QED  BY <1>2, <1>3, <1>5, <1>6 DEF p, q

(* Of two releases that are not equal one is below the other, not both.    *)
LEMMA ReleasesAreOrdered ==
  ASSUME NEW v \in Seq(Nat), NEW w \in Seq(Nat)
  PROVE  ~Below(v, w) <=> Differ(v, w) = {} \/ Below(w, v)
<1>1. Differ(w, v) = Differ(v, w)  BY PartsAreNumbers DEF Differ
<1>2. Differ(v, w) \subseteq Nat \ {0}
  <2>1. Wider(v, w) \in Nat  BY PartsAreNumbers
  <2>. QED  BY <2>1 DEF Differ
<1>3. \A i \in Differ(v, w) : Part(v, i) # Part(w, i)  BY DEF Differ
<1>4. \A i \in Differ(v, w) : Part(v, i) \in Nat /\ Part(w, i) \in Nat  BY <1>2, PartsAreNumbers
<1>5. CASE Differ(v, w) = {}  BY <1>5 DEF Below
<1>6. CASE Differ(v, w) # {}
  <2>. DEFINE i == First(Differ(v, w))
  <2>1. i \in Differ(v, w) /\ \A j \in Differ(v, w) : i <= j  BY <1>2, <1>6, FirstIsThere
  <2>. HIDE DEF i
  <2>2. \A k \in Differ(v, w) : (\A j \in Differ(v, w) : k <= j) => k = i  BY <1>2, <2>1
  <2>3. Below(v, w) <=> Part(v, i) < Part(w, i)  BY <2>1, <2>2 DEF Below
  <2>4. Below(w, v) <=> Part(w, i) < Part(v, i)  BY <1>1, <2>1, <2>2 DEF Below
  <2>. QED  BY <1>3, <1>4, <1>6, <2>1, <2>3, <2>4
<1>. QED  BY <1>5, <1>6

LEMMA SpecifiersAreRanges ==
  ASSUME NEW have \in Seq(Nat), NEW spec \in Seq(Clauses)
  PROVE  SpecifierSatisfied(spec, have) <=> Within(have, spec)
<1>1. ASSUME NEW i \in DOMAIN spec
      PROVE  LET want == spec[i].want
                 width == Wider(have, want)
                 same == Differ(have, want) = {}
             IN  Compare(spec[i].op, Pad(have, width), Pad(want, width)) <=>
                   CASE spec[i].op = "==" -> same
                     [] spec[i].op = "!=" -> ~same
                     [] spec[i].op = ">=" -> same \/ Below(want, have)
                     [] spec[i].op = "<=" -> same \/ Below(have, want)
                     [] spec[i].op = ">"  -> Below(want, have)
                     [] spec[i].op = "<"  -> Below(have, want)
  <2>. DEFINE want == spec[i].want
              op == spec[i].op
              width == Wider(have, want)
              same == Differ(have, want) = {}
              p == Pad(have, width)
              q == Pad(want, width)
  <2>1. spec[i] \in Clauses  OBVIOUS
  <2>2. want \in Seq(Nat) /\ op \in Operators  BY <2>1, ManifestsAssumption DEF Clauses
  <2>. HIDE DEF want, op
  <2>3. width \in Nat /\ width = Wider(want, have)  BY <2>2, PartsAreNumbers
  <2>4. p = q <=> same  BY <2>2, <2>3, PaddedOrder
  <2>5. TupleLess(p, q) <=> Below(have, want)  BY <2>2, <2>3, PaddedOrder
  <2>6. TupleLess(q, p) <=> Below(want, have)  BY <2>2, <2>3, PaddedOrder
  <2>7. ~Below(have, want) <=> same \/ Below(want, have)  BY <2>2, ReleasesAreOrdered
  <2>8. ~Below(want, have) <=> same \/ Below(have, want)
    <3>1. ~Below(want, have) <=> Differ(want, have) = {} \/ Below(have, want)
      BY <2>2, ReleasesAreOrdered
    <3>2. Differ(want, have) = Differ(have, want)  BY <2>3 DEF Differ
    <3>. QED  BY <3>1, <3>2
  <2>. HIDE DEF width, same, p, q
  <2>9. Compare(op, p, q) <=>
          CASE op = "==" -> same
            [] op = "!=" -> ~same
            [] op = ">=" -> same \/ Below(want, have)
            [] op = "<=" -> same \/ Below(have, want)
            [] op = ">"  -> Below(want, have)
            [] op = "<"  -> Below(have, want)
    BY <2>2, <2>4, <2>5, <2>6, <2>7, <2>8 DEF Compare, Operators
  <2>. QED  BY <2>9 DEF want, op, width, same, p, q
<1>. QED  BY <1>1 DEF SpecifierSatisfied, Within

(* The manifests and the lock of a checkout are files of the enforced      *)
(* subset, or not read at all.                                             *)
FileShape(file) == file \in {Absent, Unusable} \/ (file.state = "read" /\ file.reqs \in Seq(Requirements))

LEMMA FilesAreRead ==
  ASSUME tree \in Manifests
  PROVE  /\ Source.reqs \in Seq(Requirements) /\ tree.lock.reqs \in Seq(Requirements)
         /\ FileShape(Source) /\ FileShape(tree.lock)
<1>1. \A f \in ManifestFiles : FileShape(f)  BY ManifestsAssumption DEF FileShape
<1>2. FileShape(Absent)  BY DEF FileShape
<1>3. FileShape(tree.requirements) /\ FileShape(tree.dev) /\ FileShape(tree.lock)
  BY <1>1, <1>2 DEF Manifests
<1>4. FileShape(Source)  BY <1>3 DEF Source
<1>5. \A f : FileShape(f) => f.reqs \in Seq(Requirements)
  <2>1. <<>> \in Seq(Requirements)  OBVIOUS
  <2>2. Absent.reqs = <<>> /\ Unusable.reqs = <<>>  BY DEF Absent, Unusable
  <2>. QED  BY <2>1, <2>2 DEF FileShape
<1>. QED  BY <1>3, <1>4, <1>5

LEMMA RequirementShape ==
  ASSUME NEW reqs \in Seq(Requirements), NEW i \in DOMAIN reqs
  PROVE  reqs[i].name \in Dists /\ reqs[i].spec \in Seq(Clauses)
<1>1. reqs[i] \in Requirements  OBVIOUS
<1>. QED  BY <1>1 DEF Requirements

LEMMA PinIsRelease ==
  ASSUME NEW spec \in Seq(Clauses), Pins(spec) # {}
  PROVE  Pin(spec) \in Seq(Nat)
<1>1. Pins(spec) \in SUBSET Nat  BY DEF Pins
<1>2. First(Pins(spec)) \in Pins(spec)  BY <1>1, FirstIsThere
<1>3. spec[First(Pins(spec))] \in Clauses  BY <1>2 DEF Pins
<1>. QED  BY <1>3, ManifestsAssumption DEF Pin, Clauses

LEMMA LockIsRead ==
  ASSUME tree \in Manifests, NEW d, LockLines(d) # {}
  PROVE  Lock(d).spec \in Seq(Clauses)
<1>1. tree.lock.reqs \in Seq(Requirements)  BY FilesAreRead
<1>2. Len(tree.lock.reqs) \in Nat /\ LockLines(d) \in SUBSET (1..Len(tree.lock.reqs))
  BY <1>1 DEF LockLines
<1>3. Latest(LockLines(d)) \in LockLines(d)  BY <1>2, LatestIsThere
<1>4. Latest(LockLines(d)) \in DOMAIN tree.lock.reqs  BY <1>1, <1>2, <1>3
<1>. QED  BY <1>1, <1>4, RequirementShape DEF Lock

(* What the two halves of the policy's question come to.                   *)
Installed(reqs) ==
  \A i \in DOMAIN reqs :
    /\ inventory.at[reqs[i].name] # NotInstalled
    /\ Within(inventory.at[reqs[i].name], reqs[i].spec)
Pinned(reqs) ==
  \A i \in DOMAIN reqs :
    LockLines(reqs[i].name) # {} /\
      LET lock == Lock(reqs[i].name).spec
      IN Pins(lock) # {} => Within(Pin(lock), reqs[i].spec)

LEMMA InstalledRelease ==
  ASSUME inventory \in Inventories, NEW d \in Dists, inventory.at[d] # NotInstalled
  PROVE  inventory.at[d] \in Seq(Nat)
<1>1. inventory.at \in [Dists -> Versions \cup {NotInstalled}]  BY DEF Inventories
<1>. QED  BY <1>1, ManifestsAssumption

LEMMA EvaluationMeans ==
  ASSUME tree \in Manifests, inventory \in Inventories, NEW reqs \in Seq(Requirements)
  PROVE  /\ EvaluateReadiness(reqs) => Installed(reqs) /\ (tree.lock # Absent => Pinned(reqs))
         /\ Installed(reqs) /\ tree.lock = Absent => EvaluateReadiness(reqs)
<1>1. ASSUME NEW i \in DOMAIN reqs, inventory.at[reqs[i].name] # NotInstalled
      PROVE  SpecifierSatisfied(reqs[i].spec, inventory.at[reqs[i].name]) <=>
               Within(inventory.at[reqs[i].name], reqs[i].spec)
  <2>1. reqs[i].name \in Dists /\ reqs[i].spec \in Seq(Clauses)  BY RequirementShape
  <2>2. inventory.at[reqs[i].name] \in Seq(Nat)  BY <1>1, <2>1, InstalledRelease
  <2>. QED  BY <2>1, <2>2, SpecifiersAreRanges
<1>2. ASSUME NEW i \in DOMAIN reqs, ~Drifts(reqs[i])
      PROVE  LockLines(reqs[i].name) # {} /\
               LET lock == Lock(reqs[i].name).spec
               IN Pins(lock) # {} => Within(Pin(lock), reqs[i].spec)
  <2>. DEFINE lock == Lock(reqs[i].name).spec
  <2>1. LockLines(reqs[i].name) # {}  BY <1>2 DEF Drifts
  <2>2. lock \in Seq(Clauses)  BY <2>1, LockIsRead
  <2>3. Pins(lock) # {} => SpecifierSatisfied(reqs[i].spec, Pin(lock))  BY <1>2 DEF Drifts
  <2>4. reqs[i].spec \in Seq(Clauses)  BY RequirementShape
  <2>. HIDE DEF lock
  <2>5. Pins(lock) # {} => Within(Pin(lock), reqs[i].spec)
    BY <2>2, <2>3, <2>4, PinIsRelease, SpecifiersAreRanges
  <2>. QED  BY <2>1, <2>5 DEF lock
<1>3. EvaluateReadiness(reqs) => Installed(reqs)  BY <1>1 DEF EvaluateReadiness, Installed
<1>4. EvaluateReadiness(reqs) /\ tree.lock # Absent => Pinned(reqs)
  BY <1>2 DEF EvaluateReadiness, Pinned
<1>5. Installed(reqs) /\ tree.lock = Absent => EvaluateReadiness(reqs)
  BY <1>1 DEF EvaluateReadiness, Installed
<1>. QED  BY <1>3, <1>4, <1>5

(* "ok" and "no_manifest" are earned, and nothing else is said where       *)
(* nothing contradicts.                                                    *)
LEMMA BlockMeans ==
  ASSUME tree \in Manifests, inventory \in Inventories
  PROVE  /\ ReadinessBlock \in {"ok", "no_manifest"} =>
              Installed(Source.reqs) /\ (Source # Absent /\ tree.lock # Absent => Pinned(Source.reqs))
         /\ Source # Absent /\ Plain(Source) /\ ~inventory.odd /\ Installed(Source.reqs) /\ tree.lock = Absent =>
              ReadinessBlock = "ok"
<1>1. Source.reqs \in Seq(Requirements)  BY FilesAreRead
<1>2. CASE Source = Absent
  <2>1. DOMAIN Source.reqs = {}  BY <1>2 DEF Absent
  <2>. QED  BY <1>2, <2>1 DEF Installed
<1>3. CASE Source # Absent
  <2>1. ReadinessBlock = IF ~(Plain(Source) /\ Plain(tree.lock) /\ ~inventory.odd) THEN "error"
                         ELSE IF EvaluateReadiness(Source.reqs) THEN "ok" ELSE "not_ready"
    BY <1>3 DEF ReadinessBlock
  <2>2. Plain(Absent)  BY DEF Plain, Absent, Unusable
  <2>. QED  BY <1>1, <1>3, <2>1, <2>2, EvaluationMeans
<1>. QED  BY <1>2, <1>3

(* What run_test reads off a process is a result that Verify reckons with. *)
LEMMA JunitMeans ==
  ASSUME NEW report, report.cases \in Seq(Cases)
  PROVE  /\ FailureKindFromJunit(report) \in RunnerKinds
         /\ FailureKindFromJunit(report) = "assertion" =>
              \E i \in DOMAIN report.cases :
                /\ report.cases[i] = "assertion"
                /\ \A j \in 1..i - 1 : report.cases[j] \notin {"crash", "error"}
         /\ PassedFromJunit(report) # 0 => \E i \in DOMAIN report.cases : report.cases[i] = "passed"
<1>. DEFINE failing == {i \in DOMAIN report.cases : report.cases[i] \notin {"passed", "skipped"}}
            f == First(failing)
            passed == {i \in DOMAIN report.cases : report.cases[i] = "passed"}
<1>1. FailureKindFromJunit(report) =
        IF ~report.usable THEN "unknown" ELSE IF failing = {} THEN "none"
        ELSE IF report.cases[f] = "assertion" THEN "assertion" ELSE "error"
  BY DEF FailureKindFromJunit
<1>2. failing \in SUBSET Nat /\ DOMAIN report.cases = 1..Len(report.cases) /\ Len(report.cases) \in Nat
  OBVIOUS
<1>3. failing # {} => f \in failing /\ \A j \in failing : f <= j
  <2>. HIDE DEF failing
  <2>. QED  BY <1>2, FirstIsThere
<1>4. ASSUME failing # {}, report.cases[f] = "assertion"
      PROVE  \E i \in DOMAIN report.cases :
               /\ report.cases[i] = "assertion"
               /\ \A j \in 1..i - 1 : report.cases[j] \notin {"crash", "error"}
  <2>1. f \in DOMAIN report.cases /\ f \in Nat  BY <1>2, <1>3, <1>4
  <2>2. ASSUME NEW j \in 1..f - 1 PROVE report.cases[j] \notin {"crash", "error"}
    <3>1. j \in DOMAIN report.cases /\ ~(f <= j)  BY <1>2, <2>1, <2>2
    <3>2. j \notin failing  BY <1>3, <1>4, <3>1
    <3>. QED  BY <3>1, <3>2
  <2>. HIDE DEF f
  <2>. QED  BY <1>4, <2>1, <2>2
<1>5. PassedFromJunit(report) # 0 => passed # {}
  <2>1. Cardinality({}) = 0  BY FS_EmptySet
  <2>. QED  BY <2>1 DEF PassedFromJunit
<1>. HIDE DEF f
<1>6. FailureKindFromJunit(report) \in RunnerKinds  BY <1>1 DEF RunnerKinds
<1>7. FailureKindFromJunit(report) = "assertion" => failing # {} /\ report.cases[f] = "assertion"
  BY <1>1
<1>. QED  BY <1>4, <1>5, <1>6, <1>7

LEMMA OutputMeans == ASSUME NEW lines \in Seq(Lines) PROVE FailureKindFromOutput(lines) \in RunnerKinds
<1>. DEFINE tagged == {i \in DOMAIN lines : lines[i] \in {"tagged_assertion", "tagged_error"}}
            raised == {i \in DOMAIN lines : lines[i] \in {"assertion", "error"}}
<1>1. raised # {} => lines[Latest(raised)] \in {"assertion", "error"}
  <2>1. raised \in SUBSET (1..Len(lines)) /\ Len(lines) \in Nat  OBVIOUS
  <2>2. raised # {} => Latest(raised) \in raised
    <3>. HIDE DEF raised
    <3>. QED  BY <2>1, LatestIsThere
  <2>. QED  BY <2>2
<1>2. FailureKindFromOutput(lines) =
        IF lines = << >> THEN "unknown"
        ELSE IF tagged # {} THEN IF lines[First(tagged)] = "tagged_error" THEN "error" ELSE "assertion"
        ELSE IF raised # {} THEN lines[Latest(raised)]
        ELSE IF "mention" \in {lines[i] : i \in DOMAIN lines} THEN "assertion" ELSE "error"
  <2>1. lines = << >> => tagged = {} /\ raised = {}  OBVIOUS
  <2>. QED  BY <2>1 DEF FailureKindFromOutput
<1>. HIDE DEF tagged, raised
<1>. QED  BY <1>1, <1>2 DEF RunnerKinds

LEMMA ResultMeans ==
  ASSUME NEW run, IsTestRun(run)
  PROVE  LET res == ResultOf(run)
         IN  /\ \E r \in RunResults : r.outcome = res.outcome /\ r.kind = res.kind
             /\ res.outcome = "PASS" /\ run.pytest =>
                  \E i \in DOMAIN run.report.cases : run.report.cases[i] = "passed"
             /\ res.kind = "assertion" /\ run.pytest =>
                  \E i \in DOMAIN run.report.cases :
                    /\ run.report.cases[i] = "assertion"
                    /\ \A j \in 1..i - 1 : run.report.cases[j] \notin {"crash", "error"}
<1>. DEFINE res == ResultOf(run)
            kind == FailureKind(run)
            someFirst == \E i \in DOMAIN run.report.cases :
                           /\ run.report.cases[i] = "assertion"
                           /\ \A j \in 1..i - 1 : run.report.cases[j] \notin {"crash", "error"}
            somePassed == \E i \in DOMAIN run.report.cases : run.report.cases[i] = "passed"
<1>1. run.report.cases \in Seq(Cases) /\ run.lines \in Seq(Lines) /\ run.exit \in Exits  BY DEF IsTestRun
<1>2. PassedFromJunit(run.report) # 0 => somePassed  BY <1>1, JunitMeans
<1>3. kind \in RunnerKinds /\ (kind = "assertion" /\ run.pytest => someFirst)
  BY <1>1, JunitMeans, OutputMeans DEF FailureKind
<1>4. \/ res = [outcome |-> "TIMEOUT", kind |-> "unknown"]
      \/ res = [outcome |-> "NOTRUN", kind |-> "none"]
      \/ res = [outcome |-> "PASS", kind |-> "none"] /\ ~(run.pytest /\ PassedFromJunit(run.report) = 0)
      \/ res = [outcome |-> "FAIL", kind |-> kind]
      \/ res = [outcome |-> "ERROR", kind |-> "error"]
  BY <1>1 DEF ResultOf, Exits
<1>. HIDE DEF res, kind, someFirst, somePassed
<1>5. \A k \in RunnerKinds : \E r \in RunResults : r.outcome = "FAIL" /\ r.kind = k
  <2>1. "plain" \in Texts  BY DEF Texts
  <2>2. \A k \in RunnerKinds : [outcome |-> "FAIL", kind |-> k, text |-> "plain"] \in RunResults
    BY <2>1 DEF RunResults
  <2>. QED  BY <2>2
<1>6. \E r \in RunResults : r.outcome = res.outcome /\ r.kind = res.kind
  <2>1. CASE res = [outcome |-> "FAIL", kind |-> kind]  BY <1>3, <1>5, <2>1
  <2>2. CASE res # [outcome |-> "FAIL", kind |-> kind]
    <3>1. \E o, k : /\ res = [outcome |-> o, kind |-> k]
                    /\ [outcome |-> o, kind |-> k, text |-> "plain"] \in RunResults
      BY <1>4, <2>2 DEF RunResults
    <3>. QED  BY <3>1
  <2>. QED  BY <2>1, <2>2
<1>7. res.outcome = "PASS" /\ run.pytest => somePassed  BY <1>2, <1>4
<1>8. res.kind = "assertion" /\ run.pytest => someFirst  BY <1>3, <1>4
<1>. QED  BY <1>6, <1>7, <1>8 DEF res, someFirst, somePassed

(* What is read stays as it was; a policy that refused did so because it   *)
(* is enforced and had something to say, and whoever goes on was let.      *)
Standing == tree \in Manifests /\ inventory \in Inventories /\ execution \in Executions
Ran == gpc \in {"run", "output", "done"}
Asked ==
  /\ gpc \in {"readiness", "run", "output", "done", "refused"}
  /\ gpc = "readiness" => readiness.mode = "none"
  /\ gpc # "readiness" => readiness.block = ReadinessBlock
  /\ gpc \in {"readiness", "run", "output"} => guard = Unseen
Let == readiness.mode = "required" /\ Ran => readiness.block \in {"ok", "no_manifest"}
Stopped ==
  gpc = "refused" =>
    \/ guard = Unseen /\ readiness.mode = "required" /\ readiness.block \notin {"ok", "no_manifest"}
    \/ guard # Unseen /\ guard.mode = "required"
Resulted == result = NoResult \/ result = ResultOf(execution)
GuardInv == Standing /\ Asked /\ Let /\ Stopped /\ Resulted

(* For any manifests, releases, tests and limits, an enforced gate means   *)
(* what it says, no gate that observes stops a phase, and the result is    *)
(* one that Verify reckons with (verify._run_guarded_phase).               *)
THEOREM GatesMeanWhatTheySay == GuardSpec => []RecordMeansWhatItSays
<1>1. GuardInit => GuardInv
  BY DEF GuardInit, GuardInv, Standing, Asked, Let, Stopped, Resulted, Ran, Unseen
<1>2. GuardInv /\ [GuardNext]_guardVars => GuardInv'
  <2> SUFFICES ASSUME GuardInv, [GuardNext]_guardVars PROVE GuardInv'  OBVIOUS
  <2>. USE DEF GuardInv
  <2>1. ASSUME UNCHANGED <<tree, inventory, execution>>
        PROVE  Standing' /\ ReadinessBlock' = ReadinessBlock /\ ResultOf(execution)' = ResultOf(execution)
    BY <2>1 DEF Standing, ReadinessBlock, Source, Plain, EvaluateReadiness, Drifts, LockLines, Lock
  <2>2. CASE CheckReadiness
    <3>1. UNCHANGED <<tree, inventory, execution, result, guard>> /\ gpc = "readiness"  BY <2>2 DEF CheckReadiness
    <3>2. PICK mode \in {"observe", "required"} :
            /\ readiness' = [mode |-> mode, block |-> ReadinessBlock]
            /\ gpc' = IF mode = "required" /\ ReadinessBlock \notin {"ok", "no_manifest"}
                        THEN "refused" ELSE "run"
      BY <2>2 DEF CheckReadiness
    <3>3. readiness'.mode = mode /\ readiness'.block = ReadinessBlock /\ guard' = Unseen
      BY <3>1, <3>2 DEF Asked
    <3>4. Standing' /\ ReadinessBlock' = ReadinessBlock /\ Resulted'  BY <2>1, <3>1 DEF Resulted
    <3>. HIDE DEF ReadinessBlock
    <3>5. Asked' /\ Let' /\ Stopped'  BY <3>2, <3>3, <3>4 DEF Asked, Let, Stopped, Ran
    <3>. QED  BY <3>4, <3>5
  <2>3. CASE RunTest
    <3>1. /\ UNCHANGED <<tree, inventory, execution, readiness, guard>> /\ gpc = "run"
          /\ gpc' = "output" /\ result' = ResultOf(execution)
      BY <2>3 DEF RunTest
    <3>2. Standing' /\ ReadinessBlock' = ReadinessBlock /\ Resulted'  BY <2>1, <3>1 DEF Resulted
    <3>3. Asked' /\ Let' /\ Stopped'  BY <3>1, <3>2 DEF Asked, Let, Stopped, Ran
    <3>. QED  BY <3>2, <3>3
  <2>4. CASE CheckOutput
    <3>1. UNCHANGED <<tree, inventory, execution, readiness, result>> /\ gpc = "output"  BY <2>4 DEF CheckOutput
    <3>2. PICK mode \in {"observe", "required"} :
            /\ guard' = [mode |-> mode, block |-> IF ScanOk THEN "ok" ELSE "violated"]
            /\ gpc' = IF mode = "required" /\ ~ScanOk THEN "refused" ELSE "done"
      BY <2>4 DEF CheckOutput
    <3>3. guard'.mode = mode /\ guard' # Unseen  BY <3>2 DEF Unseen
    <3>4. gpc' = "refused" => mode = "required"  BY <3>2
    <3>5. gpc' \in {"refused", "done"}  BY <3>2
    <3>6. Standing' /\ ReadinessBlock' = ReadinessBlock /\ Resulted'  BY <2>1, <3>1 DEF Resulted
    <3>7. Asked' /\ Let' /\ Stopped'
      BY <3>1, <3>3, <3>4, <3>5, <3>6 DEF Asked, Let, Stopped, Ran
    <3>. QED  BY <3>6, <3>7
  <2>5. CASE UNCHANGED guardVars
    <3>1. UNCHANGED <<tree, inventory, execution, gpc, readiness, result, guard>>  BY <2>5 DEF guardVars
    <3>2. Standing' /\ ReadinessBlock' = ReadinessBlock /\ Resulted'  BY <2>1, <3>1 DEF Resulted
    <3>. QED  BY <3>1, <3>2 DEF Asked, Let, Stopped, Ran
  <2>. QED  BY <2>2, <2>3, <2>4, <2>5 DEF GuardNext
<1>3. GuardInv => RecordMeansWhatItSays
  <2> SUFFICES ASSUME GuardInv PROVE RecordMeansWhatItSays  OBVIOUS
  <2>. USE DEF GuardInv
  <2>1. tree \in Manifests /\ inventory \in Inventories /\ IsTestRun(execution)
    BY ManifestsAssumption DEF Standing
  <2>2. readiness.mode = "required" /\ Ran =>
          Installed(Source.reqs) /\ (Source # Absent /\ tree.lock # Absent => Pinned(Source.reqs))
    <3>1. readiness.mode = "required" /\ Ran => ReadinessBlock \in {"ok", "no_manifest"}
      BY DEF Let, Asked, Ran
    <3>. QED  BY <2>1, <3>1, BlockMeans
  <2>3. gpc = "refused" => "required" \in {readiness.mode, guard.mode}  BY DEF Stopped
  <2>4. gpc = "refused" /\ guard = Unseen =>
          ~(Source # Absent /\ Plain(Source) /\ ~inventory.odd /\ Installed(Source.reqs) /\ tree.lock = Absent)
    <3>1. gpc = "refused" /\ guard = Unseen => ReadinessBlock # "ok"  BY DEF Stopped, Asked
    <3>. QED  BY <2>1, <3>1, BlockMeans
  <2>5. /\ result # NoResult => \E run \in RunResults : run.outcome = result.outcome /\ run.kind = result.kind
        /\ result.outcome = "PASS" /\ execution.pytest =>
             \E i \in DOMAIN execution.report.cases : execution.report.cases[i] = "passed"
        /\ result.kind = "assertion" /\ execution.pytest =>
             \E i \in DOMAIN execution.report.cases :
               /\ execution.report.cases[i] = "assertion"
               /\ \A j \in 1..i - 1 : execution.report.cases[j] \notin {"crash", "error"}
    <3>1. CASE result = NoResult  BY <3>1 DEF NoResult
    <3>2. CASE result = ResultOf(execution)  BY <2>1, <3>2, ResultMeans
    <3>. QED  BY <3>1, <3>2 DEF Resulted
  <2>. QED  BY <2>2, <2>3, <2>4, <2>5 DEF RecordMeansWhatItSays, Installed, Pinned, Ran
<1>. QED  BY <1>1, <1>2, <1>3, PTL DEF GuardSpec

=============================================================================
