-------------------------------- MODULE Cohort --------------------------------
(***************************************************************************)
(* The default cohort: scripts/prepare_default_cohort_runtime.py builds a  *)
(* runtime image through a registry that it starts for itself,             *)
(* scripts/run_default_cohort.py replays a preregistered manifest in that  *)
(* image through the public command line, row by row, and the first script *)
(* then repeats some rows as a diagnosis.  The hosted lane runs one after  *)
(* the other and reconciles the containers at the end, whatever happened;  *)
(* the replay can also be run on its own.  Any program may be interrupted  *)
(* (KeyboardInterrupt) or killed; a disk that fails fails for good, which  *)
(* is a kill.  Files are written in place: a kill can tear them.           *)
(***************************************************************************)
EXTENDS Integers, Sequences, Consumer

CONSTANTS
  Manifests,       \* what may be offered as a manifest, see Accepted
  Preregistered,   \* the one whose digest is MANIFEST_SHA256
  Irregular,       \* <<revision, test>> pairs that are not regular Git blobs
  DiagnosticRows   \* DIAGNOSTIC_ROWS, as indices of the preregistered rows

Phases == <<"base", "head", "head_rerun_2">>
ASSUME CohortAssumption ==
  /\ Preregistered \in Manifests
  /\ \A m \in Manifests : Len(m.rows) \in Nat /\ DOMAIN m.rows = 1..Len(m.rows)
  /\ DiagnosticRows \in Seq(DOMAIN Preregistered.rows)

VARIABLES
  lane,     \* the workflow: where it is, whether a step failed, what it was given
  prep,     \* prepare: where it is, the status of its record, owned
  proof,    \* runtime-proof.json
  support,  \* containers that the preparation started and that are there
  replay,   \* run_cohort: where it is, the row, the declared signer, statuses
  census,   \* cohort/census.json: the statuses it gives
  receipt,  \* each row's receipt.json
  tests,    \* containers of candidates that are there
  diag      \* diagnose: where it is, the context, their statuses, diagnostic-census.json

cohortVars == <<lane, prep, proof, support, replay, census, receipt, tests, diag>>

Torn == "torn"
NoReceipt == [input |-> "absent"]
NoCensus == [is |-> "absent", rows |-> <<>>]
Saved(rows) == [is |-> "readable", rows |-> rows]
NoProof == [status |-> "absent", cleaned |-> FALSE]
Plan == lane.manifest.rows
Ids == DOMAIN Plan

(* What a program held in memory is gone when it ends. *)
Memory(stage) == [stage |-> stage, row |-> 1, signer |-> FALSE, status |-> <<>>, exit |-> 0]

CohortInit ==
  /\ \E m \in Manifests, hosted \in BOOLEAN :
       /\ lane = [step |-> IF hosted THEN "prepare" ELSE "replay", hosted |-> hosted, manifest |-> m,
                  runtime |-> FALSE, failed |-> FALSE]
       /\ receipt = [r \in DOMAIN m.rows |-> NoReceipt]
  /\ prep = [stage |-> "idle", status |-> "NOT_RUN", owned |-> FALSE]
  /\ proof = NoProof /\ support = {} /\ tests = {} /\ census = NoCensus
  /\ replay = Memory("idle")
  /\ diag = [stage |-> "idle", context |-> 1, status |-> <<>>, census |-> "absent"]

Quiet == UNCHANGED <<lane, support, tests>>
Preparing == UNCHANGED <<replay, census, receipt, tests, diag>>
Replaying == UNCHANGED <<prep, proof, support, diag>>
Diagnosing == UNCHANGED <<prep, proof, support, replay, census, receipt>>

-----------------------------------------------------------------------------
(* prepare: its commands in order, up to the cleanup in its finally block. *)
Commands == <<"material", "pins", "build", "start", "ready", "push", "pull", "inventory", "pip">>
AfterCommand(stage) ==
  LET i == CHOOSE i \in DOMAIN Commands : Commands[i] = stage
  IN  IF i = Len(Commands) THEN "cleanup" ELSE Commands[i + 1]

(* NOT_RUN is on disk before anything is done. *)
BeginPreparation ==
  /\ lane.step = "prepare" /\ prep.stage = "idle"
  /\ prep' = [prep EXCEPT !.stage = "material"] /\ proof' = [NoProof EXCEPT !.status = "NOT_RUN"]
  /\ UNCHANGED <<lane, support>> /\ Preparing

(* validate_material accepts one manifest and the reviewed configurations  *)
(* of its projects; start leaves a container of its own, the others that   *)
(* run containers remove them.  The status is RUN after the last one.      *)
CommandDone ==
  /\ \E i \in DOMAIN Commands : Commands[i] = prep.stage
  /\ prep.stage = "material" => lane.manifest = Preregistered
  /\ prep' = [prep EXCEPT !.stage = AfterCommand(@), !.owned = @ \/ prep.stage = "start",
                          !.status = IF prep.stage = "pip" THEN "RUN" ELSE @]
  /\ support' = IF prep.stage = "start" THEN {"registry"} ELSE support
  /\ UNCHANGED <<lane, proof>> /\ Preparing

(* Nonzero, too late, not what was pinned, or interrupted.  A client that  *)
(* times out leaves the container it asked for; owned is only set when it  *)
(* has returned.                                                           *)
CommandFails ==
  /\ \E i \in DOMAIN Commands : Commands[i] = prep.stage
  /\ prep' = [prep EXCEPT !.stage = "cleanup"]
  /\ \/ UNCHANGED support
     \/ prep.stage = "start" /\ support' = {"registry"}
     \/ prep.stage \in {"inventory", "pip"} /\ support' = support \cup {"check"}
  /\ UNCHANGED <<lane, proof>> /\ Preparing

(* The end of prepare, and of its step in the workflow, which reads the    *)
(* proof again.                                                            *)
EndPreparation(record) ==
  /\ prep' = [prep EXCEPT !.stage = "over"]
  /\ proof' = record
  /\ LET ready == record.status = "RUN" /\ record.cleaned
     IN  lane' = [lane EXCEPT !.step = IF ready THEN "replay" ELSE "reconcile",
                              !.runtime = ready, !.failed = ~ready]

(* Mutant of Cleanup: that the registry could not be removed is recorded   *)
(* and does not change the status.                                         *)
CleanupNoted ==
  /\ prep.stage = "cleanup"
  /\ \/ ~prep.owned /\ EndPreparation([status |-> "NOT_RUN", cleaned |-> FALSE]) /\ UNCHANGED support
     \/ /\ prep.owned
        /\ EndPreparation([status |-> prep.status, cleaned |-> TRUE]) /\ support' = support \ {"registry"}
     \/ prep.owned /\ EndPreparation([status |-> prep.status, cleaned |-> FALSE]) /\ UNCHANGED support
  /\ Preparing

Cleanup ==
  /\ prep.stage = "cleanup"
  /\ \/ ~prep.owned /\ EndPreparation([status |-> "NOT_RUN", cleaned |-> FALSE]) /\ UNCHANGED support
     \/ /\ prep.owned
        /\ EndPreparation([status |-> prep.status, cleaned |-> TRUE]) /\ support' = support \ {"registry"}
     \/ prep.owned /\ EndPreparation([status |-> "NOT_RUN", cleaned |-> FALSE]) /\ UNCHANGED support
  /\ Preparing

KillPreparation ==
  /\ prep.stage \notin {"idle", "over"}
  /\ prep' = [prep EXCEPT !.stage = "over"]
  /\ proof' \in {proof, [proof EXCEPT !.status = Torn]}
  /\ support' \in {support} \cup (IF prep.stage = "start" THEN {{"registry"}} ELSE {})
  /\ lane' = [lane EXCEPT !.step = "reconcile", !.failed = TRUE]
  /\ Preparing

-----------------------------------------------------------------------------
(* run_cohort *)

(* load_manifest: both digests fit, identifiers, paths and revisions are   *)
(* of their form (safe) and no identifier comes twice; each row is one of  *)
(* the sampling frame and takes its test from the side that its kind says. *)
Original(row) == [row EXCEPT !.source = None]
Accepted(m) ==
  /\ m.intact /\ m.rows # <<>>
  /\ \A i, j \in DOMAIN m.rows : m.rows[i].id = m.rows[j].id => i = j
  /\ \A i \in DOMAIN m.rows :
       LET row == m.rows[i]
       IN  /\ row.safe /\ Original(row) \in m.frame
           /\ row.kind \in {"bug", "control"}
           /\ row.source = IF row.kind = "bug" THEN row.base ELSE row.head

At(stage) == lane.step = "replay" /\ replay.stage = stage
ToStage(stage) == replay' = [replay EXCEPT !.stage = stage]

(* The program ends: the lane goes on to the diagnosis if the runtime step *)
(* succeeded, whatever became of this one.                                 *)
EndReplay(exit) ==
  /\ replay' = Memory("over")
  /\ lane' = [lane EXCEPT !.step = IF lane.runtime THEN "diagnose" ELSE "over",
                          !.failed = @ \/ exit # 0]

RefuseManifest ==
  /\ At("idle") /\ ~Accepted(lane.manifest) /\ EndReplay(1)
  /\ Replaying /\ UNCHANGED <<census, receipt, tests>>

(* The directory is new, and all rows are declared before any is read. *)
Declare ==
  /\ At("idle") /\ Accepted(lane.manifest)
  /\ replay' = [replay EXCEPT !.stage = "identity", !.status = [r \in Ids |-> "selected_not_attempted"]]
  /\ census' = Saved(replay'.status)
  /\ Replaying /\ Quiet /\ UNCHANGED receipt

(* Without a signer declared before any candidate runs, no row is judged. *)
DeclareSigner ==
  /\ At("identity")
  /\ \E done \in BOOLEAN : replay' = [replay EXCEPT !.stage = "row", !.signer = done]
  /\ Replaying /\ Quiet /\ UNCHANGED <<census, receipt>>

(* A row's status, kept in memory and in the census at once. *)
Becomes(status, stage, row) ==
  /\ replay' = [replay EXCEPT !.stage = stage, !.row = row, !.exit = 0, !.status[replay.row] = status]
  /\ census' = Saved(replay'.status)
Closes(status) == Becomes(status, "row", replay.row + 1)

StartAttempt ==
  /\ At("row") /\ replay.row \in Ids /\ Becomes("attempt_started", "freeze", replay.row)
  /\ Replaying /\ Quiet /\ UNCHANGED receipt

(* freeze: the revisions are what was declared and the candidate is one    *)
(* regular blob, which is staged with the objects of the clone.            *)
Frozen(row) == <<row.source, row.test>>
FreezeRow ==
  /\ At("freeze") /\ Frozen(Plan[replay.row]) \notin Irregular /\ replay.signer
  /\ ToStage("verify")
  /\ Replaying /\ Quiet /\ UNCHANGED <<census, receipt>>

AttemptFails ==
  /\ At("freeze") /\ Closes("error_retained")
  /\ Replaying /\ Quiet /\ UNCHANGED receipt

(* The command line runs the candidate in a container. *)
RunCommand ==
  /\ At("verify") /\ ToStage("running") /\ tests' = tests \cup {<<replay.row, "row">>}
  /\ Replaying /\ UNCHANGED <<lane, census, receipt>>

(* The receipts that verify leaves: of a verdict, in which the writer may  *)
(* have put what no consumer accepts, or of a refusal.                     *)
Written(r) ==
  {[input |-> "object", block |-> "ed25519", intact |-> TRUE, signer |-> "harness",
    base |-> Plan[r].base, head |-> Plan[r].head, test |-> Frozen(Plan[r]), repo |-> Plan[r].repo,
    local |-> FALSE, present |-> TRUE, schema |-> "VALID", semantic |-> kind # "unaccepted", refused |-> kind = "refusal",
    sandbox |-> [mode |-> "required", backend |-> "docker", confined |-> "unsaid"]] :
   kind \in {"verdict", "unaccepted", "refusal"}}

(* A verdict exits with 0 or 1, a refusal with 2; a candidate that lingers *)
(* in its container may stay there.                                        *)
CommandEnds ==
  /\ At("running")
  /\ \/ \E doc \in Written(replay.row), exit \in {0, 1, 2} :
          /\ doc.refused <=> exit = 2
          /\ receipt' = [receipt EXCEPT ![replay.row] = doc]
          /\ replay' = [replay EXCEPT !.stage = "check", !.exit = exit]
          /\ UNCHANGED census
     \/ Closes("cli_no_receipt_retained") /\ UNCHANGED receipt
  /\ tests' \in {tests, tests \ {<<replay.row, "row">>}}
  /\ Replaying /\ UNCHANGED lane

(* command: too late or interrupted, the child gets SIGINT and ten seconds *)
(* to remove its container, then its group is killed; a receipt may have   *)
(* been written.  An interrupt is the end of the loop.                     *)
CommandCut ==
  /\ At("running")
  /\ tests' \in {tests, tests \ {<<replay.row, "row">>}}
  /\ receipt' \in {receipt} \cup {[receipt EXCEPT ![replay.row] = doc] : doc \in Written(replay.row)}
  /\ Closes("error_retained") \/ Becomes("interrupted_retained", "inventory", replay.row)
  /\ Replaying /\ UNCHANGED lane

Asked(r, confined) ==
  [form |-> "keys", signers |-> {"harness"}, base |-> Plan[r].base, head |-> Plan[r].head,
   test |-> Frozen(Plan[r]), repo |-> Plan[r].repo, remote |-> TRUE, abbreviated |-> FALSE,
   strict |-> TRUE, confined |-> confined]

(* Mutant of Judge: a receipt that is valid is enough. *)
JudgeSigned ==
  /\ At("check")
  /\ Closes(IF CommandExit(receipt[replay.row], Asked(replay.row, FALSE)) = 0
            THEN "receipt_valid_confined" ELSE "receipt_or_refusal_retained")
  /\ Replaying /\ Quiet /\ UNCHANGED receipt

(* Two runs of verify-receipt and the command's own exit. *)
Judge ==
  /\ At("check")
  /\ LET doc == receipt[replay.row]
     IN  Closes(IF /\ CommandExit(doc, Asked(replay.row, FALSE)) = 0
                   /\ CommandExit(doc, Asked(replay.row, TRUE)) = 0
                   /\ ~doc.refused /\ replay.exit \in {0, 1}
                THEN "receipt_valid_confined" ELSE "receipt_or_refusal_retained")
  /\ Replaying /\ Quiet /\ UNCHANGED receipt

CheckFails ==
  /\ At("check") /\ Closes("error_retained")
  /\ Replaying /\ Quiet /\ UNCHANGED receipt

(* KeyboardInterrupt elsewhere in an attempt. *)
InterruptAttempt ==
  /\ At("freeze") \/ At("check")
  /\ Becomes("interrupted_retained", "inventory", replay.row)
  /\ Replaying /\ Quiet /\ UNCHANGED receipt

TakeInventory ==
  /\ At("inventory") \/ (At("row") /\ replay.row \notin Ids)
  /\ EndReplay(IF \A r \in Ids : replay.status[r] = "receipt_valid_confined" THEN 0 ELSE 2)
  /\ Replaying /\ UNCHANGED <<census, receipt, tests>>

KillReplay ==
  /\ lane.step = "replay" /\ replay.stage \notin {"idle", "over"} /\ EndReplay(1)
  /\ census' \in {census, [census EXCEPT !.is = Torn]}
  /\ Replaying /\ UNCHANGED <<receipt, tests>>

-----------------------------------------------------------------------------
(* diagnose *)
Contexts == [c \in 1..(3 * Len(DiagnosticRows)) |-> <<DiagnosticRows[((c - 1) \div 3) + 1], Phases[((c - 1) % 3) + 1]>>]
Diagnoses(stage) == lane.step = "diagnose" /\ diag.stage = stage

EndDiagnosis(record) ==
  /\ diag' = [diag EXCEPT !.stage = "over", !.census = record]
  /\ lane' = [lane EXCEPT !.step = "reconcile", !.failed = @ \/ record # "DIAGNOSTICS_RETAINED_NOT_COHORT_REPLACEMENT"]

(* The base image, the inventory of packages, the image of the workflow,   *)
(* its digest in the registry and the sandbox must be as they were.        *)
ConditionsHold ==
  /\ Diagnoses("idle") /\ proof.status = "RUN"
  /\ diag' = [diag EXCEPT !.stage = "setup", !.status = [c \in DOMAIN Contexts |-> "selected_not_attempted"],
                          !.census = "NOT_RUN"]
  /\ Diagnosing /\ UNCHANGED <<lane, tests>>

ConditionsDiffer ==
  /\ Diagnoses("idle") \/ (Diagnoses("setup") /\ diag.context % 3 = 1)
  /\ EndDiagnosis("DIAGNOSTIC_REFUSED") /\ Diagnosing /\ UNCHANGED tests

(* A result, an exception of the phase or one of its setup is retained. *)
NextContext ==
  diag' = [diag EXCEPT !.stage = "setup", !.context = @ + 1, !.status[diag.context] = "retained"]

(* A worktree and its environment for this phase alone. *)
SetUp ==
  /\ Diagnoses("setup") /\ diag.context \in DOMAIN Contexts
  /\ diag' = [diag EXCEPT !.stage = "phase", !.status[diag.context] = "attempt_started"]
  /\ tests' = tests \cup {Contexts[diag.context]}
  /\ Diagnosing /\ UNCHANGED lane

SetUpFails ==
  /\ Diagnoses("setup") /\ diag.context \in DOMAIN Contexts
  /\ NextContext
  /\ Diagnosing /\ UNCHANGED <<lane, tests>>

PhaseEnds ==
  /\ Diagnoses("phase")
  /\ NextContext
  /\ tests' \in {tests, tests \ {Contexts[diag.context]}}
  /\ Diagnosing /\ UNCHANGED lane

Diagnosed ==
  /\ Diagnoses("setup") /\ diag.context \notin DOMAIN Contexts
  /\ EndDiagnosis("DIAGNOSTICS_RETAINED_NOT_COHORT_REPLACEMENT")
  /\ Diagnosing /\ UNCHANGED tests

(* Interrupted, the finally block leaves the record as it was. *)
KillDiagnosis ==
  /\ Diagnoses("setup") \/ Diagnoses("phase")
  /\ EndDiagnosis("NOT_RUN") \/ EndDiagnosis(Torn)
  /\ Diagnosing /\ UNCHANGED tests

-----------------------------------------------------------------------------
(* Mutant of Reconcile: what docker rm says is enough. *)
ReconcileUnchecked ==
  /\ lane.step = "reconcile"
  /\ support' \in SUBSET support /\ tests' \in SUBSET tests
  /\ lane' = [lane EXCEPT !.step = "over"]
  /\ UNCHANGED <<prep, proof, replay, census, receipt, diag>>

(* The workflow's last step removes what carries the owner's label and, if *)
(* the proof names an image, what runs in it under a name of the sandbox;  *)
(* it fails if a container is left that was not there before.  Any removal *)
(* may fail on its own.                                                    *)
Reconcile ==
  /\ lane.step = "reconcile"
  /\ support' \in SUBSET support /\ tests' \in SUBSET tests
  /\ lane' = [lane EXCEPT !.step = "over", !.failed = @ \/ support' \cup tests' # {}]
  /\ UNCHANGED <<prep, proof, replay, census, receipt, diag>>

CohortDone == lane.step = "over" /\ UNCHANGED cohortVars

CohortNext ==
  \/ BeginPreparation \/ CommandDone \/ CommandFails \/ Cleanup \/ KillPreparation
  \/ RefuseManifest \/ Declare \/ DeclareSigner \/ StartAttempt \/ FreezeRow \/ AttemptFails
  \/ RunCommand \/ CommandEnds \/ CommandCut \/ Judge \/ CheckFails \/ InterruptAttempt
  \/ TakeInventory \/ KillReplay
  \/ ConditionsHold \/ ConditionsDiffer \/ SetUp \/ SetUpFails \/ PhaseEnds \/ Diagnosed \/ KillDiagnosis
  \/ Reconcile \/ CohortDone
CohortSpec == CohortInit /\ [][CohortNext]_cohortVars

(* What the lane leaves behind is true, whichever step failed or was cut   *)
(* off: a proof that says RUN means that the registry and every container  *)
(* of the preparation are gone; a row is only called valid and confined    *)
(* over a receipt that a strict consumer accepts as confined and that      *)
(* refuses nothing; in the lane, candidates only run after such a proof;   *)
(* and a lane that passes has such a receipt for each declared row, an     *)
(* explanation of each diagnostic context and no container left.           *)
ArtifactsAreTrue ==
  LET Confined(r) == /\ receipt[r] # NoReceipt /\ ~receipt[r].refused
                     /\ CommandExit(receipt[r], Asked(r, TRUE)) = 0
  IN  /\ proof.status = "RUN" => support = {}
      /\ census.is = "readable" => \A r \in Ids : census.rows[r] = "receipt_valid_confined" => Confined(r)
      /\ lane.hosted /\ tests # {} => proof.status = "RUN" /\ lane.manifest = Preregistered
      /\ lane.hosted /\ lane.step = "over" /\ ~lane.failed =>
           /\ \A r \in Ids : Confined(r)
           /\ \A c \in DOMAIN diag.status : diag.status[c] = "retained"
           /\ support \cup tests = {}
=============================================================================
