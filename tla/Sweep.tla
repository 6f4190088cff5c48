-------------------------------- MODULE Sweep --------------------------------
(***************************************************************************)
(* scripts/run_layer1_sweep.py: a pool of threads verifies the rows of a   *)
(* manifest, each by one verify_test, and the results are kept in memory   *)
(* until the last row is done.  The rows share the clones of the           *)
(* repositories (under a lock), the cache of venvs (module Environment,    *)
(* no lock), the signing key (module Keys, no lock) and the output         *)
(* directory.  The machine may restart in the middle of everything: the    *)
(* disk stays as it was, the pool and its results are gone, and the sweep  *)
(* is run again.  What verify_test makes of its executions is module       *)
(* Verify; here it is any verdict.                                         *)
(***************************************************************************)
EXTENDS Environment, Keys, Consumer

CONSTANTS
  Row,          \* Row[r]: the manifest's entry, see RowEntries
  Repositories,
  Tests,        \* names of test files
  Missing,      \* <<checkout, test>> pairs that are not regular git files
  Given,        \* the verdicts verify_test may come to
  Workers,      \* threads of the pool
  MaxRestarts   \* bound on the restarts of the machine

Catches == {"proven_catch", "reproduction_catch", "collection_catch"}
Definitive == Catches \cup {"refuted", "non_discriminating"}

(* Verdicts whose receipts validate_semantics may reject although          *)
(* verify_test issues them: a collection catch that its reruns do not      *)
(* confirm, a proof graded from output text (KnownGap in module Verify).   *)
Disputed == {"collection_catch", "proven_catch"}

Rows == 1..Cardinality(DOMAIN Row)
NoLock == 0

(* A row: its repository, its two revisions, the test file it declares,    *)
(* and the revision the test is taken from.  A control takes it from the   *)
(* head; a bug row from its base, if the manifest says it was derived by   *)
(* reversing a fix; "explicit" is a test_source_ref.                       *)
RowEntries ==
  [kind : {"bug", "control"}, repo : Repositories, base : Checkouts, head : Checkouts,
   test : Tests, derived : {"explicit", "reversed", "undeclared"}, source : Checkouts]

(* A receipt on disk: who signed it, the row it is about, its verdict, and *)
(* whether validate_semantics finds it consistent.                         *)
EvidenceFiles ==
  [signer : Users \cup {NoSeed}, about : Rows, verdict : Definitive \cup {"none", "inconclusive"},
   semantic : BOOLEAN]

ASSUME SweepAssumption ==
  /\ Procs = Rows /\ Users = Rows
  /\ Row \in [Rows -> RowEntries]
  /\ Missing \subseteq Checkouts \X Tests
  /\ Given \subseteq Definitive \cup {"inconclusive"}
  /\ Workers \in Nat \ {0} /\ MaxRestarts \in Nat
  /\ None \notin Checkouts \cup ((Checkouts \cup {NoCheckout}) \X Tests) \cup EvidenceFiles

SourceRef(r) ==
  CASE Row[r].derived = "explicit" -> Row[r].source
    [] Row[r].kind = "control"     -> Row[r].head
    [] Row[r].derived = "reversed" -> Row[r].base
    [] OTHER                       -> NoCheckout

(* The bytes of a candidate: the blob of its path at its source revision. *)
Material(r) == <<SourceRef(r), Row[r].test>>
Declared(r) == SourceRef(r) # NoCheckout /\ Material(r) \notin Missing

VARIABLES
  clone,     \* each repository's fixture directory: "absent", "partial", "complete"
  cloner,    \* the row that holds repo_clone_lock, or NoLock
  retained,  \* candidate-material: the bytes kept there
  row,       \* each row's thread: where it is, its evidence so far
  evidence,  \* out_dir/<row>_evidence.json, or None
  result,    \* the pool's results, in memory
  summary,   \* sweep_summary.json, or None
  report,    \* the report's headline numbers, or None
  restarts   \* restarts of the machine so far

sweepVars == <<clone, cloner, retained, row, evidence, result, summary, report, restarts>>
vars == <<evars, keyVars, sweepVars>>

Queued == [stage |-> "queued", broken |-> FALSE, partial |-> FALSE, verdict |-> "none"]
NoResult == [verdict |-> "none"]

Init ==
  /\ EnvInit /\ KeysInit
  /\ clone = [x \in Repositories |-> "absent"] /\ cloner = NoLock
  /\ retained = {}
  /\ row = [r \in Rows |-> Queued]
  /\ evidence = [r \in Rows |-> None]
  /\ result = [r \in Rows |-> NoResult]
  /\ summary = None /\ report = None
  /\ restarts = 0

Active(r) == row[r].stage \notin {"queued", "done"}
Move(r, stage) == row' = [row EXCEPT ![r].stage = stage]
Repo(r) == clone[Row[r].repo]
Alone == UNCHANGED <<evars, keyVars>>
Shared == UNCHANGED <<summary, report, restarts>>

(* A row ends with a result; an exception ends it as inconclusive, with no *)
(* artifact, and every other field empty.                                  *)
Settle(r, outcome) ==
  /\ row' = [row EXCEPT ![r] = [Queued EXCEPT !.stage = "done"]]
  /\ result' = [result EXCEPT ![r] = outcome]
Excepted(disposition) ==
  [verdict |-> "inconclusive", disposition |-> disposition, valid |-> FALSE,
   artifact |-> FALSE, partial |-> FALSE]

-----------------------------------------------------------------------------
(* The pool takes the rows in the order of the manifest. *)
StartRow(r) ==
  /\ row[r].stage = "queued"
  /\ \A q \in 1..(r - 1) : row[q].stage # "queued"
  /\ Cardinality({q \in Rows : Active(q)}) < Workers
  /\ Move(r, "resolve")
  /\ Alone /\ Shared /\ UNCHANGED <<clone, cloner, retained, evidence, result>>

(* resolve_fixture_repo looks without the lock, and again under it. *)
FindClone(r) ==
  /\ row[r].stage = "resolve"
  /\ Move(r, IF Repo(r) = "absent" THEN "lock" ELSE "material")
  /\ Alone /\ Shared /\ UNCHANGED <<clone, cloner, retained, evidence, result>>

(* Mutant of LockClone: no second look under the lock. *)
LockCloneOnce(r) ==
  /\ row[r].stage = "lock" /\ cloner = NoLock
  /\ cloner' = r /\ Move(r, "clone")
  /\ clone' = [clone EXCEPT ![Row[r].repo] = IF @ = "absent" THEN "partial" ELSE @]
  /\ Alone /\ Shared /\ UNCHANGED <<retained, evidence, result>>

LockClone(r) ==
  /\ row[r].stage = "lock" /\ cloner = NoLock
  /\ IF Repo(r) = "absent"
       THEN /\ cloner' = r /\ Move(r, "clone")
            /\ clone' = [clone EXCEPT ![Row[r].repo] = "partial"]
       ELSE Move(r, "material") /\ UNCHANGED <<clone, cloner>>
  /\ Alone /\ Shared /\ UNCHANGED <<retained, evidence, result>>

CloneDone(r) ==
  /\ row[r].stage = "clone" /\ Repo(r) = "partial"
  /\ clone' = [clone EXCEPT ![Row[r].repo] = "complete"]
  /\ cloner' = NoLock /\ Move(r, "material")
  /\ Alone /\ Shared /\ UNCHANGED <<retained, evidence, result>>

(* git removes what it made of a clone that fails. *)
CloneFails(r) ==
  /\ row[r].stage = "clone"
  /\ clone' = [clone EXCEPT ![Row[r].repo] = IF @ = "partial" THEN "absent" ELSE @]
  /\ cloner' = NoLock
  /\ Settle(r, Excepted("env_setup_failed"))
  /\ Alone /\ Shared /\ UNCHANGED <<retained, evidence>>

(* pinned_material: a directory with .git is taken for a clone, so a clone *)
(* in progress, or left by a restart, may or may not have the revisions,   *)
(* and one that has failed since is gone again.                            *)
Freeze(r) ==
  /\ row[r].stage = "material" /\ Declared(r) /\ Repo(r) # "absent"
  /\ retained' = retained \cup {Material(r)}
  /\ Move(r, "base")
  /\ Alone /\ Shared /\ UNCHANGED <<clone, cloner, evidence, result>>

MaterialUnavailable(r) ==
  /\ row[r].stage = "material" /\ (~Declared(r) \/ Repo(r) # "complete")
  /\ Settle(r, Excepted("material_unavailable"))
  /\ Alone /\ Shared /\ UNCHANGED <<clone, cloner, retained, evidence>>

-----------------------------------------------------------------------------
(* verify_test provisions the base, then the head; a side that cannot be   *)
(* built is remembered, a refusal leaves verify_test and ends the row.     *)
SideOf(r) == IF row[r].stage = "base" THEN Row[r].base ELSE Row[r].head
Unconfined == [backend |-> "none", pinned |-> FALSE]

Provision(r) ==
  /\ row[r].stage \in {"base", "head"}
  /\ Begin(r, SideOf(r), Unconfined)
  /\ Move(r, IF row[r].stage = "base" THEN "base_env" ELSE "head_env")
  /\ Shared /\ UNCHANGED <<keyVars, clone, cloner, retained, evidence, result>>

(* The row is handed a directory that lacks what its checkout asks for,    *)
(* and no build is at work on it that could still add it.                  *)
HandedPartial(r) ==
  /\ at[r] \in {"cached", "fresh"}
  /\ ~(Present(job[r], RequirementFiles) \cup {"core"} \subseteq Venv(r).has)
  /\ \A q \in Rows : at[q] \in Building => Dir(q) # Dir(r)

Provisioned(r) ==
  /\ row[r].stage \in {"base_env", "head_env"} /\ at[r] \in Provided \cup Failed
  /\ Return(r)
  /\ row' = [row EXCEPT ![r].stage = IF @ = "base_env" THEN "head" ELSE "execute",
                        ![r].broken = @ \/ at[r] \in Failed,
                        ![r].partial = @ \/ HandedPartial(r)]
  /\ Shared /\ UNCHANGED <<keyVars, clone, cloner, retained, evidence, result>>

Refused(r) ==
  /\ row[r].stage \in {"base_env", "head_env"} /\ at[r] \in Refusals
  /\ Return(r)
  /\ Settle(r, Excepted("env_setup_failed"))
  /\ Shared /\ UNCHANGED <<keyVars, clone, cloner, retained, evidence>>

(* Whatever else leaves pinned_material or verify_test ends the row, too.  *)
Raises(r) ==
  /\ row[r].stage \in {"material", "base", "head", "execute"}
  /\ Settle(r, Excepted("env_setup_failed"))
  /\ Alone /\ Shared /\ UNCHANGED <<clone, cloner, retained, evidence>>

(* The verdict of the pair: none without both environments. *)
Execute(r) ==
  /\ row[r].stage = "execute"
  /\ \E verdict \in IF row[r].broken THEN {"inconclusive"}
                    ELSE Given :
       row' = [row EXCEPT ![r].stage = "sign", ![r].verdict = verdict]
  /\ LookForKey(r)
  /\ Shared /\ UNCHANGED <<evars, clone, cloner, retained, evidence, result>>

(* A row's receipt, and what verify_receipt finds when it reads it.  Only  *)
(* a disputed verdict may come with a receipt that contradicts itself.     *)
Evidence(r, semantic) ==
  [signer |-> seed[r], about |-> r, verdict |-> row[r].verdict, semantic |-> semantic]
Issued(r) ==
  {ev \in {Evidence(r, TRUE), Evidence(r, FALSE)} : ev.semantic \/ ev.verdict \in Disputed}
Document(ev) ==
  [input |-> "object", block |-> "ed25519", intact |-> TRUE, signer |-> ev.signer,
   base |-> Row[ev.about].base, head |-> Row[ev.about].head, test |-> Material(ev.about),
   repo |-> Row[ev.about].repo, local |-> FALSE, present |-> TRUE, schema |-> "VALID",
   semantic |-> ev.semantic, refused |-> FALSE, sandbox |-> [mode |-> "off", backend |-> "none", confined |-> "unsaid"]]

(* Mutant of Write: a failed write is not noticed. *)
WriteUnnoticed(r) ==
  /\ row[r].stage = "sign" /\ signing[r] = "ready"
  /\ \/ \E ev \in Issued(r) : evidence' = [evidence EXCEPT ![r] = ev]
     \/ UNCHANGED evidence
  /\ Signed(r) /\ Move(r, "check")
  /\ Shared /\ UNCHANGED <<evars, clone, cloner, retained, result>>

(* The receipt is signed and replaces the row's file. *)
Write(r) ==
  /\ row[r].stage = "sign" /\ signing[r] = "ready"
  /\ \E ev \in Issued(r) : evidence' = [evidence EXCEPT ![r] = ev]
  /\ Signed(r) /\ Move(r, "check")
  /\ Shared /\ UNCHANGED <<evars, clone, cloner, retained, result>>

(* The key is unusable, or the receipt cannot be written: the exception    *)
(* leaves the file of an earlier sweep where it is.                        *)
NotWritten(r) ==
  /\ row[r].stage = "sign" /\ signing[r] \in {"ready", "key_error"}
  /\ Signed(r)
  /\ Settle(r, Excepted("env_setup_failed"))
  /\ Shared /\ UNCHANGED <<evars, clone, cloner, retained, evidence>>

NoQuestion == [form |-> "none", signers |-> {}, base |-> None, head |-> None, test |-> None,
               repo |-> None, remote |-> FALSE, abbreviated |-> FALSE, strict |-> FALSE, confined |-> FALSE]

(* The persisted receipt is read back and held against the frozen material *)
(* and the revisions, then verified.                                       *)
ReadBack(r) ==
  /\ row[r].stage = "check"
  /\ IF evidence[r] # None /\ Document(evidence[r]).test = Material(r)
        /\ Document(evidence[r]).base = Row[r].base /\ Document(evidence[r]).head = Row[r].head
       THEN Settle(r, [verdict |-> row[r].verdict, disposition |-> "verified",
                       valid |-> VerifyReceipt(Document(evidence[r]), NoQuestion),
                       artifact |-> TRUE, partial |-> row[r].partial])
       ELSE Settle(r, Excepted("material_unavailable"))
  /\ Alone /\ Shared /\ UNCHANGED <<clone, cloner, retained, evidence>>

-----------------------------------------------------------------------------
Finished == \A r \in Rows : row[r].stage = "done"
Ruled(kind, verdicts) == {r \in Rows : Row[r].kind = kind /\ result[r].verdict \in verdicts}

(* The two files written at the end. *)
Summarize ==
  /\ Finished /\ summary = None
  /\ summary' = [rows |-> result, caught |-> Ruled("bug", {"proven_catch"}),
                 falseProofs |-> Ruled("control", Catches)]
  /\ Alone /\ UNCHANGED <<clone, cloner, retained, row, evidence, result, report, restarts>>

Report ==
  /\ Finished /\ summary # None /\ report = None
  /\ report' = [definitive |-> {r \in Rows : result[r].verdict # "inconclusive"},
                falseProofs |-> Ruled("control", {"proven_catch", "collection_catch"})]
  /\ Alone /\ UNCHANGED <<clone, cloner, retained, row, evidence, result, summary, restarts>>

(* The machine restarts and the sweep is run again. *)
Restart ==
  /\ restarts < MaxRestarts /\ ~Finished
  /\ restarts' = restarts + 1
  /\ Abandon /\ AbandonKeys
  /\ cloner' = NoLock
  /\ row' = [r \in Rows |-> Queued]
  /\ result' = [r \in Rows |-> NoResult]
  /\ UNCHANGED <<clone, retained, evidence, summary, report>>

RowStep(r) ==
  \/ StartRow(r) \/ FindClone(r) \/ LockClone(r) \/ CloneDone(r) \/ CloneFails(r)
  \/ Freeze(r) \/ MaterialUnavailable(r)
  \/ Provision(r) \/ Provisioned(r) \/ Refused(r) \/ Raises(r)
  \/ Execute(r) \/ Write(r) \/ NotWritten(r) \/ ReadBack(r)
  \/ EnvStep(r) /\ UNCHANGED <<keyVars, sweepVars>>
  \/ KeyStep(r) /\ UNCHANGED <<evars, sweepVars>>

Done == report # None /\ UNCHANGED vars

Next == (\E r \in Rows : RowStep(r)) \/ Summarize \/ Report \/ Restart \/ Done

Spec == Init /\ [][Next]_vars

-----------------------------------------------------------------------------
(* Type invariant of the sweep; the lock is held by the row that clones. *)
TypeOK ==
  /\ KeysTypeOK
  /\ clone \in [Repositories -> {"absent", "partial", "complete"}]
  /\ cloner \in Rows \cup {NoLock}
  /\ \A r \in Rows : cloner = r <=> row[r].stage = "clone"
  /\ retained \subseteq Checkouts \X Tests
  /\ DOMAIN row = Rows /\ DOMAIN evidence = Rows /\ DOMAIN result = Rows
  /\ \A r \in Rows : row[r].broken \in BOOLEAN /\ row[r].partial \in BOOLEAN
  /\ restarts \in 0..MaxRestarts

(* A row gives up on its repository only for a clone that failed: never    *)
(* because another row of the pool had cloned it in the meantime           *)
(* (resolve_fixture_repo's second look under the lock).  It says nothing   *)
(* of a row that is past resolve_fixture_repo: one that found a clone half *)
(* made may still end as MaterialUnavailable.                              *)
NoResolveErrorWithClone ==
  [][\A r \in Rows : row[r].stage \in {"lock", "clone"} /\ row'[r].stage = "done" =>
       Repo(r) # "complete"]_vars

(* What a consumer asks who knows the row and the machine's signing key. *)
PinnedTo(r) ==
  [form |-> "keys", signers |-> {keyFile}, base |-> Row[r].base, head |-> Row[r].head,
   test |-> Material(r), repo |-> Row[r].repo, remote |-> TRUE, abbreviated |-> FALSE, strict |-> TRUE,
   confined |-> FALSE]

(* Every definitive row of a published summary has its receipt on disk,    *)
(* with the same verdict, over retained material.  A consumer who pins the *)
(* row's provenance and the machine's key finds what the summary says of   *)
(* it: verify-receipt accepts a row published as valid, and one that is    *)
(* not, which only a disputed verdict can be, it refuses for its semantics *)
(* and for nothing else.  Only two first users of the key who both found   *)
(* it absent can leave receipts of different signers.  Holds across a      *)
(* restart that leaves earlier receipts in the directory.                  *)
SummaryIsEvidenced ==
  summary # None =>
    \A r \in Rows : summary.rows[r].verdict \in Definitive =>
      /\ evidence[r] # None /\ evidence[r].verdict = summary.rows[r].verdict
      /\ Document(evidence[r]).test \in retained
      /\ summary.rows[r].valid \/ summary.rows[r].verdict \in Disputed
      /\ raced \/ CommandExit(Document(evidence[r]), PinnedTo(r)) =
                    IF summary.rows[r].valid THEN 0 ELSE 5

(* The receipt of one row never passes for another row's. *)
NoSubstitution ==
  \A r, s \in Rows :
    evidence[s] # None /\ CommandExit(Document(evidence[s]), PinnedTo(r)) = 0 =>
      <<Row[s].base, Row[s].head, Material(s)>> = <<Row[r].base, Row[r].head, Material(r)>>

(* "signed refusals are the trust story: jittest does not manufacture      *)
(* verdicts when environments cannot be built" (run_layer1_sweep.py): a    *)
(* row with a definitive verdict was handed environments whose builds had  *)
(* installed what the checkout asks for.  The code breaks it.              *)
NoManufacturedVerdict ==
  \A r \in Rows : result[r].verdict \in Definitive => ~result[r].partial
=============================================================================
