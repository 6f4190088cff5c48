----------------------------- MODULE SweepProofs -----------------------------
(***************************************************************************)
(* What holds of module Sweep for every manifest, pool and set of shared   *)
(* repositories: its rows use the venv cache exactly as module Environment *)
(* lets several processes use it, the clone lock does its work, no receipt *)
(* passes for another row's, and a summary has its evidence.  And of       *)
(* module Cohort for any rows and contexts: what it leaves behind is true. *)
(***************************************************************************)
EXTENDS Sweep, Cohort, EnvironmentProofs

LEMMA RowsHaveEntries ==
  ASSUME NEW r \in Rows
  PROVE  /\ Row[r].base \in Checkouts /\ Row[r].head \in Checkouts /\ Row[r].source \in Checkouts
         /\ Row[r].repo \in Repositories /\ Row[r].test \in Tests
BY SweepAssumption DEF RowEntries

(* A step of the sweep is a step of the cache's users, or leaves them be. *)
LEMMA SweepStepsProvision == [Next]_vars => [EnvNext]_evars
<1> SUFFICES ASSUME [Next]_vars PROVE [EnvNext]_evars
  OBVIOUS
<1>1. Procs = Rows
  BY SweepAssumption
<1>2. ASSUME NEW r \in Rows, RowStep(r) PROVE [EnvNext]_evars
  <2>1. CASE Provision(r)
    <3>1. SideOf(r) \in Checkouts /\ Unconfined \in Plans
      BY RowsHaveEntries DEF SideOf, Unconfined, Plans, Backends
    <3>2. Begin(r, SideOf(r), Unconfined)
      BY <2>1 DEF Provision
    <3> QED BY <1>1, <3>1, <3>2 DEF EnvNext
  <2>2. CASE Provisioned(r) \/ Refused(r)
    BY <1>1, <2>2 DEF Provisioned, Refused, EnvNext
  <2>3. CASE EnvStep(r)
    BY <1>1, <2>3 DEF EnvNext
  <2>4. CASE UNCHANGED evars
    BY <2>4
  <2> QED
    BY <1>2, <2>1, <2>2, <2>3, <2>4 DEF RowStep, StartRow, FindClone, LockClone, CloneDone, CloneFails,
         Freeze, MaterialUnavailable, Raises, Execute, Write, NotWritten, ReadBack, Alone
<1>3. CASE Restart
  BY <1>3 DEF Restart, EnvNext
<1>4. CASE Summarize \/ Report \/ Done \/ UNCHANGED vars
  BY <1>4 DEF Summarize, Report, Done, vars, Alone
<1> QED BY <1>2, <1>3, <1>4 DEF Next

(* The sweep implements the shared use of the venv cache.                  *)
THEOREM SweepImplementsEnvironment == Spec => EnvSafety
<1>1. Init => EnvInit
  BY DEF Init
<1> QED BY <1>1, SweepStepsProvision, PTL DEF Spec, EnvSafety

(* So no row of a sweep is handed a venv whose editable path leads into    *)
(* another checkout, whatever other rows do and whenever the machine       *)
(* restarts (provision_environment called by the pool's threads).          *)
THEOREM SweepKeepsEditablesPrivate == Spec => []EditableIsPrivate
BY SweepImplementsEnvironment, EditableVenvsArePrivate, PTL

(* A build of a row that ended undisturbed installed what was asked for.   *)
THEOREM SweepBuildsAreComplete == Spec => []FreshIsComplete
BY SweepImplementsEnvironment, BuiltVenvsAreComplete, PTL

-----------------------------------------------------------------------------
(* repo_clone_lock: only its holder clones, and the directory is partial   *)
(* for as long as it does.                                                 *)
RowStages == {"queued", "resolve", "lock", "clone", "material", "base", "base_env", "head",
              "head_env", "execute", "sign", "check", "done"}
RowStates == [stage : RowStages, broken : BOOLEAN, partial : BOOLEAN,
              verdict : Definitive \cup {"none", "inconclusive"}]
OneCloner ==
  /\ row \in [Rows -> RowStates]
  /\ clone \in [Repositories -> {"absent", "partial", "complete"}]
  /\ cloner \in Rows \cup {NoLock}
  /\ \A r \in Rows : cloner = r <=> row[r].stage = "clone"
  /\ \A r \in Rows : row[r].stage = "clone" => Repo(r) = "partial"

LEMMA LockIsNoRow == NoLock \notin Rows
BY DEF NoLock, Rows

(* Steps that have nothing to do with the clones move a row from a stage   *)
(* that is not "clone" to another such stage.                              *)
Elsewhere(r) ==
  /\ UNCHANGED <<clone, cloner>>
  /\ row' \in [Rows -> RowStates]
  /\ \A q \in Rows \ {r} : row'[q] = row[q]
  /\ row[r].stage # "clone" /\ row'[r].stage # "clone"

LEMMA ElsewhereKeepsClones ==
  ASSUME OneCloner, NEW r \in Rows, Elsewhere(r)
  PROVE  OneCloner'
<1>1. ASSUME NEW q \in Rows
      PROVE  (row'[q].stage = "clone" <=> row[q].stage = "clone") /\ Repo(q)' = Repo(q)
  <2>1. CASE q = r
    BY <2>1 DEF Elsewhere, Repo
  <2>2. CASE q # r
    BY <2>2 DEF Elsewhere, Repo
  <2> QED BY <2>1, <2>2
<1> QED BY <1>1 DEF OneCloner, Elsewhere

LEMMA OtherStepsAreElsewhere ==
  ASSUME OneCloner, NEW r \in Rows,
         \/ StartRow(r) \/ FindClone(r) \/ Freeze(r) \/ MaterialUnavailable(r)
         \/ Provision(r) \/ Provisioned(r) \/ Refused(r) \/ Raises(r)
         \/ Execute(r) \/ Write(r) \/ NotWritten(r) \/ ReadBack(r)
  PROVE  Elsewhere(r)
<1>0. row \in [Rows -> RowStates]
  BY DEF OneCloner
<1> USE DEF Elsewhere, Move
<1>1. CASE StartRow(r) \/ FindClone(r) \/ Freeze(r) \/ Provision(r) \/ Write(r)
  <2>1. PICK stage \in {"resolve", "lock", "material", "base", "base_env", "head_env", "check"} :
          row' = [row EXCEPT ![r].stage = stage]
    BY <1>1 DEF StartRow, FindClone, Freeze, Provision, Write
  <2>2. row[r].stage # "clone" /\ UNCHANGED <<clone, cloner>>
    BY <1>1 DEF StartRow, FindClone, Freeze, Provision, Write
  <2>3. row' \in [Rows -> RowStates] /\ row'[r].stage = stage
    BY <1>0, <2>1 DEF RowStates, RowStages, Queued
  <2> QED BY <1>0, <2>1, <2>2, <2>3
<1>2. CASE MaterialUnavailable(r) \/ Refused(r) \/ Raises(r) \/ NotWritten(r) \/ ReadBack(r)
  <2>1. row' = [row EXCEPT ![r] = [Queued EXCEPT !.stage = "done"]]
    BY <1>2 DEF MaterialUnavailable, Refused, Raises, NotWritten, ReadBack, Settle
  <2>2. row[r].stage # "clone" /\ UNCHANGED <<clone, cloner>>
    BY <1>2 DEF MaterialUnavailable, Refused, Raises, NotWritten, ReadBack
  <2>3. row' \in [Rows -> RowStates] /\ row'[r].stage = "done"
    BY <1>0, <2>1 DEF RowStates, RowStages, Queued
  <2> QED BY <1>0, <2>1, <2>2, <2>3
<1>3. CASE Provisioned(r)
  <2> DEFINE broken == row[r].broken \/ at[r] \in Failed
             partial == row[r].partial \/ HandedPartial(r)
             stage == IF row[r].stage = "base_env" THEN "head" ELSE "execute"
  <2>1. row' = [row EXCEPT ![r] = [row[r] EXCEPT !.stage = stage, !.broken = broken, !.partial = partial]]
    BY <1>0, <1>3 DEF Provisioned, RowStates
  <2>2. broken \in BOOLEAN /\ partial \in BOOLEAN /\ stage \in RowStages /\ stage # "clone"
    BY DEF RowStages
  <2> HIDE DEF broken, partial, stage
  <2>4. row' \in [Rows -> RowStates] /\ row'[r].stage = stage /\ \A q \in Rows \ {r} : row'[q] = row[q]
    BY <1>0, <2>1, <2>2 DEF RowStates
  <2>3. row[r].stage # "clone" /\ UNCHANGED <<clone, cloner>>
    BY <1>3 DEF Provisioned
  <2> QED BY <2>2, <2>3, <2>4
<1>4. CASE Execute(r)
  <2>1. PICK verdict \in Definitive \cup {"inconclusive"} :
          row' = [row EXCEPT ![r].stage = "sign", ![r].verdict = verdict]
    BY <1>4, SweepAssumption DEF Execute
  <2>2. row' \in [Rows -> RowStates] /\ row'[r].stage = "sign"
    BY <1>0, <2>1 DEF RowStates, RowStages, Definitive, Catches
  <2> QED BY <1>0, <1>4, <2>1, <2>2 DEF Execute
<1> QED BY <1>1, <1>2, <1>3, <1>4

LEMMA CloningStaysAlone ==
  ASSUME OneCloner, NEW r \in Rows, LockClone(r) \/ CloneDone(r) \/ CloneFails(r)
  PROVE  OneCloner'
<1>0. /\ row \in [Rows -> RowStates] /\ Row[r].repo \in Repositories
      /\ clone \in [Repositories -> {"absent", "partial", "complete"}]
  BY RowsHaveEntries DEF OneCloner
<1> DEFINE Others == \A q \in Rows \ {r} : row'[q] = row[q]
<1>1. CASE LockClone(r) /\ Repo(r) = "absent"
  <2>1. /\ row' \in [Rows -> RowStates] /\ row'[r].stage = "clone" /\ Others
        /\ cloner = NoLock /\ cloner' = r
    BY <1>0, <1>1 DEF LockClone, Move, RowStates, RowStages
  <2>2. /\ clone' = [clone EXCEPT ![Row[r].repo] = "partial"]
    BY <1>1 DEF LockClone
  <2>3. \A q \in Rows \ {r} : row[q].stage # "clone"
    BY <2>1, LockIsNoRow DEF OneCloner
  <2>4. clone' \in [Repositories -> {"absent", "partial", "complete"}] /\ Repo(r)' = "partial"
    BY <1>0, <2>2 DEF Repo
  <2>5. \A q \in Rows : (cloner' = q <=> row'[q].stage = "clone")
    BY <2>1, <2>3
  <2>6. \A q \in Rows : row'[q].stage = "clone" => q = r
    BY <2>1, <2>3
  <2>7. \A q \in Rows : row'[q].stage = "clone" => Repo(q)' = "partial"
    BY <2>4, <2>6
  <2>8. cloner' \in Rows \cup {NoLock}
    BY <2>1
  <2> QED BY <2>1, <2>4, <2>5, <2>7, <2>8 DEF OneCloner
<1>2. CASE LockClone(r) /\ Repo(r) # "absent"
  <2>1. /\ row' \in [Rows -> RowStates] /\ row'[r].stage = "material" /\ Others
        /\ row[r].stage # "clone" /\ UNCHANGED <<clone, cloner>>
    BY <1>0, <1>2 DEF LockClone, Move, RowStates, RowStages
  <2> QED BY <2>1, ElsewhereKeepsClones DEF Elsewhere
<1>3. CASE CloneDone(r) \/ CloneFails(r)
  <2>1. /\ row' \in [Rows -> RowStates] /\ row'[r].stage # "clone" /\ Others
    <3>1. CASE CloneDone(r)
      BY <1>0, <3>1 DEF CloneDone, Move, RowStates, RowStages
    <3>2. CASE CloneFails(r)
      BY <1>0, <3>2 DEF CloneFails, Settle, Queued, RowStates, RowStages
    <3> QED BY <1>3, <3>1, <3>2
  <2>2. cloner' = NoLock /\ row[r].stage = "clone"
    BY <1>3 DEF CloneDone, CloneFails
  <2>3. \A q \in Rows \ {r} : row'[q].stage # "clone"
    BY <2>1, <2>2 DEF OneCloner
  <2>4. clone' \in [Repositories -> {"absent", "partial", "complete"}]
    BY <1>0, <1>3 DEF CloneDone, CloneFails
  <2> QED BY <2>1, <2>2, <2>3, <2>4, LockIsNoRow DEF OneCloner
<1> QED BY <1>1, <1>2, <1>3

LEMMA OneClonerStays == OneCloner /\ [Next]_vars => OneCloner'
<1> SUFFICES ASSUME OneCloner, [Next]_vars PROVE OneCloner'
  OBVIOUS
<1>1. ASSUME NEW r \in Rows, RowStep(r) PROVE OneCloner'
  <2>1. CASE UNCHANGED sweepVars
    BY <2>1 DEF sweepVars, OneCloner, Repo
  <2> QED BY <1>1, <2>1, CloningStaysAlone, OtherStepsAreElsewhere, ElsewhereKeepsClones DEF RowStep
<1>2. CASE Restart
  <2>1. /\ row' = [r \in Rows |-> Queued] /\ cloner' = NoLock /\ clone' = clone
    BY <1>2 DEF Restart
  <2> QED BY <2>1, LockIsNoRow DEF OneCloner, Queued, RowStates, RowStages
<1>3. CASE Summarize \/ Report \/ Done \/ UNCHANGED vars
  BY <1>3 DEF Summarize, Report, Done, vars, sweepVars, OneCloner, Repo
<1> QED BY <1>1, <1>2, <1>3 DEF Next

(* A row that waits for the lock or clones gives up only where there is no *)
(* clone: never because another row made it in the meantime                *)
(* (resolve_fixture_repo looks again under the lock).                      *)
THEOREM NoRowGivesUpOnAClone == Spec => NoResolveErrorWithClone
<1>1. Init => OneCloner
  BY LockIsNoRow DEF Init, OneCloner, Queued, RowStates, RowStages
<1>2. OneCloner /\ [Next]_vars =>
        [\A r \in Rows : row[r].stage \in {"lock", "clone"} /\ row'[r].stage = "done" =>
           Repo(r) # "complete"]_vars
  <2> SUFFICES ASSUME OneCloner, Next, NEW r \in Rows, row[r].stage \in {"lock", "clone"},
                      row'[r].stage = "done"
               PROVE  Repo(r) # "complete"
    OBVIOUS
  <2>1. row \in [Rows -> RowStates] /\ (row[r].stage = "clone" => Repo(r) = "partial")
    BY DEF OneCloner
  <2>2. CASE row[r].stage = "clone"
    BY <2>1, <2>2
  <2>3. CASE row[r].stage = "lock"
    <3>1. ASSUME NEW q \in Rows, RowStep(q) PROVE FALSE
      <4>1. CASE q # r
        <5>1. row'[r] = row[r]
          BY <2>1, <3>1, <4>1, OtherStepsAreElsewhere DEF RowStep, Elsewhere, LockClone, CloneDone,
             CloneFails, Move, Settle, sweepVars
        <5> QED BY <2>3, <5>1
      <4>2. CASE q = r
        <5>1. LockClone(r) \/ UNCHANGED row
          BY <2>3, <3>1, <4>2 DEF RowStep, StartRow, FindClone, CloneDone, CloneFails, Freeze,
             MaterialUnavailable, Raises, Provision, Provisioned, Refused, Execute, Write, NotWritten,
             ReadBack, sweepVars
        <5>2. row' = row \/ \E stage \in {"clone", "material"} : row' = [row EXCEPT ![r].stage = stage]
          BY <5>1 DEF LockClone, Move
        <5> QED BY <2>1, <2>3, <5>2 DEF RowStates
      <4> QED BY <4>1, <4>2
    <3>2. ~Summarize /\ ~Report /\ ~Done /\ ~Restart
      BY <2>1, <2>3 DEF Summarize, Report, Done, Restart, vars, sweepVars, Queued
    <3> QED BY <3>1, <3>2 DEF Next
  <2> QED BY <2>2, <2>3
<1> QED BY <1>1, <1>2, OneClonerStays, PTL DEF Spec, NoResolveErrorWithClone

-----------------------------------------------------------------------------
(* A row writes its own receipt to its own file, and nobody else does. *)
ReceiptsAreOwn ==
  /\ evidence = [r \in Rows |-> evidence[r]]
  /\ \A r \in Rows : evidence[r] # None => evidence[r].about = r

LEMMA IssuedReceipts ==
  ASSUME NEW r, NEW ev \in Issued(r)
  PROVE  /\ ev \in [signer : {seed[r]}, about : {r}, verdict : {row[r].verdict}, semantic : BOOLEAN]
         /\ ev.about = r /\ ev.signer = seed[r] /\ ev.verdict = row[r].verdict
         /\ ev.semantic \/ row[r].verdict \in Disputed
<1>1. ev.semantic \/ ev.verdict \in Disputed  BY DEF Issued
<1>2. CASE ev = Evidence(r, TRUE)  BY <1>1, <1>2 DEF Evidence
<1>3. CASE ev = Evidence(r, FALSE)  BY <1>1, <1>3 DEF Evidence
<1>. QED  BY <1>2, <1>3 DEF Issued

LEMMA ReceiptsStayOwn == ReceiptsAreOwn /\ [Next]_vars => ReceiptsAreOwn'
<1> SUFFICES ASSUME ReceiptsAreOwn, [Next]_vars PROVE ReceiptsAreOwn'
  OBVIOUS
<1>1. CASE UNCHANGED evidence
  BY <1>1 DEF ReceiptsAreOwn
<1>2. ASSUME NEW r \in Rows, Write(r) PROVE ReceiptsAreOwn'
  <2>1. PICK ev \in Issued(r) : evidence' = [evidence EXCEPT ![r] = ev]
    BY <1>2 DEF Write
  <2>2. ev.about = r
    BY IssuedReceipts
  <2> QED BY <2>1, <2>2 DEF ReceiptsAreOwn
<1> QED
  BY <1>1, <1>2 DEF Next, RowStep, StartRow, FindClone, LockClone, CloneDone, CloneFails, Freeze,
       MaterialUnavailable, Raises, Provision, Provisioned, Refused, Execute, NotWritten, ReadBack, sweepVars,
       Summarize, Report, Restart, Done, vars

(* A consumer who states revisions and a test is not satisfied by others.  *)
LEMMA AcceptedMeansMatched ==
  ASSUME NEW doc, NEW asked, CommandExit(doc, asked) = 0
  PROVE  Mismatched(doc, asked) = {}
<1>1. ProvenanceStatus(doc, asked) \notin {"MISMATCH", "UNRESOLVABLE"}
  BY DEF CommandExit
<1>2. CASE Expecting(asked) = {}
  BY <1>2 DEF Mismatched
<1>3. CASE Expecting(asked) # {}
  BY <1>1, <1>3 DEF ProvenanceStatus
<1> QED BY <1>2, <1>3

(* Whoever pins a row's revisions and test accepts no other row's receipt  *)
(* (verify_receipt's provenance check, cli._cmd_verify_receipt).           *)
THEOREM NoReceiptStandsIn == Spec => []NoSubstitution
<1>1. Init => ReceiptsAreOwn
  BY DEF Init, ReceiptsAreOwn
<1>2. ReceiptsAreOwn => NoSubstitution
  <2> SUFFICES ASSUME ReceiptsAreOwn, NEW r \in Rows, NEW s \in Rows, evidence[s] # None,
                      CommandExit(Document(evidence[s]), PinnedTo(r)) = 0
               PROVE  Row[s].base = Row[r].base /\ Row[s].head = Row[r].head /\ Material(s) = Material(r)
    BY DEF NoSubstitution
  <2>1. /\ Document(evidence[s]).base = Row[s].base /\ Document(evidence[s]).head = Row[s].head
        /\ Document(evidence[s]).test = Material(s)
    BY DEF ReceiptsAreOwn, Document
  <2>2. /\ PinnedTo(r).base = Row[r].base /\ PinnedTo(r).head = Row[r].head
        /\ PinnedTo(r).test = Material(r)
    BY DEF PinnedTo
  <2>3. Row[r].base # None /\ Row[r].head # None /\ Material(r) # None
    <3>1. SourceRef(r) \in Checkouts \cup {NoCheckout}
      BY RowsHaveEntries DEF SourceRef
    <3>2. Material(r) \in (Checkouts \cup {NoCheckout}) \X Tests
      BY <3>1, RowsHaveEntries DEF Material
    <3> QED BY <3>2, RowsHaveEntries, SweepAssumption
  <2>4. {"base", "head", "test"} \subseteq Expecting(PinnedTo(r))
    BY <2>2, <2>3 DEF Expecting
  <2>5. \A f \in {"base", "head", "test"} : PinnedTo(r)[f] = Document(evidence[s])[f]
    BY <2>4, AcceptedMeansMatched DEF Mismatched
  <2> QED BY <2>1, <2>2, <2>5
<1> QED BY <1>1, <1>2, ReceiptsStayOwn, PTL DEF Spec
-----------------------------------------------------------------------------
(* The signing key: unless two users found the file absent together, one   *)
(* of them at most creates it, and whoever is ready has what the file has. *)
KeyFits(u) ==
  /\ signing[u] = "open" => keyFile = NoKey
  /\ signing[u] = "write" => keyFile = EmptyKey
  /\ signing[u] = "ready" => seed[u] = keyFile /\ keyFile \in Users
KeyIsShared ==
  /\ KeysTypeOK
  /\ \A u \in Users : signing[u] = "read" => keyFile # NoKey
  /\ ~raced => /\ \A u, v \in Users : Creating(u) /\ Creating(v) => u = v
               /\ \A u \in Users : KeyFits(u)

(* A receipt on disk that stands for a verdict of this run of the sweep. *)
Stands(r, verdict) ==
  /\ evidence[r] # None /\ evidence[r].verdict = verdict
  /\ Material(r) \in retained
  /\ evidence[r].semantic \/ verdict \in Disputed
  /\ raced \/ (evidence[r].signer = keyFile /\ keyFile \in Users)
Published(r) == Stands(r, result[r].verdict) /\ (result[r].valid <=> evidence[r].semantic)
PastMaterial == {"base", "base_env", "head", "head_env", "execute", "sign", "check"}
RowsAreEvidenced ==
  /\ result = [r \in Rows |-> result[r]]
  /\ \A r \in Rows :
       /\ row[r].stage \in PastMaterial => Material(r) \in retained
       /\ row[r].stage = "check" => Stands(r, row[r].verdict)
       /\ row[r].stage # "done" => result[r] = NoResult
       /\ result[r].verdict \in Definitive => Published(r)
SummaryIsFinal == summary # None => Finished /\ summary.rows = result
SweepInv == OneCloner /\ ReceiptsAreOwn /\ KeyIsShared /\ RowsAreEvidenced /\ SummaryIsFinal

(* What a step may do to a key that is there: nothing, unless users raced. *)
KeyKept == (raced => raced') /\ (raced' \/ keyFile \notin Users \/ keyFile' = keyFile)

(* A user moves, the others stay where they are. *)
LEMMA UserMoves ==
  ASSUME KeyIsShared, NEW u \in Users, NEW stage \in SigningStages, signing' = [signing EXCEPT ![u] = stage],
         KeysTypeOK', raced => raced', raced' \/ keyFile \notin Users \/ keyFile' = keyFile,
         \A v \in Users \ {u} : seed'[v] = seed[v],
         keyFile' # NoKey \/ (keyFile' = keyFile /\ stage # "read"),
         ~raced' => /\ stage \in {"open", "write"} => \A v \in Users \ {u} : ~Creating(v)
                    /\ keyFile' = keyFile \/ \A v \in Users \ {u} : ~Creating(v) /\ signing[v] # "ready"
                    /\ KeyFits(u)'
  PROVE  KeyIsShared' /\ KeyKept
<1>. USE DEF KeyIsShared
<1>1. signing \in [Users -> SigningStages]  BY DEF KeysTypeOK
<1>2. signing'[u] = stage /\ \A v \in Users \ {u} : signing'[v] = signing[v] /\ (Creating(v)' <=> Creating(v))
  BY <1>1 DEF Creating
<1>3. ASSUME ~raced', NEW v \in Users, NEW w \in Users, Creating(v)', Creating(w)' PROVE v = w
  <2>1. CASE v = u \/ w = u
    <3>1. stage \in {"open", "write"}  BY <1>2, <1>3, <2>1 DEF Creating
    <3>. QED  BY <1>2, <1>3, <3>1
  <2>2. CASE v # u /\ w # u  BY <1>2, <1>3, <2>2
  <2>. QED  BY <2>1, <2>2
<1>4. ASSUME ~raced', NEW v \in Users PROVE KeyFits(v)'
  <2>1. CASE v = u  BY <1>4, <2>1
  <2>2. CASE v # u
    <3>1. KeyFits(v) /\ signing'[v] = signing[v] /\ seed'[v] = seed[v]  BY <1>2, <1>4, <2>2
    <3>2. CASE keyFile' = keyFile  BY <3>1, <3>2 DEF KeyFits
    <3>3. CASE keyFile' # keyFile
      <4>1. ~Creating(v) /\ signing[v] # "ready"  BY <1>4, <2>2, <3>3
      <4>. QED  BY <3>1, <4>1 DEF KeyFits, Creating
    <3>. QED  BY <3>2, <3>3
  <2>. QED  BY <2>1, <2>2
<1>5. ASSUME NEW v \in Users, signing'[v] = "read" PROVE keyFile' # NoKey
  BY <1>2, <1>5
<1>. QED  BY <1>3, <1>4, <1>5 DEF KeyKept

LEMMA KeysStayShared ==
  ASSUME KeyIsShared, NEW u \in Users, LookForKey(u) \/ KeyStep(u) \/ Signed(u)
  PROVE  KeyIsShared' /\ KeyKept
<1>0. /\ keyFile \in {NoKey, EmptyKey} \cup Users /\ signing \in [Users -> SigningStages] /\ raced \in BOOLEAN
      /\ seed \in [Users -> Users \cup {NoSeed}]
      /\ signing[u] = "read" => keyFile # NoKey
      /\ NoKey \notin Users /\ EmptyKey \notin Users /\ NoKey # EmptyKey
      /\ ~raced => KeyFits(u) /\ \A v \in Users : KeyFits(v) /\ (Creating(u) /\ Creating(v) => u = v)
  BY KeysAssumption DEF KeyIsShared, KeysTypeOK
<1>1. CASE LookForKey(u)
  <2>. DEFINE stage == IF keyFile = NoKey THEN "open" ELSE "read"
  <2>1. /\ signing' = [signing EXCEPT ![u] = stage] /\ UNCHANGED <<keyFile, seed>>
        /\ raced' = (raced \/ (keyFile = NoKey /\ \E v \in Users \ {u} : Creating(v)))
    BY <1>1 DEF LookForKey, Sets
  <2>2. stage \in SigningStages /\ (stage = "open" <=> keyFile = NoKey) /\ stage \in {"open", "read"}
    BY DEF SigningStages
  <2>. HIDE DEF stage
  <2>3. KeysTypeOK' /\ signing'[u] = stage  BY <1>0, <2>1, <2>2 DEF KeysTypeOK
  <2>4. KeyFits(u)'  BY <2>1, <2>2, <2>3 DEF KeyFits
  <2>5. ~raced' /\ stage \in {"open", "write"} => \A v \in Users \ {u} : ~Creating(v)  BY <2>1, <2>2
  <2>. QED  BY <2>1, <2>2, <2>3, <2>4, <2>5, UserMoves
<1>2. CASE ReadKey(u)
  <2>1. signing[u] = "read" /\ UNCHANGED <<keyFile, raced>>  BY <1>2 DEF ReadKey
  <2>2. CASE keyFile = EmptyKey
    <3>1. signing' = [signing EXCEPT ![u] = "key_error"] /\ seed' = seed  BY <1>2, <2>2 DEF ReadKey, Sets
    <3>2. KeysTypeOK' /\ signing'[u] = "key_error" /\ "key_error" \in SigningStages
      BY <1>0, <2>1, <3>1 DEF KeysTypeOK, SigningStages
    <3>3. KeyFits(u)'  BY <3>2 DEF KeyFits
    <3>. QED  BY <2>1, <3>1, <3>2, <3>3, UserMoves
  <2>3. CASE keyFile # EmptyKey
    <3>1. signing' = [signing EXCEPT ![u] = "ready"] /\ seed' = [seed EXCEPT ![u] = keyFile]
      BY <1>2, <2>3 DEF ReadKey, Sets
    <3>2. signing'[u] = "ready" /\ seed'[u] = keyFile /\ "ready" \in SigningStages
      BY <1>0, <3>1 DEF SigningStages
    <3>3. keyFile \in Users  BY <1>0, <2>1, <2>3
    <3>4. KeysTypeOK'  BY <1>0, <2>1, <3>1, <3>2, <3>3 DEF KeysTypeOK
    <3>5. KeyFits(u)'  BY <2>1, <3>2, <3>3 DEF KeyFits
    <3>6. \A v \in Users \ {u} : seed'[v] = seed[v]  BY <1>0, <3>1
    <3>. QED  BY <1>0, <2>1, <3>1, <3>2, <3>3, <3>4, <3>5, <3>6, UserMoves
  <2>. QED  BY <2>2, <2>3
<1>3. CASE OpenKey(u)
  <2>1. signing[u] = "open" /\ keyFile' = EmptyKey /\ signing' = [signing EXCEPT ![u] = "write"] /\ UNCHANGED <<seed, raced>>
    BY <1>3 DEF OpenKey, Sets
  <2>2. KeysTypeOK' /\ signing'[u] = "write" /\ "write" \in SigningStages  BY <1>0, <2>1 DEF KeysTypeOK, SigningStages
  <2>3. KeyFits(u)'  BY <2>1, <2>2 DEF KeyFits
  <2>4. ~raced => keyFile = NoKey /\ \A v \in Users \ {u} : ~Creating(v) /\ signing[v] # "ready"
    BY <1>0, <2>1 DEF KeyFits, Creating
  <2>5. raced \/ keyFile \notin Users  BY <1>0, <2>4
  <2>. QED  BY <1>0, <2>1, <2>2, <2>3, <2>4, <2>5, UserMoves
<1>4. CASE WriteKey(u)
  <2>1. /\ signing[u] = "write" /\ keyFile' = u /\ seed' = [seed EXCEPT ![u] = u] /\ raced' = raced
        /\ signing' = [signing EXCEPT ![u] = "ready"]
    BY <1>4 DEF WriteKey, Sets
  <2>2. KeysTypeOK' /\ signing'[u] = "ready" /\ seed'[u] = u /\ "ready" \in SigningStages
    BY <1>0, <2>1 DEF KeysTypeOK, SigningStages
  <2>3. KeyFits(u)' /\ \A v \in Users \ {u} : seed'[v] = seed[v]  BY <1>0, <2>1, <2>2 DEF KeyFits
  <2>4. ~raced => keyFile = EmptyKey /\ \A v \in Users \ {u} : ~Creating(v) /\ signing[v] # "ready"
    BY <1>0, <2>1 DEF KeyFits, Creating
  <2>5. raced \/ keyFile \notin Users  BY <1>0, <2>4
  <2>6. keyFile' # NoKey  BY <1>0, <2>1
  <2>. QED  BY <2>1, <2>2, <2>3, <2>4, <2>5, <2>6, UserMoves
<1>5. CASE Signed(u)
  <2>1. signing' = [signing EXCEPT ![u] = "idle"] /\ seed' = [seed EXCEPT ![u] = NoSeed] /\ UNCHANGED <<keyFile, raced>>
    BY <1>5 DEF Signed, Sets
  <2>2. KeysTypeOK' /\ signing'[u] = "idle" /\ "idle" \in SigningStages  BY <1>0, <2>1 DEF KeysTypeOK, SigningStages
  <2>3. KeyFits(u)' /\ \A v \in Users \ {u} : seed'[v] = seed[v]  BY <1>0, <2>1, <2>2 DEF KeyFits
  <2>. QED  BY <2>1, <2>2, <2>3, UserMoves
<1>. QED  BY <1>1, <1>2, <1>3, <1>4, <1>5 DEF KeyStep

LEMMA KeysAbandoned == ASSUME KeyIsShared, AbandonKeys PROVE KeyIsShared'
<1>1. signing' = [u \in Users |-> "idle"] /\ seed' = [u \in Users |-> NoSeed] /\ UNCHANGED <<keyFile, raced>>
  BY DEF AbandonKeys
<1>2. KeysTypeOK'  BY <1>1 DEF KeyIsShared, KeysTypeOK, SigningStages
<1>. QED  BY <1>1, <1>2 DEF KeyIsShared, KeyFits, Creating

(* Each step of a row uses the key as module Keys says, or leaves it be. *)
LEMMA RowsUseKeys ==
  ASSUME KeyIsShared, NEW r \in Rows, RowStep(r)
  PROVE  KeyIsShared' /\ KeyKept
<1>1. r \in Users  BY SweepAssumption
<1>2. CASE UNCHANGED keyVars
  BY <1>2 DEF keyVars, KeyIsShared, KeyFits, KeysTypeOK, Creating, KeyKept
<1>. QED
  BY <1>1, <1>2, KeysStayShared DEF RowStep, StartRow, FindClone, LockClone, CloneDone, CloneFails, Freeze, MaterialUnavailable,
     Raises, Provision, Provisioned, Refused, Execute, Write, NotWritten, ReadBack, Alone

LEMMA StandsOn ==
  ASSUME NEW r \in Rows, NEW verdict, Stands(r, verdict), evidence'[r] = evidence[r], retained \subseteq retained', KeyKept
  PROVE  Stands(r, verdict)'
BY DEF Stands, KeyKept

(* What a step of a row leaves alone. *)
LEMMA OthersStay ==
  ASSUME SweepInv, NEW r \in Rows, RowStep(r)
  PROVE  /\ row' \in [Rows -> RowStates] /\ \A q \in Rows \ {r} : row'[q] = row[q]
         /\ retained \subseteq retained'
         /\ result' = [q \in Rows |-> result'[q]] /\ \A q \in Rows \ {r} : result'[q] = result[q]
         /\ \A q \in Rows \ {r} : evidence'[q] = evidence[q]
<1>. USE DEF SweepInv
<1>0. /\ OneCloner /\ row \in [Rows -> RowStates] /\ result = [q \in Rows |-> result[q]]
      /\ evidence = [q \in Rows |-> evidence[q]]
  BY DEF OneCloner, RowsAreEvidenced, ReceiptsAreOwn
<1>1. row' \in [Rows -> RowStates] /\ \A q \in Rows \ {r} : row'[q] = row[q]
  <2>1. CASE LockClone(r) \/ CloneDone(r)
    <3>1. PICK stage \in RowStages : row' = [row EXCEPT ![r].stage = stage]
      BY <2>1 DEF LockClone, CloneDone, Move, RowStages
    <3>. QED  BY <1>0, <3>1 DEF RowStates
  <2>2. CASE CloneFails(r)
    <3>1. row' = [row EXCEPT ![r] = [Queued EXCEPT !.stage = "done"]]  BY <2>2 DEF CloneFails, Settle
    <3>. QED  BY <1>0, <3>1 DEF Queued, RowStates, RowStages
  <2>3. CASE UNCHANGED sweepVars  BY <1>0, <2>3 DEF sweepVars
  <2>. QED  BY <1>0, <2>1, <2>2, <2>3, OtherStepsAreElsewhere DEF RowStep, Elsewhere
<1>2. retained \subseteq retained'
  BY DEF RowStep, StartRow, FindClone, LockClone, CloneDone, CloneFails, Freeze, MaterialUnavailable,
     Raises, Provision, Provisioned, Refused, Execute, Write, NotWritten, ReadBack, sweepVars
<1>3. result' = result \/ \E outcome : result' = [result EXCEPT ![r] = outcome]
  BY DEF RowStep, StartRow, FindClone, LockClone, CloneDone, CloneFails, Freeze, MaterialUnavailable,
     Raises, Provision, Provisioned, Refused, Execute, Write, NotWritten, ReadBack, sweepVars, Settle
<1>4. evidence' = evidence \/ \E ev : evidence' = [evidence EXCEPT ![r] = ev]
  BY DEF RowStep, StartRow, FindClone, LockClone, CloneDone, CloneFails, Freeze, MaterialUnavailable,
     Raises, Provision, Provisioned, Refused, Execute, Write, NotWritten, ReadBack, sweepVars
<1>5. result' = [q \in Rows |-> result'[q]] /\ \A q \in Rows \ {r} : result'[q] = result[q]  BY <1>0, <1>3
<1>6. \A q \in Rows \ {r} : evidence'[q] = evidence[q]  BY <1>0, <1>4
<1>. QED  BY <1>1, <1>2, <1>5, <1>6

(* What is known of one row. *)
Known(r) ==
  /\ row[r].stage \in PastMaterial => Material(r) \in retained
  /\ row[r].stage = "check" => Stands(r, row[r].verdict)
  /\ row[r].stage # "done" => result[r] = NoResult
  /\ result[r].verdict \in Definitive => Published(r)

LEMMA OthersStayKnown ==
  ASSUME SweepInv, NEW r \in Rows, RowStep(r), KeyKept, Known(r)'
  PROVE  RowsAreEvidenced'
<1>1. ASSUME NEW q \in Rows PROVE Known(q)'
  <2>1. CASE q = r  BY <2>1
  <2>2. CASE q # r
    <3>1. Known(q)  BY DEF SweepInv, RowsAreEvidenced, Known
    <3>2. row'[q] = row[q] /\ result'[q] = result[q] /\ evidence'[q] = evidence[q] /\ retained \subseteq retained'
      BY <2>2, OthersStay
    <3>3. ASSUME NEW verdict, Stands(q, verdict) PROVE Stands(q, verdict)'  BY <3>2, <3>3, StandsOn
    <3>. QED  BY <3>1, <3>2, <3>3 DEF Known, Published
  <2>. QED  BY <2>1, <2>2
<1>2. result' = [q \in Rows |-> result'[q]]  BY OthersStay
<1>. QED  BY <1>1, <1>2 DEF RowsAreEvidenced, Known

(* A row on its way has no result yet. *)
LEMMA OnItsWay ==
  ASSUME SweepInv, NEW r \in Rows, row'[r].stage # "done", row'[r].stage # "check", row[r].stage # "done", result' = result,
         row'[r].stage \in PastMaterial => Material(r) \in retained'
  PROVE  Known(r)'
<1>1. result'[r] = NoResult  BY DEF SweepInv, RowsAreEvidenced
<1>2. result'[r].verdict \notin Definitive  BY <1>1 DEF NoResult, Definitive, Catches
<1>. QED  BY <1>1, <1>2 DEF Known

(* A row that ends without a verdict. *)
LEMMA EndsWithout ==
  ASSUME SweepInv, NEW r \in Rows, NEW disposition, Settle(r, Excepted(disposition))
  PROVE  Known(r)'
<1>1. row' = [row EXCEPT ![r] = [Queued EXCEPT !.stage = "done"]] /\ result' = [result EXCEPT ![r] = Excepted(disposition)]
  BY DEF Settle
<1>2. row \in [Rows -> RowStates] /\ result = [q \in Rows |-> result[q]]  BY DEF SweepInv, OneCloner, RowsAreEvidenced
<1>3. row'[r].stage = "done" /\ result'[r].verdict = "inconclusive"  BY <1>1, <1>2 DEF Queued, Excepted
<1>. QED  BY <1>3 DEF Known, PastMaterial, Definitive, Catches

(* Whoever asks nothing is told what validate_semantics says. *)
LEMMA ValidMeansSemantic ==
  ASSUME NEW ev
  PROVE  VerifyReceipt(Document(ev), NoQuestion) <=> ev.semantic
<1>. DEFINE doc == Document(ev)
<1>1. /\ doc.input = "object" /\ doc.block = "ed25519" /\ doc.intact = TRUE /\ doc.schema = "VALID"
      /\ doc.semantic = ev.semantic
  BY DEF Document
<1>. HIDE DEF doc
<1>2. NoQuestion.strict = FALSE /\ NoQuestion.confined = FALSE /\ Expecting(NoQuestion) = {}
  BY DEF NoQuestion, Expecting
<1>3. VerifyReceipt(doc, NoQuestion) <=> ev.semantic
  BY <1>1, <1>2 DEF VerifyReceipt, SignatureFault, SchemaOK, ProvenanceStatus
<1>. QED  BY <1>3 DEF doc

LEMMA RowStaysKnown ==
  ASSUME SweepInv, NEW r \in Rows, RowStep(r), KeyKept
  PROVE  Known(r)'
<1>. USE DEF SweepInv
<1>0. /\ row \in [Rows -> RowStates] /\ result = [q \in Rows |-> result[q]] /\ evidence = [q \in Rows |-> evidence[q]]
      /\ Known(r) /\ retained \subseteq retained'
  BY OthersStay DEF OneCloner, RowsAreEvidenced, ReceiptsAreOwn, Known
<1>1. CASE StartRow(r) \/ FindClone(r) \/ LockClone(r) \/ CloneDone(r)
  <2>1. PICK stage \in {"resolve", "lock", "clone", "material"} : row' = [row EXCEPT ![r].stage = stage]
    BY <1>1 DEF StartRow, FindClone, LockClone, CloneDone, Move
  <2>2. row'[r].stage = stage  BY <1>0, <2>1 DEF RowStates
  <2>3. row[r].stage # "done" /\ result' = result  BY <1>1 DEF StartRow, FindClone, LockClone, CloneDone
  <2>. QED  BY <2>2, <2>3, OnItsWay DEF PastMaterial
<1>2. CASE Freeze(r)
  <2>1. row' = [row EXCEPT ![r].stage = "base"] /\ Material(r) \in retained' /\ result' = result /\ row[r].stage = "material"
    BY <1>2 DEF Freeze, Move
  <2>2. row'[r].stage = "base"  BY <1>0, <2>1 DEF RowStates
  <2>. QED  BY <2>1, <2>2, OnItsWay
<1>3. CASE CloneFails(r) \/ MaterialUnavailable(r) \/ Refused(r) \/ Raises(r) \/ NotWritten(r)
  BY <1>3, EndsWithout DEF CloneFails, MaterialUnavailable, Refused, Raises, NotWritten
<1>4. CASE Provision(r) \/ Provisioned(r) \/ Execute(r)
  <2>1. row[r].stage \in PastMaterial \ {"check"} /\ result' = result
    BY <1>4 DEF Provision, Provisioned, Execute, PastMaterial
  <2>2. row'[r].stage \in {"base_env", "head_env", "head", "execute", "sign"}
    <3>1. CASE Provision(r)
      <4>1. PICK stage \in {"base_env", "head_env"} : row' = [row EXCEPT ![r].stage = stage]  BY <3>1 DEF Provision, Move
      <4>. QED  BY <1>0, <4>1 DEF RowStates
    <3>2. CASE Provisioned(r)
      <4>. DEFINE broken == row[r].broken \/ at[r] \in Failed
                  partial == row[r].partial \/ HandedPartial(r)
                  stage == IF row[r].stage = "base_env" THEN "head" ELSE "execute"
      <4>1. row' = [row EXCEPT ![r] = [row[r] EXCEPT !.stage = stage, !.broken = broken, !.partial = partial]]
        BY <1>0, <3>2 DEF Provisioned, RowStates
      <4>2. stage \in {"head", "execute"}  OBVIOUS
      <4>. HIDE DEF broken, partial, stage
      <4>3. row'[r].stage = stage  BY <1>0, <4>1 DEF RowStates
      <4>. QED  BY <4>2, <4>3
    <3>3. CASE Execute(r)
      <4>1. PICK verdict : row' = [row EXCEPT ![r].stage = "sign", ![r].verdict = verdict]  BY <3>3 DEF Execute
      <4>. QED  BY <1>0, <4>1 DEF RowStates
    <3>. QED  BY <1>4, <3>1, <3>2, <3>3
  <2>3. Material(r) \in retained'  BY <1>0, <2>1 DEF Known
  <2>. QED  BY <2>1, <2>2, <2>3, OnItsWay DEF PastMaterial
<1>5. CASE Write(r)
  <2>0. PICK ev \in Issued(r) : evidence' = [evidence EXCEPT ![r] = ev]  BY <1>5 DEF Write
  <2>1. /\ row[r].stage = "sign" /\ signing[r] = "ready"
        /\ row' = [row EXCEPT ![r].stage = "check"] /\ result' = result
        /\ UNCHANGED <<keyFile, raced, retained>>
    BY <1>5 DEF Write, Signed, Move
  <2>2. row'[r].stage = "check" /\ row'[r].verdict = row[r].verdict /\ evidence'[r] = ev
    BY <1>0, <2>0, <2>1 DEF RowStates
  <2>3. Material(r) \in retained' /\ result'[r] = NoResult  BY <1>0, <2>1 DEF Known, PastMaterial
  <2>4. r \in Users  BY SweepAssumption
  <2>5. seed[r] \in Users \cup {NoSeed} /\ row[r].verdict \in Definitive \cup {"none", "inconclusive"}
    BY <1>0, <2>4 DEF KeyIsShared, KeysTypeOK, RowStates
  <2>6. ev \in EvidenceFiles  BY <1>0, <2>5, IssuedReceipts DEF EvidenceFiles
  <2>7. ev # None  BY <2>6, SweepAssumption
  <2>8. raced \/ (seed[r] = keyFile /\ keyFile \in Users)  BY <2>1, <2>4 DEF KeyIsShared, KeyFits
  <2>9. ev.verdict = row[r].verdict /\ ev.signer = seed[r] /\ (ev.semantic \/ row[r].verdict \in Disputed)
    BY IssuedReceipts
  <2>10. Stands(r, row[r].verdict)'  BY <2>1, <2>2, <2>3, <2>7, <2>8, <2>9 DEF Stands
  <2>11. result'[r].verdict \notin Definitive  BY <2>3 DEF NoResult, Definitive, Catches
  <2>. QED  BY <2>2, <2>3, <2>10, <2>11 DEF Known
<1>6. CASE ReadBack(r)
  <2>1. row[r].stage = "check" /\ evidence' = evidence  BY <1>6 DEF ReadBack
  <2>2. CASE Settle(r, Excepted("material_unavailable"))  BY <2>2, EndsWithout
  <2>3. CASE \E outcome : Settle(r, outcome) /\ outcome.verdict = row[r].verdict
                         /\ (outcome.valid <=> evidence[r].semantic)
    <3>1. PICK outcome : /\ Settle(r, outcome) /\ outcome.verdict = row[r].verdict
                         /\ outcome.valid <=> evidence[r].semantic
      BY <2>3
    <3>2. row' = [row EXCEPT ![r] = [Queued EXCEPT !.stage = "done"]] /\ result' = [result EXCEPT ![r] = outcome]
      BY <3>1 DEF Settle
    <3>3. row'[r].stage = "done" /\ result'[r] = outcome  BY <1>0, <3>2 DEF Queued
    <3>4. \A verdict : verdict = row[r].verdict => Stands(r, verdict)'
      <4> SUFFICES ASSUME NEW verdict, verdict = row[r].verdict PROVE Stands(r, verdict)'  OBVIOUS
      <4>1. Stands(r, verdict)  BY <1>0, <2>1 DEF Known
      <4>. QED  BY <1>0, <2>1, <4>1, StandsOn
    <3>5. outcome.verdict \in Definitive => Stands(r, outcome.verdict)'  BY <3>1, <3>4
    <3>. QED  BY <2>1, <3>1, <3>3, <3>5 DEF Known, Published, PastMaterial
  <2>. QED  BY <1>6, <2>2, <2>3, ValidMeansSemantic DEF ReadBack
<1>7. CASE UNCHANGED sweepVars
  <2>1. UNCHANGED <<row, result, evidence, retained>>  BY <1>7 DEF sweepVars
  <2>2. ASSUME NEW verdict, Stands(r, verdict) PROVE Stands(r, verdict)'  BY <2>1, <2>2, StandsOn
  <2>. QED  BY <1>0, <2>1, <2>2 DEF Known, Published
<1>. QED  BY <1>1, <1>2, <1>3, <1>4, <1>5, <1>6, <1>7 DEF RowStep

(* Once the summary is written, no row has anything left to do. *)
LEMMA DoneRowsRest ==
  ASSUME NEW r \in Rows, RowStep(r), row[r].stage = "done"
  PROVE  UNCHANGED sweepVars
BY DEF RowStep, StartRow, FindClone, LockClone, CloneDone, CloneFails, Freeze, MaterialUnavailable,
   Raises, Provision, Provisioned, Refused, Execute, Write, NotWritten, ReadBack

LEMMA SummaryStaysFinal ==
  ASSUME SweepInv, NEW r \in Rows, RowStep(r)
  PROVE  SummaryIsFinal'
<1>1. CASE summary = None
  <2>1. summary' = summary
    BY DEF RowStep, StartRow, FindClone, LockClone, CloneDone, CloneFails, Freeze, MaterialUnavailable,
       Raises, Provision, Provisioned, Refused, Execute, Write, NotWritten, ReadBack, Shared, sweepVars
  <2>. QED  BY <1>1, <2>1 DEF SummaryIsFinal
<1>2. CASE summary # None
  <2>1. Finished /\ summary.rows = result  BY <1>2 DEF SweepInv, SummaryIsFinal
  <2>2. UNCHANGED sweepVars  BY <2>1, DoneRowsRest DEF Finished
  <2>. QED  BY <2>1, <2>2 DEF SummaryIsFinal, Finished, sweepVars
<1>. QED  BY <1>1, <1>2

LEMMA SweepStays == SweepInv /\ [Next]_vars => SweepInv'
<1> SUFFICES ASSUME SweepInv, [Next]_vars PROVE SweepInv'  OBVIOUS
<1>. USE DEF SweepInv
<1>1. OneCloner' /\ ReceiptsAreOwn'  BY OneClonerStays, ReceiptsStayOwn
<1>2. CASE \E r \in Rows : RowStep(r)
  <2>1. PICK r \in Rows : RowStep(r)  BY <1>2
  <2>2. KeyIsShared' /\ KeyKept  BY <2>1, RowsUseKeys
  <2>3. Known(r)'  BY <2>1, <2>2, RowStaysKnown
  <2>4. RowsAreEvidenced'  BY <2>1, <2>2, <2>3, OthersStayKnown
  <2>5. SummaryIsFinal'  BY <2>1, SummaryStaysFinal
  <2>. QED  BY <1>1, <2>2, <2>4, <2>5
<1>3. CASE Restart
  <2>1. KeyIsShared'  BY <1>3, KeysAbandoned DEF Restart
  <2>2. row' = [r \in Rows |-> Queued] /\ result' = [r \in Rows |-> NoResult]  BY <1>3 DEF Restart
  <2>3. \A r \in Rows : row'[r].stage = "queued" /\ result'[r] = NoResult  BY <2>2 DEF Queued
  <2>4. RowsAreEvidenced'  BY <2>2, <2>3 DEF RowsAreEvidenced, PastMaterial, NoResult, Definitive, Catches
  <2>5. SummaryIsFinal'  BY <1>3 DEF Restart, SummaryIsFinal
  <2>. QED  BY <1>1, <2>1, <2>4, <2>5
<1>4. CASE Summarize \/ Report \/ Done \/ UNCHANGED vars
  <2>1. UNCHANGED <<keyFile, signing, seed, raced, row, result, evidence, retained>>
    BY <1>4 DEF Summarize, Report, Done, vars, sweepVars, keyVars, Alone
  <2>2. KeyIsShared'  BY <2>1 DEF KeyIsShared, KeyFits, KeysTypeOK, Creating
  <2>3. RowsAreEvidenced'  BY <2>1 DEF RowsAreEvidenced, Published, Stands
  <2>4. SummaryIsFinal'
    <3>1. CASE Summarize
      <4>1. Finished' /\ summary'.rows = result'  BY <2>1, <3>1 DEF Summarize, Finished
      <4>. QED  BY <4>1 DEF SummaryIsFinal
    <3>2. CASE ~Summarize
      <4>1. summary' = summary  BY <1>4, <3>2 DEF Report, Done, vars, sweepVars
      <4>. QED  BY <2>1, <4>1 DEF SummaryIsFinal, Finished
    <3>. QED  BY <3>1, <3>2
  <2>. QED  BY <1>1, <2>2, <2>3, <2>4
<1>. QED  BY <1>2, <1>3, <1>4 DEF Next

(* verify-receipt accepts a row's own receipt from whoever pins the row,   *)
(* unless validate_semantics rejects it.                                   *)
LEMMA OwnReceiptIsAccepted ==
  ASSUME NEW r \in Rows, evidence[r].about = r, evidence[r].signer = keyFile
  PROVE  CommandExit(Document(evidence[r]), PinnedTo(r)) = IF evidence[r].semantic THEN 0 ELSE 5
<1>. DEFINE doc == Document(evidence[r])
            asked == PinnedTo(r)
<1>1. /\ doc.input = "object" /\ doc.block = "ed25519" /\ doc.intact = TRUE /\ doc.schema = "VALID" /\ doc.semantic = evidence[r].semantic
      /\ doc.local = FALSE /\ doc.signer = keyFile /\ doc.base = Row[r].base /\ doc.head = Row[r].head
      /\ doc.test = Material(r) /\ doc.repo = Row[r].repo
  BY DEF Document
<1>2. /\ asked.form = "keys" /\ asked.signers = {keyFile} /\ asked.base = Row[r].base /\ asked.head = Row[r].head
      /\ asked.test = Material(r) /\ asked.repo = Row[r].repo /\ asked.abbreviated = FALSE /\ asked.confined = FALSE
  BY DEF PinnedTo
<1>. HIDE DEF doc, asked
<1>3. SignatureFault(doc) = "none" /\ SchemaOK(doc)  BY <1>1 DEF SignatureFault, SchemaOK
<1>4. Mismatched(doc, asked) = {}
  <2>1. \A f \in {"base", "head", "test", "repo"} : asked[f] = doc[f]  BY <1>1, <1>2
  <2>. QED  BY <2>1 DEF Mismatched, Expecting
<1>5. ~Unresolvable(doc, asked)  BY <1>1, <1>2 DEF Unresolvable
<1>6. ProvenanceStatus(doc, asked) \in {"NOT_CHECKED", "MATCHED"}  BY <1>4, <1>5 DEF ProvenanceStatus
<1>7. SignerStatus(doc, asked) = "TRUSTED"  BY <1>1, <1>2 DEF SignerStatus
<1>8. CommandExit(doc, asked) = IF evidence[r].semantic THEN 0 ELSE 5
  BY <1>1, <1>2, <1>3, <1>6, <1>7 DEF CommandExit
<1>. QED  BY <1>8 DEF doc, asked

LEMMA SweepHolds == Spec => []SweepInv
<1>1. Init => SweepInv
  <2> SUFFICES ASSUME Init PROVE SweepInv  OBVIOUS
  <2>1. OneCloner  BY LockIsNoRow DEF Init, OneCloner, Queued, RowStates, RowStages
  <2>2. ReceiptsAreOwn  BY DEF Init, ReceiptsAreOwn
  <2>3. KeyIsShared
    <3>1. /\ keyFile = NoKey /\ raced = FALSE
          /\ signing = [u \in Users |-> "idle"] /\ seed = [u \in Users |-> NoSeed]
      BY DEF Init, KeysInit
    <3>2. KeysTypeOK  BY <3>1 DEF KeysTypeOK, SigningStages
    <3>. QED  BY <3>1, <3>2 DEF KeyIsShared, KeyFits, Creating
  <2>4. RowsAreEvidenced
    <3>1. row = [r \in Rows |-> Queued] /\ result = [r \in Rows |-> NoResult]  BY DEF Init
    <3>2. \A r \in Rows : row[r].stage = "queued" /\ result[r] = NoResult  BY <3>1 DEF Queued
    <3>. QED  BY <3>1, <3>2 DEF RowsAreEvidenced, PastMaterial, NoResult, Definitive, Catches
  <2>5. SummaryIsFinal  BY DEF Init, SummaryIsFinal
  <2>. QED  BY <2>1, <2>2, <2>3, <2>4, <2>5 DEF SweepInv
<1>. QED  BY <1>1, SweepStays, PTL DEF Spec

(* Every definitive row of a published summary has its receipt on disk,    *)
(* with the same verdict over retained material; a consumer who pins the   *)
(* row and the machine's key accepts it if it was published as valid, and  *)
(* refuses it for its semantics alone if not, which only happens to a      *)
(* disputed verdict; for every manifest, pool and number of restarts       *)
(* (run_layer1_sweep.main).                                                *)
THEOREM SummariesAreEvidenced == Spec => []SummaryIsEvidenced
<1>1. SweepInv => SummaryIsEvidenced
  <2> SUFFICES ASSUME SweepInv, summary # None, NEW r \in Rows, summary.rows[r].verdict \in Definitive
               PROVE  /\ evidence[r] # None /\ evidence[r].verdict = summary.rows[r].verdict
                      /\ Document(evidence[r]).test \in retained
                      /\ summary.rows[r].valid \/ summary.rows[r].verdict \in Disputed
                      /\ raced \/ CommandExit(Document(evidence[r]), PinnedTo(r)) =
                                    IF summary.rows[r].valid THEN 0 ELSE 5
    BY DEF SummaryIsEvidenced
  <2>1. summary.rows = result  BY DEF SweepInv, SummaryIsFinal
  <2>2. Stands(r, result[r].verdict) /\ (result[r].valid <=> evidence[r].semantic)
    BY <2>1 DEF SweepInv, RowsAreEvidenced, Published
  <2>3. evidence[r].about = r  BY <2>2 DEF SweepInv, ReceiptsAreOwn, Stands
  <2>4. Document(evidence[r]).test = Material(r)  BY <2>3 DEF Document
  <2>5. raced \/ CommandExit(Document(evidence[r]), PinnedTo(r)) = IF result[r].valid THEN 0 ELSE 5
    BY <2>2, <2>3, OwnReceiptIsAccepted DEF Stands
  <2>. QED  BY <2>1, <2>2, <2>4, <2>5 DEF Stands
<1>. QED  BY <1>1, SweepHolds, PTL

(* The rest of the sweep's types: bytes are retained only for a row that   *)
(* declares where its test comes from.                                     *)
SweepTyped ==
  /\ retained \subseteq Checkouts \X Tests /\ evidence = [r \in Rows |-> evidence[r]]
  /\ restarts \in 0..MaxRestarts

LEMMA MaterialIsTyped == ASSUME NEW r \in Rows, Declared(r) PROVE Material(r) \in Checkouts \X Tests
<1>1. Row[r].base \in Checkouts /\ Row[r].head \in Checkouts /\ Row[r].source \in Checkouts /\ Row[r].test \in Tests
  BY RowsHaveEntries
<1>2. SourceRef(r) \in Checkouts  BY <1>1 DEF Declared, SourceRef
<1>. QED  BY <1>1, <1>2 DEF Material

(* The sweep's state is what the program can hold: one row at a time holds *)
(* the clone lock and it is the one that clones, and the key file is       *)
(* absent, empty or one user's seed, for every manifest, pool and number   *)
(* of restarts.                                                            *)
THEOREM SweepTypes == Spec => []TypeOK
<1>1. Init => SweepTyped
  <2>1. 0 \in 0..MaxRestarts  BY SweepAssumption
  <2>. QED  BY <2>1 DEF Init, SweepTyped
<1>2. SweepTyped /\ [Next]_vars => SweepTyped'
  <2> SUFFICES ASSUME SweepTyped, [Next]_vars PROVE SweepTyped'  OBVIOUS
  <2>. USE DEF SweepTyped
  <2>1. ASSUME NEW r \in Rows, RowStep(r) PROVE SweepTyped'
    <3>1. CASE Freeze(r)
      <4>1. Material(r) \in Checkouts \X Tests  BY <3>1, MaterialIsTyped DEF Freeze
      <4>. QED  BY <3>1, <4>1 DEF Freeze, Shared
    <3>2. CASE Write(r)  BY <3>2 DEF Write, Shared
    <3>3. CASE UNCHANGED <<retained, evidence, restarts>>  BY <3>3
    <3>. QED  BY <2>1, <3>1, <3>2, <3>3 DEF RowStep, StartRow, FindClone, LockClone, CloneDone, CloneFails,
              MaterialUnavailable, Raises, Provision, Provisioned, Refused, Execute, NotWritten, ReadBack,
              Shared, sweepVars
  <2>2. CASE Restart  BY <2>2, SweepAssumption DEF Restart
  <2>3. CASE Summarize \/ Report \/ Done \/ UNCHANGED vars
    BY <2>3 DEF Summarize, Report, Done, vars, sweepVars
  <2>. QED  BY <2>1, <2>2, <2>3 DEF Next
<1>3. SweepInv /\ SweepTyped => TypeOK
  <2> SUFFICES ASSUME SweepInv, SweepTyped PROVE TypeOK  OBVIOUS
  <2>1. KeysTypeOK  BY DEF SweepInv, KeyIsShared
  <2>2. /\ clone \in [Repositories -> {"absent", "partial", "complete"}]
        /\ cloner \in Rows \cup {NoLock}
        /\ \A r \in Rows : cloner = r <=> row[r].stage = "clone"
        /\ DOMAIN row = Rows /\ \A r \in Rows : row[r].broken \in BOOLEAN /\ row[r].partial \in BOOLEAN
    BY DEF SweepInv, OneCloner, RowStates
  <2>3. DOMAIN result = Rows  BY DEF SweepInv, RowsAreEvidenced
  <2>4. retained \subseteq Checkouts \X Tests /\ DOMAIN evidence = Rows /\ restarts \in 0..MaxRestarts
    BY DEF SweepTyped
  <2>. QED  BY <2>1, <2>2, <2>3, <2>4 DEF TypeOK
<1>. QED  BY <1>1, <1>2, <1>3, SweepHolds, PTL DEF Spec

-----------------------------------------------------------------------------
(* The default cohort.  What its files say stays true because of what is   *)
(* known at each step: who may still write them, and over what.            *)
LaneSteps == {"prepare", "replay", "diagnose", "reconcile", "over"}
CommandNames == {"material", "pins", "build", "start", "ready", "push", "pull", "inventory", "pip"}
AttemptStages == {"freeze", "verify", "running", "check"}
ReplayStages == AttemptStages \cup {"identity", "row", "inventory"}
RowStatuses == {"selected_not_attempted", "attempt_started", "error_retained", "cli_no_receipt_retained",
                "interrupted_retained", "receipt_valid_confined", "receipt_or_refusal_retained"}
ContextStatuses == {"selected_not_attempted", "attempt_started", "retained"}
Receipts == {NoReceipt} \cup UNION {Written(r) : r \in Ids}
Lanes == [step : LaneSteps, hosted : BOOLEAN, manifest : Manifests, runtime : BOOLEAN, failed : BOOLEAN]
Preparations == [stage : CommandNames \cup {"idle", "cleanup", "over"}, status : {"NOT_RUN", "RUN"}, owned : BOOLEAN]
RuntimeProofs == [status : {"absent", "NOT_RUN", "RUN", Torn}, cleaned : BOOLEAN]
RowMaps == {<<>>} \cup [Ids -> RowStatuses]
ReplayRecords == [stage : ReplayStages \cup {"idle", "over"}, row : Nat, signer : BOOLEAN, status : RowMaps, exit : {0, 1, 2}]
Censuses == [is : {"absent", "readable", Torn}, rows : RowMaps]
Diagnostics == [stage : {"idle", "setup", "phase", "over"}, context : Nat,
                status : {<<>>} \cup [DOMAIN Contexts -> ContextStatuses],
                census : {"absent", "NOT_RUN", Torn, "DIAGNOSTIC_REFUSED", "DIAGNOSTICS_RETAINED_NOT_COHORT_REPLACEMENT"}]
CohortTyped ==
  /\ lane \in Lanes /\ prep \in Preparations /\ proof \in RuntimeProofs /\ support \subseteq {"registry", "check"}
  /\ replay \in ReplayRecords /\ census \in Censuses /\ receipt \in [Ids -> Receipts] /\ diag \in Diagnostics

(* A receipt that a strict consumer accepts as confined and that refuses   *)
(* nothing.                                                                *)
Evidenced(r) ==
  receipt[r] # NoReceipt /\ ~receipt[r].refused /\ CommandExit(receipt[r], Asked(r, TRUE)) = 0

(* Until the cleanup nothing is left but the registry, unless a command    *)
(* failed; and then the preparation does not say RUN.                      *)
Prepares ==
  /\ lane.step = "prepare" <=> lane.hosted /\ prep.stage # "over"
  /\ ~lane.hosted => prep.stage = "idle"
  /\ prep.stage # "over" => proof.status # "RUN"
  /\ prep.stage \in CommandNames \cup {"idle"} => prep.status = "NOT_RUN" /\ support \subseteq {"registry"}
  /\ prep.stage \in CommandNames \ {"material"} => lane.manifest = Preregistered
  /\ prep.status = "RUN" => support \subseteq {"registry"} /\ lane.manifest = Preregistered
ProvesCleanup == proof.status = "RUN" => support = {}

(* The runtime is offered to the lane over such a proof only. *)
Admits ==
  /\ lane.hosted /\ lane.step \in {"replay", "diagnose"} => lane.runtime
  /\ lane.runtime => lane.hosted /\ proof.status = "RUN" /\ lane.manifest = Preregistered
  /\ lane.step = "prepare" => tests = {}
  /\ lane.hosted /\ tests # {} => proof.status = "RUN" /\ lane.manifest = Preregistered

(* A row is called valid once the replay is past it. *)
Replays ==
  /\ replay.stage \in ReplayStages =>
       /\ lane.step = "replay" /\ replay.row >= 1 /\ census = Saved(replay.status)
       /\ replay.status \in [Ids -> RowStatuses]
       /\ \A r \in Ids : replay.status[r] = "receipt_valid_confined" => r < replay.row
  /\ replay.stage = "idle" => census = NoCensus /\ replay.row = 1
  /\ replay.stage \in AttemptStages => replay.row \in Ids
  /\ replay.stage = "check" => receipt[replay.row] # NoReceipt
CensusIsTrue ==
  census.is = "readable" =>
    /\ census.rows \in [Ids -> RowStatuses]
    /\ \A r \in Ids : census.rows[r] = "receipt_valid_confined" => Evidenced(r)
Explained ==
  /\ diag.stage = "idle" => diag.context = 1
  /\ diag.stage \in {"setup", "phase"} =>
       /\ diag.context >= 1 /\ diag.status \in [DOMAIN Contexts -> ContextStatuses]
       /\ \A c \in DOMAIN Contexts : c < diag.context => diag.status[c] = "retained"
  /\ diag.stage = "phase" => diag.context \in DOMAIN Contexts

(* What has passed so far. *)
Passes ==
  lane.hosted /\ ~lane.failed =>
    /\ lane.step \in {"diagnose", "reconcile", "over"} => \A r \in Ids : Evidenced(r)
    /\ lane.step \in {"reconcile", "over"} => \A c \in DOMAIN diag.status : diag.status[c] = "retained"
    /\ lane.step = "over" => support \cup tests = {}

CohortInv ==
  CohortTyped /\ Prepares /\ ProvesCleanup /\ Admits /\ Replays /\ CensusIsTrue /\ Explained /\ Passes

LEMMA SameRows ==
  ASSUME lane'.manifest = lane.manifest
  PROVE  /\ Plan' = Plan /\ Ids' = Ids /\ Receipts' = Receipts /\ RowMaps' = RowMaps
         /\ ReplayRecords' = ReplayRecords /\ Censuses' = Censuses
         /\ \A r \in Ids : receipt'[r] = receipt[r] => (Evidenced(r)' <=> Evidenced(r))
<1>1. Plan' = Plan /\ Ids' = Ids  BY DEF Plan, Ids
<1>2. ASSUME NEW r PROVE Written(r)' = Written(r) /\ Asked(r, TRUE)' = Asked(r, TRUE)
  BY <1>1 DEF Written, Asked
<1>3. Receipts' = Receipts  BY <1>1, <1>2 DEF Receipts
<1>4. RowMaps' = RowMaps  BY <1>1 DEF RowMaps
<1>5. ReplayRecords' = ReplayRecords /\ Censuses' = Censuses  BY <1>4 DEF ReplayRecords, Censuses
<1>6. ASSUME NEW r \in Ids, receipt'[r] = receipt[r] PROVE Evidenced(r)' <=> Evidenced(r)
  BY <1>2, <1>6 DEF Evidenced
<1>. QED  BY <1>1, <1>3, <1>4, <1>5, <1>6

LEMMA RowsAreNumbers ==
  ASSUME CohortTyped
  PROVE  Ids \subseteq Nat \ {0}
<1>1. lane.manifest \in Manifests  BY DEF CohortTyped, Lanes
<1>. QED  BY <1>1, CohortAssumption DEF Ids, Plan

LEMMA ContextsAreNumbers ==
  /\ DOMAIN Contexts \subseteq Nat \ {0}
  /\ \A c, d \in Nat : c \notin DOMAIN Contexts /\ c >= 1 /\ d \in DOMAIN Contexts => d < c
<1>1. Len(DiagnosticRows) \in Nat  BY CohortAssumption
<1>2. DOMAIN Contexts = 1..(3 * Len(DiagnosticRows))  BY DEF Contexts
<1>. QED  BY <1>1, <1>2

LEMMA InitCohort == CohortInit => CohortInv
<1> SUFFICES ASSUME CohortInit PROVE CohortInv  OBVIOUS
<1>1. PICK m \in Manifests, hosted \in BOOLEAN :
        /\ lane = [step |-> IF hosted THEN "prepare" ELSE "replay", hosted |-> hosted, manifest |-> m,
                   runtime |-> FALSE, failed |-> FALSE]
        /\ receipt = [r \in DOMAIN m.rows |-> NoReceipt]
  BY DEF CohortInit
<1>2. lane \in Lanes /\ lane.manifest = m /\ lane.hosted = hosted /\ lane.runtime = FALSE
      /\ lane.step = (IF hosted THEN "prepare" ELSE "replay")
  BY <1>1 DEF Lanes, LaneSteps
<1>3. /\ prep = [stage |-> "idle", status |-> "NOT_RUN", owned |-> FALSE]
      /\ proof = [status |-> "absent", cleaned |-> FALSE] /\ support = {} /\ tests = {}
      /\ census = [is |-> "absent", rows |-> <<>>]
      /\ replay = [stage |-> "idle", row |-> 1, signer |-> FALSE, status |-> <<>>, exit |-> 0]
      /\ diag = [stage |-> "idle", context |-> 1, status |-> <<>>, census |-> "absent"]
  BY DEF CohortInit, NoProof, NoCensus, Memory
<1>4. receipt \in [Ids -> Receipts]  BY <1>1, <1>2 DEF Ids, Plan, Receipts
<1>5. prep \in Preparations /\ proof \in RuntimeProofs  BY <1>3 DEF Preparations, RuntimeProofs
<1>6. replay \in ReplayRecords  BY <1>3 DEF ReplayRecords, RowMaps
<1>7. census \in Censuses  BY <1>3 DEF Censuses, RowMaps
<1>8. diag \in Diagnostics  BY <1>3 DEF Diagnostics
<1>9. CohortTyped  BY <1>2, <1>3, <1>4, <1>5, <1>6, <1>7, <1>8 DEF CohortTyped
<1>10. Prepares /\ ProvesCleanup /\ Admits
  BY <1>2, <1>3 DEF Prepares, ProvesCleanup, Admits, CommandNames
<1>11. Replays  BY <1>3 DEF Replays, ReplayStages, AttemptStages, NoCensus
<1>12. CensusIsTrue /\ Explained  BY <1>3 DEF CensusIsTrue, Explained
<1>13. Passes  BY <1>2 DEF Passes
<1>. QED  BY <1>9, <1>10, <1>11, <1>12, <1>13 DEF CohortInv

(* The preparation goes on, hands a runtime over, or fails. *)
LEMMA PreparationKeeps ==
  ASSUME CohortInv, Preparing, lane.step = "prepare", lane' \in Lanes, lane'.manifest = lane.manifest,
         lane'.hosted = lane.hosted, prep' \in Preparations, proof' \in RuntimeProofs, support' \subseteq {"registry", "check"},
         Prepares', ProvesCleanup',
         \/ lane' = lane
         \/ lane'.step = "replay" /\ lane'.runtime /\ proof'.status = "RUN" /\ lane.manifest = Preregistered
         \/ lane'.step = "reconcile" /\ lane'.failed /\ ~lane'.runtime
  PROVE  CohortInv'
<1>. USE DEF CohortInv
<1>1. lane.hosted /\ proof.status # "RUN" /\ ~lane.runtime /\ tests = {}  BY DEF Prepares, Admits
<1>2. UNCHANGED <<replay, census, receipt, tests, diag>>  BY DEF Preparing
<1>3. CohortTyped'  BY <1>2, SameRows DEF CohortTyped, Diagnostics
<1>4. Admits'  BY <1>1, <1>2 DEF Admits
<1>5. replay.stage \notin ReplayStages  BY DEF Replays
<1>6. Replays'  BY <1>2, <1>5 DEF Replays, ReplayStages
<1>7. CensusIsTrue'  BY <1>2, SameRows DEF CensusIsTrue
<1>8. Explained'  BY <1>2 DEF Explained
<1>9. Passes'  BY DEF Passes
<1>. QED  BY <1>3, <1>4, <1>6, <1>7, <1>8, <1>9

LEMMA ActivePreparation ==
  ASSUME CohortInv, prep.stage \notin {"idle", "over"}
  PROVE  lane.step = "prepare" /\ lane.hosted /\ proof.status # "RUN"
BY DEF CohortInv, Prepares

LEMMA BeginPreparationKeeps == ASSUME CohortInv, BeginPreparation PROVE CohortInv'
<1>. USE DEF CohortInv
<1>1. prep' = [prep EXCEPT !.stage = "material"] /\ proof' = [NoProof EXCEPT !.status = "NOT_RUN"]
      /\ lane' = lane /\ support' = support /\ prep.stage = "idle"
  BY DEF BeginPreparation
<1>2. prep' \in Preparations /\ prep'.stage = "material" /\ prep'.status = prep.status
  BY <1>1 DEF CohortTyped, Preparations, CommandNames
<1>3. proof' \in RuntimeProofs /\ proof'.status = "NOT_RUN"  BY <1>1 DEF NoProof, RuntimeProofs
<1>4. Prepares' /\ ProvesCleanup'  BY <1>1, <1>2, <1>3 DEF Prepares, ProvesCleanup, CommandNames, BeginPreparation
<1>. QED  BY <1>1, <1>2, <1>3, <1>4, PreparationKeeps DEF BeginPreparation, CohortTyped

LEMMA CommandsAreNamed ==
  ASSUME NEW i \in DOMAIN Commands
  PROVE  Commands[i] \in CommandNames /\ AfterCommand(Commands[i]) \in (CommandNames \cup {"cleanup"}) \ {"material"}
         /\ (Commands[i] = "pip" <=> AfterCommand(Commands[i]) = "cleanup")
<1>1. DOMAIN Commands = 1..9 /\ Len(Commands) = 9  BY DEF Commands
<1>2. \A j \in 1..9 : /\ Commands[j] \in CommandNames
                      /\ (Commands[j] = "pip" <=> j = 9) /\ (Commands[j] = "material" <=> j = 1)
  BY DEF Commands, CommandNames
<1>3. \A j, k \in 1..9 : Commands[j] = Commands[k] => j = k  BY DEF Commands
<1>4. (CHOOSE j \in DOMAIN Commands : Commands[j] = Commands[i]) = i  BY <1>1, <1>3
<1>5. AfterCommand(Commands[i]) = IF i = 9 THEN "cleanup" ELSE Commands[i + 1]  BY <1>1, <1>4 DEF AfterCommand
<1>6. i \in 1..9 /\ "cleanup" \notin CommandNames  BY <1>1 DEF CommandNames
<1>7. CASE i = 9  BY <1>2, <1>5, <1>6, <1>7
<1>8. CASE i # 9
  <2>1. i + 1 \in 1..9 /\ i + 1 # 1  BY <1>6, <1>8
  <2>2. Commands[i + 1] \in CommandNames /\ Commands[i + 1] # "material"  BY <1>2, <2>1
  <2>. QED  BY <1>2, <1>5, <1>6, <1>8, <2>2
<1>. QED  BY <1>7, <1>8

LEMMA CommandDoneKeeps == ASSUME CohortInv, CommandDone PROVE CohortInv'
<1>. USE DEF CohortInv
<1>1. PICK i \in DOMAIN Commands : Commands[i] = prep.stage  BY DEF CommandDone
<1>. DEFINE after == AfterCommand(prep.stage)
            holds == prep.owned \/ prep.stage = "start"
            status == IF prep.stage = "pip" THEN "RUN" ELSE prep.status
<1>2. prep.stage \in CommandNames /\ after \in (CommandNames \cup {"cleanup"}) \ {"material"}
      /\ (prep.stage = "pip" <=> after = "cleanup")
  BY <1>1, CommandsAreNamed
<1>3. prep \in Preparations /\ status \in {"NOT_RUN", "RUN"} /\ holds \in BOOLEAN  BY DEF CohortTyped, Preparations
<1>4. prep' = [prep EXCEPT !.stage = after, !.owned = holds, !.status = status]  BY <1>3 DEF CommandDone, Preparations
<1>5. lane' = lane /\ proof' = proof /\ support' \in {support, {"registry"}}  BY DEF CommandDone
<1>6. lane.step = "prepare" /\ lane.hosted /\ proof.status # "RUN"  BY <1>2, ActivePreparation DEF CommandNames
<1>7. support \subseteq {"registry"} /\ prep.status = "NOT_RUN"  BY <1>2 DEF Prepares
<1>8. lane.manifest = Preregistered  BY <1>2 DEF CommandDone, Prepares
<1>. HIDE DEF after, holds, status
<1>9. prep' \in Preparations /\ prep'.stage = after /\ prep'.status = status  BY <1>2, <1>3, <1>4 DEF Preparations
<1>10. after # "cleanup" => status = "NOT_RUN"  BY <1>2, <1>7 DEF status
<1>11. Prepares' /\ ProvesCleanup'
  BY <1>2, <1>5, <1>6, <1>7, <1>8, <1>9, <1>10 DEF Prepares, ProvesCleanup, CommandNames
<1>. QED  BY <1>5, <1>6, <1>7, <1>9, <1>11, PreparationKeeps DEF CommandDone, CohortTyped

LEMMA CommandFailsKeeps == ASSUME CohortInv, CommandFails PROVE CohortInv'
<1>. USE DEF CohortInv
<1>1. prep.stage \in CommandNames  BY CommandsAreNamed DEF CommandFails
<1>2. prep' = [prep EXCEPT !.stage = "cleanup"] /\ lane' = lane /\ proof' = proof  BY DEF CommandFails
<1>3. prep' \in Preparations /\ prep'.stage = "cleanup" /\ prep'.status = prep.status
  BY <1>2 DEF CohortTyped, Preparations
<1>4. lane.step = "prepare" /\ lane.hosted /\ proof.status # "RUN"  BY <1>1, ActivePreparation DEF CommandNames
<1>5. support \subseteq {"registry"} /\ prep.status = "NOT_RUN"  BY <1>1 DEF Prepares
<1>6. support' \subseteq {"registry", "check"}  BY <1>5 DEF CommandFails
<1>7. Prepares' /\ ProvesCleanup'  BY <1>2, <1>3, <1>4, <1>5 DEF Prepares, ProvesCleanup, CommandNames
<1>. QED  BY <1>2, <1>3, <1>4, <1>6, <1>7, PreparationKeeps DEF CommandFails, CohortTyped

(* The end of the preparation, with its record. *)
LEMMA EndPreparationKeeps ==
  ASSUME CohortInv, Preparing, prep.stage \notin {"idle", "over"}, NEW record \in RuntimeProofs, EndPreparation(record),
         support' \subseteq {"registry", "check"}, prep.status = "RUN" => support' \subseteq {"registry"},
         record.status = "RUN" => prep.status = "RUN" /\ support' = {}
  PROVE  CohortInv'
<1>. USE DEF CohortInv
<1>1. lane.step = "prepare" /\ lane.hosted /\ proof.status # "RUN"  BY ActivePreparation
<1>2. prep' = [prep EXCEPT !.stage = "over"] /\ proof' = record  BY DEF EndPreparation
<1>3. prep' \in Preparations /\ prep'.stage = "over" /\ prep'.status = prep.status
  BY <1>2 DEF CohortTyped, Preparations
<1>. DEFINE ready == record.status = "RUN" /\ record.cleaned
            to == IF ready THEN "replay" ELSE "reconcile"
<1>4. ready \in BOOLEAN /\ to \in LaneSteps  BY DEF RuntimeProofs, LaneSteps
<1>5. lane' = [lane EXCEPT !.step = to, !.runtime = ready, !.failed = ~ready]  BY DEF EndPreparation
<1>6. ready => record.status = "RUN"  OBVIOUS
<1>7. to \in {"replay", "reconcile"} /\ (to = "replay" <=> ready)  OBVIOUS
<1>. HIDE DEF ready, to
<1>8. /\ lane' \in Lanes /\ lane'.step = to /\ lane'.runtime = ready /\ lane'.failed = ~ready
      /\ lane'.manifest = lane.manifest /\ lane'.hosted = lane.hosted
  BY <1>4, <1>5 DEF CohortTyped, Lanes
<1>9. Prepares' /\ ProvesCleanup'  BY <1>1, <1>2, <1>3, <1>7, <1>8 DEF Prepares, ProvesCleanup, CommandNames
<1>10. ready => lane.manifest = Preregistered  BY <1>6 DEF Prepares
<1>. QED  BY <1>1, <1>2, <1>3, <1>6, <1>7, <1>8, <1>9, <1>10, PreparationKeeps

LEMMA CleanupKeeps == ASSUME CohortInv, Cleanup PROVE CohortInv'
<1>. USE DEF CohortInv
<1>1. /\ prep.stage \notin {"idle", "over"} /\ Preparing /\ prep.status \in {"NOT_RUN", "RUN"}
      /\ support \subseteq {"registry", "check"} /\ (prep.status = "RUN" => support \subseteq {"registry"})
  BY DEF Cleanup, CohortTyped, Prepares, Preparations
<1>. DEFINE refused == [status |-> "NOT_RUN", cleaned |-> FALSE]
            clean == [status |-> prep.status, cleaned |-> TRUE]
<1>2. refused \in RuntimeProofs /\ clean \in RuntimeProofs /\ refused.status = "NOT_RUN" /\ clean.status = prep.status
  BY <1>1 DEF RuntimeProofs
<1>3. \/ EndPreparation(refused) /\ support' = support
      \/ EndPreparation(clean) /\ support' = support \ {"registry"}
  BY DEF Cleanup
<1>. HIDE DEF refused, clean
<1>4. CASE EndPreparation(refused) /\ support' = support  BY <1>1, <1>2, <1>4, EndPreparationKeeps
<1>5. CASE EndPreparation(clean) /\ support' = support \ {"registry"}
  <2>1. support' \subseteq {"registry", "check"} /\ (prep.status = "RUN" => support' = {})  BY <1>1, <1>5
  <2>. QED  BY <1>1, <1>2, <1>5, <2>1, EndPreparationKeeps
<1>. QED  BY <1>3, <1>4, <1>5

LEMMA KillPreparationKeeps == ASSUME CohortInv, KillPreparation PROVE CohortInv'
<1>. USE DEF CohortInv
<1>1. lane.step = "prepare" /\ lane.hosted /\ proof.status # "RUN" /\ ~lane.runtime
  BY ActivePreparation DEF KillPreparation, Admits
<1>2. prep' = [prep EXCEPT !.stage = "over"] /\ proof' \in {proof, [proof EXCEPT !.status = Torn]}
      /\ lane' = [lane EXCEPT !.step = "reconcile", !.failed = TRUE]
  BY DEF KillPreparation
<1>3. prep' \in Preparations /\ prep'.stage = "over" /\ prep'.status = prep.status
  BY <1>2 DEF CohortTyped, Preparations
<1>4. proof' \in RuntimeProofs /\ proof'.status # "RUN"  BY <1>1, <1>2 DEF CohortTyped, RuntimeProofs, Torn
<1>5. /\ lane' \in Lanes /\ lane'.step = "reconcile" /\ lane'.failed /\ lane'.runtime = lane.runtime
      /\ lane'.manifest = lane.manifest /\ lane'.hosted = lane.hosted
  BY <1>2 DEF CohortTyped, Lanes, LaneSteps
<1>6. support' \in {support, {"registry"}}  BY DEF KillPreparation
<1>7. Prepares' /\ ProvesCleanup'
  BY <1>1, <1>3, <1>4, <1>5, <1>6 DEF Prepares, ProvesCleanup, CommandNames
<1>. QED  BY <1>1, <1>3, <1>4, <1>5, <1>6, <1>7, PreparationKeeps DEF KillPreparation, CohortTyped

(* A step of the replay that does not end it. *)
LEMMA ReplayKeeps ==
  ASSUME CohortInv, Replaying, lane.step = "replay", lane' = lane, replay' \in ReplayRecords, census' \in Censuses,
         receipt' \in [Ids -> Receipts], Replays', CensusIsTrue'
  PROVE  CohortInv'
<1>. USE DEF CohortInv
<1>1. UNCHANGED <<prep, proof, support, diag>>  BY DEF Replaying
<1>2. CohortTyped'  BY <1>1, SameRows DEF CohortTyped, Diagnostics
<1>3. Prepares' /\ ProvesCleanup'  BY <1>1 DEF Prepares, ProvesCleanup
<1>4. Admits'  BY <1>1 DEF Admits
<1>5. Explained'  BY <1>1 DEF Explained
<1>6. Passes'  BY DEF Passes
<1>. QED  BY <1>2, <1>3, <1>4, <1>5, <1>6

(* A row gets another status, which says valid only over such a receipt. *)
LEMMA BecomesKeeps ==
  ASSUME CohortInv, Replaying, lane' = lane, receipt' \in [Ids -> Receipts],
         replay.stage \in ReplayStages, replay.row \in Ids,
         \A r \in Ids \ {replay.row} : receipt'[r] = receipt[r],
         NEW status \in RowStatuses, NEW stage \in {"row", "freeze", "inventory"}, NEW upto \in {replay.row, replay.row + 1},
         Becomes(status, stage, upto), stage = "freeze" => upto = replay.row,
         \A r \in Ids : status = "receipt_valid_confined" /\ r = replay.row => upto = replay.row + 1 /\ Evidenced(r)'
  PROVE  CohortInv'
<1>. USE DEF CohortInv
<1>1. /\ lane.step = "replay" /\ replay.row >= 1 /\ census = Saved(replay.status)
      /\ replay.status \in [Ids -> RowStatuses]
      /\ \A r \in Ids : replay.status[r] = "receipt_valid_confined" => r < replay.row
  BY DEF Replays
<1>2. replay \in ReplayRecords /\ replay.row \in Nat /\ Ids \subseteq Nat  BY RowsAreNumbers DEF CohortTyped, ReplayRecords
<1>. DEFINE statuses == [replay.status EXCEPT ![replay.row] = status]
<1>3. replay' = [replay EXCEPT !.stage = stage, !.row = upto, !.exit = 0, !.status = statuses]  BY <1>2 DEF Becomes, ReplayRecords
<1>4. /\ statuses \in [Ids -> RowStatuses] /\ statuses[replay.row] = status
      /\ \A r \in Ids \ {replay.row} : statuses[r] = replay.status[r]
  BY <1>1
<1>. HIDE DEF statuses
<1>5. statuses \in RowMaps /\ upto \in Nat /\ upto >= 1  BY <1>1, <1>2, <1>4 DEF RowMaps
<1>6. /\ replay' \in ReplayRecords /\ replay'.stage = stage /\ replay'.row = upto /\ replay'.status = statuses
  BY <1>2, <1>3, <1>5 DEF ReplayRecords, ReplayStages, AttemptStages
<1>7. census' = Saved(statuses)  BY <1>6 DEF Becomes
<1>8. census' \in Censuses /\ census'.rows = statuses  BY <1>5, <1>7 DEF Censuses, Saved
<1>9. \A r \in Ids : statuses[r] = "receipt_valid_confined" => r < upto
  <2> SUFFICES ASSUME NEW r \in Ids, statuses[r] = "receipt_valid_confined" PROVE r < upto  OBVIOUS
  <2>1. r \in Nat /\ replay.row \in Nat  BY <1>2
  <2>2. CASE r = replay.row
    <3>1. upto = r + 1  BY <1>4, <2>2
    <3>. QED  BY <2>1, <3>1
  <2>3. CASE r # replay.row
    <3>1. r < replay.row  BY <1>1, <1>4, <2>3
    <3>. QED  BY <2>1, <3>1
  <2>. QED  BY <2>2, <2>3
<1>10. Ids' = Ids  BY SameRows
<1>11. Replays'
  BY <1>1, <1>4, <1>5, <1>6, <1>7, <1>9, <1>10 DEF Replays, ReplayStages, AttemptStages
<1>12. ASSUME NEW r \in Ids, statuses[r] = "receipt_valid_confined" PROVE Evidenced(r)'
  <2>1. CASE r = replay.row  BY <1>4, <1>12, <2>1
  <2>2. CASE r # replay.row
    <3>1. replay.status[r] = "receipt_valid_confined"  BY <1>4, <1>12, <2>2
    <3>2. Evidenced(r)  BY <1>1, <3>1 DEF CensusIsTrue, Saved
    <3>3. receipt'[r] = receipt[r]  BY <2>2
    <3>. QED  BY <3>2, <3>3, SameRows
  <2>. QED  BY <2>1, <2>2
<1>13. CensusIsTrue'  BY <1>4, <1>8, <1>10, <1>12 DEF CensusIsTrue
<1>. QED  BY <1>1, <1>6, <1>8, <1>11, <1>13, ReplayKeeps

(* The replay goes from one stage to another and no row changes. *)
LEMMA StageKeeps ==
  ASSUME CohortInv, Replaying, lane' = lane, census' = census, lane.step = "replay",
         replay.stage \in ReplayStages, NEW stage \in ReplayStages \ {"check"}, stage \in AttemptStages => replay.row \in Ids,
         NEW signer \in BOOLEAN, replay' = [replay EXCEPT !.stage = stage, !.signer = signer], receipt' = receipt
  PROVE  CohortInv'
<1>. USE DEF CohortInv
<1>1. replay' \in ReplayRecords /\ replay'.stage = stage /\ replay'.row = replay.row /\ replay'.status = replay.status
  BY DEF CohortTyped, ReplayRecords
<1>2. Ids' = Ids  BY SameRows
<1>3. Replays'  BY <1>1, <1>2 DEF Replays, ReplayStages, AttemptStages
<1>4. CensusIsTrue'  BY <1>2, SameRows DEF CensusIsTrue
<1>. QED  BY <1>1, <1>3, <1>4, ReplayKeeps DEF CohortTyped

LEMMA DeclareKeeps == ASSUME CohortInv, Declare PROVE CohortInv'
<1>. USE DEF CohortInv
<1>. DEFINE statuses == [r \in Ids |-> "selected_not_attempted"]
<1>1. lane.step = "replay" /\ lane' = lane /\ receipt' = receipt /\ Replaying /\ replay.stage = "idle" /\ replay.row = 1
  BY DEF Declare, At, Quiet, Replays
<1>2. statuses \in [Ids -> RowStatuses] /\ statuses \in RowMaps
      /\ \A r \in Ids : statuses[r] # "receipt_valid_confined"
  BY DEF RowStatuses, RowMaps
<1>3. replay' = [replay EXCEPT !.stage = "identity", !.status = statuses]  BY DEF Declare
<1>. HIDE DEF statuses
<1>4. replay' \in ReplayRecords /\ replay'.stage = "identity" /\ replay'.row = 1 /\ replay'.status = statuses
  BY <1>1, <1>2, <1>3 DEF CohortTyped, ReplayRecords, ReplayStages
<1>5. census' = Saved(statuses)  BY <1>4 DEF Declare
<1>6. census' \in Censuses /\ census'.rows = statuses  BY <1>2, <1>5 DEF Saved, Censuses
<1>7. Ids' = Ids  BY <1>1, SameRows
<1>8. Replays'  BY <1>1, <1>2, <1>4, <1>5, <1>7 DEF Replays, ReplayStages, AttemptStages
<1>9. CensusIsTrue'  BY <1>2, <1>6, <1>7 DEF CensusIsTrue
<1>. QED  BY <1>1, <1>4, <1>6, <1>8, <1>9, ReplayKeeps DEF CohortTyped

LEMMA DeclareSignerKeeps == ASSUME CohortInv, DeclareSigner PROVE CohortInv'
<1>1. PICK done \in BOOLEAN : replay' = [replay EXCEPT !.stage = "row", !.signer = done]  BY DEF DeclareSigner
<1>. QED  BY <1>1, StageKeeps DEF DeclareSigner, At, Quiet, ReplayStages, AttemptStages

LEMMA StartAttemptKeeps == ASSUME CohortInv, StartAttempt PROVE CohortInv'
  BY BecomesKeeps DEF StartAttempt, At, Quiet, ReplayStages, RowStatuses, CohortInv, CohortTyped

LEMMA ToStageKeeps ==
  ASSUME CohortInv, Replaying, lane' = lane, census' = census, receipt' = receipt, lane.step = "replay",
         replay.stage \in AttemptStages, NEW stage \in AttemptStages \ {"check"}, ToStage(stage)
  PROVE  CohortInv'
<1>1. replay \in ReplayRecords /\ replay.signer \in BOOLEAN  BY DEF CohortInv, CohortTyped, ReplayRecords
<1>2. replay' = [replay EXCEPT !.stage = stage, !.signer = replay.signer]  BY <1>1 DEF ToStage, ReplayRecords
<1>3. replay.row \in Ids  BY DEF CohortInv, Replays
<1>. QED  BY <1>1, <1>2, <1>3, StageKeeps DEF ReplayStages

LEMMA FreezeKeeps == ASSUME CohortInv, FreezeRow PROVE CohortInv'
  BY ToStageKeeps DEF FreezeRow, At, Quiet, AttemptStages
LEMMA RunCommandKeeps == ASSUME CohortInv, RunCommand PROVE CohortInv'
  BY ToStageKeeps DEF RunCommand, At, AttemptStages

(* A status that does not say valid, of the row of the attempt. *)
LEMMA ClosesKeeps ==
  ASSUME CohortInv, Replaying, lane' = lane, receipt' \in [Ids -> Receipts], replay.stage \in AttemptStages,
         \A r \in Ids \ {replay.row} : receipt'[r] = receipt[r],
         NEW status \in RowStatuses \ {"receipt_valid_confined"},
         Closes(status) \/ Becomes(status, "inventory", replay.row)
  PROVE  CohortInv'
<1>1. replay.row \in Ids /\ replay.stage \in ReplayStages  BY DEF CohortInv, Replays, ReplayStages
<1>2. CASE Closes(status)  BY <1>1, <1>2, BecomesKeeps DEF Closes
<1>3. CASE Becomes(status, "inventory", replay.row)  BY <1>1, <1>3, BecomesKeeps
<1>. QED  BY <1>2, <1>3

LEMMA AttemptFailsKeeps == ASSUME CohortInv, AttemptFails PROVE CohortInv'
  BY ClosesKeeps DEF AttemptFails, At, Quiet, AttemptStages, RowStatuses, CohortInv, CohortTyped
LEMMA CheckFailsKeeps == ASSUME CohortInv, CheckFails PROVE CohortInv'
  BY ClosesKeeps DEF CheckFails, At, Quiet, AttemptStages, RowStatuses, CohortInv, CohortTyped
LEMMA InterruptAttemptKeeps == ASSUME CohortInv, InterruptAttempt PROVE CohortInv'
  BY ClosesKeeps DEF InterruptAttempt, At, Quiet, AttemptStages, RowStatuses, CohortInv, CohortTyped

(* A receipt of the row of the attempt is written. *)
LEMMA Writing ==
  ASSUME CohortTyped, replay.row \in Ids, NEW doc \in Written(replay.row), receipt' = [receipt EXCEPT ![replay.row] = doc]
  PROVE  /\ receipt' \in [Ids -> Receipts] /\ receipt'[replay.row] = doc /\ doc # NoReceipt
         /\ \A r \in Ids \ {replay.row} : receipt'[r] = receipt[r]
<1>1. doc \in Receipts  BY DEF Receipts
<1>2. doc.input = "object"  BY DEF Written
<1>3. NoReceipt.input = "absent"  BY DEF NoReceipt
<1>. QED  BY <1>1, <1>2, <1>3 DEF CohortTyped

LEMMA CommandCutKeeps == ASSUME CohortInv, CommandCut PROVE CohortInv'
<1>1. replay.stage \in AttemptStages /\ replay.row \in Ids /\ Replaying /\ lane' = lane
  BY DEF CommandCut, At, AttemptStages, CohortInv, Replays
<1>2. receipt' \in [Ids -> Receipts] /\ \A r \in Ids \ {replay.row} : receipt'[r] = receipt[r]
  <2>1. CASE receipt' = receipt  BY <2>1 DEF CohortInv, CohortTyped
  <2>2. CASE \E doc \in Written(replay.row) : receipt' = [receipt EXCEPT ![replay.row] = doc]
    BY <1>1, <2>2, Writing DEF CohortInv
  <2>. QED  BY <2>1, <2>2 DEF CommandCut
<1>. QED  BY <1>1, <1>2, ClosesKeeps DEF CommandCut, RowStatuses

LEMMA CommandEndsKeeps == ASSUME CohortInv, CommandEnds PROVE CohortInv'
<1>. USE DEF CohortInv
<1>1. /\ replay.stage = "running" /\ replay.row \in Ids /\ Replaying /\ lane' = lane /\ lane.step = "replay"
      /\ replay.stage \in ReplayStages /\ replay.stage \in AttemptStages
  BY DEF CommandEnds, At, AttemptStages, ReplayStages, Replays
<1>2. CASE Closes("cli_no_receipt_retained") /\ UNCHANGED receipt
  BY <1>1, <1>2, ClosesKeeps DEF RowStatuses, CohortTyped
<1>3. CASE /\ \E doc \in Written(replay.row), exit \in {0, 1, 2} :
                /\ receipt' = [receipt EXCEPT ![replay.row] = doc]
                /\ replay' = [replay EXCEPT !.stage = "check", !.exit = exit]
           /\ census' = census
  <2>1. PICK doc \in Written(replay.row), exit \in {0, 1, 2} :
          /\ receipt' = [receipt EXCEPT ![replay.row] = doc]
          /\ replay' = [replay EXCEPT !.stage = "check", !.exit = exit]
    BY <1>3
  <2>2. /\ receipt' \in [Ids -> Receipts] /\ receipt'[replay.row] # NoReceipt
        /\ \A r \in Ids \ {replay.row} : receipt'[r] = receipt[r]
    BY <1>1, <2>1, Writing
  <2>3. replay' \in ReplayRecords /\ replay'.stage = "check" /\ replay'.row = replay.row /\ replay'.status = replay.status
    BY <2>1 DEF CohortTyped, ReplayRecords, ReplayStages, AttemptStages
  <2>4. Ids' = Ids  BY <1>1, SameRows
  <2>5. Replays'  BY <1>1, <1>3, <2>2, <2>3, <2>4 DEF Replays
  <2>6. ASSUME NEW r \in Ids, census.rows[r] = "receipt_valid_confined" PROVE census.is = "readable" => Evidenced(r)'
    <3>1. replay.status[r] = "receipt_valid_confined" /\ replay.row \in Nat /\ Ids \subseteq Nat
      BY <1>1, <2>6, RowsAreNumbers DEF Replays, Saved, CohortTyped, ReplayRecords
    <3>2. r < replay.row  BY <1>1, <3>1 DEF Replays
    <3>3. r # replay.row  BY <3>1, <3>2
    <3>. QED  BY <1>1, <2>2, <2>6, <3>3, SameRows DEF CensusIsTrue
  <2>7. CensusIsTrue'  BY <1>3, <2>4, <2>6 DEF CensusIsTrue
  <2>. QED  BY <1>1, <1>3, <2>2, <2>3, <2>5, <2>7, ReplayKeeps DEF CohortTyped
<1>. QED  BY <1>2, <1>3 DEF CommandEnds

(* Valid is what both runs of verify-receipt agree on. *)
LEMMA JudgeKeeps == ASSUME CohortInv, Judge PROVE CohortInv'
<1>1. /\ replay.stage = "check" /\ replay.row \in Ids /\ Replaying /\ lane' = lane /\ receipt' = receipt
      /\ receipt[replay.row] # NoReceipt /\ replay.stage \in ReplayStages /\ receipt' \in [Ids -> Receipts]
  BY DEF Judge, At, AttemptStages, ReplayStages, CohortInv, Replays, Quiet, CohortTyped
<1>. DEFINE accepted == /\ CommandExit(receipt[replay.row], Asked(replay.row, FALSE)) = 0
                        /\ CommandExit(receipt[replay.row], Asked(replay.row, TRUE)) = 0
                        /\ ~receipt[replay.row].refused /\ replay.exit \in {0, 1}
            status == IF accepted THEN "receipt_valid_confined" ELSE "receipt_or_refusal_retained"
<1>2. Closes(status)  BY DEF Judge
<1>3. status \in RowStatuses  BY DEF RowStatuses
<1>4. status = "receipt_valid_confined" => Evidenced(replay.row)  BY <1>1 DEF Evidenced
<1>5. ASSUME NEW r \in Ids, status = "receipt_valid_confined", r = replay.row PROVE Evidenced(r)'
  <2>1. Evidenced(r)  BY <1>4, <1>5
  <2>. QED  BY <1>1, <2>1, SameRows
<1>. HIDE DEF status
<1>. QED  BY <1>1, <1>2, <1>3, <1>5, BecomesKeeps DEF Closes

(* The replay ends well when every row is valid. *)
LEMMA EndReplayKeeps ==
  ASSUME CohortInv, Replaying, lane.step = "replay", NEW exit \in {0, 1, 2}, EndReplay(exit), receipt' = receipt,
         tests' = tests, census' \in {census, [census EXCEPT !.is = Torn]}, exit = 0 => \A r \in Ids : Evidenced(r)
  PROVE  CohortInv'
<1>. USE DEF CohortInv
<1>. DEFINE to == IF lane.runtime THEN "diagnose" ELSE "over"
            failed == lane.failed \/ exit # 0
<1>1. lane.runtime \in BOOLEAN /\ failed \in BOOLEAN /\ to \in {"diagnose", "over"} /\ (to = "diagnose" <=> lane.runtime)
  BY DEF CohortTyped, Lanes
<1>2. lane' = [lane EXCEPT !.step = to, !.failed = failed]  BY <1>1 DEF EndReplay, CohortTyped, Lanes
<1>3. ~failed => \A r \in Ids : Evidenced(r)  OBVIOUS
<1>. HIDE DEF to, failed
<1>4. /\ lane' \in Lanes /\ lane'.step = to /\ lane'.failed = failed /\ lane'.manifest = lane.manifest
      /\ lane'.hosted = lane.hosted /\ lane'.runtime = lane.runtime
  BY <1>1, <1>2 DEF CohortTyped, Lanes, LaneSteps
<1>5. replay' = [stage |-> "over", row |-> 1, signer |-> FALSE, status |-> <<>>, exit |-> 0]  BY DEF EndReplay, Memory
<1>6. replay' \in ReplayRecords /\ replay'.stage = "over"  BY <1>5 DEF ReplayRecords, RowMaps
<1>7. census' \in Censuses /\ census'.rows = census.rows /\ (census'.is = "readable" => census.is = "readable")
  BY DEF CohortTyped, Censuses, Torn
<1>8. UNCHANGED <<prep, proof, support, diag>>  BY DEF Replaying
<1>9. Ids' = Ids /\ Receipts' = Receipts /\ \A r \in Ids : Evidenced(r)' <=> Evidenced(r)  BY <1>4, SameRows
<1>10. CohortTyped'  BY <1>4, <1>6, <1>7, <1>8, <1>9, SameRows DEF CohortTyped, Diagnostics
<1>11. Prepares' /\ ProvesCleanup'  BY <1>1, <1>4, <1>8 DEF Prepares, ProvesCleanup
<1>12. Admits'  BY <1>1, <1>4, <1>8 DEF Admits
<1>13. Replays'  BY <1>6 DEF Replays, ReplayStages, AttemptStages
<1>14. CensusIsTrue'  BY <1>7, <1>9 DEF CensusIsTrue
<1>15. Explained'  BY <1>8 DEF Explained
<1>16. lane.hosted => to = "diagnose"  BY <1>1 DEF Admits
<1>17. Passes'  BY <1>3, <1>4, <1>9, <1>16 DEF Passes
<1>. QED  BY <1>10, <1>11, <1>12, <1>13, <1>14, <1>15, <1>17

LEMMA RefuseKeeps == ASSUME CohortInv, RefuseManifest PROVE CohortInv'
  BY EndReplayKeeps DEF RefuseManifest, At

LEMMA KillReplayKeeps == ASSUME CohortInv, KillReplay PROVE CohortInv'
  BY EndReplayKeeps DEF KillReplay

LEMMA InventoryKeeps == ASSUME CohortInv, TakeInventory PROVE CohortInv'
<1>. DEFINE valid == \A r \in Ids : replay.status[r] = "receipt_valid_confined"
            exit == IF valid THEN 0 ELSE 2
<1>1. lane.step = "replay" /\ replay.stage \in ReplayStages /\ EndReplay(exit) /\ Replaying
      /\ UNCHANGED <<census, receipt, tests>>
  BY DEF TakeInventory, At, ReplayStages
<1>2. valid => \A r \in Ids : Evidenced(r)  BY <1>1 DEF CohortInv, Replays, CensusIsTrue, Saved
<1>3. exit \in {0, 1, 2} /\ (exit = 0 => valid)  OBVIOUS
<1>. HIDE DEF exit, valid
<1>. QED  BY <1>1, <1>2, <1>3, EndReplayKeeps

(* The diagnosis goes on. *)
LEMMA DiagnosisKeeps ==
  ASSUME CohortInv, Diagnosing, lane.step = "diagnose", lane' = lane, diag' \in Diagnostics, Explained'
  PROVE  CohortInv'
<1>. USE DEF CohortInv
<1>1. UNCHANGED <<prep, proof, support, replay, census, receipt>>  BY DEF Diagnosing
<1>2. Ids' = Ids /\ Receipts' = Receipts /\ RowMaps' = RowMaps /\ \A r \in Ids : Evidenced(r)' <=> Evidenced(r)  BY <1>1, SameRows
<1>3. CohortTyped'  BY <1>1, <1>2, SameRows DEF CohortTyped
<1>4. Prepares' /\ ProvesCleanup'  BY <1>1 DEF Prepares, ProvesCleanup
<1>5. Admits'  BY <1>1 DEF Admits
<1>6. Replays'  BY <1>1, <1>2 DEF Replays
<1>7. CensusIsTrue'  BY <1>1, <1>2 DEF CensusIsTrue
<1>8. Passes'  BY <1>1, <1>2 DEF Passes
<1>. QED  BY <1>3, <1>4, <1>5, <1>6, <1>7, <1>8

(* The diagnosis ends, with a record that explains each context or not. *)
LEMMA EndDiagnosisKeeps ==
  ASSUME CohortInv, Diagnosing, lane.step = "diagnose",
         NEW record \in {"NOT_RUN", Torn, "DIAGNOSTIC_REFUSED", "DIAGNOSTICS_RETAINED_NOT_COHORT_REPLACEMENT"},
         EndDiagnosis(record),
         record = "DIAGNOSTICS_RETAINED_NOT_COHORT_REPLACEMENT" => \A c \in DOMAIN diag.status : diag.status[c] = "retained"
  PROVE  CohortInv'
<1>. USE DEF CohortInv
<1>. DEFINE failed == lane.failed \/ record # "DIAGNOSTICS_RETAINED_NOT_COHORT_REPLACEMENT"
<1>1. lane' = [lane EXCEPT !.step = "reconcile", !.failed = failed]  BY DEF EndDiagnosis, CohortTyped, Lanes
<1>2. failed \in BOOLEAN /\ (~failed => ~lane.failed /\ \A c \in DOMAIN diag.status : diag.status[c] = "retained")
  BY DEF CohortTyped, Lanes
<1>. HIDE DEF failed
<1>3. /\ lane' \in Lanes /\ lane'.step = "reconcile" /\ lane'.failed = failed /\ lane'.manifest = lane.manifest
      /\ lane'.hosted = lane.hosted /\ lane'.runtime = lane.runtime
  BY <1>1, <1>2 DEF CohortTyped, Lanes, LaneSteps
<1>4. diag' = [diag EXCEPT !.stage = "over", !.census = record]  BY DEF EndDiagnosis
<1>5. diag' \in Diagnostics /\ diag'.stage = "over" /\ diag'.status = diag.status
  BY <1>4 DEF CohortTyped, Diagnostics
<1>6. UNCHANGED <<prep, proof, support, replay, census, receipt>>  BY DEF Diagnosing
<1>7. Ids' = Ids /\ Receipts' = Receipts /\ \A r \in Ids : Evidenced(r)' <=> Evidenced(r)  BY <1>3, <1>6, SameRows
<1>8. CohortTyped'  BY <1>3, <1>5, <1>6, SameRows DEF CohortTyped
<1>9. Prepares' /\ ProvesCleanup'  BY <1>3, <1>6 DEF Prepares, ProvesCleanup
<1>10. Admits'  BY <1>3, <1>6 DEF Admits
<1>11. replay.stage \notin ReplayStages  BY DEF Replays
<1>12. Replays'  BY <1>6, <1>11 DEF Replays, ReplayStages
<1>13. CensusIsTrue'  BY <1>6, <1>7 DEF CensusIsTrue
<1>14. Explained'  BY <1>5 DEF Explained
<1>15. Passes'  BY <1>2, <1>3, <1>5, <1>7 DEF Passes
<1>. QED  BY <1>8, <1>9, <1>10, <1>12, <1>13, <1>14, <1>15

LEMMA ConditionsHoldKeeps == ASSUME CohortInv, ConditionsHold PROVE CohortInv'
<1>. DEFINE statuses == [c \in DOMAIN Contexts |-> "selected_not_attempted"]
<1>1. statuses \in [DOMAIN Contexts -> ContextStatuses]  BY DEF ContextStatuses
<1>2. diag' = [diag EXCEPT !.stage = "setup", !.status = statuses, !.census = "NOT_RUN"] /\ diag.context = 1
  BY DEF ConditionsHold, Diagnoses, CohortInv, Explained
<1>. HIDE DEF statuses
<1>3. diag' \in Diagnostics /\ diag'.stage = "setup" /\ diag'.context = 1 /\ diag'.status = statuses
  BY <1>1, <1>2 DEF CohortInv, CohortTyped, Diagnostics
<1>4. \A c \in DOMAIN Contexts : c \in Nat /\ c >= 1  BY ContextsAreNumbers
<1>5. Explained'  BY <1>1, <1>3, <1>4 DEF Explained
<1>. QED  BY <1>3, <1>5, DiagnosisKeeps DEF ConditionsHold, Diagnoses

LEMMA ConditionsDifferKeeps == ASSUME CohortInv, ConditionsDiffer PROVE CohortInv'
  BY EndDiagnosisKeeps DEF ConditionsDiffer, Diagnoses

LEMMA SetUpKeeps == ASSUME CohortInv, SetUp PROVE CohortInv'
<1>1. diag.context \in DOMAIN Contexts /\ diag.status \in [DOMAIN Contexts -> ContextStatuses] /\ diag.context \in Nat
  BY DEF SetUp, Diagnoses, CohortInv, Explained, CohortTyped, Diagnostics
<1>. DEFINE statuses == [diag.status EXCEPT ![diag.context] = "attempt_started"]
<1>2. statuses \in [DOMAIN Contexts -> ContextStatuses] /\ \A c \in DOMAIN Contexts \ {diag.context} : statuses[c] = diag.status[c]
  BY <1>1 DEF ContextStatuses
<1>3. diag' = [diag EXCEPT !.stage = "phase", !.status = statuses]  BY DEF SetUp, CohortInv, CohortTyped, Diagnostics
<1>. HIDE DEF statuses
<1>4. diag' \in Diagnostics /\ diag'.stage = "phase" /\ diag'.context = diag.context /\ diag'.status = statuses
  BY <1>2, <1>3 DEF CohortInv, CohortTyped, Diagnostics
<1>5. \A c \in DOMAIN Contexts : c < diag.context => statuses[c] = "retained"
  BY <1>1, <1>2, ContextsAreNumbers DEF SetUp, Diagnoses, CohortInv, Explained
<1>6. diag.context >= 1  BY DEF SetUp, Diagnoses, CohortInv, Explained
<1>7. Explained'  BY <1>1, <1>2, <1>4, <1>5, <1>6 DEF Explained
<1>. QED  BY <1>4, <1>7, DiagnosisKeeps DEF SetUp, Diagnoses

(* A context is retained and the next one begins. *)
LEMMA NextContextKeeps ==
  ASSUME CohortInv, Diagnosing, lane.step = "diagnose", lane' = lane, diag.stage \in {"setup", "phase"},
         diag.context \in DOMAIN Contexts, NextContext
  PROVE  CohortInv'
<1>1. /\ diag.status \in [DOMAIN Contexts -> ContextStatuses] /\ diag.context \in Nat /\ diag.context >= 1
      /\ \A c \in DOMAIN Contexts : c < diag.context => diag.status[c] = "retained"
  BY DEF CohortInv, Explained, CohortTyped, Diagnostics
<1>. DEFINE statuses == [diag.status EXCEPT ![diag.context] = "retained"]
<1>2. /\ statuses \in [DOMAIN Contexts -> ContextStatuses] /\ statuses[diag.context] = "retained"
      /\ \A c \in DOMAIN Contexts \ {diag.context} : statuses[c] = diag.status[c]
  BY <1>1 DEF ContextStatuses
<1>. DEFINE context == diag.context + 1
<1>3. diag' = [diag EXCEPT !.stage = "setup", !.context = context, !.status = statuses] /\ context \in Nat
  BY <1>1 DEF NextContext, CohortInv, CohortTyped, Diagnostics
<1>. HIDE DEF statuses, context
<1>4. diag' \in Diagnostics /\ diag'.stage = "setup" /\ diag'.context = context /\ diag'.status = statuses
  BY <1>1, <1>2, <1>3 DEF CohortInv, CohortTyped, Diagnostics
<1>5. context >= 1 /\ \A c \in DOMAIN Contexts : c < context => statuses[c] = "retained"
  BY <1>1, <1>2, ContextsAreNumbers DEF context
<1>6. Explained'  BY <1>2, <1>4, <1>5 DEF Explained
<1>. QED  BY <1>4, <1>6, DiagnosisKeeps

LEMMA SetUpFailsKeeps == ASSUME CohortInv, SetUpFails PROVE CohortInv'
  BY NextContextKeeps DEF SetUpFails, Diagnoses
LEMMA PhaseEndsKeeps == ASSUME CohortInv, PhaseEnds PROVE CohortInv'
<1>1. diag.stage = "phase" /\ diag.context \in DOMAIN Contexts  BY DEF PhaseEnds, Diagnoses, CohortInv, Explained
<1>. QED  BY <1>1, NextContextKeeps DEF PhaseEnds, Diagnoses

LEMMA DiagnosedKeeps == ASSUME CohortInv, Diagnosed PROVE CohortInv'
<1>1. /\ diag.stage = "setup" /\ diag.context \notin DOMAIN Contexts /\ diag.context \in Nat /\ diag.context >= 1
      /\ DOMAIN diag.status = DOMAIN Contexts
      /\ \A c \in DOMAIN Contexts : c < diag.context => diag.status[c] = "retained"
  BY DEF Diagnosed, Diagnoses, CohortInv, Explained, CohortTyped, Diagnostics
<1>2. \A c \in DOMAIN diag.status : diag.status[c] = "retained"  BY <1>1, ContextsAreNumbers
<1>. QED  BY <1>2, EndDiagnosisKeeps DEF Diagnosed, Diagnoses

LEMMA KillDiagnosisKeeps == ASSUME CohortInv, KillDiagnosis PROVE CohortInv'
  BY EndDiagnosisKeeps DEF KillDiagnosis, Diagnoses, Torn

LEMMA ReconcileKeeps == ASSUME CohortInv, Reconcile PROVE CohortInv'
<1>. USE DEF CohortInv
<1>. DEFINE failed == lane.failed \/ support' \cup tests' # {}
<1>1. lane.step = "reconcile" /\ lane' = [lane EXCEPT !.step = "over", !.failed = failed]
  BY DEF Reconcile, CohortTyped, Lanes
<1>2. failed \in BOOLEAN /\ (~failed => ~lane.failed /\ support' \cup tests' = {})  BY DEF CohortTyped, Lanes
<1>. HIDE DEF failed
<1>3. /\ lane' \in Lanes /\ lane'.step = "over" /\ lane'.failed = failed /\ lane'.manifest = lane.manifest
      /\ lane'.hosted = lane.hosted /\ lane'.runtime = lane.runtime
  BY <1>1, <1>2 DEF CohortTyped, Lanes, LaneSteps
<1>4. UNCHANGED <<prep, proof, replay, census, receipt, diag>> /\ support' \subseteq support /\ (tests' # {} => tests # {})
  BY DEF Reconcile
<1>5. Ids' = Ids /\ Receipts' = Receipts /\ \A r \in Ids : Evidenced(r)' <=> Evidenced(r)  BY <1>3, <1>4, SameRows
<1>6. CohortTyped'  BY <1>3, <1>4, SameRows DEF CohortTyped, Diagnostics
<1>7. Prepares' /\ ProvesCleanup'  BY <1>1, <1>3, <1>4 DEF Prepares, ProvesCleanup
<1>8. Admits'  BY <1>1, <1>3, <1>4 DEF Admits
<1>9. replay.stage \notin ReplayStages  BY <1>1 DEF Replays
<1>10. Replays'  BY <1>4, <1>9 DEF Replays, ReplayStages
<1>11. CensusIsTrue' /\ Explained'  BY <1>4, <1>5 DEF CensusIsTrue, Explained
<1>12. Passes'  BY <1>1, <1>2, <1>3, <1>4, <1>5 DEF Passes
<1>. QED  BY <1>6, <1>7, <1>8, <1>10, <1>11, <1>12

LEMMA CohortStutters == ASSUME CohortInv, UNCHANGED cohortVars PROVE CohortInv'
<1>. USE DEF CohortInv
<1>1. UNCHANGED <<lane, prep, proof, support, replay, census, receipt, tests, diag>>  BY DEF cohortVars
<1>2. CohortTyped'  BY <1>1, SameRows DEF CohortTyped, Diagnostics
<1>3. Prepares' /\ ProvesCleanup' /\ Admits'  BY <1>1 DEF Prepares, ProvesCleanup, Admits
<1>4. Replays' /\ CensusIsTrue'  BY <1>1, SameRows DEF Replays, CensusIsTrue
<1>5. Explained' /\ Passes'  BY <1>1, SameRows DEF Explained, Passes
<1>. QED  BY <1>2, <1>3, <1>4, <1>5

(* The default cohort's files are true however its three programs fail,    *)
(* are interrupted or killed: a proof that says RUN leaves nothing of the  *)
(* preparation behind, the census calls a row valid and confined only over *)
(* a receipt a strict consumer accepts, candidates of the lane only run    *)
(* after such a proof, and a lane that passes has all of it.               *)
THEOREM CohortLeavesTruth == CohortSpec => []ArtifactsAreTrue
<1>1. CohortInit => CohortInv  BY InitCohort
<1>2. CohortInv /\ [CohortNext]_cohortVars => CohortInv'
  <2> SUFFICES ASSUME CohortInv, [CohortNext]_cohortVars PROVE CohortInv'  OBVIOUS
  <2>1. CASE BeginPreparation \/ CommandDone \/ CommandFails \/ Cleanup \/ KillPreparation
    BY <2>1, BeginPreparationKeeps, CommandDoneKeeps, CommandFailsKeeps, CleanupKeeps, KillPreparationKeeps
  <2>2. CASE \/ RefuseManifest \/ Declare \/ DeclareSigner \/ StartAttempt \/ FreezeRow \/ AttemptFails
             \/ RunCommand \/ CommandEnds \/ CommandCut \/ Judge \/ CheckFails \/ InterruptAttempt
             \/ TakeInventory \/ KillReplay
    BY <2>2, RefuseKeeps, DeclareKeeps, DeclareSignerKeeps, StartAttemptKeeps, FreezeKeeps, AttemptFailsKeeps,
       RunCommandKeeps, CommandEndsKeeps, CommandCutKeeps, JudgeKeeps, CheckFailsKeeps, InterruptAttemptKeeps,
       InventoryKeeps, KillReplayKeeps
  <2>3. CASE \/ ConditionsHold \/ ConditionsDiffer \/ SetUp \/ SetUpFails \/ PhaseEnds \/ Diagnosed \/ KillDiagnosis
             \/ Reconcile
    BY <2>3, ConditionsHoldKeeps, ConditionsDifferKeeps, SetUpKeeps, SetUpFailsKeeps, PhaseEndsKeeps, DiagnosedKeeps,
       KillDiagnosisKeeps, ReconcileKeeps
  <2>4. CASE CohortDone \/ UNCHANGED cohortVars  BY <2>4, CohortStutters DEF CohortDone
  <2>. QED  BY <2>1, <2>2, <2>3, <2>4 DEF CohortNext
<1>3. CohortInv => ArtifactsAreTrue
  BY DEF CohortInv, ProvesCleanup, CensusIsTrue, Admits, Passes, Evidenced, ArtifactsAreTrue
<1>. QED  BY <1>1, <1>2, <1>3, PTL DEF CohortSpec
==============================================================================
