-------------------------- MODULE EnvironmentProofs --------------------------
(***************************************************************************)
(* Proofs about module Environment, for every machine: any processes, any  *)
(* checkouts, any budget, any interleaving of builds, removals and kills.  *)
(***************************************************************************)
EXTENDS Environment, TLAPS

Items(s) == {s[i] : i \in 1..Len(s)}

LEMMA ItemsOfConcatenation ==
  ASSUME NEW S, NEW s \in Seq(S), NEW t \in Seq(S)
  PROVE  /\ s \o t \in Seq(S) /\ Len(s \o t) = Len(s) + Len(t)
         /\ Items(s \o t) = Items(s) \cup Items(t)
<1>1. s \o t \in Seq(S) /\ Len(s \o t) = Len(s) + Len(t)
  OBVIOUS
<1>2. ASSUME NEW i \in 1..Len(s)
      PROVE  i \in 1..Len(s \o t) /\ (s \o t)[i] = s[i]
  OBVIOUS
<1>3. ASSUME NEW i \in 1..Len(t)
      PROVE  i + Len(s) \in 1..Len(s \o t) /\ (s \o t)[i + Len(s)] = t[i]
  OBVIOUS
<1>4. ASSUME NEW i \in 1..Len(s \o t)
      PROVE  (s \o t)[i] \in Items(s) \cup Items(t)
  <2>1. CASE i <= Len(s)
    BY <2>1, <1>2 DEF Items
  <2>2. CASE i > Len(s)
    <3>1. i - Len(s) \in 1..Len(t) /\ (s \o t)[i] = t[i - Len(s)]
      BY <2>2
    <3> QED BY <3>1 DEF Items
  <2> QED BY <2>1, <2>2
<1>5. Items(s) \cup Items(t) \subseteq Items(s \o t)
  <2>1. ASSUME NEW x \in Items(s) PROVE x \in Items(s \o t)
    BY <1>2 DEF Items
  <2>2. ASSUME NEW x \in Items(t) PROVE x \in Items(s \o t)
    BY <1>3 DEF Items
  <2> QED BY <2>1, <2>2
<1> QED BY <1>1, <1>4, <1>5 DEF Items

(* The requirements files of a checkout are exactly those present. *)
LEMMA ReqFilesListPresent ==
  ASSUME NEW c \in Checkouts
  PROVE  /\ ReqFiles(c) \in Seq(RequirementFiles)
         /\ Len(ReqFiles(c)) \in 0..3
         /\ Present(c, RequirementFiles) = Items(ReqFiles(c))
<1> DEFINE n == Listed(c, "named")
           u == Listed(c, "unhashed")
           t == Listed(c, "testdir")
<1>1. ASSUME NEW k \in RequirementFiles
      PROVE  /\ Listed(c, k) \in Seq(RequirementFiles)
             /\ Len(Listed(c, k)) \in 0..1
             /\ Items(Listed(c, k)) = {x \in {k} : Tree[c][x] # "absent"}
  <2>1. CASE Tree[c][k] = "absent"
    BY <2>1 DEF Listed, Items
  <2>2. CASE Tree[c][k] # "absent"
    BY <2>2 DEF Listed, Items
  <2> QED BY <2>1, <2>2
<1>2. {"named", "unhashed", "testdir"} = RequirementFiles
  BY DEF RequirementFiles
<1>3. n \o u \in Seq(RequirementFiles) /\ Len(n \o u) = Len(n) + Len(u)
      /\ Items(n \o u) = Items(n) \cup Items(u)
  BY <1>1, <1>2, ItemsOfConcatenation
<1>4. PICK w : w = n \o u
  OBVIOUS
<1>5. w \in Seq(RequirementFiles) /\ t \in Seq(RequirementFiles)
  BY <1>1, <1>2, <1>3, <1>4
<1> HIDE DEF n, u, t
<1>8. w \o t \in Seq(RequirementFiles) /\ Len(w \o t) = Len(w) + Len(t)
      /\ Items(w \o t) = Items(w) \cup Items(t)
  BY <1>5, ItemsOfConcatenation
<1>9. ReqFiles(c) = w \o t
  BY <1>4 DEF ReqFiles, n, u, t
<1>6. Len(n) \in 0..1 /\ Len(u) \in 0..1 /\ Len(t) \in 0..1
  BY <1>1, <1>2 DEF n, u, t
<1>7. Items(ReqFiles(c)) = {x \in RequirementFiles : Tree[c][x] # "absent"}
  BY <1>1, <1>2, <1>3, <1>4, <1>8, <1>9 DEF n, u, t
<1> QED BY <1>3, <1>4, <1>6, <1>7, <1>8, <1>9 DEF Present

(* Checkouts that share a directory have one identity, and a directory     *)
(* stands for itself.                                                      *)
LEMMA DirectoryKeepsIdentity ==
  ASSUME NEW c \in Checkouts
  PROVE  /\ Directory[c] \in Checkouts
         /\ EnvCacheIdentity(Directory[c]) = EnvCacheIdentity(c)
BY DEF Directory

(* An editable checkout is the owner of its identity. *)
LEMMA EditableOwnsItsDirectory ==
  ASSUME NEW c \in Checkouts, NEW d \in Checkouts, Directory[c] = Directory[d], NeedsEditable(c)
  PROVE  d = c
<1>1. EnvCacheIdentity(c) = EnvCacheIdentity(d)
  BY DirectoryKeepsIdentity
<1>2. EnvCacheIdentity(c).owner = c
  BY DEF EnvCacheIdentity
<1>3. EnvCacheIdentity(d).owner \in {d, NoCheckout}
  BY DEF EnvCacheIdentity
<1> QED BY <1>1, <1>2, <1>3, EnvironmentAssumption

-----------------------------------------------------------------------------
Stages == {"idle", "lookup", "preflight"} \cup Building \cup Settled
Records == [python : BOOLEAN, has : SUBSET Installable, link : Checkouts \cup {NoCheckout}]

(* A process that is not idle has a directory. *)
LEMMA ActiveHasDirectory ==
  ASSUME EnvTypeOK, NEW p \in Procs, at[p] # "idle"
  PROVE  job[p] \in Checkouts /\ Dir(p) \in Checkouts /\ Venv(p) \in Records
BY DirectoryKeepsIdentity DEF EnvTypeOK, Dir, Venv, Records

(* A timeout handed out is a number, and takes the clock past the budget   *)
(* by less than the floor.                                                 *)
LEMMA BoundedTime ==
  ASSUME EnvTypeOK, NEW p \in Procs, ~Exhausted(p)
  PROVE  /\ Bounded(p) \in Nat
         /\ spent[p] + Bounded(p) > Budget => spent[p] + Bounded(p) < Budget + MinTimeout
BY EnvironmentAssumption DEF EnvTypeOK, Bounded, Least, Exhausted

(* A step takes no time, or some while the budget is not exhausted. *)
Timed(p) ==
  \/ UNCHANGED spent
  \/ spent' = [spent EXCEPT ![p] = 0]
  \/ ~Exhausted(p) /\ \E time \in {0, Bounded(p)} : Takes(p, time)

LEMMA StepsAreTimed ==
  ASSUME NEW p \in Procs, EnvTypeOK,
         EnvStep(p) \/ Return(p) \/ \E c \in Checkouts, plan \in Plans : Begin(p, c, plan)
  PROVE  Timed(p)
<1> USE DEF Timed
<1>1. CASE SkipOptional(p)
  <2>1. CASE Exhausted(p)
    BY <1>1, <2>1 DEF SkipOptional, Takes, EnvTypeOK
  <2>2. CASE ~Exhausted(p)
    BY <1>1, <2>2 DEF SkipOptional
  <2> QED BY <2>1, <2>2
<1>2. CASE TimesOut(p)
  BY <1>2 DEF TimesOut
<1>3. CASE EnvStep(p) /\ ~SkipOptional(p) /\ ~TimesOut(p)
  BY <1>3 DEF EnvStep, Lookup, PreflightPasses, Rmtree, Create, UvFails, InstallFile, InstallCore,
              InstallPackages, InstallEditable, EditableFails, Install, BuildFails, OutOfTime, Check
<1>4. CASE Return(p) \/ \E c \in Checkouts, plan \in Plans : Begin(p, c, plan)
  BY <1>4 DEF Return, Begin
<1> QED BY <1>1, <1>2, <1>3, <1>4

Begins(p) == \E c \in Checkouts, plan \in Plans : Begin(p, c, plan)
Moves(p) == Begins(p) \/ EnvStep(p) \/ Return(p)

(* What one process does to the cache. *)
LEMMA CacheTyped ==
  ASSUME NEW p \in Procs, EnvTypeOK, Moves(p)
  PROVE  venv' \in [Checkouts -> Records]
<1>0. venv \in [Checkouts -> Records]
  BY DEF EnvTypeOK, Records
<1>1. CASE Rmtree(p) \/ Create(p)
  <2>1. at[p] # "idle"
    BY <1>1 DEF Rmtree, Create
  <2>2. Absent \in Records /\ Venv(p) \in Records
    BY <2>1, ActiveHasDirectory DEF Absent, Records
  <2>3. ASSUME NEW v \in Records PROVE WithPython(v) \in Records
    BY DEF WithPython, Records
  <2> QED BY <1>0, <1>1, <2>2, <2>3 DEF Rmtree, Create
<1>2. CASE InstallFile(p) \/ InstallCore(p)
  <2>1. job[p] \in Checkouts /\ Dir(p) \in Checkouts
    BY <1>2, ActiveHasDirectory DEF InstallFile, InstallCore
  <2>2. PICK item \in Installable : Install(p, item)
    <3>1. CASE InstallFile(p)
      <4>1. ReqFiles(job[p]) \in Seq(RequirementFiles) /\ Len(ReqFiles(job[p])) \in 0..3
        BY <2>1, ReqFilesListPresent
      <4>2. next[p] \in 1..Len(ReqFiles(job[p]))
        <5>1. next[p] \in 1..4
          BY DEF EnvTypeOK
        <5>2. next[p] <= Len(ReqFiles(job[p]))
          BY <3>1 DEF InstallFile
        <5> QED BY <4>1, <5>1, <5>2
      <4>3. ReqFiles(job[p])[next[p]] \in RequirementFiles
        BY <4>1, <4>2
      <4> QED BY <3>1, <4>3 DEF InstallFile, Installable
    <3>2. CASE InstallCore(p)
      BY <3>2 DEF InstallCore, Installable
    <3> QED BY <1>2, <3>1, <3>2
  <2> QED BY <1>0, <2>1, <2>2 DEF Install, Records
<1>3. CASE InstallEditable(p)
  <2>1. job[p] \in Checkouts /\ Dir(p) \in Checkouts
    BY <1>3, ActiveHasDirectory DEF InstallEditable
  <2> QED BY <1>0, <1>3, <2>1 DEF InstallEditable, Records
<1>4. CASE ~(Rmtree(p) \/ Create(p) \/ InstallFile(p) \/ InstallCore(p) \/ InstallEditable(p))
  BY <1>0, <1>4 DEF Moves, Begins, Begin, Return, EnvStep, Lookup, PreflightPasses, UvFails,
                    InstallPackages, SkipOptional, EditableFails, BuildFails, TimesOut, OutOfTime, Check
<1> QED BY <1>1, <1>2, <1>3, <1>4

(* Where a process goes, and with which checkout and file. *)
LEMMA ControlTyped ==
  ASSUME NEW p \in Procs, EnvTypeOK, Moves(p)
  PROVE  /\ at' \in [Procs -> Stages]
         /\ job' \in [Procs -> Checkouts \cup {NoCheckout}]
         /\ next' \in [Procs -> 1..4]
         /\ \A q \in Procs : at'[q] # "idle" => job'[q] \in Checkouts
                                              /\ next'[q] <= Len(ReqFiles(job'[q])) + 1
<1> USE DEF GoTo, Keep, Stages, Building, Settled, Provided, Failed
<1>1. CASE Begins(p)
  <2>1. PICK c \in Checkouts, plan \in Plans : Begin(p, c, plan)
    BY <1>1 DEF Begins
  <2>2. Route(c, plan) \subseteq Stages
    BY DEF Route, AmbiguityCode, Refusals
  <2>3. Len(ReqFiles(c)) \in 0..3
    BY ReqFilesListPresent
  <2> QED BY <2>1, <2>2, <2>3 DEF Begin, EnvTypeOK
<1>2. CASE Return(p)
  BY <1>2 DEF Return, EnvTypeOK
<1>3. CASE InstallFile(p)
  <2>1. job[p] \in Checkouts
    BY <1>3, ActiveHasDirectory DEF InstallFile
  <2>2. Len(ReqFiles(job[p])) \in 0..3
    BY <2>1, ReqFilesListPresent
  <2>3. next[p] + 1 \in 1..4 /\ next[p] + 1 <= Len(ReqFiles(job[p])) + 1
    <3>1. next[p] \in 1..4
      BY DEF EnvTypeOK
    <3>2. next[p] <= Len(ReqFiles(job[p]))
      BY <1>3 DEF InstallFile
    <3>3. \A n \in 1..4, l \in 0..3 : n <= l => n + 1 \in 1..4 /\ n + 1 <= l + 1
      OBVIOUS
    <3> QED BY <2>2, <3>1, <3>2, <3>3
  <2>4. UNCHANGED <<at, job>> /\ next' = [next EXCEPT ![p] = next[p] + 1]
    BY <1>3 DEF InstallFile
  <2> QED BY <2>3, <2>4 DEF EnvTypeOK
<1>4. CASE EnvStep(p) /\ ~InstallFile(p)
  <2>1. UNCHANGED <<job, next>>
    BY <1>4 DEF EnvStep, Lookup, PreflightPasses, Rmtree, Create, UvFails, InstallCore,
                InstallPackages, InstallEditable, SkipOptional, EditableFails, BuildFails, TimesOut, OutOfTime, Check
  <2>2. at[p] # "idle" /\ \E stage \in Stages \ {"idle"} : at' = [at EXCEPT ![p] = stage]
    BY <1>4 DEF EnvStep, Lookup, PreflightPasses, Rmtree, Create, UvFails, InstallCore,
                InstallPackages, InstallEditable, SkipOptional, EditableFails, BuildFails, TimesOut, OutOfTime, Check
  <2> QED BY <2>1, <2>2 DEF EnvTypeOK
<1> QED BY <1>1, <1>2, <1>3, <1>4 DEF Moves

LEMMA OwnTyped ==
  ASSUME NEW p \in Procs, EnvTypeOK, Moves(p)
  PROVE  own' \in [Procs -> BOOLEAN]
<1>1. CASE Rmtree(p) \/ Create(p) \/ Return(p)
  BY <1>1 DEF Rmtree, Create, Return, EnvTypeOK
<1>2. CASE ~(Rmtree(p) \/ Create(p) \/ Return(p))
  BY <1>2 DEF Moves, Begins, Begin, EnvStep, Lookup, PreflightPasses, UvFails, InstallFile, InstallCore,
              InstallPackages, InstallEditable, SkipOptional, EditableFails, BuildFails, TimesOut, OutOfTime, Check,
              Keep, EnvTypeOK
<1> QED BY <1>1, <1>2

LEMMA SpentTyped ==
  ASSUME NEW p \in Procs, EnvTypeOK, Timed(p)
  PROVE  spent' \in [Procs -> Nat]
BY BoundedTime DEF Timed, Takes, EnvTypeOK

(* Type correctness of the cache and its users. *)
THEOREM EnvironmentTyped == EnvSafety => []EnvTypeOK
<1>1. EnvInit => EnvTypeOK
  BY DEF EnvInit, EnvTypeOK, Absent, Installable
<1>2. ASSUME EnvTypeOK, [EnvNext]_evars PROVE EnvTypeOK'
  <2>1. CASE UNCHANGED evars
    BY <1>2, <2>1 DEF EnvTypeOK, evars
  <2>2. ASSUME NEW p \in Procs, Moves(p) PROVE EnvTypeOK'
    <3>1. Timed(p)
      BY <1>2, <2>2, StepsAreTimed DEF Moves, Begins
    <3> QED BY <1>2, <2>2, <3>1, CacheTyped, ControlTyped, OwnTyped, SpentTyped
            DEF EnvTypeOK, Records, Stages
  <2>3. CASE Abandon
    BY <1>2, <2>3 DEF Abandon, EnvTypeOK
  <2> QED BY <1>2, <2>1, <2>2, <2>3 DEF EnvNext, Moves, Begins
<1> QED BY <1>1, <1>2, PTL DEF EnvSafety

-----------------------------------------------------------------------------
(* Steps that leave the cache as it is, or only remove, create, fill or    *)
(* link one directory.                                                     *)
LEMMA CacheEffects ==
  ASSUME NEW p \in Procs, EnvTypeOK, Moves(p)
  PROVE  \/ UNCHANGED venv
         \/ Rmtree(p) \/ Create(p) \/ InstallFile(p) \/ InstallCore(p) \/ InstallEditable(p)
BY DEF Moves, Begins, Begin, Return, EnvStep, Lookup, PreflightPasses, UvFails, InstallPackages,
       SkipOptional, EditableFails, BuildFails, TimesOut, OutOfTime, Check

(* A directory's path leads into the editable checkout it belongs to. *)
LinkIsOwner ==
  \A d \in Checkouts : venv[d].link # NoCheckout =>
    /\ venv[d].link \in Checkouts
    /\ NeedsEditable(venv[d].link) /\ Directory[venv[d].link] = d

LEMMA LinkStaysOwner ==
  ASSUME NEW p \in Procs, EnvTypeOK, LinkIsOwner, Moves(p)
  PROVE  LinkIsOwner'
<1>0. venv \in [Checkouts -> Records]
  BY DEF EnvTypeOK, Records
<1>1. CASE UNCHANGED venv
  BY <1>1 DEF LinkIsOwner
<1>2. CASE Rmtree(p) \/ Create(p)
  <2>1. at[p] # "idle"
    BY <1>2 DEF Rmtree, Create
  <2>2. Dir(p) \in Checkouts /\ Venv(p) \in Records
    BY <2>1, ActiveHasDirectory
  <2>3. \E v \in {Absent, Venv(p), WithPython(Absent), WithPython(Venv(p))} :
          venv' = [venv EXCEPT ![Dir(p)] = v]
    BY <1>2 DEF Rmtree, Create
  <2>4. ASSUME NEW v \in {Absent, Venv(p), WithPython(Absent), WithPython(Venv(p))}
        PROVE  v.link \in {NoCheckout, venv[Dir(p)].link}
    BY <2>2 DEF Absent, WithPython, Records, Venv
  <2> QED BY <1>0, <2>2, <2>3, <2>4 DEF LinkIsOwner
<1>3. CASE InstallFile(p) \/ InstallCore(p)
  <2>1. PICK item : Install(p, item)
    BY <1>3 DEF InstallFile, InstallCore
  <2>2. Dir(p) \in Checkouts
    BY <1>3, ActiveHasDirectory DEF InstallFile, InstallCore
  <2>3. \A d \in Checkouts : venv'[d].link = venv[d].link
    BY <1>0, <2>1, <2>2 DEF Install, Records
  <2> QED BY <2>3 DEF LinkIsOwner
<1>4. CASE InstallEditable(p)
  <2>1. job[p] \in Checkouts /\ Dir(p) \in Checkouts /\ NeedsEditable(job[p])
    BY <1>4, ActiveHasDirectory DEF InstallEditable
  <2>2. venv'[Dir(p)].link = job[p] /\ \A d \in Checkouts \ {Dir(p)} : venv'[d] = venv[d]
    BY <1>0, <1>4, <2>1 DEF InstallEditable, Records
  <2> QED BY <2>1, <2>2 DEF LinkIsOwner, Dir
<1> QED BY <1>1, <1>2, <1>3, <1>4, CacheEffects

(* No process is ever handed a venv whose path leads into another          *)
(* checkout: a linked directory belongs to one repository and commit       *)
(* (env_cache_identity), and only its owner ever links it.                 *)
THEOREM EditableVenvsArePrivate == EnvSafety => []EditableIsPrivate
<1>1. EnvInit => LinkIsOwner
  BY DEF EnvInit, LinkIsOwner, Absent
<1>2. EnvTypeOK /\ LinkIsOwner /\ [EnvNext]_evars => LinkIsOwner'
  <2> SUFFICES ASSUME EnvTypeOK, LinkIsOwner, [EnvNext]_evars PROVE LinkIsOwner'
    OBVIOUS
  <2>1. CASE UNCHANGED evars \/ Abandon
    BY <2>1 DEF evars, Abandon, LinkIsOwner
  <2> QED BY <2>1, LinkStaysOwner DEF EnvNext, Moves, Begins
<1>3. EnvTypeOK /\ LinkIsOwner => EditableIsPrivate
  <2> SUFFICES ASSUME EnvTypeOK, LinkIsOwner, NEW p \in Procs, at[p] \in {"cached", "fresh"},
                      Venv(p).link # NoCheckout
               PROVE  Venv(p).link = job[p]
    BY DEF EditableIsPrivate
  <2>1. job[p] \in Checkouts /\ Dir(p) \in Checkouts
    BY ActiveHasDirectory
  <2>2. Venv(p).link \in Checkouts /\ NeedsEditable(Venv(p).link)
        /\ Directory[Venv(p).link] = Directory[job[p]]
    BY <2>1 DEF LinkIsOwner, Venv, Dir
  <2> QED BY <2>1, <2>2, EditableOwnsItsDirectory
<1> QED BY <1>1, <1>2, <1>3, EnvironmentTyped, PTL DEF EnvSafety

(* The commands a provisioning bounds by its deadline overdraw the budget  *)
(* by less than the floor under one timeout.                               *)
THEOREM BudgetIsKept == EnvSafety => []WithinBudget
<1>1. EnvInit => WithinBudget
  BY EnvironmentAssumption DEF EnvInit, WithinBudget
<1>2. EnvTypeOK /\ WithinBudget /\ [EnvNext]_evars => WithinBudget'
  <2> SUFFICES ASSUME EnvTypeOK, WithinBudget, [EnvNext]_evars PROVE WithinBudget'
    OBVIOUS
  <2>1. CASE UNCHANGED evars
    BY <2>1 DEF evars, WithinBudget
  <2>2. CASE Abandon
    BY <2>2, EnvironmentAssumption DEF Abandon, WithinBudget
  <2>3. ASSUME NEW p \in Procs, Moves(p) PROVE WithinBudget'
    <3>1. Timed(p)
      BY <2>3, StepsAreTimed DEF Moves, Begins
    <3>2. spent \in [Procs -> Nat] /\ Budget \in Nat
      BY EnvironmentAssumption DEF EnvTypeOK
    <3>3. CASE UNCHANGED spent \/ spent' = [spent EXCEPT ![p] = 0]
      BY <3>2, <3>3 DEF WithinBudget
    <3>4. CASE ~Exhausted(p) /\ \E time \in {0, Bounded(p)} : Takes(p, time)
      <4>1. PICK time \in {0, Bounded(p)} : spent' = [spent EXCEPT ![p] = spent[p] + time]
        BY <3>4 DEF Takes
      <4>2. spent[p] + time > Budget => spent[p] + time < Budget + MinTimeout
        BY <3>2, <3>4, BoundedTime DEF Exhausted
      <4> QED BY <3>2, <4>1, <4>2 DEF WithinBudget
    <3> QED BY <3>1, <3>3, <3>4 DEF Timed
  <2> QED BY <2>1, <2>2, <2>3 DEF EnvNext, Moves, Begins
<1> QED BY <1>1, <1>2, EnvironmentTyped, PTL DEF EnvSafety

-----------------------------------------------------------------------------
(* A directory that is still its creator's holds what the creator has got  *)
(* to: the files before the next one, then all of them and the core.       *)
Filed(p) == {ReqFiles(job[p])[i] : i \in 1..(next[p] - 1)}
OwnIsFilled ==
  \A p \in Procs : own[p] =>
    /\ at[p] \in {"files", "packages", "editable", "retry", "check", "fresh"} \cup Failed
    /\ Filed(p) \subseteq Venv(p).has
    /\ at[p] \in {"packages", "editable", "retry", "check", "fresh"} =>
         next[p] > Len(ReqFiles(job[p])) /\ "core" \in Venv(p).has

(* The other processes' directories: a step of p either leaves what they   *)
(* have, or takes their directory from them.                               *)
LEMMA OthersKeepTheirs ==
  ASSUME NEW p \in Procs, EnvTypeOK, OwnIsFilled, Moves(p), NEW q \in Procs \ {p}, own'[q]
  PROVE  /\ own[q] /\ at'[q] = at[q] /\ job'[q] = job[q] /\ next'[q] = next[q]
         /\ Venv(q).has \subseteq Venv(q)'.has
<1>1. own[q]
  BY OwnTyped DEF Moves, Begins, Begin, Return, EnvStep, Lookup, PreflightPasses, Rmtree, Create, UvFails,
         InstallFile, InstallCore, InstallPackages, InstallEditable, SkipOptional, EditableFails, BuildFails,
         TimesOut, OutOfTime, Check, Keep, EnvTypeOK
<1>2. at'[q] = at[q] /\ job'[q] = job[q] /\ next'[q] = next[q]
  BY DEF Moves, Begins, Begin, Return, EnvStep, Lookup, PreflightPasses, Rmtree, Create, UvFails,
         InstallFile, InstallCore, InstallPackages, InstallEditable, SkipOptional, EditableFails, BuildFails,
         TimesOut, OutOfTime, Check, Keep, GoTo, EnvTypeOK
<1>3. job[q] \in Checkouts /\ Dir(q) \in Checkouts /\ Dir(q)' = Dir(q)
  BY <1>1, <1>2, ActiveHasDirectory DEF OwnIsFilled, Dir, Failed
<1>4. venv \in [Checkouts -> Records]
  BY DEF EnvTypeOK, Records
<1>5. Venv(q).has \subseteq venv'[Dir(q)].has
  <2>1. CASE UNCHANGED venv
    BY <2>1 DEF Venv
  <2>2. CASE Rmtree(p) \/ Create(p)
    <3>1. Dir(q) # Dir(p)
      BY <2>2 DEF Rmtree, Create
    <3>2. venv'[Dir(q)] = venv[Dir(q)]
      BY <2>2, <3>1, <1>3, <1>4 DEF Rmtree, Create
    <3> QED BY <3>2 DEF Venv
  <2>3. CASE InstallFile(p) \/ InstallCore(p)
    <3>1. PICK item : Install(p, item)
      BY <2>3 DEF InstallFile, InstallCore
    <3> QED BY <3>1, <1>3, <1>4 DEF Install, Venv, Records
  <2>4. CASE InstallEditable(p)
    BY <2>4, <1>3, <1>4 DEF InstallEditable, Venv, Records
  <2> QED BY <2>1, <2>2, <2>3, <2>4, CacheEffects
<1> QED BY <1>1, <1>2, <1>3, <1>5 DEF Venv

(* A build starts at the first requirements file. *)
StartsAtFirst ==
  \A p \in Procs : at[p] \in {"lookup", "preflight", "create", "fallback"} => next[p] = 1

LEMMA EveryBuildStartsAtFirst ==
  ASSUME NEW p \in Procs, EnvTypeOK, StartsAtFirst, Moves(p)
  PROVE  StartsAtFirst'
<1>1. at \in [Procs -> Stages] /\ next \in [Procs -> 1..4]
  BY DEF EnvTypeOK, Stages
<1> QED
  BY <1>1 DEF StartsAtFirst, Moves, Begins, Begin, Return, EnvStep, Lookup, PreflightPasses,
       Rmtree, Create, UvFails, InstallFile, InstallCore, InstallPackages, InstallEditable,
       SkipOptional, EditableFails, BuildFails, TimesOut, OutOfTime, Check, Keep, GoTo

(* The owner's own steps once it has created the directory. *)
LEMMA OwnerFills ==
  ASSUME NEW p \in Procs, EnvTypeOK, OwnIsFilled, own[p], own'[p],
         \/ InstallFile(p) \/ InstallCore(p) \/ InstallPackages(p) \/ InstallEditable(p)
         \/ EditableFails(p) \/ SkipOptional(p) \/ BuildFails(p) \/ TimesOut(p) \/ OutOfTime(p) \/ Check(p)
  PROVE  /\ at'[p] \in {"files", "packages", "editable", "retry", "check", "fresh"} \cup Failed
         /\ Filed(p)' \subseteq Venv(p)'.has
         /\ at'[p] \in {"packages", "editable", "retry", "check", "fresh"} =>
              next'[p] > Len(ReqFiles(job'[p])) /\ "core" \in Venv(p)'.has
<1>0. at \in [Procs -> Stages] /\ next \in [Procs -> 1..4] /\ venv \in [Checkouts -> Records]
  BY DEF EnvTypeOK, Stages, Records
<1>1. /\ at[p] \in {"files", "packages", "editable", "retry", "check", "fresh"} \cup Failed
      /\ Filed(p) \subseteq Venv(p).has
      /\ at[p] \in {"packages", "editable", "retry", "check", "fresh"} =>
           next[p] > Len(ReqFiles(job[p])) /\ "core" \in Venv(p).has
  BY DEF OwnIsFilled
<1>2. job' = job
  BY DEF InstallFile, InstallCore, InstallPackages, InstallEditable, SkipOptional, EditableFails, BuildFails,
         TimesOut, OutOfTime, Check, Keep
<1>3. Dir(p) \in Checkouts /\ Venv(p) \in Records /\ Venv(p)' = venv'[Dir(p)]
  BY <1>1, <1>2, ActiveHasDirectory DEF Dir, Venv, Failed
<1>4. CASE InstallFile(p)
  <2>1. /\ at'[p] = "files" /\ next'[p] = next[p] + 1
        /\ venv'[Dir(p)].has = Venv(p).has \cup {ReqFiles(job[p])[next[p]]}
    BY <1>0, <1>3, <1>4 DEF InstallFile, Install, Venv, Records
  <2>2. Filed(p)' = Filed(p) \cup {ReqFiles(job[p])[next[p]]}
    <3>1. 1..(next'[p] - 1) = 1..(next[p] - 1) \cup {next[p]}
      BY <1>0, <2>1
    <3> QED BY <3>1, <1>2 DEF Filed
  <2> QED BY <1>1, <1>3, <2>1, <2>2
<1>5. CASE InstallCore(p)
  <2>1. /\ at'[p] = "packages" /\ next' = next /\ next[p] > Len(ReqFiles(job[p]))
        /\ venv'[Dir(p)].has = Venv(p).has \cup {"core"}
    BY <1>0, <1>3, <1>5 DEF InstallCore, Install, Venv, Records, GoTo
  <2> QED BY <1>1, <1>2, <1>3, <2>1 DEF Filed
<1>6. CASE ~InstallFile(p) /\ ~InstallCore(p)
  <2>1. next' = next /\ Filed(p)' = Filed(p)
    BY <1>6, <1>2 DEF InstallPackages, InstallEditable, SkipOptional, EditableFails, BuildFails,
         TimesOut, OutOfTime, Check, Filed
  <2>2. venv'[Dir(p)].has = Venv(p).has
    <3>1. CASE InstallEditable(p)
      BY <3>1, <1>0, <1>3 DEF InstallEditable, Venv, Records
    <3>2. CASE UNCHANGED venv
      BY <3>2 DEF Venv
    <3> QED BY <3>1, <3>2, <1>6 DEF InstallPackages, SkipOptional, EditableFails, BuildFails, TimesOut, OutOfTime, Check
  <2>3. /\ at'[p] \in {"files", "packages", "editable", "retry", "check", "fresh"} \cup Failed
        /\ at'[p] \in {"packages", "editable", "retry", "check", "fresh"} =>
             at[p] \in {"packages", "editable", "retry", "check", "fresh"}
    BY <1>0, <1>1, <1>6 DEF InstallPackages, InstallEditable, SkipOptional, EditableFails, BuildFails,
         TimesOut, OutOfTime, Check, GoTo, Failed
  <2> QED BY <1>1, <1>2, <1>3, <2>1, <2>2, <2>3
<1> QED BY <1>4, <1>5, <1>6

LEMMA OwnStaysFilled ==
  ASSUME NEW p \in Procs, EnvTypeOK, OwnIsFilled, StartsAtFirst, Moves(p)
  PROVE  OwnIsFilled'
<1> SUFFICES ASSUME NEW q \in Procs, own'[q]
             PROVE  /\ at'[q] \in {"files", "packages", "editable", "retry", "check", "fresh"} \cup Failed
                    /\ Filed(q)' \subseteq Venv(q)'.has
                    /\ at'[q] \in {"packages", "editable", "retry", "check", "fresh"} =>
                         next'[q] > Len(ReqFiles(job'[q])) /\ "core" \in Venv(q)'.has
  BY DEF OwnIsFilled
<1>0. at \in [Procs -> Stages] /\ next \in [Procs -> 1..4] /\ own \in [Procs -> BOOLEAN]
  BY DEF EnvTypeOK, Stages
<1>1. CASE q # p
  BY <1>1, OthersKeepTheirs DEF OwnIsFilled, Filed
<1>2. CASE q = p /\ Create(p)
  <2>1. next'[p] = 1 /\ at'[p] = "files"
    BY <1>0, <1>2 DEF Create, GoTo, StartsAtFirst
  <2>2. Filed(p)' = {}
    BY <2>1 DEF Filed
  <2> QED BY <1>2, <2>1, <2>2
<1>3. CASE q = p /\ ~Create(p)
  <2>1. own[p]
    BY <1>0, <1>3, OwnTyped DEF Moves, Begins, Begin, Return, EnvStep, Lookup, PreflightPasses, Rmtree,
         UvFails, InstallFile, InstallCore, InstallPackages, InstallEditable, SkipOptional, EditableFails, BuildFails,
         TimesOut, OutOfTime, Check, Keep
  <2>2. ~Return(p)
    BY <1>0, <1>3 DEF Return
  <2>3. at[p] \in {"files", "packages", "editable", "retry", "check", "fresh"} \cup Failed
    BY <2>1 DEF OwnIsFilled
  <2>4. /\ ~Begins(p) /\ ~Lookup(p) /\ ~PreflightPasses(p) /\ ~Rmtree(p) /\ ~UvFails(p)
    BY <2>3 DEF Begins, Begin, Lookup, PreflightPasses, Rmtree, UvFails, Failed
  <2> QED BY <1>3, <2>1, <2>2, <2>4, OwnerFills DEF Moves, EnvStep
<1> QED BY <1>1, <1>2, <1>3

(* A build that ended with its directory still its own has put every       *)
(* requirements file and the core packages there.                          *)
THEOREM BuiltVenvsAreComplete == EnvSafety => []FreshIsComplete
<1>1. EnvInit => OwnIsFilled /\ StartsAtFirst
  BY DEF EnvInit, OwnIsFilled, StartsAtFirst
<1>2. EnvTypeOK /\ OwnIsFilled /\ StartsAtFirst /\ [EnvNext]_evars => (OwnIsFilled /\ StartsAtFirst)'
  <2> SUFFICES ASSUME EnvTypeOK, OwnIsFilled, StartsAtFirst, [EnvNext]_evars
               PROVE  OwnIsFilled' /\ StartsAtFirst'
    OBVIOUS
  <2>1. CASE \E p \in Procs : Moves(p)
    BY <2>1, OwnStaysFilled, EveryBuildStartsAtFirst
  <2>2. CASE Abandon
    BY <2>2 DEF Abandon, OwnIsFilled, StartsAtFirst
  <2>3. CASE UNCHANGED evars
    BY <2>3 DEF evars, OwnIsFilled, StartsAtFirst, Filed, Venv, Dir
  <2> QED BY <2>1, <2>2, <2>3 DEF EnvNext, Moves, Begins
<1>3. EnvTypeOK /\ OwnIsFilled => FreshIsComplete
  <2> SUFFICES ASSUME EnvTypeOK, OwnIsFilled, NEW p \in Procs, at[p] = "fresh", own[p]
               PROVE  Present(job[p], RequirementFiles) \cup {"core"} \subseteq Venv(p).has
    BY DEF FreshIsComplete
  <2>1. /\ next[p] > Len(ReqFiles(job[p])) /\ "core" \in Venv(p).has
        /\ Filed(p) \subseteq Venv(p).has
    BY DEF OwnIsFilled
  <2>2. job[p] \in Checkouts /\ next[p] \in 1..4
    BY ActiveHasDirectory DEF EnvTypeOK
  <2>3. Items(ReqFiles(job[p])) \subseteq Filed(p)
    <3>1. Len(ReqFiles(job[p])) \in Nat
      BY <2>2, ReqFilesListPresent
    <3>2. 1..Len(ReqFiles(job[p])) \subseteq 1..(next[p] - 1)
      BY <2>1, <2>2, <3>1
    <3> QED BY <3>2 DEF Items, Filed
  <2> QED BY <2>1, <2>2, <2>3, ReqFilesListPresent
<1> QED BY <1>1, <1>2, <1>3, EnvironmentTyped, PTL DEF EnvSafety
=============================================================================
