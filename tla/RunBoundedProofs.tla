-------------------------- MODULE RunBoundedProofs --------------------------
(***************************************************************************)
(* Proofs about the two admission queues: RunBounded, for any finite set   *)
(* of callers and any number of permits, and Router, for any finite set of *)
(* callers and any models, chains, jobs and limits.                        *)
(***************************************************************************)
EXTENDS RunBounded, Router, FiniteSetTheorems, TLAPS

Settled == {"join", "end", "done"}

(* What the point a caller has reached says of its reaper and its command.  *)
PhaseInv(c) ==
  /\ pc[c] \in {"idle", "queue", "slot"} => reaper[c] = "none"
  /\ reaper[c] \in {"none", "born", "armed"} => procs[c] = {}
  /\ pc[c] \in Settled => reaper[c] \notin Alive /\ procs[c] \subseteq {"escaped"}
  /\ (parent /\ c \in term) => pc[c] = "grace"
  /\ (parent /\ pc[c] \in {"spawned", "waiting"} /\ reaper[c] = "gone") => procs[c] = {}
  /\ outcome[c] = "result" => reaper[c] = "gone" /\ procs[c] = {}

IInv == TypeOK /\ PermitsConserved /\ \A c \in Callers : PhaseInv(c)

-----------------------------------------------------------------------------
LEMMA HoldersFinite == IsFiniteSet(Holders) /\ Cardinality(Holders) \in Nat
<1>1. Holders \in SUBSET Callers
  BY DEF Holders
<1> QED
  BY <1>1, FS_Subset, FS_CardinalityType, CallersAssumption

LEMMA InitIInv == Init => IInv
<1> SUFFICES ASSUME Init PROVE IInv
  OBVIOUS
<1>1. TypeOK
  BY PermitsAssumption DEF Init, TypeOK, Holding, Alive, Processes
<1>2. Holders = {}
  BY DEF Init, Holders, Holding
<1>3. PermitsConserved
  BY <1>2, FS_EmptySet, PermitsAssumption DEF Init, PermitsConserved
<1>4. \A c \in Callers : PhaseInv(c)
  BY DEF Init, PhaseInv, Settled, Alive
<1> QED
  BY <1>1, <1>3, <1>4 DEF IInv

(* The semaphore moves with its holders: one in at Admit, one out at the    *)
(* two ends of a call that was admitted.                                    *)
LEMMA PermitStep == TypeOK /\ PermitsConserved /\ [Next]_vars =>
                      PermitsConserved' /\ permits' \in 0..Permits
<1> SUFFICES ASSUME TypeOK, PermitsConserved, [Next]_vars
             PROVE  PermitsConserved' /\ permits' \in 0..Permits
  OBVIOUS
<1>0. /\ IsFiniteSet(Holders) /\ Cardinality(Holders) \in Nat
      /\ permits \in Nat /\ Permits \in Nat /\ permits + Cardinality(Holders) = Permits
  BY HoldersFinite, PermitsAssumption DEF TypeOK, PermitsConserved
<1>1. ASSUME Holders' = Holders, permits' = permits
      PROVE  PermitsConserved' /\ permits' \in 0..Permits
  BY <1>0, <1>1 DEF PermitsConserved
<1>2. ASSUME NEW c \in Callers, c \in Holders, Holders' = Holders \ {c}, permits' = permits + 1
      PROVE  PermitsConserved' /\ permits' \in 0..Permits
  <2>1. Cardinality(Holders') = Cardinality(Holders) - 1
    BY <1>0, <1>2, FS_RemoveElement
  <2>2. Cardinality(Holders) # 0
    BY <1>0, <1>2, FS_EmptySet
  <2>3. Cardinality(Holders') \in Nat
    BY <1>0, <2>1, <2>2
  <2> QED
    BY <1>0, <1>2, <2>1, <2>3 DEF PermitsConserved
<1>3. CASE UNCHANGED vars
  BY <1>1, <1>3 DEF vars, callVars, Holders
<1>4. ASSUME NEW c \in Callers, Admit(c) PROVE PermitsConserved' /\ permits' \in 0..Permits
  <2>1. Holders' = Holders \cup {c} /\ c \notin Holders
    BY <1>4 DEF Admit, At, Holders, Holding, TypeOK
  <2>2. Cardinality(Holders') = Cardinality(Holders) + 1
    BY <1>0, <2>1, FS_AddElement
  <2>3. permits' = permits - 1 /\ permits > 0
    BY <1>4 DEF Admit
  <2> QED
    BY <1>0, <2>2, <2>3 DEF PermitsConserved
<1>5. ASSUME NEW c \in Callers, NeverStarts(c) \/ Finish(c)
      PROVE  PermitsConserved' /\ permits' \in 0..Permits
  <2>1. c \in Holders /\ Holders' = Holders \ {c}
    BY <1>5 DEF NeverStarts, Finish, At, Holders, Holding, TypeOK
  <2>2. permits' = permits + 1
    BY <1>5 DEF NeverStarts, Finish
  <2> QED
    BY <1>2, <2>1, <2>2
<1>6. ASSUME NEW c \in Callers, Call(c) \/ QueueExpires(c)
      PROVE  PermitsConserved' /\ permits' \in 0..Permits
  <2>1. Holders' = Holders /\ permits' = permits
    BY <1>6 DEF Call, QueueExpires, At, Holders, Holding, TypeOK
  <2> QED
    BY <1>1, <2>1
<1>7. ASSUME NEW c \in Callers,
             Spawn(c) \/ ReaderStarts(c) \/ ReaderCannotStart(c) \/ Exited(c) \/ Deadline(c)
             \/ Terminate(c) \/ KillGroup(c) \/ Join(c)
      PROVE  PermitsConserved' /\ permits' \in 0..Permits
  <2>1. permits' = permits
    BY <1>7 DEF Spawn, ReaderStarts, ReaderCannotStart, Exited, Deadline, Terminate, KillGroup, Join
  <2>2. pc[c] \in Holding /\ \E to \in Holding : pc' = [pc EXCEPT ![c] = to]
    BY <1>7 DEF Spawn, ReaderStarts, ReaderCannotStart, Exited, Deadline, Terminate, KillGroup,
                Join, At, Holding
  <2>3. Holders' = Holders
    BY <2>2 DEF Holders, TypeOK
  <2> QED
    BY <1>1, <2>1, <2>3
<1>8. ASSUME NEW c \in Callers, ReaperSteps(c) \/ Fork(c) \/ Die(c)
      PROVE  PermitsConserved' /\ permits' \in 0..Permits
  <2>1. UNCHANGED callVars
    BY <1>8 DEF ReaperSteps, Arm, SpawnWorkload, Disowned, WorkloadCannotSpawn, WorkloadEnds,
                TakeSignal, BeginSweep, Sweep, Fork, Die
  <2> QED
    BY <1>1, <2>1 DEF callVars, Holders
<1>9. CASE ParentDies
  BY <1>1, <1>9 DEF ParentDies, callVars, Holders
<1> QED
  BY <1>3, <1>4, <1>5, <1>6, <1>7, <1>8, <1>9 DEF Next, CallerSteps

(* Every other variable keeps its type by itself. *)
LEMMA TypeStep == TypeOK /\ PermitsConserved /\ [Next]_vars => TypeOK'
<1> SUFFICES ASSUME TypeOK, PermitsConserved, [Next]_vars PROVE TypeOK'
  OBVIOUS
<1>0. permits' \in 0..Permits
  BY PermitStep
<1> USE <1>0 DEF TypeOK, At, EndsAs, Becomes, Holding, Alive, Processes
<1>1. CASE UNCHANGED vars
  BY <1>1 DEF vars, callVars
<1>2. ASSUME NEW c \in Callers, Call(c) \/ CallerSteps(c) PROVE TypeOK'
  <2>1. CASE Call(c) \/ Admit(c) \/ QueueExpires(c) \/ NeverStarts(c)
    BY <2>1 DEF Call, Admit, QueueExpires, NeverStarts
  <2>2. CASE Spawn(c) \/ ReaderStarts(c) \/ ReaderCannotStart(c)
    BY <2>2 DEF Spawn, ReaderStarts, ReaderCannotStart
  <2>3. CASE Exited(c) \/ Deadline(c) \/ Terminate(c)
    BY <2>3 DEF Exited, Deadline, Terminate
  <2>4. CASE KillGroup(c)
    <3>1. procs' \in [Callers -> SUBSET {"work", "group", "escaped"}]
      BY <2>4 DEF KillGroup
    <3>2. reaper' \in [Callers -> {"none", "gone", "killed"} \cup Alive]
      BY <2>4 DEF KillGroup
    <3> QED
      BY <2>4, <3>1, <3>2 DEF KillGroup
  <2>5. CASE Join(c)
    <3>1. reader' \in [Callers -> {"off", "draining", "eof", "lost"}]
      BY <2>5 DEF Join
    <3> QED
      BY <2>5, <3>1 DEF Join
  <2>6. CASE Finish(c)
    BY <2>6 DEF Finish
  <2> QED
    BY <1>2, <2>1, <2>2, <2>3, <2>4, <2>5, <2>6 DEF CallerSteps
<1>3. ASSUME NEW c \in Callers, ReaperSteps(c) PROVE TypeOK'
  <2>1. CASE Arm(c) \/ Disowned(c) \/ WorkloadCannotSpawn(c) \/ WorkloadEnds(c) \/ BeginSweep(c)
    BY <2>1 DEF Arm, Disowned, WorkloadCannotSpawn, WorkloadEnds, BeginSweep, callVars
  <2>2. CASE SpawnWorkload(c) \/ Sweep(c)
    BY <2>2 DEF SpawnWorkload, Sweep, callVars
  <2>3. CASE TakeSignal(c)
    BY <2>3 DEF TakeSignal, callVars
  <2> QED
    BY <1>3, <2>1, <2>2, <2>3 DEF ReaperSteps
<1>4. ASSUME NEW c \in Callers, Fork(c) \/ Die(c) PROVE TypeOK'
  <2>1. procs' \in [Callers -> SUBSET {"work", "group", "escaped"}]
    BY <1>4 DEF Fork, Die
  <2> QED
    BY <1>4, <2>1 DEF Fork, Die, callVars
<1>5. CASE ParentDies
  BY <1>5 DEF ParentDies, callVars, Living
<1> QED
  BY <1>1, <1>2, <1>3, <1>4, <1>5 DEF Next

(* A step of one call says nothing of another. *)
LEMMA OthersKeep ==
  ASSUME NEW d \in Callers, PhaseInv(d),
         pc'[d] = pc[d], outcome'[d] = outcome[d], reaper'[d] = reaper[d], procs'[d] = procs[d],
         parent' = parent, d \in term' => d \in term
  PROVE  PhaseInv(d)'
  BY DEF PhaseInv

(* Caller and reaper, point by point. *)
LEMMA PhaseStep ==
  ASSUME TypeOK, \A c \in Callers : PhaseInv(c), [Next]_vars
  PROVE  \A c \in Callers : PhaseInv(c)'
<1> SUFFICES ASSUME NEW d \in Callers PROVE PhaseInv(d)'
  OBVIOUS
<1>0. PhaseInv(d)
  OBVIOUS
<1>1. CASE UNCHANGED vars
  BY <1>0, <1>1, OthersKeep DEF vars, callVars
<1>2. ASSUME NEW c \in Callers, c # d, Call(c) \/ CallerSteps(c) \/ ReaperSteps(c) \/ Fork(c) \/ Die(c)
      PROVE  PhaseInv(d)'
  <2>1. /\ pc'[d] = pc[d] /\ outcome'[d] = outcome[d] /\ parent' = parent
        /\ reaper'[d] = reaper[d] /\ procs'[d] = procs[d] /\ (d \in term' => d \in term)
    <3>1. CASE Call(c) \/ CallerSteps(c)
      BY <1>2, <3>1 DEF CallerSteps, Call, Admit, QueueExpires, NeverStarts, Spawn, ReaderStarts,
           ReaderCannotStart, Exited, Deadline, Terminate, KillGroup, Join, Finish,
           At, EndsAs, Becomes, TypeOK
    <3>2. CASE ReaperSteps(c)
      BY <1>2, <3>2 DEF ReaperSteps, Arm, SpawnWorkload, Disowned, WorkloadCannotSpawn, WorkloadEnds,
           TakeSignal, BeginSweep, Sweep, Becomes, callVars, TypeOK
    <3>3. CASE Fork(c) \/ Die(c)
      BY <1>2, <3>3 DEF Fork, Die, callVars, TypeOK
    <3> QED
      BY <1>2, <3>1, <3>2, <3>3
  <2> QED
    BY <1>0, <2>1, OthersKeep
<1>3. CASE Call(d) \/ CallerSteps(d)
  <2> USE <1>0 DEF PhaseInv, Settled, Alive, At, EndsAs, Becomes, TypeOK
  <2>1. CASE Call(d) \/ Admit(d) \/ QueueExpires(d) \/ NeverStarts(d)
    BY <2>1 DEF Call, Admit, QueueExpires, NeverStarts
  <2>2. CASE Spawn(d) \/ ReaderStarts(d) \/ ReaderCannotStart(d)
    BY <2>2 DEF Spawn, ReaderStarts, ReaderCannotStart
  <2>3. CASE Exited(d) \/ Deadline(d)
    BY <2>3 DEF Exited, Deadline
  <2>4. CASE Terminate(d)
    BY <2>4 DEF Terminate
  <2>5. CASE KillGroup(d)
    BY <2>5 DEF KillGroup
  <2>6. CASE Join(d) \/ Finish(d)
    BY <2>6 DEF Join, Finish
  <2> QED
    BY <1>3, <2>1, <2>2, <2>3, <2>4, <2>5, <2>6 DEF CallerSteps
<1>4. CASE ReaperSteps(d)
  <2> USE <1>0 DEF PhaseInv, Settled, Alive, Becomes, TypeOK, callVars
  <2>1. CASE Arm(d) \/ Disowned(d)
    BY <2>1 DEF Arm, Disowned
  <2>2. CASE SpawnWorkload(d) \/ WorkloadCannotSpawn(d) \/ WorkloadEnds(d)
    BY <2>2 DEF SpawnWorkload, WorkloadCannotSpawn, WorkloadEnds
  <2>3. CASE TakeSignal(d)
    BY <2>3 DEF TakeSignal
  <2>4. CASE BeginSweep(d) \/ Sweep(d)
    BY <2>4 DEF BeginSweep, Sweep
  <2> QED
    BY <1>4, <2>1, <2>2, <2>3, <2>4 DEF ReaperSteps
<1>5. CASE Fork(d)
  <2>1. PICK kin \in {"group", "escaped"} : /\ procs[d] \cap {"work", "group", kin} # {}
                                           /\ procs'[d] = procs[d] \cup {kin}
    BY <1>5 DEF Fork, TypeOK
  <2>2. procs[d] # {}
    BY <2>1
  <2>3. procs[d] \subseteq {"escaped"} => procs'[d] \subseteq {"escaped"}
    BY <2>1
  <2>4. pc' = pc /\ outcome' = outcome /\ reaper' = reaper /\ term' = term /\ parent' = parent
    BY <1>5 DEF Fork, callVars
  <2> QED
    BY <1>0, <2>2, <2>3, <2>4 DEF PhaseInv
<1>6. CASE Die(d)
  <2>1. procs'[d] \subseteq procs[d]
    BY <1>6 DEF Die, TypeOK
  <2>2. pc' = pc /\ outcome' = outcome /\ reaper' = reaper /\ term' = term /\ parent' = parent
    BY <1>6 DEF Die, callVars
  <2> QED
    BY <1>0, <2>1, <2>2 DEF PhaseInv
<1>7. CASE ParentDies
  BY <1>0, <1>7 DEF ParentDies, callVars, PhaseInv
<1> QED
  BY <1>1, <1>2, <1>3, <1>4, <1>5, <1>6, <1>7 DEF Next

THEOREM Contained == Spec => []IInv
<1>1. IInv /\ [Next]_vars => IInv'
  BY PermitStep, TypeStep, PhaseStep DEF IInv
<1> QED
  BY InitIInv, <1>1, PTL DEF Spec

-----------------------------------------------------------------------------
(* Whose reaper lives has a permit, so there are never more than permits.   *)
LEMMA LivingHold == IInv => Throttled
<1> SUFFICES ASSUME IInv PROVE Throttled
  OBVIOUS
<1>1. Living \subseteq Holders
  BY DEF IInv, TypeOK, PhaseInv, Living, Holders, Holding, Alive, Settled
<1>2. IsFiniteSet(Holders) /\ Cardinality(Holders) \in Nat
  BY HoldersFinite
<1>3. IsFiniteSet(Living) /\ Cardinality(Living) <= Cardinality(Holders) /\ Cardinality(Living) \in Nat
  BY <1>1, <1>2, FS_Subset, FS_CardinalityType
<1>4. Cardinality(Holders) <= Permits
  BY <1>2, PermitsAssumption DEF IInv, TypeOK, PermitsConserved
<1> QED
  BY <1>2, <1>3, <1>4, PermitsAssumption DEF Throttled

(* Type correctness: the semaphore never leaves 0..Permits. *)
THEOREM TypeCorrect == Spec => []TypeOK
<1>1. IInv => TypeOK
  BY DEF IInv
<1> QED
  BY <1>1, Contained, PTL

(* Every way out gives back what the way in took. *)
THEOREM SemaphoreBalanced == Spec => []PermitsConserved
<1>1. IInv => PermitsConserved
  BY DEF IInv
<1> QED
  BY <1>1, Contained, PTL

(* Never more commands than permits. *)
THEOREM ThrottleHolds == Spec => []Throttled
  BY LivingHold, Contained, PTL

(* A result means that the command and all its descendants are gone. *)
THEOREM ResultContained == Spec => []ResultIsContained
<1>1. IInv => ResultIsContained
  BY DEF IInv, PhaseInv, ResultIsContained
<1> QED
  BY <1>1, Contained, PTL

(* No process of the command's session survives the call. *)
THEOREM SessionKilled == Spec => []SessionIsDead
<1>1. IInv => SessionIsDead
  BY DEF IInv, PhaseInv, SessionIsDead, Settled
<1> QED
  BY <1>1, Contained, PTL

-----------------------------------------------------------------------------
(* The router.  The semaphore of a model is registered as long as a call on *)
(* the model refers to it, and no other model's call does.                  *)
RouterCall == [model : Models \cup {NoModel}, slot : Semaphores \cup {NoSlot}, spent : Int, leg : Int,
         tries : Int, grown : Int, room : Int, wake : Int, billed : Int, client : BOOLEAN,
         made : Nat]

RouterTyped ==
  /\ stage \in [Requesters -> Waiting \cup {"idle"}]
  /\ job \in [Requesters -> RouterCall]
  /\ registry \in [Models -> Semaphores \cup {NoSlot}]
  /\ slots \in [Semaphores -> Int]

Legged == {"leg", "posted", "cooling"}
Referring ==
  \A c \in Requesters :
    /\ stage[c] = "idle" => job[c].slot = NoSlot
    /\ stage[c] # "idle" => /\ job[c].model \in Models /\ job[c].made \in 1..Len(Job[c])
                            /\ job[c].slot \in Semaphores /\ job[c].slot = registry[job[c].model]
    /\ stage[c] \in Legged => job[c].leg \in 1..Legs(c)
Apart ==
  \A m, n \in Models : registry[m] \in Semaphores /\ registry[m] = registry[n] => m = n
Needed ==
  \A m \in Models : registry[m] \in Semaphores =>
    \E c \in Requesters : stage[c] # "idle" /\ job[c].model = m
Counted ==
  \A m \in Models : registry[m] \in Semaphores =>
    slots[registry[m]] + Cardinality(RunningOn(m)) = MaxInflight
RouterInv == RouterTyped /\ Referring /\ Apart /\ Needed /\ Counted

LEMMA RunningFinite ==
  ASSUME NEW m
  PROVE  IsFiniteSet(RunningOn(m)) /\ Cardinality(RunningOn(m)) \in Nat
<1>1. RunningOn(m) \in SUBSET Requesters
  BY DEF RunningOn
<1> QED
  BY <1>1, FS_Subset, FS_CardinalityType, RouterAssumption

LEMMA NobodysCall ==
  /\ NoJob \in RouterCall
  /\ \A k \in Nat : /\ [NoJob EXCEPT !.made = k] \in RouterCall
                    /\ [NoJob EXCEPT !.made = k].slot = NoSlot
<1>1. NoJob \in RouterCall /\ NoJob.slot = NoSlot
  BY DEF NoJob, RouterCall
<1>2. \A j \in RouterCall, k \in Nat :
        [j EXCEPT !.made = k] \in RouterCall /\ [j EXCEPT !.made = k].slot = j.slot
  BY DEF RouterCall
<1> QED
  BY <1>1, <1>2

LEMMA RouterInvInit == RouterInit => RouterInv
<1> SUFFICES ASSUME RouterInit PROVE RouterInv
  OBVIOUS
<1>0. NoJob \in RouterCall
  BY NobodysCall
<1>1. RouterTyped
  BY <1>0, RouterAssumption DEF RouterInit, RouterTyped, Semaphores
<1>2. Referring
  BY DEF RouterInit, Referring, NoJob, Legged
<1>3. \A m \in Models : registry[m] \notin Semaphores
  BY RouterAssumption DEF RouterInit, Semaphores
<1> QED
  BY <1>1, <1>2, <1>3 DEF RouterInv, Apart, Needed, Counted

(* A step of a call that neither enters, acquires nor leaves.               *)
LEMMA Inside ==
  ASSUME RouterInv, RouterTyped', registry' = registry, slots' = slots,
         \A c \in Requesters :
           /\ stage'[c] = "idle" <=> stage[c] = "idle"
           /\ stage'[c] \in InSlot <=> stage[c] \in InSlot
           /\ job'[c].model = job[c].model /\ job'[c].slot = job[c].slot
           /\ job'[c].made = job[c].made
           /\ stage'[c] \in Legged => job'[c].leg \in 1..Legs(c)
  PROVE  RouterInv'
<1>1. \A c \in Requesters : Legs(c)' = Legs(c)
  BY DEF Legs
<1>2. Referring'
  BY <1>1 DEF RouterInv, Referring
<1>3. Apart' /\ Needed'
  BY DEF RouterInv, Apart, Needed
<1>4. \A m \in Models : RunningOn(m)' = RunningOn(m)
  BY DEF RunningOn
<1>5. Counted'
  BY <1>4 DEF RouterInv, Counted
<1> QED
  BY <1>2, <1>3, <1>5 DEF RouterInv

(* The same for a step of one call that holds its slot.                     *)
LEMMA Moves ==
  ASSUME RouterInv, NEW c \in Requesters, stage[c] \in InSlot, registry' = registry, slots' = slots,
         NEW next \in InSlot, stage' = [stage EXCEPT ![c] = next],
         NEW j \in RouterCall, job' = [job EXCEPT ![c] = j],
         j.model = job[c].model, j.slot = job[c].slot, j.made = job[c].made,
         next \in Legged => j.leg \in 1..Legs(c)
  PROVE  RouterInv'
<1>1. RouterTyped'
  BY DEF RouterInv, RouterTyped, InSlot
<1>2. \A d \in Requesters :
        /\ stage'[d] = "idle" <=> stage[d] = "idle"
        /\ stage'[d] \in InSlot <=> stage[d] \in InSlot
  BY DEF RouterInv, RouterTyped, InSlot, Waiting
<1>3. \A d \in Requesters :
        job'[d].model = job[d].model /\ job'[d].slot = job[d].slot /\ job'[d].made = job[d].made
  BY DEF RouterInv, RouterTyped
<1>4. \A d \in Requesters : stage'[d] \in Legged => job'[d].leg \in 1..Legs(d)
  BY DEF RouterInv, RouterTyped, Referring
<1> QED
  BY <1>1, <1>2, <1>3, <1>4, Inside

LEMMA WriteTimes ==
  ASSUME NEW j \in RouterCall, NEW k \in Int
  PROVE  /\ [j EXCEPT !.tries = k] \in RouterCall
         /\ [j EXCEPT !.wake = k] \in RouterCall
         /\ [j EXCEPT !.spent = k] \in RouterCall
BY DEF RouterCall

LEMMA WriteClient ==
  ASSUME NEW j \in RouterCall, NEW b \in BOOLEAN
  PROVE  [j EXCEPT !.client = b] \in RouterCall
BY DEF RouterCall

LEMMA WriteSize ==
  ASSUME NEW j \in RouterCall, NEW g \in Int, NEW r \in Int, NEW b \in Int
  PROVE  [j EXCEPT !.grown = g, !.room = r, !.billed = b] \in RouterCall
<1> DEFINE j1 == [j EXCEPT !.grown = g]
           j2 == [j1 EXCEPT !.room = r]
<1>1. j1 \in RouterCall
  BY DEF RouterCall
<1>2. [j EXCEPT !.grown = g, !.room = r, !.billed = b] = [j2 EXCEPT !.billed = b]
  OBVIOUS
<1> HIDE DEF j1
<1>3. j2 \in RouterCall
  BY <1>1 DEF RouterCall
<1> HIDE DEF j2
<1> QED
  BY <1>2, <1>3 DEF RouterCall

LEMMA WriteLeg ==
  ASSUME NEW j \in RouterCall, NEW n \in Int, NEW r \in Int, NEW b \in BOOLEAN
  PROVE  [j EXCEPT !.leg = n, !.tries = 0, !.grown = 0, !.billed = 0, !.room = r, !.client = b]
           \in RouterCall
<1> DEFINE j1 == [j EXCEPT !.leg = n]
           j2 == [j1 EXCEPT !.tries = 0]
           j3 == [j2 EXCEPT !.grown = 0, !.room = r, !.billed = 0]
<1>1. j1 \in RouterCall
  BY DEF RouterCall
<1>2. [j EXCEPT !.leg = n, !.tries = 0, !.grown = 0, !.billed = 0, !.room = r, !.client = b]
        = [j3 EXCEPT !.client = b]
  OBVIOUS
<1> HIDE DEF j1
<1>3. j2 \in RouterCall
  BY <1>1 DEF RouterCall
<1> HIDE DEF j2
<1>0. 0 \in Int
  OBVIOUS
<1>4. j3 \in RouterCall
  BY <1>0, <1>3, WriteSize, Zenon
<1> HIDE DEF j3
<1> QED
  BY <1>2, <1>4 DEF RouterCall

LEMMA ElementOf == ASSUME NEW S, NEW s \in Seq(S), NEW i \in 1..Len(s) PROVE s[i] \in S
OBVIOUS

LEMMA StartsLeg ==
  ASSUME RouterInv, NEW c \in Requesters, stage[c] \in InSlot, NEW n \in 1..Legs(c), StartLeg(c, n)
  PROVE  RouterInv'
<1> DEFINE room == Job[c][job[c].made].room
           client == IF n = 1 THEN TRUE ELSE job[c].client
           j == [job[c] EXCEPT !.leg = n, !.tries = 0, !.grown = 0, !.billed = 0, !.room = room,
                               !.client = client]
<1>1. job[c] \in RouterCall /\ job[c].made \in 1..Len(Job[c])
  BY DEF RouterInv, RouterTyped, Referring, InSlot, Waiting
<1>2. room \in Int /\ client \in BOOLEAN
  <2>1. Job[c] \in Seq([model : Models, room : Nat])
    BY RouterAssumption
  <2>2. Job[c][job[c].made] \in [model : Models, room : Nat]
    BY <1>1, <2>1, ElementOf
  <2>3. room \in Int
    BY <2>2
  <2>4. client \in BOOLEAN
    BY <1>1 DEF RouterCall
  <2> QED
    BY <2>3, <2>4
<1>3. job' = [job EXCEPT ![c] = j]
  BY DEF StartLeg, RouterInv, RouterTyped
<1> HIDE DEF room, client
<1>n. n \in Int
  BY DEF Legs
<1>4. j \in RouterCall
  BY <1>n, <1>1, <1>2, WriteLeg, Zenon
<1>5. j.model = job[c].model /\ j.slot = job[c].slot /\ j.made = job[c].made /\ j.leg = n
  BY <1>1 DEF RouterCall
<1> HIDE DEF j
<1> QED
  BY <1>3, <1>4, <1>5, Moves DEF StartLeg, To, InSlot, Waiting

(* A call that leaves takes the entry with it if no other call refers to    *)
(* its semaphore, and then no other call is on its model.                   *)
LEMMA Leaves ==
  ASSUME RouterInv, NEW c \in Requesters, stage[c] # "idle", NEW how, Leave(c, how)
  PROVE  /\ stage' \in [Requesters -> Waiting \cup {"idle"}]
         /\ job' \in [Requesters -> RouterCall]
         /\ registry' \in [Models -> Semaphores \cup {NoSlot}]
         /\ Referring' /\ Apart' /\ Needed'
         /\ \A m \in Models : registry'[m] \in Semaphores => registry'[m] = registry[m]
<1> DEFINE m0 == job[c].model
           s0 == job[c].slot
           left == [NoJob EXCEPT !.made = job[c].made]
<1>1. m0 \in Models /\ s0 \in Semaphores /\ registry[m0] = s0 /\ NoSlot \notin Semaphores
  BY RouterAssumption DEF RouterInv, Referring, Semaphores
<1>2. left \in RouterCall /\ left.slot = NoSlot
  <2>1. job[c].made \in Nat
    BY DEF RouterInv, RouterTyped, RouterCall
  <2> QED
    BY <2>1, NobodysCall
<1> HIDE DEF left
<1>3. job' = [job EXCEPT ![c] = left] /\ stage' = [stage EXCEPT ![c] = "idle"]
  BY DEF Leave, To, left
<1>4. CASE Refer(s0) = {c}
  <2>1. registry' = [registry EXCEPT ![m0] = NoSlot]
    BY <1>4 DEF Leave
  <2>2. \A d \in Requesters \ {c} : stage[d] # "idle" => job[d].model # m0
    BY <1>1, <1>4 DEF RouterInv, Referring, Refer
  <2>3. \A d \in Requesters \ {c} : stage'[d] = stage[d] /\ job'[d] = job[d]
    BY <1>3 DEF RouterInv, RouterTyped
  <2>4. \A m \in Models \ {m0} : registry'[m] = registry[m]
    BY <2>1 DEF RouterInv, RouterTyped
  <2>5. stage'[c] = "idle" /\ job'[c].slot = NoSlot /\ registry'[m0] = NoSlot
    BY <1>1, <1>2, <1>3, <2>1 DEF RouterInv, RouterTyped
  <2>6. Referring'
    BY <2>2, <2>3, <2>4, <2>5 DEF RouterInv, Referring, Legs, Legged
  <2>7. Apart'
    BY <1>1, <2>4, <2>5 DEF RouterInv, Apart
  <2>8. Needed'
    <3> SUFFICES ASSUME NEW m \in Models, registry'[m] \in Semaphores
                 PROVE  \E d \in Requesters : stage'[d] # "idle" /\ job'[d].model = m
      BY DEF Needed
    <3>1. m # m0 /\ registry[m] \in Semaphores
      BY <1>1, <2>4, <2>5
    <3>2. PICK d \in Requesters : stage[d] # "idle" /\ job[d].model = m
      BY <3>1 DEF RouterInv, Needed
    <3> QED
      BY <2>3, <3>1, <3>2
  <2> QED
    BY <1>1, <1>2, <1>3, <2>1, <2>4, <2>5, <2>6, <2>7, <2>8 DEF RouterInv, RouterTyped
<1>5. CASE Refer(s0) # {c}
  <2>1. registry' = registry
    BY <1>5 DEF Leave
  <2>2. PICK e \in Requesters \ {c} : job[e].slot = s0
    BY <1>5 DEF Refer
  <2>3. stage[e] # "idle" /\ job[e].model = m0
    BY <1>1, <2>2 DEF RouterInv, Referring, Apart
  <2>4. \A d \in Requesters \ {c} : stage'[d] = stage[d] /\ job'[d] = job[d]
    BY <1>3 DEF RouterInv, RouterTyped
  <2>5. stage'[c] = "idle" /\ job'[c].slot = NoSlot
    BY <1>2, <1>3 DEF RouterInv, RouterTyped
  <2>6. Referring'
    BY <2>1, <2>4, <2>5 DEF RouterInv, Referring, Legs, Legged
  <2>7. Apart'
    BY <2>1 DEF RouterInv, Apart
  <2>8. Needed'
    <3> SUFFICES ASSUME NEW m \in Models, registry[m] \in Semaphores
                 PROVE  \E d \in Requesters : stage'[d] # "idle" /\ job'[d].model = m
      BY <2>1 DEF Needed
    <3>1. CASE m = m0
      BY <2>2, <2>3, <2>4, <3>1
    <3>2. CASE m # m0
      <4>1. PICK d \in Requesters : stage[d] # "idle" /\ job[d].model = m
        BY DEF RouterInv, Needed
      <4> QED
        BY <2>4, <3>2, <4>1
    <3> QED
      BY <3>1, <3>2
  <2> QED
    BY <1>2, <1>3, <2>1, <2>6, <2>7, <2>8 DEF RouterInv, RouterTyped
<1> QED
  BY <1>4, <1>5

LEMMA SlotReturned ==
  ASSUME RouterInv, NEW c \in Requesters, stage[c] \in InSlot, NEW how, Returns(c, how)
  PROVE  RouterInv'
<1> DEFINE m0 == job[c].model
           s0 == job[c].slot
<1>1. stage[c] # "idle" /\ Leave(c, how) /\ slots' = [slots EXCEPT ![s0] = @ + 1]
  BY DEF Returns, InSlot, Waiting
<1>2. m0 \in Models /\ s0 \in Semaphores /\ registry[m0] = s0
  BY <1>1 DEF RouterInv, Referring
<1>3. slots' \in [Semaphores -> Int] /\ slots'[s0] = slots[s0] + 1
      /\ \A s \in Semaphores \ {s0} : slots'[s] = slots[s]
  BY <1>1, <1>2 DEF RouterInv, RouterTyped
<1>4. RouterTyped' /\ Referring' /\ Apart' /\ Needed'
  BY <1>1, <1>3, Leaves DEF RouterTyped
<1>5. \A d \in Requesters \ {c} : stage'[d] = stage[d] /\ job'[d] = job[d]
  BY <1>1 DEF Leave, To, RouterInv, RouterTyped
<1>6. stage'[c] \notin InSlot
  BY <1>1 DEF Leave, To, RouterInv, RouterTyped, InSlot, Waiting
<1>7. Counted'
  <2> SUFFICES ASSUME NEW m \in Models, registry'[m] \in Semaphores
               PROVE  slots'[registry'[m]] + Cardinality(RunningOn(m)') = MaxInflight
    BY DEF Counted
  <2>1. registry'[m] = registry[m]
    BY <1>1, Leaves
  <2>2. slots[registry[m]] + Cardinality(RunningOn(m)) = MaxInflight
    BY <2>1 DEF RouterInv, Counted
  <2>3. CASE m = m0
    <3>1. RunningOn(m)' = RunningOn(m) \ {c} /\ c \in RunningOn(m)
      BY <1>5, <1>6, <2>3 DEF RunningOn
    <3>2. Cardinality(RunningOn(m)') = Cardinality(RunningOn(m)) - 1
      BY <3>1, RunningFinite, FS_RemoveElement
    <3>3. slots[s0] \in Int /\ Cardinality(RunningOn(m)) \in Int
      BY <1>2, RunningFinite DEF RouterInv, RouterTyped
    <3> QED
      BY <1>2, <1>3, <2>1, <2>2, <2>3, <3>2, <3>3
  <2>4. CASE m # m0
    <3>1. RunningOn(m)' = RunningOn(m)
      BY <1>5, <1>6, <2>4 DEF RunningOn
    <3>2. registry[m] # s0
      BY <1>2, <2>4 DEF RouterInv, Apart
    <3> QED
      BY <1>3, <2>1, <2>2, <3>1, <3>2
  <2> QED
    BY <2>3, <2>4
<1> QED
  BY <1>4, <1>7 DEF RouterInv

LEMMA Expires ==
  ASSUME RouterInv, NEW c \in Requesters, SlotExpires(c)
  PROVE  RouterInv'
<1>1. stage[c] = "queued" /\ Leave(c, Outcome("deadline")) /\ slots' = slots
  BY DEF SlotExpires
<1>2. RouterTyped' /\ Referring' /\ Apart' /\ Needed'
  BY <1>1, Leaves DEF RouterTyped, RouterInv
<1>3. \A m \in Models : RunningOn(m)' = RunningOn(m)
  BY <1>1 DEF Leave, To, RunningOn, RouterInv, RouterTyped, InSlot, Waiting
<1>4. \A m \in Models : registry'[m] \in Semaphores => registry'[m] = registry[m]
  BY <1>1, Leaves
<1>5. Counted'
  BY <1>1, <1>3, <1>4 DEF RouterInv, Counted
<1> QED
  BY <1>2, <1>5 DEF RouterInv

LEMMA Acquires ==
  ASSUME RouterInv, NEW c \in Requesters, Acquire(c)
  PROVE  RouterInv'
<1> DEFINE m0 == job[c].model
           s0 == job[c].slot
<1>1. stage[c] = "queued" /\ stage' = [stage EXCEPT ![c] = "admitted"]
      /\ slots' = [slots EXCEPT ![s0] = @ - 1] /\ job' = job /\ registry' = registry
  BY DEF Acquire, To
<1>2. m0 \in Models /\ s0 \in Semaphores /\ registry[m0] = s0
  BY <1>1 DEF RouterInv, Referring
<1>3. slots' \in [Semaphores -> Int] /\ slots'[s0] = slots[s0] - 1
      /\ \A s \in Semaphores \ {s0} : slots'[s] = slots[s]
  BY <1>1, <1>2 DEF RouterInv, RouterTyped
<1>4. RouterTyped'
  BY <1>1, <1>3 DEF RouterInv, RouterTyped, Waiting
<1>5. stage'[c] = "admitted" /\ \A d \in Requesters \ {c} : stage'[d] = stage[d]
  BY <1>1 DEF RouterInv, RouterTyped
<1>6. Referring' /\ Apart' /\ Needed'
  BY <1>1, <1>5 DEF RouterInv, Referring, Apart, Needed, Legs, Legged
<1>7. Counted'
  <2> SUFFICES ASSUME NEW m \in Models, registry[m] \in Semaphores
               PROVE  slots'[registry[m]] + Cardinality(RunningOn(m)') = MaxInflight
    BY <1>1 DEF Counted
  <2>1. slots[registry[m]] + Cardinality(RunningOn(m)) = MaxInflight
    BY DEF RouterInv, Counted
  <2>2. CASE m = m0
    <3>1. RunningOn(m)' = RunningOn(m) \cup {c} /\ c \notin RunningOn(m)
      BY <1>1, <1>5, <2>2 DEF RunningOn, InSlot, Waiting
    <3>2. Cardinality(RunningOn(m)') = Cardinality(RunningOn(m)) + 1
      BY <3>1, RunningFinite, FS_AddElement
    <3>3. slots[s0] \in Int /\ Cardinality(RunningOn(m)) \in Int
      BY <1>2, RunningFinite DEF RouterInv, RouterTyped
    <3> QED
      BY <1>2, <1>3, <2>1, <2>2, <3>2, <3>3
  <2>3. CASE m # m0
    <3>1. RunningOn(m)' = RunningOn(m)
      BY <1>1, <1>5, <2>3 DEF RunningOn
    <3>2. registry[m] # s0
      BY <1>2, <2>3 DEF RouterInv, Apart
    <3> QED
      BY <1>3, <2>1, <3>1, <3>2
  <2> QED
    BY <2>2, <2>3
<1> QED
  BY <1>4, <1>6, <1>7 DEF RouterInv

(* There is always a name for a new semaphore: the call that makes it       *)
(* refers to none yet.                                                      *)
LEMMA NameLeft ==
  ASSUME RouterInv, NEW c \in Requesters, job[c].slot = NoSlot
  PROVE  \E s \in Semaphores : Refer(s) = {}
<1> SUFFICES ASSUME \A s \in Semaphores : Refer(s) # {} PROVE FALSE
  OBVIOUS
<1> DEFINE f == [s \in Semaphores |-> CHOOSE d \in Requesters : job[d].slot = s]
<1>1. \A s \in Semaphores : f[s] \in Requesters /\ job[f[s]].slot = s
  BY DEF Refer
<1>2. f \in [Requesters -> Requesters \ {c}]
  <2>1. \A s \in Semaphores : f[s] # c
    BY <1>1, RouterAssumption DEF Semaphores
  <2>2. f = [s \in Requesters |-> f[s]]
    BY DEF Semaphores
  <2> HIDE DEF f
  <2> QED
    BY <1>1, <2>1, <2>2 DEF Semaphores
<1>3. /\ IsFiniteSet(Requesters) /\ IsFiniteSet(Requesters \ {c})
      /\ Cardinality(Requesters \ {c}) < Cardinality(Requesters)
  <2>1. IsFiniteSet(Requesters)
    BY RouterAssumption
  <2>2. Cardinality(Requesters) \in Nat
    BY <2>1, FS_CardinalityType
  <2>3. /\ IsFiniteSet(Requesters \ {c})
        /\ Cardinality(Requesters \ {c}) = Cardinality(Requesters) - 1
    BY <2>1, FS_RemoveElement
  <2> QED
    BY <2>1, <2>2, <2>3
<1> HIDE DEF f
<1>4. PICK x, y \in Requesters : x # y /\ f[x] = f[y]
  BY <1>2, <1>3, FS_PigeonHole
<1> QED
  BY <1>1, <1>4 DEF Semaphores

LEMMA Enters ==
  ASSUME RouterInv, NEW c \in Requesters, Enter(c)
  PROVE  RouterInv'
<1> DEFINE k == job[c].made + 1
           m0 == Job[c][k].model
           s0 == IF registry[m0] = NoSlot
                   THEN CHOOSE s \in Semaphores : Refer(s) = {} ELSE registry[m0]
           j == [NoJob EXCEPT !.model = m0, !.slot = s0, !.made = k]
<1>1. /\ stage[c] = "idle" /\ stage' = [stage EXCEPT ![c] = "queued"]
      /\ job' = [job EXCEPT ![c] = j] /\ registry' = [registry EXCEPT ![m0] = s0]
      /\ slots' = IF registry[m0] = NoSlot THEN [slots EXCEPT ![s0] = MaxInflight] ELSE slots
      /\ job[c].made < Len(Job[c])
  BY DEF Enter, To
<1>2. job[c].slot = NoSlot /\ NoSlot \notin Semaphores
  BY <1>1, RouterAssumption DEF RouterInv, Referring, Semaphores
<1>3. k \in 1..Len(Job[c]) /\ m0 \in Models
  <2>1. Job[c] \in Seq([model : Models, room : Nat]) /\ job[c].made \in Nat
    BY RouterAssumption DEF RouterInv, RouterTyped, RouterCall
  <2>2. k \in 1..Len(Job[c])
    <3>1. Len(Job[c]) \in Nat
      BY <2>1
    <3>2. job[c].made < Len(Job[c])
      BY <1>1
    <3> QED
      BY <2>1, <3>1, <3>2
  <2>3. Job[c][k] \in [model : Models, room : Nat]
    BY <2>1, <2>2, ElementOf
  <2> QED
    BY <2>2, <2>3
<1>4. registry[m0] = NoSlot => s0 \in Semaphores /\ Refer(s0) = {}
  BY <1>2, NameLeft
<1>5. registry[m0] # NoSlot => s0 = registry[m0]
  OBVIOUS
<1> HIDE DEF k, m0, s0
<1>blank. PICK blank \in RouterCall : blank = NoJob
  BY NobodysCall
<1>named. j = [blank EXCEPT !.model = m0, !.slot = s0, !.made = k]
  BY <1>blank, Zenon
<1> HIDE DEF j
<1>6. s0 \in Semaphores
  BY <1>3, <1>4, <1>5 DEF RouterInv, RouterTyped
<1>7. j \in RouterCall /\ j.model = m0 /\ j.slot = s0 /\ j.made = k
  <2>1. k \in Nat
    BY <1>3
  <2> DEFINE j1 == [blank EXCEPT !.model = m0]
             j2 == [j1 EXCEPT !.slot = s0]
             j3 == [j2 EXCEPT !.made = k]
  <2>2. j1 \in RouterCall /\ j1.model = m0
    BY <1>3 DEF RouterCall
  <2>3. j = j3
    BY <1>named, Zenon
  <2> HIDE DEF j1
  <2>4. j2 \in RouterCall /\ j2.model = m0 /\ j2.slot = s0
    BY <1>6, <2>2 DEF RouterCall
  <2> HIDE DEF j2
  <2>5. j3 \in RouterCall /\ j3.model = m0 /\ j3.slot = s0 /\ j3.made = k
    BY <2>1, <2>4 DEF RouterCall
  <2> HIDE DEF j3
  <2> QED
    BY <2>3, <2>5
<1>8. /\ stage'[c] = "queued" /\ job'[c] = j
      /\ \A d \in Requesters \ {c} : stage'[d] = stage[d] /\ job'[d] = job[d]
      /\ registry'[m0] = s0 /\ \A m \in Models \ {m0} : registry'[m] = registry[m]
  BY <1>1, <1>3 DEF RouterInv, RouterTyped
<1>9. RouterTyped'
  BY <1>1, <1>3, <1>6, <1>7, RouterAssumption DEF RouterInv, RouterTyped, Waiting
<1>10. \A m \in Models \ {m0} : registry[m] # s0
  <2>1. CASE registry[m0] = NoSlot
    BY <1>4, <1>6, <2>1 DEF RouterInv, Needed, Referring, Refer
  <2>2. CASE registry[m0] # NoSlot
    BY <1>3, <1>5, <1>6, <2>2 DEF RouterInv, Apart
  <2> QED
    BY <2>1, <2>2
<1>11. \A d \in Requesters \ {c} : stage[d] # "idle" /\ job[d].model = m0 => registry[m0] = s0
  BY <1>2, <1>5 DEF RouterInv, Referring
<1>12. Referring'
  BY <1>3, <1>6, <1>7, <1>8, <1>11 DEF RouterInv, Referring, Legs, Legged
<1>13. Apart'
  BY <1>8, <1>10 DEF RouterInv, Apart
<1>14. Needed'
  BY <1>1, <1>7, <1>8 DEF RouterInv, Needed
<1>15. Counted'
  <2>1. \A m \in Models : RunningOn(m)' = RunningOn(m)
    BY <1>1, <1>8 DEF RunningOn, InSlot, Waiting
  <2>2. ASSUME NEW m \in Models \ {m0}, registry'[m] \in Semaphores
        PROVE  slots'[registry'[m]] + Cardinality(RunningOn(m)') = MaxInflight
    <3>1. slots'[registry[m]] = slots[registry[m]]
      BY <1>1, <1>8, <1>10, <2>2 DEF RouterInv, RouterTyped
    <3> QED
      BY <1>8, <2>1, <2>2, <3>1 DEF RouterInv, Counted
  <2>3. slots'[s0] + Cardinality(RunningOn(m0)) = MaxInflight
    <3>1. CASE registry[m0] = NoSlot
      <4>1. RunningOn(m0) = {}
        BY <1>2, <3>1 DEF RunningOn, RouterInv, Referring, InSlot, Waiting
      <4>2. slots'[s0] = MaxInflight /\ Cardinality(RunningOn(m0)) = 0
        BY <1>1, <1>6, <3>1, <4>1, FS_EmptySet DEF RouterInv, RouterTyped
      <4> QED
        BY <4>2, RouterAssumption
    <3>2. CASE registry[m0] # NoSlot
      BY <1>1, <1>3, <1>5, <1>6, <3>2 DEF RouterInv, Counted
    <3> QED
      BY <3>1, <3>2
  <2> QED
    BY <1>3, <1>8, <2>1, <2>2, <2>3 DEF Counted
<1> QED
  BY <1>9, <1>12, <1>13, <1>14, <1>15 DEF RouterInv

LEMMA ChainLength == ASSUME RouterInv, NEW c \in Requesters, stage[c] # "idle"
                     PROVE  Legs(c) \in Nat /\ Legs(c) >= 1
<1>1. job[c].model \in Models
  BY DEF RouterInv, Referring
<1>2. Chain[job[c].model] \in Seq(Models) /\ Chain[job[c].model] # <<>>
  BY <1>1, RouterAssumption
<1> QED
  BY <1>2 DEF Legs

LEMMA LegEnds ==
  ASSUME RouterInv, NEW c \in Requesters, stage[c] \in Legged, NEW how, LegFails(c, how)
  PROVE  RouterInv'
<1>1. stage[c] \in InSlot /\ job[c].leg \in 1..Legs(c) /\ Legs(c) \in Nat
  BY ChainLength DEF RouterInv, Referring, Legged, InSlot, Waiting
<1>2. \A h : Ends(c, h) => RouterInv'
  BY <1>1, SlotReturned DEF Ends
<1>3. job[c].leg < Legs(c) /\ StartLeg(c, job[c].leg + 1) => RouterInv'
  <2>1. job[c].leg < Legs(c) => job[c].leg + 1 \in 1..Legs(c)
    BY <1>1
  <2> QED
    BY <1>1, <2>1, StartsLeg
<1>4. CASE how \in {"auth", "credits"} \/ Legs(c) = 1
  <2>1. how \in {"auth", "credits"} \/ ~(job[c].leg < Legs(c))
    BY <1>1, <1>4
  <2>2. how \in {"auth", "credits"} \/ ~(Legs(c) > 1)
    BY <1>1, <1>4
  <2>3. Ends(c, how)
    BY <1>4, <2>1, <2>2 DEF LegFails
  <2> QED
    BY <1>2, <2>3
<1>5. CASE how \notin {"auth", "credits"} /\ Legs(c) > 1 /\ job[c].leg < Legs(c)
  BY <1>1, <1>2, <1>3, <1>5 DEF LegFails
<1>6. CASE how \notin {"auth", "credits"} /\ Legs(c) > 1 /\ job[c].leg = Legs(c)
  BY <1>1, <1>2, <1>6 DEF LegFails
<1> QED
  BY <1>1, <1>4, <1>5, <1>6

(* A step that moves a call inside its slot and writes fields other than    *)
(* its names.                                                               *)
LEMMA Resumes ==
  ASSUME RouterInv, NEW c \in Requesters, stage[c] \in Legged, NEW next \in Legged, To(c, next),
         UNCHANGED <<job, registry, slots>>
  PROVE  RouterInv'
<1>1. job[c] \in RouterCall /\ job' = [job EXCEPT ![c] = job[c]]
  BY DEF RouterInv, RouterTyped
<1> QED
  BY <1>1, Moves DEF To, RouterInv, Referring, Legged, InSlot, Waiting

LEMMA Sends ==
  ASSUME RouterInv, NEW c \in Requesters, Send(c)
  PROVE  RouterInv'
<1> DEFINE k == job[c].tries + 1
           j == [job[c] EXCEPT !.tries = k]
<1>1. job[c] \in RouterCall
  BY DEF RouterInv, RouterTyped
<1>2. k \in Int
  BY <1>1 DEF RouterCall
<1>3. job' = [job EXCEPT ![c] = j]
  BY DEF Send, RouterInv, RouterTyped
<1> HIDE DEF k
<1>4. /\ j \in RouterCall /\ j.model = job[c].model /\ j.slot = job[c].slot
      /\ j.made = job[c].made /\ j.leg = job[c].leg
  BY <1>1, <1>2 DEF RouterCall
<1> HIDE DEF j
<1>5. job[c].leg \in 1..Legs(c) /\ stage[c] \in InSlot
  BY DEF Send, RouterInv, Referring, Legged, InSlot, Waiting
<1>6. registry' = registry /\ slots' = slots /\ stage' = [stage EXCEPT ![c] = "posted"]
  BY DEF Send, To
<1> QED
  BY <1>3, <1>4, <1>5, <1>6, Moves DEF InSlot, Waiting

LEMMA Throttles ==
  ASSUME RouterInv, NEW c \in Requesters, Throttle(c)
  PROVE  RouterInv'
<1> DEFINE k == job[c].spent + Cooldown(c)
           j == [job[c] EXCEPT !.wake = k]
           Cools == /\ To(c, "cooling") /\ registry' = registry /\ slots' = slots
                    /\ job' = [job EXCEPT ![c].wake = k]
<1>1. stage[c] \in Legged /\ stage[c] \in InSlot /\ job[c].leg \in 1..Legs(c)
  BY DEF Throttle, RouterInv, Referring, Legged, InSlot, Waiting
<1>2. LegFails(c, "transport") \/ LegFails(c, "deadline") \/ Cools
  BY DEF Throttle
<1>3. CASE Cools
  <2>1. job[c] \in RouterCall /\ k \in Int
    BY DEF Cooldown, RouterInv, RouterTyped, RouterCall
  <2>2. job' = [job EXCEPT ![c] = j]
    BY <1>3 DEF RouterInv, RouterTyped
  <2>3. registry' = registry /\ slots' = slots /\ stage' = [stage EXCEPT ![c] = "cooling"]
    BY <1>3 DEF To
  <2> HIDE DEF k
  <2>4. /\ j \in RouterCall /\ j.model = job[c].model /\ j.slot = job[c].slot
        /\ j.made = job[c].made /\ j.leg = job[c].leg
    BY <2>1 DEF RouterCall
  <2> HIDE DEF j, Cools
  <2> QED
    BY <1>1, <2>2, <2>3, <2>4, Moves DEF InSlot, Waiting
<1> HIDE DEF Cools
<1> QED
  BY <1>1, <1>2, <1>3, LegEnds

LEMMA Escalates ==
  ASSUME RouterInv, NEW c \in Requesters, Escalate(c)
  PROVE  RouterInv'
<1> DEFINE g == job[c].grown + 1
           r == job[c].room - 1
           b == job[c].billed + 1
           j == [job[c] EXCEPT !.grown = g, !.room = r, !.billed = b]
           Grows == /\ To(c, "leg") /\ registry' = registry /\ slots' = slots
                    /\ job' = [job EXCEPT ![c].grown = g, ![c].room = r, ![c].billed = b]
<1>1. stage[c] \in Legged /\ stage[c] \in InSlot /\ job[c].leg \in 1..Legs(c)
  BY DEF Escalate, RouterInv, Referring, Legged, InSlot, Waiting
<1>2. LegFails(c, "deadline") \/ Grows
  BY DEF Escalate, Again
<1>3. CASE Grows
  <2>1. job[c] \in RouterCall
    BY DEF RouterInv, RouterTyped
  <2>2. g \in Int /\ r \in Int /\ b \in Int
    BY <2>1 DEF RouterCall
  <2>3. job' = [job EXCEPT ![c] = j]
    BY <1>3 DEF RouterInv, RouterTyped
  <2>4. registry' = registry /\ slots' = slots /\ stage' = [stage EXCEPT ![c] = "leg"]
    BY <1>3 DEF To
  <2> HIDE DEF g, r, b
  <2>5. j \in RouterCall
    BY <2>1, <2>2, WriteSize, Zenon
  <2>6. /\ j.model = job[c].model /\ j.slot = job[c].slot
        /\ j.made = job[c].made /\ j.leg = job[c].leg
    BY <2>1 DEF RouterCall
  <2> HIDE DEF j, Grows
  <2> QED
    BY <1>1, <2>3, <2>4, <2>5, <2>6, Moves DEF InSlot, Waiting
<1> HIDE DEF Grows
<1> QED
  BY <1>1, <1>2, <1>3, LegEnds

LEMMA Closes == ASSUME RouterInv, Close PROVE RouterInv'
<1>1. /\ registry' = registry /\ slots' = slots /\ stage' = stage
      /\ job' = [c \in Requesters |->
                   [job[c] EXCEPT !.client = stage[c] \notin {"leg", "posted", "cooling"}]]
  BY DEF Close
<1>2. \A c \in Requesters :
        /\ job'[c] \in RouterCall /\ job'[c].model = job[c].model /\ job'[c].slot = job[c].slot
        /\ job'[c].made = job[c].made /\ job'[c].leg = job[c].leg
  <2> TAKE c \in Requesters
  <2> DEFINE b == stage[c] \notin {"leg", "posted", "cooling"}
  <2>1. job[c] \in RouterCall /\ b \in BOOLEAN
    BY DEF RouterInv, RouterTyped
  <2>2. job'[c] = [job[c] EXCEPT !.client = b]
    BY <1>1
  <2> HIDE DEF b
  <2> QED
    BY <2>1, <2>2 DEF RouterCall
<1>3. RouterTyped'
  BY <1>1, <1>2 DEF RouterInv, RouterTyped
<1> QED
  BY <1>1, <1>2, <1>3, Inside DEF RouterInv, Referring

LEMMA Ticks == ASSUME RouterInv, Tick PROVE RouterInv'
<1>1. /\ registry' = registry /\ slots' = slots /\ stage' = stage
      /\ job' = [c \in Requesters |-> IF stage[c] \in Waiting /\ ~Late(c)
                                        THEN [job[c] EXCEPT !.spent = @ + 1] ELSE job[c]]
  BY DEF Tick
<1>2. \A c \in Requesters :
        /\ job'[c] \in RouterCall /\ job'[c].model = job[c].model /\ job'[c].slot = job[c].slot
        /\ job'[c].made = job[c].made /\ job'[c].leg = job[c].leg
  <2> TAKE c \in Requesters
  <2>1. job[c] \in RouterCall
    BY DEF RouterInv, RouterTyped
  <2>2. job'[c] = job[c] \/ job'[c] = [job[c] EXCEPT !.spent = @ + 1]
    BY <1>1
  <2> QED
    BY <2>1, <2>2 DEF RouterCall
<1>3. RouterTyped'
  BY <1>1, <1>2 DEF RouterInv, RouterTyped
<1> QED
  BY <1>1, <1>2, <1>3, Inside DEF RouterInv, Referring

LEMMA RouterStep == RouterInv /\ [RouterNext]_routerVars => RouterInv'
<1> SUFFICES ASSUME RouterInv, [RouterNext]_routerVars PROVE RouterInv'
  OBVIOUS
<1>1. CASE UNCHANGED routerVars
  BY <1>1 DEF routerVars, RouterInv, RouterTyped, Referring, Apart, Needed, Counted, RunningOn, Legs
<1>2. ASSUME NEW c \in Requesters, Serve(c) PROVE RouterInv'
  <2>1. CASE SlotExpires(c)
    BY <2>1, Expires
  <2>2. CASE Acquire(c)
    BY <2>2, Acquires
  <2>3. CASE AdmitFails(c)
    BY <2>3, SlotReturned DEF AdmitFails, Ends, InSlot, Waiting
  <2>4. CASE Start(c)
    <3>1. stage[c] \in InSlot /\ 1 \in 1..Legs(c) /\ StartLeg(c, 1)
      BY <2>4, ChainLength DEF Start, InSlot, Waiting
    <3> QED
      BY <3>1, StartsLeg
  <2>5. CASE Send(c)
    BY <2>5, Sends
  <2>6. ASSUME NEW how, stage[c] \in {"leg", "posted"}, LegFails(c, how) PROVE RouterInv'
    BY <2>6, LegEnds DEF Legged
  <2>7. CASE SendLate(c) \/ Lose(c) \/ TooLate(c) \/ BadUsage(c)
    BY <2>6, <2>7 DEF SendLate, Lose, TooLate, BadUsage
  <2>8. CASE Refuse(c)
    BY <2>6, <2>8 DEF Refuse
  <2>9. CASE Reconnect(c) \/ Wake(c)
    BY <2>9, Resumes DEF Reconnect, Wake, Again, Legged
  <2>10. CASE Throttle(c)
    BY <2>10, Throttles
  <2>11. CASE Escalate(c)
    BY <2>11, Escalates
  <2>12. CASE Answer(c)
    BY <2>12, SlotReturned DEF Answer, InSlot, Waiting
  <2> QED
    BY <1>2, <2>1, <2>2, <2>3, <2>4, <2>5, <2>7, <2>8, <2>9, <2>10, <2>11, <2>12 DEF Serve
<1> QED
  BY <1>1, <1>2, Closes, Ticks, Enters DEF RouterNext

(* Per-model backpressure, for any callers, models, chains and limits:      *)
(* however calls come and go, those of one model share one semaphore, and   *)
(* its permits and the calls that run add up.                               *)
THEOREM BackpressureHolds == RouterSpec => []SlotsBound
<1>1. RouterInv => SlotsBound
  <2> SUFFICES ASSUME RouterInv, NEW m \in Models
               PROVE  LET calls == {c \in Requesters : stage[c] # "idle" /\ job[c].model = m}
                      IN  /\ \A c \in calls :
                               /\ job[c].slot = registry[m]
                               /\ slots[job[c].slot] + Cardinality(RunningOn(m)) = MaxInflight
                          /\ calls = {} => registry[m] = NoSlot
    BY DEF SlotsBound
  <2>1. \A c \in Requesters : stage[c] # "idle" /\ job[c].model = m =>
          job[c].slot = registry[m] /\ registry[m] \in Semaphores
    BY DEF RouterInv, Referring
  <2>2. registry[m] \in Semaphores =>
          slots[registry[m]] + Cardinality(RunningOn(m)) = MaxInflight
    BY DEF RouterInv, Counted
  <2>3. registry[m] # NoSlot => \E c \in Requesters : stage[c] # "idle" /\ job[c].model = m
    BY DEF RouterInv, RouterTyped, Needed
  <2> QED
    BY <2>1, <2>2, <2>3
<1> QED
  BY <1>1, RouterInvInit, RouterStep, PTL DEF RouterSpec

-----------------------------------------------------------------------------
(* What a call was billed for so far, at each of its places.                *)
Paid(c) ==
  /\ stage[c] # "idle" => result[c].how # "answer"
  /\ stage[c] \in {"queued", "admitted"} => answered[c] = 0
  /\ stage[c] \in Legged => /\ job[c].billed \in 0..answered[c]
                            /\ job[c].leg = 1 => job[c].billed = answered[c]
  /\ result[c].how = "answer" => /\ result[c].reported <= answered[c]
                                 /\ result[c].leg = 1 => result[c].reported = answered[c]
PaidInv ==
  /\ answered \in [Requesters -> Nat] /\ result = [c \in Requesters |-> result[c]]
  /\ \A c \in Requesters : Paid(c)

(* A step of one call leaves the accounts of the others alone.              *)
LEMMA OthersPaid ==
  ASSUME PaidInv, NEW c \in Requesters, answered' \in [Requesters -> Nat],
         result' = [d \in Requesters |-> result'[d]], Paid(c)',
         \A d \in Requesters \ {c} : /\ stage'[d] = stage[d] /\ job'[d] = job[d]
                                     /\ answered'[d] = answered[d] /\ result'[d] = result[d]
  PROVE  PaidInv'
BY DEF PaidInv, Paid

(* A call that ends without an answer owes no report.                       *)
LEMMA EndsUnpaid ==
  ASSUME RouterInv, PaidInv, NEW c \in Requesters, stage[c] # "idle", NEW how, how # "answer",
         Leave(c, Outcome(how)), answered' \in [Requesters -> Nat],
         \A d \in Requesters \ {c} : answered'[d] = answered[d]
  PROVE  PaidInv'
<1>1. stage'[c] = "idle" /\ result'[c] = Outcome(how)
  BY DEF Leave, To, RouterInv, RouterTyped, PaidInv
<1>2. result' = [d \in Requesters |-> result'[d]]
  BY DEF Leave, PaidInv
<1>3. \A d \in Requesters \ {c} :
        stage'[d] = stage[d] /\ job'[d] = job[d] /\ result'[d] = result[d]
  BY DEF Leave, To, RouterInv, RouterTyped, PaidInv
<1>4. result'[c].how # "answer"
  BY <1>1 DEF Outcome
<1>5. Paid(c)'
  BY <1>1, <1>4 DEF Paid, Legged
<1> QED
  BY <1>2, <1>3, <1>5, OthersPaid

(* A leg begins with nothing on its own bill: a later one reports less than *)
(* the call was billed for, the first one finds nothing billed.             *)
LEMMA LegUnpaid ==
  ASSUME RouterInv, PaidInv, NEW c \in Requesters, stage[c] \in InSlot, NEW n \in 1..Legs(c),
         StartLeg(c, n), answered' \in [Requesters -> Nat],
         \A d \in Requesters \ {c} : answered'[d] = answered[d],
         n = 1 => answered'[c] = 0
  PROVE  PaidInv'
<1>1. job[c] \in RouterCall
  BY DEF RouterInv, RouterTyped
<1>2. job'[c].billed = 0 /\ job'[c].leg = n /\ stage'[c] = "leg"
  BY <1>1 DEF StartLeg, To, RouterInv, RouterTyped, RouterCall
<1>3. \A d \in Requesters \ {c} : stage'[d] = stage[d] /\ job'[d] = job[d]
  BY DEF StartLeg, To, RouterInv, RouterTyped
<1>4. result' = result /\ result[c].how # "answer"
  BY DEF StartLeg, PaidInv, Paid, InSlot, Waiting
<1>5. Paid(c)'
  BY <1>2, <1>4 DEF Paid, Legged
<1> QED
  BY <1>3, <1>4, <1>5, OthersPaid DEF PaidInv

LEMMA LegOver ==
  ASSUME RouterInv, PaidInv, NEW c \in Requesters, stage[c] \in Legged, NEW how, how # "answer",
         LegFails(c, how), answered' \in [Requesters -> Nat],
         \A d \in Requesters \ {c} : answered'[d] = answered[d]
  PROVE  PaidInv'
<1>1. /\ stage[c] \in InSlot /\ stage[c] # "idle"
      /\ job[c].leg \in 1..Legs(c) /\ Legs(c) \in Nat
  BY ChainLength DEF RouterInv, Referring, Legged, InSlot, Waiting
<1>2. \A h : h # "answer" /\ Ends(c, h) => PaidInv'
  BY <1>1, EndsUnpaid DEF Ends, Returns
<1>3. job[c].leg < Legs(c) /\ StartLeg(c, job[c].leg + 1) => PaidInv'
  <2>1. job[c].leg < Legs(c) => job[c].leg + 1 \in 1..Legs(c) /\ job[c].leg + 1 # 1
    BY <1>1
  <2> QED
    BY <1>1, <2>1, LegUnpaid
<1>4. CASE how \in {"auth", "credits"} \/ Legs(c) = 1
  <2>1. how \in {"auth", "credits"} \/ ~(job[c].leg < Legs(c))
    BY <1>1, <1>4
  <2>2. how \in {"auth", "credits"} \/ ~(Legs(c) > 1)
    BY <1>1, <1>4
  <2>3. Ends(c, how)
    BY <1>4, <2>1, <2>2 DEF LegFails
  <2> QED
    BY <1>2, <2>3
<1>5. CASE how \notin {"auth", "credits"} /\ Legs(c) > 1 /\ job[c].leg < Legs(c)
  BY <1>1, <1>2, <1>3, <1>5 DEF LegFails
<1>6. CASE how \notin {"auth", "credits"} /\ Legs(c) > 1 /\ job[c].leg = Legs(c)
  BY <1>1, <1>2, <1>6 DEF LegFails
<1> QED
  BY <1>1, <1>4, <1>5, <1>6

(* A step between two answers: neither the bill nor the leg changes.        *)
LEMMA SameBill ==
  ASSUME RouterInv, PaidInv, NEW c \in Requesters, stage[c] \in Legged, stage'[c] \in Legged,
         \A d \in Requesters \ {c} : stage'[d] = stage[d] /\ job'[d] = job[d],
         job'[c].billed = job[c].billed, job'[c].leg = job[c].leg,
         UNCHANGED <<answered, result>>
  PROVE  PaidInv'
<1>1. Paid(c)'
  BY DEF PaidInv, Paid, Legged
<1> QED
  BY <1>1, OthersPaid DEF PaidInv

LEMMA EscalatesPaid ==
  ASSUME RouterInv, PaidInv, NEW c \in Requesters, Escalate(c)
  PROVE  PaidInv'
<1>1. /\ stage[c] \in Legged /\ answered' = [answered EXCEPT ![c] = @ + 1]
      /\ answered' \in [Requesters -> Nat] /\ answered'[c] = answered[c] + 1
      /\ \A d \in Requesters \ {c} : answered'[d] = answered[d]
  BY DEF Escalate, Bill, PaidInv, Legged
<1>2. CASE job[c].grown = 2
  BY <1>1, <1>2, LegOver DEF Escalate
<1>3. CASE job[c].grown # 2
  <2>1. job[c] \in RouterCall
    BY DEF RouterInv, RouterTyped
  <2>2. /\ job' = [job EXCEPT ![c].grown = @ + 1, ![c].room = @ - 1, ![c].billed = @ + 1]
        /\ stage' = [stage EXCEPT ![c] = "leg"] /\ result' = result
    BY <1>3 DEF Escalate, Again, To
  <2>3. job'[c].billed = job[c].billed + 1 /\ job'[c].leg = job[c].leg
    BY <2>1, <2>2 DEF RouterInv, RouterTyped, RouterCall
  <2>4. stage'[c] = "leg" /\ \A d \in Requesters \ {c} : stage'[d] = stage[d] /\ job'[d] = job[d]
    BY <2>2 DEF RouterInv, RouterTyped
  <2>5. /\ job[c].billed \in 0..answered[c] /\ answered[c] \in Nat
        /\ job[c].leg = 1 => job[c].billed = answered[c]
        /\ result[c].how # "answer"
    BY <1>1 DEF PaidInv, Paid, Legged
  <2>6. Paid(c)'
    BY <1>1, <2>2, <2>3, <2>4, <2>5 DEF Paid, Legged
  <2> QED
    BY <1>1, <2>2, <2>4, <2>6, OthersPaid DEF PaidInv
<1> QED
  BY <1>2, <1>3

LEMMA AnswersPaid ==
  ASSUME RouterInv, PaidInv, NEW c \in Requesters, Answer(c)
  PROVE  PaidInv'
<1> DEFINE told == [how |-> "answer", leg |-> job[c].leg, reported |-> job[c].billed + 1]
<1>1. /\ stage[c] \in Legged /\ answered' \in [Requesters -> Nat]
      /\ answered'[c] = answered[c] + 1
      /\ \A d \in Requesters \ {c} : answered'[d] = answered[d]
  BY DEF Answer, Bill, PaidInv, Legged
<1>2. Leave(c, told)
  BY DEF Answer, Returns
<1>3. told.how = "answer" /\ told.leg = job[c].leg /\ told.reported = job[c].billed + 1
  OBVIOUS
<1> HIDE DEF told
<1>4. stage'[c] = "idle" /\ result'[c] = told /\ result' = [d \in Requesters |-> result'[d]]
  BY <1>2 DEF Leave, To, RouterInv, RouterTyped, PaidInv
<1>5. \A d \in Requesters \ {c} :
        stage'[d] = stage[d] /\ job'[d] = job[d] /\ result'[d] = result[d]
  BY <1>2 DEF Leave, To, RouterInv, RouterTyped, PaidInv
<1>6. /\ job[c].billed \in 0..answered[c] /\ answered[c] \in Nat
      /\ job[c].leg = 1 => job[c].billed = answered[c]
  BY <1>1 DEF PaidInv, Paid
<1>7. Paid(c)'
  BY <1>1, <1>3, <1>4, <1>6 DEF Paid, Legged
<1> QED
  BY <1>1, <1>4, <1>5, <1>7, OthersPaid

LEMMA EntersPaid ==
  ASSUME RouterInv, PaidInv, NEW c \in Requesters, Enter(c)
  PROVE  PaidInv'
<1>1. /\ stage' = [stage EXCEPT ![c] = "queued"] /\ answered' = [answered EXCEPT ![c] = 0]
      /\ result' = [result EXCEPT ![c] = Outcome("none")]
  BY DEF Enter, To
<1>2. \A d \in Requesters \ {c} : job'[d] = job[d]
  BY DEF Enter, RouterInv, RouterTyped
<1>3. /\ stage'[c] = "queued" /\ answered'[c] = 0 /\ result'[c] = Outcome("none")
      /\ \A d \in Requesters \ {c} : /\ stage'[d] = stage[d] /\ answered'[d] = answered[d]
                                     /\ result'[d] = result[d]
      /\ answered' \in [Requesters -> Nat] /\ result' = [d \in Requesters |-> result'[d]]
  BY <1>1 DEF PaidInv, RouterInv, RouterTyped
<1>4. result'[c].how = "none"
  BY <1>3 DEF Outcome
<1>5. Paid(c)'
  BY <1>3, <1>4 DEF Paid, Legged
<1> QED
  BY <1>2, <1>3, <1>5, OthersPaid

LEMMA SendsPaid ==
  ASSUME RouterInv, PaidInv, NEW c \in Requesters, Send(c)
  PROVE  PaidInv'
<1>1. job[c] \in RouterCall
  BY DEF RouterInv, RouterTyped
<1>2. job'[c].billed = job[c].billed /\ job'[c].leg = job[c].leg
  BY <1>1 DEF Send, RouterInv, RouterTyped, RouterCall
<1>3. \A d \in Requesters \ {c} : stage'[d] = stage[d] /\ job'[d] = job[d]
  BY DEF Send, To, RouterInv, RouterTyped
<1>4. /\ stage[c] \in Legged /\ stage'[c] \in Legged /\ answered' = answered /\ result' = result
  BY DEF Send, To, Legged, RouterInv, RouterTyped
<1> QED
  BY <1>2, <1>3, <1>4, SameBill

LEMMA ThrottlesPaid ==
  ASSUME RouterInv, PaidInv, NEW c \in Requesters, Throttle(c)
  PROVE  PaidInv'
<1> DEFINE k == job[c].spent + Cooldown(c)
           Cools == /\ stage' = [stage EXCEPT ![c] = "cooling"] /\ result' = result
                    /\ job' = [job EXCEPT ![c].wake = k]
<1>1. stage[c] \in Legged /\ answered' = answered
  BY DEF Throttle, Legged
<1>2. LegFails(c, "transport") \/ LegFails(c, "deadline") \/ Cools
  BY DEF Throttle, To
<1>3. CASE Cools
  <2>1. job[c] \in RouterCall
    BY DEF RouterInv, RouterTyped
  <2>2. job'[c].billed = job[c].billed /\ job'[c].leg = job[c].leg
    BY <1>3, <2>1 DEF RouterInv, RouterTyped, RouterCall
  <2>3. \A d \in Requesters \ {c} : stage'[d] = stage[d] /\ job'[d] = job[d]
    BY <1>3 DEF RouterInv, RouterTyped
  <2>4. stage'[c] \in Legged /\ result' = result
    BY <1>3 DEF Legged, RouterInv, RouterTyped
  <2> QED
    BY <1>1, <2>2, <2>3, <2>4, SameBill
<1> HIDE DEF Cools
<1>4. answered' \in [Requesters -> Nat] /\ \A d \in Requesters \ {c} : answered'[d] = answered[d]
  BY <1>1 DEF PaidInv
<1> QED
  BY <1>1, <1>2, <1>3, <1>4, LegOver

LEMMA BackgroundPaid ==
  ASSUME RouterInv, PaidInv, Tick \/ Close
  PROVE  PaidInv'
<1>1. stage' = stage /\ answered' = answered /\ result' = result
  BY DEF Tick, Close
<1>2. \A c \in Requesters : job'[c].billed = job[c].billed /\ job'[c].leg = job[c].leg
  <2> TAKE c \in Requesters
  <2>1. job[c] \in RouterCall
    BY DEF RouterInv, RouterTyped
  <2>2. CASE Tick
    <3>1. job'[c] = job[c] \/ job'[c] = [job[c] EXCEPT !.spent = @ + 1]
      BY <2>2 DEF Tick
    <3> QED
      BY <2>1, <3>1 DEF RouterCall
  <2>3. CASE Close
    <3>1. \E b \in BOOLEAN : job'[c] = [job[c] EXCEPT !.client = b]
      BY <2>3 DEF Close
    <3> QED
      BY <2>1, <3>1 DEF RouterCall
  <2> QED
    BY <2>2, <2>3
<1>3. \A c \in Requesters : Paid(c)'
  BY <1>1, <1>2 DEF PaidInv, Paid
<1> QED
  BY <1>1, <1>3 DEF PaidInv

LEMMA PaidStep == RouterInv /\ PaidInv /\ [RouterNext]_routerVars => PaidInv'
<1> SUFFICES ASSUME RouterInv, PaidInv, [RouterNext]_routerVars PROVE PaidInv'
  OBVIOUS
<1>1. CASE UNCHANGED routerVars
  BY <1>1 DEF routerVars, PaidInv, Paid
<1>2. ASSUME NEW c \in Requesters, Serve(c) PROVE PaidInv'
  <2>u. answered' = answered =>
          /\ answered' \in [Requesters -> Nat]
          /\ \A d \in Requesters \ {c} : answered'[d] = answered[d]
    BY DEF PaidInv
  <2>1. CASE SlotExpires(c)
    BY <2>1, <2>u, EndsUnpaid DEF SlotExpires
  <2>2. CASE Acquire(c)
    <3>1. /\ stage[c] = "queued" /\ stage'[c] = "admitted"
          /\ job' = job /\ answered' = answered /\ result' = result
          /\ \A d \in Requesters \ {c} : stage'[d] = stage[d]
      BY <2>2 DEF Acquire, To, RouterInv, RouterTyped
    <3>2. Paid(c)'
      BY <3>1 DEF PaidInv, Paid, Legged
    <3> QED
      BY <3>1, <3>2, OthersPaid DEF PaidInv
  <2>3. CASE AdmitFails(c)
    <3>1. \/ Leave(c, Outcome("deadline")) \/ Leave(c, Outcome("value_error"))
      BY <2>3 DEF AdmitFails, Ends, Returns
    <3>2. stage[c] # "idle" /\ answered' = answered
      BY <2>3 DEF AdmitFails
    <3> QED
      BY <2>u, <3>1, <3>2, EndsUnpaid
  <2>4. CASE Start(c)
    <3>1. /\ stage[c] \in InSlot /\ 1 \in 1..Legs(c) /\ StartLeg(c, 1) /\ answered' = answered
          /\ answered[c] = 0
      BY <2>4, ChainLength DEF Start, InSlot, Waiting, PaidInv, Paid
    <3> QED
      BY <2>u, <3>1, LegUnpaid
  <2>5. CASE Send(c)
    BY <2>5, SendsPaid
  <2>6. ASSUME NEW how \in {"auth", "credits", "unavailable", "transport", "deadline"},
               stage[c] \in {"leg", "posted"}, LegFails(c, how),
               \E paid \in {0, 1} : answered' = [answered EXCEPT ![c] = @ + paid]
        PROVE  PaidInv'
    <3>1. /\ answered' \in [Requesters -> Nat]
          /\ \A d \in Requesters \ {c} : answered'[d] = answered[d]
      BY <2>6 DEF PaidInv
    <3>2. stage[c] \in Legged /\ how # "answer"
      BY <2>6 DEF Legged
    <3> QED
      BY <2>6, <3>1, <3>2, LegOver
  <2>7. answered' = answered => \E paid \in {0, 1} : answered' = [answered EXCEPT ![c] = @ + paid]
    BY DEF PaidInv
  <2>8. CASE SendLate(c) \/ Lose(c)
    BY <2>6, <2>7, <2>8 DEF SendLate, Lose
  <2>9. CASE TooLate(c)
    BY <2>6, <2>9 DEF TooLate
  <2>10. CASE BadUsage(c)
    BY <2>6, <2>10 DEF BadUsage, Bill
  <2>11. CASE Refuse(c)
    BY <2>6, <2>11 DEF Refuse, Refusals
  <2>12. CASE Reconnect(c) \/ Wake(c)
    <3>1. /\ stage[c] \in Legged /\ stage' = [stage EXCEPT ![c] = "leg"]
          /\ job' = job /\ answered' = answered /\ result' = result
      BY <2>12 DEF Reconnect, Wake, Again, To, Legged
    <3> QED
      BY <3>1, SameBill DEF Legged, RouterInv, RouterTyped
  <2>13. CASE Throttle(c)
    BY <2>13, ThrottlesPaid
  <2>14. CASE Escalate(c)
    BY <2>14, EscalatesPaid
  <2>15. CASE Answer(c)
    BY <2>15, AnswersPaid
  <2> QED
    BY <1>2, <2>1, <2>2, <2>3, <2>4, <2>5, <2>8, <2>9, <2>10, <2>11, <2>12, <2>13, <2>14, <2>15
       DEF Serve
<1> QED
  BY <1>1, <1>2, BackgroundPaid, EntersPaid DEF RouterNext

(* An answer reports every response its leg was billed for, and, as long as *)
(* there was no failover, all that the call cost: whatever the chain, the   *)
(* escalations and the retries.                                             *)
THEOREM AnswersReportTheirCost == RouterSpec => []PaidIsReported
<1>1. RouterInit => PaidInv
  BY DEF RouterInit, PaidInv, Paid, Outcome, Legged
<1>2. PaidInv => PaidIsReported
  BY DEF PaidInv, Paid, PaidIsReported
<1> QED
  BY <1>1, <1>2, RouterInvInit, RouterStep, PaidStep, PTL DEF RouterSpec
=============================================================================
