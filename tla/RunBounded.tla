----------------------------- MODULE RunBounded -----------------------------
(***************************************************************************)
(* run_bounded (proc.py): every caller runs one command under a deadline   *)
(* that includes the wait for one of a few process permits.  On Linux the  *)
(* command runs under a reaper process, modelled with it: a subreaper that *)
(* inherits escaped descendants and sweeps them before it exits, and that  *)
(* the kernel signals when jittest itself dies.                            *)
(*                                                                         *)
(* Clocks are not modelled: a deadline or grace period may run out at any  *)
(* point where the code looks at it.  The processes of a call are the      *)
(* workload, a descendant in its session (group) and one that left the     *)
(* session with setsid (escaped); SIGKILL takes effect at once.            *)
(***************************************************************************)
EXTENDS Integers, FiniteSets

CONSTANTS Callers, Permits    \* MAX_LIVE_PROCESSES

ASSUME PermitsAssumption == Permits \in Nat \ {0}
ASSUME CallersAssumption == IsFiniteSet(Callers)

VARIABLES
  pc,        \* where each caller is in run_bounded
  permits,   \* the value of the semaphore _LIVE_PROCESSES
  outcome,   \* how the call ends: a result or the exception raised
  reader,    \* the capture thread of the output pipe
  reaper,    \* the supervisor process of the call
  procs,     \* processes of the call that are alive
  term,      \* callers whose reaper has a SIGTERM pending
  parent     \* whether the jittest process is alive

callVars == <<pc, permits, outcome, reader>>
vars == <<callVars, reaper, procs, term, parent>>

Processes == {"work", "group", "escaped"}
Alive == {"born", "armed", "watching", "ended", "sweeping"}
Holding == {"slot", "spawned", "waiting", "kill", "grace", "join", "end"}

TypeOK ==
  /\ pc \in [Callers -> {"idle", "queue", "done"} \cup Holding]
  /\ permits \in 0..Permits
  /\ outcome \in [Callers -> {"none", "result", "timeout", "admission", "error"}]
  /\ reader \in [Callers -> {"off", "draining", "eof", "lost"}]
  /\ reaper \in [Callers -> {"none", "gone", "killed"} \cup Alive]
  /\ procs \in [Callers -> SUBSET Processes]
  /\ term \subseteq Callers
  /\ parent \in BOOLEAN

Init ==
  /\ pc = [c \in Callers |-> "idle"]
  /\ permits = Permits
  /\ outcome = [c \in Callers |-> "none"]
  /\ reader = [c \in Callers |-> "off"]
  /\ reaper = [c \in Callers |-> "none"]
  /\ procs = [c \in Callers |-> {}]
  /\ term = {}
  /\ parent = TRUE

(* Who has a permit, and whose reaper can run. *)
Holders == {c \in Callers : pc[c] \in Holding}
Living == {c \in Callers : reaper[c] \in Alive}

At(c, from, to) == parent /\ pc[c] = from /\ pc' = [pc EXCEPT ![c] = to]
EndsAs(c, how) == outcome' = [outcome EXCEPT ![c] = how]
Becomes(c, state) == reaper' = [reaper EXCEPT ![c] = state]

-----------------------------------------------------------------------------
(* The caller. *)

Call(c) ==
  /\ At(c, "idle", "queue")
  /\ UNCHANGED <<permits, outcome, reader, reaper, procs, term, parent>>

Admit(c) ==
  /\ At(c, "queue", "slot")
  /\ permits > 0
  /\ permits' = permits - 1
  /\ UNCHANGED <<outcome, reader, reaper, procs, term, parent>>

(* Mutant of QueueExpires: the permit that was never acquired is released. *)
QueueExpiresReleases(c) ==
  /\ At(c, "queue", "done")
  /\ EndsAs(c, "admission")
  /\ permits' = permits + 1
  /\ UNCHANGED <<reader, reaper, procs, term, parent>>

(* No permit within the deadline: nothing was acquired, nothing is released. *)
QueueExpires(c) ==
  /\ At(c, "queue", "done")
  /\ EndsAs(c, "admission")
  /\ UNCHANGED <<permits, reader, reaper, procs, term, parent>>

(* Mutant of NeverStarts: the permit is kept when the command cannot be started. *)
NeverStartsKeeps(c) ==
  /\ At(c, "slot", "done")
  /\ EndsAs(c, "admission") \/ EndsAs(c, "error")
  /\ UNCHANGED <<permits, reader, reaper, procs, term, parent>>

(* The deadline passed on the way to the permit, or the command cannot be   *)
(* started: the permit goes back.                                           *)
NeverStarts(c) ==
  /\ At(c, "slot", "done")
  /\ EndsAs(c, "admission") \/ EndsAs(c, "error")
  /\ permits' = permits + 1
  /\ UNCHANGED <<reader, reaper, procs, term, parent>>

Spawn(c) ==
  /\ At(c, "slot", "spawned")
  /\ Becomes(c, "born")
  /\ UNCHANGED <<permits, outcome, reader, procs, term, parent>>

ReaderStarts(c) ==
  /\ At(c, "spawned", "waiting")
  /\ reader' = [reader EXCEPT ![c] = "draining"]
  /\ UNCHANGED <<permits, outcome, reaper, procs, term, parent>>

ReaderCannotStart(c) ==
  /\ At(c, "spawned", "kill")
  /\ EndsAs(c, "error")
  /\ UNCHANGED <<permits, reader, reaper, procs, term, parent>>

Exited(c) ==
  /\ At(c, "waiting", "kill")
  /\ reaper[c] = "gone"
  /\ EndsAs(c, "result")
  /\ UNCHANGED <<permits, reader, reaper, procs, term, parent>>

(* Mutant of Deadline: looked at when the command has exited. *)
DeadlineAfterExit(c) ==
  /\ At(c, "waiting", "kill")
  /\ reaper[c] = "gone"
  /\ EndsAs(c, "timeout")
  /\ UNCHANGED <<permits, reader, reaper, procs, term, parent>>

Deadline(c) ==
  /\ At(c, "waiting", "kill")
  /\ EndsAs(c, "timeout")
  /\ UNCHANGED <<permits, reader, reaper, procs, term, parent>>

(* kill_process_tree: ask a reaper that is still there to sweep. *)
Terminate(c) ==
  /\ At(c, "kill", "grace")
  /\ term' = IF reaper[c] \in Alive THEN term \cup {c} ELSE term
  /\ UNCHANGED <<permits, outcome, reader, reaper, procs, parent>>

(* Mutant of KillGroup: only a leader that is still alive is killed. *)
KillLiveLeader(c) ==
  /\ At(c, "grace", "join")
  /\ procs' = IF reaper[c] \in Alive THEN [procs EXCEPT ![c] = @ \cap {"escaped"}] ELSE procs
  /\ Becomes(c, IF reaper[c] \in Alive THEN "killed" ELSE reaper[c])
  /\ term' = term \ {c}
  /\ UNCHANGED <<permits, outcome, reader, parent>>

(* The reaper died, or the grace period ran out: os.killpg. *)
KillGroup(c) ==
  /\ At(c, "grace", "join")
  /\ procs' = [procs EXCEPT ![c] = @ \cap {"escaped"}]
  /\ Becomes(c, IF reaper[c] \in Alive THEN "killed" ELSE reaper[c])
  /\ term' = term \ {c}
  /\ UNCHANGED <<permits, outcome, reader, parent>>

(* reader.stop, reader.finish: an escaped process may still hold the pipe. *)
Join(c) ==
  /\ At(c, "join", "end")
  /\ \E end \in {"eof"} \cup (IF procs[c] = {} THEN {} ELSE {"lost"}) :
       reader' = [reader EXCEPT ![c] = IF @ = "draining" THEN end ELSE @]
  /\ UNCHANGED <<permits, outcome, reaper, procs, term, parent>>

(* reader.text() raises for a pipe that was lost, before a timeout is raised *)
(* or a result returned; the permit is released last.                        *)
Finish(c) ==
  /\ At(c, "end", "done")
  /\ EndsAs(c, IF reader[c] = "lost" THEN "error" ELSE outcome[c])
  /\ permits' = permits + 1
  /\ UNCHANGED <<reader, reaper, procs, term, parent>>

CallerSteps(c) ==
  \/ Admit(c) \/ QueueExpires(c) \/ NeverStarts(c) \/ Spawn(c)
  \/ ReaderStarts(c) \/ ReaderCannotStart(c) \/ Exited(c) \/ Deadline(c)
  \/ Terminate(c) \/ KillGroup(c) \/ Join(c) \/ Finish(c)

-----------------------------------------------------------------------------
(* The reaper. *)

(* PR_SET_CHILD_SUBREAPER, then PR_SET_PDEATHSIG; a kernel that refuses the *)
(* first ends the reaper.                                                   *)
Arm(c) ==
  /\ reaper[c] = "born"
  /\ Becomes(c, "armed") \/ Becomes(c, "gone")
  /\ UNCHANGED <<callVars, procs, term, parent>>

(* Mutant of SpawnWorkload: getppid is not compared. *)
SpawnUnchecked(c) ==
  /\ reaper[c] = "armed" /\ c \notin term
  /\ Becomes(c, "watching")
  /\ procs' = [procs EXCEPT ![c] = {"work"}]
  /\ UNCHANGED <<callVars, term, parent>>

(* A parent that died before PDEATHSIG was set is found by getppid. *)
SpawnWorkload(c) ==
  /\ reaper[c] = "armed" /\ c \notin term
  /\ parent
  /\ Becomes(c, "watching")
  /\ procs' = [procs EXCEPT ![c] = {"work"}]
  /\ UNCHANGED <<callVars, term, parent>>

Disowned(c) ==
  /\ reaper[c] = "armed"
  /\ ~parent
  /\ Becomes(c, "gone")
  /\ UNCHANGED <<callVars, procs, term, parent>>

WorkloadCannotSpawn(c) ==
  /\ reaper[c] = "armed" /\ c \notin term
  /\ parent
  /\ Becomes(c, "ended")
  /\ UNCHANGED <<callVars, procs, term, parent>>

(* waitpid reports the workload. *)
WorkloadEnds(c) ==
  /\ reaper[c] = "watching" /\ c \notin term
  /\ "work" \notin procs[c]
  /\ Becomes(c, "ended")
  /\ UNCHANGED <<callVars, procs, term, parent>>

(* SIGTERM before the handler is installed kills the reaper, which has no   *)
(* workload yet; in the wait loop it raises Stop, which is caught; between  *)
(* the loop and the SIG_IGN of sweep() it raises Stop where nothing catches *)
(* it, and the reaper dies unswept; in sweep() it is ignored.               *)
TakeSignal(c) ==
  /\ c \in term
  /\ \/ reaper[c] \in {"born", "armed"} /\ Becomes(c, "gone")
     \/ reaper[c] = "watching" /\ Becomes(c, "ended")
     \/ reaper[c] = "ended" /\ Becomes(c, "gone")
     \/ reaper[c] = "sweeping" /\ UNCHANGED reaper
  /\ term' = term \ {c}
  /\ UNCHANGED <<callVars, procs, parent>>

BeginSweep(c) ==
  /\ reaper[c] = "ended"
  /\ Becomes(c, "sweeping")
  /\ UNCHANGED <<callVars, procs, term, parent>>

(* Mutant of Sweep: the reaper exits with its workload. *)
SweepNothing(c) ==
  /\ reaper[c] = "sweeping"
  /\ Becomes(c, "gone")
  /\ term' = term \ {c}
  /\ UNCHANGED <<callVars, procs, parent>>

(* Every descendant, escaped ones included, is a child by now or becomes    *)
(* one when its parent dies: killed and reaped until there is none.         *)
Sweep(c) ==
  /\ reaper[c] = "sweeping"
  /\ procs' = [procs EXCEPT ![c] = {}]
  /\ Becomes(c, "gone")
  /\ term' = term \ {c}
  /\ UNCHANGED <<callVars, parent>>

ReaperSteps(c) ==
  \/ Arm(c) \/ SpawnWorkload(c) \/ Disowned(c) \/ WorkloadCannotSpawn(c)
  \/ WorkloadEnds(c) \/ TakeSignal(c) \/ BeginSweep(c) \/ Sweep(c)

-----------------------------------------------------------------------------
(* The command, and the end of jittest. *)

(* Descendants stay in the session they were born to, or leave it. *)
Fork(c) ==
  /\ \E kin \in {"group", "escaped"} :
       /\ procs[c] \cap {"work", "group", kin} # {}
       /\ procs' = [procs EXCEPT ![c] = @ \cup {kin}]
  /\ UNCHANGED <<callVars, reaper, term, parent>>

Die(c) ==
  /\ \E p \in procs[c] : procs' = [procs EXCEPT ![c] = @ \ {p}]
  /\ UNCHANGED <<callVars, reaper, term, parent>>

(* PDEATHSIG reaches the reapers that have asked for it. *)
ParentDies ==
  /\ parent
  /\ parent' = FALSE
  /\ term' = term \cup {c \in Living : reaper[c] # "born"}
  /\ UNCHANGED <<callVars, reaper, procs>>

Next ==
  \/ \E c \in Callers : Call(c) \/ CallerSteps(c) \/ ReaperSteps(c) \/ Fork(c) \/ Die(c)
  \/ ParentDies

Spec == Init /\ [][Next]_vars

(* Callers and reapers run; the command owes nothing, it may run for ever.  *)
(* A deadline is a clock: where the code waits for one, it passes.          *)
FairSpec == Spec /\ \A c \in Callers : WF_vars(CallerSteps(c)) /\ WF_vars(ReaperSteps(c))

-----------------------------------------------------------------------------
(* "Spawning is throttled to MAX_LIVE_PROCESSES concurrent processes": no   *)
(* permit is given back while the process it was taken for can still run.   *)
Throttled == Cardinality(Living) <= Permits

(* Every way out of run_bounded, the exceptions included, leaves the        *)
(* semaphore as it found it.                                                *)
PermitsConserved == permits + Cardinality(Holders) = Permits

(* A result is only returned when every process of the command is gone: its *)
(* output is complete and nothing of it runs on into the next command.      *)
ResultIsContained ==
  \A c \in Callers : (pc[c] = "done" /\ outcome[c] = "result") => procs[c] = {}

(* However a call ends, nothing of the command's session survives it.       *)
SessionIsDead == \A c \in Callers : pc[c] = "done" => procs[c] \subseteq {"escaped"}

(* Every call returns, though its command may never end and permits may be  *)
(* taken, unless jittest dies first.                                        *)
CallsReturn == \A c \in Callers : pc[c] = "queue" ~> (pc[c] = "done" \/ ~parent)

(* When jittest dies no reaper outlives it for ever, at whatever point of   *)
(* its start it was: no workload is started for a parent that is gone.      *)
ReapersFollow == ~parent ~> \A c \in Callers : reaper[c] \notin Alive

(* "After the workload exits, or on SIGTERM from run_bounded, it SIGKILLs   *)
(* and reaps every remaining descendant before exiting" (proc.py).          *)
ReaperSweeps == \A c \in Callers : reaper[c] = "gone" => procs[c] = {}
=============================================================================
