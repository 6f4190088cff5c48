------------------------------- MODULE Router -------------------------------
(***************************************************************************)
(* MeliousRouter (melious.py): threads that share a router.  A call waits  *)
(* for a slot of the model it names, then tries the legs of the model's    *)
(* failover chain, each with bounded retries and escalations of a          *)
(* truncated answer, all under one deadline.  The semaphore of a model     *)
(* lives in a weak dictionary: only as long as some call refers to it.     *)
(*                                                                         *)
(* Time passes in ticks, for all calls alike, and never between two reads  *)
(* of the clock with nothing in between.  A request may take any time: the *)
(* timeouts of its phases do not add up to one.                            *)
(***************************************************************************)
EXTENDS Integers, Sequences, FiniteSets

CONSTANTS Requesters, Models,
          Chain,        \* model -> the models its calls may be posted to, itself first
          MaxInflight,  \* max_inflight_per_model
          Budget,       \* ticks a call may take
          Job,          \* caller -> the calls it makes: model, and how many quadruplings
                        \* of max_tokens start below the ceiling (bound of the model)
          MaxCloses,    \* times the router is closed (bound of the model)
          NoSlot, NoModel

ASSUME RouterAssumption ==
  /\ IsFiniteSet(Requesters) /\ MaxInflight \in 1..100 /\ Budget \in Nat \ {0}
  /\ Chain \in [Models -> Seq(Models)] /\ \A m \in Models : Chain[m] # <<>> /\ Chain[m][1] = m
  /\ Job \in [Requesters -> Seq([model : Models, room : Nat])] /\ MaxCloses \in Nat
  /\ NoSlot \notin Requesters /\ NoModel \notin Models

VARIABLES
  stage,      \* where each call is
  job,        \* its local variables
  registry,   \* _model_slots: model -> the semaphore registered, or NoSlot
  slots,      \* semaphore -> permits left
  answered,   \* caller -> responses of its call that the provider billed
  result,     \* what its last call returned or raised
  closed      \* times close() was called

routerVars == <<stage, job, registry, slots, answered, result, closed>>

(* A semaphore is named by the caller that made it: an object that nobody  *)
(* refers to any more is nobody's, so the name is free again.              *)
Semaphores == Requesters
NoJob == [model |-> NoModel, slot |-> NoSlot, spent |-> 0, leg |-> 0, tries |-> 0, grown |-> 0,
          room |-> 0, wake |-> 0, billed |-> 0, client |-> TRUE, made |-> 0]

Outcome(how) == [how |-> how, leg |-> 0, reported |-> 0]

Waiting == {"queued", "admitted", "leg", "posted", "cooling"}
InSlot == Waiting \ {"queued"}
Refer(slot) == {c \in Requesters : job[c].slot = slot}

RouterInit ==
  /\ stage = [c \in Requesters |-> "idle"]
  /\ job = [c \in Requesters |-> NoJob]
  /\ registry = [m \in Models |-> NoSlot]
  /\ slots = [s \in Semaphores |-> MaxInflight]
  /\ answered = [c \in Requesters |-> 0]
  /\ result = [c \in Requesters |-> Outcome("none")]
  /\ closed = 0

Late(c) == job[c].spent >= Budget
To(c, next) == stage' = [stage EXCEPT ![c] = next]

-----------------------------------------------------------------------------
(* complete: the slot. *)

(* setdefault under the client lock. *)
Enter(c) ==
  /\ stage[c] = "idle" /\ job[c].made < Len(Job[c])
  /\ LET m == Job[c][job[c].made + 1].model
         slot == IF registry[m] = NoSlot
                   THEN CHOOSE s \in Semaphores : Refer(s) = {} ELSE registry[m]
     IN    /\ job' = [job EXCEPT ![c] = [NoJob EXCEPT !.model = m, !.slot = slot,
                                                      !.made = job[c].made + 1]]
           /\ slots' = IF registry[m] = NoSlot
                           THEN [slots EXCEPT ![slot] = MaxInflight] ELSE slots
           /\ registry' = [registry EXCEPT ![m] = slot]
  /\ To(c, "queued")
  /\ answered' = [answered EXCEPT ![c] = 0]
  /\ result' = [result EXCEPT ![c] = Outcome("none")]
  /\ UNCHANGED closed

(* Mutant of Leave: the first call to end takes the semaphore's entry away. *)
LeaveForgetting(c, outcome) ==
  /\ To(c, "idle")
  /\ result' = [result EXCEPT ![c] = outcome]
  /\ registry' = [registry EXCEPT ![job[c].model] = NoSlot]
  /\ job' = [job EXCEPT ![c] = [NoJob EXCEPT !.made = job[c].made]]

(* The call's reference goes, and with the last one the entry. *)
Leave(c, outcome) ==
  /\ To(c, "idle")
  /\ result' = [result EXCEPT ![c] = outcome]
  /\ registry' = IF Refer(job[c].slot) = {c}
                   THEN [registry EXCEPT ![job[c].model] = NoSlot] ELSE registry
  /\ job' = [job EXCEPT ![c] = [NoJob EXCEPT !.made = job[c].made]]

SlotExpires(c) ==
  /\ stage[c] = "queued" /\ Late(c)
  /\ Leave(c, Outcome("deadline"))
  /\ UNCHANGED <<slots, answered, closed>>

Acquire(c) ==
  /\ stage[c] = "queued" /\ slots[job[c].slot] > 0
  /\ slots' = [slots EXCEPT ![job[c].slot] = @ - 1]
  /\ To(c, "admitted")
  /\ UNCHANGED <<job, registry, answered, result, closed>>

(* Every way out of the try: the slot is released. *)
Returns(c, outcome) ==
  /\ Leave(c, outcome)
  /\ slots' = [slots EXCEPT ![job[c].slot] = @ + 1]

Ends(c, how) == Returns(c, Outcome(how))

(* The queue took the whole budget, or max_tokens is not for this model. *)
AdmitFails(c) ==
  /\ stage[c] = "admitted"
  /\ Ends(c, IF Late(c) THEN "deadline" ELSE "value_error")
  /\ UNCHANGED <<answered, closed>>

-----------------------------------------------------------------------------
(* _complete: the legs. *)
StartLeg(c, n) ==
  /\ To(c, "leg")
  /\ job' = [job EXCEPT ![c].leg = n, ![c].tries = 0, ![c].grown = 0, ![c].billed = 0,
                        ![c].room = Job[c][job[c].made].room,
                        ![c].client = IF n = 1 THEN TRUE ELSE job[c].client]
  /\ UNCHANGED <<registry, slots, result>>

Start(c) ==
  /\ stage[c] = "admitted" /\ ~Late(c)
  /\ StartLeg(c, 1)
  /\ UNCHANGED <<answered, closed>>

Legs(c) == Len(Chain[job[c].model])

(* Mutant of LegFails: a leg out of time goes back to the first. *)
LegRestarts(c, how) ==
  CASE how = "deadline" -> StartLeg(c, 1)
    [] OTHER -> Ends(c, how)

(* A leg that failed is followed by the next, if there is one and time.    *)
LegFails(c, how) ==
  CASE how \in {"auth", "credits"} \/ Legs(c) = 1           -> Ends(c, how)
    [] how \notin {"auth", "credits"} /\ job[c].leg < Legs(c) ->
         IF Late(c) THEN Ends(c, "deadline") ELSE StartLeg(c, job[c].leg + 1)
    [] how \notin {"auth", "credits"} /\ Legs(c) > 1 /\ job[c].leg = Legs(c) ->
         Ends(c, IF how = "deadline" THEN "deadline" ELSE "exhausted")

-----------------------------------------------------------------------------
(* _complete_leg: the requests of a leg. *)
Send(c) ==
  /\ stage[c] = "leg" /\ ~Late(c) /\ job[c].client
  /\ job' = [job EXCEPT ![c].tries = @ + 1]
  /\ To(c, "posted")
  /\ UNCHANGED <<registry, slots, answered, result, closed>>

SendLate(c) ==
  /\ stage[c] = "leg" /\ Late(c)
  /\ LegFails(c, "deadline")
  /\ UNCHANGED <<answered, closed>>

Again(c) == To(c, "leg") /\ UNCHANGED <<registry, slots, result>>

(* A connection that cannot be made may be tried again, after less than    *)
(* the time that is left.                                                  *)
Reconnect(c) ==
  /\ stage[c] = "posted" /\ job[c].tries < 3 /\ ~Late(c)
  /\ Again(c)
  /\ UNCHANGED <<job, answered, closed>>

(* Any other failure of the request; a closed client refuses it at once. *)
Lose(c) ==
  /\ stage[c] = "posted" \/ (stage[c] = "leg" /\ ~Late(c) /\ ~job[c].client)
  /\ LegFails(c, "transport")
  /\ UNCHANGED <<answered, closed>>

(* Whatever comes too late is not looked at, though it may be billed. *)
TooLate(c) ==
  /\ stage[c] = "posted" /\ Late(c)
  /\ \E paid \in {0, 1} : answered' = [answered EXCEPT ![c] = @ + paid]
  /\ LegFails(c, "deadline")
  /\ UNCHANGED closed

Refusals == {"auth", "credits", "unavailable", "transport"}

(* 401; exhausted credits; 403, 404 or 410; any other status that is not   *)
(* an answer, and an answer that is malformed, which may be billed.        *)
Refuse(c) ==
  /\ stage[c] = "posted" /\ ~Late(c)
  /\ \E how \in Refusals, paid \in {0, 1} :
       /\ paid = 1 => how = "transport"
       /\ LegFails(c, how)
       /\ answered' = [answered EXCEPT ![c] = @ + paid]
  /\ UNCHANGED closed

(* 429 is retried as long as there is time, 5xx twice at most. *)
Cooldown(c) == job[c].tries

Throttle(c) ==
  /\ stage[c] = "posted" /\ ~Late(c)
  /\ \E limited \in BOOLEAN :
       IF ~limited /\ job[c].tries >= 3 THEN LegFails(c, "transport")
       ELSE IF job[c].spent + Cooldown(c) >= Budget THEN LegFails(c, "deadline")
       ELSE /\ To(c, "cooling")
            /\ job' = [job EXCEPT ![c].wake = job[c].spent + Cooldown(c)]
            /\ UNCHANGED <<registry, slots, result>>
  /\ UNCHANGED <<answered, closed>>

Wake(c) ==
  /\ stage[c] = "cooling" /\ job[c].spent >= job[c].wake
  /\ Again(c)
  /\ UNCHANGED <<job, answered, closed>>

Bill(c) == answered' = [answered EXCEPT ![c] = @ + 1]

(* An answer whose usage is no object is billed and then an error. *)
BadUsage(c) ==
  /\ stage[c] = "posted" /\ ~Late(c)
  /\ Bill(c)
  /\ LegFails(c, "transport")
  /\ UNCHANGED closed

(* Mutant of Escalate: the larger request starts the totals afresh. *)
EscalateAfresh(c) ==
  /\ stage[c] = "posted" /\ ~Late(c) /\ job[c].room > 0 /\ job[c].grown < 2
  /\ Bill(c)
  /\ job' = [job EXCEPT ![c].grown = @ + 1, ![c].room = @ - 1, ![c].billed = 0]
  /\ Again(c)
  /\ UNCHANGED closed

(* An answer cut off at max_tokens is asked for again with four times as   *)
(* many; the third is an error, though each has been billed.               *)
Escalate(c) ==
  /\ stage[c] = "posted" /\ ~Late(c) /\ job[c].room > 0
  /\ Bill(c)
  /\ IF job[c].grown = 2 THEN LegFails(c, "deadline")
     ELSE /\ job' = [job EXCEPT ![c].grown = @ + 1, ![c].room = @ - 1, ![c].billed = @ + 1]
          /\ Again(c)
  /\ UNCHANGED closed

(* The result has the totals of its leg. *)
Answer(c) ==
  /\ stage[c] = "posted" /\ ~Late(c)
  /\ Bill(c)
  /\ Returns(c, [how |-> "answer", leg |-> job[c].leg, reported |-> job[c].billed + 1])
  /\ UNCHANGED closed

-----------------------------------------------------------------------------
(* close(): what a call under way still has to send will fail. *)
Close ==
  /\ closed < MaxCloses
  /\ closed' = closed + 1
  /\ job' = [c \in Requesters |-> [job[c] EXCEPT !.client = stage[c] \notin {"leg", "posted", "cooling"}]]
  /\ UNCHANGED <<stage, registry, slots, answered, result>>

Tick ==
  /\ \E c \in Requesters : stage[c] \in Waiting /\ ~Late(c)
  /\ job' = [c \in Requesters |-> IF stage[c] \in Waiting /\ ~Late(c)
                                 THEN [job[c] EXCEPT !.spent = @ + 1] ELSE job[c]]
  /\ UNCHANGED <<stage, registry, slots, answered, result, closed>>

Serve(c) ==
  \/ SlotExpires(c) \/ Acquire(c) \/ AdmitFails(c) \/ Start(c) \/ Send(c) \/ SendLate(c)
  \/ Reconnect(c) \/ Lose(c) \/ TooLate(c) \/ Refuse(c) \/ Throttle(c) \/ Wake(c)
  \/ BadUsage(c) \/ Escalate(c) \/ Answer(c)

RouterNext == Tick \/ Close \/ \E c \in Requesters : Enter(c) \/ Serve(c)
RouterSpec == RouterInit /\ [][RouterNext]_routerVars

(* Threads run, time passes, and every request ends some time: the phases  *)
(* of a request have timeouts of their own.                                *)
RouterFairness == WF_routerVars(Tick) /\ \A c \in Requesters : WF_routerVars(Serve(c))
-----------------------------------------------------------------------------
(* Per-model backpressure: however calls enter, wait, fail and leave, those *)
(* that name the same model share one semaphore as long as any of them is   *)
(* there, so that no more than max_inflight of them run; and the dictionary *)
(* keeps no entry of a model nobody asks for (melious.py:133-136).          *)
RunningOn(m) == {c \in Requesters : stage[c] \in InSlot /\ job[c].model = m}
SlotsBound ==
  \A m \in Models :
    LET calls == {c \in Requesters : stage[c] # "idle" /\ job[c].model = m}
    IN  /\ \A c \in calls : /\ job[c].slot = registry[m]
                            /\ slots[job[c].slot] + Cardinality(RunningOn(m)) = MaxInflight
        /\ calls = {} => registry[m] = NoSlot

(* An answer reports every response its leg was billed for, those that were *)
(* cut off and asked for again included; without a failover that is all the *)
(* call cost (melious.py:345-371).                                     *)
PaidIsReported ==
  \A c \in Requesters : result[c].how = "answer" =>
    /\ result[c].reported <= answered[c]
    /\ result[c].leg = 1 => result[c].reported = answered[c]

(* "No hang": every call returns or raises, however long it has to wait for *)
(* a slot and however often the provider throttles it or cuts it off.       *)
RouterReturns == \A c \in Requesters : stage[c] # "idle" ~> stage[c] = "idle"
=============================================================================
