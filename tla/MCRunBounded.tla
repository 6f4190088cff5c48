---------------------------- MODULE MCRunBounded ----------------------------
(* The two admission queues of the program: commands that wait for a       *)
(* process permit, and model requests that wait for a slot of the router.  *)
(* They share nothing, so a behaviour is one of either.                    *)
EXTENDS RunBounded, Router

CONSTANTS old, new, r1, r2

VARIABLE system
all == <<vars, routerVars, system>>

MCChain == [m \in Models |-> IF m = old THEN <<old, new>> ELSE <<m>>]
MCJob == [r \in Requesters |->
  IF r = r1 THEN <<[model |-> old, room |-> 3], [model |-> old, room |-> 0]>>
            ELSE <<[model |-> old, room |-> 0]>>]

MCInit == Init /\ RouterInit /\ system \in {"commands", "requests"}
MCNext ==
  \/ system = "commands" /\ Next /\ UNCHANGED <<routerVars, system>>
  \/ system = "requests" /\ RouterNext /\ UNCHANGED <<vars, system>>
MCSpec == MCInit /\ [][MCNext]_all
Commands(action) == system = "commands" /\ action /\ UNCHANGED <<routerVars, system>>
Requests(action) == system = "requests" /\ action /\ UNCHANGED <<vars, system>>
MCFairSpec ==
  /\ MCSpec
  /\ \A c \in Callers : WF_all(Commands(CallerSteps(c))) /\ WF_all(Commands(ReaperSteps(c)))
  /\ WF_all(Requests(Tick)) /\ \A r \in Requesters : WF_all(Requests(Serve(r)))
=============================================================================
