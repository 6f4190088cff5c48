------------------------------ MODULE MCClient ------------------------------
(* The model client: what its calls log and charge (a generator beside an  *)
(* assessor whose budget is spent), and how its threads share the response *)
(* cache.  The two meet in a posted request, a step of Singleflight and a  *)
(* whole behaviour of Dispatch, so a behaviour here is one of either.      *)
EXTENDS Billing, Singleflight

VARIABLE view
all == <<vars, flightVars, view>>

MCClients == {"generator", "assessor"}
MCCeiling == [generator |-> 1, assessor |-> 0]
MCMaxCalls == [generator |-> 2, assessor |-> 1]

(* The keys are interchangeable: one of them is new to the file. *)
MCInit ==
  /\ Init /\ FlightInit /\ rows[CHOOSE k \in Keys : TRUE] = "none"
  /\ view = "cache" \/ (view = "ledger" /\ \A k \in Keys : rows[k] = "none")
(* A ledger that nobody can read is followed to the end of the calls under  *)
(* way (bound).                                                             *)
Spoilt == \E k \in 1..Len(ledger) : Foreign(ledger[k])
Ledger ==
  /\ view = "ledger" /\ Next /\ UNCHANGED <<flightVars, view>>
  /\ Spoilt => call' = call /\ Len(ledger') = Len(ledger)

(* Threads are interchangeable and so are flights nobody refers to: the      *)
(* least thread that has not called yet is the next to, and the least such   *)
(* flight the next to be registered.                                         *)
CallsInOrder == \A t, u \in Threads : t < u /\ todo'[u] < Calls => todo'[t] < Calls
RegistersInOrder ==
  \A k \in Keys, f \in Flights :
    table[k] = None /\ table'[k] # None /\ f < table'[k] => ~Unreferenced(f)
Cache ==
  /\ view = "cache" /\ FlightNext /\ UNCHANGED <<vars, view>>
  /\ CallsInOrder /\ RegistersInOrder

(* The scheduler runs some thread as long as one can run. *)
MCSpec == MCInit /\ [][Ledger \/ Cache]_all /\ WF_all(Cache)
=============================================================================
