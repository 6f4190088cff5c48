---------------------------- MODULE Singleflight ----------------------------
(***************************************************************************)
(* Threads of one process calling complete() on model backends that share  *)
(* a response cache (llm.py, _llmcache.py).  A call holds its backend's    *)
(* dispatch lock from the budget guard to its end; within it, a reference- *)
(* counted flight serialises the calls that miss on the same key, whatever *)
(* backend they come from.                                                 *)
(*                                                                         *)
(* A key stands for the token (cache file, request digest); a flight for   *)
(* the identity of a _Flight object, so a new one is any that nobody       *)
(* refers to.  One posted request is one step that either yields an        *)
(* accounted response or raises: its retries are Dispatch's matter.        *)
(***************************************************************************)
EXTENDS Integers, FiniteSets, Functions

CONSTANTS Threads, Backends, Keys, Flights,
          Allowance,   \* responses a backend may account before it is refused
          Responses,   \* request_count: responses one completion asks for
          Calls,       \* calls of complete() per thread (bound of the model)
          None

ASSUME FlightLimits == Allowance \in Nat /\ Responses \in Nat \ {0} /\ Calls \in Nat
ASSUME NoneAssumption == None \notin Threads \cup Backends \cup Keys \cup Flights
ASSUME ThreadsAssumption == IsFiniteSet(Threads)

VARIABLES
  at,        \* where each thread is in complete()
  backend,   \* the backend of its call
  key,       \* the cache key of its call
  due,       \* responses its completion still has to post for
  mine,      \* the flight it retains
  todo,      \* calls it will still make
  holder,    \* backend -> the thread inside its dispatch lock
  table,     \* _FLIGHTS: key -> the registered flight
  users,     \* flight -> its reference count
  owner,     \* flight -> the thread inside its lock
  rows,      \* the cache file: key -> what its row holds
  spent      \* backend -> usage.calls, responses accounted so far

flightVars == <<at, backend, key, due, mine, todo, holder, table, users, owner, rows, spent>>

Leading == {"look", "post", "store", "release"}
Retaining == {"acquire", "drop"} \cup Leading
Admitted == {"retain"} \cup Retaining \cup {"leave"}
Points == {"idle", "enter", "guard"} \cup Admitted

FlightTypeOK ==
  /\ at \in [Threads -> Points]
  /\ backend \in [Threads -> Backends \cup {None}]
  /\ key \in [Threads -> Keys \cup {None}]
  /\ due \in [Threads -> 0..Responses]
  /\ mine \in [Threads -> Flights \cup {None}]
  /\ todo \in [Threads -> 0..Calls]
  /\ holder \in [Backends -> Threads \cup {None}]
  /\ table \in [Keys -> Flights \cup {None}]
  /\ users \in [Flights -> Nat]
  /\ owner \in [Flights -> Threads \cup {None}]
  /\ rows \in [Keys -> {"none", "whole", "broken"}]
  /\ spent \in [Backends -> Nat]

(* The file may already hold rows of earlier runs, a damaged one included. *)
FlightInit ==
  /\ at = [t \in Threads |-> "idle"]
  /\ backend = [t \in Threads |-> None]
  /\ key = [t \in Threads |-> None]
  /\ due = [t \in Threads |-> 0]
  /\ mine = [t \in Threads |-> None]
  /\ todo = [t \in Threads |-> Calls]
  /\ holder = [b \in Backends |-> None]
  /\ table = [k \in Keys |-> None]
  /\ users = [f \in Flights |-> 0]
  /\ owner = [f \in Flights |-> None]
  /\ rows \in [Keys -> {"none", "whole", "broken"}]
  /\ spent = [b \in Backends |-> 0]

MoveTo(t, from, to) == at[t] = from /\ at' = [at EXCEPT ![t] = to]

UsersOf(f) == {t \in Threads : mine[t] = f}

Unreferenced(f) == f \notin Range(table) /\ f \notin Range(mine)

(* complete(...) is called. *)
StartCall(t, b, k) ==
  /\ todo[t] > 0
  /\ MoveTo(t, "idle", "enter")
  /\ todo' = [todo EXCEPT ![t] = @ - 1]
  /\ backend' = [backend EXCEPT ![t] = b]
  /\ key' = [key EXCEPT ![t] = k]
  /\ UNCHANGED <<due, mine, holder, table, users, owner, rows, spent>>

(* Mutant of Enter: the budget is looked at before the dispatch lock is taken. *)
EnterUnlocked(t) ==
  /\ MoveTo(t, "enter", "guard")
  /\ holder' = [holder EXCEPT ![backend[t]] = t]
  /\ UNCHANGED <<backend, key, due, mine, todo, table, users, owner, rows, spent>>

(* with self._dispatch_lock *)
Enter(t) ==
  /\ MoveTo(t, "enter", "guard")
  /\ holder[backend[t]] = None
  /\ holder' = [holder EXCEPT ![backend[t]] = t]
  /\ UNCHANGED <<backend, key, due, mine, todo, table, users, owner, rows, spent>>

(* The guard, under the dispatch lock. BudgetExceeded leaves at once,       *)
(* whether or not the answer is cached.                                     *)
Admit(t) ==
  /\ MoveTo(t, "guard", "retain")
  /\ spent[backend[t]] < Allowance
  /\ UNCHANGED <<backend, key, due, mine, todo, holder, table, users, owner, rows, spent>>

Refuse(t) ==
  /\ MoveTo(t, "guard", "leave")
  /\ spent[backend[t]] >= Allowance
  /\ UNCHANGED <<backend, key, due, mine, todo, holder, table, users, owner, rows, spent>>

(* _retain_flight, under _FLIGHTS_LOCK: a new flight is registered for the  *)
(* key, or the registered one is joined.                                    *)
Register(t) ==
  /\ MoveTo(t, "retain", "acquire")
  /\ table[key[t]] = None
  /\ \E f \in Flights :
       /\ Unreferenced(f)
       /\ table' = [table EXCEPT ![key[t]] = f]
       /\ users' = [users EXCEPT ![f] = 1]
       /\ mine' = [mine EXCEPT ![t] = f]
  /\ UNCHANGED <<backend, key, due, todo, holder, owner, rows, spent>>

Join(t) ==
  /\ MoveTo(t, "retain", "acquire")
  /\ table[key[t]] # None
  /\ users' = [users EXCEPT ![table[key[t]]] = @ + 1]
  /\ mine' = [mine EXCEPT ![t] = table[key[t]]]
  /\ UNCHANGED <<backend, key, due, todo, holder, table, owner, rows, spent>>

(* Mutant of Acquire: the cache is looked at before the flight, not inside it. *)
AcquireAfterLook(t) ==
  /\ MoveTo(t, "acquire", "post")
  /\ owner[mine[t]] = None
  /\ due' = [due EXCEPT ![t] = Responses]
  /\ owner' = [owner EXCEPT ![mine[t]] = t]
  /\ UNCHANGED <<backend, key, mine, todo, holder, table, users, rows, spent>>

(* flight.lock.acquire() *)
Acquire(t) ==
  /\ MoveTo(t, "acquire", "look")
  /\ owner[mine[t]] = None
  /\ owner' = [owner EXCEPT ![mine[t]] = t]
  /\ UNCHANGED <<backend, key, due, mine, todo, holder, table, users, rows, spent>>

(* cache.get: a row answers the call, or is damaged and raises ValueError.  *)
Hit(t) ==
  /\ MoveTo(t, "look", "release")
  /\ rows[key[t]] # "none"
  /\ UNCHANGED <<backend, key, due, mine, todo, holder, table, users, owner, rows, spent>>

Miss(t) ==
  /\ MoveTo(t, "look", "post")
  /\ rows[key[t]] = "none"
  /\ due' = [due EXCEPT ![t] = Responses]
  /\ UNCHANGED <<backend, key, mine, todo, holder, table, users, owner, rows, spent>>

(* A response arrives, parses and is accounted. *)
Respond(t) ==
  /\ due[t] > 0
  /\ MoveTo(t, "post", IF due[t] = 1 THEN "store" ELSE "post")
  /\ due' = [due EXCEPT ![t] = @ - 1]
  /\ spent' = [spent EXCEPT ![backend[t]] = @ + 1]
  /\ UNCHANGED <<backend, key, mine, todo, holder, table, users, owner, rows>>

(* Mutant of Fail: the flight's lock is released on success only. *)
FailKeepsLock(t) ==
  /\ \/ MoveTo(t, "post", "leave")
     \/ MoveTo(t, "store", "leave")
  /\ due' = [due EXCEPT ![t] = 0]
  /\ UNCHANGED <<backend, key, mine, todo, holder, table, users, owner, rows, spent>>

(* The request, its parsing or the write of the row raises. *)
Fail(t) ==
  /\ \/ MoveTo(t, "post", "release")
     \/ MoveTo(t, "store", "release")
  /\ due' = [due EXCEPT ![t] = 0]
  /\ UNCHANGED <<backend, key, mine, todo, holder, table, users, owner, rows, spent>>

(* cache.put *)
StoreRow(t) ==
  /\ MoveTo(t, "store", "release")
  /\ rows' = [rows EXCEPT ![key[t]] = "whole"]
  /\ UNCHANGED <<backend, key, due, mine, todo, holder, table, users, owner, spent>>

(* flight.lock.release(), in the finally block *)
Release(t) ==
  /\ MoveTo(t, "release", "drop")
  /\ owner' = [owner EXCEPT ![mine[t]] = None]
  /\ UNCHANGED <<backend, key, due, mine, todo, holder, table, users, rows, spent>>

(* Mutant of Drop: whoever leaves first removes the registered flight. *)
DropAlways(t) ==
  /\ MoveTo(t, "drop", "leave")
  /\ users' = [users EXCEPT ![mine[t]] = @ - 1]
  /\ table' = [table EXCEPT ![key[t]] = None]
  /\ mine' = [mine EXCEPT ![t] = None]
  /\ UNCHANGED <<backend, key, due, todo, holder, owner, rows, spent>>

(* _release_flight: the last user removes the flight it finds registered. *)
Drop(t) ==
  /\ MoveTo(t, "drop", "leave")
  /\ users' = [users EXCEPT ![mine[t]] = @ - 1]
  /\ table' = IF users[mine[t]] = 1 /\ table[key[t]] = mine[t]
                THEN [table EXCEPT ![key[t]] = None] ELSE table
  /\ mine' = [mine EXCEPT ![t] = None]
  /\ UNCHANGED <<backend, key, due, todo, holder, owner, rows, spent>>

(* The dispatch lock is given back, the call returns or raises. *)
Leave(t) ==
  /\ MoveTo(t, "leave", "idle")
  /\ holder' = [holder EXCEPT ![backend[t]] = None]
  /\ backend' = [backend EXCEPT ![t] = None]
  /\ key' = [key EXCEPT ![t] = None]
  /\ UNCHANGED <<due, mine, todo, table, users, owner, rows, spent>>

FlightStep(t) ==
  \/ \E b \in Backends, k \in Keys : StartCall(t, b, k)
  \/ Enter(t) \/ Admit(t) \/ Refuse(t) \/ Register(t) \/ Join(t)
  \/ Acquire(t) \/ Hit(t) \/ Miss(t)
  \/ Respond(t) \/ Fail(t) \/ StoreRow(t)
  \/ Release(t) \/ Drop(t) \/ Leave(t)

FlightNext == \E t \in Threads : FlightStep(t)

FlightSpec == FlightInit /\ [][FlightNext]_flightVars

-----------------------------------------------------------------------------
(* Inside the flight of a key there is one thread at a time, across all     *)
(* backends and although flights are dropped and made anew in between: two  *)
(* callers that miss on the same key never both pay for it                  *)
(* ("Serialize one cache miss per process").                                *)
OneLeader ==
  \A t, u \in Threads :
    (at[t] \in Leading /\ at[u] \in Leading /\ key[t] = key[u]) => t = u

(* A miss is still a miss when it is acted on: no request is posted, and no *)
(* row written, for a key whose row has appeared since cache.get.           *)
MissIsFresh ==
  \A t \in Threads : at[t] \in {"post", "store"} => rows[key[t]] = "none"

(* A registered flight has as many users as it counts, at least one; a      *)
(* retained flight is the one registered under the key of its user: nothing *)
(* leaks, and nobody is left waiting on a flight newcomers cannot find.     *)
CountedFlights ==
  /\ \A k \in Keys : table[k] # None => users[table[k]] > 0
  /\ \A f \in Flights : users[f] = Cardinality(UsersOf(f))
  /\ \A t \in Threads : mine[t] # None => table[key[t]] = mine[t]

(* The guard looks before a completion, not before every request, so a      *)
(* backend may pass its ceiling, but by less than one completion however    *)
(* many threads share it: check and account are one transaction.            *)
Overshoot == \A b \in Backends : spent[b] < Allowance + Responses

(* Every call ends, and no key stays registered: a leader that fails frees  *)
(* its waiters, and two backends never wait for each other's locks.         *)
Quiescent == /\ \A t \in Threads : at[t] = "idle" /\ todo[t] = 0
             /\ \A k \in Keys : table[k] = None
EveryoneReturns == (\E t \in Threads : at[t] # "idle") ~> Quiescent
=============================================================================
