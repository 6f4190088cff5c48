---------------------------- MODULE ClientProofs ----------------------------
(***************************************************************************)
(* Proofs about the model client, in two parts.  First Dispatch and        *)
(* Billing, for any number of clients sharing the ledger, any limits, and  *)
(* whatever the provider answers: its events are readable, a retry is      *)
(* earned, and the books balance.  Then Singleflight, for any finite set   *)
(* of threads and any backends, keys, flights and limits.                  *)
(***************************************************************************)
EXTENDS Billing, Singleflight, FiniteSetTheorems, SequenceTheorems, WellFoundedInduction, TLAPS

Good(e) == Accepts(e) <=> ~Foreign(e)

(* The event of the attempt under way: in its place, its client's, as _event *)
(* has made it.                                                             *)
Started(c) == [Logged(c, "dispatch") EXCEPT !.retry = attempt[c], !.transport = "started"]
SentInv ==
  \A c \in Clients : pc[c] = "sent" => current[c] \in 1..Len(ledger) /\ Sent(c) = Started(c)

LeftInv == \A c \in Clients : pc[c] \in {"post", "sent"} => left[c] >= 1

IInv == TypeOK /\ SentInv /\ LeftInv /\ ReadableUnlessForeign

-----------------------------------------------------------------------------
Transports == {"not_dispatched", "started", "response_received", "http_error",
               "timeout", "transport_error"}
StatusValues == AllStatuses \cup {"ok", "none"}

(* Events stay events when the fields an attempt writes are written.        *)
LEMMA WriteHead ==
  ASSUME NEW e \in Event, NEW t \in Transports, NEW s \in StatusValues
  PROVE  [e EXCEPT !.transport = t, !.status = s] \in Event
<1> DEFINE e1 == [e EXCEPT !.transport = t]
<1>1. e1 \in Event
  BY DEF Event, Transports
<1> HIDE DEF e1
<1>2. [e1 EXCEPT !.status = s] \in Event
  BY <1>1 DEF Event, StatusValues
<1> QED
  BY <1>2 DEF e1

LEMMA WriteBody ==
  ASSUME NEW e \in Event, NEW t \in Transports, NEW s \in StatusValues,
         NEW body \in ParseStatus, NEW bill \in AllBills
  PROVE  [e EXCEPT !.transport = t, !.status = s, !.received = TRUE, !.body = body,
                   !.debit = bill] \in Event
<1> DEFINE e2 == [e EXCEPT !.transport = t, !.status = s]
           e3 == [e2 EXCEPT !.received = TRUE]
           e4 == [e3 EXCEPT !.body = body]
<1>1. e2 \in Event
  BY WriteHead
<1> HIDE DEF e2
<1>2. e3 \in Event
  BY <1>1 DEF Event
<1> HIDE DEF e3
<1>3. e4 \in Event
  BY <1>2 DEF Event
<1> HIDE DEF e4
<1>4. [e4 EXCEPT !.debit = bill] \in Event
  BY <1>3 DEF Event
<1> QED
  BY <1>4 DEF e4, e3, e2

LEMMA WriteParse ==
  ASSUME NEW e \in Event, NEW content \in ParseStatus, NEW usage \in ParseStatus
  PROVE  [e EXCEPT !.content = content, !.usage = usage] \in Event
<1> DEFINE e1 == [e EXCEPT !.content = content]
<1>1. e1 \in Event
  BY DEF Event
<1> HIDE DEF e1
<1>2. [e1 EXCEPT !.usage = usage] \in Event
  BY <1>1 DEF Event
<1> QED
  BY <1>2 DEF e1

(* The three ways a step of a client changes the ledger.  An event that     *)
(* leads to another request is that of a response, or of a lost attempt.    *)
Written(c) == {e \in Event : e.client = c /\ e.call = call[c] /\ Good(e)}
Settled(c) == {e \in Written(c) : e.kind = "dispatch" /\ e.retry = attempt[c]}
Earns(c, e) == \/ attempt'[c] = 0 /\ e.usage = "parsed"
               \/ attempt'[c] = attempt[c] + 1 /\ Lost(e)
Appends(c) == pc[c] = "guard" /\ pc'[c] = "idle"
              /\ \E e \in Written(c) : /\ ledger' = Append(ledger, e)
                                     /\ e.kind # "dispatch" /\ e.transport = "not_dispatched"
                                     /\ e.usage = "not_attempted"
Resolves(c) == pc[c] = "sent" /\ pc'[c] \in {"idle", "store", "post"} /\ call'[c] = call[c]
               /\ \E e \in Settled(c) : Settles(c, e) /\ (pc'[c] = "post" => Earns(c, e))
Keeps(c) == pc[c] # "sent" /\ pc'[c] # "sent" /\ UNCHANGED ledger

LEMMA LoggedIsWritten ==
  ASSUME TypeOK, NEW c \in Clients, NEW kind \in {"cache_hit", "budget_refusal",
                                                  "pre_dispatch_error"}
  PROVE  Logged(c, kind) \in Written(c)
<1>1. call[c] \in Nat
  BY DEF TypeOK
<1>2. Logged(c, kind) \in Event
  BY <1>1 DEF Event, Logged, ParseStatus, AllBills, Vast
<1>3. Good(Logged(c, kind))
  BY DEF Good, Foreign, Outlandish, Vast, Accepts, Logged
<1> QED
  BY <1>2, <1>3 DEF Written, Logged

LEMMA HitIsWritten ==
  ASSUME TypeOK, NEW c \in Clients, NEW body \in ParseStatus
  PROVE  [Logged(c, "cache_hit") EXCEPT !.body = body] \in Written(c)
<1> DEFINE e == [Logged(c, "cache_hit") EXCEPT !.body = body]
<1>1. e \in Event
  BY LoggedIsWritten DEF Event, Written
<1>2. Good(e)
  BY DEF Good, Foreign, Outlandish, Vast, Accepts, Logged
<1> QED
  BY <1>1, <1>2 DEF Written, Logged

LEMMA StartedIsWritten ==
  ASSUME TypeOK, NEW c \in Clients
  PROVE  Started(c) \in Written(c)
<1>1. attempt[c] \in Nat /\ call[c] \in Nat
  BY LimitsAssumption DEF TypeOK
<1> DEFINE e0 == Logged(c, "dispatch")
           e1 == [e0 EXCEPT !.retry = attempt[c]]
<1>2. e0 \in Event
  BY <1>1 DEF Event, Logged, ParseStatus, AllBills, Vast
<1> HIDE DEF e0
<1>3. e1 \in Event
  BY <1>1, <1>2 DEF Event
<1> HIDE DEF e1
<1>4. [e1 EXCEPT !.transport = "started"] \in Event
  BY <1>3 DEF Event
<1>5. Started(c) \in Event
  BY <1>4 DEF Started, e0, e1
<1>6. Good(Started(c))
  BY <1>1 DEF Good, Foreign, Outlandish, Vast, Accepts, Logged, Started
<1> QED
  BY <1>5, <1>6 DEF Written, Started, Logged

(* What an attempt may come to. *)
LEMMA DecodedIsEvent ==
  ASSUME NEW c \in Clients, Sent(c) \in Event, NEW bill \in AllBills
  PROVE  Decoded(c, bill) \in Event
BY WriteBody DEF Decoded, Transports, StatusValues, ParseStatus

LEMMA AcceptedIsSettled ==
  ASSUME TypeOK, NEW c \in Clients, Sent(c) = Started(c), NEW bill \in AllBills
  PROVE  [Decoded(c, bill) EXCEPT !.content = "parsed", !.usage = "parsed"] \in Settled(c)
<1> DEFINE e == [Decoded(c, bill) EXCEPT !.content = "parsed", !.usage = "parsed"]
<1>1. Started(c) \in Event
  BY StartedIsWritten DEF Written
<1>2. e \in Event
  BY <1>1, DecodedIsEvent, WriteParse DEF ParseStatus
<1>3. attempt[c] \in Nat
  BY LimitsAssumption DEF TypeOK
<1>4. Good(e)
  BY <1>3 DEF Good, Foreign, Outlandish, Vast, Accepts, Decoded, Started, Logged
<1> QED
  BY <1>2, <1>4 DEF Settled, Written, Decoded, Started, Logged

LEMMA MalformedIsSettled ==
  ASSUME TypeOK, NEW c \in Clients, Sent(c) = Started(c), NEW bill \in AllBills,
         NEW content \in {"parsed", "failed"}
  PROVE  [Decoded(c, bill) EXCEPT !.content = content,
            !.usage = IF content = "parsed" THEN "failed" ELSE @] \in Settled(c)
<1> DEFINE usage == IF content = "parsed" THEN "failed" ELSE "not_attempted"
           e == [Decoded(c, bill) EXCEPT !.content = content, !.usage = usage]
<1>1. Started(c) \in Event
  BY StartedIsWritten DEF Written
<1>2. e \in Event
  BY <1>1, DecodedIsEvent, WriteParse DEF ParseStatus
<1>3. attempt[c] \in Nat
  BY LimitsAssumption DEF TypeOK
<1>4. Good(e)
  BY <1>3 DEF Good, Foreign, Outlandish, Vast, Accepts, Decoded, Started, Logged
<1>5. Decoded(c, bill).usage = "not_attempted"
  BY DEF Decoded, Started, Logged
<1>6. e \in Settled(c)
  BY <1>2, <1>4 DEF Settled, Written, Decoded, Started, Logged
<1> QED
  BY <1>5, <1>6

LEMMA UndecodableIsSettled ==
  ASSUME TypeOK, NEW c \in Clients, Sent(c) = Started(c)
  PROVE  [Decoded(c, "unknown") EXCEPT !.body = "failed"] \in Settled(c)
<1> DEFINE d == Decoded(c, "unknown")
           e == [d EXCEPT !.body = "failed"]
<1>1. Started(c) \in Event
  BY StartedIsWritten DEF Written
<1>2. d \in Event
  BY <1>1, DecodedIsEvent DEF AllBills
<1> HIDE DEF d
<1>3. e \in Event
  BY <1>2 DEF Event, ParseStatus
<1> USE DEF d
<1>4. attempt[c] \in Nat
  BY LimitsAssumption DEF TypeOK
<1>5. Good(e)
  BY <1>4 DEF Good, Foreign, Outlandish, Vast, Accepts, Decoded, Started, Logged
<1> QED
  BY <1>3, <1>5 DEF Settled, Written, Decoded, Started, Logged

LEMMA HeadIsSettled ==
  ASSUME TypeOK, NEW c \in Clients, Sent(c) = Started(c),
         NEW t \in Transports \ {"not_dispatched"}, NEW s \in StatusValues,
         t = "response_received" => s = "ok", t = "started" => s = "none",
         t = "http_error" => s \in AllStatuses,
         t # "http_error" => s \in {"ok", "none"}
  PROVE  [Sent(c) EXCEPT !.transport = t, !.status = s] \in Settled(c)
<1> DEFINE e == [Sent(c) EXCEPT !.transport = t, !.status = s]
<1>1. Started(c) \in Event
  BY StartedIsWritten DEF Written
<1>2. e \in Event
  BY <1>1, WriteHead
<1>3. attempt[c] \in Nat
  BY LimitsAssumption DEF TypeOK
<1>4. Good(e)
  BY <1>3 DEF Good, Foreign, Outlandish, Vast, Accepts, Started, Logged, AllStatuses, Transports
<1> QED
  BY <1>2, <1>4 DEF Settled, Written, Started, Logged

LEMMA EscapedIsSettled ==
  ASSUME TypeOK, NEW c \in Clients, Sent(c) = Started(c),
         NEW end \in [transport : {"http_error"}, status : AllStatuses, received : BOOLEAN]
                  \cup [transport : {"started"}, status : {"none"}, received : {FALSE}]
                  \cup [transport : {"response_received"}, status : {"ok"}, received : BOOLEAN]
  PROVE  [Sent(c) EXCEPT !.transport = end.transport, !.status = end.status,
                         !.received = end.received] \in Settled(c)
<1> DEFINE t == end.transport
           s == end.status
           r == end.received
           head == [Sent(c) EXCEPT !.transport = t, !.status = s]
           e == [head EXCEPT !.received = r]
<1>1. /\ t \in {"http_error", "started", "response_received"} /\ r \in BOOLEAN
      /\ s \in AllStatuses \cup {"ok", "none"}
      /\ t = "http_error" => s \in AllStatuses
      /\ t = "started" => s = "none" /\ ~r
      /\ t = "response_received" => s = "ok"
  OBVIOUS
<1> HIDE DEF t, s, r
<1>2. head \in Settled(c)
  BY <1>1, HeadIsSettled DEF Transports, StatusValues
<1>3. e \in Event
  <2>1. head \in Event
    BY <1>2 DEF Settled, Written
  <2> HIDE DEF head
  <2> QED
    BY <1>1, <2>1 DEF Event
<1>4. attempt[c] \in Nat
  BY LimitsAssumption DEF TypeOK
<1>5. Good(e)
  BY <1>1, <1>4 DEF Good, Foreign, Outlandish, Vast, Accepts, Started, Logged, AllStatuses
<1>6. e \in Settled(c)
  BY <1>3, <1>5 DEF Settled, Written, Started, Logged
<1> QED
  BY <1>6 DEF t, s, r

LEMMA ErrorIsSettled ==
  ASSUME TypeOK, NEW c \in Clients, Sent(c) = Started(c), NEW s \in AllStatuses,
         NEW body \in {"parsed", "failed"}, NEW bill \in AllBills,
         body = "failed" => bill = "unknown"
  PROVE  [Sent(c) EXCEPT !.transport = "http_error", !.status = s, !.received = TRUE,
                         !.body = body, !.debit = bill] \in Settled(c)
<1> DEFINE e == [Sent(c) EXCEPT !.transport = "http_error", !.status = s, !.received = TRUE,
                                !.body = body, !.debit = bill]
<1>1. Started(c) \in Event
  BY StartedIsWritten DEF Written
<1>2. e \in Event
  BY <1>1, WriteBody DEF Transports, StatusValues, ParseStatus
<1>3. attempt[c] \in Nat
  BY LimitsAssumption DEF TypeOK
<1>4. Good(e)
  BY <1>3 DEF Good, Foreign, Outlandish, Vast, Accepts, Started, Logged, AllStatuses
<1> QED
  BY <1>2, <1>4 DEF Settled, Written, Started, Logged
-----------------------------------------------------------------------------
(* A step of one client leaves the others where they are.                   *)
Elsewhere(c) ==
  \A d \in Clients : d # c =>
    /\ pc'[d] = pc[d] /\ call'[d] = call[d] /\ left'[d] = left[d]
    /\ attempt'[d] = attempt[d] /\ current'[d] = current[d] /\ books'[d] = books[d]

LEMMA StepIsLocal == ASSUME TypeOK, NEW c \in Clients, Step(c) PROVE Elsewhere(c)
BY DEF Step, Begin, RefuseBudget, NeverDispatches, CacheHit, CacheMiss, Post, Accept, Malformed,
     Undecodable, Lose, HttpError, Escape, Store, RetryOr, Goto, Ends, TypeOK, Elsewhere

(* Every step writes the ledger in one of the four ways.                    *)
LEMMA StepWrites ==
  ASSUME TypeOK, SentInv, NEW c \in Clients, Step(c)
  PROVE  Keeps(c) \/ Appends(c) \/ Resolves(c) \/ Post(c)
<1> USE DEF Goto, Ends, TypeOK
<1>1. CASE Begin(c) \/ CacheMiss(c) \/ Store(c)
  BY <1>1 DEF Begin, CacheMiss, Store, Keeps
<1>2. CASE RefuseBudget(c) \/ NeverDispatches(c)
  <2>1. CASE UNCHANGED ledger
    BY <1>2, <2>1 DEF RefuseBudget, NeverDispatches, Keeps
  <2>2. CASE \E kind \in {"budget_refusal", "pre_dispatch_error"} :
               ledger' = Append(ledger, Logged(c, kind))
    <3>1. PICK kind \in {"budget_refusal", "pre_dispatch_error"} :
            ledger' = Append(ledger, Logged(c, kind))
      BY <2>2
    <3>2. /\ Logged(c, kind).kind # "dispatch" /\ Logged(c, kind).transport = "not_dispatched"
          /\ Logged(c, kind).usage = "not_attempted" /\ Logged(c, kind) \in Written(c)
      BY LoggedIsWritten DEF Logged
    <3>3. pc[c] = "guard" /\ pc'[c] = "idle"
      BY <1>2 DEF RefuseBudget, NeverDispatches
    <3> QED
      BY <3>1, <3>2, <3>3 DEF Appends
  <2> QED
    BY <1>2, <2>1, <2>2 DEF RefuseBudget, NeverDispatches
<1>3. CASE CacheHit(c)
  <2>1. PICK body \in {"parsed", "failed"} :
          ledger' = Append(ledger, [Logged(c, "cache_hit") EXCEPT !.body = body])
    BY <1>3 DEF CacheHit
  <2> DEFINE e == [Logged(c, "cache_hit") EXCEPT !.body = body]
  <2>2. e.kind # "dispatch" /\ e.transport = "not_dispatched" /\ e.usage = "not_attempted"
    BY DEF Logged
  <2>3. e \in Written(c) /\ ledger' = Append(ledger, e)
    BY <2>1, HitIsWritten DEF ParseStatus
  <2>4. pc[c] = "guard" /\ pc'[c] = "idle"
    BY <1>3 DEF CacheHit
  <2> HIDE DEF e
  <2> QED
    BY <2>2, <2>3, <2>4 DEF Appends
<1>4. CASE Post(c)
  BY <1>4
<1> SUFFICES ASSUME Accept(c) \/ Malformed(c) \/ Undecodable(c) \/ Lose(c)
                      \/ HttpError(c) \/ Escape(c)
             PROVE  Resolves(c)
  BY <1>1, <1>2, <1>3, <1>4 DEF Step
<1>5. /\ pc[c] = "sent" /\ Sent(c) = Started(c) /\ call'[c] = call[c]
      /\ pc'[c] \in {"idle", "store", "post"}
  BY DEF Accept, Malformed, Undecodable, Lose, HttpError, Escape, RetryOr, SentInv
<1>b. Bills \subseteq AllBills /\ Statuses \subseteq AllStatuses
  BY ProviderAssumption
<1>a. attempt[c] \in Nat
  BY LimitsAssumption
<1> SUFFICES \E e \in Settled(c) : Settles(c, e) /\ (pc'[c] = "post" => Earns(c, e))
  BY <1>5 DEF Resolves
<1>6. CASE Accept(c)
  <2>1. PICK bill \in Bills :
          Settles(c, [Decoded(c, bill) EXCEPT !.content = "parsed", !.usage = "parsed"])
    BY <1>6 DEF Accept
  <2> DEFINE e == [Decoded(c, bill) EXCEPT !.content = "parsed", !.usage = "parsed"]
  <2>2. e \in Settled(c)
    BY <1>5, <1>b, AcceptedIsSettled
  <2>3. e.usage = "parsed"
    BY <1>5 DEF Decoded, Started, Logged
  <2>4. attempt'[c] = 0
    BY <1>6 DEF Accept
  <2> QED
    BY <2>1, <2>2, <2>3, <2>4 DEF Earns
<1>7. CASE Malformed(c)
  <2>1. pc'[c] = "idle"
    BY <1>7 DEF Malformed
  <2> QED
    BY <1>5, <1>7, <1>b, <2>1, MalformedIsSettled DEF Malformed
<1>8. CASE Undecodable(c)
  <2>1. pc'[c] = "idle"
    BY <1>8 DEF Undecodable
  <2> QED
    BY <1>5, <1>8, <2>1, UndecodableIsSettled DEF Undecodable
<1>r. ASSUME NEW how, RetryOr(c, how), pc'[c] = "post" PROVE attempt'[c] = attempt[c] + 1
  BY <1>a, <1>r DEF RetryOr
<1>9. CASE Lose(c)
  <2>1. PICK loss \in Losses :
          /\ Settles(c, [Sent(c) EXCEPT !.transport = loss.transport, !.status = loss.status])
          /\ RetryOr(c, loss.how)
    BY <1>9 DEF Lose
  <2> DEFINE e == [Sent(c) EXCEPT !.transport = loss.transport, !.status = loss.status]
  <2>2. e \in Settled(c)
    BY <1>5, HeadIsSettled DEF Losses, Transports, StatusValues
  <2>3. Lost(e)
    BY <1>5 DEF Lost, Losses, Started, Logged
  <2>4. pc'[c] = "post" => attempt'[c] = attempt[c] + 1
    BY <1>r, <2>1
  <2> QED
    BY <2>1, <2>2, <2>3, <2>4 DEF Earns
<1>10. CASE HttpError(c)
  <2>1. PICK status \in Statuses, body \in {"parsed", "failed"}, bill \in Bills :
          /\ body = "failed" => bill = "unknown"
          /\ Settles(c, [Sent(c) EXCEPT !.transport = "http_error", !.status = status,
                           !.received = TRUE, !.body = body, !.debit = bill])
          /\ IF Transient(status) THEN RetryOr(c, Raised(status))
             ELSE Ends(c, Raised(status)) /\ UNCHANGED attempt
    BY <1>10 DEF HttpError
  <2> DEFINE e == [Sent(c) EXCEPT !.transport = "http_error", !.status = status,
                           !.received = TRUE, !.body = body, !.debit = bill]
  <2>2. e \in Settled(c)
    BY <1>5, <1>b, <2>1, ErrorIsSettled
  <2>3. pc'[c] = "post" => Transient(status)
    BY <2>1
  <2>4. Transient(status) => Lost(e)
    BY <1>5 DEF Lost, Transient, Started, Logged
  <2>5. pc'[c] = "post" => attempt'[c] = attempt[c] + 1
    BY <1>r, <2>1, <2>3
  <2> QED
    BY <2>1, <2>2, <2>3, <2>4, <2>5 DEF Earns
<1>11. CASE Escape(c)
  <2>1. PICK end \in [transport : {"http_error"}, status : Statuses, received : BOOLEAN]
                  \cup [transport : {"started"}, status : {"none"}, received : {FALSE}]
                  \cup [transport : {"response_received"}, status : {"ok"}, received : BOOLEAN] :
          Settles(c, [Sent(c) EXCEPT !.transport = end.transport, !.status = end.status,
                                     !.received = end.received])
    BY <1>11 DEF Escape
  <2>2. pc'[c] = "idle"
    BY <1>11 DEF Escape
  <2> QED
    BY <1>5, <1>b, <2>1, <2>2, EscapedIsSettled
<1> QED
  BY <1>6, <1>7, <1>8, <1>9, <1>10, <1>11

-----------------------------------------------------------------------------
LEMMA InitIInv == Init => IInv
<1> SUFFICES ASSUME Init PROVE IInv
  OBVIOUS
<1>1. TypeOK
  BY LimitsAssumption DEF Init, TypeOK, Books, Outcomes
<1> QED
  BY <1>1 DEF Init, IInv, SentInv, LeftInv, ReadableUnlessForeign

(* The ledger stays a list of events, and of events its reader accepts.     *)
LEMMA LedgerStep ==
  ASSUME IInv, NEW c \in Clients, Step(c)
  PROVE  ledger' \in Seq(Event) /\ ReadableUnlessForeign'
<1>1. ledger \in Seq(Event) /\ \A k \in 1..Len(ledger) : Good(ledger[k])
  BY DEF IInv, TypeOK, ReadableUnlessForeign, Good
<1>2. SUFFICES ledger' \in Seq(Event) /\ \A k \in 1..Len(ledger') : Good(ledger'[k])
  BY DEF ReadableUnlessForeign, Good
<1>3. ASSUME NEW e \in Written(c), ledger' = Append(ledger, e)
      PROVE  ledger' \in Seq(Event) /\ \A k \in 1..Len(ledger') : Good(ledger'[k])
  BY <1>1, <1>3 DEF Written
<1>4. ASSUME NEW e \in Written(c), pc[c] = "sent", Settles(c, e)
      PROVE  ledger' \in Seq(Event) /\ \A k \in 1..Len(ledger') : Good(ledger'[k])
  <2>1. current[c] \in 1..Len(ledger)
    BY <1>4 DEF IInv, SentInv
  <2> QED
    BY <1>1, <1>4, <2>1 DEF Settles, Written
<1>5. CASE Keeps(c)
  BY <1>1, <1>5 DEF Keeps
<1>6. CASE Appends(c)
  BY <1>3, <1>6 DEF Appends
<1>7. CASE Resolves(c)
  BY <1>4, <1>7 DEF Resolves, Settled
<1>8. CASE Post(c)
  BY <1>3, <1>8, StartedIsWritten DEF Post, Started, IInv
<1> QED
  BY <1>5, <1>6, <1>7, <1>8, StepWrites DEF IInv

LEMMA RaisedIsOutcome == ASSUME NEW s \in AllStatuses PROVE Raised(s) \in Outcomes
BY DEF AllStatuses, Raised, Outcomes

LEMMA RetryTypes ==
  ASSUME TypeOK, NEW c \in Clients, NEW how \in Outcomes, RetryOr(c, how)
  PROVE  /\ pc' \in [Clients -> {"idle", "guard", "post", "sent", "store"}]
         /\ outcome' \in [Clients -> Outcomes]
         /\ attempt' \in [Clients -> 0..MaxAttempts - 1]
         /\ pc'[c] = "post" => pc[c] = "sent"
         /\ pc'[c] # "sent"
<1>1. CASE attempt[c] = MaxAttempts - 1
  BY <1>1 DEF RetryOr, Ends, TypeOK
<1>2. CASE attempt[c] # MaxAttempts - 1
  <2>1. attempt[c] + 1 \in 0..MaxAttempts - 1
    <3>1. attempt[c] \in 0..MaxAttempts - 1 /\ MaxAttempts \in Nat
      BY LimitsAssumption DEF TypeOK
    <3> QED
      BY <1>2, <3>1
  <2> QED
    BY <1>2, <2>1 DEF RetryOr, Goto, TypeOK
<1> QED
  BY <1>1, <1>2

LEMMA BilledTypes ==
  ASSUME NEW book \in Books, NEW bill
  PROVE  Billed(book, bill) \in Books
<1> DEFINE b1 == [book EXCEPT !.responses = @ + 1]
           b2 == [b1 EXCEPT !.complete = @ /\ bill # "unknown"]
<1>1. b1 \in Books
  BY DEF Books
<1> HIDE DEF b1
<1>2. b2 \in Books
  <2>1. (b1.complete /\ bill # "unknown") \in BOOLEAN
    OBVIOUS
  <2> QED
    BY <1>1, <2>1 DEF Books
<1> HIDE DEF b2
<1>3. [b2 EXCEPT !.credits = IF bill \in Credit THEN @ + 1 ELSE @] \in Books
  BY <1>2 DEF Books
<1> QED
  BY <1>3 DEF Billed, b1, b2

LEMMA AccountedTypes ==
  ASSUME NEW book \in Books, NEW bill
  PROVE  Accounted(book, bill) \in Books
BY BilledTypes DEF Accounted, Books

LEMMA TypeStep == ASSUME IInv, NEW c \in Clients, Step(c) PROVE TypeOK' /\ LeftInv'
<1>p. TypeOK /\ LeftInv
  BY DEF IInv
<1>q. ledger' \in Seq(Event)
  BY LedgerStep
<1>r. Len(ledger) \in Nat
  BY <1>p DEF TypeOK
<1>0. TypeOK /\ LeftInv /\ ledger' \in Seq(Event) /\ Len(ledger) \in Nat
  BY <1>p, <1>q, <1>r
<1>a. Copies \in Nat /\ MaxAttempts \in Nat /\ 0 \in 0..MaxAttempts - 1
  BY LimitsAssumption
<1>1. CASE Begin(c)
  BY <1>0, <1>a, <1>1 DEF Begin, Goto, TypeOK, LeftInv, Outcomes
<1>2. CASE RefuseBudget(c) \/ NeverDispatches(c)
  BY <1>0, <1>2 DEF RefuseBudget, NeverDispatches, Ends, TypeOK, LeftInv, Outcomes
<1>3. CASE CacheHit(c) \/ Store(c)
  BY <1>0, <1>3 DEF CacheHit, Store, Ends, TypeOK, LeftInv, Outcomes
<1>4. CASE CacheMiss(c)
  BY <1>0, <1>a, <1>4 DEF CacheMiss, Goto, TypeOK, LeftInv
<1>5. CASE Post(c)
  BY <1>0, <1>5 DEF Post, Goto, TypeOK, LeftInv
<1>6. CASE Accept(c)
  <2>1. PICK bill : books' = [books EXCEPT ![c] = Accounted(books[c], bill)]
    BY <1>6 DEF Accept
  <2>2. Accounted(books[c], bill) \in Books
    BY <1>0, AccountedTypes DEF TypeOK
  <2>3. books' \in [Clients -> Books]
    BY <1>0, <2>1, <2>2 DEF TypeOK
  <2>4. left[c] \in Nat /\ left[c] >= 1
    BY <1>0, <1>6 DEF Accept, Goto, LeftInv, TypeOK
  <2>5. left' = [left EXCEPT ![c] = left[c] - 1] /\ left[c] - 1 \in Nat
    BY <1>6, <2>4 DEF Accept
  <2>6. left' \in [Clients -> Nat]
    BY <1>0, <2>5 DEF TypeOK
  <2>7. /\ pc' \in [Clients -> {"idle", "guard", "post", "sent", "store"}]
        /\ pc'[c] = "post" => left[c] # 1
        /\ pc'[c] \in {"post", "store"}
        /\ \A d \in Clients : d # c => pc'[d] = pc[d]
    BY <1>0, <1>6 DEF Accept, Goto, TypeOK
  <2>8. LeftInv'
    <3>1. left'[c] = left[c] - 1 /\ \A d \in Clients : d # c => left'[d] = left[d]
      BY <1>0, <2>5 DEF TypeOK
    <3>2. pc'[c] = "post" => left'[c] >= 1
      BY <2>4, <2>7, <3>1
    <3> QED
      BY <1>0, <2>7, <3>1, <3>2 DEF LeftInv
  <2>9. attempt' \in [Clients -> 0..MaxAttempts - 1]
    BY <1>0, <1>a, <1>6 DEF Accept, TypeOK
  <2>10. UNCHANGED <<call, before, asked, current, outcome>>
    BY <1>6 DEF Accept
  <2> QED
    BY <1>0, <2>3, <2>6, <2>7, <2>8, <2>9, <2>10 DEF TypeOK
<1>7. CASE Malformed(c)
  <2>1. PICK bill : books' = [books EXCEPT ![c] = Billed(books[c], bill)]
    BY <1>7 DEF Malformed
  <2>2. books' \in [Clients -> Books]
    BY <1>0, <2>1, BilledTypes DEF TypeOK
  <2> QED
    BY <1>0, <1>7, <2>2 DEF Malformed, Ends, TypeOK, LeftInv, Outcomes
<1>8. CASE Undecodable(c) \/ Escape(c)
  BY <1>0, <1>8 DEF Undecodable, Escape, Ends, TypeOK, LeftInv, Outcomes
<1>9. ASSUME NEW how \in Outcomes, RetryOr(c, how), pc[c] = "sent",
             UNCHANGED <<call, before, asked, left, current, books>>
      PROVE  TypeOK' /\ LeftInv'
  <2>1. \A d \in Clients : pc'[d] \in {"post", "sent"} => pc[d] \in {"post", "sent"}
    BY <1>9 DEF RetryOr, Ends, Goto, IInv, TypeOK
  <2> QED
    BY <1>0, <1>9, <2>1, RetryTypes DEF TypeOK, LeftInv
<1>10. CASE Lose(c)
  <2>1. PICK loss \in Losses : RetryOr(c, loss.how)
    BY <1>10 DEF Lose
  <2>2. loss.how \in Outcomes
    BY DEF Losses, Outcomes
  <2> QED
    BY <1>9, <1>10, <2>1, <2>2 DEF Lose
<1>11. CASE HttpError(c)
  <2>1. PICK s \in Statuses : IF Transient(s) THEN RetryOr(c, Raised(s))
                              ELSE Ends(c, Raised(s)) /\ UNCHANGED attempt
    BY <1>11 DEF HttpError
  <2>2. Raised(s) \in Outcomes
    BY ProviderAssumption, RaisedIsOutcome
  <2>3. CASE Transient(s)
    BY <1>9, <1>11, <2>1, <2>2, <2>3 DEF HttpError
  <2>4. CASE ~Transient(s)
    BY <1>0, <1>11, <2>1, <2>2, <2>4 DEF HttpError, Ends, TypeOK, LeftInv
  <2> QED
    BY <2>3, <2>4
<1> QED
  BY <1>1, <1>2, <1>3, <1>4, <1>5, <1>6, <1>7, <1>8, <1>10, <1>11 DEF Step

(* An attempt under way keeps its event, whatever the other clients log.    *)
LEMMA SentStep == ASSUME IInv, NEW c \in Clients, Step(c) PROVE SentInv'
<1>0. TypeOK /\ SentInv /\ Elsewhere(c) /\ ledger \in Seq(Event)
  BY StepIsLocal DEF IInv, TypeOK
<1> SUFFICES ASSUME NEW d \in Clients, pc'[d] = "sent"
             PROVE  current'[d] \in 1..Len(ledger') /\ Sent(d)' = Started(d)'
  BY DEF SentInv
<1>1. CASE d = c
  <2>1. Post(c)
    BY <1>0, <1>1, StepWrites DEF Keeps, Appends, Resolves
  <2> QED
    BY <1>0, <1>1, <2>1 DEF Post, Sent, Started, Logged, TypeOK
<1>2. CASE d # c
  <2>1. /\ pc[d] = "sent" /\ current'[d] = current[d] /\ Started(d)' = Started(d)
        /\ current[d] \in 1..Len(ledger) /\ ledger[current[d]] = Started(d)
        /\ Started(d).client = d
    BY <1>0, <1>2 DEF Elsewhere, SentInv, Sent, Started, Logged
  <2>2. SUFFICES current[d] \in 1..Len(ledger') /\ ledger'[current[d]] = ledger[current[d]]
    BY <2>1 DEF Sent
  <2>3. ASSUME NEW e, ledger' = Append(ledger, e)
        PROVE  current[d] \in 1..Len(ledger') /\ ledger'[current[d]] = ledger[current[d]]
    BY <1>0, <2>1, <2>3
  <2>4. CASE Resolves(c)
    <3>1. current[c] \in 1..Len(ledger) /\ ledger[current[c]].client = c
      BY <1>0, <2>4 DEF Resolves, SentInv, Sent, Started, Logged
    <3>2. current[c] # current[d]
      BY <1>2, <2>1, <3>1
    <3> QED
      BY <1>0, <2>1, <2>4, <3>1, <3>2 DEF Resolves, Settles
  <2> QED
    BY <1>0, <2>1, <2>3, <2>4, StepWrites DEF Keeps, Appends, Post
<1> QED
  BY <1>1, <1>2

LEMMA NextIInv == IInv /\ [Next]_vars => IInv'
<1> SUFFICES ASSUME IInv, [Next]_vars PROVE IInv'
  OBVIOUS
<1>1. CASE UNCHANGED vars
  BY <1>1 DEF vars, IInv, TypeOK, SentInv, Sent, Started, Logged, LeftInv,
     ReadableUnlessForeign
<1>2. ASSUME NEW c \in Clients, Step(c) PROVE IInv'
  BY <1>2, LedgerStep, TypeStep, SentStep DEF IInv
<1> QED
  BY <1>1, <1>2 DEF Next

THEOREM Invariant == Spec => []IInv
BY InitIInv, NextIInv, PTL DEF Spec

(* Every variable keeps its type: in particular no retry index reaches      *)
(* max_attempts (the loop of _post).                                        *)
THEOREM TypeCorrect == Spec => []TypeOK
<1>1. IInv => TypeOK
  BY DEF IInv
<1> QED
  BY <1>1, Invariant, PTL

(* Whatever becomes of the calls of any number of clients, their reader     *)
(* accepts all they log but HTTP errors outside 400..599 and vast bills     *)
(* (_event, _post and _complete against _validate_ledger_event).            *)
THEOREM LedgersAreReadable == Spec => []ReadableUnlessForeign
<1>1. IInv => ReadableUnlessForeign
  BY DEF IInv
<1> QED
  BY <1>1, Invariant, PTL
-----------------------------------------------------------------------------
(* Retries.  Where a client is in its call says what the call has logged:   *)
(* nothing at the guard, before an attempt what earned it, and with a       *)
(* request on its way the event of that request last.                       *)
CallEvents(c) == OfCall(c, call[c])
LastOf(c) == ledger[Latest(CallEvents(c))]
CallIsAt(c) ==
  /\ pc[c] = "guard" => CallEvents(c) = {} /\ attempt[c] = 0
  /\ pc[c] = "post" /\ attempt[c] = 0 /\ CallEvents(c) # {} => LastOf(c).usage = "parsed"
  /\ pc[c] = "post" /\ attempt[c] # 0 =>
       CallEvents(c) # {} /\ Lost(LastOf(c)) /\ LastOf(c).retry = attempt[c] - 1
  /\ pc[c] = "sent" => \A k \in CallEvents(c) : k <= current[c]

CallsAreOver == \A c \in Clients : \A k \in Events(c) : ledger[k].call <= call[c]
RetryInv == CallsAreOver /\ (\A c \in Clients : CallIsAt(c)) /\ RetriesEarned

(* RetriesEarned, of one event. *)
Before(l) == {k \in OfCall(ledger[l].client, ledger[l].call) : k < l}
Earned(l) ==
  ledger[l].kind = "dispatch" =>
    /\ ledger[l].retry < MaxAttempts
    /\ IF ledger[l].retry = 0
         THEN Before(l) # {} => ledger[Latest(Before(l))].usage = "parsed"
         ELSE /\ Before(l) # {} /\ Lost(ledger[Latest(Before(l))])
              /\ ledger[Latest(Before(l))].retry = ledger[l].retry - 1

LEMMA EachIsEarned == RetriesEarned <=> \A l \in 1..Len(ledger) : Earned(l)
BY DEF RetriesEarned, Earned, Before

(* Places in a ledger that are not none have a latest among them. *)
LEMMA LatestIs ==
  ASSUME NEW S \in SUBSET Nat, NEW k \in S, \A l \in S : l <= k
  PROVE  Latest(S) = k
<1>1. \E j \in S : \A l \in S : l <= j
  OBVIOUS
<1>2. Latest(S) \in S /\ \A l \in S : l <= Latest(S)
  BY <1>1 DEF Latest
<1>3. Latest(S) \in Nat /\ k \in Nat /\ k <= Latest(S) /\ Latest(S) <= k
  BY <1>2
<1> QED
  BY <1>3

LEMMA LatestExists ==
  ASSUME NEW n \in Nat, NEW S \in SUBSET (1..n), S # {}
  PROVE  Latest(S) \in S
<1> DEFINE T == {n - k : k \in S}
<1>1. T \in SUBSET Nat /\ T # {}
  <2>1. \A k \in S : n - k \in Nat
    OBVIOUS
  <2> QED
    BY <2>1
<1>2. PICK x \in T : \A y \in T : ~(<<y, x>> \in OpToRel(<, Nat))
  BY <1>1, WFMin, NatLessThanWellFounded
<1>3. \A y \in T : y \in Nat /\ x \in Nat /\ ~(y < x)
  BY <1>1, <1>2, Zenon DEF OpToRel
<1>4. PICK k \in S : x = n - k
  BY <1>2
<1>5. \A l \in S : l <= k
  <2> TAKE l \in S
  <2>1. n - l \in T
    OBVIOUS
  <2> QED
    BY <1>3, <1>4, <2>1
<1> QED
  BY <1>5, LatestIs

LEMMA PlacesOfCall ==
  ASSUME ledger \in Seq(Event), NEW c, NEW n
  PROVE  Len(ledger) \in Nat /\ OfCall(c, n) \in SUBSET (1..Len(ledger))
BY DEF OfCall, Events

(* An event is still earned when no event of its call before it changes. *)
LEMMA EarnedStays ==
  ASSUME ledger \in Seq(Event), Len(ledger') \in Nat, Len(ledger) <= Len(ledger'),
         NEW l \in 1..Len(ledger), Earned(l),
         \A k \in 1..Len(ledger) :
           ledger'[k].client = ledger[k].client /\ ledger'[k].call = ledger[k].call,
         ledger'[l].kind = ledger[l].kind, ledger'[l].retry = ledger[l].retry,
         \A k \in Before(l) : ledger'[k] = ledger[k]
  PROVE  Earned(l)'
<1>1. Before(l) \in SUBSET (1..Len(ledger)) /\ Len(ledger) \in Nat
  BY PlacesOfCall DEF Before
<1>2. Before(l)' = Before(l)
  BY DEF Before, OfCall, Events
<1>3. Before(l) # {} => ledger'[Latest(Before(l))] = ledger[Latest(Before(l))]
  BY <1>1, LatestExists
<1> DEFINE p == Latest(Before(l))
<1>4. Latest(Before(l))' = p
  BY <1>2 DEF Latest
<1> HIDE DEF p
<1> QED
  BY <1>2, <1>3, <1>4 DEF Earned, Lost, p

(* A client appends to its own call: it changes no place of another's call. *)
LEMMA AppendPlaces ==
  ASSUME ledger \in Seq(Event), NEW c \in Clients, NEW e \in Written(c),
         ledger' = Append(ledger, e), NEW d, NEW n
  PROVE  /\ OfCall(d, n)' = IF d = c /\ n = call[c] THEN OfCall(d, n) \cup {Len(ledger) + 1}
                            ELSE OfCall(d, n)
         /\ Len(ledger') = Len(ledger) + 1 /\ ledger'[Len(ledger) + 1] = e
         /\ \A k \in 1..Len(ledger) : ledger'[k] = ledger[k]
<1>1. /\ Len(ledger') = Len(ledger) + 1 /\ ledger'[Len(ledger) + 1] = e /\ Len(ledger) \in Nat
      /\ \A k \in 1..Len(ledger) : ledger'[k] = ledger[k]
      /\ e.client = c /\ e.call = call[c]
  BY DEF Written
<1> QED
  BY <1>1 DEF OfCall, Events

LEMMA ResolvePlaces ==
  ASSUME ledger \in Seq(Event), SentInv, NEW c \in Clients, NEW e \in Written(c),
         pc[c] = "sent", Settles(c, e), NEW d, NEW n
  PROVE  /\ OfCall(d, n)' = OfCall(d, n)
         /\ Len(ledger') = Len(ledger) /\ ledger'[current[c]] = e
         /\ current[c] \in OfCall(c, call[c])
         /\ \A k \in 1..Len(ledger) : k # current[c] => ledger'[k] = ledger[k]
<1>1. /\ current[c] \in 1..Len(ledger) /\ ledger[current[c]].client = c
      /\ ledger[current[c]].call = call[c]
  BY DEF SentInv, Sent, Started, Logged
<1>2. /\ Len(ledger') = Len(ledger) /\ ledger'[current[c]] = e
      /\ \A k \in 1..Len(ledger) : k # current[c] => ledger'[k] = ledger[k]
      /\ e.client = c /\ e.call = call[c]
  BY <1>1 DEF Settles, Written
<1> QED
  BY <1>1, <1>2 DEF OfCall, Events

LEMMA RetriesStep ==
  ASSUME IInv, RetryInv, NEW c \in Clients, Step(c)
  PROVE  RetriesEarned'
<1>0. /\ TypeOK /\ SentInv /\ ledger \in Seq(Event) /\ ledger' \in Seq(Event)
      /\ Len(ledger) \in Nat /\ Len(ledger') \in Nat
      /\ RetriesEarned /\ CallIsAt(c)
  <2>1. TypeOK /\ SentInv /\ RetriesEarned /\ CallIsAt(c)
    BY DEF IInv, RetryInv
  <2>2. ledger \in Seq(Event) /\ ledger' \in Seq(Event)
    BY <2>1, LedgerStep DEF TypeOK
  <2> QED
    BY <2>1, <2>2
<1>e. (RetriesEarned <=> \A l \in 1..Len(ledger) : Earned(l))'
  BY EachIsEarned, PTL
<1> SUFFICES ASSUME NEW l \in 1..Len(ledger')
             PROVE  Earned(l)'
  BY <1>e
<1>1. CASE Keeps(c)
  <2>1. l \in 1..Len(ledger) /\ Earned(l) /\ UNCHANGED ledger
    BY <1>0, <1>1, EachIsEarned DEF Keeps
  <2> QED
    BY <1>0, <2>1, EarnedStays
<1>2. ASSUME NEW e \in Written(c), ledger' = Append(ledger, e), l # Len(ledger) + 1
      PROVE  Earned(l)'
  <2>1. /\ Len(ledger') = Len(ledger) + 1
        /\ \A k \in 1..Len(ledger) : ledger'[k] = ledger[k]
    BY <1>0, <1>2, AppendPlaces
  <2>2. l \in 1..Len(ledger) /\ Earned(l)
    BY <1>0, <1>2, <2>1, EachIsEarned
  <2>3. \A k \in Before(l) : ledger'[k] = ledger[k]
    BY <1>0, <2>1, PlacesOfCall DEF Before
  <2> QED
    BY <1>0, <2>1, <2>2, <2>3, EarnedStays
<1>3. CASE Appends(c)
  <2>1. PICK e \in Written(c) : e.kind # "dispatch" /\ ledger' = Append(ledger, e)
    BY <1>3 DEF Appends
  <2>2. ledger'[Len(ledger) + 1] = e
    BY <1>0, <2>1, AppendPlaces
  <2> QED
    BY <1>2, <2>1, <2>2 DEF Earned
<1>4. CASE Post(c)
  <2> DEFINE new == Len(ledger) + 1
  <2>1. /\ Started(c) \in Written(c) /\ ledger' = Append(ledger, Started(c))
        /\ pc[c] = "post"
    BY <1>0, <1>4, StartedIsWritten DEF Post, Started, Goto
  <2>2. /\ ledger'[new] = Started(c)
        /\ \A k \in 1..Len(ledger) : ledger'[k] = ledger[k]
        /\ OfCall(c, call[c])' \subseteq CallEvents(c) \cup {new}
    <3>1. UNCHANGED call
      BY <1>4 DEF Post
    <3> DEFINE n == call[c]
    <3>2. /\ ledger'[new] = Started(c)
          /\ \A k \in 1..Len(ledger) : ledger'[k] = ledger[k]
      BY <1>0, <2>1, AppendPlaces
    <3>3. ASSUME NEW n0, n0 = call[c]
          PROVE  OfCall(c, n0)' = OfCall(c, n0) \cup {new}
      BY <1>0, <2>1, <3>3, AppendPlaces
    <3>4. \A k \in OfCall(c, call[c])' : k \in OfCall(c, call[c]) \cup {new}
      BY <3>1, <3>3 DEF OfCall, Events
    <3> QED
      BY <3>2, <3>4 DEF CallEvents
  <2>3. CASE l = new
    <3>1. /\ ledger'[l].kind = "dispatch" /\ ledger'[l].retry = attempt[c]
          /\ ledger'[l].client = c /\ ledger'[l].call = call[c]
      BY <2>2, <2>3 DEF Started, Logged
    <3>2. Before(l)' = CallEvents(c)
      <4>1. CallEvents(c) \in SUBSET (1..Len(ledger))
        BY <1>0, PlacesOfCall DEF CallEvents
      <4>2. ASSUME NEW n0, n0 = call[c]
            PROVE  OfCall(c, n0)' = OfCall(c, n0) \cup {new}
        BY <1>0, <2>1, <4>2, AppendPlaces
      <4>3. Before(l)' = {k \in CallEvents(c) \cup {new} : k < l}
        BY <3>1, <4>2 DEF Before, CallEvents, OfCall, Events
      <4>4. (\A k \in CallEvents(c) : k < l) /\ ~(new < l)
        BY <1>0, <2>3, <4>1
      <4> HIDE DEF new
      <4> QED
        BY <4>3, <4>4
    <3>3. CallEvents(c) # {} => Latest(CallEvents(c)) \in 1..Len(ledger)
      BY <1>0, PlacesOfCall, LatestExists DEF CallEvents
    <3>4. CallEvents(c) # {} => ledger'[Latest(CallEvents(c))] = LastOf(c)
      BY <2>2, <3>3 DEF LastOf
    <3> DEFINE p == Latest(CallEvents(c))
    <3>5. Latest(Before(l))' = p
      BY <3>2 DEF Latest
    <3>6. attempt[c] \in 0..MaxAttempts - 1 /\ MaxAttempts \in Nat
      BY <1>0, LimitsAssumption DEF TypeOK
    <3> HIDE DEF p
    <3>7. (CallEvents(c) # {} => ledger'[p] = LastOf(c))
      BY <3>4 DEF p
    <3>8. CASE attempt[c] = 0
      <4>1. CallEvents(c) # {} => ledger'[p].usage = "parsed"
        BY <1>0, <2>1, <3>7, <3>8 DEF CallIsAt
      <4> QED
        BY <3>1, <3>2, <3>5, <3>6, <3>8, <4>1 DEF Earned
    <3>9. CASE attempt[c] # 0
      <4>1. CallEvents(c) # {} /\ Lost(LastOf(c)) /\ LastOf(c).retry = attempt[c] - 1
        BY <1>0, <2>1, <3>9 DEF CallIsAt
      <4>2. Lost(ledger[Latest(Before(l))])' /\ ledger'[p] = LastOf(c)
        BY <3>5, <3>7, <4>1 DEF Lost
      <4> QED
        BY <3>1, <3>2, <3>5, <3>6, <3>9, <4>1, <4>2 DEF Earned
    <3> QED
      BY <3>8, <3>9
  <2> QED
    BY <1>2, <2>1, <2>3
<1>5. CASE Resolves(c)
  <2>1. PICK e \in Settled(c) : Settles(c, e)
    BY <1>5 DEF Resolves
  <2>2. e \in Written(c) /\ pc[c] = "sent" /\ e.kind = "dispatch" /\ e.retry = attempt[c]
    BY <1>5, <2>1 DEF Resolves, Settled
  <2>3. /\ Len(ledger') = Len(ledger) /\ ledger'[current[c]] = e
        /\ current[c] \in OfCall(c, call[c])
        /\ \A k \in 1..Len(ledger) : k # current[c] => ledger'[k] = ledger[k]
    BY <1>0, <2>1, <2>2, ResolvePlaces
  <2>4. /\ current[c] \in 1..Len(ledger) /\ ledger[current[c]] = Started(c)
        /\ Started(c).client = c /\ Started(c).call = call[c]
        /\ Started(c).kind = "dispatch" /\ Started(c).retry = attempt[c]
    BY <1>0, <2>2 DEF SentInv, Sent, Started, Logged
  <2>5. e.client = c /\ e.call = call[c]
    BY <2>2 DEF Written
  <2>6. l \in 1..Len(ledger) /\ Earned(l)
    BY <1>0, <2>3, EachIsEarned
  <2>7. /\ \A k \in 1..Len(ledger) :
             ledger'[k].client = ledger[k].client /\ ledger'[k].call = ledger[k].call
        /\ ledger'[l].kind = ledger[l].kind /\ ledger'[l].retry = ledger[l].retry
    BY <2>2, <2>3, <2>4, <2>5, <2>6
  <2>8. ASSUME NEW k \in Before(l) PROVE ledger'[k] = ledger[k]
    <3>1. k \in 1..Len(ledger) /\ k < l /\ k \in OfCall(ledger[l].client, ledger[l].call)
      BY <1>0, PlacesOfCall DEF Before
    <3>2. k # current[c]
      <4> SUFFICES ASSUME k = current[c] PROVE FALSE
        OBVIOUS
      <4>1. ledger[l].client = c /\ ledger[l].call = call[c]
        BY <2>4, <3>1 DEF OfCall, Events
      <4>2. l \in CallEvents(c)
        BY <2>6, <4>1 DEF CallEvents, OfCall, Events
      <4>3. l <= current[c]
        BY <1>0, <2>2, <4>2 DEF CallIsAt
      <4> QED
        BY <1>0, <2>6, <3>1, <4>3
    <3> QED
      BY <2>3, <3>1, <3>2
  <2> QED
    BY <1>0, <2>3, <2>6, <2>7, <2>8, EarnedStays
<1> QED
  BY <1>0, <1>1, <1>3, <1>4, <1>5, StepWrites

(* Whatever a client does, the events of the others stay as they are.       *)
LEMMA OthersEvents ==
  ASSUME TypeOK, SentInv, NEW c \in Clients, Step(c), NEW d \in Clients, d # c, NEW n
  PROVE  OfCall(d, n)' = OfCall(d, n) /\ \A k \in OfCall(d, n) : ledger'[k] = ledger[k]
<1>0. ledger \in Seq(Event)
  BY DEF TypeOK
<1>a. OfCall(d, n) \in SUBSET (1..Len(ledger)) /\ \A k \in OfCall(d, n) : ledger[k].client = d
  BY DEF OfCall, Events
<1>1. CASE Keeps(c)
  BY <1>1 DEF Keeps, OfCall, Events
<1>2. ASSUME NEW e \in Written(c), ledger' = Append(ledger, e)
      PROVE  OfCall(d, n)' = OfCall(d, n) /\ \A k \in OfCall(d, n) : ledger'[k] = ledger[k]
  BY <1>0, <1>a, <1>2, AppendPlaces
<1>3. CASE Appends(c)
  BY <1>2, <1>3 DEF Appends
<1>4. CASE Post(c)
  BY <1>2, <1>4, StartedIsWritten DEF Post, Started
<1>5. CASE Resolves(c)
  <2>1. PICK e \in Written(c) : pc[c] = "sent" /\ Settles(c, e)
    BY <1>5 DEF Resolves, Settled
  <2>2. ledger[current[c]].client = c
    BY <2>1 DEF SentInv, Sent, Started, Logged
  <2> QED
    BY <1>0, <1>a, <2>1, <2>2, ResolvePlaces
<1> QED
  BY <1>1, <1>3, <1>4, <1>5, StepWrites

LEMMA OthersAreWhereTheyWere ==
  ASSUME TypeOK, SentInv, NEW c \in Clients, Step(c), NEW d \in Clients, d # c, CallIsAt(d)
  PROVE  CallIsAt(d)'
<1>1. /\ pc'[d] = pc[d] /\ call'[d] = call[d]
      /\ attempt'[d] = attempt[d] /\ current'[d] = current[d]
  BY StepIsLocal DEF Elsewhere
<1>2. ASSUME NEW n, n = call[d]
      PROVE  OfCall(d, n)' = OfCall(d, n) /\ \A k \in OfCall(d, n) : ledger'[k] = ledger[k]
  BY OthersEvents
<1>3. CallEvents(d)' = CallEvents(d) /\ \A k \in CallEvents(d) : ledger'[k] = ledger[k]
  BY <1>1, <1>2 DEF CallEvents, OfCall, Events
<1>4. CallEvents(d) # {} => Latest(CallEvents(d)) \in CallEvents(d)
  BY PlacesOfCall, LatestExists DEF CallEvents, TypeOK
<1>5. CallEvents(d) # {} => LastOf(d)' = LastOf(d)
  BY <1>3, <1>4 DEF LastOf, Latest
<1> QED
  BY <1>1, <1>3, <1>5 DEF CallIsAt, Lost

LEMMA OwnEvents ==
  ASSUME TypeOK, SentInv, NEW c \in Clients, Step(c), NEW n, n # call[c]
  PROVE  OfCall(c, n)' = OfCall(c, n)
<1>0. ledger \in Seq(Event)
  BY DEF TypeOK
<1>1. CASE Keeps(c)
  BY <1>1 DEF Keeps, OfCall, Events
<1>2. ASSUME NEW e \in Written(c), ledger' = Append(ledger, e)
      PROVE  OfCall(c, n)' = OfCall(c, n)
  BY <1>0, <1>2, AppendPlaces
<1>3. CASE Appends(c)
  BY <1>2, <1>3 DEF Appends
<1>4. CASE Post(c)
  BY <1>2, <1>4, StartedIsWritten DEF Post, Started
<1>5. CASE Resolves(c)
  BY <1>0, <1>5, ResolvePlaces DEF Resolves, Settled
<1> QED
  BY <1>1, <1>3, <1>4, <1>5, StepWrites

LEMMA CallsStep ==
  ASSUME IInv, RetryInv, NEW c \in Clients, Step(c)
  PROVE  CallsAreOver'
<1>0. TypeOK /\ SentInv /\ CallsAreOver /\ Elsewhere(c)
  BY StepIsLocal DEF IInv, RetryInv
<1>1. call[c] \in Nat /\ call'[c] >= call[c]
  <2>1. call'[c] = call[c] + 1 \/ call'[c] = call[c]
    BY <1>0 DEF Step, Begin, RefuseBudget, NeverDispatches, CacheHit, CacheMiss, Post, Accept,
       Malformed, Undecodable, Lose, HttpError, Escape, Store, TypeOK
  <2>2. call[c] \in Nat
    BY <1>0 DEF TypeOK
  <2> QED
    BY <2>1, <2>2
<1> SUFFICES ASSUME NEW d \in Clients, NEW k \in Events(d)'
             PROVE  ledger'[k].call <= call'[d]
  BY DEF CallsAreOver
<1> DEFINE n == ledger'[k].call
<1>2. k \in 1..Len(ledger') /\ ledger'[k].client = d
  BY DEF Events
<1>3. n \in Nat
  <2>1. ledger' \in Seq(Event)
    BY LedgerStep
  <2>2. ledger'[k] \in Event
    BY <1>2, <2>1
  <2> QED
    BY <2>2 DEF Event
<1>4. ASSUME NEW m, m = n PROVE k \in OfCall(d, m)'
  BY <1>2, <1>4 DEF OfCall, Events
<1> HIDE DEF n
<1>5. ASSUME k \in OfCall(d, n) PROVE n <= call[d]
  BY <1>0, <1>5 DEF OfCall, CallsAreOver
<1>6. CASE d # c
  <2>1. ASSUME NEW m, m = n PROVE k \in OfCall(d, m)
    BY <1>0, <1>4, <1>6, <2>1, OthersEvents
  <2>2. n <= call[d] /\ call'[d] = call[d]
    BY <1>0, <1>5, <1>6, <2>1 DEF Elsewhere
  <2> QED
    BY <2>2 DEF n
<1>7. CASE d = c
  <2>1. n # call[c] => n <= call[c]
    <3>1. ASSUME NEW m, m = n, m # call[c] PROVE k \in OfCall(c, m)
      BY <1>0, <1>4, <1>7, <3>1, OwnEvents
    <3> QED
      BY <1>5, <1>7, <3>1
  <2>2. call'[c] \in Nat
    BY TypeStep DEF TypeOK
  <2>3. n <= call'[c]
    BY <1>1, <1>3, <2>1, <2>2
  <2> QED
    BY <1>7, <2>3 DEF n
<1> QED
  BY <1>6, <1>7

LEMMA CallStep ==
  ASSUME IInv, RetryInv, NEW c \in Clients, Step(c)
  PROVE  CallIsAt(c)'
<1>0. /\ TypeOK /\ SentInv /\ CallsAreOver /\ CallIsAt(c) /\ ledger \in Seq(Event)
      /\ Len(ledger) \in Nat /\ call[c] \in Nat
  <2>1. TypeOK /\ SentInv /\ CallsAreOver /\ CallIsAt(c)
    BY DEF IInv, RetryInv
  <2> QED
    BY <2>1 DEF TypeOK
<1>a. CallEvents(c) \in SUBSET (1..Len(ledger))
  BY <1>0, PlacesOfCall DEF CallEvents
<1>1. CASE Begin(c)
  <2>1. pc'[c] = "guard" /\ call'[c] = call[c] + 1 /\ attempt'[c] = 0 /\ UNCHANGED ledger
    BY <1>0, <1>1 DEF Begin, Goto, TypeOK
  <2>2. OfCall(c, call[c] + 1) = {}
    BY <1>0 DEF OfCall, CallsAreOver
  <2>3. CallEvents(c)' = {}
    BY <2>1, <2>2 DEF CallEvents, OfCall, Events
  <2> QED
    BY <2>1, <2>3 DEF CallIsAt
<1>2. CASE CacheMiss(c)
  <2>1. /\ pc[c] = "guard" /\ pc'[c] = "post"
        /\ UNCHANGED <<call, attempt, ledger>>
    BY <1>0, <1>2 DEF CacheMiss, Goto, TypeOK
  <2>2. CallEvents(c)' = CallEvents(c)
    BY <2>1 DEF CallEvents, OfCall, Events
  <2> QED
    BY <1>0, <2>1, <2>2 DEF CallIsAt
<1>3. CASE pc'[c] \in {"idle", "store"}
  BY <1>3 DEF CallIsAt
<1>4. CASE Post(c)
  <2>1. /\ pc'[c] = "sent" /\ current'[c] = Len(ledger) + 1 /\ UNCHANGED call
        /\ Started(c) \in Written(c) /\ ledger' = Append(ledger, Started(c))
    BY <1>0, <1>4, StartedIsWritten DEF Post, Started, Goto, TypeOK
  <2>2. ASSUME NEW n, n = call[c]
        PROVE  OfCall(c, n)' = OfCall(c, n) \cup {Len(ledger) + 1}
    BY <1>0, <2>1, <2>2, AppendPlaces
  <2>3. CallEvents(c)' = CallEvents(c) \cup {Len(ledger) + 1}
    BY <2>1, <2>2 DEF CallEvents, OfCall, Events
  <2>4. \A k \in CallEvents(c)' : k <= current'[c]
    BY <1>0, <1>a, <2>1, <2>3
  <2> QED
    BY <2>1, <2>4 DEF CallIsAt
<1>5. CASE Resolves(c) /\ pc'[c] = "post"
  <2>1. PICK e \in Settled(c) : Settles(c, e) /\ Earns(c, e)
    BY <1>5 DEF Resolves
  <2>2. /\ e \in Written(c) /\ pc[c] = "sent" /\ e.retry = attempt[c] /\ call'[c] = call[c]
    BY <1>5, <2>1 DEF Resolves, Settled
  <2>3. ASSUME NEW n, n = call[c]
        PROVE  OfCall(c, n)' = OfCall(c, n)
    BY <1>0, <2>1, <2>2, ResolvePlaces
  <2>4. ledger'[current[c]] = e /\ current[c] \in CallEvents(c)
    BY <1>0, <2>1, <2>2, ResolvePlaces DEF CallEvents
  <2>5. CallEvents(c)' = CallEvents(c)
    BY <2>2, <2>3 DEF CallEvents, OfCall, Events
  <2>6. Latest(CallEvents(c)) = current[c]
    <3>1. \A k \in CallEvents(c) : k <= current[c]
      BY <1>0, <2>2 DEF CallIsAt
    <3>2. CallEvents(c) \in SUBSET Nat
      BY <1>a
    <3> QED
      BY <2>4, <3>1, <3>2, LatestIs
  <2>7. LastOf(c)' = e
    BY <2>4, <2>5, <2>6 DEF LastOf, Latest
  <2>8. attempt[c] \in Nat
    BY <1>0, LimitsAssumption DEF TypeOK
  <2>9. CASE attempt'[c] = 0 /\ e.usage = "parsed"
    BY <1>5, <2>7, <2>9 DEF CallIsAt
  <2>10. CASE attempt'[c] = attempt[c] + 1 /\ Lost(e)
    <3>1. attempt'[c] # 0 /\ e.retry = attempt'[c] - 1 /\ CallEvents(c)' # {}
      BY <2>2, <2>4, <2>5, <2>8, <2>10
    <3>2. Lost(LastOf(c))'
      BY <2>7, <2>10 DEF Lost
    <3> QED
      BY <1>5, <2>7, <3>1, <3>2 DEF CallIsAt
  <2> QED
    BY <2>1, <2>9, <2>10 DEF Earns
<1>6. \/ Begin(c) \/ CacheMiss(c) \/ Post(c) \/ pc'[c] \in {"idle", "store"}
      \/ Resolves(c) /\ pc'[c] = "post"
  <2>1. RefuseBudget(c) \/ NeverDispatches(c) \/ CacheHit(c) \/ Store(c) => pc'[c] = "idle"
    BY <1>0 DEF RefuseBudget, NeverDispatches, CacheHit, Store, Ends, TypeOK
  <2>2. CASE pc[c] = "sent"
    <3>1. Resolves(c)
      BY <1>0, <2>2, StepWrites DEF Keeps, Appends, Post, Goto
    <3> QED
      BY <3>1 DEF Resolves
  <2>3. CASE pc[c] # "sent"
    BY <2>1, <2>3 DEF Step, Accept, Malformed, Undecodable, Lose, HttpError, Escape, Goto
  <2> QED
    BY <2>2, <2>3
<1> QED
  BY <1>1, <1>2, <1>3, <1>4, <1>5, <1>6

LEMMA RetryStep == IInv /\ RetryInv /\ [Next]_vars => RetryInv'
<1> SUFFICES ASSUME IInv, RetryInv, [Next]_vars PROVE RetryInv'
  OBVIOUS
<1>0. TypeOK /\ SentInv
  BY DEF IInv
<1>1. CASE UNCHANGED vars
  <2>1. CallsAreOver'
    BY <1>1 DEF RetryInv, CallsAreOver, Events, vars
  <2>2. ASSUME NEW c \in Clients PROVE CallIsAt(c)'
    <3>1. CallIsAt(c) /\ UNCHANGED <<pc, call, attempt, current, ledger>>
      BY <1>1 DEF RetryInv, vars
    <3> QED
      BY <3>1 DEF CallIsAt, CallEvents, OfCall, Events, LastOf, Latest, Lost
  <2>3. RetriesEarned'
    <3>1. RetriesEarned /\ UNCHANGED ledger /\ ledger \in Seq(Event)
      BY <1>0, <1>1 DEF RetryInv, vars, TypeOK
    <3>2. (RetriesEarned <=> \A l \in 1..Len(ledger) : Earned(l))'
      BY EachIsEarned, PTL
    <3>3. ASSUME NEW l \in 1..Len(ledger) PROVE Earned(l)'
      BY <3>1, EachIsEarned, EarnedStays
    <3> QED
      BY <3>1, <3>2, <3>3
  <2> QED
    BY <2>1, <2>2, <2>3 DEF RetryInv
<1>2. ASSUME NEW c \in Clients, Step(c) PROVE RetryInv'
  <2>1. ASSUME NEW d \in Clients PROVE CallIsAt(d)'
    <3>1. CASE d = c
      BY <1>2, <3>1, CallStep
    <3>2. CASE d # c
      BY <1>0, <1>2, <3>2, OthersAreWhereTheyWere DEF RetryInv
    <3> QED
      BY <3>1, <3>2
  <2> QED
    BY <1>2, <2>1, CallsStep, RetriesStep DEF RetryInv
<1> QED
  BY <1>1, <1>2 DEF Next

LEMMA InitRetryInv == Init => RetryInv
BY DEF Init, RetryInv, CallsAreOver, CallIsAt, RetriesEarned, Events

(* Nobody pays twice: whatever the provider answers, and however the calls  *)
(* of the clients interleave in the ledger, a request is only sent again    *)
(* after an attempt of the same call that was lost or met a transient       *)
(* refusal, and the retry indices count the attempts of one response and    *)
(* stay below max_attempts (the loop of _post).                             *)
THEOREM RetriesAreEarned == Spec => []RetriesEarned
<1>1. RetryInv => RetriesEarned
  BY DEF RetryInv
<1> QED
  BY <1>1, InitIInv, InitRetryInv, NextIInv, RetryStep, PTL DEF Spec

-----------------------------------------------------------------------------
(* Billing.  A total over the clients is at most the number of elements of  *)
(* disjoint sets, one for each client, that are at least as large as what   *)
(* is totalled, and equal to it when they are just as large.                *)
LEMMA TotalOfSets ==
  ASSUME NEW n \in [Clients -> Nat], NEW N \in Nat, NEW S,
         \A c \in Clients : S[c] \in SUBSET (1..N) /\ n[c] <= Cardinality(S[c]),
         \A c, d \in Clients : c # d => S[c] \cap S[d] = {}
  PROVE  /\ Total(n) <= Cardinality(UNION {S[c] : c \in Clients})
         /\ (\A c \in Clients : n[c] = Cardinality(S[c]))
               => Total(n) = Cardinality(UNION {S[c] : c \in Clients})
<1>0. IsFiniteSet(1..N)
  BY FS_Interval
<1> DEFINE T == UNION {S[c] : c \in Clients}
<1>1. IsFiniteSet(T)
  <2>1. T \in SUBSET (1..N)
    OBVIOUS
  <2> QED
    BY <1>0, <2>1, FS_Subset
<1> DEFINE b == [c \in Clients |-> CHOOSE f : f \in Bijection(1..Cardinality(S[c]), S[c])]
<1>2. ASSUME NEW c \in Clients
      PROVE  /\ Cardinality(S[c]) \in Nat /\ n[c] \in Nat
             /\ b[c] \in Bijection(1..Cardinality(S[c]), S[c])
  <2>1. IsFiniteSet(S[c])
    BY <1>0, <1>2, FS_Subset
  <2>2. Cardinality(S[c]) \in Nat /\ ExistsBijection(1..Cardinality(S[c]), S[c])
    BY <2>1, FS_CardinalityType
  <2> QED
    BY <2>2 DEF ExistsBijection
<1> HIDE DEF b
<1> DEFINE g == [u \in Units(n) |-> b[u[1]][u[2]]]
<1>3. ASSUME NEW u \in Units(n)
      PROVE  /\ u[1] \in Clients /\ u[2] \in 1..n[u[1]] /\ u = <<u[1], u[2]>>
             /\ g[u] = b[u[1]][u[2]] /\ g[u] \in S[u[1]]
  <2>1. u[1] \in Clients /\ u[2] \in 1..n[u[1]] /\ u = <<u[1], u[2]>>
    BY <1>3 DEF Units
  <2>2. u[2] \in 1..Cardinality(S[u[1]])
    BY <1>2, <2>1
  <2>3. b[u[1]][u[2]] \in S[u[1]]
    BY <1>2, <2>1, <2>2 DEF Bijection, Injection
  <2> QED
    BY <2>1, <2>3
<1>4. ASSUME NEW u \in Units(n), NEW v \in Units(n), g[u] = g[v] PROVE u = v
  <2>1. u[1] = v[1]
    BY <1>3, <1>4
  <2>2. u[2] \in 1..Cardinality(S[u[1]]) /\ v[2] \in 1..Cardinality(S[u[1]])
    BY <1>2, <1>3, <2>1
  <2>3. u[2] = v[2]
    <3>1. b[u[1]][u[2]] = b[u[1]][v[2]]
      BY <1>3, <1>4, <2>1
    <3> QED
      BY <1>2, <1>3, <2>2, <3>1 DEF Bijection, Injection, IsInjective
  <2> QED
    BY <1>3, <2>1, <2>3
<1>5. g \in [Units(n) -> T]
  BY <1>3
<1>6. ASSUME \A c \in Clients : n[c] = Cardinality(S[c]), NEW x \in T
      PROVE  \E u \in Units(n) : g[u] = x
  <2>1. PICK c \in Clients : x \in S[c]
    OBVIOUS
  <2>2. PICK i \in 1..Cardinality(S[c]) : b[c][i] = x
    BY <1>2, <2>1 DEF Bijection, Surjection
  <2>3. <<c, i>> \in Units(n)
    BY <1>6, <2>2 DEF Units
  <2> QED
    BY <2>2, <2>3
<1> HIDE DEF g
<1>7. g \in Injection(Units(n), T)
  BY <1>4, <1>5 DEF Injection, IsInjective
<1>8. (\A c \in Clients : n[c] = Cardinality(S[c])) => g \in Surjection(Units(n), T)
  BY <1>5, <1>6 DEF Surjection
<1> QED
  BY <1>1, <1>7, <1>8, FS_Injection DEF Total

(* Beside a client's books: its calls have numbers, and each of its         *)
(* responses took a first attempt, the one in progress another.             *)
Firsts(c) == {k \in Events(c) : ledger[k].kind = "dispatch" /\ ledger[k].retry = 0}
Trying(c) == pc[c] = "sent" \/ (pc[c] = "post" /\ attempt[c] # 0)
Opened(c) == books[c].calls + (IF Trying(c) THEN 1 ELSE 0) <= Cardinality(Firsts(c))
Numbered == /\ \A c \in Clients : pc[c] # "idle" => call[c] >= 1
            /\ \A k \in 1..Len(ledger) : ledger[k].call >= 1
BooksInv == Numbered /\ \A c \in Clients : OwnBooksAgree(c) /\ Opened(c)

LEMMA PlacesAreFinite ==
  ASSUME TypeOK
  PROVE  /\ Len(ledger) \in Nat /\ IsFiniteSet(1..Len(ledger))
         /\ \A S \in SUBSET (1..Len(ledger)) : IsFiniteSet(S) /\ Cardinality(S) \in Nat
<1>1. Len(ledger) \in Nat
  BY DEF TypeOK
<1>2. IsFiniteSet(1..Len(ledger))
  BY <1>1, FS_Interval
<1>3. \A S \in SUBSET (1..Len(ledger)) : IsFiniteSet(S)
  BY <1>2, FS_Subset
<1> QED
  BY <1>1, <1>2, <1>3, FS_CardinalityType

(* Every dispatch of a readable ledger has one debit state.                 *)
LEMMA DebitsPartition ==
  ASSUME TypeOK, Readable
  PROVE  Summary.dispatches = Summary.observed + Summary.noncredit + Summary.unknown
<1> DEFINE O == Debited("observed")
           N == Debited("noncredit")
           U == Debited("unknown")
<1>1. Dispatched = (O \cup N) \cup U /\ O \cap N = {} /\ (O \cup N) \cap U = {}
  <2>1. \A k \in Dispatched : ledger[k].debit \in AllBills \ Vast
    <3> TAKE k \in Dispatched
    <3>1. ledger \in Seq(Event) /\ k \in 1..Len(ledger)
      BY DEF Dispatched, TypeOK
    <3>2. ledger[k] \in Event
      BY <3>1
    <3>3. Accepts(ledger[k]) /\ ledger[k].kind = "dispatch"
      BY <3>1 DEF Readable, Dispatched
    <3> QED
      BY <3>2, <3>3 DEF Event, Accepts, Vast
  <2> QED
    BY <2>1 DEF Debited, AllBills
<1>2. O \in SUBSET (1..Len(ledger)) /\ N \in SUBSET (1..Len(ledger)) /\ U \in SUBSET (1..Len(ledger))
  BY DEF Debited, Dispatched
<1> HIDE DEF O, N, U
<1>3. /\ IsFiniteSet(O) /\ IsFiniteSet(N) /\ IsFiniteSet(U) /\ IsFiniteSet(O \cup N)
      /\ Cardinality(O) \in Nat /\ Cardinality(N) \in Nat /\ Cardinality(U) \in Nat
  BY <1>2, PlacesAreFinite
<1>z. Cardinality(O \cap N) = 0 /\ Cardinality((O \cup N) \cap U) = 0
  BY <1>1, FS_EmptySet, Zenon
<1>4. Cardinality(O \cup N) = Cardinality(O) + Cardinality(N)
  <2>1. Cardinality(O \cup N) = Cardinality(O) + Cardinality(N) - Cardinality(O \cap N)
    BY <1>3, FS_Union
  <2> QED
    BY <1>3, <1>z, <2>1
<1>5. Cardinality(Dispatched) = Cardinality(O \cup N) + Cardinality(U)
  <2>1. Cardinality(Dispatched) = Cardinality(O \cup N) + Cardinality(U) - Cardinality((O \cup N) \cap U)
    BY <1>1, <1>3, FS_Union
  <2> QED
    BY <1>3, <1>4, <1>z, <2>1
<1> QED
  BY <1>4, <1>5 DEF Summary, O, N, U

(* What is under way is not terminated.                                     *)
LEMMA SentIsUnterminated ==
  ASSUME TypeOK, SentInv
  PROVE  Summary.unterminated >= Cardinality({d \in Clients : pc[d] = "sent"})
<1> DEFINE D == {d \in Clients : pc[d] = "sent"}
           f == [d \in D |-> current[d]]
<1>1. ASSUME NEW d \in D PROVE f[d] \in Unterminated /\ ledger[f[d]].client = d
  <2>1. current[d] \in 1..Len(ledger) /\ ledger[current[d]] = Started(d)
    BY <1>1 DEF SentInv, Sent
  <2>2. Started(d).client = d /\ Started(d).kind = "dispatch" /\ Started(d).transport = "started"
    BY DEF Started, Logged
  <2> QED
    BY <1>1, <2>1, <2>2 DEF Unterminated, Dispatched
<1>2. f \in [D -> Unterminated] /\ \A d, e \in D : f[d] = f[e] => d = e
  BY <1>1
<1>3. Unterminated \in SUBSET (1..Len(ledger))
  BY DEF Unterminated, Dispatched
<1>4. IsFiniteSet(Unterminated) /\ Cardinality(Unterminated) \in Nat
  BY <1>3, PlacesAreFinite
<1> HIDE DEF f
<1>5. f \in Injection(D, Unterminated)
  BY <1>2 DEF Injection, IsInjective
<1>6. IsFiniteSet(D) /\ Cardinality(D) <= Cardinality(Unterminated)
  BY <1>4, <1>5, FS_Injection
<1>7. Cardinality(D) \in Nat
  BY <1>6, FS_CardinalityType
<1> QED
  BY <1>4, <1>6, <1>7 DEF Summary

(* No more invocations are in the ledger than calls were made.              *)
LEMMA UnitsFinite ==
  ASSUME NEW n \in [Clients -> Nat]
  PROVE  IsFiniteSet(Units(n))
<1> DEFINE f == [c \in Clients |-> {c} \X (1..n[c])]
           R == {{c} \X (1..n[c]) : c \in Clients}
<1>1. f \in Surjection(Clients, R)
  BY DEF Surjection
<1>2. IsFiniteSet(R)
  BY <1>1, FS_Surjection, ClientsAssumption
<1>3. ASSUME NEW c \in Clients PROVE IsFiniteSet({c} \X (1..n[c]))
  <2>1. IsFiniteSet({c})
    BY FS_Singleton, Zenon
  <2>2. n[c] \in Nat /\ 1 \in Int /\ n[c] \in Int
    OBVIOUS
  <2>3. IsFiniteSet(1..n[c])
    BY <2>2, FS_Interval
  <2> QED
    BY <2>1, <2>3, FS_Product
<1>4. \A T \in R : IsFiniteSet(T)
  BY <1>3
<1> HIDE DEF R
<1>5. IsFiniteSet(UNION R)
  BY <1>2, <1>4, FS_UNION
<1> QED
  BY <1>5 DEF R, Units

LEMMA InvocationsAreCalls ==
  ASSUME TypeOK, CallsAreOver, Numbered
  PROVE  Summary.invocations <= Total(call)
<1> DEFINE V == {<<ledger[k].client, ledger[k].call>> : k \in 1..Len(ledger)}
<1>1. ASSUME NEW k \in 1..Len(ledger)
      PROVE  ledger[k].client \in Clients /\ ledger[k].call \in 1..call[ledger[k].client]
  <2>1. ledger \in Seq(Event)
    BY DEF TypeOK
  <2>2. ledger[k] \in Event
    BY <2>1
  <2>3. ledger[k].client \in Clients /\ ledger[k].call \in Nat
    BY <2>2 DEF Event
  <2>4. ledger[k].call <= call[ledger[k].client] /\ call[ledger[k].client] \in Nat
    BY <2>3 DEF CallsAreOver, Events, TypeOK
  <2> QED
    BY <2>3, <2>4 DEF Numbered
<1>2. V \in SUBSET Units(call)
  BY <1>1 DEF Units
<1>3. IsFiniteSet(Units(call))
  BY UnitsFinite DEF TypeOK
<1> QED
  BY <1>2, <1>3, FS_Subset DEF Summary, Total

(* Whoever was billed by a response accounts for it; the other bills are    *)
(* those of error bodies.                                                   *)
LEMMA BillsAreAccounted ==
  ASSUME TypeOK, Readable, \A c \in Clients : OwnBooksAgree(c)
  PROVE  Summary.observed = Total([c \in Clients |-> books[c].credits]) + Cardinality(ErrorBills)
<1> DEFINE n == [c \in Clients |-> books[c].credits]
           S == [c \in Clients |-> Paid(c)]
           P == UNION {S[c] : c \in Clients}
<1>1. ASSUME NEW c \in Clients PROVE S[c] \in SUBSET (1..Len(ledger)) /\ n[c] = Cardinality(S[c])
  BY DEF Paid, Answered, Events, OwnBooksAgree
<1>2. \A c, d \in Clients : c # d => S[c] \cap S[d] = {}
  BY DEF Paid, Answered, Events
<1>3. ASSUME NEW c \in Clients PROVE n[c] \in Nat /\ n[c] <= Cardinality(S[c])
  BY <1>1, PlacesAreFinite
<1>4. n \in [Clients -> Nat]
  BY <1>3
<1>5. Total(n) = Cardinality(P)
  <2> HIDE DEF n, S
  <2>1. Len(ledger) \in Nat
    BY PlacesAreFinite
  <2> QED
    BY <1>1, <1>2, <1>3, <1>4, <2>1, TotalOfSets
<1>6. Debited("observed") = P \cup ErrorBills /\ P \cap ErrorBills = {}
  <2>1. ASSUME NEW k \in Debited("observed")
        PROVE  k \in P \/ k \in ErrorBills
    <3>1. k \in 1..Len(ledger) /\ Accepts(ledger[k]) /\ ledger[k].kind = "dispatch"
          /\ ledger[k].debit = "observed" /\ ledger \in Seq(Event)
      BY DEF Debited, Dispatched, Readable, TypeOK
    <3>2. ledger[k].client \in Clients
      <4>1. ledger[k] \in Event
        BY <3>1
      <4> QED
        BY <4>1 DEF Event
    <3>3. ledger[k].body = "parsed" /\ ledger[k].transport \in {"response_received", "http_error"}
      BY <3>1 DEF Accepts
    <3>4. CASE ledger[k].transport = "http_error"
      BY <3>4 DEF ErrorBills
    <3>5. CASE ledger[k].transport = "response_received"
      BY <3>1, <3>2, <3>3, <3>5 DEF Paid, Answered, Events, Credit
    <3> QED
      BY <3>3, <3>4, <3>5
  <2>2. ASSUME NEW k \in P
        PROVE  k \in Debited("observed") /\ k \notin ErrorBills
    <3>1. k \in 1..Len(ledger) /\ ledger[k].debit \in Credit
          /\ ledger[k].transport = "response_received"
      BY DEF Paid, Answered, Events
    <3>2. ledger[k].kind = "dispatch" /\ ledger[k].debit = "observed"
      BY <3>1 DEF Readable, Accepts, Credit, Vast
    <3> QED
      BY <3>1, <3>2 DEF Debited, Dispatched, ErrorBills
  <2>3. ErrorBills \subseteq Debited("observed")
    BY DEF ErrorBills
  <2> HIDE DEF P
  <2> QED
    BY <2>1, <2>2, <2>3
<1>7. P \in SUBSET (1..Len(ledger)) /\ ErrorBills \in SUBSET (1..Len(ledger))
  BY DEF Paid, Answered, Events, ErrorBills, Debited, Dispatched
<1> HIDE DEF P, n, S
<1>8. /\ IsFiniteSet(P) /\ IsFiniteSet(ErrorBills)
      /\ Cardinality(P) \in Nat /\ Cardinality(ErrorBills) \in Nat
  BY <1>7, PlacesAreFinite
<1>9. Cardinality(P \cap ErrorBills) = 0
  BY <1>6, FS_EmptySet, Zenon
<1>10. Cardinality(P \cup ErrorBills) = Cardinality(P) + Cardinality(ErrorBills) - Cardinality(P \cap ErrorBills)
  BY <1>8, FS_Union
<1>11. Cardinality(Debited("observed")) = Cardinality(P \cup ErrorBills)
  BY <1>6, Zenon
<1>12. Cardinality(Debited("observed")) = Cardinality(P) + Cardinality(ErrorBills)
  BY <1>8, <1>9, <1>10, <1>11
<1> QED
  BY <1>5, <1>12 DEF Summary, n

(* Each accepted response took a dispatch that was no retry.                *)
LEMMA ResponsesWereRequested ==
  ASSUME TypeOK, Readable, \A c \in Clients : Opened(c)
  PROVE  Summary.dispatches - Summary.retries >= Total([c \in Clients |-> books[c].calls])
<1> DEFINE n == [c \in Clients |-> books[c].calls]
           S == [c \in Clients |-> Firsts(c)]
           P == UNION {S[c] : c \in Clients}
<1>1. ASSUME NEW c \in Clients
      PROVE  S[c] \in SUBSET (1..Len(ledger)) /\ n[c] \in Nat /\ n[c] <= Cardinality(S[c])
  <2>1. Firsts(c) \in SUBSET (1..Len(ledger))
    BY DEF Firsts, Events
  <2>2. Cardinality(Firsts(c)) \in Nat
    BY <2>1, PlacesAreFinite
  <2>3. books[c].calls \in Nat
    BY DEF TypeOK, Books
  <2>4. books[c].calls <= Cardinality(Firsts(c))
    BY <2>2, <2>3 DEF Opened
  <2> QED
    BY <2>1, <2>3, <2>4
<1>2. \A c, d \in Clients : c # d => S[c] \cap S[d] = {}
  BY DEF Firsts, Events
<1>3. n \in [Clients -> Nat]
  BY <1>1
<1>4. Total(n) <= Cardinality(P)
  <2> HIDE DEF n, S
  <2>1. Len(ledger) \in Nat
    BY PlacesAreFinite
  <2> QED
    BY <1>1, <1>2, <1>3, <2>1, TotalOfSets
<1>5. P = Dispatched \ Retried
  <2>1. ASSUME NEW k \in 1..Len(ledger), ledger[k].kind = "dispatch"
        PROVE  ledger[k].client \in Clients /\ ledger[k].retry \in Int /\ ledger[k].retry >= 0
    <3>1. ledger[k] \in Event
      BY DEF TypeOK
    <3>2. Accepts(ledger[k])
      BY DEF Readable
    <3> QED
      BY <2>1, <3>1, <3>2 DEF Event, Accepts
  <2>2. ASSUME NEW k \in Dispatched \ Retried PROVE k \in P
    BY <2>1, <2>2 DEF Dispatched, Retried, Firsts, Events
  <2>3. ASSUME NEW k \in P PROVE k \in Dispatched \ Retried
    BY <2>3 DEF Dispatched, Retried, Firsts, Events
  <2> HIDE DEF P
  <2> QED
    BY <2>2, <2>3
<1>6. Dispatched \in SUBSET (1..Len(ledger)) /\ Retried \in SUBSET (1..Len(ledger))
      /\ Dispatched \cap Retried = Retried
  BY DEF Dispatched, Retried
<1>7. /\ IsFiniteSet(Dispatched) /\ Cardinality(Dispatched) \in Nat /\ Cardinality(Retried) \in Nat
  BY <1>6, PlacesAreFinite
<1>8. Cardinality(Dispatched \ Retried) = Cardinality(Dispatched) - Cardinality(Dispatched \cap Retried)
  BY <1>7, FS_Difference
<1>9. Cardinality(Dispatched \cap Retried) = Cardinality(Retried)
  BY <1>6, Zenon
<1>10. Cardinality(P) = Cardinality(Dispatched \ Retried)
  BY <1>5, Zenon
<1> HIDE DEF P, n, S
<1>11. Total(n) <= Cardinality(Dispatched) - Cardinality(Retried)
  BY <1>4, <1>7, <1>8, <1>9, <1>10
<1>12. Total(n) \in Nat
  BY <1>3, UnitsFinite, FS_CardinalityType DEF Total
<1> QED
  BY <1>7, <1>11, <1>12 DEF Summary, n

(* A client's own events after a step of a client.                          *)
LEMMA AppendEvents ==
  ASSUME ledger \in Seq(Event), NEW c \in Clients, NEW e \in Written(c),
         ledger' = Append(ledger, e), NEW d
  PROVE  /\ Events(d)' = IF d = c THEN Events(d) \cup {Len(ledger) + 1} ELSE Events(d)
         /\ Len(ledger) + 1 \notin Events(d)
         /\ ledger'[Len(ledger) + 1] = e
         /\ \A k \in Events(d) : ledger'[k] = ledger[k]
<1>1. /\ Len(ledger') = Len(ledger) + 1 /\ ledger'[Len(ledger) + 1] = e /\ Len(ledger) \in Nat
      /\ \A k \in 1..Len(ledger) : ledger'[k] = ledger[k]
      /\ e.client = c
  BY DEF Written
<1> QED
  BY <1>1 DEF Events

LEMMA SettleEvents ==
  ASSUME ledger \in Seq(Event), SentInv, NEW c \in Clients, NEW e, e.client = c,
         pc[c] = "sent", Settles(c, e), NEW d
  PROVE  /\ Events(d)' = Events(d)
         /\ current[c] \in Events(c) /\ ledger[current[c]] = Started(c) /\ ledger'[current[c]] = e
         /\ \A k \in Events(d) : k # current[c] => ledger'[k] = ledger[k]
         /\ d # c => current[c] \notin Events(d)
<1>1. /\ current[c] \in 1..Len(ledger) /\ ledger[current[c]] = Started(c)
      /\ Started(c).client = c
  BY DEF SentInv, Sent, Started, Logged
<1>2. /\ Len(ledger') = Len(ledger) /\ ledger'[current[c]] = e
      /\ \A k \in 1..Len(ledger) : k # current[c] => ledger'[k] = ledger[k]
  BY <1>1 DEF Settles
<1> QED
  BY <1>1, <1>2 DEF Events

LEMMA OthersKeepEvents ==
  ASSUME TypeOK, SentInv, NEW c \in Clients, Step(c), NEW d \in Clients, d # c
  PROVE  Events(d)' = Events(d) /\ \A k \in Events(d) : ledger'[k] = ledger[k]
<1>0. ledger \in Seq(Event)
  BY DEF TypeOK
<1>1. CASE Keeps(c)
  BY <1>1 DEF Keeps, Events
<1>2. CASE Appends(c) \/ Post(c)
  <2>1. PICK e \in Written(c) : ledger' = Append(ledger, e)
    BY <1>2, StartedIsWritten DEF Appends, Post, Started
  <2> QED
    BY <1>0, <2>1, AppendEvents
<1>3. CASE Resolves(c)
  <2>1. PICK e \in Written(c) : pc[c] = "sent" /\ Settles(c, e)
    BY <1>3 DEF Resolves, Settled
  <2>2. e.client = c
    BY DEF Written
  <2> QED
    BY <1>0, <2>1, <2>2, SettleEvents
<1> QED
  BY <1>1, <1>2, <1>3, StepWrites

LEMMA OthersKeepBooks ==
  ASSUME TypeOK, SentInv, NEW c \in Clients, Step(c), NEW d \in Clients, d # c,
         OwnBooksAgree(d), Opened(d)
  PROVE  OwnBooksAgree(d)' /\ Opened(d)'
<1>1. Events(d)' = Events(d) /\ \A k \in Events(d) : ledger'[k] = ledger[k]
  BY OthersKeepEvents
<1>2. books'[d] = books[d] /\ pc'[d] = pc[d] /\ attempt'[d] = attempt[d]
  BY StepIsLocal DEF Elsewhere
<1>3. /\ Answered(d)' = Answered(d) /\ Paid(d)' = Paid(d) /\ Used(d)' = Used(d)
      /\ Firsts(d)' = Firsts(d) /\ Answered(d) \subseteq Events(d)
  BY <1>1 DEF Answered, Paid, Used, Firsts
<1>4. OwnBooksAgree(d)'
  BY <1>1, <1>2, <1>3 DEF OwnBooksAgree
<1> QED
  BY <1>2, <1>3, <1>4 DEF Opened, Trying

(* Before and after a request a client's totals stay as they are.           *)
LEMMA QuietBooks ==
  ASSUME TypeOK, NEW c \in Clients, Step(c), pc[c] \notin {"post", "sent"},
         pc[c] = "guard" => attempt[c] = 0
  PROVE  books'[c] = books[c] /\ ~Trying(c)'
BY DEF Step, Begin, RefuseBudget, NeverDispatches, CacheHit, CacheMiss, Post, Accept, Malformed,
     Undecodable, Lose, HttpError, Escape, Store, Goto, Ends, TypeOK, Trying

(* What an answer, or the lack of one, does to them.                        *)
Object(e) == e.transport = "response_received" /\ e.body = "parsed"
Enters(c, e) ==
  \/ ~Object(e) /\ e.usage # "parsed" /\ books'[c] = books[c]
  \/ Object(e) /\ e.usage = "parsed" /\ books'[c] = Accounted(books[c], e.debit) /\ ~Trying(c)'
  \/ Object(e) /\ e.usage # "parsed" /\ books'[c] = Billed(books[c], e.debit)
LEMMA AnswerBooks ==
  ASSUME TypeOK, SentInv, NEW c \in Clients, Step(c), pc[c] = "sent"
  PROVE  \E e : /\ Settles(c, e) /\ Enters(c, e)
               /\ e.client = c /\ e.kind = "dispatch" /\ e.retry = attempt[c]
<1> DEFINE Own(e) == e.client = c /\ e.kind = "dispatch" /\ e.retry = attempt[c]
<1>1. Sent(c) = Started(c)
  BY DEF SentInv
<1>2. Accept(c) \/ Malformed(c) \/ Undecodable(c) \/ Lose(c) \/ HttpError(c) \/ Escape(c)
  BY DEF Step, Begin, RefuseBudget, NeverDispatches, CacheHit, CacheMiss, Post, Store, Goto
<1>3. CASE Accept(c)
  <2>1. PICK bill \in Bills :
          /\ Settles(c, [Decoded(c, bill) EXCEPT !.content = "parsed", !.usage = "parsed"])
          /\ books' = [books EXCEPT ![c] = Accounted(books[c], bill)]
    BY <1>3 DEF Accept
  <2> DEFINE e == [Decoded(c, bill) EXCEPT !.content = "parsed", !.usage = "parsed"]
  <2>2. Own(e) /\ Object(e) /\ e.usage = "parsed" /\ e.debit = bill
    BY <1>1 DEF Decoded, Started, Logged, Object
  <2>3. ~Trying(c)'
    BY <1>3 DEF Accept, Goto, TypeOK, Trying
  <2>4. books'[c] = Accounted(books[c], bill)
    BY <2>1 DEF TypeOK
  <2> HIDE DEF e
  <2> QED
    BY <2>1, <2>2, <2>3, <2>4 DEF Enters, e
<1>4. CASE Malformed(c)
  <2>1. PICK bill \in Bills, content \in {"parsed", "failed"} :
          /\ Settles(c, [Decoded(c, bill) EXCEPT !.content = content,
                           !.usage = IF content = "parsed" THEN "failed" ELSE @])
          /\ books' = [books EXCEPT ![c] = Billed(books[c], bill)]
    BY <1>4 DEF Malformed
  <2> DEFINE e == [Decoded(c, bill) EXCEPT !.content = content,
                     !.usage = IF content = "parsed" THEN "failed" ELSE @]
  <2>2. Own(e) /\ Object(e) /\ e.usage # "parsed" /\ e.debit = bill
    BY <1>1 DEF Decoded, Started, Logged, Object
  <2>3. books'[c] = Billed(books[c], bill)
    BY <2>1 DEF TypeOK
  <2>4. Settles(c, e)
    BY <2>1
  <2> HIDE DEF e
  <2> QED
    BY <2>2, <2>3, <2>4 DEF Enters
<1>5. CASE Undecodable(c)
  <2> DEFINE e == [Decoded(c, "unknown") EXCEPT !.body = "failed"]
  <2>1. Own(e) /\ ~Object(e) /\ e.usage # "parsed"
    BY <1>1 DEF Decoded, Started, Logged, Object
  <2>2. Settles(c, e) /\ books'[c] = books[c]
    BY <1>5 DEF Undecodable
  <2> HIDE DEF e
  <2> QED
    BY <2>1, <2>2 DEF Enters
<1>6. CASE Lose(c)
  <2>1. PICK t, s : Settles(c, [Sent(c) EXCEPT !.transport = t, !.status = s])
    BY <1>6 DEF Lose
  <2> DEFINE e == [Sent(c) EXCEPT !.transport = t, !.status = s]
  <2>2. Own(e) /\ ~Object(e) /\ e.usage # "parsed"
    BY <1>1 DEF Started, Logged, Object
  <2>3. Settles(c, e) /\ books'[c] = books[c]
    BY <1>6, <2>1 DEF Lose
  <2> HIDE DEF e
  <2> QED
    BY <2>2, <2>3 DEF Enters
<1>8. CASE Escape(c)
  <2>1. PICK t, s, r : Settles(c, [Sent(c) EXCEPT !.transport = t, !.status = s, !.received = r])
    BY <1>8 DEF Escape
  <2> DEFINE e == [Sent(c) EXCEPT !.transport = t, !.status = s, !.received = r]
  <2>2. Own(e) /\ ~Object(e) /\ e.usage # "parsed"
    BY <1>1 DEF Started, Logged, Object
  <2>3. Settles(c, e) /\ books'[c] = books[c]
    BY <1>8, <2>1 DEF Escape
  <2> HIDE DEF e
  <2> QED
    BY <2>2, <2>3 DEF Enters
<1>7. CASE HttpError(c)
  <2>1. PICK s, body, bill : Settles(c, [Sent(c) EXCEPT !.transport = "http_error", !.status = s,
                               !.received = TRUE, !.body = body, !.debit = bill])
    BY <1>7 DEF HttpError
  <2> DEFINE e == [Sent(c) EXCEPT !.transport = "http_error", !.status = s,
                     !.received = TRUE, !.body = body, !.debit = bill]
  <2>2. Own(e) /\ ~Object(e) /\ e.usage # "parsed"
    BY <1>1 DEF Started, Logged, Object
  <2>3. Settles(c, e) /\ books'[c] = books[c]
    BY <1>7, <2>1 DEF HttpError
  <2> HIDE DEF e
  <2> QED
    BY <2>2, <2>3 DEF Enters
<1> QED
  BY <1>2, <1>3, <1>4, <1>5, <1>6, <1>7, <1>8

(* A place is entered in a client's books, or not.                          *)
LEMMA CountPlace ==
  ASSUME TypeOK, NEW S \in SUBSET (1..Len(ledger)), NEW p, p \notin S
  PROVE  Cardinality(S) \in Nat /\ Cardinality(S \cup {p}) = Cardinality(S) + 1
<1>1. IsFiniteSet(S) /\ Cardinality(S) \in Nat
  BY PlacesAreFinite
<1> QED
  BY <1>1, FS_AddElement

LEMMA PlacesOfClient ==
  ASSUME NEW c
  PROVE  /\ Answered(c) \in SUBSET (1..Len(ledger)) /\ Paid(c) \in SUBSET (1..Len(ledger))
         /\ Used(c) \in SUBSET (1..Len(ledger)) /\ Firsts(c) \in SUBSET (1..Len(ledger))
BY DEF Answered, Paid, Used, Firsts, Events

LEMMA QuietStep ==
  ASSUME TypeOK, NEW c \in Clients, OwnBooksAgree(c), Opened(c),
         books'[c] = books[c], Trying(c)' => Trying(c),
         Answered(c)' = Answered(c), Paid(c)' = Paid(c), Used(c)' = Used(c), Firsts(c)' = Firsts(c),
         \A k \in Answered(c) : ledger'[k] = ledger[k]
  PROVE  OwnBooksAgree(c)' /\ Opened(c)'
<1>1. OwnBooksAgree(c)'
  BY DEF OwnBooksAgree
<1>2. books[c].calls \in Nat /\ Cardinality(Firsts(c)) \in Nat
  BY PlacesOfClient, PlacesAreFinite DEF TypeOK, Books
<1> QED
  BY <1>1, <1>2 DEF Opened

LEMMA AppendStep ==
  ASSUME TypeOK, NEW c \in Clients, OwnBooksAgree(c), Opened(c), NEW e \in Written(c),
         ledger' = Append(ledger, e), e.transport \in {"not_dispatched", "started"},
         e.usage = "not_attempted", books'[c] = books[c],
         IF e.kind = "dispatch" THEN pc[c] = "post" /\ e.retry = attempt[c] ELSE ~Trying(c)'
  PROVE  OwnBooksAgree(c)' /\ Opened(c)'
<1> DEFINE p == Len(ledger) + 1
<1>1. /\ Events(c)' = Events(c) \cup {p} /\ p \notin Events(c) /\ ledger'[p] = e
      /\ \A k \in Events(c) : ledger'[k] = ledger[k]
  BY AppendEvents DEF TypeOK
<1> HIDE DEF p
<1>2. Answered(c)' = Answered(c) /\ Paid(c)' = Paid(c) /\ Used(c)' = Used(c)
      /\ \A k \in Answered(c) : ledger'[k] = ledger[k]
  BY <1>1 DEF Answered, Paid, Used
<1>3. Firsts(c)' = IF e.kind = "dispatch" /\ e.retry = 0 THEN Firsts(c) \cup {p} ELSE Firsts(c)
  BY <1>1 DEF Firsts
<1>4. p \notin Firsts(c)
  BY <1>1 DEF Firsts
<1>5. /\ Cardinality(Firsts(c)) \in Nat /\ Cardinality(Firsts(c) \cup {p}) = Cardinality(Firsts(c)) + 1
      /\ books[c].calls \in Nat
  BY <1>4, PlacesOfClient, CountPlace DEF TypeOK, Books
<1>6. OwnBooksAgree(c)'
  BY <1>2 DEF OwnBooksAgree
<1>7. Opened(c)'
  <2>1. CASE e.kind = "dispatch" /\ e.retry = 0
    <3>1. ~Trying(c) /\ Cardinality(Firsts(c))' = Cardinality(Firsts(c)) + 1
      BY <1>3, <1>5, <2>1 DEF Trying
    <3> QED
      BY <1>5, <3>1 DEF Opened
  <2>2. CASE ~(e.kind = "dispatch" /\ e.retry = 0)
    <3>1. Cardinality(Firsts(c))' = Cardinality(Firsts(c)) /\ (Trying(c)' => Trying(c))
      BY <1>3, <2>2 DEF Trying
    <3> QED
      BY <1>5, <3>1 DEF Opened
  <2> QED
    BY <2>1, <2>2
<1> QED
  BY <1>6, <1>7

LEMMA BilledSays ==
  ASSUME NEW b \in Books, NEW bill
  PROVE  /\ Billed(b, bill).responses = b.responses + 1 /\ Billed(b, bill).calls = b.calls
         /\ Billed(b, bill).complete <=> (b.complete /\ bill # "unknown")
         /\ Billed(b, bill).credits = IF bill \in Credit THEN b.credits + 1 ELSE b.credits
         /\ Accounted(b, bill).responses = b.responses + 1 /\ Accounted(b, bill).calls = b.calls + 1
         /\ Accounted(b, bill).complete <=> (b.complete /\ bill # "unknown")
         /\ Accounted(b, bill).credits = IF bill \in Credit THEN b.credits + 1 ELSE b.credits
BY DEF Billed, Accounted, Books

LEMMA SettleStep ==
  ASSUME TypeOK, SentInv, NEW c \in Clients, OwnBooksAgree(c), Opened(c), NEW e,
         pc[c] = "sent", Settles(c, e), Enters(c, e),
         e.client = c, e.kind = "dispatch", e.retry = attempt[c]
  PROVE  OwnBooksAgree(c)' /\ Opened(c)'
<1> DEFINE p == current[c]
<1>1. /\ Events(c)' = Events(c) /\ p \in Events(c) /\ ledger'[p] = e /\ ledger[p] = Started(c)
      /\ \A k \in Events(c) : k # p => ledger'[k] = ledger[k]
  BY SettleEvents DEF TypeOK
<1>2. /\ Started(c).transport = "started" /\ Started(c).usage = "not_attempted"
      /\ Started(c).kind = "dispatch" /\ Started(c).retry = attempt[c]
  BY DEF Started, Logged
<1> HIDE DEF p
<1>3. p \notin Answered(c) /\ p \notin Paid(c) /\ p \notin Used(c)
  BY <1>1, <1>2 DEF Answered, Paid, Used
<1>4. /\ Answered(c)' = IF Object(e) THEN Answered(c) \cup {p} ELSE Answered(c)
      /\ \A k \in Answered(c) : ledger'[k] = ledger[k]
  BY <1>1, <1>2 DEF Answered, Object
<1>5. Paid(c)' = IF Object(e) /\ e.debit \in Credit THEN Paid(c) \cup {p} ELSE Paid(c)
  BY <1>1, <1>3, <1>4 DEF Paid
<1>6. Used(c)' = IF e.usage = "parsed" THEN Used(c) \cup {p} ELSE Used(c)
  BY <1>1, <1>2 DEF Used
<1>7. Firsts(c)' = Firsts(c)
  BY <1>1, <1>2 DEF Firsts
<1>8. /\ Cardinality(Answered(c)) \in Nat /\ Cardinality(Paid(c)) \in Nat /\ Cardinality(Used(c)) \in Nat
      /\ Cardinality(Answered(c) \cup {p}) = Cardinality(Answered(c)) + 1
      /\ Cardinality(Paid(c) \cup {p}) = Cardinality(Paid(c)) + 1
      /\ Cardinality(Used(c) \cup {p}) = Cardinality(Used(c)) + 1
      /\ Cardinality(Firsts(c)) \in Nat
  BY <1>3, PlacesOfClient, CountPlace, PlacesAreFinite
<1>9. books[c] \in Books /\ books[c].calls \in Nat
  BY DEF TypeOK, Books
<1>10. CASE ~Object(e) /\ e.usage # "parsed" /\ books'[c] = books[c]
  BY <1>4, <1>5, <1>6, <1>7, <1>10, QuietStep DEF Trying
<1>11. ASSUME Object(e), books'[c].responses = books[c].responses + 1,
              books'[c].complete <=> (books[c].complete /\ e.debit # "unknown"),
              books'[c].credits = IF e.debit \in Credit THEN books[c].credits + 1 ELSE books[c].credits,
              books'[c].calls = IF e.usage = "parsed" THEN books[c].calls + 1 ELSE books[c].calls
       PROVE  OwnBooksAgree(c)'
  <2>1. books'[c].responses = Cardinality(Answered(c))'
    BY <1>4, <1>8, <1>11 DEF OwnBooksAgree
  <2>2. books'[c].complete <=> \A k \in Answered(c)' : ledger'[k].debit # "unknown"
    BY <1>1, <1>4, <1>11 DEF OwnBooksAgree
  <2>3. books'[c].credits = Cardinality(Paid(c))'
    BY <1>5, <1>8, <1>11 DEF OwnBooksAgree
  <2>4. books'[c].calls = Cardinality(Used(c))'
    BY <1>6, <1>8, <1>11 DEF OwnBooksAgree
  <2> QED
    BY <2>1, <2>2, <2>3, <2>4 DEF OwnBooksAgree
<1>12. CASE Object(e) /\ e.usage = "parsed" /\ books'[c] = Accounted(books[c], e.debit) /\ ~Trying(c)'
  <2>1. OwnBooksAgree(c)'
    BY <1>9, <1>11, <1>12, BilledSays
  <2>2. books'[c].calls = books[c].calls + 1 /\ Trying(c)
    BY <1>9, <1>12, BilledSays DEF Trying
  <2> QED
    BY <1>7, <1>8, <1>9, <1>12, <2>1, <2>2 DEF Opened
<1>13. CASE Object(e) /\ e.usage # "parsed" /\ books'[c] = Billed(books[c], e.debit)
  <2>1. OwnBooksAgree(c)'
    BY <1>9, <1>11, <1>13, BilledSays
  <2>2. books'[c].calls = books[c].calls /\ Trying(c)
    BY <1>9, <1>13, BilledSays DEF Trying
  <2> QED
    BY <1>7, <1>8, <1>9, <2>1, <2>2 DEF Opened
<1> QED
  BY <1>10, <1>12, <1>13 DEF Enters

LEMMA NumberedStep ==
  ASSUME IInv, Numbered, NEW c \in Clients, Step(c)
  PROVE  Numbered'
<1>0. TypeOK /\ SentInv /\ Elsewhere(c) /\ ledger \in Seq(Event)
  BY StepIsLocal DEF IInv, TypeOK
<1>1. \A d \in Clients : pc'[d] # "idle" => call'[d] >= 1
  <2>0. call[c] \in Nat
    BY <1>0 DEF TypeOK
  <2>1. pc'[c] # "idle" => call'[c] >= 1
    <3>1. CASE Begin(c)
      <4>1. call'[c] = call[c] + 1
        BY <1>0, <3>1 DEF Begin, TypeOK
      <4> QED
        BY <2>0, <4>1
    <3>2. CASE ~Begin(c)
      <4>1. call' = call
        BY <3>2 DEF Step, RefuseBudget, NeverDispatches, CacheHit, CacheMiss, Post, Accept,
           Malformed, Undecodable, Lose, HttpError, Escape, Store
      <4>2. CASE pc[c] = "idle"
        BY <3>2, <4>2 DEF Step, RefuseBudget, NeverDispatches, CacheHit, CacheMiss, Post, Accept,
           Malformed, Undecodable, Lose, HttpError, Escape, Store, Goto
      <4>3. CASE pc[c] # "idle"
        BY <4>1, <4>3 DEF Numbered
      <4> QED
        BY <4>2, <4>3
    <3> QED
      BY <3>1, <3>2
  <2> QED
    BY <1>0, <2>1 DEF Elsewhere, Numbered
<1>2. ASSUME NEW e \in Written(c), pc[c] # "idle" PROVE e.call >= 1
  BY <1>2 DEF Written, Numbered
<1>3. CASE Keeps(c)
  BY <1>1, <1>3 DEF Keeps, Numbered
<1>4. CASE Appends(c) \/ Post(c)
  <2>1. PICK e \in Written(c) : ledger' = Append(ledger, e) /\ pc[c] # "idle"
    BY <1>0, <1>4, StartedIsWritten DEF Appends, Post, Started, Goto
  <2>2. e.call >= 1
    BY <1>2, <2>1
  <2> QED
    BY <1>0, <1>1, <2>1, <2>2 DEF Numbered
<1>5. CASE Resolves(c)
  <2>1. PICK e \in Written(c) : pc[c] # "idle" /\ Settles(c, e)
    BY <1>5 DEF Resolves, Settled
  <2>2. e.call >= 1
    BY <1>2, <2>1
  <2> QED
    BY <1>0, <1>1, <2>1, <2>2 DEF Numbered, Settles
<1> QED
  BY <1>0, <1>3, <1>4, <1>5, StepWrites

LEMMA BooksStep ==
  IInv /\ RetryInv /\ BooksInv /\ [Next]_vars => BooksInv'
<1> SUFFICES ASSUME IInv, RetryInv, BooksInv, [Next]_vars PROVE BooksInv'
  OBVIOUS
<1>1. CASE UNCHANGED vars
  <2>1. UNCHANGED <<pc, call, attempt, books, ledger>>
    BY <1>1 DEF vars
  <2>2. Numbered'
    BY <2>1 DEF BooksInv, Numbered
  <2>3. ASSUME NEW c \in Clients PROVE OwnBooksAgree(c)' /\ Opened(c)'
    <3>1. /\ Answered(c)' = Answered(c) /\ Paid(c)' = Paid(c) /\ Used(c)' = Used(c)
          /\ Firsts(c)' = Firsts(c) /\ Trying(c)' = Trying(c)
      BY <2>1 DEF Answered, Paid, Used, Firsts, Events, Trying
    <3>2. OwnBooksAgree(c) /\ Opened(c) /\ TypeOK
      BY DEF BooksInv, IInv
    <3> QED
      BY <2>1, <3>1, <3>2, QuietStep
  <2> QED
    BY <2>2, <2>3 DEF BooksInv
<1>2. ASSUME NEW c \in Clients, Step(c) PROVE BooksInv'
  <2>0. TypeOK /\ SentInv /\ CallIsAt(c) /\ OwnBooksAgree(c) /\ Opened(c)
    BY DEF IInv, RetryInv, BooksInv
  <2>1. Numbered'
    BY <1>2, NumberedStep DEF BooksInv
  <2>2. ASSUME NEW d \in Clients, d # c PROVE OwnBooksAgree(d)' /\ Opened(d)'
    BY <1>2, <2>0, <2>2, OthersKeepBooks DEF BooksInv
  <2>3. OwnBooksAgree(c)' /\ Opened(c)'
    <3>1. CASE pc[c] = "sent"
      BY <1>2, <2>0, <3>1, AnswerBooks, SettleStep
    <3>2. CASE pc[c] = "post"
      <4>1. Post(c)
        BY <1>2, <3>2 DEF Step, Begin, RefuseBudget, NeverDispatches, CacheHit, CacheMiss, Accept,
           Malformed, Undecodable, Lose, HttpError, Escape, Store, Goto
      <4>2. Started(c) \in Written(c) /\ ledger' = Append(ledger, Started(c)) /\ books'[c] = books[c]
        BY <2>0, <4>1, StartedIsWritten DEF Post, Started
      <4>3. /\ Started(c).transport = "started" /\ Started(c).usage = "not_attempted"
            /\ Started(c).kind = "dispatch" /\ Started(c).retry = attempt[c]
        BY DEF Started, Logged
      <4> QED
        BY <2>0, <3>2, <4>2, <4>3, AppendStep
    <3>3. CASE pc[c] \notin {"post", "sent"}
      <4>1. books'[c] = books[c] /\ ~Trying(c)'
        BY <1>2, <2>0, <3>3, QuietBooks DEF CallIsAt
      <4>2. CASE Keeps(c)
        <5>1. /\ Answered(c)' = Answered(c) /\ Paid(c)' = Paid(c) /\ Used(c)' = Used(c)
              /\ Firsts(c)' = Firsts(c) /\ ledger' = ledger
          BY <4>2 DEF Keeps, Answered, Paid, Used, Firsts, Events
        <5> QED
          BY <2>0, <4>1, <5>1, QuietStep
      <4>3. CASE Appends(c)
        BY <2>0, <4>1, <4>3, AppendStep DEF Appends
      <4> QED
        BY <1>2, <2>0, <3>3, <4>2, <4>3, StepWrites DEF Resolves, Post, Goto
    <3> QED
      BY <3>1, <3>2, <3>3
  <2> QED
    BY <2>1, <2>2, <2>3 DEF BooksInv
<1> QED
  BY <1>1, <1>2 DEF Next

LEMMA InitBooksInv == Init => BooksInv
<1> SUFFICES ASSUME Init PROVE BooksInv
  OBVIOUS
<1>1. \A k \in 1..Len(ledger) : FALSE
  BY DEF Init
<1>2. ASSUME NEW c \in Clients
      PROVE  Answered(c) = {} /\ Paid(c) = {} /\ Used(c) = {} /\ Firsts(c) = {}
  BY <1>1 DEF Answered, Paid, Used, Firsts, Events
<1>3. Cardinality({}) = 0
  BY FS_EmptySet
<1>4. ASSUME NEW c \in Clients PROVE OwnBooksAgree(c) /\ Opened(c)
  <2>1. books[c] = [calls |-> 0, responses |-> 0, complete |-> TRUE, credits |-> 0] /\ ~Trying(c)
    BY DEF Init, Trying
  <2> QED
    BY <1>2, <1>3, <2>1 DEF OwnBooksAgree, Opened
<1>5. Numbered
  BY <1>1 DEF Numbered, Init
<1> QED
  BY <1>4, <1>5 DEF BooksInv

(* For any clients, limits and providers, each client's totals and its      *)
(* events tell the same story, and so does the summary of a readable ledger *)
(* (BillingTotals against summarize_dispatch_ledger).                       *)
THEOREM BooksBalance == Spec => []BooksAgree
<1>1. IInv /\ RetryInv /\ BooksInv => BooksAgree
  <2> SUFFICES ASSUME IInv, RetryInv, BooksInv PROVE BooksAgree
    OBVIOUS
  <2>1. TypeOK /\ SentInv /\ CallsAreOver /\ Numbered
    BY DEF IInv, RetryInv, BooksInv
  <2>2. \A c \in Clients : OwnBooksAgree(c) /\ Opened(c)
    BY DEF BooksInv
  <2>3. Readable => SummaryAgrees
    BY <2>1, <2>2, BillsAreAccounted, DebitsPartition, SentIsUnterminated, InvocationsAreCalls,
       ResponsesWereRequested DEF SummaryAgrees
  <2> QED
    BY <2>2, <2>3 DEF BooksAgree
<1>2. Init => RetryInv /\ BooksInv
  BY InitRetryInv, InitBooksInv
<1>3. IInv /\ RetryInv /\ BooksInv /\ [Next]_vars => (IInv /\ RetryInv /\ BooksInv)'
  BY NextIInv, RetryStep, BooksStep
<1> QED
  BY <1>1, <1>2, <1>3, InitIInv, PTL DEF Spec

-----------------------------------------------------------------------------
(* A thread inside a call knows its backend and key. *)
CallInv ==
  \A t \in Threads : at[t] # "idle" => backend[t] \in Backends /\ key[t] \in Keys

(* Who retains a flight, that flights are registered under one key, and     *)
(* that the thread inside a flight's lock is its owner.                     *)
FlightInv ==
  /\ \A t \in Threads : mine[t] # None <=> at[t] \in Retaining
  /\ \A j, k \in Keys : (table[j] = table[k] /\ table[j] # None) => j = k
  /\ \A t \in Threads : at[t] \in Leading => owner[mine[t]] = t

(* What the dispatch lock protects: from the guard to the end of the call   *)
(* nobody else spends on the backend.                                       *)
BudgetInv ==
  /\ \A t \in Threads : at[t] \in {"guard"} \cup Admitted => holder[backend[t]] = t
  /\ \A t \in Threads : at[t] \in {"retain", "acquire", "look"} => spent[backend[t]] < Allowance
  /\ \A t \in Threads : at[t] = "post" => spent[backend[t]] + due[t] < Allowance + Responses
  /\ Overshoot

FlightIInv == FlightTypeOK /\ CallInv /\ FlightInv /\ CountedFlights

-----------------------------------------------------------------------------
(* The users of a flight are finitely many, so they can be counted. *)
LEMMA UsersFinite ==
  ASSUME NEW f PROVE IsFiniteSet(UsersOf(f))
<1>1. UsersOf(f) \in SUBSET Threads
  BY DEF UsersOf
<1> QED
  BY <1>1, FS_Subset, ThreadsAssumption

(* A retained flight is a flight with a user, counted at least once. *)
LEMMA RetainedIsCounted ==
  ASSUME FlightIInv, NEW t \in Threads, at[t] \in Retaining
  PROVE  /\ mine[t] \in Flights /\ key[t] \in Keys /\ table[key[t]] = mine[t]
         /\ users[mine[t]] \in Nat \ {0}
<1>1. mine[t] \in Flights /\ mine[t] # None
  BY DEF FlightIInv, FlightTypeOK, FlightInv
<1>2. key[t] \in Keys /\ table[key[t]] = mine[t]
  <2>1. at[t] # "idle"
    BY DEF Retaining, Leading
  <2> QED
    BY <1>1, <2>1 DEF FlightIInv, CallInv, CountedFlights
<1> QED
  BY <1>1, <1>2 DEF FlightIInv, CountedFlights, FlightTypeOK

(* The last user of a flight is its only one. *)
LEMMA LastUserIsAlone ==
  ASSUME NEW f \in Flights, CountedFlights, users[f] = 1,
         NEW t \in Threads, NEW u \in Threads, mine[t] = f, mine[u] = f
  PROVE  t = u
<1>1. Cardinality(UsersOf(f)) = 1
  BY DEF CountedFlights
<1>2. PICK x : UsersOf(f) = {x}
  BY <1>1, UsersFinite, FS_Singleton
<1>3. t \in UsersOf(f) /\ u \in UsersOf(f)
  BY DEF UsersOf
<1> QED
  BY <1>2, <1>3

-----------------------------------------------------------------------------
LEMMA InitFlightIInv == FlightInit => FlightIInv
<1> SUFFICES ASSUME FlightInit PROVE FlightIInv
  OBVIOUS
<1>1. FlightTypeOK
  BY FlightLimits DEF FlightInit, FlightTypeOK, Points
<1>2. CallInv
  BY DEF FlightInit, CallInv
<1>3. FlightInv
  BY DEF FlightInit, FlightInv, Retaining, Leading
<1>4. \A f \in Flights : UsersOf(f) = {}
  BY NoneAssumption DEF FlightInit, UsersOf
<1>5. CountedFlights
  BY <1>4, FS_EmptySet DEF FlightInit, CountedFlights
<1> QED
  BY <1>1, <1>2, <1>3, <1>5 DEF FlightIInv

(* Only Drop lowers a counter, of a flight its thread retains. *)
LEMMA FlightTypeStep == FlightIInv /\ [FlightNext]_flightVars => FlightTypeOK'
<1> SUFFICES ASSUME FlightIInv, [FlightNext]_flightVars PROVE FlightTypeOK'
  OBVIOUS
<1>0. \A t \in Threads : at[t] \in Retaining => users[mine[t]] \in Nat \ {0}
  BY RetainedIsCounted
<1> USE DEF FlightIInv, FlightTypeOK, MoveTo, Points, Admitted, Retaining, Leading
<1>1. CASE UNCHANGED flightVars
  BY <1>1 DEF flightVars
<1>2. ASSUME NEW t \in Threads, FlightStep(t) PROVE FlightTypeOK'
  <2>1. ASSUME NEW b \in Backends, NEW k \in Keys, StartCall(t, b, k) PROVE FlightTypeOK'
    <3>1. todo' \in [Threads -> 0..Calls]
      <4>1. todo[t] - 1 \in 0..Calls
        BY <2>1, FlightLimits DEF StartCall
      <4> QED
        BY <2>1, <4>1 DEF StartCall
    <3> QED
      BY <2>1, <3>1 DEF StartCall
  <2>2. CASE Enter(t)
    BY <2>2 DEF Enter
  <2>3. CASE Admit(t) \/ Refuse(t)
    BY <2>3 DEF Admit, Refuse
  <2>4. CASE Register(t)
    <3>1. key[t] \in Keys
      BY <2>4 DEF Register, CallInv
    <3>2. PICK f \in Flights : /\ table' = [table EXCEPT ![key[t]] = f]
                               /\ users' = [users EXCEPT ![f] = 1]
                               /\ mine' = [mine EXCEPT ![t] = f]
      BY <2>4 DEF Register
    <3>3. table' \in [Keys -> Flights \cup {None}] /\ mine' \in [Threads -> Flights \cup {None}]
      BY <3>2
    <3>4. users' \in [Flights -> Nat]
      BY <3>2
    <3> QED
      BY <2>4, <3>3, <3>4 DEF Register
  <2>5. CASE Join(t)
    <3>1. key[t] \in Keys
      BY <2>5 DEF Join, CallInv
    <3> QED
      BY <2>5, <3>1 DEF Join
  <2>6. CASE Acquire(t)
    BY <2>6 DEF Acquire
  <2>7. CASE Hit(t) \/ Miss(t)
    BY <2>7, FlightLimits DEF Hit, Miss
  <2>8. CASE Respond(t)
    <3>1. due[t] - 1 \in 0..Responses
      BY <2>8, FlightLimits DEF Respond
    <3>2. due' \in [Threads -> 0..Responses]
      BY <2>8, <3>1 DEF Respond
    <3>3. spent' \in [Backends -> Nat]
      <4>1. backend[t] \in Backends
        BY <2>8 DEF Respond, CallInv
      <4> QED
        BY <2>8, <4>1 DEF Respond
    <3> QED
      BY <2>8, <3>2, <3>3 DEF Respond
  <2>9. CASE Fail(t) \/ StoreRow(t)
    BY <2>9, FlightLimits DEF Fail, StoreRow
  <2>10. CASE Release(t)
    BY <2>10 DEF Release
  <2>11. CASE Drop(t)
    <3>1. users[mine[t]] \in Nat \ {0}
      BY <2>11, <1>0 DEF Drop
    <3>2. users[mine[t]] - 1 \in Nat
      BY <3>1
    <3>3. users' \in [Flights -> Nat]
      BY <2>11, <3>2 DEF Drop
    <3>4. table' \in [Keys -> Flights \cup {None}] /\ mine' \in [Threads -> Flights \cup {None}]
      BY <2>11 DEF Drop
    <3> QED
      BY <2>11, <3>3, <3>4 DEF Drop
  <2>12. CASE Leave(t)
    BY <2>12 DEF Leave
  <2> QED
    BY <1>2, <2>1, <2>2, <2>3, <2>4, <2>5, <2>6, <2>7, <2>8, <2>9, <2>10, <2>11, <2>12 DEF FlightStep
<1> QED
  BY <1>1, <1>2 DEF FlightNext

(* A call keeps its backend and key until it returns. *)
LEMMA FlightCallStep == FlightIInv /\ [FlightNext]_flightVars => CallInv'
<1> SUFFICES ASSUME FlightIInv, [FlightNext]_flightVars PROVE CallInv'
  OBVIOUS
<1> USE DEF FlightIInv, FlightTypeOK, CallInv, MoveTo
<1>1. CASE UNCHANGED flightVars
  BY <1>1 DEF flightVars
<1>2. ASSUME NEW t \in Threads, FlightStep(t) PROVE CallInv'
  <2>1. ASSUME NEW b \in Backends, NEW k \in Keys, StartCall(t, b, k) PROVE CallInv'
    BY <2>1, FlightLimits DEF StartCall
  <2>2. CASE Enter(t) \/ Admit(t) \/ Refuse(t) \/ Register(t) \/ Join(t)
    BY <2>2 DEF Enter, Admit, Refuse, Register, Join
  <2>3. CASE Acquire(t) \/ Hit(t) \/ Miss(t) \/ Respond(t)
    BY <2>3 DEF Acquire, Hit, Miss, Respond
  <2>4. CASE Fail(t) \/ StoreRow(t) \/ Release(t) \/ Drop(t)
    BY <2>4 DEF Fail, StoreRow, Release, Drop
  <2>5. CASE Leave(t)
    BY <2>5 DEF Leave
  <2> QED
    BY <1>2, <2>1, <2>2, <2>3, <2>4, <2>5 DEF FlightStep
<1> QED
  BY <1>1, <1>2 DEF FlightNext

(* Flights: who retains one, under which key it is registered, who is in it. *)
LEMMA CountingStep == FlightIInv /\ [FlightNext]_flightVars => FlightInv'
<1> SUFFICES ASSUME FlightIInv, [FlightNext]_flightVars PROVE FlightInv'
  OBVIOUS
<1>0. \A t \in Threads : at[t] \in Retaining =>
        mine[t] \in Flights /\ key[t] \in Keys /\ table[key[t]] = mine[t]
  BY RetainedIsCounted
<1> USE NoneAssumption DEF FlightIInv, FlightTypeOK, FlightInv, MoveTo, Retaining, Leading
<1>1. CASE UNCHANGED flightVars
  BY <1>1 DEF flightVars
<1>2. ASSUME NEW t \in Threads, FlightStep(t) PROVE FlightInv'
  <2>1. ASSUME NEW b \in Backends, NEW k \in Keys, StartCall(t, b, k) PROVE FlightInv'
    BY <2>1 DEF StartCall
  <2>2. CASE Enter(t) \/ Admit(t) \/ Refuse(t)
    BY <2>2 DEF Enter, Admit, Refuse
  <2>3. CASE Register(t)
    <3>1. PICK f \in Flights : /\ Unreferenced(f)
                               /\ table' = [table EXCEPT ![key[t]] = f]
                               /\ mine' = [mine EXCEPT ![t] = f]
      BY <2>3 DEF Register
    <3>2. /\ \A k \in Keys : table[k] # f
          /\ \A u \in Threads : mine[u] # f
      BY <3>1 DEF Unreferenced, Range
    <3>3. \A u \in Threads : mine'[u] # None <=> at'[u] \in Retaining
      BY <2>3, <3>1 DEF Register
    <3>4. \A j, k \in Keys : (table'[j] = table'[k] /\ table'[j] # None) => j = k
      BY <3>1, <3>2
    <3>5. \A u \in Threads : at'[u] \in Leading => owner'[mine'[u]] = u
      BY <2>3, <3>1 DEF Register
    <3> QED
      BY <3>3, <3>4, <3>5
  <2>4. CASE Join(t)
    BY <2>4 DEF Join
  <2>5. CASE Acquire(t)
    <3>1. \A u \in Threads : at[u] \in Leading => mine[u] # mine[t]
      BY <2>5 DEF Acquire
    <3> QED
      BY <1>0, <2>5, <3>1 DEF Acquire
  <2>6. CASE Hit(t) \/ Miss(t) \/ Respond(t) \/ Fail(t) \/ StoreRow(t)
    BY <2>6 DEF Hit, Miss, Respond, Fail, StoreRow
  <2>7. CASE Release(t)
    <3>1. \A u \in Threads \ {t} : at[u] \in Leading => mine[u] # mine[t]
      BY <2>7 DEF Release
    <3> QED
      BY <1>0, <2>7, <3>1 DEF Release
  <2>8. CASE Drop(t)
    <3>1. \A u \in Threads : mine'[u] # None <=> at'[u] \in Retaining
      BY <2>8 DEF Drop
    <3>2. \A k \in Keys : table'[k] = table[k] \/ table'[k] = None
      BY <2>8 DEF Drop
    <3>3. \A u \in Threads : at'[u] \in Leading => owner'[mine'[u]] = u
      BY <2>8 DEF Drop
    <3> QED
      BY <3>1, <3>2, <3>3
  <2>9. CASE Leave(t)
    BY <2>9 DEF Leave
  <2> QED
    BY <1>2, <2>1, <2>2, <2>3, <2>4, <2>5, <2>6, <2>7, <2>8, <2>9 DEF FlightStep
<1> QED
  BY <1>1, <1>2 DEF FlightNext

(* What a step that leaves flights and their users alone does to the count. *)
LEMMA CountsUntouched ==
  ASSUME CountedFlights, UNCHANGED <<mine, table, users>>,
         \A t \in Threads : mine[t] # None => key'[t] = key[t]
  PROVE  CountedFlights'
  BY DEF CountedFlights, UsersOf

(* Counting: joining and registering add a user, dropping removes one, and  *)
(* only the last takes the flight out of the table.                         *)
LEMMA CountStep == FlightIInv /\ [FlightNext]_flightVars => CountedFlights'
<1> SUFFICES ASSUME FlightIInv, [FlightNext]_flightVars PROVE CountedFlights'
  OBVIOUS
<1>0. \A t \in Threads : at[t] \in Retaining =>
        /\ mine[t] \in Flights /\ key[t] \in Keys /\ table[key[t]] = mine[t]
        /\ users[mine[t]] \in Nat \ {0}
  BY RetainedIsCounted
<1>1. CASE UNCHANGED flightVars
  BY <1>1, CountsUntouched DEF flightVars, FlightIInv
<1>2. ASSUME NEW t \in Threads, FlightStep(t) PROVE CountedFlights'
  <2>1. ASSUME NEW b \in Backends, NEW k \in Keys, StartCall(t, b, k) PROVE CountedFlights'
    <3>1. mine[t] = None
      BY <2>1 DEF StartCall, MoveTo, FlightIInv, FlightInv, Retaining, Leading
    <3>2. \A u \in Threads : mine[u] # None => key'[u] = key[u]
      BY <2>1, <3>1 DEF StartCall, FlightIInv, FlightTypeOK
    <3> QED
      BY <2>1, <3>2, CountsUntouched DEF StartCall, FlightIInv
  <2>2. CASE Enter(t) \/ Admit(t) \/ Refuse(t)
    BY <2>2, CountsUntouched DEF Enter, Admit, Refuse, FlightIInv
  <2>3. CASE Acquire(t) \/ Hit(t) \/ Miss(t) \/ Respond(t)
    BY <2>3, CountsUntouched DEF Acquire, Hit, Miss, Respond, FlightIInv
  <2>4. CASE Fail(t) \/ StoreRow(t) \/ Release(t)
    BY <2>4, CountsUntouched DEF Fail, StoreRow, Release, FlightIInv
  <2>5. CASE Register(t)
    <3>0. key[t] \in Keys /\ mine[t] = None /\ table[key[t]] = None
      BY <2>5 DEF Register, MoveTo, FlightIInv, CallInv, FlightInv, Retaining, Leading
    <3>1. PICK f \in Flights : /\ Unreferenced(f)
                               /\ table' = [table EXCEPT ![key[t]] = f]
                               /\ users' = [users EXCEPT ![f] = 1]
                               /\ mine' = [mine EXCEPT ![t] = f]
      BY <2>5 DEF Register
    <3>2. /\ \A k \in Keys : table[k] # f
          /\ \A u \in Threads : mine[u] # f
      BY <3>1 DEF Unreferenced, Range, FlightIInv, FlightTypeOK
    <3>3. \A k \in Keys : table'[k] # None => users'[table'[k]] > 0
      BY <3>1, <3>2 DEF FlightIInv, FlightTypeOK, CountedFlights
    <3>4. ASSUME NEW g \in Flights PROVE users'[g] = Cardinality(UsersOf(g)')
      <4>1. CASE g = f
        <5>1. UsersOf(g)' = {t}
          BY <3>1, <3>2, <4>1 DEF UsersOf, FlightIInv, FlightTypeOK
        <5>2. Cardinality({t}) = 1
          BY FS_Singleton
        <5> QED
          BY <3>1, <4>1, <5>1, <5>2 DEF FlightIInv, FlightTypeOK
      <4>2. CASE g # f
        <5>1. UsersOf(g)' = UsersOf(g)
          BY <3>0, <3>1, <4>2, NoneAssumption DEF UsersOf, FlightIInv, FlightTypeOK
        <5> QED
          BY <3>1, <4>2, <5>1 DEF FlightIInv, FlightTypeOK, CountedFlights
      <4> QED
        BY <4>1, <4>2
    <3>5. \A u \in Threads : mine'[u] # None => table'[key'[u]] = mine'[u]
      BY <2>5, <3>0, <3>1 DEF Register, FlightIInv, FlightTypeOK, CountedFlights
    <3> QED
      BY <3>3, <3>4, <3>5 DEF CountedFlights
  <2>6. CASE Join(t)
    <3> DEFINE f == table[key[t]]
    <3>0. key[t] \in Keys /\ mine[t] = None /\ f \in Flights
      BY <2>6 DEF Join, MoveTo, FlightIInv, FlightTypeOK, CallInv, FlightInv, Retaining, Leading
    <3>1. users' = [users EXCEPT ![f] = @ + 1] /\ mine' = [mine EXCEPT ![t] = f]
          /\ UNCHANGED <<table, key>>
      BY <2>6 DEF Join
    <3> HIDE DEF f
    <3>3. \A k \in Keys : table'[k] # None => users'[table'[k]] > 0
      BY <3>0, <3>1 DEF FlightIInv, FlightTypeOK, CountedFlights
    <3>4. ASSUME NEW g \in Flights PROVE users'[g] = Cardinality(UsersOf(g)')
      <4>1. CASE g = f
        <5>1. UsersOf(g)' = UsersOf(g) \cup {t} /\ t \notin UsersOf(g)
          BY <3>0, <3>1, <4>1, NoneAssumption DEF UsersOf, FlightIInv, FlightTypeOK
        <5>2. Cardinality(UsersOf(g)') = Cardinality(UsersOf(g)) + 1
          BY <5>1, UsersFinite, FS_AddElement
        <5> QED
          BY <3>0, <3>1, <4>1, <5>2 DEF FlightIInv, FlightTypeOK, CountedFlights
      <4>2. CASE g # f
        <5>1. UsersOf(g)' = UsersOf(g)
          BY <3>0, <3>1, <4>2, NoneAssumption DEF UsersOf, FlightIInv, FlightTypeOK
        <5> QED
          BY <3>1, <4>2, <5>1 DEF FlightIInv, FlightTypeOK, CountedFlights
      <4> QED
        BY <4>1, <4>2
    <3>5. \A u \in Threads : mine'[u] # None => table'[key'[u]] = mine'[u]
      BY <3>0, <3>1 DEF f, FlightIInv, FlightTypeOK, CountedFlights
    <3> QED
      BY <3>3, <3>4, <3>5 DEF CountedFlights
  <2>7. CASE Drop(t)
    <3> DEFINE f == mine[t]
    <3>0. key[t] \in Keys /\ f \in Flights /\ table[key[t]] = f /\ users[f] \in Nat \ {0}
      BY <1>0, <2>7 DEF Drop, MoveTo, Retaining
    <3>1. /\ users' = [users EXCEPT ![f] = @ - 1] /\ mine' = [mine EXCEPT ![t] = None]
          /\ table' = IF users[f] = 1 THEN [table EXCEPT ![key[t]] = None] ELSE table
          /\ UNCHANGED key
      BY <2>7, <3>0 DEF Drop
    <3>2. f = mine[t]
      OBVIOUS
    <3> HIDE DEF f
    <3>3. ASSUME NEW k \in Keys, table'[k] # None PROVE users'[table'[k]] > 0
      <4>1. table'[k] = table[k] /\ table[k] \in Flights /\ users[table[k]] > 0
        BY <3>0, <3>1, <3>3 DEF FlightIInv, FlightTypeOK, CountedFlights
      <4>2. CASE k = key[t]
        <5>1. table[k] = f /\ users[f] # 1
          BY <3>0, <3>1, <3>3, <4>2 DEF FlightIInv, FlightTypeOK
        <5> QED
          BY <3>0, <3>1, <4>1, <5>1 DEF FlightIInv, FlightTypeOK
      <4>3. CASE k # key[t]
        <5>1. table[k] # f
          BY <3>0, <4>3, NoneAssumption DEF FlightIInv, FlightInv
        <5> QED
          BY <3>1, <4>1, <5>1 DEF FlightIInv, FlightTypeOK
      <4> QED
        BY <4>2, <4>3
    <3>4. ASSUME NEW g \in Flights PROVE users'[g] = Cardinality(UsersOf(g)')
      <4>1. CASE g = f
        <5>1. UsersOf(g)' = UsersOf(g) \ {t} /\ t \in UsersOf(g)
          BY <3>0, <3>1, <3>2, <4>1, NoneAssumption DEF UsersOf, FlightIInv, FlightTypeOK
        <5>2. Cardinality(UsersOf(g)') = Cardinality(UsersOf(g)) - 1
          BY <5>1, UsersFinite, FS_RemoveElement
        <5> QED
          BY <3>0, <3>1, <4>1, <5>2 DEF FlightIInv, FlightTypeOK, CountedFlights
      <4>2. CASE g # f
        <5>1. UsersOf(g)' = UsersOf(g)
          BY <3>1, <3>2, <4>2, NoneAssumption DEF UsersOf, FlightIInv, FlightTypeOK
        <5> QED
          BY <3>1, <4>2, <5>1 DEF FlightIInv, FlightTypeOK, CountedFlights
      <4> QED
        BY <4>1, <4>2
    <3>5. ASSUME NEW u \in Threads, mine'[u] # None PROVE table'[key'[u]] = mine'[u]
      <4>1. u # t /\ mine'[u] = mine[u] /\ key'[u] = key[u] /\ table[key[u]] = mine[u]
        BY <3>1, <3>5 DEF FlightIInv, FlightTypeOK, CountedFlights
      <4>2. CASE users[f] = 1
        <5>1. mine[u] # f
          BY <3>0, <3>2, <4>1, <4>2, LastUserIsAlone DEF FlightIInv
        <5>2. key[u] # key[t]
          BY <3>0, <4>1, <5>1
        <5> QED
          BY <3>1, <4>1, <5>2 DEF FlightIInv, FlightTypeOK
      <4>3. CASE users[f] # 1
        BY <3>1, <4>1, <4>3
      <4> QED
        BY <4>2, <4>3
    <3> QED
      BY <3>3, <3>4, <3>5 DEF CountedFlights
  <2>8. CASE Leave(t)
    <3>1. mine[t] = None
      BY <2>8 DEF Leave, MoveTo, FlightIInv, FlightInv, Retaining, Leading
    <3>2. \A u \in Threads : mine[u] # None => key'[u] = key[u]
      BY <2>8, <3>1 DEF Leave, FlightIInv, FlightTypeOK
    <3> QED
      BY <2>8, <3>2, CountsUntouched DEF Leave, FlightIInv
  <2> QED
    BY <1>2, <2>1, <2>2, <2>3, <2>4, <2>5, <2>6, <2>7, <2>8 DEF FlightStep
<1> QED
  BY <1>1, <1>2 DEF FlightNext

(* The inductive invariant, from its four parts. *)
THEOREM Flying == FlightSpec => []FlightIInv
<1>1. FlightIInv /\ [FlightNext]_flightVars => FlightIInv'
  BY FlightTypeStep, FlightCallStep, CountingStep, CountStep DEF FlightIInv
<1> QED
  BY InitFlightIInv, <1>1, PTL DEF FlightSpec

(* Two leaders of one key would share its flight, whose lock has one owner. *)
LEMMA FlightsLead == FlightIInv => OneLeader
<1> SUFFICES ASSUME FlightIInv, NEW t \in Threads, NEW u \in Threads,
                    at[t] \in Leading, at[u] \in Leading, key[t] = key[u]
             PROVE  t = u
  BY DEF OneLeader
<1>1. mine[t] = mine[u]
  BY RetainedIsCounted DEF Retaining
<1> QED
  BY <1>1 DEF FlightIInv, FlightInv

(* A row only appears by the hand of the leader of its key. *)
LEMMA FreshStep == FlightIInv /\ MissIsFresh /\ [FlightNext]_flightVars => MissIsFresh'
<1> SUFFICES ASSUME FlightIInv, MissIsFresh, [FlightNext]_flightVars PROVE MissIsFresh'
  OBVIOUS
<1>0. OneLeader
  BY FlightsLead
<1> USE DEF MissIsFresh, MoveTo
<1>1. CASE UNCHANGED flightVars
  BY <1>1 DEF flightVars
<1>2. ASSUME NEW t \in Threads, FlightStep(t) PROVE MissIsFresh'
  <2>1. ASSUME NEW b \in Backends, NEW k \in Keys, StartCall(t, b, k) PROVE MissIsFresh'
    BY <2>1 DEF StartCall, FlightIInv, FlightTypeOK
  <2>2. CASE Enter(t) \/ Admit(t) \/ Refuse(t) \/ Register(t) \/ Join(t)
    BY <2>2 DEF Enter, Admit, Refuse, Register, Join, FlightIInv, FlightTypeOK
  <2>3. CASE Acquire(t) \/ Hit(t) \/ Miss(t) \/ Respond(t)
    BY <2>3 DEF Acquire, Hit, Miss, Respond, FlightIInv, FlightTypeOK
  <2>4. CASE Fail(t) \/ Release(t) \/ Drop(t) \/ Leave(t)
    BY <2>4 DEF Fail, Release, Drop, Leave, FlightIInv, FlightTypeOK
  <2>5. CASE StoreRow(t)
    <3>1. ASSUME NEW u \in Threads, at'[u] \in {"post", "store"} PROVE rows'[key'[u]] = "none"
      <4>1. u # t /\ at[u] \in {"post", "store"} /\ at[t] = "store"
        BY <2>5, <3>1 DEF StoreRow, FlightIInv, FlightTypeOK
      <4>2. key[u] # key[t]
        BY <1>0, <4>1 DEF OneLeader, Leading
      <4>3. key[u] \in Keys /\ key[t] \in Keys
        BY <4>1 DEF FlightIInv, CallInv
      <4> QED
        BY <2>5, <4>1, <4>2, <4>3 DEF StoreRow, FlightIInv, FlightTypeOK
    <3> QED
      BY <3>1
  <2> QED
    BY <1>2, <2>1, <2>2, <2>3, <2>4, <2>5 DEF FlightStep
<1> QED
  BY <1>1, <1>2 DEF FlightNext

(* The dispatch lock makes guard, posts and accounting one transaction.     *)
LEMMA BudgetStep == FlightTypeOK /\ CallInv /\ BudgetInv /\ [FlightNext]_flightVars => BudgetInv'
<1> SUFFICES ASSUME FlightTypeOK, CallInv, BudgetInv, [FlightNext]_flightVars PROVE BudgetInv'
  OBVIOUS
<1> USE FlightLimits, NoneAssumption DEF FlightTypeOK, BudgetInv, Overshoot, MoveTo, Admitted, Retaining, Leading
<1>1. CASE UNCHANGED flightVars
  BY <1>1 DEF flightVars
<1>2. ASSUME NEW t \in Threads, FlightStep(t) PROVE BudgetInv'
  <2>1. ASSUME NEW b \in Backends, NEW k \in Keys, StartCall(t, b, k) PROVE BudgetInv'
    BY <2>1 DEF StartCall
  <2>2. CASE Enter(t)
    <3>1. backend[t] \in Backends
      BY <2>2 DEF Enter, CallInv
    <3>2. \A u \in Threads : at[u] \in {"guard"} \cup Admitted => backend[u] # backend[t]
      BY <2>2 DEF Enter
    <3>3. \A u \in Threads : at'[u] \in {"guard"} \cup Admitted => holder'[backend'[u]] = u
      <4> SUFFICES ASSUME NEW u \in Threads, at'[u] \in {"guard"} \cup Admitted
                   PROVE  holder'[backend'[u]] = u
        OBVIOUS
      <4>1. CASE u = t
        BY <2>2, <3>1, <4>1 DEF Enter
      <4>2. CASE u # t
        BY <2>2, <3>2, <4>2 DEF Enter
      <4> QED
        BY <4>1, <4>2
    <3>4. Overshoot'
      BY <2>2 DEF Enter
    <3>5. \A u \in Threads : at'[u] \in {"retain", "acquire", "look", "post"} => at'[u] = at[u]
      BY <2>2 DEF Enter
    <3> QED
      BY <2>2, <3>3, <3>4, <3>5 DEF Enter
  <2>3. CASE Admit(t) \/ Refuse(t)
    BY <2>3 DEF Admit, Refuse
  <2>4. CASE Register(t) \/ Join(t)
    BY <2>4 DEF Register, Join
  <2>5. CASE Acquire(t) \/ Hit(t)
    BY <2>5 DEF Acquire, Hit
  <2>6. CASE Miss(t)
    <3>1. spent[backend[t]] < Allowance /\ backend[t] \in Backends /\ spent[backend[t]] \in Nat
      BY <2>6 DEF Miss, CallInv
    <3>2. spent[backend[t]] + Responses < Allowance + Responses
      BY <3>1
    <3>3. due'[t] = Responses /\ \A u \in Threads \ {t} : due'[u] = due[u] /\ at'[u] = at[u]
      BY <2>6 DEF Miss
    <3>4. \A u \in Threads : at'[u] = "post" => spent'[backend'[u]] + due'[u] < Allowance + Responses
      BY <2>6, <3>2, <3>3 DEF Miss
    <3> QED
      BY <2>6, <3>4 DEF Miss
  <2>7. CASE Respond(t)
    <3> DEFINE b == backend[t]
    <3>1. /\ b \in Backends /\ spent[b] \in Nat /\ due[t] \in Nat \ {0}
          /\ spent[b] + due[t] < Allowance + Responses
      BY <2>7 DEF Respond, CallInv
    <3>2. spent' = [spent EXCEPT ![b] = @ + 1] /\ due' = [due EXCEPT ![t] = @ - 1]
          /\ UNCHANGED <<backend, holder>>
      BY <2>7 DEF Respond
    <3>3. \A u \in Threads \ {t} : at'[u] = at[u]
          /\ (at[u] \in {"guard"} \cup Admitted => backend[u] # b)
      BY <2>7 DEF Respond
    <3>4. at'[t] \in {"post", "store"} /\ at[t] = "post"
      BY <2>7 DEF Respond
    <3> HIDE DEF b
    <3>5. spent'[b] = spent[b] + 1 /\ due'[t] = due[t] - 1
      BY <3>1, <3>2
    <3>6. spent'[b] + due'[t] < Allowance + Responses /\ spent'[b] < Allowance + Responses
      BY <3>1, <3>5
    <3>7. \A c \in Backends \ {b} : spent'[c] = spent[c]
      BY <3>2
    <3>8. Overshoot'
      BY <3>6, <3>7
    <3>9. ASSUME NEW u \in Threads \ {t}
          PROVE  /\ at'[u] \in {"guard"} \cup Admitted => holder'[backend'[u]] = u
                 /\ at'[u] \in {"retain", "acquire", "look"} => spent'[backend'[u]] < Allowance
                 /\ at'[u] = "post" => spent'[backend'[u]] + due'[u] < Allowance + Responses
      <4>1. at'[u] \in {"guard"} \cup Admitted => spent'[backend'[u]] = spent[backend[u]]
        BY <3>2, <3>3, <3>7 DEF CallInv
      <4>2. due'[u] = due[u]
        BY <3>2
      <4> QED
        BY <3>2, <3>3, <4>1, <4>2
    <3>10. /\ holder'[backend'[t]] = t
           /\ spent'[backend'[t]] + due'[t] < Allowance + Responses
      BY <3>2, <3>4, <3>6 DEF b
    <3> QED
      BY <3>4, <3>8, <3>9, <3>10
  <2>8. CASE Fail(t) \/ StoreRow(t) \/ Release(t) \/ Drop(t)
    BY <2>8 DEF Fail, StoreRow, Release, Drop
  <2>9. CASE Leave(t)
    BY <2>9 DEF Leave
  <2> QED
    BY <1>2, <2>1, <2>2, <2>3, <2>4, <2>5, <2>6, <2>7, <2>8, <2>9 DEF FlightStep
<1> QED
  BY <1>1, <1>2 DEF FlightNext

-----------------------------------------------------------------------------
(* Type correctness, however many threads call. *)
THEOREM FlightTypeCorrect == FlightSpec => []FlightTypeOK
<1>1. FlightIInv => FlightTypeOK
  BY DEF FlightIInv
<1> QED
  BY <1>1, Flying, PTL

(* The reference counts of flights are right and the table leaks nothing:   *)
(* for every number of threads, whatever fails.                             *)
THEOREM FlightsCounted == FlightSpec => []CountedFlights
<1>1. FlightIInv => CountedFlights
  BY DEF FlightIInv
<1> QED
  BY <1>1, Flying, PTL

(* One thread at a time works on the miss of a key. *)
THEOREM LeaderIsAlone == FlightSpec => []OneLeader
  BY Flying, FlightsLead, PTL

(* No request is posted for a key that has been answered meanwhile. *)
THEOREM MissStaysFresh == FlightSpec => []MissIsFresh
<1>1. FlightInit => MissIsFresh
  BY DEF FlightInit, MissIsFresh
<1> QED
  BY <1>1, Flying, FreshStep, PTL DEF FlightSpec

(* No number of threads makes a backend overshoot its ceiling by a whole    *)
(* completion.                                                              *)
THEOREM OvershootBounded == FlightSpec => []Overshoot
<1>1. FlightInit => BudgetInv
  BY FlightLimits DEF FlightInit, BudgetInv, Overshoot, Admitted, Retaining, Leading
<1>2. FlightIInv /\ BudgetInv /\ [FlightNext]_flightVars => BudgetInv'
  BY BudgetStep DEF FlightIInv
<1>3. BudgetInv => Overshoot
  BY DEF BudgetInv
<1> QED
  BY <1>1, <1>2, <1>3, Flying, PTL DEF FlightSpec
=============================================================================
