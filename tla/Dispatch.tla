------------------------------ MODULE Dispatch ------------------------------
(***************************************************************************)
(* HTTPLLM clients (llm.py) that keep one dispatch ledger: a list of       *)
(* events, one for each request that was sent and one for each call that   *)
(* sent none, beside the client's own totals of usage and billing          *)
(* (_billing.py).  A call asks for some responses, each with a bounded     *)
(* number of attempts; the provider may do anything with an attempt.       *)
(*                                                                         *)
(* A client has one call at a time (its dispatch lock).  The fields of an  *)
(* event are written by its client alone, so an attempt is two steps: the  *)
(* event appended before the request, and what the request came to.  The   *)
(* cache may hold any row (Singleflight says which it does).  Pacing,      *)
(* backoff and counters that only word a message are left out.             *)
(***************************************************************************)
EXTENDS Integers, Sequences, FiniteSets

CONSTANTS Clients,
          MaxAttempts,     \* attempts per response (max_attempts)
          Ceiling,         \* client -> responses accounted before calls are refused
          Statuses, Bills, \* what the provider may answer
          Copies,          \* the most responses a call asks for (bound of the model)
          MaxCalls,        \* client -> calls it makes (bound of the model)
          MaxEvents        \* events of a client that begins no more calls (bound)

(* Classes of HTTP status.  urllib raises whatever is not 2xx and not a     *)
(* redirect it follows, in the range a status line may have, 100..999:      *)
(* below 400 "redirect", above 599 "beyond"; and 402, a 429 that names an   *)
(* exhausted quota, 401/403/404/410, 429/503, the other retryable ones, and *)
(* the rest of 400..599.                                                    *)
Outlandish == {"redirect", "beyond"}
AllStatuses == Outlandish \cup {"payment", "quota", "gone", "limited", "busy", "bad"}

(* What billing_cost shows: credits, energy, or nothing usable.  A vast     *)
(* amount has more digits than Decimal keeps and an exponent at its limit:  *)
(* BillingTotals.add takes it, and the sum it prints has a larger one.      *)
Vast == {"vast", "vast_noncredit"}
Credit == {"observed", "vast"}
AllBills == {"observed", "noncredit", "unknown"} \cup Vast

ASSUME ClientsAssumption == IsFiniteSet(Clients) /\ Ceiling \in [Clients -> Nat]
ASSUME LimitsAssumption ==
  /\ MaxAttempts \in Nat \ {0} /\ Copies \in Nat \ {0}
  /\ MaxCalls \in [Clients -> Nat] /\ MaxEvents \in Nat
ASSUME ProviderAssumption == Statuses \subseteq AllStatuses /\ Bills \subseteq AllBills

VARIABLES
  pc,        \* where each client is in complete()
  call,      \* its number of calls so far; the invocation id of the current one
  before,    \* length of the ledger when the call began
  asked,     \* request_count
  left,      \* responses still to be had
  attempt,   \* retry index of the next request
  current,   \* the client's _dispatch_event: its place in the ledger
  books,     \* its usage.calls and billing totals
  outcome,   \* what the last call returned or raised
  ledger     \* the dispatch ledger the clients share

vars == <<pc, call, before, asked, left, attempt, current, books, outcome, ledger>>

Outcomes == {"none", "answer", "budget", "raised", "malformed", "quota", "unavailable",
             "refused", "rate_limited", "timed_out", "failed"}
ParseStatus == {"not_attempted", "parsed", "failed"}
Event ==
  [client : Clients, call : Nat,
   kind : {"dispatch", "cache_hit", "budget_refusal", "pre_dispatch_error"},
   retry : Int,
   transport : {"not_dispatched", "started", "response_received", "http_error",
                "timeout", "transport_error"},
   status : AllStatuses \cup {"ok", "none"},
   received : BOOLEAN,
   body : ParseStatus, content : ParseStatus, usage : ParseStatus,
   debit : AllBills]
Books == [calls : Nat, responses : Nat, complete : BOOLEAN, credits : Nat]

TypeOK ==
  /\ pc \in [Clients -> {"idle", "guard", "post", "sent", "store"}]
  /\ call \in [Clients -> Nat]
  /\ before \in [Clients -> Nat]
  /\ asked \in [Clients -> Nat] /\ left \in [Clients -> Nat]
  /\ attempt \in [Clients -> 0..MaxAttempts - 1]
  /\ current \in [Clients -> Nat]
  /\ books \in [Clients -> Books]
  /\ outcome \in [Clients -> Outcomes]
  /\ ledger \in Seq(Event)

Init ==
  /\ pc = [c \in Clients |-> "idle"]
  /\ call = [c \in Clients |-> 0]
  /\ before = [c \in Clients |-> 0]
  /\ asked = [c \in Clients |-> 0]
  /\ left = [c \in Clients |-> 0]
  /\ attempt = [c \in Clients |-> 0]
  /\ current = [c \in Clients |-> 0]
  /\ books = [c \in Clients |->
                [calls |-> 0, responses |-> 0, complete |-> TRUE, credits |-> 0]]
  /\ outcome = [c \in Clients |-> "none"]
  /\ ledger = << >>

-----------------------------------------------------------------------------
(* _event *)
Logged(c, kind) ==
  [client |-> c, call |-> call[c], kind |-> kind, retry |-> -1,
   transport |-> "not_dispatched", status |-> "none", received |-> FALSE,
   body |-> "not_attempted", content |-> "not_attempted", usage |-> "not_attempted",
   debit |-> "unknown"]

Events(c) == {k \in 1..Len(ledger) : ledger[k].client = c}

Goto(c, from, to) == pc[c] = from /\ pc' = [pc EXCEPT ![c] = to]
Ends(c, how) == pc' = [pc EXCEPT ![c] = "idle"] /\ outcome' = [outcome EXCEPT ![c] = how]

(* What the attempt under way came to. *)
Sent(c) == ledger[current[c]]
Settles(c, event) == ledger' = [ledger EXCEPT ![current[c]] = event]

Begin(c) ==
  /\ Goto(c, "idle", "guard")
  /\ call[c] < MaxCalls[c] /\ Cardinality(Events(c)) < MaxEvents
  /\ call' = [call EXCEPT ![c] = @ + 1]
  /\ before' = [before EXCEPT ![c] = Len(ledger)]
  /\ asked' = [asked EXCEPT ![c] = 0] /\ left' = [left EXCEPT ![c] = 0]
  /\ attempt' = [attempt EXCEPT ![c] = 0]
  /\ current' = [current EXCEPT ![c] = 0]
  /\ outcome' = [outcome EXCEPT ![c] = "none"]
  /\ UNCHANGED <<books, ledger>>

(* _guard_budget, _guard_request_ceiling *)
OverBudget(c) == books[c].calls >= Ceiling[c]

RefuseBudget(c) ==
  /\ pc[c] = "guard" /\ OverBudget(c)
  /\ ledger' = Append(ledger, Logged(c, "budget_refusal"))
  /\ Ends(c, "budget")
  /\ UNCHANGED <<call, before, asked, left, attempt, current, books>>

(* The key, the lookup or the request cannot be made: the handler takes an  *)
(* unchanged length for "this call has logged nothing".                     *)
NeverDispatches(c) ==
  /\ pc[c] = "guard" /\ ~OverBudget(c)
  /\ ledger' = IF Len(ledger) = before[c]
                 THEN Append(ledger, Logged(c, "pre_dispatch_error")) ELSE ledger
  /\ Ends(c, "raised")
  /\ UNCHANGED <<call, before, asked, left, attempt, current, books>>

(* A row that does not decode raises, after its event is logged. *)
CacheHit(c) ==
  /\ pc[c] = "guard" /\ ~OverBudget(c)
  /\ \E body \in {"parsed", "failed"} :
       /\ ledger' = Append(ledger, [Logged(c, "cache_hit") EXCEPT !.body = body])
       /\ Ends(c, IF body = "parsed" THEN "answer" ELSE "raised")
  /\ UNCHANGED <<call, before, asked, left, attempt, current, books>>

CacheMiss(c) ==
  /\ Goto(c, "guard", "post") /\ ~OverBudget(c)
  /\ \E n \in 1..Copies :
       asked' = [asked EXCEPT ![c] = n] /\ left' = [left EXCEPT ![c] = n]
  /\ UNCHANGED <<call, before, attempt, current, books, outcome, ledger>>

-----------------------------------------------------------------------------
(* _post: one attempt. *)

Post(c) ==
  /\ Goto(c, "post", "sent")
  /\ ledger' = Append(ledger, [Logged(c, "dispatch") EXCEPT
                                 !.retry = attempt[c], !.transport = "started"])
  /\ current' = [current EXCEPT ![c] = Len(ledger) + 1]
  /\ UNCHANGED <<call, before, asked, left, attempt, books, outcome>>

(* BillingTotals.add, for a response that is an object. *)
Billed(book, bill) ==
  [book EXCEPT !.responses = @ + 1,
               !.complete = @ /\ bill # "unknown",
               !.credits = IF bill \in Credit THEN @ + 1 ELSE @]

(* Accepted responses are usage, too. *)
Accounted(book, bill) == [Billed(book, bill) EXCEPT !.calls = @ + 1]

Decoded(c, bill) ==
  [Sent(c) EXCEPT !.transport = "response_received", !.status = "ok",
                  !.received = TRUE, !.body = "parsed", !.debit = bill]

(* The response is accounted; the next one, if any, starts afresh. *)
Accept(c) ==
  /\ Goto(c, "sent", IF left[c] = 1 THEN "store" ELSE "post")
  /\ \E bill \in Bills :
       /\ Settles(c, [Decoded(c, bill) EXCEPT !.content = "parsed", !.usage = "parsed"])
       /\ books' = [books EXCEPT ![c] = Accounted(books[c], bill)]
  /\ left' = [left EXCEPT ![c] = @ - 1]
  /\ attempt' = [attempt EXCEPT ![c] = 0]
  /\ UNCHANGED <<call, before, asked, current, outcome>>

(* Mutant of Malformed: billing is added to the totals of accepted          *)
(* responses only.                                                          *)
MalformedUnbilled(c) ==
  /\ pc[c] = "sent"
  /\ \E bill \in Bills, content \in {"parsed", "failed"} :
       Settles(c, [Decoded(c, bill) EXCEPT !.content = content,
                     !.usage = IF content = "parsed" THEN "failed" ELSE @])
  /\ Ends(c, "malformed")
  /\ UNCHANGED <<call, before, asked, left, attempt, current, books>>

(* Mutant of Malformed: usage is looked at before content. *)
MalformedUsageFirst(c) ==
  /\ pc[c] = "sent"
  /\ \E bill \in Bills :
       /\ Settles(c, [Decoded(c, bill) EXCEPT !.usage = "failed"])
       /\ books' = [books EXCEPT ![c] = Billed(books[c], bill)]
  /\ Ends(c, "malformed")
  /\ UNCHANGED <<call, before, asked, left, attempt, current>>

(* The object is billed, then found without usable content, or with content *)
(* and without usable usage.                                                *)
Malformed(c) ==
  /\ pc[c] = "sent"
  /\ \E bill \in Bills, content \in {"parsed", "failed"} :
       /\ Settles(c, [Decoded(c, bill) EXCEPT !.content = content,
                        !.usage = IF content = "parsed" THEN "failed" ELSE @])
       /\ books' = [books EXCEPT ![c] = Billed(books[c], bill)]
  /\ Ends(c, "malformed")
  /\ UNCHANGED <<call, before, asked, left, attempt, current>>

(* A body that is not a JSON object. *)
Undecodable(c) ==
  /\ pc[c] = "sent"
  /\ Settles(c, [Decoded(c, "unknown") EXCEPT !.body = "failed"])
  /\ Ends(c, "malformed")
  /\ UNCHANGED <<call, before, asked, left, attempt, current, books>>

(* Mutant of RetryOr: one attempt too many. *)
RetryOrTooOften(c, how) ==
  IF attempt[c] = MaxAttempts
    THEN Ends(c, how) /\ UNCHANGED attempt
    ELSE /\ attempt' = [attempt EXCEPT ![c] = @ + 1]
         /\ Goto(c, "sent", "post") /\ UNCHANGED outcome

(* The end of the loop: another attempt, or the error of the last one. *)
RetryOr(c, how) ==
  IF attempt[c] = MaxAttempts - 1
    THEN Ends(c, how) /\ UNCHANGED attempt
    ELSE /\ attempt' = [attempt EXCEPT ![c] = @ + 1]
         /\ Goto(c, "sent", "post") /\ UNCHANGED outcome

(* A read that times out, before the headers or in the body; a connect that *)
(* does, which urllib wraps in a URLError; a connection that is refused or  *)
(* dropped.                                                                 *)
Losses ==
  [transport : {"timeout"}, status : {"none", "ok"}, how : {"timed_out"}]
    \cup [transport : {"timeout"}, status : {"none"}, how : {"failed"}]
    \cup [transport : {"transport_error"}, status : {"none", "ok"}, how : {"failed"}]

Lose(c) ==
  /\ pc[c] = "sent"
  /\ \E loss \in Losses :
       /\ Settles(c, [Sent(c) EXCEPT !.transport = loss.transport, !.status = loss.status])
       /\ RetryOr(c, loss.how)
  /\ UNCHANGED <<call, before, asked, left, current, books>>

(* What is raised for a status: in the last attempt, or at once. *)
Raised(status) ==
  CASE status \in {"payment", "quota"} -> "quota"
    [] status = "gone" -> "unavailable"
    [] status \in {"bad"} \cup Outlandish -> "refused"
    [] status = "limited" -> "rate_limited"
    [] status = "busy" -> "failed"

(* Mutant of Transient: 429 is retried whatever its body says. *)
TransientQuota(status) == status \in {"limited", "busy", "quota"}

Transient(status) == status \in {"limited", "busy"}

(* urlopen raises HTTPError; its body may carry a bill. *)
HttpError(c) ==
  /\ pc[c] = "sent"
  /\ \E status \in Statuses, body \in {"parsed", "failed"}, bill \in Bills :
       /\ body = "failed" => bill = "unknown"
       /\ Settles(c, [Sent(c) EXCEPT !.transport = "http_error", !.status = status,
                        !.received = TRUE, !.body = body, !.debit = bill])
       /\ IF Transient(status) THEN RetryOr(c, Raised(status))
          ELSE Ends(c, Raised(status)) /\ UNCHANGED attempt
  /\ UNCHANGED <<call, before, asked, left, current, books>>

(* Nothing catches what is raised while the body of an HTTPError is read,   *)
(* an OSError of another kind or a ValueError from urlopen or read, nor the *)
(* RecursionError of a body nested too deep for json.                       *)
Escape(c) ==
  /\ pc[c] = "sent"
  /\ \E end \in [transport : {"http_error"}, status : Statuses, received : BOOLEAN]
                  \cup [transport : {"started"}, status : {"none"}, received : {FALSE}]
                  \cup [transport : {"response_received"}, status : {"ok"}, received : BOOLEAN] :
       Settles(c, [Sent(c) EXCEPT !.transport = end.transport, !.status = end.status,
                                  !.received = end.received])
  /\ Ends(c, "raised")
  /\ UNCHANGED <<call, before, asked, left, attempt, current, books>>

(* cache.put succeeds, or raises and the answer is lost. *)
Store(c) ==
  /\ pc[c] = "store"
  /\ Ends(c, "answer") \/ Ends(c, "raised")
  /\ UNCHANGED <<call, before, asked, left, attempt, current, books, ledger>>

Step(c) ==
  \/ Begin(c) \/ RefuseBudget(c) \/ NeverDispatches(c) \/ CacheHit(c) \/ CacheMiss(c)
  \/ Post(c) \/ Accept(c) \/ Malformed(c) \/ Undecodable(c) \/ Lose(c) \/ HttpError(c)
  \/ Escape(c) \/ Store(c)

Next == \E c \in Clients : Step(c)

Spec == Init /\ [][Next]_vars

-----------------------------------------------------------------------------
(* _validate_ledger_event: what the reader of a ledger requires of an       *)
(* event.  A status is in 100..599, and at least 400 with an HTTP error.    *)
Accepts(e) ==
  IF e.kind # "dispatch"
    THEN /\ e.retry = -1 /\ e.transport = "not_dispatched" /\ ~e.received
         /\ e.status = "none" /\ e.debit = "unknown"
         /\ e.content = "not_attempted" /\ e.usage = "not_attempted"
         /\ e.kind # "cache_hit" => e.body = "not_attempted"
    ELSE /\ e.transport # "not_dispatched" /\ e.retry >= 0
         /\ e.transport = "response_received" => e.status = "ok"
         /\ e.transport = "http_error" => e.status \notin {"none", "ok", "redirect"}
         /\ e.status # "beyond"
         /\ e.transport = "started" => e.status = "none"
         /\ e.received => e.transport \in {"response_received", "http_error"}
         /\ ~e.received => {e.body, e.content, e.usage} = {"not_attempted"}
         /\ e.content # "not_attempted" => e.body = "parsed"
         /\ e.usage # "not_attempted" => e.content = "parsed"
         /\ e.debit # "unknown" => e.received /\ e.body = "parsed" /\ e.debit \notin Vast

OfCall(c, n) == {k \in Events(c) : ledger[k].call = n}
Latest(places) == CHOOSE k \in places : \A l \in places : l <= k

(* Nobody pays twice: a request is only sent again after an attempt that    *)
(* was lost or met a transient refusal, never after a response, however     *)
(* malformed, nor a terminal refusal; the retry indices of the ledger count *)
(* the attempts of one response and stay below max_attempts.                *)
Lost(e) == \/ e.transport \in {"timeout", "transport_error"}
           \/ e.transport = "http_error" /\ e.status \in {"limited", "busy"}
RetriesEarned ==
  \A l \in 1..Len(ledger) : ledger[l].kind = "dispatch" =>
    LET c == ledger[l].client
        earlier == {k \in OfCall(c, ledger[l].call) : k < l}
        last == ledger[Latest(earlier)]
    IN /\ ledger[l].retry < MaxAttempts
       /\ IF ledger[l].retry = 0
            THEN earlier # {} => last.usage = "parsed"
            ELSE earlier # {} /\ Lost(last) /\ last.retry = ledger[l].retry - 1

(* What the client writes can be read back at any time, whatever became of  *)
(* the calls, and only two things a provider may do make it otherwise: an   *)
(* HTTP error outside 400..599, which _post logs as it came, and a bill     *)
(* that the totals take and whose sum the reader does not.  The reader      *)
(* refuses such an event, and the whole ledger with it.                     *)
Foreign(e) == \/ e.transport = "http_error" /\ e.status \in Outlandish
              \/ e.debit \in Vast
ReadableUnlessForeign ==
  \A k \in 1..Len(ledger) : Accepts(ledger[k]) <=> ~Foreign(ledger[k])
=============================================================================
