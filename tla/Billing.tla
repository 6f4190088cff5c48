------------------------------- MODULE Billing -------------------------------
(***************************************************************************)
(* What the dispatch ledger says of money: summarize_dispatch_ledger reads *)
(* the events that module Dispatch writes, and each client keeps totals of *)
(* its own.                                                                *)
(***************************************************************************)
EXTENDS Dispatch

(* summarize_dispatch_ledger: a ledger with an event the reader refuses has *)
(* no summary; otherwise it counts what the events show, the bills of error *)
(* bodies included.                                                         *)
Readable == \A k \in 1..Len(ledger) : Accepts(ledger[k])
Dispatched == {k \in 1..Len(ledger) : ledger[k].kind = "dispatch"}
Retried == {k \in Dispatched : ledger[k].retry > 0}
Unterminated == {k \in Dispatched : ledger[k].transport = "started"}
Debited(bill) == {k \in Dispatched : ledger[k].debit = bill}
Summary ==
  [dispatches    |-> Cardinality(Dispatched),
   retries       |-> Cardinality(Retried),
   invocations   |-> Cardinality({<<ledger[k].client, ledger[k].call>> : k \in 1..Len(ledger)}),
   unterminated  |-> Cardinality(Unterminated),
   usageFailures |-> Cardinality({k \in Dispatched : ledger[k].usage = "failed"}),
   observed      |-> Cardinality(Debited("observed")),
   noncredit     |-> Cardinality(Debited("noncredit")),
   unknown       |-> Cardinality(Debited("unknown"))]

(* What a client's events say that its totals say, too. *)
Answered(c) == {k \in Events(c) : ledger[k].transport = "response_received"
                                  /\ ledger[k].body = "parsed"}
Paid(c) == {k \in Answered(c) : ledger[k].debit \in Credit}
Used(c) == {k \in Events(c) : ledger[k].usage = "parsed"}
OwnBooksAgree(c) ==
  /\ books[c].responses = Cardinality(Answered(c))
  /\ books[c].complete <=> \A k \in Answered(c) : ledger[k].debit # "unknown"
  /\ books[c].credits = Cardinality(Paid(c))
  /\ books[c].calls = Cardinality(Used(c))

(* A total over the clients, as so many units. *)
Units(n) == UNION {{c} \X (1..n[c]) : c \in Clients}
Total(n) == Cardinality(Units(n))
ErrorBills == {k \in Debited("observed") : ledger[k].transport = "http_error"}
SummaryAgrees ==
  /\ Summary.observed = Total([c \in Clients |-> books[c].credits]) + Cardinality(ErrorBills)
  /\ Summary.dispatches = Summary.observed + Summary.noncredit + Summary.unknown
  /\ Summary.unterminated >= Cardinality({d \in Clients : pc[d] = "sent"})
  /\ Summary.invocations <= Total(call)
  /\ Summary.dispatches - Summary.retries >= Total([c \in Clients |-> books[c].calls])

(* A client's totals and its events tell the same story, whatever became of *)
(* the calls: every object that arrived is billed, accepted or not; what an *)
(* error body claims is not; and only accepted responses are usage.  The    *)
(* summary of a readable ledger observes at least the debits the clients    *)
(* account, the difference being those of error bodies; each of its         *)
(* dispatches has one debit state; and nothing it calls terminated is still *)
(* under way.                                                               *)
BooksAgree ==
  /\ \A c \in Clients : OwnBooksAgree(c)
  /\ Readable => SummaryAgrees
=============================================================================
