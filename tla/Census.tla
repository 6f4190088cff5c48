------------------------------- MODULE Census -------------------------------
(***************************************************************************)
(* results.AttemptCensus: the ledger one invocation keeps of the tests it  *)
(* was asked to verify.  Every change goes through event(): a line is      *)
(* appended to the journal and forced to disk, then counted and hashed in  *)
(* memory, then the whole of the memory replaces the snapshot file.  Each  *)
(* of the three can fail, and the process can be interrupted or killed     *)
(* between any two.  A digest is represented by the lines it covers.       *)
(***************************************************************************)
EXTENDS Integers, Sequences

CONSTANTS MaxTests,    \* bound on the changed tests of one invocation
          LateFaults   \* can an append be cut short after its line is on disk?

ASSUME MaxTestsAssumption == MaxTests \in Nat
ASSUME LateFaultsAssumption == LateFaults \in BOOLEAN

Tests == 1..MaxTests

VARIABLES
  journal,   \* the lines of journal.jsonl
  hashed,    \* the lines the running digest has absorbed
  records,   \* journal_records, the lines counted in memory
  data,      \* the rest of the census in memory
  snap,      \* snapshot.json: the census, its count and the lines of its digest, or NoSnapshot
  call       \* the call of event() in progress

censusVars == <<journal, hashed, records, data, snap, call>>

Untouched == [state |-> "pending", disposition |-> "none", observed |-> FALSE,
              artifact |-> FALSE]
Fresh == [state |-> "started", known |-> FALSE, candidates |-> [t \in Tests |-> Untouched]]
NoSnapshot == [state |-> "absent"]
NoLine == [event |-> "none", test |-> 0, disposition |-> "none"]

Dispositions == {"none", "proven", "judged", "refusal"}
Events == {"none", "invocation_started", "candidates_selected", "candidate_started",
           "candidate_finished", "verification_refused", "verification_exception",
           "refusal_receipt_exception", "invocation_exception", "invocation_finished"}
CallLines == [event : Events, test : Nat, disposition : Dispositions]
JournalLines == [seq : Nat, event : Events, test : Nat, disposition : Dispositions]
Candidates == [state : {"pending", "attempted", "finished"}, disposition : Dispositions,
               observed : BOOLEAN, artifact : BOOLEAN]
States == {"started", "finished", "failed", "interrupted"}

Idle == call.step = "idle"
Raised == call.step \in {"exception", "interrupt"}

(* The line a call appends: the sequence number comes from memory. *)
Line == [seq |-> records + 1, event |-> call.line.event, test |-> call.line.test,
         disposition |-> call.line.disposition]

Calling(line) == [step |-> "append", line |-> line]
NotCalling == [step |-> "idle", line |-> NoLine]

-----------------------------------------------------------------------------
(* The constructor makes a directory of its own and logs invocation_started. *)
CensusInit ==
  /\ journal = <<>> /\ hashed = <<>> /\ records = 0
  /\ data = Fresh
  /\ snap = NoSnapshot
  /\ call = Calling([NoLine EXCEPT !.event = "invocation_started"])

(* A caller changes the census in memory and calls event(). *)
Record(changed, event, test, disposition) ==
  /\ Idle
  /\ data' = changed
  /\ call' = Calling([event |-> event, test |-> test, disposition |-> disposition])
  /\ UNCHANGED <<journal, hashed, records, snap>>

Log(event, test) == Record(data, event, test, "none")

Select == Record([data EXCEPT !.known = TRUE], "candidates_selected", 0, "none")

StartCandidate(t) ==
  Record([data EXCEPT !.candidates[t].state = "attempted"], "candidate_started", t, "none")

FinishCandidate(t, d, observed, artifact) ==
  Record([data EXCEPT !.candidates[t] =
            [state |-> "finished", disposition |-> d, observed |-> observed,
             artifact |-> artifact]],
         "candidate_finished", t, d)

FinishCensus(state) == Record([data EXCEPT !.state = state], "invocation_finished", 0, "none")

-----------------------------------------------------------------------------
(* The steps of event(). *)
WriteLine ==
  /\ call.step = "append"
  /\ journal' = Append(journal, Line)
  /\ call' = [call EXCEPT !.step = "count"]
  /\ UNCHANGED <<hashed, records, data, snap>>

Raise == \E fault \in {"exception", "interrupt"} : call' = [call EXCEPT !.step = fault]

(* The journal cannot be opened or written: nothing reaches the disk. *)
WriteFails ==
  /\ call.step = "append"
  /\ Raise
  /\ UNCHANGED <<journal, hashed, records, data, snap>>

(* fsync fails or SIGINT arrives while it waits: the line is in the file   *)
(* but not counted; or SIGINT comes between hashing it and counting it.    *)
CutShort ==
  /\ LateFaults
  /\ call.step = "count"
  /\ Raise
  /\ \/ UNCHANGED hashed
     \/ call'.step = "interrupt" /\ hashed' = Append(hashed, Line)
  /\ UNCHANGED <<journal, records, data, snap>>

(* Mutant of Count: the line is counted but not hashed. *)
CountUnhashed ==
  /\ call.step = "count"
  /\ records' = records + 1
  /\ call' = [call EXCEPT !.step = "publish"]
  /\ UNCHANGED <<journal, hashed, data, snap>>

Count ==
  /\ call.step = "count"
  /\ hashed' = Append(hashed, Line)
  /\ records' = records + 1
  /\ call' = [call EXCEPT !.step = "publish"]
  /\ UNCHANGED <<journal, data, snap>>

(* os.replace publishes the whole of the memory. *)
Publish ==
  /\ call.step = "publish"
  /\ snap' = [state |-> data.state, known |-> data.known, candidates |-> data.candidates,
              records |-> records, covers |-> hashed]
  /\ call' = NotCalling
  /\ UNCHANGED <<journal, hashed, records, data>>

(* The temporary file cannot be written or renamed: the old snapshot stays. *)
PublishFails ==
  /\ call.step = "publish"
  /\ Raise
  /\ UNCHANGED <<journal, hashed, records, data, snap>>

EventStep == WriteLine \/ WriteFails \/ CutShort \/ Count \/ Publish \/ PublishFails

-----------------------------------------------------------------------------
(* Type invariant of the ledger. *)
CensusTypeOK ==
  /\ journal \in Seq(JournalLines) /\ hashed \in Seq(JournalLines) /\ records \in Nat
  /\ data \in [state : States, known : BOOLEAN, candidates : [Tests -> Candidates]]
  /\ \/ snap = NoSnapshot
     \/ snap \in [state : States, known : BOOLEAN, candidates : [Tests -> Candidates],
                  records : Nat, covers : Seq(JournalLines)]
  /\ call \in [step : {"idle", "append", "count", "publish", "exception", "interrupt"},
               line : CallLines]

(* The consumer's check of an exported census, check_distributable.py. *)
Published == snap # NoSnapshot
Sequenced == \A k \in 1..Len(journal) : journal[k].seq = k

Accepted(tests) ==
  /\ Published
  /\ snap.state = "finished" /\ snap.known
  /\ snap.covers = journal /\ snap.records = Len(journal) /\ Sequenced
  /\ \A t \in tests : snap.candidates[t].state = "finished"
                      /\ snap.candidates[t].disposition # "none"

(* What the snapshot's digest and record count stand for is a prefix of    *)
(* the journal.                                                            *)
BindsPrefix ==
  Published => /\ snap.records = Len(snap.covers)
               /\ Len(snap.covers) <= Len(journal)
               /\ \A k \in 1..Len(snap.covers) : snap.covers[k] = journal[k]
=============================================================================
