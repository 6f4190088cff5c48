-------------------------- MODULE ActionGateProofs --------------------------
(***************************************************************************)
(* Proofs about ActionGate and the census it keeps, for any number of      *)
(* changed tests and whatever fails.                                       *)
(***************************************************************************)
EXTENDS ActionGate, TLAPS

Looping == {"refuse", "refused", "verify", "attempt", "export", "judge"}
AtTest == {"refused", "attempt", "export", "judge"}
Closing == {"finish", "finishing", "returned"}
Normal == {"open", "gate"} \cup Looping \cup Closing

(* The loops stay among the changed tests, and what has ended logs nothing. *)
PlaceInv ==
  /\ pc \in AtTest => test \in Changed
  /\ pc \in {"refuse", "verify"} => test >= 1
  /\ pc \in {"open", "gate"} => test = 0
  /\ pc \in Ended => Idle

(* The memory is in step with the journal, or behind it for good.          *)
InStep == hashed = journal /\ records = Len(journal)

LedgerInv ==
  /\ SequencedIsBound
  /\ Sequenced =>
       /\ call.step = "count" => journal = Append(hashed, Line) /\ records = Len(hashed)
       /\ call.step = "publish" => InStep
       /\ call.step \in {"idle", "append", "exception", "interrupt"} =>
            InStep \/ records < Len(journal)

(* What the census says was observed and exported is so; nothing is said   *)
(* of the tests to come.                                                   *)
EvidenceInv ==
  /\ EvidenceIsOurs
  /\ \A t \in Tests :
       /\ data.candidates[t].observed => ran[t] # "nowhere"
       /\ data.candidates[t].artifact => file[t] = "fresh"
       /\ pc \in {"open", "gate"} \cup Looping /\ t >= test =>
            ~data.candidates[t].observed /\ ~data.candidates[t].artifact
       /\ Published /\ pc # "killed" =>
            /\ snap.candidates[t].observed => data.candidates[t].observed
            /\ snap.candidates[t].artifact => data.candidates[t].artifact
  /\ pc \in {"export", "judge"} =>
       /\ answer.phases => ran[test] # "nowhere"
       /\ answer.artifact => file[test] = "fresh"

(* Until something is raised the ledger is complete, and between two calls *)
(* of event() the snapshot is current.                                     *)
CurrentInv ==
  pc \in Normal /\ ~Raised =>
    /\ Sequenced
    /\ call.step \in {"idle", "append"} => InStep
    /\ call.step = "idle" =>
         /\ Published
         /\ snap.covers = journal /\ snap.records = Len(journal)
         /\ snap.state = data.state /\ snap.known = data.known
         /\ snap.candidates = data.candidates

(* What the journal will hold when the line being logged is written. *)
Future == IF call.step = "append" THEN Append(journal, Line) ELSE journal

Tells(line, event, t) == line.event = event /\ line.test = t
Untold(j, t) ==
  \A k \in 1..Len(j) : ~Tells(j[k], "candidate_started", t) /\ ~Tells(j[k], "candidate_finished", t)
Begun(j, t) ==
  \E s \in 1..Len(j) : \A k \in 1..Len(j) :
    (Tells(j[k], "candidate_started", t) <=> k = s) /\ ~Tells(j[k], "candidate_finished", t)
Done(j, t, c) ==
  /\ c.state = "finished" /\ c.disposition # "none"
  /\ \E s, f \in 1..Len(j) :
       /\ s < f /\ j[f].disposition = c.disposition
       /\ \A k \in 1..Len(j) : /\ Tells(j[k], "candidate_started", t) <=> k = s
                               /\ Tells(j[k], "candidate_finished", t) <=> k = f

(* How far each test has come, as the journal tells it. *)
ProgressInv ==
  pc \in Normal /\ ~Raised =>
    \A t \in Tests :
      /\ pc \in {"open", "gate"} => Untold(Future, t)
      /\ pc \in Looping /\ t < test => Done(Future, t, data.candidates[t])
      /\ pc \in Looping /\ t > test => Untold(Future, t)
      /\ pc \in {"refuse", "verify"} /\ t = test => Untold(Future, t)
      /\ pc \in AtTest /\ t = test => Begun(Future, t)
      /\ pc \in Closing /\ data.known /\ t \in Changed => Done(Future, t, data.candidates[t])

(* A census is only called finished when every test is. *)
FinishedInv ==
  /\ data.state = "finished" =>
       /\ pc \in {"finishing", "returned", "raised"} \cup Handling
       /\ data.known => \A t \in Changed : Done(journal, t, data.candidates[t])
  /\ Published /\ snap.state = "finished" =>
       /\ pc \in {"finishing", "returned", "raised", "killed"} \cup Handling
       /\ snap.known => \A t \in Changed : Done(journal, t, snap.candidates[t])
  /\ pc \notin {"open", "gate"} \cup Looping /\ call.step = "append" =>
       call.line.event \in {"invocation_exception", "invocation_finished"}

(* The results agree with the census, and the exit code with the results.  *)
Blocking == code = 0 /\ request.policy # "advisory"

VerdictInv ==
  /\ pc = "open" => ~data.known
  /\ pc \in {"gate"} \cup Looping => data.known
  /\ pc \in Looping => \A t \in Changed : t < test =>
       /\ results[t] = data.candidates[t].disposition
       /\ results[t] = "proven" => ran[t] # "nowhere" /\ file[t] = "fresh"
  /\ pc \in {"export", "judge"} =>
       /\ answer.result = answer.disposition /\ answer.result # "none"
       /\ answer.result = "proven" => ran[test] # "nowhere" /\ file[test] = "fresh"
  /\ pc \in Closing /\ Blocking =>
       /\ data.known
       /\ \A t \in Changed : data.candidates[t].disposition # "refusal"
       /\ request.policy = "strict" /\ Changed # {} =>
            \E t \in Changed : /\ data.candidates[t].disposition = "proven"
                               /\ ran[t] # "nowhere" /\ file[t] = "fresh"
  /\ pc \in {"finishing", "returned"} => data.state = "finished"

IInv == TypeOK /\ PlaceInv /\ UntrustedConfined /\ LedgerInv /\ EvidenceInv /\ CurrentInv
        /\ ProgressInv /\ FinishedInv /\ VerdictInv
-----------------------------------------------------------------------------
(* What a step does to the ledger: it is one of event()'s own, or it calls *)
(* event(), or it leaves the ledger alone, or the process dies.            *)
Recording ==
  /\ Idle /\ call'.step = "append"
  /\ UNCHANGED <<journal, hashed, records, snap>>

LEMMA Effects ==
  ASSUME [Next]_vars PROVE Eventing \/ Recording \/ UNCHANGED censusVars \/ Unwind \/ Kill
<1> USE DEF Recording, vars, censusVars, gateVars
<1>1. ASSUME \E d, e, t, q : Record(d, e, t, q) PROVE Recording
  BY <1>1 DEF Record, Calling
<1>2. CASE SelectChanged
  BY <1>1, <1>2 DEF SelectChanged, Select
<1>3. CASE StartRefused
  BY <1>1, <1>3 DEF StartRefused, StartCandidate
<1>4. CASE FinishRefused
  BY <1>1, <1>4 DEF FinishRefused, FinishCandidate
<1>5. CASE StartVerify
  BY <1>1, <1>5 DEF StartVerify, StartCandidate
<1>6. CASE Refused
  BY <1>1, <1>6 DEF Refused, Log
<1>7. CASE ExportRefusalFails
  BY <1>1, <1>7 DEF ExportRefusalFails, Log
<1>8. CASE Crashed
  BY <1>1, <1>8 DEF Crashed, Log
<1>9. CASE Judge
  BY <1>1, <1>9 DEF Judge, FinishCandidate
<1>10. CASE Finish \/ FinishFailed
  BY <1>1, <1>10 DEF Finish, FinishFailed, FinishCensus
<1>11. CASE Handle
  BY <1>1, <1>11 DEF Handle, Log
<1>12. CASE RefuseComparison \/ Skip \/ Gate \/ ReportRefusal \/ Missing \/ Verified
  BY <1>12 DEF RefuseComparison, Skip, Gate, ReportRefusal, Missing, Verified
<1>13. CASE ExportRefusal \/ Report \/ Return \/ Reraise
  BY <1>13 DEF ExportRefusal, Report, Return, Reraise
<1>14. CASE Unwind \/ Disturb \/ UNCHANGED vars
  BY <1>14 DEF Disturb
<1> QED
  BY <1>2, <1>3, <1>4, <1>5, <1>6, <1>7, <1>8, <1>9, <1>10, <1>11, <1>12, <1>13, <1>14
     DEF Next, Step

LEMMA LineIsTyped ==
  ASSUME CensusTypeOK PROVE Line \in JournalLines
BY DEF CensusTypeOK, Line, JournalLines, CallLines

(* event() keeps the types of the ledger. *)
LEMMA EventTypes ==
  ASSUME CensusTypeOK, EventStep PROVE CensusTypeOK'
<1> USE DEF CensusTypeOK
<1>1. Line \in JournalLines
  BY LineIsTyped
<1>2. Append(journal, Line) \in Seq(JournalLines) /\ Append(hashed, Line) \in Seq(JournalLines)
  BY <1>1
<1>3. CASE WriteLine
  BY <1>2, <1>3 DEF WriteLine
<1>4. CASE WriteFails \/ PublishFails
  BY <1>4 DEF WriteFails, PublishFails, Raise
<1>5. CASE CutShort
  BY <1>2, <1>5 DEF CutShort, Raise
<1>6. CASE Count
  BY <1>2, <1>6 DEF Count
<1>7. CASE Publish
  BY <1>7 DEF Publish, NotCalling, NoLine, CallLines, Events, Dispositions
<1> QED
  BY <1>3, <1>4, <1>5, <1>6, <1>7 DEF EventStep

(* So does every call of it. *)
LEMMA RecordTypes ==
  ASSUME CensusTypeOK,
         NEW d \in [state : States, known : BOOLEAN, candidates : [Tests -> Candidates]],
         NEW e \in Events, NEW t \in Nat, NEW q \in Dispositions,
         Record(d, e, t, q)
  PROVE  CensusTypeOK'
BY DEF CensusTypeOK, Record, Calling, CallLines

-----------------------------------------------------------------------------
(* Types. *)
LEMMA TestIsTest ==
  ASSUME TypeOK, NEW t \in Changed PROVE t \in Tests /\ t \in Nat
BY MaxTestsAssumption DEF TypeOK, Changed, Tests

LEMMA ModeTyped ==
  ASSUME TypeOK PROVE request.backend \in BOOLEAN /\ Mode \in SandboxModes
<1>1. request.backend \in BOOLEAN /\ request.override \in {"none", "off", "required"}
  BY ActionAssumption DEF TypeOK
<1> QED BY <1>1 DEF Mode, SandboxModes

LEMMA PlacesTyped ==
  ASSUME TypeOK PROVE Places \subseteq {"nowhere", "isolated", "foreign", "host"}
<1>1. \A mode, h, image : Place(mode, h, image) \in {"nowhere", "isolated", "foreign", "host"}
  BY DEF Place
<1>2. PlaceTable[Mode][request.backend] =
        {Place(Mode, h, S!LoadRuntimeImage(pins)) :
           h \in HostsOf(request.backend), pins \in S!Pinnings}
  BY ModeTyped DEF PlaceTable
<1> QED BY <1>1, <1>2 DEF Places

LEMMA InitTypes == Init => TypeOK /\ PlaceInv
<1> SUFFICES ASSUME Init PROVE TypeOK /\ PlaceInv
  OBVIOUS
<1> USE DEF Init, CensusInit
<1>1. Fresh \in [state : States, known : BOOLEAN, candidates : [Tests -> Candidates]]
  BY DEF Fresh, States, Candidates, Untouched, Dispositions
<1>2. <<>> \in Seq(JournalLines)
  OBVIOUS
<1>3. call \in [step : {"append"}, line : CallLines]
  BY DEF Calling, NoLine, CallLines, Events, Dispositions
<1>4. CensusTypeOK
  BY <1>1, <1>2, <1>3 DEF CensusTypeOK
<1>5. request.changed \in Nat
  BY MaxTestsAssumption
<1>6. answer \in [result : Results, disposition : Dispositions, phases : BOOLEAN,
                  artifact : BOOLEAN]
  BY DEF NoAnswer, Results, Dispositions
<1> QED
  BY <1>4, <1>5, <1>6 DEF TypeOK, PlaceInv, AtTest, Results, Ended

LEMMA FreshTyped ==
  Fresh \in [state : States, known : BOOLEAN, candidates : [Tests -> Candidates]]
BY DEF Fresh, States, Candidates, Untouched, Dispositions

LEMMA NotCallingTyped ==
  NotCalling \in [step : {"idle", "append", "count", "publish", "exception", "interrupt"},
                  line : CallLines]
BY DEF NotCalling, NoLine, CallLines, Events, Dispositions

(* The types of what the gate itself keeps. *)
GateTypes ==
  /\ request \in [policy : PolicyChoices, override : Overrides, trust : Trusts,
                  backend : BOOLEAN, changed : 0..MaxTests]
  /\ pc \in {"open", "gate", "refuse", "refused", "verify", "attempt", "export", "judge",
             "finish", "finishing"} \cup Handling \cup Ended
  /\ cause \in {"none", "exception", "interrupt"}
  /\ test \in 0..request.changed + 1
  /\ ran \in [Tests -> {"nowhere", "isolated", "foreign", "host"}]
  /\ file \in [Tests -> {"absent", "stale", "fresh"}]
  /\ answer \in [result : Results, disposition : Dispositions, phases : BOOLEAN,
                 artifact : BOOLEAN]
  /\ results \in [Tests -> Results]
  /\ code \in {-1, 0, 1}

LEMMA Split == TypeOK <=> CensusTypeOK /\ GateTypes
BY DEF TypeOK, GateTypes

LEMMA FrameTyped ==
  ASSUME FrameLost, request' = request, request.changed \in Nat
  PROVE  /\ test' \in 0..request'.changed + 1
         /\ answer' \in [result : Results, disposition : Dispositions, phases : BOOLEAN,
                         artifact : BOOLEAN]
         /\ results' \in [Tests -> Results]
         /\ code' \in {-1, 0, 1}
BY DEF FrameLost, NoAnswer, Results, Dispositions

LEMMA NextTypes ==
  ASSUME TypeOK, PlaceInv, [Next]_vars PROVE TypeOK' /\ PlaceInv'
<1> SUFFICES CensusTypeOK' /\ GateTypes' /\ PlaceInv'
  BY DEF TypeOK, GateTypes
<1>0. CensusTypeOK /\ GateTypes
  BY Split
<1>n. request.changed \in Nat /\ request.changed <= MaxTests
  BY <1>0, MaxTestsAssumption DEF GateTypes
<1>q. /\ data \in [state : States, known : BOOLEAN, candidates : [Tests -> Candidates]]
      /\ call \in [step : {"idle", "append", "count", "publish", "exception", "interrupt"},
                   line : CallLines]
  BY <1>0 DEF CensusTypeOK
<1>t. test \in Nat
  BY <1>0, <1>n DEF GateTypes
<1> USE DEF PlaceInv, AtTest, Ended, Idle
<1>1. CASE Eventing
  <2>1. CensusTypeOK'
    BY <1>0, <1>1, EventTypes DEF Eventing
  <2> QED
    BY <2>1, <1>0, <1>1 DEF Eventing, EventStep, WriteLine, WriteFails, CutShort, Count, Publish,
       PublishFails, GateTypes, gateVars, Changed
<1>2. CASE UNCHANGED vars
  BY <1>0, <1>2 DEF vars, gateVars, censusVars, GateTypes, CensusTypeOK, Changed
<1>3. CASE RefuseComparison \/ Skip \/ Report \/ ReportRefusal
  BY <1>0, <1>3 DEF RefuseComparison, Skip, Report, ReportRefusal, ExitUnder, censusVars,
     GateTypes, CensusTypeOK, Changed
<1>4. CASE SelectChanged
  <2>1. CensusTypeOK'
    BY <1>0, <1>q, <1>4, RecordTypes DEF SelectChanged, Select, Events, Dispositions
  <2> QED
    BY <2>1, <1>0, <1>4 DEF SelectChanged, GateTypes, gateVars, Changed
<1>5. CASE Gate
  BY <1>0, <1>n, <1>5 DEF Gate, gateVars, censusVars, GateTypes, CensusTypeOK, Changed
<1>6. CASE StartRefused \/ StartVerify
  <2>1. test \in Tests /\ StartCandidate(test)
    BY <1>6, TestIsTest DEF StartRefused, StartVerify
  <2>2. [data EXCEPT !.candidates[test].state = "attempted"]
          \in [state : States, known : BOOLEAN, candidates : [Tests -> Candidates]]
    BY <1>q, <2>1 DEF Candidates
  <2>3. CensusTypeOK'
    BY <1>0, <1>t, <2>1, <2>2, RecordTypes DEF StartCandidate, Events, Dispositions
  <2> QED
    BY <2>3, <1>0, <1>6 DEF StartRefused, StartVerify, GateTypes, gateVars, Changed
<1>7. CASE FinishRefused \/ Judge
  <2>1. test \in Tests /\ test \in Changed
    BY <1>7, TestIsTest DEF FinishRefused, Judge
  <2>2. PICK q \in Dispositions, o \in BOOLEAN, a \in BOOLEAN : FinishCandidate(test, q, o, a)
    BY <1>0, <1>7, <2>1 DEF FinishRefused, Judge, Named, Observed, GateTypes, Dispositions
  <2>3. [data EXCEPT !.candidates[test] =
           [state |-> "finished", disposition |-> q, observed |-> o, artifact |-> a]]
          \in [state : States, known : BOOLEAN, candidates : [Tests -> Candidates]]
    BY <1>q, <2>1 DEF Candidates
  <2>4. CensusTypeOK'
    BY <1>0, <1>t, <2>2, <2>3, RecordTypes DEF FinishCandidate, Events
  <2>5. test + 1 \in 0..request.changed + 1
    BY <1>n, <1>t, <2>1 DEF Changed
  <2>6. answer.result \in Results
    BY <1>0 DEF GateTypes
  <2>7. CASE FinishRefused
    BY <2>1, <2>4, <2>5, <1>0, <1>t, <2>7 DEF FinishRefused, GateTypes, Changed, Results
  <2>8. CASE Judge
    BY <2>1, <2>4, <2>5, <2>6, <1>0, <1>t, <2>8
       DEF Judge, GateTypes, Changed, Results, NoAnswer, Dispositions
  <2> QED
    BY <1>7, <2>7, <2>8
<1>8. CASE Missing \/ ExportRefusal \/ Verified
  <2>1. test \in Tests
    BY <1>8, TestIsTest DEF Missing, ExportRefusal, Verified
  <2>2. CensusTypeOK'
    BY <1>0, <1>8 DEF Missing, ExportRefusal, Verified, censusVars, CensusTypeOK
  <2>3. CASE Missing
    BY <1>0, <2>1, <2>2, <2>3
       DEF Missing, GateTypes, Changed, Answer, Results, Dispositions, gateVars
  <2>5. CASE ExportRefusal
    BY <1>0, <2>1, <2>2, <2>5 DEF ExportRefusal, GateTypes, Changed
  <2>4. CASE Verified
    BY <1>0, <2>1, <2>2, <2>4, PlacesTyped
       DEF Verified, GateTypes, Changed, Answer, Results, Dispositions
  <2> QED
    BY <1>8, <2>3, <2>4, <2>5
<1>9. CASE Refused \/ Crashed \/ ExportRefusalFails
  <2>1. test \in Tests
    BY <1>9, TestIsTest DEF Refused, Crashed, ExportRefusalFails
  <2>2. PICK e \in Events : Log(e, test)
    BY <1>9 DEF Refused, Crashed, ExportRefusalFails, Events
  <2>3. CensusTypeOK'
    BY <1>0, <1>q, <1>t, <2>2, RecordTypes DEF Log, Dispositions
  <2>4. CASE Refused
    BY <1>0, <2>1, <2>3, <2>4, PlacesTyped
       DEF Refused, GateTypes, Changed, Answer, Results, Dispositions
  <2>5. CASE Crashed
    BY <1>0, <2>1, <2>3, <2>5, PlacesTyped
       DEF Crashed, GateTypes, Changed, Answer, Results, Dispositions
  <2>6. CASE ExportRefusalFails
    BY <1>0, <2>3, <2>6 DEF ExportRefusalFails, GateTypes, Changed, gateVars
  <2> QED
    BY <1>9, <2>4, <2>5, <2>6
<1>10. CASE Finish \/ FinishFailed
  <2>1. PICK s \in States : FinishCensus(s)
    BY <1>10 DEF Finish, FinishFailed, States
  <2>2. [data EXCEPT !.state = s]
          \in [state : States, known : BOOLEAN, candidates : [Tests -> Candidates]]
    BY <1>q
  <2>3. CensusTypeOK'
    BY <1>0, <2>1, <2>2, RecordTypes DEF FinishCensus, Events, Dispositions
  <2> QED
    BY <2>3, <1>0, <1>10 DEF Finish, FinishFailed, GateTypes, gateVars, Changed, Handling
<1>11. CASE Handle
  <2>1. CensusTypeOK'
    BY <1>0, <1>q, <1>11, RecordTypes DEF Handle, Log, Events, Dispositions
  <2> QED
    BY <2>1, <1>0, <1>11 DEF Handle, GateTypes, gateVars, Changed, Handling
<1>12. CASE Return \/ Reraise
  BY <1>0, <1>12 DEF Return, Reraise, censusVars, gateVars, CensusTypeOK, GateTypes, Changed
<1>13. CASE Unwind
  <2>1. CensusTypeOK'
    BY <1>0, <1>13, NotCallingTyped DEF Unwind, CensusTypeOK
  <2> QED
    BY <2>1, <1>0, <1>n, <1>13, FrameTyped
       DEF Unwind, Raised, Landing, GateTypes, Handling, NotCalling
<1>14. CASE Disturb
  <2>1. CensusTypeOK'
    BY <1>0, <1>14 DEF Disturb, censusVars, CensusTypeOK
  <2> QED
    BY <2>1, <1>0, <1>n, <1>14, FrameTyped DEF Disturb, Landing, GateTypes, Handling, censusVars
<1>15. CASE Kill
  <2>1. CensusTypeOK'
    BY <1>0, <1>15, NotCallingTyped, FreshTyped DEF Kill, CensusTypeOK
  <2> QED
    BY <2>1, <1>0, <1>n, <1>15, FrameTyped DEF Kill, GateTypes, NotCalling
<1> QED
  BY <1>1, <1>2, <1>3, <1>4, <1>5, <1>6, <1>7, <1>8, <1>9, <1>10, <1>11, <1>12, <1>13,
     <1>14, <1>15 DEF Next, Step

-----------------------------------------------------------------------------
(* Confinement. *)
LEMMA RanStays ==
  ASSUME TypeOK, [Next]_vars PROVE
    /\ UNCHANGED request
    /\ \/ UNCHANGED ran
       \/ pc = "attempt" /\ \E place \in Places : ran' = [ran EXCEPT ![test] = place]
<1> USE DEF vars, gateVars
<1>1. CASE Refused \/ Crashed \/ Verified
  BY <1>1 DEF Refused, Crashed, Verified
<1>2. CASE Eventing \/ SelectChanged \/ Gate \/ StartRefused \/ StartVerify \/ Missing
  BY <1>2 DEF Eventing, SelectChanged, Gate, StartRefused, StartVerify, Missing
<1>3. CASE RefuseComparison \/ Skip \/ FinishRefused \/ ReportRefusal \/ ExportRefusal
  BY <1>3 DEF RefuseComparison, Skip, FinishRefused, ReportRefusal, ExportRefusal
<1>4. CASE ExportRefusalFails \/ Judge \/ Report \/ Finish \/ Return \/ Unwind
  BY <1>4 DEF ExportRefusalFails, Judge, Report, Finish, Return, Unwind
<1>5. CASE Handle \/ FinishFailed \/ Reraise \/ Disturb \/ Kill \/ UNCHANGED vars
  BY <1>5 DEF Handle, FinishFailed, Reraise, Disturb, Kill
<1> QED
  BY <1>1, <1>2, <1>3, <1>4, <1>5 DEF Next, Step

(* Rule 2: whatever the pins, the image is not one that HEAD chose. *)
LEMMA BaseChoosesImage ==
  ASSUME NEW pins \in S!Pinnings PROVE S!LoadRuntimeImage(pins).by # "head"
<1>1. pins.base \in {"none", "tag", "digest", "unreadable"} /\ pins.env \in {"none", "tag", "digest"}
  BY DEF S!Pinnings, S!Pins
<1> QED BY <1>1 DEF S!LoadRuntimeImage, S!Image, S!StockImage

(* Where nothing answers, no backend is detected. *)
LEMMA NothingAnswers ==
  ASSUME NEW h, h.answering = {} PROVE S!DetectBackend(h) = "none" /\ ~S!BubblewrapUsable(h)
<1>1. {b \in h.answering : h.wanted \in {"any", b}} = {}
  OBVIOUS
<1>2. {} \cap S!Engines # {"docker"} /\ {} # {"bubblewrap"}
  OBVIOUS
<1> QED BY <1>1, <1>2 DEF S!DetectBackend, S!BubblewrapUsable

(* Required never runs unconfined. *)
LEMMA RequiredIsConfined ==
  ASSUME NEW h, NEW image, NEW probe \in BOOLEAN,
         ~S!PlanSandbox("required", h, image, probe).refused
  PROVE  S!PlanSandbox("required", h, image, probe).backend = S!Admitted("required", h, image)
         /\ S!Admitted("required", h, image) # "none"
BY DEF S!PlanSandbox, S!Degraded, S!Refusal, S!Planned

LEMMA DetectedBackend ==
  ASSUME NEW h \in S!Hosts PROVE S!DetectBackend(h) \in S!Backends \cup {"none"}
<1> DEFINE usable == {b \in h.answering : h.wanted \in {"any", b}}
<1>1. usable \subseteq S!Backends
  BY DEF S!Hosts, S!Usable
<1>2. \/ "podman" \in usable
      \/ "podman" \notin usable /\ usable \cap S!Engines = {"docker"}
      \/ "podman" \notin usable /\ usable \cap S!Engines # {"docker"} /\ usable \in {{"bubblewrap"}, {}}
  BY <1>1 DEF S!Backends, S!Engines
<1>3. "docker" \notin {"bubblewrap"} /\ {"bubblewrap"} # {}
  OBVIOUS
<1> QED BY <1>2, <1>3 DEF S!DetectBackend, S!Backends, S!Engines

LEMMA PlannedBackend ==
  ASSUME NEW h \in S!Hosts, NEW mode, NEW image, NEW probe \in BOOLEAN
  PROVE  /\ S!Admitted(mode, h, image) \in S!Backends \cup {"none"}
         /\ S!PlanSandbox(mode, h, image, probe).backend \in S!Backends \cup {"none"}
<1>1. S!Admitted(mode, h, image) \in S!Backends \cup {"none"}
  BY DetectedBackend DEF S!Admitted, S!Backends
<1> QED BY <1>1 DEF S!PlanSandbox, S!Degraded, S!Refusal, S!Planned

LEMMA AdmittedBackend ==
  ASSUME NEW h \in S!Hosts, NEW image, S!Admitted("required", h, image) # "none"
  PROVE  /\ S!Admitted("required", h, image) = S!DetectBackend(h)
         /\ S!DetectBackend(h) \in S!Backends
<1>1. S!Admitted("required", h, image) = S!DetectBackend(h)
  BY DEF S!Admitted
<1> QED BY <1>1, DetectedBackend

LEMMA RequiredPlaces ==
  ASSUME NEW backend \in BOOLEAN, NEW h \in HostsOf(backend), NEW image
  PROVE  /\ Place("required", h, image) # "host"
         /\ ~backend => Place("required", h, image) = "nowhere"
<1> DEFINE plan == S!PlanSandbox("required", h, image, TRUE)
<1>1. CASE ~S!ValidateImageRef(image) \/ plan.refused
  BY <1>1 DEF Place
<1>2. CASE S!ValidateImageRef(image) /\ ~plan.refused
  <2>1. plan.backend = S!Admitted("required", h, image) /\ plan.backend # "none"
    BY <1>2, RequiredIsConfined
  <2>2. plan.backend = S!DetectBackend(h) /\ plan.backend \in S!Backends
    BY <2>1, AdmittedBackend DEF HostsOf
  <2>3. backend
    BY <2>1, <2>2, NothingAnswers DEF HostsOf
  <2>4. /\ ~S!Wrap(plan.backend, image).network
        /\ "host" \notin S!Wrap(plan.backend, image).writes
    BY <2>1, <2>2 DEF S!Wrap, S!WrapContainer, S!WrapBwrap, S!Backends, S!Engines
  <2> QED BY <1>2, <2>3, <2>4 DEF Place
<1> QED BY <1>1, <1>2

(* Nothing is executed in an image of HEAD's. *)
LEMMA NoForeignPlace ==
  ASSUME NEW mode, NEW h \in S!Hosts, NEW pins \in S!Pinnings
  PROVE  Place(mode, h, S!LoadRuntimeImage(pins)) # "foreign"
<1> DEFINE image == S!LoadRuntimeImage(pins)
           backend == S!PlanSandbox(mode, h, image, TRUE).backend
<1>1. image.by # "head"
  BY BaseChoosesImage
<1>2. CASE backend = "none"
  <2>1. S!Wrap(backend, image).network
    BY <1>2 DEF S!Wrap, S!OnTheHost, S!Engines
  <2> QED BY <2>1 DEF Place
<1>3. CASE backend \in S!Backends
  <2>1. S!Wrap(backend, image).image # "head"
    BY <1>1, <1>3 DEF S!Wrap, S!WrapContainer, S!WrapBwrap, S!Backends, S!Engines
  <2> QED BY <2>1 DEF Place
<1> QED BY <1>2, <1>3, PlannedBackend

LEMMA UntrustedPlaces ==
  ASSUME request.backend \in BOOLEAN, Mode \in SandboxModes, NEW place \in Places
  PROVE  /\ place # "foreign"
         /\ Untrusted => place # "host" /\ (~request.backend => place = "nowhere")
<1>1. CASE place = "nowhere"
  BY <1>1
<1>2. CASE place \in PlaceTable[Mode][request.backend]
  <2>1. PICK h \in HostsOf(request.backend), pins \in S!Pinnings :
          place = Place(Mode, h, S!LoadRuntimeImage(pins))
    BY <1>2 DEF PlaceTable
  <2>2. place # "foreign"
    BY <2>1, NoForeignPlace DEF HostsOf
  <2>3. Untrusted => Mode = "required"
    BY DEF Mode
  <2> QED BY <2>1, <2>2, <2>3, RequiredPlaces
<1> QED BY <1>1, <1>2 DEF Places

LEMMA InitConfined == Init => UntrustedConfined
BY DEF Init, UntrustedConfined

LEMMA NextConfined ==
  ASSUME TypeOK, UntrustedConfined, [Next]_vars PROVE UntrustedConfined'
<1>1. UNCHANGED request
  BY RanStays
<1> SUFFICES ASSUME NEW t \in Tests
             PROVE  /\ ran'[t] # "foreign"
                    /\ Untrusted => ran'[t] # "host" /\ (~request.backend => ran'[t] = "nowhere")
  BY <1>1 DEF UntrustedConfined, Untrusted
<1>2. /\ ran[t] # "foreign"
      /\ Untrusted => ran[t] # "host" /\ (~request.backend => ran[t] = "nowhere")
  BY DEF UntrustedConfined
<1>3. CASE UNCHANGED ran
  BY <1>2, <1>3
<1>4. ASSUME NEW place \in Places, ran' = [ran EXCEPT ![test] = place]
      PROVE  /\ ran'[t] # "foreign"
             /\ Untrusted => ran'[t] # "host" /\ (~request.backend => ran'[t] = "nowhere")
  <2>1. request.backend \in BOOLEAN /\ Mode \in SandboxModes
    BY ModeTyped
  <2>2. /\ place # "foreign"
        /\ Untrusted => place # "host" /\ (~request.backend => place = "nowhere")
    BY <2>1, UntrustedPlaces
  <2> QED BY <1>2, <1>4, <2>2 DEF TypeOK
<1> QED
  BY <1>3, <1>4, RanStays

-----------------------------------------------------------------------------
(* The ledger. *)
Quiet ==
  /\ UNCHANGED call \/ call' = NotCalling
  /\ UNCHANGED <<journal, hashed, records, snap>>

LEMMA InitLedger == Init => LedgerInv
BY DEF Init, CensusInit, LedgerInv, SequencedIsBound, BindsPrefix, Published, Calling, InStep

(* A line numbered from memory continues the sequence only if the memory   *)
(* has counted every line before it.                                       *)
LEMMA WritingKeepsOrder ==
  ASSUME CensusTypeOK, WriteLine
  PROVE  /\ Sequenced' <=> Sequenced /\ records = Len(journal)
         /\ Len(journal') = Len(journal) + 1
         /\ \A k \in 1..Len(journal) : journal'[k] = journal[k]
<1>1. journal \in Seq(JournalLines) /\ Line \in JournalLines
  BY LineIsTyped DEF CensusTypeOK
<1>2. journal' = Append(journal, Line) /\ Line.seq = records + 1 /\ records \in Nat
  BY DEF WriteLine, Line, CensusTypeOK
<1>3. /\ Len(journal') = Len(journal) + 1 /\ Len(journal) \in Nat
      /\ \A k \in 1..Len(journal) : journal'[k] = journal[k]
      /\ journal'[Len(journal) + 1] = Line
  BY <1>1, <1>2
<1>4. ASSUME Sequenced' PROVE Sequenced /\ records = Len(journal)
  BY <1>2, <1>3, <1>4 DEF Sequenced
<1>5. ASSUME Sequenced, records = Len(journal) PROVE Sequenced'
  BY <1>2, <1>3, <1>5 DEF Sequenced
<1> QED
  BY <1>3, <1>4, <1>5

LEMMA NextLedger ==
  ASSUME TypeOK, LedgerInv, [Next]_vars PROVE LedgerInv'
<1> USE DEF InStep
<1>t. CensusTypeOK
  BY DEF TypeOK
<1>l. Len(journal) \in Nat /\ Len(hashed) \in Nat /\ records \in Nat
  BY <1>t DEF CensusTypeOK
<1>1. CASE Recording
  BY <1>1 DEF Recording, Idle, LedgerInv, SequencedIsBound, BindsPrefix, Published, Sequenced
<1>2. CASE Quiet
  <2>1. Line' = Line \/ call' = NotCalling
    BY <1>2 DEF Quiet, Line
  <2>2. call' = NotCalling /\ Sequenced => InStep \/ records < Len(journal) \/ call.step = "count"
    BY <1>t DEF LedgerInv, CensusTypeOK
  <2>3. call.step = "count" /\ Sequenced => records < Len(journal)
    BY <1>t, LineIsTyped DEF LedgerInv, CensusTypeOK
  <2> QED
    BY <1>2, <2>1, <2>2, <2>3
       DEF Quiet, NotCalling, LedgerInv, SequencedIsBound, BindsPrefix, Published, Sequenced
<1>3. CASE Kill
  <2>1. journal' = journal /\ snap' = snap /\ hashed' = <<>> /\ records' = 0 /\ call'.step = "idle"
    BY <1>3 DEF Kill, NotCalling
  <2>2. journal = <<>> \/ 0 < Len(journal)
    BY <1>t DEF CensusTypeOK
  <2> QED
    BY <2>1, <2>2 DEF LedgerInv, SequencedIsBound, BindsPrefix, Published, Sequenced
<1>4. CASE Eventing
  <2>1. CASE WriteLine
    <3>1. Sequenced' => Sequenced /\ InStep
      BY <1>l, <1>t, <2>1, WritingKeepsOrder DEF LedgerInv, WriteLine
    <3>2. Line' = Line
      BY <2>1 DEF WriteLine, Line
    <3>3. SequencedIsBound'
      <4> SUFFICES ASSUME Sequenced', Published' PROVE BindsPrefix'
        BY DEF SequencedIsBound, BindsPrefix
      <4>1. BindsPrefix /\ snap' = snap /\ Published
        BY <3>1, <2>1 DEF LedgerInv, SequencedIsBound, WriteLine, Published
      <4>2. Len(snap.covers) \in Nat
        BY <1>t, <4>1 DEF CensusTypeOK, Published
      <4> QED
        BY <1>l, <1>t, <2>1, <4>1, <4>2, WritingKeepsOrder DEF BindsPrefix
    <3> QED
      BY <3>1, <3>2, <3>3, <2>1 DEF WriteLine, LedgerInv
  <2>2. CASE WriteFails \/ PublishFails
    <3>1. call'.step \in {"exception", "interrupt"} /\ UNCHANGED <<journal, hashed, records, snap>>
      BY <1>t, <2>2 DEF WriteFails, PublishFails, Raise, CensusTypeOK
    <3>2. call.step \in {"append", "publish"}
      BY <2>2 DEF WriteFails, PublishFails
    <3> QED
      BY <3>1, <3>2 DEF LedgerInv, SequencedIsBound, BindsPrefix, Published, Sequenced
  <2>3. CASE CutShort
    <3>1. Sequenced => records < Len(journal)
      BY <1>t, <2>3, LineIsTyped DEF LedgerInv, CensusTypeOK, CutShort
    <3> QED
      BY <3>1, <2>3 DEF CutShort, Raise, LedgerInv, SequencedIsBound, BindsPrefix,
         Published, Sequenced
  <2>4. CASE Count
    <3>1. Sequenced => Len(journal) = records + 1 /\ journal = Append(hashed, Line)
      BY <1>t, <2>4, LineIsTyped DEF LedgerInv, CensusTypeOK, Count
    <3> QED
      BY <3>1, <2>4 DEF Count, LedgerInv, SequencedIsBound, BindsPrefix, Published, Sequenced
  <2>5. CASE Publish
    <3>1. Sequenced => hashed = journal /\ records = Len(journal)
      BY <2>5 DEF LedgerInv, Publish
    <3> QED
      BY <1>l, <3>1, <2>5
         DEF Publish, NotCalling, LedgerInv, SequencedIsBound, BindsPrefix, Sequenced
  <2> QED
    BY <1>4, <2>1, <2>2, <2>3, <2>4, <2>5 DEF Eventing, EventStep
<1> QED
  BY <1>1, <1>2, <1>3, <1>4, Effects DEF Quiet, Unwind, censusVars

-----------------------------------------------------------------------------
(* Evidence. *)
LEMMA InitEvidence == Init => EvidenceInv
BY DEF Init, CensusInit, EvidenceInv, EvidenceIsOurs, Published, Fresh, Untouched

(* What EvidenceInv says of one test. *)
TestEvidence(t) ==
  /\ Published => /\ snap.candidates[t].observed => ran[t] # "nowhere"
                  /\ snap.candidates[t].artifact => file[t] = "fresh"
  /\ data.candidates[t].observed => ran[t] # "nowhere"
  /\ data.candidates[t].artifact => file[t] = "fresh"
  /\ pc \in {"open", "gate"} \cup Looping /\ t >= test =>
       ~data.candidates[t].observed /\ ~data.candidates[t].artifact
  /\ Published /\ pc # "killed" =>
       /\ snap.candidates[t].observed => data.candidates[t].observed
       /\ snap.candidates[t].artifact => data.candidates[t].artifact

AnswerEvidence ==
  pc \in {"export", "judge"} =>
    /\ answer.phases => ran[test] # "nowhere"
    /\ answer.artifact => file[test] = "fresh"

LEMMA EvidenceSplit == EvidenceInv <=> AnswerEvidence /\ \A t \in Tests : TestEvidence(t)
BY DEF EvidenceInv, TestEvidence, AnswerEvidence, EvidenceIsOurs

LEMMA NextEvidence ==
  ASSUME TypeOK, PlaceInv, EvidenceInv, [Next]_vars PROVE EvidenceInv'
<1> SUFFICES AnswerEvidence' /\ \A t \in Tests : TestEvidence(t)'
  BY DEF EvidenceInv, TestEvidence, AnswerEvidence, EvidenceIsOurs
<1>a. AnswerEvidence
  BY EvidenceSplit
<1>e. \A t \in Tests : TestEvidence(t)
  BY EvidenceSplit
<1>q. /\ data.candidates \in [Tests -> Candidates]
      /\ data \in [state : States, known : BOOLEAN, candidates : [Tests -> Candidates]]
      /\ ran \in [Tests -> {"nowhere", "isolated", "foreign", "host"}]
      /\ file \in [Tests -> {"absent", "stale", "fresh"}]
  BY DEF TypeOK, CensusTypeOK
<1>i. \A t \in Tests : t \in Int
  BY MaxTestsAssumption DEF Tests
<1>n. test \in Int
  BY MaxTestsAssumption DEF TypeOK
<1>1. CASE Eventing
  <2>1. CASE Publish
    BY <1>a, <1>e, <1>1, <2>1
       DEF Publish, Eventing, gateVars, TestEvidence, AnswerEvidence, Published
  <2>2. CASE ~Publish
    <3>1. UNCHANGED <<data, snap, ran, file, pc, test, answer>>
      BY <1>1, <2>2 DEF Eventing, EventStep, WriteLine, WriteFails, CutShort, Count,
         PublishFails, gateVars
    <3> QED
      BY <1>a, <1>e, <3>1 DEF TestEvidence, AnswerEvidence, Published
  <2> QED
    BY <2>1, <2>2
<1>2. ASSUME UNCHANGED <<data, snap, ran, file, test>>,
             pc' \notin {"export", "judge"} \/ UNCHANGED <<pc, answer>>,
             pc' \in {"open", "gate"} \cup Looping => pc \in {"open", "gate"} \cup Looping,
             pc # "killed"
      PROVE  AnswerEvidence' /\ \A t \in Tests : TestEvidence(t)'
  BY <1>a, <1>e, <1>2 DEF TestEvidence, AnswerEvidence, Published
<1>3. CASE UNCHANGED vars
  BY <1>a, <1>e, <1>3 DEF vars, gateVars, censusVars, TestEvidence, AnswerEvidence, Published
<1>4. CASE RefuseComparison \/ Skip \/ Report \/ ReportRefusal \/ Return \/ Reraise
  BY <1>2, <1>4 DEF RefuseComparison, Skip, Report, ReportRefusal, Return, Reraise, Looping,
     censusVars, gateVars
<1>5. CASE Gate
  <2>1. test = 0 /\ test' = 1
    BY <1>5 DEF Gate, PlaceInv
  <2>2. pc = "gate" /\ pc' \in {"refuse", "verify"} /\ UNCHANGED <<data, snap, ran, file>>
    BY <1>5 DEF Gate, censusVars, gateVars
  <2> QED
    BY <1>e, <1>i, <2>1, <2>2 DEF TestEvidence, AnswerEvidence, Published, Looping
<1>6. CASE SelectChanged
  <2>1. data'.candidates = data.candidates /\ pc = "open" /\ pc' = "gate"
        /\ UNCHANGED <<snap, ran, file, test>>
    BY <1>6, <1>q DEF SelectChanged, Select, Record, gateVars
  <2> QED
    BY <1>e, <2>1 DEF TestEvidence, AnswerEvidence, Published
<1>7. CASE StartRefused \/ StartVerify
  <2>1. test \in Tests
    BY <1>7, TestIsTest DEF StartRefused, StartVerify
  <2>2. \A t \in Tests : /\ data'.candidates[t].observed = data.candidates[t].observed
                         /\ data'.candidates[t].artifact = data.candidates[t].artifact
    BY <1>7, <1>q, <2>1 DEF StartRefused, StartVerify, StartCandidate, Record, Candidates
  <2>3. /\ pc \in Looping /\ pc' \in Looping /\ pc' \notin {"export", "judge"} /\ pc # "killed"
        /\ UNCHANGED <<snap, ran, file, test>>
    BY <1>7 DEF StartRefused, StartVerify, StartCandidate, Record, gateVars, Looping
  <2> QED
    BY <1>e, <2>2, <2>3 DEF TestEvidence, AnswerEvidence, Published
<1>8. CASE FinishRefused \/ Judge
  <2>1. test \in Tests /\ pc \in Looping /\ pc' \in {"refuse", "verify"} /\ pc # "killed"
        /\ test' = test + 1 /\ UNCHANGED <<snap, ran>>
    BY <1>8, TestIsTest
       DEF PlaceInv, AtTest, FinishRefused, Judge, Looping, FinishCandidate, Record
  <2>2. \E q, o, a : FinishCandidate(test, q, o, a) /\ (o => ran[test] # "nowhere")
                     /\ (a => file'[test] = "fresh")
    <3>1. CASE FinishRefused
      BY <1>q, <2>1, <3>1 DEF FinishRefused
    <3>2. CASE Judge
      <4>1. FinishCandidate(test, answer.disposition, Observed, Named) /\ UNCHANGED file
        BY <3>2 DEF Judge
      <4>2. Named => file[test] = "fresh"
        BY <1>a, <3>2 DEF Judge, AnswerEvidence, Named
      <4>3. Observed => ran[test] # "nowhere"
        BY <1>a, <3>2, <4>2 DEF Judge, AnswerEvidence, Observed
      <4> QED
        BY <4>1, <4>2, <4>3
    <3> QED
      BY <1>8, <3>1, <3>2
  <2>3. /\ \A t \in Tests \ {test} : data'.candidates[t] = data.candidates[t]
        /\ data'.candidates[test].observed => ran[test] # "nowhere"
        /\ data'.candidates[test].artifact => file'[test] = "fresh"
    BY <1>q, <2>1, <2>2 DEF FinishCandidate, Record
  <2>4. \A t \in Tests : file[t] = "fresh" => file'[t] = "fresh"
    BY <1>8, <1>q DEF FinishRefused, Judge
  <2>5. ASSUME NEW t \in Tests, t = test PROVE TestEvidence(t)'
    BY <1>e, <1>i, <1>n, <2>1, <2>3, <2>4, <2>5 DEF TestEvidence, Published
  <2>6. ASSUME NEW t \in Tests, t # test PROVE TestEvidence(t)'
    BY <1>e, <1>i, <1>n, <2>1, <2>3, <2>4, <2>6 DEF TestEvidence, Published
  <2>7. AnswerEvidence'
    BY <2>1 DEF AnswerEvidence
  <2> QED
    BY <2>5, <2>6, <2>7
<1>9. CASE Missing \/ Verified \/ Refused \/ Crashed
  <2>1. test \in Tests /\ pc = "attempt" /\ pc' \in {"export", "judge"}
    BY <1>9, TestIsTest DEF PlaceInv, AtTest, Missing, Verified, Refused, Crashed
  <2>2. UNCHANGED <<data, snap, test>>
    BY <1>9 DEF Missing, Verified, Refused, Crashed, Log, Record, censusVars, gateVars
  <2>3. \A t \in Tests \ {test} : ran'[t] = ran[t] /\ file'[t] = file[t]
    BY <1>9, <1>q DEF Missing, Verified, Refused, Crashed, gateVars
  <2>4. ~data.candidates[test].observed /\ ~data.candidates[test].artifact
    BY <1>e, <1>n, <2>1 DEF TestEvidence, Looping
  <2>5. AnswerEvidence'
    <3>1. CASE Missing \/ Crashed
      BY <3>1 DEF Missing, Crashed, AnswerEvidence, Answer
    <3>2. CASE Verified
      BY <1>q, <2>1, <2>2, <3>2 DEF Verified, AnswerEvidence, Answer
    <3>3. CASE Refused
      <4>1. PICK place \in Places :
              /\ ran' = [ran EXCEPT ![test] = place]
              /\ answer' = Answer("refusal", "refusal", place # "nowhere", FALSE)
        BY <3>3 DEF Refused
      <4>2. ran'[test] = place /\ ~answer'.artifact
        BY <1>q, <2>1, <4>1 DEF Answer
      <4>3. answer'.phases = (place # "nowhere")
        BY <4>1 DEF Answer
      <4> QED
        BY <2>2, <4>2, <4>3 DEF AnswerEvidence
    <3> QED
      BY <1>9, <3>1, <3>2, <3>3
  <2>6. \A t \in Tests : TestEvidence(t)'
    BY <1>e, <2>1, <2>2, <2>3, <2>4 DEF TestEvidence, Published, Looping
  <2> QED
    BY <2>5, <2>6
<1>10. CASE ExportRefusal
  <2>1. test \in Tests /\ pc = "export" /\ pc' = "judge"
    BY <1>10, TestIsTest DEF PlaceInv, AtTest, ExportRefusal
  <2>2. UNCHANGED <<data, snap, test, ran>> /\ file' = [file EXCEPT ![test] = "fresh"]
    BY <1>10 DEF ExportRefusal, censusVars
  <2>3. answer'.phases = answer.phases
    BY <1>10 DEF ExportRefusal, TypeOK
  <2> QED
    BY <1>a, <1>e, <1>q, <2>1, <2>2, <2>3 DEF TestEvidence, AnswerEvidence, Published, Looping
<1>11. CASE ExportRefusalFails
  BY <1>a, <1>e, <1>11 DEF ExportRefusalFails, Log, Record, gateVars, TestEvidence,
     AnswerEvidence, Published, Looping
<1>12. CASE Finish \/ FinishFailed
  <2>1. data'.candidates = data.candidates /\ pc' \in {"finishing", "raising"} /\ pc # "killed"
        /\ UNCHANGED <<snap, ran, file, test>>
    BY <1>12, <1>q DEF Finish, FinishFailed, FinishCensus, Record, gateVars
  <2> QED
    BY <1>e, <2>1 DEF TestEvidence, AnswerEvidence, Published, Looping
<1>13. CASE Handle
  BY <1>2, <1>13 DEF Handle, Log, Record, gateVars, Looping
<1>14. CASE Unwind \/ Disturb
  <2>1. pc' \in {"raised", "except"} /\ UNCHANGED <<data, snap, ran, file>>
    BY <1>14 DEF Unwind, Disturb, Landing, censusVars
  <2>2. pc # "killed"
    BY <1>14 DEF Unwind, Disturb, PlaceInv, Ended, Idle, Raised
  <2> QED
    BY <1>e, <2>1, <2>2 DEF TestEvidence, AnswerEvidence, Published, Looping
<1>15. CASE Kill
  <2>1. /\ pc' = "killed" /\ UNCHANGED <<snap, ran, file>>
        /\ \A t \in Tests : ~data'.candidates[t].observed /\ ~data'.candidates[t].artifact
    BY <1>15 DEF Kill, Fresh, Untouched
  <2> QED
    BY <1>e, <2>1 DEF TestEvidence, AnswerEvidence, Published, Looping
<1> QED
  BY <1>1, <1>3, <1>4, <1>5, <1>6, <1>7, <1>8, <1>9, <1>10, <1>11, <1>12, <1>13, <1>14, <1>15
     DEF Next, Step

-----------------------------------------------------------------------------
(* The snapshot between two events. *)
LEMMA InitCurrent == Init => CurrentInv
BY DEF Init, CensusInit, CurrentInv, Sequenced, InStep, Calling

(* Nothing normal follows an exception. *)
LEMMA NormalBefore ==
  ASSUME [Next]_vars, pc' \in Normal, ~Raised' PROVE pc \in Normal /\ ~Raised
<1> USE DEF Normal, Looping, Closing
<1>1. CASE Eventing
  BY <1>1 DEF Eventing, EventStep, WriteLine, WriteFails, CutShort, Count, Publish, PublishFails,
     Raised
<1>2. CASE UNCHANGED vars
  BY <1>2 DEF vars, censusVars, Raised
<1>3. CASE RefuseComparison \/ Skip \/ Gate \/ ReportRefusal \/ Missing \/ Verified
           \/ ExportRefusal \/ Report \/ Return
  BY <1>3 DEF RefuseComparison, Skip, Gate, ReportRefusal, Missing, Verified, ExportRefusal,
     Report, Return, Idle, Raised
<1>4. CASE SelectChanged \/ StartRefused \/ FinishRefused \/ StartVerify \/ Refused
           \/ ExportRefusalFails \/ Crashed \/ Judge \/ Finish
  BY <1>4 DEF SelectChanged, Select, StartRefused, FinishRefused, StartVerify, StartCandidate,
     FinishCandidate, Refused, ExportRefusalFails, Crashed, Judge, Finish, FinishCensus,
     Log, Record, Idle, Raised
<1>5. CASE Handle \/ FinishFailed \/ Reraise \/ Unwind \/ Disturb \/ Kill
  BY <1>5 DEF Handle, FinishFailed, Reraise, Unwind, Disturb, Kill, Landing
<1> QED
  BY <1>1, <1>2, <1>3, <1>4, <1>5 DEF Next, Step

LEMMA NextCurrent ==
  ASSUME TypeOK, LedgerInv, CurrentInv, [Next]_vars PROVE CurrentInv'
<1> SUFFICES ASSUME pc' \in Normal, ~Raised' PROVE CurrentInv'
  BY DEF CurrentInv
<1>0. pc \in Normal /\ ~Raised
  BY NormalBefore
<1>1. /\ Sequenced
      /\ call.step \in {"idle", "append"} => InStep
      /\ call.step = "idle" =>
           /\ Published
           /\ snap.covers = journal /\ snap.records = Len(journal)
           /\ snap.state = data.state /\ snap.known = data.known
           /\ snap.candidates = data.candidates
  BY <1>0 DEF CurrentInv
<1>2. CensusTypeOK
  BY DEF TypeOK
<1>3. CASE Recording
  BY <1>1, <1>3 DEF Recording, Idle, CurrentInv, Sequenced, InStep
<1>4. CASE Eventing
  <2>1. CASE WriteLine
    <3>1. Sequenced'
      BY <1>1, <1>2, <2>1, WritingKeepsOrder DEF WriteLine, InStep
    <3>2. call'.step = "count"
      BY <1>2, <2>1 DEF WriteLine, CensusTypeOK
    <3> QED
      BY <3>1, <3>2 DEF CurrentInv
  <2>2. CASE WriteFails \/ CutShort \/ PublishFails
    <3>1. Raised'
      BY <1>2, <2>2 DEF WriteFails, CutShort, PublishFails, Raise, CensusTypeOK, Raised
    <3> QED
      BY <3>1
  <2>3. CASE Count
    BY <1>1, <1>2, <2>3 DEF Count, CurrentInv, Sequenced, CensusTypeOK
  <2>4. CASE Publish
    <3>1. hashed = journal /\ records = Len(journal)
      BY <1>1, <2>4 DEF LedgerInv, Publish, InStep
    <3>2. UNCHANGED <<journal, hashed, records, data>>
      BY <2>4 DEF Publish
    <3>3. snap' = [state |-> data.state, known |-> data.known, candidates |-> data.candidates,
                   records |-> records, covers |-> hashed]
      BY <2>4 DEF Publish
    <3>4. Published'
      BY <3>3 DEF Published, NoSnapshot
    <3> QED
      BY <1>1, <3>1, <3>2, <3>3, <3>4 DEF CurrentInv, Sequenced, InStep
  <2> QED
    BY <1>4, <2>1, <2>2, <2>3, <2>4 DEF Eventing, EventStep
<1>5. CASE UNCHANGED censusVars
  BY <1>1, <1>5 DEF censusVars, CurrentInv, Sequenced, InStep, Published
<1>6. ~Unwind /\ ~Kill
  BY <1>0 DEF Unwind, Kill, Normal, Looping, Closing
<1> QED
  BY <1>3, <1>4, <1>5, <1>6, Effects

-----------------------------------------------------------------------------
(* What one more line changes in what the journal tells. *)
LEMMA OtherLine ==
  ASSUME NEW j \in Seq(JournalLines), NEW l \in JournalLines, NEW t, NEW c,
         ~Tells(l, "candidate_started", t), ~Tells(l, "candidate_finished", t)
  PROVE  /\ Untold(j, t) => Untold(Append(j, l), t)
         /\ Begun(j, t) => Begun(Append(j, l), t)
         /\ Done(j, t, c) => Done(Append(j, l), t, c)
<1>1. /\ Len(Append(j, l)) = Len(j) + 1 /\ Len(j) \in Nat
      /\ \A k \in 1..Len(j) : Append(j, l)[k] = j[k]
      /\ Append(j, l)[Len(j) + 1] = l
  OBVIOUS
<1>2. Untold(j, t) => Untold(Append(j, l), t)
  BY <1>1 DEF Untold
<1>3. Begun(j, t) => Begun(Append(j, l), t)
  <2> SUFFICES ASSUME Begun(j, t) PROVE Begun(Append(j, l), t)
    OBVIOUS
  <2>1. PICK s \in 1..Len(j) : \A k \in 1..Len(j) :
          (Tells(j[k], "candidate_started", t) <=> k = s)
          /\ ~Tells(j[k], "candidate_finished", t)
    BY DEF Begun
  <2>2. s \in 1..Len(Append(j, l))
    BY <1>1
  <2>3. \A k \in 1..Len(Append(j, l)) :
          (Tells(Append(j, l)[k], "candidate_started", t) <=> k = s)
          /\ ~Tells(Append(j, l)[k], "candidate_finished", t)
    BY <1>1, <2>1
  <2> QED
    BY <2>2, <2>3 DEF Begun
<1>4. Done(j, t, c) => Done(Append(j, l), t, c)
  <2> SUFFICES ASSUME Done(j, t, c) PROVE Done(Append(j, l), t, c)
    OBVIOUS
  <2>1. PICK s \in 1..Len(j), f \in 1..Len(j) :
          /\ s < f /\ j[f].disposition = c.disposition
          /\ \A k \in 1..Len(j) : /\ Tells(j[k], "candidate_started", t) <=> k = s
                                  /\ Tells(j[k], "candidate_finished", t) <=> k = f
    BY DEF Done
  <2>2. s \in 1..Len(Append(j, l)) /\ f \in 1..Len(Append(j, l))
    BY <1>1
  <2>3. \A k \in 1..Len(Append(j, l)) :
          /\ Tells(Append(j, l)[k], "candidate_started", t) <=> k = s
          /\ Tells(Append(j, l)[k], "candidate_finished", t) <=> k = f
    BY <1>1, <2>1
  <2> QED
    BY <1>1, <2>1, <2>2, <2>3 DEF Done
<1> QED
  BY <1>2, <1>3, <1>4

LEMMA StartLine ==
  ASSUME NEW j \in Seq(JournalLines), NEW l \in JournalLines, NEW t,
         Untold(j, t), Tells(l, "candidate_started", t)
  PROVE  Begun(Append(j, l), t)
<1>1. /\ Len(Append(j, l)) = Len(j) + 1 /\ Len(j) \in Nat
      /\ \A k \in 1..Len(j) : Append(j, l)[k] = j[k]
      /\ Append(j, l)[Len(j) + 1] = l
  OBVIOUS
<1>2. ~Tells(l, "candidate_finished", t)
  BY DEF Tells
<1>3. Len(j) + 1 \in 1..Len(Append(j, l))
  BY <1>1
<1>4. \A k \in 1..Len(Append(j, l)) :
        (Tells(Append(j, l)[k], "candidate_started", t) <=> k = Len(j) + 1)
        /\ ~Tells(Append(j, l)[k], "candidate_finished", t)
  BY <1>1, <1>2 DEF Untold
<1> QED
  BY <1>3, <1>4 DEF Begun

LEMMA FinishLine ==
  ASSUME NEW j \in Seq(JournalLines), NEW l \in JournalLines, NEW t, NEW c,
         Begun(j, t), Tells(l, "candidate_finished", t),
         c.state = "finished", c.disposition # "none", l.disposition = c.disposition
  PROVE  Done(Append(j, l), t, c)
<1>1. /\ Len(Append(j, l)) = Len(j) + 1 /\ Len(j) \in Nat
      /\ \A k \in 1..Len(j) : Append(j, l)[k] = j[k]
      /\ Append(j, l)[Len(j) + 1] = l
  OBVIOUS
<1>2. ~Tells(l, "candidate_started", t)
  BY DEF Tells
<1>3. PICK s \in 1..Len(j) : \A k \in 1..Len(j) :
        (Tells(j[k], "candidate_started", t) <=> k = s)
        /\ ~Tells(j[k], "candidate_finished", t)
  BY DEF Begun
<1>4. \A k \in 1..Len(Append(j, l)) :
        /\ Tells(Append(j, l)[k], "candidate_started", t) <=> k = s
        /\ Tells(Append(j, l)[k], "candidate_finished", t) <=> k = Len(j) + 1
  BY <1>1, <1>2, <1>3
<1>5. s \in 1..Len(Append(j, l)) /\ Len(j) + 1 \in 1..Len(Append(j, l)) /\ s < Len(j) + 1
  BY <1>1
<1> QED
  BY <1>1, <1>4, <1>5 DEF Done

-----------------------------------------------------------------------------
(* The journal to come. *)
NewLine(e, t, q) == [seq |-> records + 1, event |-> e, test |-> t, disposition |-> q]

LEMMA Recorded ==
  ASSUME CensusTypeOK, NEW d, NEW e \in Events, NEW t \in Nat, NEW q \in Dispositions,
         Record(d, e, t, q)
  PROVE  /\ Future = journal /\ Future' = Append(Future, NewLine(e, t, q))
         /\ data' = d /\ ~Raised /\ NewLine(e, t, q) \in JournalLines
         /\ Future \in Seq(JournalLines)
<1>1. Future = journal /\ ~Raised
  BY DEF Record, Idle, Future, Raised
<1>2. /\ call' = Calling([event |-> e, test |-> t, disposition |-> q])
      /\ data' = d /\ UNCHANGED <<journal, records>>
  BY DEF Record
<1>3. call'.step = "append" /\ Line' = NewLine(e, t, q)
  BY <1>2 DEF Calling, Line, NewLine
<1>4. Future' = Append(journal, NewLine(e, t, q))
  BY <1>2, <1>3 DEF Future
<1>5. NewLine(e, t, q) \in JournalLines /\ journal \in Seq(JournalLines)
  BY DEF NewLine, JournalLines, CensusTypeOK
<1> QED
  BY <1>1, <1>2, <1>4, <1>5

LEMMA FutureKept ==
  ASSUME CensusTypeOK, EventStep, ~Raised' PROVE Future' = Future
<1>1. CASE WriteLine
  BY <1>1 DEF WriteLine, Future, CensusTypeOK
<1>2. CASE WriteFails \/ CutShort \/ PublishFails
  BY <1>2 DEF WriteFails, CutShort, PublishFails, Raise, Raised, CensusTypeOK
<1>3. CASE Count \/ Publish
  BY <1>3 DEF Count, Publish, NotCalling, Future, CensusTypeOK
<1> QED
  BY <1>1, <1>2, <1>3 DEF EventStep

-----------------------------------------------------------------------------
(* Progress. *)
TestProgress(t) ==
  /\ pc \in {"open", "gate"} => Untold(Future, t)
  /\ pc \in Looping /\ t < test => Done(Future, t, data.candidates[t])
  /\ pc \in Looping /\ t > test => Untold(Future, t)
  /\ pc \in {"refuse", "verify"} /\ t = test => Untold(Future, t)
  /\ pc \in AtTest /\ t = test => Begun(Future, t)
  /\ pc \in Closing /\ data.known /\ t \in Changed => Done(Future, t, data.candidates[t])

LEMMA InitProgress == Init => ProgressInv
<1> SUFFICES ASSUME Init, NEW t \in Tests PROVE Untold(Future, t)
  BY DEF Init, ProgressInv, Looping, AtTest, Closing
<1>1. Future = Append(<<>>, [seq |-> 1, event |-> "invocation_started", test |-> 0,
                              disposition |-> "none"])
  BY DEF Init, CensusInit, Future, Calling, Line, NoLine
<1> QED
  BY <1>1 DEF Untold, Tells

LEMMA NextProgress ==
  ASSUME TypeOK, PlaceInv, VerdictInv, ProgressInv, [Next]_vars PROVE ProgressInv'
<1> SUFFICES ASSUME pc' \in Normal, ~Raised', NEW t \in Tests PROVE TestProgress(t)'
  BY DEF ProgressInv, TestProgress
<1>0. pc \in Normal /\ ~Raised
  BY NormalBefore
<1>p. TestProgress(t)
  BY <1>0 DEF ProgressInv, TestProgress
<1>c. CensusTypeOK /\ UNCHANGED request
  BY RanStays DEF TypeOK
<1>n. test \in Int /\ t \in Int /\ t >= 1 /\ test <= request.changed + 1
      /\ request.changed \in Nat
  BY MaxTestsAssumption DEF TypeOK, Tests
<1>d. data.candidates \in [Tests -> Candidates]
  BY <1>c DEF CensusTypeOK
<1> USE DEF Looping, AtTest, Closing
<1>1. ASSUME Future' = Future, UNCHANGED <<data, pc, test>> PROVE TestProgress(t)'
  BY <1>p, <1>c, <1>1 DEF TestProgress, Changed
<1>f. UNCHANGED censusVars => Future' = Future /\ UNCHANGED data
  BY DEF censusVars, Future, Line
<1>2. CASE Eventing
  BY <1>1, <1>2, <1>c, FutureKept DEF Eventing, EventStep, WriteLine, WriteFails, CutShort,
     Count, Publish, PublishFails
<1>3. CASE UNCHANGED vars \/ Missing \/ Verified \/ ExportRefusal
  <2>1. CASE UNCHANGED vars
    BY <1>1, <1>f, <2>1 DEF vars
  <2>2. CASE Missing \/ Verified \/ ExportRefusal
    <3>1. pc \in {"attempt", "export"} /\ pc' = "judge" /\ UNCHANGED <<test, censusVars>>
      BY <2>2 DEF Missing, Verified, ExportRefusal, gateVars
    <3> QED
      BY <1>p, <1>f, <3>1 DEF TestProgress
  <2> QED
    BY <1>3, <2>1, <2>2
<1>4. CASE RefuseComparison \/ Skip
  <2>1. pc \in {"open", "gate"} /\ pc' = "finish" /\ UNCHANGED <<test, censusVars>>
    BY <1>4 DEF RefuseComparison, Skip
  <2>2. data.known => t \notin Changed
    BY <1>4 DEF RefuseComparison, Skip, VerdictInv
  <2> QED
    BY <1>c, <1>f, <2>1, <2>2 DEF TestProgress, Changed
<1>5. CASE Gate
  <2>1. pc = "gate" /\ pc' \in {"refuse", "verify"} /\ test' = 1 /\ UNCHANGED censusVars
    BY <1>5 DEF Gate
  <2> QED
    BY <1>p, <1>n, <1>f, <2>1 DEF TestProgress
<1>6. CASE Report \/ ReportRefusal
  <2>1. pc \in {"refuse", "verify"} /\ pc' = "finish" /\ UNCHANGED censusVars /\ test \notin Changed
    BY <1>6 DEF Report, ReportRefusal
  <2>2. t \in Changed => t < test
    BY <1>n, <2>1 DEF Changed, PlaceInv
  <2> QED
    BY <1>p, <1>c, <1>f, <2>1, <2>2 DEF TestProgress, Changed
<1>7. CASE Return
  <2>1. pc = "finishing" /\ pc' = "returned" /\ UNCHANGED censusVars
    BY <1>7 DEF Return
  <2> QED
    BY <1>p, <1>c, <1>f, <2>1 DEF TestProgress, Changed
<1>8. CASE SelectChanged
  <2>1. pc = "open" /\ pc' = "gate"
    BY <1>8 DEF SelectChanged
  <2>2. /\ Future' = Append(Future, NewLine("candidates_selected", 0, "none"))
        /\ NewLine("candidates_selected", 0, "none") \in JournalLines
        /\ Future \in Seq(JournalLines)
    BY <1>c, <1>8, Recorded DEF SelectChanged, Select, Events, Dispositions
  <2>3. Untold(Future, t)
    BY <1>p, <2>1 DEF TestProgress
  <2>4. Untold(Future', t)
    BY <2>2, <2>3, OtherLine DEF Tells, NewLine
  <2> QED
    BY <2>1, <2>4 DEF TestProgress
<1>9. CASE StartRefused \/ StartVerify
  <2>1. /\ pc \in {"refuse", "verify"} /\ pc' \in {"refused", "attempt"} /\ test' = test
        /\ test \in Tests /\ test \in Nat /\ StartCandidate(test)
    BY <1>9, TestIsTest DEF StartRefused, StartVerify
  <2>2. /\ Future' = Append(Future, NewLine("candidate_started", test, "none"))
        /\ NewLine("candidate_started", test, "none") \in JournalLines
        /\ Future \in Seq(JournalLines)
        /\ data' = [data EXCEPT !.candidates[test].state = "attempted"]
    BY <1>c, <2>1, Recorded DEF StartCandidate, Events, Dispositions
  <2>3. CASE t = test
    <3>1. Untold(Future, t)
      BY <1>p, <2>1, <2>3 DEF TestProgress
    <3>2. Begun(Future', t)
      BY <2>2, <2>3, <3>1, StartLine DEF Tells, NewLine
    <3> QED
      BY <1>n, <2>1, <2>3, <3>2 DEF TestProgress
  <2>4. CASE t # test
    <3>1. data'.candidates[t] = data.candidates[t]
      BY <1>c, <1>d, <2>1, <2>2, <2>4 DEF CensusTypeOK
    <3>2. ~Tells(NewLine("candidate_started", test, "none"), "candidate_started", t)
          /\ ~Tells(NewLine("candidate_started", test, "none"), "candidate_finished", t)
      BY <2>4 DEF Tells, NewLine
    <3>3. /\ Untold(Future, t) => Untold(Future', t)
          /\ Done(Future, t, data.candidates[t]) => Done(Future', t, data.candidates[t])
      BY <2>2, <3>2, OtherLine
    <3> QED
      BY <1>p, <1>n, <2>1, <2>4, <3>1, <3>3 DEF TestProgress
  <2> QED
    BY <2>3, <2>4
<1>10. CASE FinishRefused \/ Judge
  <2>1. /\ pc \in {"refused", "judge"} /\ pc' \in {"refuse", "verify"} /\ test' = test + 1
        /\ test \in Tests /\ test \in Nat
    BY <1>10, TestIsTest DEF FinishRefused, Judge, PlaceInv
  <2>2. PICK q \in Dispositions, o \in BOOLEAN, a \in BOOLEAN : FinishCandidate(test, q, o, a) /\ q # "none"
    <3>1. CASE FinishRefused
      BY <3>1 DEF FinishRefused, Dispositions
    <3>2. CASE Judge
      <4>1. Named \in BOOLEAN /\ Observed \in BOOLEAN
        BY DEF TypeOK, Named, Observed
      <4>2. /\ FinishCandidate(test, answer.disposition, Observed, Named)
            /\ answer.disposition \in Dispositions /\ answer.disposition # "none"
        BY <3>2 DEF Judge, VerdictInv, TypeOK
      <4> QED
        BY <4>1, <4>2
    <3> QED
      BY <1>10, <3>1, <3>2
  <2>3. /\ Future' = Append(Future, NewLine("candidate_finished", test, q))
        /\ NewLine("candidate_finished", test, q) \in JournalLines
        /\ Future \in Seq(JournalLines)
        /\ data' = [data EXCEPT !.candidates[test] =
                      [state |-> "finished", disposition |-> q, observed |-> o, artifact |-> a]]
    BY <1>c, <2>1, <2>2, Recorded DEF FinishCandidate, Events
  <2>4. CASE t = test
    <3>1. Begun(Future, t)
      BY <1>p, <2>1, <2>4 DEF TestProgress
    <3>2. data'.candidates[t] =
            [state |-> "finished", disposition |-> q, observed |-> o, artifact |-> a]
      BY <1>c, <1>d, <2>3, <2>4 DEF CensusTypeOK
    <3>3. Done(Future', t, data'.candidates[t])
      BY <2>2, <2>3, <2>4, <3>1, <3>2, FinishLine DEF Tells, NewLine
    <3> QED
      BY <1>n, <2>1, <2>4, <3>3 DEF TestProgress
  <2>5. CASE t # test
    <3>1. data'.candidates[t] = data.candidates[t]
      BY <1>c, <1>d, <2>1, <2>3, <2>5 DEF CensusTypeOK
    <3>2. ~Tells(NewLine("candidate_finished", test, q), "candidate_started", t)
          /\ ~Tells(NewLine("candidate_finished", test, q), "candidate_finished", t)
      BY <2>5 DEF Tells, NewLine
    <3>3. /\ Untold(Future, t) => Untold(Future', t)
          /\ Done(Future, t, data.candidates[t]) => Done(Future', t, data.candidates[t])
      BY <2>3, <3>2, OtherLine
    <3> QED
      BY <1>p, <1>n, <2>1, <2>5, <3>1, <3>3 DEF TestProgress
  <2> QED
    BY <2>4, <2>5
<1>11. CASE Refused \/ Crashed \/ ExportRefusalFails \/ Finish
  <2>1. \/ pc \in {"attempt", "export"} /\ pc' \in {"export", "judge"}
        \/ pc = "finish" /\ pc' = "finishing"
    BY <1>11 DEF Refused, Crashed, ExportRefusalFails, Finish
  <2>2. test' = test /\ test \in Nat
    <3>1. test' = test
      BY <1>11 DEF Refused, Crashed, ExportRefusalFails, Finish
    <3>2. test \in Nat
      BY <1>n DEF TypeOK
    <3> QED
      BY <3>1, <3>2
  <2> DEFINE Says(d, e, u) == Record(d, e, u, "none") /\ d.candidates = data.candidates
                              /\ d.known = data.known
             Others == Events \ {"candidate_started", "candidate_finished"}
  <2>3. \E d : \E e \in Others, u \in Nat : Says(d, e, u)
    <3>1. CASE Refused \/ Crashed \/ ExportRefusalFails
      <4>1. \E e \in {"verification_refused", "verification_exception",
                       "refusal_receipt_exception"} : Says(data, e, test)
        BY <3>1 DEF Refused, Crashed, ExportRefusalFails, Log
      <4> QED
        BY <2>2, <4>1 DEF Events
    <3>2. CASE Finish
      <4>1. Record([data EXCEPT !.state = "finished"], "invocation_finished", 0, "none")
        BY <3>2 DEF Finish, FinishCensus
      <4>2. /\ [data EXCEPT !.state = "finished"].candidates = data.candidates
            /\ [data EXCEPT !.state = "finished"].known = data.known
        BY <1>c DEF CensusTypeOK
      <4>3. "invocation_finished" \in Others /\ 0 \in Nat
        BY DEF Events
      <4> QED
        BY <4>1, <4>2, <4>3
    <3> QED
      BY <1>11, <3>1, <3>2
  <2>3a. PICK d : \E e \in Others, u \in Nat : Says(d, e, u)
    BY <2>3
  <2>3b. PICK e \in Others, u \in Nat : Says(d, e, u)
    BY <2>3a
  <2>4. /\ Future' = Append(Future, NewLine(e, u, "none"))
        /\ NewLine(e, u, "none") \in JournalLines
        /\ Future \in Seq(JournalLines) /\ data' = d
    BY <1>c, <2>3b, Recorded DEF Dispositions
  <2>5. ~Tells(NewLine(e, u, "none"), "candidate_started", t)
        /\ ~Tells(NewLine(e, u, "none"), "candidate_finished", t)
    BY <2>3b DEF Tells, NewLine
  <2>6. /\ Untold(Future, t) => Untold(Future', t)
        /\ Begun(Future, t) => Begun(Future', t)
        /\ Done(Future, t, data.candidates[t]) => Done(Future', t, data.candidates[t])
    BY <2>4, <2>5, OtherLine
  <2> QED
    BY <1>p, <1>c, <2>1, <2>2, <2>3b, <2>4, <2>6 DEF TestProgress, Changed
<1>12. CASE Handle \/ FinishFailed \/ Reraise \/ Unwind \/ Disturb \/ Kill
  <2>1. pc' \notin Normal
    BY <1>12 DEF Handle, FinishFailed, Reraise, Unwind, Disturb, Kill, Landing, Normal
  <2> QED
    BY <2>1
<1> QED
  BY <1>2, <1>3, <1>4, <1>5, <1>6, <1>7, <1>8, <1>9, <1>10, <1>11, <1>12 DEF Next, Step

-----------------------------------------------------------------------------
(* The exit code. *)
LEMMA InitVerdict == Init => VerdictInv
BY DEF Init, CensusInit, Fresh, VerdictInv, Looping, Closing

(* What VerdictInv says of a test whose result is in. *)
Settled(t) ==
  /\ results[t] = data.candidates[t].disposition
  /\ results[t] = "proven" => ran[t] # "nowhere" /\ file[t] = "fresh"

Backed ==
  /\ data.known
  /\ \A t \in Changed : data.candidates[t].disposition # "refusal"
  /\ request.policy = "strict" /\ Changed # {} =>
       \E t \in Changed : /\ data.candidates[t].disposition = "proven"
                          /\ ran[t] # "nowhere" /\ file[t] = "fresh"

AnswerHolds ==
  /\ answer.result = answer.disposition /\ answer.result # "none"
  /\ answer.result = "proven" => ran[test] # "nowhere" /\ file[test] = "fresh"

LEMMA VerdictSplit ==
  VerdictInv <=> /\ pc = "open" => ~data.known
                 /\ pc \in {"gate"} \cup Looping => data.known
                 /\ pc \in Looping => \A t \in Changed : t < test => Settled(t)
                 /\ pc \in {"export", "judge"} => AnswerHolds
                 /\ pc \in Closing /\ Blocking => Backed
                 /\ pc \in {"finishing", "returned"} => data.state = "finished"
BY DEF VerdictInv, Settled, Backed, AnswerHolds

LEMMA NextVerdict ==
  ASSUME TypeOK, PlaceInv, VerdictInv, [Next]_vars PROVE VerdictInv'
<1> SUFFICES /\ pc' = "open" => ~data'.known
             /\ pc' \in {"gate"} \cup Looping => data'.known
             /\ pc' \in Looping => \A t \in Changed' : t < test' => Settled(t)'
             /\ pc' \in {"export", "judge"} => AnswerHolds'
             /\ pc' \in Closing /\ Blocking' => Backed'
             /\ pc' \in {"finishing", "returned"} => data'.state = "finished"
  BY DEF VerdictInv, Settled, Backed, AnswerHolds
<1>v. /\ pc = "open" => ~data.known
      /\ pc \in {"gate"} \cup Looping => data.known
      /\ pc \in Looping => \A t \in Changed : t < test => Settled(t)
      /\ pc \in {"export", "judge"} => AnswerHolds
      /\ pc \in Closing /\ Blocking => Backed
      /\ pc \in {"finishing", "returned"} => data.state = "finished"
  BY VerdictSplit
<1>r. UNCHANGED request /\ Changed' = Changed
  BY RanStays DEF Changed
<1>p. request.policy \in {"advisory", "strict", "block-on-refusal"}
  BY ActionAssumption DEF TypeOK
<1>q. /\ data.candidates \in [Tests -> Candidates]
      /\ data \in [state : States, known : BOOLEAN, candidates : [Tests -> Candidates]]
      /\ ran \in [Tests -> {"nowhere", "isolated", "foreign", "host"}]
      /\ file \in [Tests -> {"absent", "stale", "fresh"}]
      /\ results \in [Tests -> Results]
  BY DEF TypeOK, CensusTypeOK
<1>c. \A t \in Changed : t \in Tests /\ t \in Nat
  BY TestIsTest
<1>n. test \in Int
  BY DEF TypeOK
<1> USE DEF Looping, Closing
<1>1. ASSUME UNCHANGED <<data, results, ran, file, test, code, answer, pc>>
      PROVE  /\ pc' = "open" => ~data'.known
             /\ pc' \in {"gate"} \cup Looping => data'.known
             /\ pc' \in Looping => \A t \in Changed' : t < test' => Settled(t)'
             /\ pc' \in {"export", "judge"} => AnswerHolds'
             /\ pc' \in Closing /\ Blocking' => Backed'
             /\ pc' \in {"finishing", "returned"} => data'.state = "finished"
  BY <1>v, <1>r, <1>1 DEF Settled, AnswerHolds, Blocking, Backed
<1>2. CASE Eventing \/ UNCHANGED vars
  <2>1. UNCHANGED <<data, results, ran, file, test, code, answer, pc>>
    BY <1>2 DEF Eventing, EventStep, WriteLine, WriteFails, CutShort, Count, Publish,
       PublishFails, vars, gateVars, censusVars
  <2> QED
    BY <1>1, <2>1
<1>3. CASE RefuseComparison \/ ReportRefusal
  <2>1. pc' = "finish" /\ code' = ExitUnder({"strict", "block-on-refusal"})
    BY <1>3 DEF RefuseComparison, ReportRefusal
  <2>2. ~Blocking'
    BY <1>r, <1>p, <2>1 DEF Blocking, ExitUnder
  <2> QED
    BY <2>1, <2>2
<1>4. CASE SelectChanged
  <2>1. pc' = "gate" /\ data'.known
    BY <1>4, <1>q DEF SelectChanged, Select, Record
  <2> QED
    BY <2>1
<1>5. CASE Skip
  <2>1. pc' = "finish" /\ data'.known /\ Changed' = {}
    BY <1>v, <1>r, <1>5 DEF Skip, censusVars
  <2> QED
    BY <2>1 DEF Backed
<1>6. CASE Gate
  <2>1. pc' \in {"refuse", "verify"} /\ data'.known /\ test' = 1
    BY <1>v, <1>6 DEF Gate, censusVars
  <2>2. \A t \in Changed : ~(t < 1)
    BY DEF Changed
  <2> QED
    BY <1>r, <2>1, <2>2
<1>7. CASE StartRefused \/ StartVerify
  <2>1. /\ pc \in Looping /\ pc' \in {"refused", "attempt"} /\ test \in Tests
        /\ UNCHANGED <<ran, file, results, test>> /\ StartCandidate(test)
    BY <1>c, <1>7 DEF StartRefused, StartVerify, gateVars
  <2>2. data' = [data EXCEPT !.candidates[test].state = "attempted"]
    BY <2>1 DEF StartCandidate, Record
  <2>3. /\ data'.known = data.known
        /\ \A t \in Tests : data'.candidates[t].disposition = data.candidates[t].disposition
    BY <1>q, <2>1, <2>2 DEF Candidates
  <2> QED
    BY <1>v, <1>r, <1>c, <2>1, <2>3 DEF Settled
<1>8. CASE FinishRefused \/ Judge
  <2>1. /\ pc \in AtTest /\ pc' \in {"refuse", "verify"} /\ test \in Changed
        /\ test \in Tests /\ test' = test + 1 /\ UNCHANGED ran
    BY <1>c, <1>8 DEF FinishRefused, Judge, PlaceInv, AtTest
  <2>2. \A t \in Tests : file[t] = "fresh" => file'[t] = "fresh"
    BY <1>8, <1>q DEF FinishRefused, Judge
  <2>3. \E d \in Results : /\ \E o, a : FinishCandidate(test, d, o, a)
                           /\ results' = [results EXCEPT ![test] = d]
                           /\ d = "proven" => ran[test] # "nowhere" /\ file[test] = "fresh"
    <3>1. CASE FinishRefused
      BY <3>1 DEF FinishRefused, Results
    <3>2. CASE Judge
      <4>1. pc = "judge" /\ results' = [results EXCEPT ![test] = answer.result]
            /\ FinishCandidate(test, answer.disposition, Observed, Named)
        BY <3>2 DEF Judge
      <4>2. AnswerHolds /\ answer.result \in Results
        BY <1>v, <4>1 DEF TypeOK
      <4> QED
        BY <4>1, <4>2 DEF AnswerHolds
    <3> QED
      BY <1>8, <3>1, <3>2
  <2>4. PICK d \in Results : /\ \E o, a : FinishCandidate(test, d, o, a)
                             /\ results' = [results EXCEPT ![test] = d]
                             /\ d = "proven" => ran[test] # "nowhere" /\ file[test] = "fresh"
    BY <2>3
  <2>5. /\ data'.known = data.known /\ data'.candidates[test].disposition = d
        /\ \A t \in Tests \ {test} : data'.candidates[t] = data.candidates[t]
    BY <1>q, <2>1, <2>4 DEF FinishCandidate, Record
  <2>6. results'[test] = d /\ \A t \in Tests \ {test} : results'[t] = results[t]
    BY <1>q, <2>1, <2>4
  <2>7. ASSUME NEW t \in Changed, t < test' PROVE Settled(t)'
    <3>1. CASE t = test
      BY <2>1, <2>2, <2>4, <2>5, <2>6, <3>1 DEF Settled
    <3>2. CASE t # test
      <4>1. t < test /\ t \in Tests
        BY <1>c, <1>n, <2>1, <2>7, <3>2
      <4>2. Settled(t)
        BY <1>v, <2>1, <4>1 DEF AtTest
      <4> QED
        BY <2>1, <2>2, <2>5, <2>6, <3>2, <4>1, <4>2 DEF Settled
    <3> QED
      BY <3>1, <3>2
  <2> QED
    BY <1>v, <1>r, <2>1, <2>5, <2>7 DEF AtTest
<1>9. CASE Missing \/ Verified \/ Refused \/ Crashed \/ ExportRefusal \/ ExportRefusalFails
  <2>1. /\ pc \in {"attempt", "export"} /\ pc' \in {"export", "judge"}
        /\ UNCHANGED <<data, results, test>> /\ test \in Changed /\ test \in Tests
    BY <1>c, <1>9 DEF Missing, Verified, Refused, Crashed, ExportRefusal, ExportRefusalFails,
       Log, Record, censusVars, gateVars, PlaceInv, AtTest
  <2>2. \A t \in Tests \ {test} : ran'[t] = ran[t] /\ file'[t] = file[t]
    BY <1>9, <1>q DEF Missing, Verified, Refused, Crashed, ExportRefusal, ExportRefusalFails,
       gateVars
  <2>3. \A t \in Changed : t < test' => Settled(t)'
    BY <1>v, <1>c, <1>n, <2>1, <2>2 DEF Settled
  <2>4. AnswerHolds'
    <3>1. CASE Missing \/ Refused \/ Crashed
      <4>1. answer'.result = "refusal" /\ answer'.disposition = "refusal"
        BY <3>1 DEF Missing, Refused, Crashed, Answer
      <4> QED
        BY <4>1 DEF AnswerHolds
    <3>2. CASE Verified
      <4>1. PICK place \in Places, result \in {"proven", "judged", "refusal"} :
              /\ place = "nowhere" => result = "refusal"
              /\ ran' = [ran EXCEPT ![test] = place]
              /\ answer' = Answer(result, result, FALSE, TRUE)
        BY <3>2 DEF Verified
      <4>2. answer'.result = result /\ answer'.disposition = result
        BY <4>1 DEF Answer
      <4>3. ran'[test] = place /\ file'[test] = "fresh"
        BY <1>q, <2>1, <3>2, <4>1 DEF Verified
      <4> QED
        BY <2>1, <4>1, <4>2, <4>3 DEF AnswerHolds
    <3>3. CASE ExportRefusal \/ ExportRefusalFails
      <4>1. AnswerHolds
        BY <1>v, <3>3 DEF ExportRefusal, ExportRefusalFails
      <4>2. /\ answer'.result = answer.result /\ answer'.disposition = answer.disposition
            /\ UNCHANGED ran
        BY <3>3 DEF ExportRefusal, ExportRefusalFails, gateVars, TypeOK
      <4>3. file[test] = "fresh" => file'[test] = "fresh"
        BY <1>q, <2>1, <3>3 DEF ExportRefusal, ExportRefusalFails, gateVars
      <4> QED
        BY <2>1, <4>1, <4>2, <4>3 DEF AnswerHolds
    <3> QED
      BY <1>9, <3>1, <3>2, <3>3
  <2> QED
    BY <1>v, <1>r, <2>1, <2>3, <2>4
<1>10. CASE Report
  <2>1. /\ pc = "verify" /\ pc' = "finish" /\ test \notin Changed
        /\ UNCHANGED <<data, results, ran, file, test>>
    BY <1>10 DEF Report, censusVars
  <2>2. test >= 1 /\ test <= request.changed + 1 /\ request.changed \in Nat
    BY <2>1, MaxTestsAssumption DEF PlaceInv, TypeOK
  <2>3. \A t \in Changed : Settled(t)
    BY <1>v, <1>n, <2>1, <2>2 DEF Changed
  <2>4. data.known
    BY <1>v, <2>1
  <2>5. ASSUME Blocking' PROVE Refusals = {} /\ (request.policy = "strict" => Proven # {})
    BY <1>p, <1>r, <1>10, <2>5 DEF Report, Blocking
  <2>6. ASSUME Blocking' PROVE Backed'
    <3>1. \A t \in Changed : data.candidates[t].disposition # "refusal"
      BY <2>3, <2>5, <2>6 DEF Settled, Refusals
    <3>2. request.policy = "strict" =>
            \E t \in Changed : /\ data.candidates[t].disposition = "proven"
                               /\ ran[t] # "nowhere" /\ file[t] = "fresh"
      BY <2>3, <2>5, <2>6 DEF Settled, Proven
    <3> QED
      BY <1>r, <2>1, <2>4, <3>1, <3>2 DEF Backed
  <2> QED
    BY <2>1, <2>6
<1>11. CASE Finish \/ Return
  <2>1. /\ pc \in {"finish", "finishing"} /\ pc' \in {"finishing", "returned"}
        /\ UNCHANGED <<ran, file, code>>
    BY <1>11 DEF Finish, Return, gateVars
  <2>2. /\ data'.state = "finished" /\ data'.known = data.known
        /\ data'.candidates = data.candidates
    BY <1>v, <1>q, <1>11 DEF Finish, FinishCensus, Record, Return, censusVars
  <2>3. Blocking' => Backed
    BY <1>v, <1>r, <2>1 DEF Blocking
  <2>4. Backed => Backed'
    BY <1>r, <2>1, <2>2 DEF Backed
  <2> QED
    BY <2>1, <2>2, <2>3, <2>4
<1>12. CASE Handle \/ FinishFailed \/ Reraise \/ Unwind \/ Disturb \/ Kill
  <2>1. pc' \in {"failing", "raising", "raised", "except", "killed"}
    BY <1>12 DEF Handle, FinishFailed, Reraise, Unwind, Disturb, Kill, Landing
  <2> QED
    BY <2>1
<1> QED
  BY <1>2, <1>3, <1>4, <1>5, <1>6, <1>7, <1>8, <1>9, <1>10, <1>11, <1>12 DEF Next, Step

-----------------------------------------------------------------------------
(* What is called finished. *)
LEMMA InitFinished == Init => FinishedInv
BY DEF Init, CensusInit, FinishedInv, Fresh, NoSnapshot, Published, Looping

Told == {"invocation_exception", "invocation_finished"}
Late == {"finishing", "returned", "raised"} \cup Handling

LEMMA FinishedSplit ==
  FinishedInv <=>
    /\ data.state = "finished" =>
         pc \in Late /\ (data.known => \A t \in Changed : Done(journal, t, data.candidates[t]))
    /\ Published /\ snap.state = "finished" =>
         /\ pc \in Late \cup {"killed"}
         /\ snap.known => \A t \in Changed : Done(journal, t, snap.candidates[t])
    /\ pc \notin {"open", "gate"} \cup Looping /\ call.step = "append" => call.line.event \in Told
BY DEF FinishedInv, Told, Late

LEMMA NextFinished ==
  ASSUME TypeOK, PlaceInv, ProgressInv, FinishedInv, [Next]_vars PROVE FinishedInv'
<1> SUFFICES
      /\ data'.state = "finished" =>
           pc' \in Late /\ (data'.known => \A t \in Changed' : Done(journal', t, data'.candidates[t]))
      /\ Published' /\ snap'.state = "finished" =>
           /\ pc' \in Late \cup {"killed"}
           /\ snap'.known => \A t \in Changed' : Done(journal', t, snap'.candidates[t])
      /\ pc' \notin {"open", "gate"} \cup Looping /\ call'.step = "append" =>
           call'.line.event \in Told
  BY DEF FinishedInv, Told, Late
<1>f. /\ data.state = "finished" =>
           pc \in Late /\ (data.known => \A t \in Changed : Done(journal, t, data.candidates[t]))
      /\ Published /\ snap.state = "finished" =>
           /\ pc \in Late \cup {"killed"}
           /\ snap.known => \A t \in Changed : Done(journal, t, snap.candidates[t])
      /\ pc \notin {"open", "gate"} \cup Looping /\ call.step = "append" => call.line.event \in Told
  BY FinishedSplit
<1>r. UNCHANGED request /\ Changed' = Changed
  BY RanStays DEF Changed
<1>c. CensusTypeOK
  BY DEF TypeOK
<1>1. CASE Eventing
  <2>0. EventStep /\ UNCHANGED <<pc, data>>
    BY <1>1 DEF Eventing, EventStep, WriteLine, WriteFails, CutShort, Count, Publish, PublishFails
  <2>1. call'.step # "append"
    BY <1>c, <2>0 DEF EventStep, WriteLine, WriteFails, CutShort, Raise, Count, Publish,
       PublishFails, NotCalling, CensusTypeOK
  <2>2. CASE WriteLine
    <3>1. /\ journal' = Append(journal, Line) /\ UNCHANGED snap /\ call.step = "append"
          /\ journal \in Seq(JournalLines) /\ Line \in JournalLines
      BY <1>c, <2>2, LineIsTyped DEF WriteLine, CensusTypeOK
    <3>2. ASSUME pc \in Late \cup {"killed"}, NEW t, NEW c, Done(journal, t, c)
          PROVE  Done(journal', t, c)
      <4>1. call.line.event \in Told
        BY <1>f, <3>1, <3>2 DEF Late, Looping, Handling
      <4>2. ~Tells(Line, "candidate_started", t) /\ ~Tells(Line, "candidate_finished", t)
        BY <4>1 DEF Tells, Line, Told
      <4> QED
        BY <3>1, <3>2, <4>2, OtherLine
    <3> QED
      BY <1>f, <1>r, <2>0, <2>1, <3>1, <3>2 DEF Published
  <2>3. CASE Publish
    <3>1. UNCHANGED journal
          /\ snap' = [state |-> data.state, known |-> data.known, candidates |-> data.candidates,
                      records |-> records, covers |-> hashed]
      BY <2>3 DEF Publish
    <3> QED
      BY <1>f, <1>r, <2>0, <2>1, <3>1
  <2>4. CASE WriteFails \/ CutShort \/ Count \/ PublishFails
    <3>1. UNCHANGED <<journal, snap>>
      BY <2>4 DEF WriteFails, CutShort, Count, PublishFails
    <3> QED
      BY <1>f, <1>r, <2>0, <2>1, <3>1 DEF Published
  <2> QED
    BY <2>0, <2>2, <2>3, <2>4 DEF EventStep
<1>2. CASE UNCHANGED vars
  BY <1>f, <1>r, <1>2 DEF vars, censusVars, Published
<1>3. CASE RefuseComparison \/ Skip \/ Gate \/ ReportRefusal \/ Missing \/ Verified
           \/ ExportRefusal \/ Report \/ Return \/ Reraise
  <2>1. UNCHANGED <<journal, snap, data, call>> /\ call.step = "idle"
    BY <1>3 DEF RefuseComparison, Skip, Gate, ReportRefusal, Missing, Verified, ExportRefusal,
       Report, Return, Reraise, censusVars, Idle
  <2>2. pc \in {"open", "gate"} \cup Looping \cup {"finishing", "raising"}
    BY <1>3 DEF RefuseComparison, Skip, Gate, ReportRefusal, Missing, Verified, ExportRefusal,
       Report, Return, Reraise, Looping
  <2>3. pc \in {"finishing", "raising"} => pc' \in {"returned", "raised"}
    BY <1>3 DEF RefuseComparison, Skip, Gate, ReportRefusal, Missing, Verified, ExportRefusal,
       Report, Return, Reraise
  <2> QED
    BY <1>f, <1>r, <2>1, <2>2, <2>3 DEF Published, Late, Looping, Handling
<1>4. CASE SelectChanged \/ StartRefused \/ FinishRefused \/ StartVerify \/ Refused
           \/ ExportRefusalFails \/ Crashed \/ Judge
  <2>1. /\ pc \in {"open", "gate"} \cup Looping /\ pc' \in {"open", "gate"} \cup Looping
        /\ UNCHANGED snap
    BY <1>4 DEF SelectChanged, Select, StartRefused, FinishRefused, StartVerify, StartCandidate,
       FinishCandidate, Refused, ExportRefusalFails, Crashed, Judge, Log, Record, Looping
  <2>2. data.state # "finished" /\ ~(Published /\ snap.state = "finished")
    BY <1>f, <2>1 DEF Late, Looping, Handling
  <2>3. data'.state = data.state
    BY <1>c, <1>4 DEF SelectChanged, Select, StartRefused, FinishRefused, StartVerify,
       StartCandidate, FinishCandidate, Refused, ExportRefusalFails, Crashed, Judge, Log,
       Record, CensusTypeOK
  <2> QED
    BY <2>1, <2>2, <2>3 DEF Published
<1>5. CASE Finish
  <2>1. /\ pc = "finish" /\ pc' = "finishing" /\ call.step = "idle"
        /\ UNCHANGED <<journal, snap>>
        /\ data' = [data EXCEPT !.state = "finished"]
        /\ call'.line.event = "invocation_finished"
    BY <1>5 DEF Finish, FinishCensus, Record, Idle, Calling
  <2>2. data'.known = data.known /\ data'.candidates = data.candidates
    BY <1>c, <2>1 DEF CensusTypeOK
  <2>3. ~(Published /\ snap.state = "finished")
    BY <1>f, <2>1 DEF Late, Handling
  <2>4. ASSUME data.known, NEW t \in Changed PROVE Done(journal, t, data.candidates[t])
    <3>1. pc \in Normal /\ ~Raised /\ Future = journal
      BY <2>1 DEF Normal, Closing, Raised, Future
    <3>2. t \in Tests
      BY TestIsTest
    <3> QED
      BY <2>1, <2>4, <3>1, <3>2 DEF ProgressInv, Closing
  <2> QED
    BY <1>r, <2>1, <2>2, <2>3, <2>4 DEF Published, Late, Told
<1>6. CASE Handle \/ FinishFailed
  <2>1. /\ pc \in Handling /\ pc' \in Handling /\ UNCHANGED <<journal, snap>>
        /\ call'.line.event \in Told
    BY <1>6 DEF Handle, FinishFailed, Handling, Log, FinishCensus, Record, Calling, Told
  <2>2. UNCHANGED data \/ data'.state # "finished"
    BY <1>c, <1>6 DEF Handle, FinishFailed, Log, FinishCensus, Record, CensusTypeOK
  <2> QED
    BY <1>f, <1>r, <2>1, <2>2 DEF Published, Late, Handling
<1>7. CASE Unwind \/ Disturb
  <2>1. /\ pc' \in {"except", "raised"} /\ UNCHANGED <<journal, snap, data>>
        /\ call'.step = "idle"
    BY <1>7 DEF Unwind, Disturb, Landing, censusVars, Idle, NotCalling
  <2> QED
    BY <1>f, <1>r, <2>1 DEF Published, Late, Handling
<1>8. CASE Kill
  <2>1. /\ pc' = "killed" /\ UNCHANGED <<journal, snap>> /\ data'.state = "started"
        /\ call'.step = "idle"
    BY <1>8 DEF Kill, Fresh, NotCalling
  <2> QED
    BY <1>f, <1>r, <2>1 DEF Published
<1> QED
  BY <1>1, <1>2, <1>3, <1>4, <1>5, <1>6, <1>7, <1>8 DEF Next, Step

-----------------------------------------------------------------------------
(* The inductive invariant. *)
LEMMA InitInv == Init => IInv
BY InitTypes, InitConfined, InitLedger, InitEvidence, InitCurrent, InitProgress, InitFinished,
   InitVerdict DEF IInv

LEMMA NextInv == IInv /\ [Next]_vars => IInv'
<1> SUFFICES ASSUME IInv, [Next]_vars PROVE IInv'
  OBVIOUS
<1>1. TypeOK' /\ PlaceInv'
  BY NextTypes DEF IInv
<1>2. UntrustedConfined' /\ LedgerInv'
  BY NextConfined, NextLedger DEF IInv
<1>3. EvidenceInv' /\ CurrentInv'
  BY NextEvidence, NextCurrent DEF IInv
<1>4. ProgressInv' /\ FinishedInv' /\ VerdictInv'
  BY NextProgress, NextFinished, NextVerdict DEF IInv
<1> QED
  BY <1>1, <1>2, <1>3, <1>4 DEF IInv

LEMMA Invariance == Spec => []IInv
<1>1. Init => IInv
  BY InitInv
<1>2. IInv /\ [Next]_vars => IInv'
  BY NextInv
<1> QED
  BY <1>1, <1>2, PTL DEF Spec

(* A finished test has exactly one line of each kind. *)
LEMMA DoneLines ==
  ASSUME NEW t, NEW c, Done(journal, t, c)
  PROVE  \E s, f \in 1..Len(journal) :
           /\ Lines("candidate_started", t) = {s} /\ Lines("candidate_finished", t) = {f}
           /\ s < f /\ journal[f].disposition = c.disposition
<1>1. PICK s \in 1..Len(journal), f \in 1..Len(journal) :
        /\ s < f /\ journal[f].disposition = c.disposition
        /\ \A k \in 1..Len(journal) : /\ Tells(journal[k], "candidate_started", t) <=> k = s
                                      /\ Tells(journal[k], "candidate_finished", t) <=> k = f
  BY DEF Done
<1>2. Lines("candidate_started", t) = {s}
  BY <1>1 DEF Lines, Tells
<1>3. Lines("candidate_finished", t) = {f}
  BY <1>1 DEF Lines, Tells
<1> QED
  BY <1>1, <1>2, <1>3

LEMMA CensusOfInv == IInv => CensusIsTrue
<1> SUFFICES ASSUME IInv, Accepted(Changed), NEW t \in Changed
             PROVE  \E s, f \in 1..Len(journal) :
                      /\ Lines("candidate_started", t) = {s}
                      /\ Lines("candidate_finished", t) = {f}
                      /\ s < f /\ journal[f].disposition = snap.candidates[t].disposition
  BY DEF CensusIsTrue
<1>1. Done(journal, t, snap.candidates[t])
  BY DEF IInv, FinishedInv, Accepted
<1> QED
  BY <1>1, DoneLines

LEMMA ExitOfInv == IInv => ExitIsEvidenced
<1> SUFFICES ASSUME IInv, pc = "returned", code = 0, request.policy # "advisory"
             PROVE  /\ Accepted(Changed)
                    /\ \A t \in Changed : snap.candidates[t].disposition # "refusal"
                    /\ request.policy = "strict" /\ Changed # {} =>
                         \E t \in Changed : /\ snap.candidates[t].disposition = "proven"
                                            /\ ran[t] # "nowhere" /\ file[t] = "fresh"
  BY DEF ExitIsEvidenced
<1>1. call.step = "idle" /\ pc \in Normal /\ ~Raised
  BY DEF IInv, PlaceInv, Ended, Idle, Raised, Normal, Closing
<1>2. /\ Sequenced /\ Published /\ snap.covers = journal /\ snap.records = Len(journal)
      /\ snap.state = data.state /\ snap.known = data.known /\ snap.candidates = data.candidates
  BY <1>1 DEF IInv, CurrentInv
<1>3. /\ Backed /\ data.state = "finished"
  BY DEF IInv, VerdictInv, Closing, Blocking, Backed
<1>4. \A t \in Changed : Done(journal, t, data.candidates[t])
  BY <1>3 DEF IInv, FinishedInv, Backed
<1> QED
  BY <1>2, <1>3, <1>4 DEF Accepted, Backed, Done

-----------------------------------------------------------------------------
(* Every value the gate and its census keep has its type, for any number   *)
(* of changed tests.                                                       *)
THEOREM TypeCorrect == Spec => []TypeOK
BY Invariance, PTL DEF IInv

(* Whatever a workflow asks for, no test of an untrusted pull request is   *)
(* executed on the host, or at all without a backend.                      *)
THEOREM Confined == Spec => []UntrustedConfined
BY Invariance, PTL DEF IInv

(* While the line numbers are in sequence, the snapshot stands for a       *)
(* prefix of the journal, wherever writes fail or the process dies.        *)
THEOREM LedgerBound == Spec => []SequencedIsBound
<1>1. IInv => SequencedIsBound
  BY DEF IInv, LedgerInv
<1> QED
  BY <1>1, Invariance, PTL

(* A published census tells only of this invocation's executions and files. *)
THEOREM EvidenceTrue == Spec => []EvidenceIsOurs
<1>1. IInv => EvidenceIsOurs
  BY DEF IInv, EvidenceInv
<1> QED
  BY <1>1, Invariance, PTL

(* A census the consumer accepts agrees with the journal test by test. *)
THEOREM CensusTrue == Spec => []CensusIsTrue
BY CensusOfInv, Invariance, PTL

(* Exit code 0 under a blocking policy is backed by an accepted census. *)
THEOREM ExitEvidenced == Spec => []ExitIsEvidenced
BY ExitOfInv, Invariance, PTL
=============================================================================
