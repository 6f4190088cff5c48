--------------------------- MODULE MinirunnerProofs ---------------------------
(***************************************************************************)
(* Proofs about Minirunner, for any commands and whatever the candidate's  *)
(* code does: the exit code agrees with the log, and fixtures are torn     *)
(* down, above before below.                                               *)
(***************************************************************************)
EXTENDS Minirunner, TLAPS

InFile == {"case", "resolve", "finish", "module", "result"}
AllLabels == {"PASS", "XPASS", "FAIL", "ERROR", "TEARDOWN", "SKIP", "XFAIL", "COLLECTION_ERROR"}
Wrong == {"FAIL", "ERROR", "TEARDOWN"}

(* What the counters and the worst code so far say of the log. *)
FileFailed == phase \in InFile /\ failures > 0
FileRan == phase \in InFile /\ executed > 0
Bad == Labels \cap Wrong # {}
Good == ("PASS" \in Labels \/ "XPASS" \in Labels) /\ bodies # {}
Answers == {EXIT_OK, EXIT_FAILED, EXIT_NO_TESTS}
LogTyped == failures \in Nat /\ executed \in Nat /\ Labels \subseteq AllLabels
LogInv ==
  /\ LogTyped
  /\ \/ worst \in Answers
     \/ phase = "ended" /\ worst = Interrupted
     \/ phase = "ended" /\ worst = EXIT_COLLECTION_ERROR /\ "COLLECTION_ERROR" \in Labels
  /\ worst \in Answers =>
       /\ "COLLECTION_ERROR" \notin Labels
       /\ Bad <=> (worst = EXIT_FAILED \/ FileFailed)
       /\ worst = EXIT_OK \/ (FileRan /\ ~FileFailed) => Good
       /\ worst = EXIT_NO_TESTS /\ ~FileFailed /\ ~FileRan => Labels \subseteq {"SKIP", "XFAIL"}

-----------------------------------------------------------------------------
Buckets == {"function", "module"}
Started == phase \notin {"file", "ended"}
Files == UNION {Range(files) : files \in Commands}
Frames == [name : Known(F), needs : Seq(STRING)]

(* A key whose generator waits to be resumed, by a finalizer in its list. *)
Waits(key) == key \in live /\ key \in Range(bucket[key[1]])

(* The fixtures under construction: none twice, each because the one below *)
(* asked for it, none in the cache, and whatever is no longer asked for is *)
(* there.                                                                  *)
StackTyped ==
  /\ stack \in Seq(Frames)
  /\ \A i, j \in DOMAIN stack : stack[i].name = stack[j].name => i = j
  /\ \A i \in DOMAIN stack : Key(stack[i].name) \notin DOMAIN values
AskedBelow ==
  \A i \in DOMAIN stack : i > 1 =>
    stack[i-1].needs # <<>> /\ Head(stack[i-1].needs) = stack[i].name
AskedOrBuilt ==
  \A i \in DOMAIN stack : \A n \in Range(Needs(F, stack[i].name)) :
    n = "request" \/ Key(n) \in DOMAIN values \/ n \in Range(stack[i].needs)
StackInv == phase = "resolve" => StackTyped /\ AskedBelow /\ AskedOrBuilt

(* What is in the cache was built in a case up to the current one, over    *)
(* what is in the cache; a value for the file waits until the cases are    *)
(* over, one for the case until the case is resolved.                      *)
CacheTyped ==
  \A key \in DOMAIN values :
    /\ key[1] \in Buckets /\ values[key].on \subseteq DOMAIN values
    /\ values[key].case \in Nat /\ values[key].case <= current
    /\ phase = "case" => values[key].case < current
ForFile ==
  phase \in {"case", "resolve", "finish"} =>
    \A key \in DOMAIN values : key[1] = "module" /\ IsYield(key) => Waits(key)
ForCase ==
  phase = "resolve" =>
    \A key \in DOMAIN values : values[key].case = current /\ IsYield(key) => Waits(key)
CacheInv == CacheTyped /\ ForFile /\ ForCase

(* A value of the same list that a waiting one is built on: in a list of   *)
(* the case, a value of the same case.                                     *)
Under(key) ==
  {below \in values[key].on :
     IsYield(below) /\ below[1] = key[1]
       /\ (key[1] = "module" \/ values[below].case = values[key].case)}

(* Each list has its own keys, once; what waits is in its list, unless its *)
(* request's finalizers raised; and what it is built on waits before it,   *)
(* unless they raised before an exit put both back into the list.          *)
ListsTyped == bucket \in [function : Seq(DOMAIN values), module : Seq(DOMAIN values)]
KeysOnce ==
  \A b \in Buckets : \A i, j \in DOMAIN bucket[b] :
    bucket[b][i][1] = b /\ (bucket[b][i] = bucket[b][j] => i = j)
LiveListed ==
  \A key \in live :
    key[1] \in Buckets /\ (Waits(key) \/ HasRequest(key))
UnderWaits ==
  \A b \in Buckets : \A j \in DOMAIN bucket[b] :
    bucket[b][j] \in live /\ ~(escaped /\ HasRequest(bucket[b][j])) =>
    \A below \in Under(bucket[b][j]) :
      below \in live /\ \E i \in DOMAIN bucket[b] : i < j /\ bucket[b][i] = below
ListInv == ListsTyped /\ KeysOnce /\ LiveListed /\ UnderWaits

(* The list of the case: what waits, and what has run in this pass.  That  *)
(* one of the latter is still to be resumed is due to its request.         *)
Whole == bucket.function \o ran
PassInv ==
  phase \in InFile =>
    /\ ran \in Seq(DOMAIN values) /\ (phase # "finish" => ran = <<>>)
    /\ \A i, j \in DOMAIN Whole : Whole[i][1] = "function" /\ (Whole[i] = Whole[j] => i = j)
    /\ \A i \in DOMAIN ran : ran[i] \in live => HasRequest(ran[i])

(* Between cases the list is empty and the streams are the process's own,  *)
(* and nothing is swallowed there, unless an exit has left a pass; while   *)
(* they are captured, a capsys waits in the list, and none ever raises.    *)
StreamInv ==
  /\ lost => escaped
  /\ capturing /\ phase \notin {"resolve", "finish"} => escaped
  /\ phase \in InFile /\ capturing => \E key \in live : Captures(key) /\ key[1] = "function"
  /\ phase \in {"case", "module", "result"} /\ bucket.function # <<>> => escaped
  /\ phase \in InFile => \A key \in armed : ~Captures(key)
  /\ swallowed \cap {"COLLECTION_ERROR", "TEARDOWN"} # {} => escaped

TeardownInv ==
  /\ left \in Seq(Files) /\ current \in Nat
  /\ Started => left # <<>>
  /\ phase \in InFile =>
       StackInv /\ CacheInv /\ ListInv /\ (phase = "result" => bucket.module = <<>>)
-----------------------------------------------------------------------------
(* What is printed is in the log or was swallowed. *)
LEMMA LogAdds ==
  ASSUME NEW label, Log(label)
  PROVE  Labels' = Labels \cup {label}
BY DEF Log, Labels

(* The run starts with an empty log. *)
LEMMA LogInit == RunnerInit => LogInv
BY DEF RunnerInit, LogInv, At, Bad, Good, FileFailed, FileRan, InFile, AllLabels, Labels,
       EXIT_OK, EXIT_FAILED, EXIT_NO_TESTS, Interrupted, EXIT_COLLECTION_ERROR, Answers, LogTyped

(* Inside a file, a step of a case logs what it counts. *)
LEMMA CaseLogs ==
  ASSUME LogInv, phase \in InFile, phase' \in InFile, worst' = worst,
         NEW label \in AllLabels, label # "COLLECTION_ERROR", Labels' = Labels \cup {label},
         failures' \in {failures, failures + 1}, failures' # failures <=> label \in Wrong,
         executed' \in {executed, executed + 1},
         (executed' # executed /\ failures' = failures) <=> label \in {"PASS", "XPASS"},
         bodies \subseteq bodies', label \in {"PASS", "XPASS"} => bodies' # {}
  PROVE  LogInv'
<1>1. LogTyped' /\ worst' \in Answers
  <2>1. LogTyped /\ worst \in Answers  BY DEF LogInv, InFile
  <2>2. Labels' \subseteq AllLabels  BY <2>1 DEF LogTyped
  <2> QED  BY <2>1, <2>2 DEF LogTyped
<1>2. "COLLECTION_ERROR" \notin Labels'
  BY DEF LogInv, InFile
<1>3. FileFailed' <=> (FileFailed \/ failures' # failures)
  BY DEF LogInv, LogTyped, FileFailed
<1>4. FileRan' <=> (FileRan \/ executed' # executed)
  BY DEF LogInv, LogTyped, FileRan
<1>5. Bad' <=> (Bad \/ failures' # failures)
  BY DEF Bad
<1>6. Good \/ (executed' # executed /\ failures' = failures) => Good'
  BY DEF Good
<1>7. failures' = failures /\ executed' = executed => label \in {"SKIP", "XFAIL"}
  BY DEF AllLabels, Wrong
<1>8. Labels \subseteq {"SKIP", "XFAIL"} /\ label \in {"SKIP", "XFAIL"} => Labels' \subseteq {"SKIP", "XFAIL"}
  OBVIOUS
<1> QED
  BY <1>1, <1>2, <1>3, <1>4, <1>5, <1>6, <1>7, <1>8 DEF LogInv, InFile

LEMMA LogStep == LogInv /\ [RunnerNext]_runnerVars => LogInv'
<1> USE DEF fileVars, caseVars, listVars, counts, streamVars, reports
<1> SUFFICES ASSUME LogInv, [RunnerNext]_runnerVars PROVE LogInv'
  OBVIOUS
<1>0. LogTyped  BY DEF LogInv
<1> DEFINE quiet == failures' = failures /\ executed' = executed /\ Labels' = Labels /\ bodies' = bodies
<1>1. ASSUME InstallShim PROVE LogInv'
  BY <1>1 DEF InstallShim, At, To, LogInv, LogTyped, Bad, Good, FileFailed, FileRan, InFile, Labels
<1>2. ASSUME CollectionError PROVE LogInv'
  <2>1. /\ phase' = "ended" /\ worst' = EXIT_COLLECTION_ERROR /\ failures' = failures /\ executed' = executed
        /\ Labels' = Labels \cup {"COLLECTION_ERROR"}
    BY <1>2, LogAdds DEF CollectionError, To
  <2> QED  BY <1>0, <2>1 DEF LogInv, AllLabels, EXIT_COLLECTION_ERROR, EXIT_OK, EXIT_FAILED, EXIT_NO_TESTS, Answers, LogTyped
<1>3. ASSUME Collect PROVE LogInv'
  <2>1. phase' \in {"result", "case"} /\ phase = "import" /\ worst' = worst /\ Labels' = Labels /\ bodies' = bodies
        /\ failures' = 0 /\ executed' = 0
    BY <1>3 DEF Collect, At, To, Labels
  <2>2. ~FileFailed /\ ~FileRan /\ ~FileFailed' /\ ~FileRan' /\ Bad' = Bad /\ Good' = Good
    BY <2>1 DEF FileFailed, FileRan, InFile, Bad, Good
  <2> QED  BY <2>1, <2>2 DEF LogInv, LogTyped
<1>4. ASSUME CollectionRaises PROVE LogInv'
  BY <1>4 DEF CollectionRaises, At, To, LogInv, Interrupted, EXIT_OK, EXIT_FAILED, EXIT_NO_TESTS, Answers, LogTyped, Labels
<1>5. ASSUME phase \in InFile, phase' \in InFile, worst' = worst, quiet PROVE LogInv'
  <2>1. LogTyped' /\ FileFailed' = FileFailed /\ FileRan' = FileRan /\ Bad' = Bad /\ Good' = Good
    BY <1>0, <1>5 DEF LogTyped, FileFailed, FileRan, Bad, Good
  <2>2. worst \in Answers /\ worst' \in Answers
    BY <1>5 DEF LogInv, InFile
  <2> QED  BY <1>5, <2>1, <2>2 DEF LogInv
<1>6. ASSUME SkipCase PROVE LogInv'
  <2>1. /\ phase \in InFile /\ phase' \in InFile /\ worst' = worst /\ bodies' = bodies
        /\ Labels' = Labels \cup {"SKIP"} /\ failures' = failures + 0 /\ executed' = executed + 0
    BY <1>0, <1>6, LogAdds DEF LogTyped, SkipCase, At, InFile
  <2> QED  BY <1>0, <2>1, CaseLogs DEF AllLabels, LogTyped, Wrong
<1>7. ASSUME StartCase \/ Cached \/ CreateFixture \/ Construct \/ Disables \/ CasesDone \/ ModuleDone PROVE LogInv'
  <2>1. phase \in InFile /\ phase' \in InFile /\ worst' = worst /\ UNCHANGED <<counts, reports>>
    BY <1>7 DEF StartCase, Cached, CreateFixture, Construct, Constructing, Disables, Ready, CasesDone, ModuleDone,
                At, To, InFile
  <2> QED  BY <1>5, <2>1 DEF Labels
<1>8. ASSUME NEW b \in {"function", "module"}, Finalize(b) \/ FinalizerRaises(b) PROVE LogInv'
  <2>1. phase \in InFile /\ phase' \in InFile /\ worst' = worst /\ UNCHANGED <<counts, reports>>
    BY <1>8 DEF Finalize, FinalizerRaises, Finalizing, InFile
  <2> QED  BY <1>5, <2>1 DEF Labels
<1>9. ASSUME LookupError PROVE LogInv'
  <2>1. /\ phase \in InFile /\ phase' \in InFile /\ worst' = worst /\ bodies' = bodies
        /\ Labels' = Labels \cup {"ERROR"} /\ failures' = failures + 1 /\ executed' = executed + 0
    BY <1>0, <1>9, LogAdds DEF LogTyped, LookupError, At, To, InFile
  <2> QED  BY <1>0, <2>1, CaseLogs DEF AllLabels, LogTyped, Wrong
<1>19. ASSUME FinalizerExits PROVE LogInv'
  <2>1. /\ phase \in InFile /\ phase' \in InFile /\ worst' = worst /\ bodies' = bodies
        /\ Labels' = Labels \cup {"TEARDOWN"} /\ failures' = failures + 1 /\ executed' = executed + 0
    BY <1>0, <1>19, LogAdds DEF LogTyped, FinalizerExits, Finalizing, To, InFile
  <2> QED  BY <1>0, <2>1, CaseLogs DEF AllLabels, LogTyped, Wrong
<1>10. ASSUME NEW label \in AllLabels, label # "COLLECTION_ERROR", NEW failed \in {0, 1}, NEW called \in {0, 1},
              phase = "resolve", Counted(label, failed, called), bodies \subseteq bodies',
              label \in {"PASS", "XPASS"} => bodies' # {},
              failed > 0 <=> label \in Wrong, (called > 0 /\ failed = 0) <=> label \in {"PASS", "XPASS"}
       PROVE  LogInv'
  <2>1. /\ phase \in InFile /\ phase' \in InFile /\ worst' = worst
        /\ Labels' = Labels \cup {label} /\ failures' = failures + failed /\ executed' = executed + called
    BY <1>10, LogAdds DEF Counted, To, InFile
  <2> QED  BY <1>0, <1>10, <2>1, CaseLogs DEF LogTyped
<1>11. ASSUME Passes PROVE LogInv'
  <2>1. phase = "resolve" /\ bodies \subseteq bodies' /\ bodies' # {}  BY <1>11 DEF Passes, Ready, At
  <2>2. Counted("PASS", 0, 1) \/ Counted("XPASS", 0, 1) \/ Counted("FAIL", 1, 1)
    BY <1>11 DEF Passes
  <2> QED  BY <2>1, <2>2, <1>10 DEF AllLabels, Wrong
<1>12. ASSUME Skips \/ Raises \/ Exits PROVE LogInv'
  <2>1. phase = "resolve" /\ bodies' = bodies  BY <1>12 DEF Skips, Raises, Exits, Ready, At
  <2>2. Counted("SKIP", 0, 0) \/ Counted("XFAIL", 0, 0) \/ Counted("FAIL", 1, 1)
    BY <1>12 DEF Skips, Raises, Exits
  <2> QED  BY <2>1, <2>2, <1>10 DEF AllLabels, Wrong
<1>13. ASSUME FixtureSkips PROVE LogInv'
  <2>1. /\ phase \in InFile /\ phase' \in InFile /\ worst' = worst /\ bodies' = bodies
        /\ Labels' = Labels \cup {"SKIP"} /\ failures' = failures + 0 /\ executed' = executed + 0
    BY <1>0, <1>13, LogAdds DEF LogTyped, FixtureSkips, Failing, Constructing, At, To, InFile
  <2> QED  BY <1>0, <2>1, CaseLogs DEF AllLabels, LogTyped, Wrong
<1>14. ASSUME FixtureRaises PROVE LogInv'
  <2>1. /\ phase \in InFile /\ phase' \in InFile /\ worst' = worst /\ bodies' = bodies
        /\ Labels' = Labels \cup {"FAIL"} /\ failures' = failures + 1 /\ executed' = executed + 1
    BY <1>0, <1>14, LogAdds DEF LogTyped, FixtureRaises, Failing, Constructing, At, To, InFile
  <2> QED  BY <1>0, <2>1, CaseLogs DEF AllLabels, LogTyped, Wrong
<1>15. ASSUME CaseDone PROVE LogInv'
  <2>1. /\ phase \in InFile /\ phase' \in InFile /\ worst' = worst /\ executed' = executed + 0 /\ bodies' = bodies
    BY <1>0, <1>15 DEF LogTyped, CaseDone, At, To, InFile
  <2>2. CASE errors
    <3>1. Labels' = Labels \cup {"TEARDOWN"} /\ failures' = failures + 1
      BY <1>15, <2>2, LogAdds DEF CaseDone
    <3> QED  BY <1>0, <2>1, <3>1, CaseLogs DEF AllLabels, LogTyped, Wrong
  <2>3. CASE ~errors
    <3>1. Labels' = Labels /\ failures' = failures /\ executed' = executed
      BY <1>0, <1>15, <2>3 DEF LogTyped, CaseDone, Labels
    <3> QED  BY <2>1, <3>1, <1>5
  <2> QED  BY <2>2, <2>3
<1>16. ASSUME ModuleExits PROVE LogInv'
  BY <1>16 DEF ModuleExits, To, LogInv, Interrupted, EXIT_OK, EXIT_FAILED, EXIT_NO_TESTS, Answers, LogTyped, Labels
<1>17. ASSUME Result PROVE LogInv'
  <2>1. /\ phase = "result" /\ phase' \in {"ended", "file"} /\ failures' = failures /\ executed' = executed
        /\ Labels' = Labels /\ bodies' = bodies
        /\ worst' = IF CodeOf = EXIT_FAILED THEN EXIT_FAILED
                    ELSE IF CodeOf = EXIT_OK /\ worst # EXIT_FAILED THEN EXIT_OK ELSE worst
    BY <1>17 DEF Result, At, To, Labels
  <2>2. ~FileFailed' /\ ~FileRan' /\ Bad' = Bad /\ Good' = Good
    BY <2>1 DEF FileFailed, FileRan, InFile, Bad, Good
  <2>3. /\ FileFailed <=> failures > 0
        /\ FileRan <=> executed > 0
        /\ worst \in Answers
    BY <2>1 DEF FileFailed, FileRan, InFile, LogInv
  <2>4. CASE FileFailed
    BY <2>1, <2>2, <2>3, <2>4 DEF LogInv, LogTyped, CodeOf, EXIT_OK, EXIT_FAILED, EXIT_NO_TESTS, Answers
  <2>5. CASE ~FileFailed /\ FileRan
    BY <2>1, <2>2, <2>3, <2>5 DEF LogInv, LogTyped, CodeOf, EXIT_OK, EXIT_FAILED, EXIT_NO_TESTS, Answers
  <2>6. CASE ~FileFailed /\ ~FileRan
    BY <2>1, <2>2, <2>3, <2>6 DEF LogInv, LogTyped, CodeOf, EXIT_OK, EXIT_FAILED, EXIT_NO_TESTS, Answers
  <2> QED  BY <2>4, <2>5, <2>6
<1>18. CASE UNCHANGED runnerVars
  <2>1. Labels' = Labels  BY <1>18 DEF runnerVars, Labels
  <2> QED  BY <1>18, <2>1 DEF runnerVars, LogInv, LogTyped, Bad, Good, FileFailed, FileRan
<1> QED
  BY <1>1, <1>2, <1>3, <1>4, <1>6, <1>7, <1>8, <1>9, <1>11, <1>12, <1>13, <1>14, <1>15, <1>16, <1>17,
     <1>18, <1>19 DEF RunnerNext

-----------------------------------------------------------------------------
LEMMA WiderSeq ==
  ASSUME NEW S, NEW T, S \subseteq T, NEW s \in Seq(S)
  PROVE  s \in Seq(T)
OBVIOUS

LEMMA FrontOf ==
  ASSUME NEW S, NEW s \in Seq(S), s # <<>>
  PROVE  /\ Front(s) \in Seq(S) /\ Len(Front(s)) = Len(s) - 1 /\ Len(s) \in Nat \ {0}
         /\ \A i \in 1..(Len(s) - 1) : Front(s)[i] = s[i]
         /\ Last(s) = s[Len(s)] /\ Last(s) \in S
<1>1. Len(s) \in Nat \ {0} /\ Len(s) \in DOMAIN s
  OBVIOUS
<1>2. Last(s) = s[Len(s)] /\ Last(s) \in S
  BY <1>1 DEF Last
<1>3. \A i \in 1..(Len(s) - 1) : s[i] \in S
  BY <1>1
<1>4. Front(s) = [i \in 1..(Len(s) - 1) |-> s[i]]
  BY <1>1 DEF Front
<1> QED  BY <1>1, <1>2, <1>3, <1>4

LEMMA TailOf ==
  ASSUME NEW S, NEW s \in Seq(S), s # <<>>
  PROVE  Tail(s) \in Seq(S)
OBVIOUS

LEMMA HeadOrTail ==
  ASSUME NEW S, NEW s \in Seq(S), s # <<>>, NEW e \in Range(s)
  PROVE  e = Head(s) \/ e \in Range(Tail(s))
<1>1. PICK i \in 1..Len(s) : s[i] = e
  BY DEF Range
<1>2. CASE i = 1
  BY <1>1, <1>2
<1>3. CASE i > 1
  <2>1. Tail(s)[i-1] = e /\ i - 1 \in DOMAIN Tail(s)
    BY <1>1, <1>3
  <2> QED  BY <2>1 DEF Range
<1> QED  BY <1>1, <1>2, <1>3

LEMMA Runnable ==
  ASSUME left \in Seq(Files), left # <<>>, NEW name
  PROVE  Needs(F, name) \in Seq(STRING)
<1>1. F \in Files
  BY DEF F
<1>2. PICK files \in Commands : F \in Range(files)
  BY <1>1 DEF Files
<1>3. CASE name \in Known(F)
  BY <1>2, <1>3, CommandsAssumption
<1>4. CASE name \notin Known(F)
  BY <1>4 DEF Needs
<1> QED  BY <1>3, <1>4

LEMMA SameFile ==
  ASSUME left' = left
  PROVE  /\ F' = F /\ Frames' = Frames
         /\ \A key : /\ IsYield(key)' <=> IsYield(key)
                     /\ HasRequest(key)' <=> HasRequest(key)
                     /\ Captures(key)' <=> Captures(key)
BY DEF F, Frames, IsYield, HasRequest, Captures

LEMMA SameCase ==
  ASSUME left' = left, cases' = cases, current' = current
  PROVE  \A name : Key(name)' = Key(name)
BY DEF Key, BucketOf, F, Case

LEMMA KeyOf ==
  ASSUME NEW name
  PROVE  Key(name)[1] \in Buckets /\ Key(name)[2] = name
BY DEF Key, BucketOf, Buckets

LEMMA SameUnder ==
  ASSUME left' = left, values' = values
  PROVE  \A key : Under(key)' = Under(key)
BY SameFile DEF Under

-----------------------------------------------------------------------------
LEMMA TeardownInit == RunnerInit => TeardownInv
<1> SUFFICES ASSUME RunnerInit PROVE TeardownInv
  OBVIOUS
<1>1. left \in Seq(Range(left)) /\ Range(left) \subseteq Files
  BY CommandsAssumption DEF RunnerInit, Files
<1>2. left \in Seq(Files)
  BY <1>1, WiderSeq
<1> QED  BY <1>2 DEF RunnerInit, At, TeardownInv, Started, InFile

(* Nothing happens to the cache and the lists. *)
LEMMA ListsKept ==
  ASSUME ListInv, left' = left, values' = values, bucket' = bucket, live' = live, escaped' = escaped
  PROVE  ListInv' /\ \A key : (Waits(key)' <=> Waits(key))
<1>1. \A key : (Waits(key)' <=> Waits(key))
  BY DEF Waits
<1>2. \A key : HasRequest(key)' <=> HasRequest(key)
  BY SameFile
<1>3. \A key : Under(key)' = Under(key)
  BY SameUnder
<1> QED  BY <1>1, <1>2, <1>3 DEF ListInv, ListsTyped, KeysOnce, LiveListed, UnderWaits

(* The newest finalizer of a list has run, or what ran before it raised. *)
LEMMA Popped ==
  ASSUME ListInv, left' = left, values' = values, NEW b \in Buckets, bucket[b] # <<>>,
         bucket' = [bucket EXCEPT ![b] = Front(@)], escaped' = escaped,
         \/ live' = live \ {Newest(b)}
         \/ HasRequest(Newest(b)) /\ live' = live
  PROVE  ListInv' /\ \A key : key[1] \in Buckets \ {b} => (Waits(key)' <=> Waits(key))
<1> DEFINE old == bucket[b]
           new == bucket'[b]
<1>0. \A key : HasRequest(key)' <=> HasRequest(key)
  BY SameFile
<1>1. /\ old \in Seq(DOMAIN values) /\ old # <<>>
      /\ \A i, j \in DOMAIN old : old[i][1] = b /\ (old[i] = old[j] => i = j)
      /\ bucket \in [function : Seq(DOMAIN values), module : Seq(DOMAIN values)]
  BY DEF ListInv, ListsTyped, KeysOnce, Buckets
<1>2. new = Front(old) /\ \A c \in Buckets \ {b} : bucket'[c] = bucket[c]
  BY <1>1 DEF Buckets
<1> HIDE DEF old, new
<1>3. /\ new \in Seq(DOMAIN values) /\ Len(new) = Len(old) - 1 /\ Len(old) \in Nat \ {0}
      /\ \A i \in 1..(Len(old) - 1) : new[i] = old[i]
      /\ Newest(b) = old[Len(old)]
  <2>1. Newest(b) = Last(old)
    BY DEF Newest, old
  <2>2. old \in Seq(DOMAIN values) /\ old # <<>> /\ new = Front(old)
    BY <1>1, <1>2
  <2> QED  BY <2>1, <2>2, FrontOf
<1>4. DOMAIN new = 1..(Len(old) - 1) /\ DOMAIN old = 1..Len(old)
  BY <1>1, <1>3
<1>5. bucket' \in [function : Seq(DOMAIN values'), module : Seq(DOMAIN values')]
  BY <1>1, <1>2, <1>3 DEF Buckets, old, new
<1>6. \A c \in Buckets : \A i, j \in DOMAIN bucket'[c] :
        bucket'[c][i][1] = c /\ (bucket'[c][i] = bucket'[c][j] => i = j)
  <2>1. \A i, j \in DOMAIN new : new[i][1] = b /\ (new[i] = new[j] => i = j)
    <3> SUFFICES ASSUME NEW i \in DOMAIN new, NEW j \in DOMAIN new
                 PROVE  new[i][1] = b /\ (new[i] = new[j] => i = j)
      OBVIOUS
    <3>1. i \in DOMAIN old /\ j \in DOMAIN old /\ new[i] = old[i] /\ new[j] = old[j]
      BY <1>3, <1>4
    <3> QED  BY <1>1, <3>1
  <2>2. ASSUME NEW c \in Buckets, c # b
        PROVE  \A i, j \in DOMAIN bucket'[c] : bucket'[c][i][1] = c /\ (bucket'[c][i] = bucket'[c][j] => i = j)
    <3>1. bucket'[c] = bucket[c]
      BY <1>2, <2>2
    <3> QED  BY <3>1 DEF ListInv, KeysOnce
  <2> QED  BY <2>1, <2>2 DEF new
<1>7. Newest(b)[1] = b
  <2>1. Len(old) \in DOMAIN old
    BY <1>3, <1>4
  <2> QED  BY <1>1, <1>3, <2>1
<1>8. ASSUME NEW key, key[1] \in Buckets \ {b} PROVE (Waits(key)' <=> Waits(key))
  <2>1. key # Newest(b)
    BY <1>7, <1>8
  <2>2. (key \in live') = (key \in live)
    BY <2>1
  <2>3. bucket'[key[1]] = bucket[key[1]]
    BY <1>2, <1>8
  <2> QED  BY <2>2, <2>3 DEF Waits
<1>9. ASSUME NEW key, key[1] = b, Waits(key), key # Newest(b), key \in live' PROVE Waits(key)'
  <2>1. PICK i \in 1..Len(old) : old[i] = key
    BY <1>4, <1>9 DEF Waits, Range, old
  <2>2. i \in 1..(Len(old) - 1)
    BY <1>3, <1>9, <2>1
  <2>3. key \in Range(new)
    BY <1>3, <1>4, <2>1, <2>2 DEF Range
  <2> QED  BY <1>9, <2>3 DEF Waits, new
<1>10. ASSUME NEW key \in live' PROVE key[1] \in Buckets /\ (Waits(key)' \/ HasRequest(key)')
  <2>1. key \in live
    BY <1>10
  <2>2. key[1] \in Buckets /\ (Waits(key) \/ HasRequest(key))
    BY <2>1 DEF ListInv, LiveListed
  <2>3. CASE key = Newest(b)
    BY <1>0, <1>10, <2>2, <2>3
  <2>4. CASE key # Newest(b)
    BY <1>0, <1>8, <1>9, <1>10, <2>2, <2>4
  <2> QED  BY <2>3, <2>4
<1>11. ASSUME NEW c \in Buckets, NEW j \in DOMAIN bucket'[c], bucket'[c][j] \in live',
              ~(escaped /\ HasRequest(bucket'[c][j])),
              NEW below \in Under(bucket'[c][j])
       PROVE  below \in live' /\ \E i \in DOMAIN bucket'[c] : i < j /\ bucket'[c][i] = below
  <2>0. below[1] = c
    <3>1. below[1] = bucket'[c][j][1]
      BY <1>11 DEF Under
    <3> QED  BY <1>6, <3>1
  <2>1. CASE c # b
    <3>1. bucket'[c] = bucket[c]
      BY <1>2, <2>1
    <3>2. below \in live /\ \E i \in DOMAIN bucket'[c] : i < j /\ bucket'[c][i] = below
      BY <1>11, <3>1 DEF ListInv, UnderWaits
    <3>3. below # Newest(b)
      BY <1>7, <2>0, <2>1
    <3> QED  BY <3>2, <3>3
  <2>2. CASE c = b
    <3>0. j \in DOMAIN new /\ new[j] \in live' /\ ~(escaped /\ HasRequest(new[j])) /\ below \in Under(new[j])
      BY <1>11, <2>2 DEF new
    <3>1. j \in DOMAIN old /\ j \in 1..(Len(old) - 1) /\ new[j] = old[j]
      BY <1>3, <1>4, <3>0
    <3>2. old[j] \in live /\ ~(escaped /\ HasRequest(old[j])) /\ below \in Under(old[j])
      BY <3>0, <3>1
    <3>3. below \in live /\ \E i \in DOMAIN old : i < j /\ old[i] = below
      BY <3>1, <3>2 DEF ListInv, UnderWaits, old
    <3>4. PICK i \in DOMAIN old : i < j /\ old[i] = below
      BY <3>3
    <3>5. i \in 1..(Len(old) - 1) /\ i # Len(old) /\ Len(old) \in DOMAIN old
      BY <1>3, <1>4, <3>1, <3>4
    <3>6. below # Newest(b)
      BY <1>1, <1>3, <3>4, <3>5
    <3>7. i \in DOMAIN new /\ new[i] = below
      BY <1>3, <1>4, <3>4, <3>5
    <3>8. below \in live'
      BY <3>3, <3>6
    <3> QED  BY <2>2, <3>4, <3>7, <3>8 DEF new
  <2> QED  BY <2>1, <2>2
<1>12. \A key : Under(key)' = Under(key)
  BY SameUnder
<1>13. ListInv'
  <2>1. ListsTyped'  BY <1>5 DEF ListsTyped
  <2>2. KeysOnce'  BY <1>6 DEF KeysOnce
  <2>3. LiveListed'  BY <1>10 DEF LiveListed
  <2>4. UnderWaits'  BY <1>0, <1>11, <1>12 DEF UnderWaits
  <2> QED  BY <2>1, <2>2, <2>3, <2>4 DEF ListInv
<1> QED  BY <1>8, <1>13

(* The runner goes on without touching the cache or the lists. *)
LEMMA PhaseMoves ==
  ASSUME TeardownInv, phase \in InFile, phase' \in InFile, left' = left, values' = values,
         bucket' = bucket, live' = live, escaped' = escaped, current' \in {current, current + 1},
         phase' = "case" => phase = "case" \/ current' = current + 1,
         phase' \in {"resolve", "finish"} => phase \in {"case", "resolve", "finish"} /\ current' = current,
         phase' = "case" => phase \in {"case", "finish"},
         phase' = "resolve" => phase \in {"case", "resolve"},
         phase' = "result" => bucket.module = <<>>,
         StackInv'
  PROVE  TeardownInv'
<1>1. ListInv' /\ \A key : (Waits(key)' <=> Waits(key))
  BY ListsKept DEF TeardownInv
<1>2. left' \in Seq(Files) /\ current \in Nat /\ current' \in Nat /\ left' # <<>> /\ CacheInv
  BY DEF TeardownInv, Started, InFile
<1>3. CacheTyped'
  BY <1>2 DEF CacheInv, CacheTyped, InFile
<1>4. ForFile'
  BY <1>1, <1>2, SameFile DEF CacheInv, ForFile, InFile
<1>5. ForCase'
  <2> SUFFICES ASSUME phase' = "resolve", NEW key \in DOMAIN values, values[key].case = current, IsYield(key)
               PROVE  Waits(key)
    BY <1>1, SameFile DEF ForCase
  <2>1. phase = "resolve"
    BY <1>2 DEF CacheInv, CacheTyped
  <2> QED  BY <1>2, <2>1 DEF CacheInv, ForCase
<1> QED  BY <1>1, <1>2, <1>3, <1>4, <1>5 DEF TeardownInv, CacheInv

(* The fixture on top of the stack has what it asked for next. *)
LEMMA Shorter ==
  ASSUME NEW N, NEW S, NEW frame \in [name : N, needs : Seq(S)], frame.needs # <<>>
  PROVE  /\ [frame EXCEPT !.needs = Tail(@)] \in [name : N, needs : Seq(S)]
         /\ [frame EXCEPT !.needs = Tail(@)].name = frame.name
         /\ [frame EXCEPT !.needs = Tail(@)].needs = Tail(frame.needs)
<1> DEFINE rest == Tail(frame.needs)
<1>1. rest \in Seq(S)
  BY TailOf
<1> HIDE DEF rest
<1>2. [frame EXCEPT !.needs = rest] = [name |-> frame.name, needs |-> rest]
  OBVIOUS
<1>3. /\ [frame EXCEPT !.needs = rest] \in [name : N, needs : Seq(S)]
      /\ [frame EXCEPT !.needs = rest].name = frame.name /\ [frame EXCEPT !.needs = rest].needs = rest
  BY <1>1, <1>2
<1> QED  BY <1>3 DEF rest

LEMMA Updated ==
  ASSUME NEW S, NEW s \in Seq(S), NEW i \in DOMAIN s, NEW e \in S
  PROVE  /\ [s EXCEPT ![i] = e] \in Seq(S) /\ Len([s EXCEPT ![i] = e]) = Len(s)
         /\ DOMAIN [s EXCEPT ![i] = e] = DOMAIN s
         /\ [s EXCEPT ![i] = e][i] = e /\ \A j \in DOMAIN s : j # i => [s EXCEPT ![i] = e][j] = s[j]
OBVIOUS

LEMMA Answered ==
  ASSUME NEW T, NEW s \in Seq(T), s # <<>>, NEW rest \in T, rest = [s[Len(s)] EXCEPT !.needs = Tail(@)]
  PROVE  LET t == [s EXCEPT ![Len(s)].needs = Tail(@)]
         IN  /\ t \in Seq(T) /\ Len(t) = Len(s) /\ DOMAIN t = DOMAIN s
             /\ t[Len(s)] = rest /\ \A j \in DOMAIN s : j # Len(s) => t[j] = s[j]
<1>1. Len(s) \in DOMAIN s
  OBVIOUS
<1>2. [s EXCEPT ![Len(s)].needs = Tail(@)] = [s EXCEPT ![Len(s)] = rest]
  OBVIOUS
<1> DEFINE t == [s EXCEPT ![Len(s)] = rest]
<1>3. /\ t \in Seq(T) /\ Len(t) = Len(s) /\ DOMAIN t = DOMAIN s
      /\ t[Len(s)] = rest /\ \A j \in DOMAIN s : j # Len(s) => t[j] = s[j]
  BY <1>1, Updated
<1> QED  BY <1>2, <1>3

LEMMA CachedKeepsStack ==
  ASSUME TeardownInv, Cached
  PROVE  StackInv'
<1>1. /\ phase = "resolve" /\ phase' = "resolve" /\ Pending # <<>> /\ ~NotCached(Head(Pending)) /\ Resolved
      /\ left' = left /\ cases' = cases /\ current' = current /\ values' = values
  BY DEF Cached, At, fileVars, listVars
<1>2. StackTyped /\ AskedBelow /\ AskedOrBuilt
  BY <1>1 DEF TeardownInv, InFile, StackInv
<1>3. F' = F /\ Frames' = Frames /\ \A name : Key(name)' = Key(name)
  BY <1>1, SameFile, SameCase
<1>4. CASE stack = <<>>
  <2>1. stack' = stack
    BY <1>1, <1>4 DEF Resolved
  <2> QED  BY <1>1, <1>2, <1>3, <2>1 DEF StackInv, StackTyped, AskedBelow, AskedOrBuilt
<1>5. CASE stack # <<>>
  <2> DEFINE top == Len(stack)
  <2>1. stack' = [stack EXCEPT ![top].needs = Tail(@)] /\ Pending = stack[top].needs
    BY <1>1, <1>5 DEF Resolved, Pending, Last
  <2>2. stack \in Seq(Frames) /\ top \in DOMAIN stack /\ stack[top] \in Frames
    BY <1>2, <1>5 DEF StackTyped
  <2>3. /\ stack' \in Seq(Frames) /\ DOMAIN stack' = DOMAIN stack
        /\ \A i \in DOMAIN stack : stack'[i].name = stack[i].name /\ (i # top => stack'[i] = stack[i])
        /\ stack'[top].needs = Tail(stack[top].needs)
    <3> DEFINE rest == [stack[top] EXCEPT !.needs = Tail(@)]
    <3>1. rest \in Frames /\ rest.name = stack[top].name /\ rest.needs = Tail(stack[top].needs)
      BY <1>1, <2>1, <2>2, Shorter DEF Frames
    <3>2. stack' = [stack EXCEPT ![Len(stack)].needs = Tail(@)]
      BY <2>1
    <3> HIDE DEF rest
    <3>3. /\ stack' \in Seq(Frames) /\ DOMAIN stack' = DOMAIN stack
          /\ stack'[top] = rest /\ \A j \in DOMAIN stack : j # top => stack'[j] = stack[j]
      BY <1>5, <2>2, <3>1, <3>2, Answered DEF rest
    <3> QED  BY <3>1, <3>3
  <2> HIDE DEF top
  <2>4. StackTyped'
    BY <1>1, <1>2, <1>3, <2>3 DEF StackTyped
  <2>5. AskedBelow'
    <3> SUFFICES ASSUME NEW i \in DOMAIN stack, i > 1
                 PROVE  stack'[i-1].needs # <<>> /\ Head(stack'[i-1].needs) = stack'[i].name
      BY <2>3 DEF AskedBelow
    <3>1. i - 1 \in DOMAIN stack /\ i - 1 # top
      BY <2>2 DEF top
    <3> QED  BY <1>2, <2>3, <3>1 DEF AskedBelow
  <2>6. AskedOrBuilt'
    <3> SUFFICES ASSUME NEW i \in DOMAIN stack, NEW n \in Range(Needs(F, stack[i].name))
                 PROVE  n = "request" \/ Key(n) \in DOMAIN values \/ n \in Range(stack'[i].needs)
      BY <1>1, <1>3, <2>3 DEF AskedOrBuilt
    <3>1. n = "request" \/ Key(n) \in DOMAIN values \/ n \in Range(stack[i].needs)
      BY <1>2 DEF AskedOrBuilt
    <3>2. CASE i # top
      BY <2>3, <3>1, <3>2
    <3>3. CASE i = top /\ n \in Range(stack[top].needs)
      <4>1. stack[top].needs \in Seq(STRING) /\ stack[top].needs # <<>>
        BY <1>1, <2>1, <2>2 DEF Frames
      <4>2. n = Head(Pending) \/ n \in Range(Tail(stack[top].needs))
        BY <2>1, <3>3, <4>1, HeadOrTail
      <4>3. n = Head(Pending) => n = "request" \/ Key(n) \in DOMAIN values
        BY <1>1 DEF NotCached
      <4> QED  BY <2>3, <3>3, <4>2, <4>3
    <3> QED  BY <3>1, <3>2, <3>3
  <2> QED  BY <2>4, <2>5, <2>6 DEF StackInv
<1> QED  BY <1>4, <1>5

LEMMA CreateKeepsStack ==
  ASSUME TeardownInv, CreateFixture
  PROVE  StackInv'
<1> DEFINE name == Head(Pending)
           frame == [name |-> name, needs |-> Needs(F, name)]
           next == Len(stack) + 1
<1>1. /\ phase = "resolve" /\ phase' = "resolve" /\ Pending # <<>> /\ NotCached(name) /\ ~Creating(name)
      /\ name \in Known(F) /\ stack' = Append(stack, frame)
      /\ left' = left /\ cases' = cases /\ current' = current /\ values' = values
  BY DEF CreateFixture, At, fileVars, listVars
<1>2. StackTyped /\ AskedBelow /\ AskedOrBuilt /\ left \in Seq(Files) /\ left # <<>>
  BY <1>1 DEF TeardownInv, InFile, StackInv, Started
<1>3. F' = F /\ Frames' = Frames /\ \A n : Key(n)' = Key(n)
  BY <1>1, SameFile, SameCase
<1>4. frame \in Frames /\ frame.name = name /\ frame.needs = Needs(F, name)
  BY <1>1, <1>2, Runnable DEF Frames
<1>5. stack # <<>> => Pending = stack[Len(stack)].needs
  BY DEF Pending, Last
<1>6. Key(name) \notin DOMAIN values /\ \A i \in DOMAIN stack : stack[i].name # name
  BY <1>1 DEF NotCached, Creating
<1> HIDE DEF name, frame
<1>7. /\ stack' \in Seq(Frames) /\ DOMAIN stack' = DOMAIN stack \cup {next} /\ stack'[next] = frame
      /\ DOMAIN stack = 1..Len(stack) /\ Len(stack) \in Nat
      /\ \A i \in DOMAIN stack : stack'[i] = stack[i] /\ i # next
  BY <1>1, <1>2, <1>4 DEF StackTyped
<1>8. StackTyped'
  BY <1>1, <1>2, <1>3, <1>4, <1>6, <1>7 DEF StackTyped
<1>9. AskedBelow'
  <2> SUFFICES ASSUME NEW i \in DOMAIN stack', i > 1
               PROVE  stack'[i-1].needs # <<>> /\ Head(stack'[i-1].needs) = stack'[i].name
    BY DEF AskedBelow
  <2>1. CASE i \in DOMAIN stack
    <3>1. i - 1 \in DOMAIN stack
      BY <1>7, <2>1
    <3> QED  BY <1>2, <1>7, <2>1, <3>1 DEF AskedBelow
  <2>2. CASE i = next
    <3>1. i - 1 = Len(stack) /\ i - 1 \in DOMAIN stack /\ stack # <<>>
      BY <1>7, <2>2
    <3>2. stack'[i-1] = stack[Len(stack)] /\ stack'[i] = frame
      BY <1>7, <2>2, <3>1
    <3> QED  BY <1>1, <1>4, <1>5, <3>1, <3>2 DEF name
  <2> QED  BY <1>7, <2>1, <2>2
<1>10. AskedOrBuilt'
  <2> SUFFICES ASSUME NEW i \in DOMAIN stack', NEW n \in Range(Needs(F, stack'[i].name))
               PROVE  n = "request" \/ Key(n) \in DOMAIN values \/ n \in Range(stack'[i].needs)
    BY <1>1, <1>3 DEF AskedOrBuilt
  <2>1. CASE i \in DOMAIN stack
    BY <1>2, <1>7, <2>1 DEF AskedOrBuilt
  <2>2. CASE i = next
    BY <1>4, <1>7, <2>2
  <2> QED  BY <1>7, <2>1, <2>2
<1> QED  BY <1>8, <1>9, <1>10 DEF StackInv

(* The fixture on top is in the cache, and what it asked for.               *)
LEMMA Constructed ==
  ASSUME TeardownInv, Construct, NEW key, key = Key(Last(stack).name),
         NEW on, on = {Key(n) : n \in Range(Needs(F, Last(stack).name)) \ {"request"}}
  PROVE  /\ phase = "resolve" /\ phase' = "resolve" /\ left' = left /\ cases' = cases /\ current' = current
         /\ stack # <<>> /\ Len(stack) \in DOMAIN stack /\ Last(stack) = stack[Len(stack)]
         /\ key \notin DOMAIN values /\ key[1] \in Buckets /\ on \subseteq DOMAIN values
         /\ DOMAIN values' = DOMAIN values \cup {key} /\ values'[key] = [case |-> current, on |-> on]
         /\ \A k \in DOMAIN values : values'[k] = values[k] /\ k # key
         /\ bucket' = [bucket EXCEPT ![key[1]] = Append(@, key)]
         /\ live' = (IF IsYield(key) THEN live \cup {key} ELSE live) /\ escaped' = escaped
<1>1. /\ phase = "resolve" /\ phase' = "resolve" /\ left' = left /\ cases' = cases /\ current' = current
      /\ stack # <<>> /\ Pending = <<>>
  BY DEF Construct, Constructing, At, fileVars
<1>2. StackTyped /\ AskedOrBuilt
  BY <1>1 DEF TeardownInv, InFile, StackInv
<1>3. Len(stack) \in DOMAIN stack /\ Last(stack) = stack[Len(stack)]
  BY <1>1, <1>2 DEF StackTyped, Last
<1>4. key \notin DOMAIN values /\ key[1] \in Buckets
  BY <1>2, <1>3, KeyOf DEF StackTyped
<1>5. on \subseteq DOMAIN values
  <2> SUFFICES ASSUME NEW n \in Range(Needs(F, Last(stack).name)), n # "request"
               PROVE  Key(n) \in DOMAIN values
    OBVIOUS
  <2>1. Last(stack).needs = <<>>
    BY <1>1 DEF Pending
  <2>2. n \notin Range(Last(stack).needs)
    BY <2>1 DEF Range
  <2> QED  BY <1>2, <1>3, <2>2 DEF AskedOrBuilt
<1>6. /\ values' = [k \in DOMAIN values \cup {key} |->
                       IF k = key THEN [case |-> current, on |-> on] ELSE values[k]]
      /\ bucket' = [bucket EXCEPT ![key[1]] = Append(@, key)]
      /\ live' = (IF IsYield(key) THEN live \cup {key} ELSE live) /\ escaped' = escaped
  BY DEF Construct
<1>7. /\ DOMAIN values' = DOMAIN values \cup {key} /\ values'[key] = [case |-> current, on |-> on]
      /\ \A k \in DOMAIN values : values'[k] = values[k] /\ k # key
  BY <1>4, <1>6
<1> QED  BY <1>1, <1>3, <1>4, <1>5, <1>6, <1>7

LEMMA ConstructKeepsLists ==
  ASSUME TeardownInv, Construct
  PROVE  CacheInv' /\ ListInv'
<1> SUFFICES ASSUME NEW key, key = Key(Last(stack).name),
                    NEW on, on = {Key(n) : n \in Range(Needs(F, Last(stack).name)) \ {"request"}}
             PROVE  CacheInv' /\ ListInv'
  OBVIOUS
<1>1. /\ phase = "resolve" /\ phase' = "resolve" /\ left' = left /\ cases' = cases /\ current' = current
      /\ key \notin DOMAIN values /\ key[1] \in Buckets /\ on \subseteq DOMAIN values
      /\ DOMAIN values' = DOMAIN values \cup {key} /\ values'[key] = [case |-> current, on |-> on]
      /\ \A k \in DOMAIN values : values'[k] = values[k] /\ k # key
      /\ bucket' = [bucket EXCEPT ![key[1]] = Append(@, key)]
      /\ live' = (IF IsYield(key) THEN live \cup {key} ELSE live) /\ escaped' = escaped
  BY Constructed
<1>2. /\ current \in Nat /\ CacheTyped /\ ForFile /\ ForCase
      /\ ListsTyped /\ KeysOnce /\ LiveListed /\ UnderWaits
  BY <1>1 DEF TeardownInv, CacheInv, ListInv, InFile
<1>3. \A k : (IsYield(k)' <=> IsYield(k)) /\ (HasRequest(k)' <=> HasRequest(k))
  BY <1>1, SameFile
<1> DEFINE b == key[1]
           old == bucket[b]
           new == bucket'[b]
           last == Len(old) + 1
<1>4. /\ old \in Seq(DOMAIN values) /\ new = Append(old, key)
      /\ \A c \in Buckets \ {b} : bucket'[c] = bucket[c] /\ bucket[c] \in Seq(DOMAIN values)
  BY <1>1, <1>2 DEF ListsTyped, Buckets
<1> HIDE DEF old, new
<1>5. /\ old \in Seq(DOMAIN values')
      /\ \A c \in Buckets \ {b} : bucket[c] \in Seq(DOMAIN values')
  BY <1>1, <1>4, WiderSeq
<1>6. /\ new \in Seq(DOMAIN values') /\ DOMAIN new = DOMAIN old \cup {last} /\ new[last] = key
      /\ \A i \in DOMAIN old : i \in Nat /\ i < last /\ new[i] = old[i] /\ old[i] \in DOMAIN values
  BY <1>1, <1>4, <1>5
<1>7. ListsTyped'
  BY <1>1, <1>2, <1>4, <1>5, <1>6 DEF ListsTyped, Buckets, new
<1>8. KeysOnce'
  <2>1. \A i, j \in DOMAIN old : old[i][1] = b /\ (old[i] = old[j] => i = j)
    BY <1>1, <1>2 DEF KeysOnce, old
  <2>2. \A i, j \in DOMAIN new : new[i][1] = b /\ (new[i] = new[j] => i = j)
    BY <1>1, <1>6, <2>1
  <2>3. \A c \in Buckets \ {b} : \A i, j \in DOMAIN bucket'[c] :
          bucket'[c][i][1] = c /\ (bucket'[c][i] = bucket'[c][j] => i = j)
    BY <1>2, <1>4 DEF KeysOnce
  <2> QED  BY <2>2, <2>3 DEF KeysOnce, new
<1>9. \A k : Waits(k) => Waits(k)'
  <2> SUFFICES ASSUME NEW k, Waits(k) PROVE Waits(k)'
    OBVIOUS
  <2>1. k \in live' /\ k[1] \in Buckets
    BY <1>1, <1>2 DEF Waits, LiveListed
  <2>2. CASE k[1] = b
    <3>1. PICK i \in DOMAIN old : old[i] = k
      BY <2>2 DEF Waits, Range, old
    <3>2. k \in Range(new)
      BY <1>6, <3>1 DEF Range
    <3> QED  BY <2>1, <2>2, <3>2 DEF Waits, new
  <2>3. CASE k[1] # b
    BY <1>4, <2>1, <2>3 DEF Waits
  <2> QED  BY <2>2, <2>3
<1>10. IsYield(key) => Waits(key)'
  <2>1. key \in Range(new)
    BY <1>6 DEF Range
  <2>2. IsYield(key) => key \in live'
    BY <1>1
  <2> QED  BY <2>1, <2>2 DEF Waits, new
<1>11. LiveListed'
  <2> SUFFICES ASSUME NEW k \in live'
               PROVE  k[1] \in Buckets /\ (Waits(k)' \/ HasRequest(k))
    BY <1>3 DEF LiveListed
  <2>1. CASE k \in live
    BY <1>2, <1>9, <2>1 DEF LiveListed
  <2>2. CASE k = key /\ IsYield(key)
    BY <1>1, <1>10, <2>2
  <2>3. k \in live \/ (k = key /\ IsYield(key))
    BY <1>1
  <2> QED  BY <2>1, <2>2, <2>3
<1>12. UnderWaits'
  <2> SUFFICES ASSUME NEW c \in Buckets, NEW j \in DOMAIN bucket'[c], NEW k, k = bucket'[c][j],
                      k \in live', ~(escaped /\ HasRequest(k)), NEW below \in Under(k)'
               PROVE  below \in live' /\ \E i \in DOMAIN bucket'[c] : i < j /\ bucket'[c][i] = below
    <3>1. SUFFICES ASSUME NEW c \in Buckets, NEW j \in DOMAIN bucket'[c],
                          bucket'[c][j] \in live', ~(escaped' /\ HasRequest(bucket[c][j])')
                   PROVE  \A below \in Under(bucket[c][j])' :
                            below \in live' /\ \E i \in DOMAIN bucket'[c] : i < j /\ bucket'[c][i] = below
      BY DEF UnderWaits
    <3>2. ~(escaped /\ HasRequest(bucket'[c][j]))
      BY <1>1, <1>3, <3>1
    <3> QED  BY <3>1, <3>2
  <2>0. /\ below \in values'[k].on /\ IsYield(below) /\ below[1] = k[1]
        /\ k[1] = "module" \/ values'[below].case = values'[k].case
    BY <1>3 DEF Under
  <2>1. ASSUME j \in DOMAIN bucket[c], k = bucket[c][j],
               \A i \in DOMAIN bucket[c] : i \in DOMAIN bucket'[c] /\ bucket'[c][i] = bucket[c][i]
        PROVE  below \in live' /\ \E i \in DOMAIN bucket'[c] : i < j /\ bucket'[c][i] = below
    <3>1. k \in DOMAIN values
      BY <1>4, <1>6, <2>1 DEF old
    <3>2. k \in live /\ values'[k] = values[k]
      BY <1>1, <3>1
    <3>3. below \in DOMAIN values /\ values'[below] = values[below]
      BY <1>1, <1>2, <2>0, <3>1, <3>2 DEF CacheTyped
    <3>4. below \in Under(k)
      BY <2>0, <3>2, <3>3 DEF Under
    <3>5. below \in live /\ \E i \in DOMAIN bucket[c] : i < j /\ bucket[c][i] = below
      BY <1>2, <2>1, <3>2, <3>4 DEF UnderWaits
    <3> QED  BY <1>1, <2>1, <3>5
  <2>2. CASE c # b
    BY <1>4, <2>1, <2>2
  <2>3. CASE c = b /\ j \in DOMAIN old
    BY <1>6, <2>1, <2>3 DEF old, new
  <2>4. CASE c = b /\ j = last
    <3>1. k = key
      BY <1>6, <2>4 DEF new
    <3>2. below \in DOMAIN values /\ values'[below] = values[below] /\ below[1] = b
      BY <1>1, <2>0, <3>1
    <3>3. b = "module" \/ values[below].case = current
      BY <1>1, <2>0, <3>1, <3>2
    <3>4. Waits(below)
      BY <1>1, <1>2, <2>0, <3>2, <3>3 DEF ForFile, ForCase
    <3>5. PICK i \in DOMAIN old : old[i] = below
      BY <3>2, <3>4 DEF Waits, Range, old
    <3>6. below \in live' /\ i \in DOMAIN new /\ i < j /\ new[i] = below
      BY <1>1, <1>6, <2>4, <3>4, <3>5 DEF Waits
    <3> QED  BY <2>4, <3>6 DEF new
  <2>5. c = b => j \in DOMAIN old \/ j = last
    BY <1>6 DEF new
  <2> QED  BY <2>2, <2>3, <2>4, <2>5
<1>13. CacheTyped'
  BY <1>1, <1>2 DEF CacheTyped
<1>14. ForFile' /\ ForCase'
  <2>1. ASSUME NEW k \in DOMAIN values', IsYield(k)', k[1] = "module" \/ values'[k].case = current
        PROVE  Waits(k)'
    <3>1. CASE k = key
      BY <1>3, <1>10, <2>1, <3>1
    <3>2. CASE k \in DOMAIN values
      BY <1>1, <1>2, <1>3, <1>9, <2>1, <3>2 DEF ForFile, ForCase
    <3> QED  BY <1>1, <3>1, <3>2
  <2> QED  BY <1>1, <2>1 DEF ForFile, ForCase
<1> QED  BY <1>7, <1>8, <1>11, <1>12, <1>13, <1>14 DEF CacheInv, ListInv

LEMMA ConstructKeepsStack ==
  ASSUME TeardownInv, Construct
  PROVE  StackInv'
<1> DEFINE key == Key(Last(stack).name)
           on == {Key(n) : n \in Range(Needs(F, Last(stack).name)) \ {"request"}}
           under == Front(stack)
           n == Len(stack) - 1
<1>1. /\ phase = "resolve" /\ left' = left /\ cases' = cases /\ current' = current
      /\ stack # <<>> /\ Len(stack) \in DOMAIN stack /\ Last(stack) = stack[Len(stack)]
      /\ DOMAIN values' = DOMAIN values \cup {key}
  <2> HIDE DEF key, on
  <2>1. key = Key(Last(stack).name) /\ on = {Key(m) : m \in Range(Needs(F, Last(stack).name)) \ {"request"}}
    BY DEF key, on
  <2> QED  BY <2>1, Constructed
<1>2. key[2] = Last(stack).name
  BY KeyOf
<1> HIDE DEF key, on
<1>3. StackTyped /\ AskedBelow /\ AskedOrBuilt
  BY <1>1 DEF TeardownInv, InFile, StackInv
<1>4. F' = F /\ Frames' = Frames /\ \A name : Key(name)' = Key(name)
  BY <1>1, SameFile, SameCase
<1>5. /\ under \in Seq(Frames) /\ Len(under) = n /\ n \in Nat /\ DOMAIN under = 1..n
      /\ DOMAIN stack = 1..(n + 1) /\ \A i \in 1..n : under[i] = stack[i]
  BY <1>1, <1>3, FrontOf DEF StackTyped
<1>6. stack' = IF under = <<>> THEN under ELSE [under EXCEPT ![Len(under)].needs = Tail(@)]
  BY DEF Construct
<1> HIDE DEF under
<1>7. CASE under = <<>>
  <2>1. stack' = <<>>
    BY <1>6, <1>7
  <2> QED  BY <2>1 DEF StackInv, StackTyped, AskedBelow, AskedOrBuilt
<1>8. CASE under # <<>>
  <2> DEFINE top == stack[n]
             rest == [top EXCEPT !.needs = Tail(@)]
  <2>1. n \in 1..n /\ n \in DOMAIN stack /\ top \in Frames /\ under[Len(under)] = top
    BY <1>3, <1>5, <1>8 DEF StackTyped
  <2>2. top.needs # <<>> /\ Head(top.needs) = Last(stack).name
    <3>1. n + 1 \in DOMAIN stack /\ n + 1 > 1 /\ (n + 1) - 1 = n /\ n + 1 = Len(stack)
      BY <1>1, <1>5, <2>1
    <3> QED  BY <1>1, <1>3, <3>1 DEF AskedBelow
  <2>3. rest \in Frames /\ rest.name = top.name /\ rest.needs = Tail(top.needs)
    <3> HIDE DEF top
    <3> QED  BY <2>1, <2>2, Shorter DEF Frames
  <2> HIDE DEF rest
  <2>5. /\ stack' \in Seq(Frames) /\ DOMAIN stack' = 1..n /\ stack'[n] = rest
        /\ \A i \in 1..n : i # n => stack'[i] = stack[i]
    <3>1. stack' = [under EXCEPT ![Len(under)].needs = Tail(@)]
      BY <1>6, <1>8
    <3>2. stack' = [under EXCEPT ![n] = rest]
      BY <1>5, <2>1, <3>1 DEF rest
    <3>3. n \in DOMAIN under /\ rest \in Frames /\ under \in Seq(Frames)
      BY <1>5, <2>1, <2>3
    <3>4. /\ stack' \in Seq(Frames) /\ DOMAIN stack' = DOMAIN under /\ stack'[n] = rest
          /\ \A i \in DOMAIN under : i # n => stack'[i] = under[i]
      BY <3>2, <3>3, Updated
    <3> QED  BY <1>5, <3>4
  <2>6. \A i \in 1..n : stack'[i].name = stack[i].name
    BY <2>3, <2>5
  <2>7. StackTyped'
    <3>1. \A i \in 1..n : Key(stack[i].name) # key
      <4> SUFFICES ASSUME NEW i \in 1..n PROVE stack[i].name # Last(stack).name
        BY <1>2, KeyOf
      <4> QED  BY <1>1, <1>3, <1>5 DEF StackTyped
    <3>2. \A i \in 1..n : Key(stack'[i].name) \notin DOMAIN values'
      <4> SUFFICES ASSUME NEW i \in 1..n PROVE Key(stack[i].name) \notin DOMAIN values'
        BY <2>6
      <4>1. i \in DOMAIN stack
        BY <1>5
      <4> QED  BY <1>1, <1>3, <3>1, <4>1 DEF StackTyped
    <3>3. \A i, j \in 1..n : stack'[i].name = stack'[j].name => i = j
      BY <1>3, <1>5, <2>6 DEF StackTyped
    <3> QED  BY <1>4, <2>5, <3>2, <3>3 DEF StackTyped
  <2>8. AskedBelow'
    <3> SUFFICES ASSUME NEW i \in 1..n, i > 1
                 PROVE  stack'[i-1].needs # <<>> /\ Head(stack'[i-1].needs) = stack'[i].name
      BY <2>5 DEF AskedBelow
    <3>1. i - 1 \in 1..n /\ i - 1 # n /\ i \in DOMAIN stack
      BY <1>5
    <3> QED  BY <1>3, <2>5, <2>6, <3>1 DEF AskedBelow
  <2>9. AskedOrBuilt'
    <3> SUFFICES ASSUME NEW i \in 1..n, NEW name \in Range(Needs(F, stack[i].name))
                 PROVE  name = "request" \/ Key(name) \in DOMAIN values' \/ name \in Range(stack'[i].needs)
      BY <1>4, <2>5, <2>6 DEF AskedOrBuilt
    <3>1. name = "request" \/ Key(name) \in DOMAIN values \/ name \in Range(stack[i].needs)
      BY <1>3, <1>5 DEF AskedOrBuilt
    <3>2. CASE i # n
      BY <1>1, <2>5, <3>1, <3>2
    <3>3. CASE i = n /\ name \in Range(top.needs)
      <4>1. top.needs \in Seq(STRING)
        BY <2>1 DEF Frames
      <4>2. name = Last(stack).name \/ name \in Range(Tail(top.needs))
        BY <2>2, <3>3, <4>1, HeadOrTail
      <4>3. Key(Last(stack).name) \in DOMAIN values'
        BY <1>1 DEF key
      <4> QED  BY <2>3, <2>5, <3>3, <4>2, <4>3
    <3> QED  BY <1>1, <3>1, <3>2, <3>3
  <2> QED  BY <2>7, <2>8, <2>9 DEF StackInv
<1> QED  BY <1>7, <1>8

(* A finalizer of a list is gone, during the case or after the last one.   *)
LEMMA PopKeeps ==
  ASSUME TeardownInv, left' = left, values' = values, NEW b \in Buckets, bucket[b] # <<>>,
         phase = IF b = "function" THEN "finish" ELSE "module",
         phase' = phase, current' = current, escaped' = escaped,
         bucket' = [bucket EXCEPT ![b] = Front(@)],
         \/ live' = live \ {Newest(b)}
         \/ HasRequest(Newest(b)) /\ live' = live
  PROVE  TeardownInv'
<1>1. /\ left \in Seq(Files) /\ left # <<>> /\ current \in Nat /\ CacheTyped /\ ForFile /\ ListInv
  BY DEF TeardownInv, Started, InFile, CacheInv
<1>2. ListInv' /\ \A key : key[1] \in Buckets \ {b} => (Waits(key)' <=> Waits(key))
  BY <1>1, Popped
<1>3. current' \in Nat /\ CacheTyped'
  BY <1>1 DEF CacheTyped
<1>4. ForFile'
  <2> SUFFICES ASSUME phase' \in {"case", "resolve", "finish"}, NEW key \in DOMAIN values,
                      key[1] = "module", IsYield(key)
               PROVE  Waits(key)'
    BY SameFile DEF ForFile
  <2>1. phase = "finish" /\ b # "module"
    OBVIOUS
  <2>2. Waits(key) /\ key[1] \in Buckets
    BY <1>1, <2>1 DEF ForFile, Buckets
  <2> QED  BY <1>2, <2>1, <2>2
<1>5. ForCase' /\ StackInv' /\ phase' # "result"
  BY DEF ForCase, StackInv
<1> QED  BY <1>1, <1>2, <1>3, <1>4, <1>5 DEF TeardownInv, CacheInv

(* An exit puts what has run back into the list of the case. *)
LEMMA ExitKeeps ==
  ASSUME TeardownInv, PassInv, FinalizerExits
  PROVE  TeardownInv'
<1> DEFINE b == "function"
           old == bucket[b]
<1>1. /\ phase = "finish" /\ phase' = "case" /\ left' = left /\ values' = values /\ current' = current + 1
      /\ old # <<>> /\ bucket' = [bucket EXCEPT !.function = Whole] /\ escaped' = TRUE
      /\ \/ live' = live \ {Newest(b)}
         \/ HasRequest(Newest(b)) /\ live' = live
  BY DEF FinalizerExits, Finalizing, Resumed, NotResumed, To, fileVars, Whole
<1>2. /\ left \in Seq(Files) /\ left # <<>> /\ current \in Nat /\ CacheTyped /\ ForFile
      /\ ListsTyped /\ KeysOnce /\ LiveListed /\ UnderWaits
  BY <1>1 DEF TeardownInv, Started, InFile, CacheInv, ListInv
<1>3. /\ ran \in Seq(DOMAIN values)
      /\ \A i, j \in DOMAIN Whole : Whole[i][1] = b /\ (Whole[i] = Whole[j] => i = j)
      /\ \A i \in DOMAIN ran : ran[i] \in live => HasRequest(ran[i])
  BY <1>1 DEF PassInv, InFile
<1>4. old \in Seq(DOMAIN values) /\ bucket["module"] \in Seq(DOMAIN values)
  BY <1>2 DEF ListsTyped
<1>5. bucket'[b] = Whole /\ bucket'["module"] = bucket["module"]
  BY <1>1, <1>2 DEF ListsTyped
<1>6. /\ Whole \in Seq(DOMAIN values) /\ DOMAIN old = 1..Len(old) /\ Len(old) \in Nat \ {0}
      /\ DOMAIN Whole = 1..(Len(old) + Len(ran)) /\ Len(ran) \in Nat
      /\ \A i \in DOMAIN old : i \in DOMAIN Whole /\ Whole[i] = old[i]
      /\ \A i \in DOMAIN Whole \ DOMAIN old : i - Len(old) \in DOMAIN ran /\ Whole[i] = ran[i - Len(old)]
  BY <1>1, <1>3, <1>4 DEF Whole
<1>7. Newest(b) = old[Len(old)] /\ Len(old) \in DOMAIN old
  BY <1>6 DEF Newest, Last
<1> HIDE DEF old
<1>8. \A key : /\ HasRequest(key)' <=> HasRequest(key)
               /\ IsYield(key)' <=> IsYield(key)
               /\ Under(key)' = Under(key)
  BY <1>1, SameFile, SameUnder
<1>9. \A key \in live' : Waits(key) => Waits(key)'
  <2> SUFFICES ASSUME NEW key \in live', Waits(key) PROVE Waits(key)'
    OBVIOUS
  <2>1. key[1] \in Buckets
    BY <1>1, <1>2 DEF LiveListed
  <2>2. CASE key[1] = b
    <3>1. PICK i \in DOMAIN old : old[i] = key
      BY <2>2 DEF Waits, Range, old
    <3>2. i \in DOMAIN Whole /\ Whole[i] = key
      BY <1>6, <3>1
    <3> QED  BY <1>5, <2>2, <3>2 DEF Waits, Range
  <2>3. CASE key[1] = "module"
    BY <1>5, <2>3 DEF Waits
  <2> QED  BY <2>1, <2>2, <2>3 DEF Buckets
<1>10. ListsTyped'
  BY <1>1, <1>2, <1>6 DEF ListsTyped
<1>11. KeysOnce'
  BY <1>2, <1>3, <1>5 DEF KeysOnce, Buckets
<1>12. LiveListed'
  BY <1>1, <1>2, <1>8, <1>9 DEF LiveListed
<1>13. UnderWaits'
  <2> SUFFICES ASSUME NEW c \in Buckets, NEW j \in DOMAIN bucket'[c], NEW key, key = bucket'[c][j],
                      key \in live', ~HasRequest(key), NEW below \in Under(key)
               PROVE  below \in live' /\ \E i \in DOMAIN bucket'[c] : i < j /\ bucket'[c][i] = below
    <3>1. SUFFICES ASSUME NEW c \in Buckets, NEW j \in DOMAIN bucket'[c],
                          bucket'[c][j] \in live', ~(escaped' /\ HasRequest(bucket[c][j])')
                   PROVE  \A below \in Under(bucket[c][j])' :
                            below \in live' /\ \E i \in DOMAIN bucket'[c] : i < j /\ bucket'[c][i] = below
      BY DEF UnderWaits
    <3>2. ~HasRequest(bucket'[c][j])
      BY <1>1, <1>8, <3>1
    <3> QED  BY <1>8, <3>1, <3>2
  <2>1. CASE c = "module"
    <3>1. below \in live /\ \E i \in DOMAIN bucket'[c] : i < j /\ bucket'[c][i] = below
      BY <1>1, <1>2, <1>5, <2>1 DEF UnderWaits
    <3>2. below[1] = "module"
      BY <1>2, <1>5, <2>1 DEF KeysOnce, Under
    <3>3. Newest(b)[1] = b
      BY <1>3, <1>6, <1>7
    <3> QED  BY <1>1, <3>1, <3>2, <3>3
  <2>2. CASE c = b
    <3>1. j \in DOMAIN old /\ key = old[j]
      <4>1. j \in DOMAIN Whole /\ key = Whole[j] /\ key \in live
        BY <1>1, <1>5, <2>2
      <4>2. ASSUME j \notin DOMAIN old PROVE FALSE
        <5>1. j - Len(old) \in DOMAIN ran /\ key = ran[j - Len(old)]
          BY <1>6, <4>1, <4>2
        <5>2. HasRequest(key)
          BY <1>3, <4>1, <5>1
        <5> QED  BY <5>2
      <4> QED  BY <1>6, <4>1, <4>2
    <3>2. below \in live /\ \E i \in DOMAIN old : i < j /\ old[i] = below
      <4>1. old[j] \in live /\ ~HasRequest(old[j]) /\ below \in Under(old[j])
        BY <1>1, <3>1
      <4>2. b \in Buckets /\ old = bucket[b]
        BY DEF Buckets, old
      <4> HIDE DEF b
      <4> QED  BY <1>2, <3>1, <4>1, <4>2 DEF UnderWaits
    <3>3. PICK i \in DOMAIN old : i < j /\ old[i] = below
      BY <3>2
    <3>4. below # Newest(b)
      BY <1>3, <1>6, <1>7, <3>1, <3>3
    <3>5. i \in DOMAIN Whole /\ Whole[i] = below
      BY <1>6, <3>3
    <3> QED  BY <1>1, <1>5, <2>2, <3>2, <3>3, <3>4, <3>5
  <2> QED  BY <2>1, <2>2 DEF Buckets
<1>14. CacheTyped' /\ ForCase' /\ StackInv'
  BY <1>1, <1>2 DEF CacheTyped, ForCase, StackInv
<1>15. ForFile'
  <2> SUFFICES ASSUME NEW key \in DOMAIN values, key[1] = "module", IsYield(key) PROVE Waits(key)'
    BY <1>1, <1>8 DEF ForFile
  <2>1. Waits(key) /\ key # Newest(b)
    BY <1>1, <1>2, <1>3, <1>6, <1>7 DEF ForFile
  <2> QED  BY <1>1, <1>9, <2>1 DEF Waits
<1> QED  BY <1>1, <1>2, <1>10, <1>11, <1>12, <1>13, <1>14, <1>15 DEF TeardownInv, CacheInv, ListInv

LEMMA TeardownStep == TeardownInv /\ PassInv /\ [RunnerNext]_runnerVars => TeardownInv'
<1> USE DEF fileVars, caseVars, listVars, counts, streamVars, reports
<1> SUFFICES ASSUME TeardownInv, PassInv, [RunnerNext]_runnerVars PROVE TeardownInv'
  OBVIOUS
<1>0. left \in Seq(Files) /\ current \in Nat
  BY DEF TeardownInv
<1>1. ASSUME InstallShim PROVE TeardownInv'
  BY <1>0, <1>1 DEF InstallShim, At, To, TeardownInv, Started, InFile
<1>2. ASSUME CollectionError \/ CollectionRaises \/ ModuleExits PROVE TeardownInv'
  <2>1. phase' = "ended" /\ left' = left /\ current' = current
    BY <1>2 DEF CollectionError, CollectionRaises, ModuleExits, To
  <2> QED  BY <1>0, <2>1 DEF TeardownInv, Started, InFile
<1>3. ASSUME Collect PROVE TeardownInv'
  <2>1. /\ phase = "import" /\ phase' \in {"result", "case"} /\ left' = left /\ current' = 1
        /\ values' = <<>> /\ bucket' = NoBuckets /\ live' = {}
    BY <1>3 DEF Collect, At, To
  <2>2. left # <<>> /\ DOMAIN values' = {}
    BY <2>1 DEF TeardownInv, Started
  <2>3. bucket'.function = <<>> /\ bucket'.module = <<>> /\ ListsTyped'
    BY <2>1 DEF NoBuckets, ListsTyped
  <2>4. KeysOnce' /\ LiveListed' /\ UnderWaits'
    <3>1. \A b \in Buckets : DOMAIN bucket'[b] = {}
      BY <2>3 DEF Buckets
    <3> QED  BY <2>1, <3>1 DEF KeysOnce, LiveListed, UnderWaits
  <2>5. CacheInv' /\ StackInv'
    BY <2>1, <2>2 DEF CacheInv, CacheTyped, ForFile, ForCase, StackInv
  <2> QED  BY <1>0, <2>1, <2>2, <2>3, <2>4, <2>5 DEF TeardownInv, ListInv
<1>4. ASSUME SkipCase PROVE TeardownInv'
  <2>1. /\ phase = "case" /\ phase' = "case" /\ current' = current + 1 /\ left' = left
        /\ values' = values /\ bucket' = bucket /\ live' = live /\ escaped' = escaped
    BY <1>4 DEF SkipCase, At
  <2> QED  BY <2>1, PhaseMoves DEF InFile, StackInv
<1>5. ASSUME StartCase PROVE TeardownInv'
  <2>1. /\ phase = "case" /\ phase' = "resolve" /\ current' = current /\ left' = left
        /\ values' = values /\ bucket' = bucket /\ live' = live /\ escaped' = escaped /\ stack' = <<>>
    BY <1>5 DEF StartCase, At, To
  <2>2. StackInv'
    BY <2>1 DEF StackInv, StackTyped, AskedBelow, AskedOrBuilt
  <2> QED  BY <2>1, <2>2, PhaseMoves DEF InFile
<1>6. ASSUME Cached \/ CreateFixture PROVE TeardownInv'
  <2>1. /\ phase = "resolve" /\ phase' = "resolve" /\ current' = current /\ left' = left
        /\ values' = values /\ bucket' = bucket /\ live' = live /\ escaped' = escaped
    BY <1>6 DEF Cached, CreateFixture, At
  <2> QED  BY <1>6, <2>1, CachedKeepsStack, CreateKeepsStack, PhaseMoves DEF InFile
<1>7. ASSUME Construct PROVE TeardownInv'
  <2>1. phase' = "resolve" /\ phase = "resolve" /\ left' = left /\ current' = current
    BY <1>7 DEF Construct, Constructing, At
  <2>2. left # <<>>
    BY <2>1 DEF TeardownInv, Started
  <2> QED  BY <1>0, <1>7, <2>1, <2>2, ConstructKeepsLists, ConstructKeepsStack DEF TeardownInv
<1>8. ASSUME LookupError \/ FixtureSkips \/ FixtureRaises \/ Passes \/ Skips \/ Raises \/ Exits
      PROVE  TeardownInv'
  <2>1. /\ phase = "resolve" /\ phase' = "finish" /\ current' = current /\ left' = left
        /\ values' = values /\ bucket' = bucket /\ live' = live /\ escaped' = escaped
    <3>1. CASE LookupError \/ FixtureSkips \/ FixtureRaises
      BY <3>1 DEF LookupError, FixtureSkips, FixtureRaises, Failing, Constructing, At, To
    <3>2. CASE Passes \/ Skips \/ Raises \/ Exits
      <4>1. phase = "resolve" /\ \E label, failed, called : Counted(label, failed, called)
        BY <3>2 DEF Passes, Skips, Raises, Exits, Ready, At
      <4> QED  BY <4>1 DEF Counted, To
    <3> QED  BY <1>8, <3>1, <3>2
  <2> QED  BY <2>1, PhaseMoves DEF InFile, StackInv
<1>9. ASSUME NEW b \in {"function", "module"}, Finalize(b) \/ FinalizerRaises(b) PROVE TeardownInv'
  <2>1. /\ phase = IF b = "function" THEN "finish" ELSE "module"
        /\ phase' = phase /\ current' = current /\ left' = left /\ values' = values
        /\ bucket[b] # <<>> /\ bucket' = [bucket EXCEPT ![b] = Front(@)]
        /\ escaped' = escaped
        /\ \/ live' = live \ {Newest(b)}
           \/ HasRequest(Newest(b)) /\ live' = live
    BY <1>9 DEF Finalize, FinalizerRaises, Finalizing, Ran, Resumed, NotResumed
  <2> QED  BY <2>1, PopKeeps DEF Buckets
<1>10. ASSUME FinalizerExits PROVE TeardownInv'
  BY <1>10, ExitKeeps
<1>11. ASSUME CaseDone PROVE TeardownInv'
  <2>1. /\ phase = "finish" /\ phase' = "case" /\ current' = current + 1 /\ left' = left
        /\ values' = values /\ bucket' = bucket /\ live' = live /\ escaped' = escaped
    BY <1>11 DEF CaseDone, At, To
  <2> QED  BY <2>1, PhaseMoves DEF InFile, StackInv
<1>12. ASSUME CasesDone \/ ModuleDone PROVE TeardownInv'
  <2>1. /\ phase \in InFile /\ phase' \in {"module", "result"} /\ current' = current /\ left' = left
        /\ values' = values /\ bucket' = bucket /\ live' = live /\ escaped' = escaped
        /\ phase' = "result" => bucket.module = <<>>
    BY <1>12 DEF CasesDone, ModuleDone, At, To, InFile
  <2> QED  BY <2>1, PhaseMoves DEF InFile, StackInv
<1>15. ASSUME Disables PROVE TeardownInv'
  <2>1. /\ phase = "resolve" /\ phase' = "resolve" /\ current' = current /\ left' = left /\ cases' = cases
        /\ values' = values /\ bucket' = bucket /\ live' = live /\ escaped' = escaped /\ stack' = stack
    BY <1>15 DEF Disables, Ready, At
  <2>2. StackInv'
    <3>1. F' = F /\ Frames' = Frames /\ \A name : Key(name)' = Key(name)
      BY <2>1, SameFile, SameCase
    <3> QED  BY <2>1, <3>1 DEF TeardownInv, InFile, StackInv, StackTyped, AskedBelow, AskedOrBuilt
  <2> QED  BY <2>1, <2>2, PhaseMoves DEF InFile
<1>13. ASSUME Result PROVE TeardownInv'
  <2>1. /\ phase = "result" /\ phase' \in {"ended", "file"} /\ left' = Tail(left) /\ current' = current
    BY <1>13 DEF Result, At, To
  <2>2. left # <<>>
    BY <2>1 DEF TeardownInv, Started
  <2>3. left' \in Seq(Files)
    BY <1>0, <2>1, <2>2, TailOf
  <2> QED  BY <1>0, <2>1, <2>3 DEF TeardownInv, Started, InFile
<1>14. CASE UNCHANGED runnerVars
  <2>1. /\ phase' = phase /\ left' = left /\ current' = current /\ cases' = cases /\ stack' = stack
        /\ values' = values /\ bucket' = bucket /\ live' = live /\ escaped' = escaped
    BY <1>14 DEF runnerVars
  <2>2. CASE phase \notin InFile
    BY <2>1, <2>2 DEF TeardownInv, Started
  <2>3. CASE phase \in InFile
    <3>1. ListInv' /\ \A key : (Waits(key)' <=> Waits(key))
      BY <2>1, <2>3, ListsKept DEF TeardownInv
    <3>2. CacheInv'
      BY <2>1, <2>3, <3>1, SameFile DEF TeardownInv, CacheInv, CacheTyped, ForFile, ForCase
    <3>3. StackInv'
      <4>1. F' = F /\ Frames' = Frames /\ \A name : Key(name)' = Key(name)
        BY <2>1, SameFile, SameCase
      <4> QED  BY <2>1, <2>3, <4>1 DEF TeardownInv, StackInv, StackTyped, AskedBelow, AskedOrBuilt
    <3> QED  BY <2>1, <2>3, <3>1, <3>2, <3>3 DEF TeardownInv, Started
  <2> QED  BY <2>2, <2>3
<1> QED
  BY <1>1, <1>2, <1>3, <1>4, <1>5, <1>6, <1>7, <1>8, <1>9, <1>10, <1>11, <1>12, <1>13, <1>14, <1>15
  DEF RunnerNext

LEMMA Joined ==
  ASSUME NEW S, NEW s \in Seq(S), NEW r \in Seq(S)
  PROVE  /\ s \o r \in Seq(S) /\ Len(s \o r) = Len(s) + Len(r)
         /\ \A i \in 1..(Len(s) + Len(r)) : (s \o r)[i] = IF i <= Len(s) THEN s[i] ELSE r[i - Len(s)]
OBVIOUS

LEMMA SameJoin ==
  ASSUME NEW S, NEW f \in Seq(S), NEW t \in Seq(S), NEW s \in Seq(S), NEW r \in Seq(S),
         Len(f) \in Nat, Len(r) \in Nat, Len(s) = Len(f) + 1, Len(t) = Len(r) + 1,
         \A i \in 1..Len(f) : f[i] = s[i], t[1] = s[Len(f) + 1], \A i \in 2..(Len(r) + 1) : t[i] = r[i-1]
  PROVE  f \o t = s \o r
<1> DEFINE n == Len(f) + Len(r) + 1
<1>1. n \in Nat /\ Len(f) + Len(t) = n /\ Len(s) + Len(r) = n
  OBVIOUS
<1> HIDE DEF n
<1>2. /\ f \o t \in Seq(S) /\ Len(f \o t) = n
      /\ \A i \in 1..n : (f \o t)[i] = IF i <= Len(f) THEN f[i] ELSE t[i - Len(f)]
  <2>1. /\ f \o t \in Seq(S) /\ Len(f \o t) = Len(f) + Len(t)
        /\ \A i \in 1..(Len(f) + Len(t)) : (f \o t)[i] = IF i <= Len(f) THEN f[i] ELSE t[i - Len(f)]
    BY Joined, Zenon
  <2> QED  BY <1>1, <2>1, Zenon
<1>3. /\ s \o r \in Seq(S) /\ Len(s \o r) = n
      /\ \A i \in 1..n : (s \o r)[i] = IF i <= Len(s) THEN s[i] ELSE r[i - Len(s)]
  <2>1. /\ s \o r \in Seq(S) /\ Len(s \o r) = Len(s) + Len(r)
        /\ \A i \in 1..(Len(s) + Len(r)) : (s \o r)[i] = IF i <= Len(s) THEN s[i] ELSE r[i - Len(s)]
    BY Joined, Zenon
  <2> QED  BY <1>1, <2>1, Zenon
<1> DEFINE a == f \o t
           b == s \o r
<1> HIDE DEF a, b
<1>4. ASSUME NEW i \in 1..n PROVE a[i] = b[i]
  <2>1. /\ a[i] = IF i <= Len(f) THEN f[i] ELSE t[i - Len(f)]
        /\ b[i] = IF i <= Len(f) + 1 THEN s[i] ELSE r[i - (Len(f) + 1)]
    BY <1>2, <1>3 DEF a, b
  <2>2. CASE i <= Len(f)
    BY <1>1, <2>1, <2>2
  <2>3. CASE i = Len(f) + 1
    BY <1>1, <2>1, <2>3
  <2>4. CASE i > Len(f) + 1
    <3>1. i - Len(f) \in 2..(Len(r) + 1) /\ (i - Len(f)) - 1 = i - (Len(f) + 1)
      BY <1>1, <2>4 DEF n
    <3>2. ~(i <= Len(f)) /\ ~(i <= Len(f) + 1)
      BY <1>1, <2>4
    <3> QED  BY <2>1, <3>1, <3>2
  <2> QED  BY <1>1, <2>2, <2>3, <2>4
<1>5. a \in Seq(S) /\ b \in Seq(S) /\ Len(a) = n /\ Len(b) = n
  BY <1>2, <1>3 DEF a, b
<1>6. a = b
  BY <1>1, <1>4, <1>5
<1> QED  BY <1>6 DEF a, b

(* Outside a pass the list of the case is all there is. *)
LEMMA NoPass == TeardownInv /\ ran = <<>> => PassInv
<1> SUFFICES ASSUME TeardownInv, ran = <<>>, phase \in InFile PROVE PassInv
  BY DEF PassInv
<1>1. ListsTyped /\ KeysOnce
  BY DEF TeardownInv, ListInv
<1>2. bucket.function \in Seq(DOMAIN values) /\ Whole = bucket.function
  BY <1>1 DEF ListsTyped, Whole
<1> QED  BY <1>1, <1>2 DEF PassInv, KeysOnce, Buckets

LEMMA PassPops ==
  ASSUME TeardownInv, PassInv, left' = left, values' = values, phase = "finish", phase' = "finish",
         bucket.function # <<>>, bucket' = [bucket EXCEPT !.function = Front(@)],
         ran' = <<Newest("function")>> \o ran,
         \/ live' = live \ {Newest("function")}
         \/ HasRequest(Newest("function")) /\ live' = live
  PROVE  PassInv'
<1> DEFINE old == bucket.function
<1>1. /\ ran \in Seq(DOMAIN values)
      /\ \A i, j \in DOMAIN Whole : Whole[i][1] = "function" /\ (Whole[i] = Whole[j] => i = j)
      /\ \A i \in DOMAIN ran : ran[i] \in live => HasRequest(ran[i])
  BY DEF PassInv, InFile
<1>2. old \in Seq(DOMAIN values) /\ old # <<>> /\ bucket'.function = Front(old) /\ Newest("function") = Last(old)
      /\ ran' = <<Last(old)>> \o ran
  BY DEF TeardownInv, InFile, ListInv, ListsTyped, Newest
<1> HIDE DEF old
<1>3. /\ Front(old) \in Seq(DOMAIN values) /\ Len(Front(old)) = Len(old) - 1 /\ Len(old) \in Nat \ {0}
      /\ \A i \in 1..(Len(old) - 1) : Front(old)[i] = old[i]
      /\ Last(old) = old[Len(old)] /\ Last(old) \in DOMAIN values
  <2>1. old \in Seq(DOMAIN values) /\ old # <<>>
    BY <1>2
  <2> QED  BY ONLY <2>1, FrontOf
<1>7. /\ ran' \in Seq(DOMAIN values) /\ Len(ran') = Len(ran) + 1 /\ Len(ran) \in Nat /\ ran'[1] = Last(old)
      /\ DOMAIN ran' = 1..(Len(ran) + 1) /\ DOMAIN ran = 1..Len(ran)
      /\ \A i \in 2..(Len(ran) + 1) : ran'[i] = ran[i-1]
  <2>1. ran \in Seq(DOMAIN values) /\ ran' = <<Last(old)>> \o ran /\ Last(old) \in DOMAIN values
    BY <1>1, <1>2, <1>3
  <2> QED  BY ONLY <2>1
<1>8. bucket'.function \o ran' = old \o ran
  <2>1. /\ Len(Front(old)) \in Nat /\ Len(old) = Len(Front(old)) + 1
        /\ \A i \in 1..Len(Front(old)) : Front(old)[i] = old[i]
        /\ ran'[1] = old[Len(Front(old)) + 1]
    BY ONLY <1>3, <1>7
  <2>2. old \in Seq(DOMAIN values) /\ ran \in Seq(DOMAIN values)
    BY <1>1, <1>2
  <2>3. Front(old) \o ran' = old \o ran
    <3>1. /\ Front(old) \in Seq(DOMAIN values) /\ ran' \in Seq(DOMAIN values)
          /\ Len(ran) \in Nat /\ Len(ran') = Len(ran) + 1
          /\ \A i \in 2..(Len(ran) + 1) : ran'[i] = ran[i-1]
      BY ONLY <1>3, <1>7
    <3> QED  BY ONLY <2>1, <2>2, <3>1, SameJoin, ZenonT(60)
  <2> QED  BY <1>2, <2>3
<1>4. Whole' = Whole
  BY <1>8 DEF Whole, old
<1>5. \A i \in DOMAIN ran' : ran'[i] \in live' => HasRequest(ran'[i])
  <2> SUFFICES ASSUME NEW i \in DOMAIN ran', ran'[i] \in live' PROVE HasRequest(ran'[i])
    OBVIOUS
  <2>1. ran'[i] = Newest("function") \/ \E j \in DOMAIN ran : ran'[i] = ran[j]
    BY <1>2, <1>7
  <2>2. CASE ran'[i] = Newest("function")
    <3>1. HasRequest(Newest("function"))
      BY <2>2
    <3> QED  BY <2>2, <3>1
  <2>3. CASE \E j \in DOMAIN ran : ran'[i] = ran[j]
    BY <1>1, <2>3
  <2> QED  BY <2>1, <2>2, <2>3
<1>6. \A key : HasRequest(key)' <=> HasRequest(key)
  BY SameFile
<1>9. \A i \in DOMAIN ran' : ran'[i] \in live' => HasRequest(ran[i])'
  BY <1>5, <1>6
<1> QED  BY <1>1, <1>4, <1>7, <1>9 DEF PassInv

LEMMA PassStep == TeardownInv /\ PassInv /\ [RunnerNext]_runnerVars /\ TeardownInv' => PassInv'
<1> USE DEF fileVars, caseVars, listVars, counts, streamVars, reports
<1> SUFFICES ASSUME TeardownInv, PassInv, [RunnerNext]_runnerVars, TeardownInv' PROVE PassInv'
  OBVIOUS
<1>1. ASSUME ran' = <<>> PROVE PassInv'
  <2>1. (TeardownInv /\ ran = <<>> => PassInv)'
    BY NoPass, PTL
  <2> QED  BY <1>1, <2>1
<1>2. ASSUME phase' \notin InFile PROVE PassInv'
  BY <1>2 DEF PassInv
<1>3. phase \in InFile /\ phase # "finish" => ran = <<>>
  BY DEF PassInv
<1>4. ASSUME InstallShim \/ CollectionError \/ CollectionRaises \/ ModuleExits \/ Result PROVE PassInv'
  BY <1>2, <1>4 DEF InstallShim, CollectionError, CollectionRaises, ModuleExits, Result, To, InFile
<1>5. ASSUME Collect \/ CaseDone \/ FinalizerExits PROVE PassInv'
  BY <1>1, <1>5 DEF Collect, CaseDone, FinalizerExits
<1>6. ASSUME SkipCase \/ StartCase \/ Cached \/ CreateFixture \/ LookupError \/ Construct \/ CasesDone \/ ModuleDone
      PROVE  PassInv'
  <2>1. phase \in InFile /\ phase # "finish" /\ ran' = ran
    BY <1>6 DEF SkipCase, StartCase, Cached, CreateFixture, LookupError, Construct, Constructing,
                CasesDone, ModuleDone, At, InFile
  <2> QED  BY <1>1, <1>3, <2>1
<1>7. ASSUME FixtureSkips \/ FixtureRaises \/ Disables \/ Passes \/ Skips \/ Raises \/ Exits PROVE PassInv'
  <2>1. phase = "resolve"
    BY <1>7 DEF FixtureSkips, FixtureRaises, Failing, Constructing, Disables, Passes, Skips, Raises, Exits, Ready, At
  <2>2. ran' = ran
    <3>1. CASE FixtureSkips \/ FixtureRaises \/ Disables
      BY <3>1 DEF FixtureSkips, FixtureRaises, Disables
    <3>2. CASE Passes \/ Skips \/ Raises \/ Exits
      <4>1. \E label, failed, called : Counted(label, failed, called)
        BY <3>2 DEF Passes, Skips, Raises, Exits
      <4> QED  BY <4>1 DEF Counted
    <3> QED  BY <1>7, <3>1, <3>2
  <2> QED  BY <1>1, <1>3, <2>1, <2>2 DEF InFile
<1>8. ASSUME NEW b \in {"function", "module"}, Finalize(b) \/ FinalizerRaises(b) PROVE PassInv'
  <2>1. /\ phase = (IF b = "function" THEN "finish" ELSE "module") /\ phase' = phase
        /\ left' = left /\ values' = values /\ bucket[b] # <<>>
        /\ bucket' = [bucket EXCEPT ![b] = Front(@)]
        /\ ran' = (IF b = "function" THEN <<Newest(b)>> \o ran ELSE ran)
        /\ \/ live' = live \ {Newest(b)}
           \/ HasRequest(Newest(b)) /\ live' = live
    BY <1>8 DEF Finalize, FinalizerRaises, Finalizing, Ran, Resumed, NotResumed
  <2>2. CASE b = "function"
    BY <2>1, <2>2, PassPops
  <2>3. CASE b = "module"
    BY <1>1, <1>3, <2>1, <2>3 DEF InFile
  <2> QED  BY <2>2, <2>3
<1>9. CASE UNCHANGED runnerVars
  <2>1. /\ phase' = phase /\ left' = left /\ values' = values /\ bucket' = bucket /\ ran' = ran /\ live' = live
    BY <1>9 DEF runnerVars
  <2> QED  BY <2>1, SameFile DEF PassInv, Whole
<1> QED  BY <1>4, <1>5, <1>6, <1>7, <1>8, <1>9 DEF RunnerNext

-----------------------------------------------------------------------------
LEMMA CapsysOnly ==
  ASSUME left \in Seq(Files), left # <<>>, NEW key, Captures(key)
  PROVE  ~HasRequest(key) /\ (key[2] \in Known(F) => BucketOf(key[2]) = "function")
<1>1. F \in Files
  BY DEF F
<1>2. PICK files \in Commands : F \in Range(files)
  BY <1>1 DEF Files
<1>3. CASE key[2] \in Known(F)
  <2>1. Definition(F, key[2]) = Capsys
    BY <1>2, <1>3, CommandsAssumption DEF Captures
  <2>2. Needs(F, key[2]) = <<>> /\ Definition(F, key[2]).scope = "function"
    BY <1>3, <2>1 DEF Needs, Capsys, Fixture
  <2> QED  BY <2>2 DEF HasRequest, Range, BucketOf
<1>4. CASE key[2] \notin Known(F)
  BY <1>4 DEF HasRequest, Needs, Range
<1> QED  BY <1>3, <1>4

LEMMA StreamInit == RunnerInit => PassInv /\ StreamInv
BY DEF RunnerInit, At, PassInv, StreamInv, InFile

LEMMA Swallows ==
  ASSUME NEW label, Log(label)
  PROVE  swallowed' = swallowed \/ ((capturing \/ lost) /\ swallowed' = swallowed \cup {label})
BY DEF Log

LEMMA StreamStep == TeardownInv /\ StreamInv /\ [RunnerNext]_runnerVars => StreamInv'
<1> USE DEF fileVars, caseVars, listVars, counts, streamVars, reports
<1> SUFFICES ASSUME TeardownInv, StreamInv, [RunnerNext]_runnerVars PROVE StreamInv'
  OBVIOUS
<1>0. ASSUME left' = left PROVE \A key : Captures(key)' <=> Captures(key)
  BY <1>0, SameFile
<1>1. ASSUME phase \in InFile, phase' \in InFile, left' = left, live' = live, armed' = armed, bucket' = bucket,
             capturing' => capturing, lost' = lost, escaped' = escaped,
             phase' \in {"resolve", "finish"} \/ phase \in {"case", "module"},
             \/ swallowed' = swallowed
             \/ \E label \in AllLabels \ {"COLLECTION_ERROR", "TEARDOWN"} : swallowed' = swallowed \cup {label}
      PROVE  StreamInv'
  BY <1>0, <1>1 DEF StreamInv, InFile
<1>2. ASSUME InstallShim \/ CollectionRaises \/ ModuleExits \/ Result PROVE StreamInv'
  <2>1. /\ phase \in {"file", "import", "module", "result"} /\ phase' \in {"import", "ended", "file"}
        /\ UNCHANGED <<capturing, lost, escaped, swallowed>>
    BY <1>2 DEF InstallShim, CollectionRaises, ModuleExits, Result, Finalizing, At, To
  <2> QED  BY <2>1 DEF StreamInv, InFile
<1>3. ASSUME CollectionError PROVE StreamInv'
  <2>1. phase = "import" /\ phase' = "ended" /\ UNCHANGED <<capturing, lost, escaped>> /\ Log("COLLECTION_ERROR")
    BY <1>3 DEF CollectionError, At, To
  <2>2. swallowed' = swallowed \/ ((capturing \/ lost) /\ swallowed' = swallowed \cup {"COLLECTION_ERROR"})
    BY <2>1, Swallows
  <2> QED  BY <2>1, <2>2 DEF StreamInv, InFile
<1>4. ASSUME Collect PROVE StreamInv'
  <2>1. /\ phase = "import" /\ phase' \in {"result", "case"} /\ lost' = (lost \/ capturing) /\ capturing' = FALSE
        /\ armed' = {} /\ bucket'.function = <<>> /\ UNCHANGED <<escaped, swallowed>>
    BY <1>4 DEF Collect, At, To, NoBuckets
  <2> QED  BY <2>1 DEF StreamInv, InFile
<1>5. ASSUME StartCase \/ Cached \/ CreateFixture \/ Disables \/ CasesDone \/ ModuleDone PROVE StreamInv'
  <2>1. /\ phase \in InFile /\ phase' \in InFile
        /\ UNCHANGED <<left, live, armed, bucket, lost, escaped, swallowed>> /\ (capturing' => capturing)
        /\ phase' \in {"resolve", "finish"} \/ phase \in {"case", "module"}
    BY <1>5 DEF StartCase, Cached, CreateFixture, Disables, Ready, CasesDone, ModuleDone, At, To, InFile
  <2> QED  BY <1>1, <2>1
<1>6. ASSUME SkipCase \/ LookupError \/ FixtureSkips \/ FixtureRaises PROVE StreamInv'
  <2>1. /\ phase \in InFile /\ phase' \in InFile
        /\ UNCHANGED <<left, live, armed, bucket, capturing, lost, escaped>>
        /\ phase' \in {"resolve", "finish"} \/ phase \in {"case", "module"}
        /\ Log("SKIP") \/ Log("ERROR") \/ Log("FAIL")
    BY <1>6 DEF SkipCase, LookupError, FixtureSkips, FixtureRaises, Failing, Constructing, At, To, InFile
  <2>2. \/ swallowed' = swallowed
        \/ \E label \in AllLabels \ {"COLLECTION_ERROR", "TEARDOWN"} : swallowed' = swallowed \cup {label}
    BY <2>1, Swallows DEF AllLabels
  <2> QED  BY <1>1, <2>1, <2>2
<1>7. ASSUME Passes \/ Skips \/ Raises \/ Exits PROVE StreamInv'
  <2>1. /\ phase = "resolve"
        /\ \E label \in {"PASS", "XPASS", "FAIL", "SKIP", "XFAIL"}, failed \in {0, 1}, called \in {0, 1} :
             Counted(label, failed, called)
    BY <1>7 DEF Passes, Skips, Raises, Exits, Ready, At
  <2>2. PICK label \in {"PASS", "XPASS", "FAIL", "SKIP", "XFAIL"}, failed \in {0, 1}, called \in {0, 1} :
          Counted(label, failed, called)
    BY <2>1
  <2>3. /\ phase' = "finish" /\ UNCHANGED <<left, live, armed, bucket, capturing, lost, escaped>> /\ Log(label)
    BY <2>2 DEF Counted, To
  <2>4. \/ swallowed' = swallowed
        \/ \E l \in AllLabels \ {"COLLECTION_ERROR", "TEARDOWN"} : swallowed' = swallowed \cup {l}
    BY <2>3, Swallows DEF AllLabels
  <2> QED  BY <1>1, <2>1, <2>3, <2>4 DEF InFile
<1>8. ASSUME Construct PROVE StreamInv'
  <2> DEFINE key == Key(Last(stack).name)
  <2>1. /\ phase = "resolve" /\ phase' = "resolve" /\ left' = left
        /\ live' = (IF IsYield(key) THEN live \cup {key} ELSE live)
        /\ armed' = (IF HasRequest(key) \/ (IsYield(key) /\ ~Captures(key)) THEN armed \cup {key} ELSE armed)
        /\ capturing' = (capturing \/ Captures(key))
        /\ UNCHANGED <<lost, escaped, swallowed>> /\ stack # <<>>
    BY <1>8 DEF Construct, Constructing, At
  <2>2. StackTyped /\ left \in Seq(Files) /\ left # <<>>
    BY <2>1 DEF TeardownInv, Started, InFile, StackInv
  <2>3. key[2] = Last(stack).name /\ key[2] \in Known(F) /\ key[1] = BucketOf(key[2])
    <3>1. Last(stack) \in Frames
      BY <2>1, <2>2 DEF StackTyped, Last
    <3> QED  BY <3>1 DEF Key, Frames
  <2> HIDE DEF key
  <2>4. Captures(key) => ~HasRequest(key) /\ key[1] = "function" /\ IsYield(key)
    BY <2>2, <2>3, CapsysOnly DEF Captures, IsYield
  <2>5. \A k \in armed' : ~Captures(k)
    BY <2>1, <2>4 DEF StreamInv, InFile
  <2>6. capturing' => \E k \in live' : Captures(k) /\ k[1] = "function"
    BY <2>1, <2>4 DEF StreamInv, InFile
  <2> QED  BY <1>0, <2>1, <2>5, <2>6 DEF StreamInv, InFile
<1>9. ASSUME NEW b \in {"function", "module"}, Finalize(b) \/ FinalizerRaises(b) PROVE StreamInv'
  <2>1. /\ phase = (IF b = "function" THEN "finish" ELSE "module") /\ phase' = phase /\ left' = left
        /\ UNCHANGED <<lost, escaped, swallowed>>
        /\ bucket' = [bucket EXCEPT ![b] = Front(@)]
        /\ armed' \subseteq armed /\ live \ {Newest(b)} \subseteq live'
        /\ capturing' => capturing /\ ~Captures(Newest(b))
    <3>1. CASE Finalize(b)
      BY <3>1 DEF Finalize, Finalizing, Ran, Resumed
    <3>2. CASE FinalizerRaises(b)
      <4>1. ~Captures(Newest(b))
        BY <3>2 DEF FinalizerRaises, Finalizing, StreamInv, InFile
      <4> QED  BY <3>2, <4>1 DEF FinalizerRaises, Finalizing, Ran, Resumed, NotResumed
    <3> QED  BY <1>9, <3>1, <3>2
  <2>2. capturing' => \E k \in live' : Captures(k) /\ k[1] = "function"
    BY <2>1 DEF StreamInv, InFile
  <2>3. b = "module" => bucket'.function = bucket.function
    BY <2>1 DEF TeardownInv, InFile, ListInv, ListsTyped
  <2> QED  BY <1>0, <2>1, <2>2, <2>3 DEF StreamInv, InFile
<1>10. ASSUME CaseDone PROVE StreamInv'
  <2>1. /\ phase = "finish" /\ phase' = "case" /\ bucket.function = <<>> /\ left' = left
        /\ UNCHANGED <<live, armed, bucket, capturing, lost, escaped>>
        /\ swallowed' = swallowed \/ Log("TEARDOWN")
    BY <1>10 DEF CaseDone, At, To
  <2>2. ~capturing
    <3> SUFFICES ASSUME NEW key \in live, Captures(key), key[1] = "function" PROVE FALSE
      BY <2>1 DEF StreamInv, InFile
    <3>1. left \in Seq(Files) /\ left # <<>> /\ LiveListed
      BY <2>1 DEF TeardownInv, Started, InFile, ListInv
    <3>2. key \in Range(bucket.function)
      BY <3>1, CapsysOnly DEF LiveListed, Waits
    <3> QED  BY <2>1, <3>2 DEF Range
  <2>3. swallowed' = swallowed \/ (lost /\ swallowed' = swallowed \cup {"TEARDOWN"})
    BY <2>1, <2>2, Swallows
  <2> QED  BY <1>0, <2>1, <2>2, <2>3 DEF StreamInv, InFile
<1>11. ASSUME FinalizerExits PROVE StreamInv'
  <2> DEFINE b == "function"
  <2>1. /\ phase = "finish" /\ phase' = "case" /\ left' = left /\ escaped' = TRUE
        /\ UNCHANGED <<armed, capturing, lost>> /\ Newest(b) \in armed /\ live \ {Newest(b)} \subseteq live'
    BY <1>11 DEF FinalizerExits, Finalizing, Resumed, NotResumed, To
  <2>2. ~Captures(Newest(b))
    BY <2>1 DEF StreamInv, InFile
  <2>3. capturing' => \E k \in live' : Captures(k) /\ k[1] = "function"
    BY <2>1, <2>2 DEF StreamInv, InFile
  <2> QED  BY <1>0, <2>1, <2>3 DEF StreamInv, InFile
<1>12. CASE UNCHANGED runnerVars
  <2>1. UNCHANGED <<phase, left, live, armed, bucket, capturing, lost, escaped, swallowed>>
    BY <1>12 DEF runnerVars
  <2> QED  BY <1>0, <2>1 DEF StreamInv
<1> QED
  BY <1>2, <1>3, <1>4, <1>5, <1>6, <1>7, <1>8, <1>9, <1>10, <1>11, <1>12 DEF RunnerNext

LEMMA TeardownCorrect == TeardownInv /\ StreamInv => TornDown
<1> SUFFICES ASSUME TeardownInv, StreamInv PROVE TornDown
  OBVIOUS
<1>0. (capturing /\ phase \notin {"resolve", "finish"}) \/ lost => escaped
  BY DEF StreamInv
<1> SUFFICES ASSUME phase \in InFile PROVE TornDown
  BY <1>0 DEF TornDown, InFile
<1>1. ListsTyped /\ KeysOnce /\ LiveListed /\ UnderWaits /\ (phase = "result" => bucket.module = <<>>)
  BY DEF TeardownInv, ListInv
<1>2. ASSUME phase = "result", NEW key \in live
      PROVE  HasRequest(key) \/ (escaped /\ key \in Range(bucket.function))
  <2>1. key[1] \in {"function", "module"} /\ (Waits(key) \/ HasRequest(key))
    BY <1>1 DEF LiveListed, Buckets
  <2>2. Range(bucket["module"]) = {}
    BY <1>1, <1>2 DEF Range
  <2>3. Range(bucket.function) # {} => escaped
    BY <1>2 DEF StreamInv, Range
  <2> QED  BY <2>1, <2>2, <2>3 DEF Waits
<1>3. ASSUME NEW b \in DOMAIN bucket, NEW key \in live \cap Range(bucket[b]), NEW below \in values[key].on,
             IsYield(below), below[1] = b, b = "module" \/ values[below].case = values[key].case,
             ~(escaped /\ HasRequest(key))
      PROVE  below \in live
  <2>1. b \in Buckets
    BY <1>1 DEF ListsTyped, Buckets
  <2>2. PICK j \in DOMAIN bucket[b] : bucket[b][j] = key
    BY DEF Range
  <2>3. key[1] = b
    BY <1>1, <2>1, <2>2 DEF KeysOnce
  <2>4. below \in Under(key)
    BY <1>3, <2>3 DEF Under
  <2> QED  BY <1>1, <1>3, <2>1, <2>2, <2>4 DEF UnderWaits
<1> QED  BY <1>0, <1>2, <1>3 DEF TornDown

(* For any commands and whatever raises, every yield fixture is resumed by *)
(* the time a file's result is known, and none before what is built on it, *)
(* and a case gives the process's streams back, save what an exit out of a *)
(* finalizer leaves and a generator whose request's finalizers raised.     *)
THEOREM FixturesAreTornDown == RunnerSpec => []TornDown
<1> DEFINE Inv == TeardownInv /\ PassInv /\ StreamInv
<1>1. RunnerInit => Inv
  BY TeardownInit, StreamInit
<1>2. Inv /\ [RunnerNext]_runnerVars => Inv'
  BY TeardownStep, PassStep, StreamStep
<1>3. Inv => TornDown
  BY TeardownCorrect
<1> QED  BY <1>1, <1>2, <1>3, PTL DEF RunnerSpec

(* For any commands, the exit code of a process of the runner agrees with  *)
(* what it has reported, into the log or into a case's capsys; and what it *)
(* reports about a collection or a teardown reaches the log, unless an     *)
(* exit out of a finalizer has left a capsys in its place.                 *)
THEOREM ExitIsEarned == RunnerSpec => []ExitIsReported
<1> DEFINE Inv == TeardownInv /\ PassInv /\ StreamInv /\ LogInv
<1>1. RunnerInit => Inv
  BY TeardownInit, StreamInit, LogInit
<1>2. Inv /\ [RunnerNext]_runnerVars => Inv'
  BY TeardownStep, PassStep, StreamStep, LogStep
<1>3. Inv => ExitIsReported
  BY DEF LogInv, StreamInv, ExitIsReported, Bad, Good, Wrong, FileFailed, FileRan, InFile,
         EXIT_OK, EXIT_FAILED, EXIT_NO_TESTS, EXIT_COLLECTION_ERROR, Interrupted, Answers
<1> QED  BY <1>1, <1>2, <1>3, PTL DEF RunnerSpec
=============================================================================
