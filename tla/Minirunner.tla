------------------------------ MODULE Minirunner ------------------------------
(***************************************************************************)
(* The runner of last resort (_minirunner.py, _minirunner_cases.py,        *)
(* _fixtureengine.py): it imports a candidate file under a stand-in for    *)
(* pytest, loads the conftests above it, expands its tests into cases,     *)
(* resolves the fixtures of each case, runs it, tears its fixtures down,   *)
(* and sums everything up in one exit code.  What candidate code does when *)
(* it runs (a body, a fixture, a finalizer) is any outcome it may have;    *)
(* what it does to sys.stdout other than through capsys is left out.       *)
(***************************************************************************)
EXTENDS Integers, Sequences, SequencesExt, Functions, FiniteSets

CONSTANT Commands   \* sequences of candidate files that one process is given

EXIT_OK == 0
EXIT_FAILED == 1
EXIT_COLLECTION_ERROR == 2
EXIT_NO_TESTS == 5
Interrupted == 99  \* the process ends with whatever status the exception carries

NoParams == -1     \* a fixture without params; params=[] has 0 of them

(* A fixture: its name, scope, the parameters of its function in order, its *)
(* form, the number of its params and whether every test uses it.           *)
Fixture(name, scope, needs, form, params, autouse) ==
  [name |-> name, scope |-> scope, needs |-> needs, form |-> form, params |-> params,
   autouse |-> autouse]

(* The built-in capsys is a yield fixture that replaces sys.stdout and      *)
(* sys.stderr until it is torn down.                                        *)
Capsys == Fixture("capsys", "function", <<>>, "capture", NoParams, FALSE)
Builtins ==
  <<Fixture("tmp_path", "function", <<>>, "plain", NoParams, FALSE),
    Fixture("tmp_path_factory", "module", <<>>, "plain", NoParams, FALSE),
    Fixture("monkeypatch", "function", <<>>, "yield", NoParams, FALSE), Capsys>>

(* dict.update keeps the place of a name and replaces what it stands for:  *)
(* the nearest conftest wins over the farther, the test module over both.  *)
Definitions(f) == Builtins \o FlattenSeq(f.conftests) \o f.fixtures
Known(f) == {d.name : d \in Range(Definitions(f))}
Definition(f, name) == Last(SelectSeq(Definitions(f), LAMBDA d : d.name = name))
Needs(f, name) == IF name \in Known(f) THEN Definition(f, name).needs ELSE <<>>

Add(names, name) == IF name \in Range(names) THEN names ELSE Append(names, name)
Autouse(f) ==
  LET names == FoldLeft(LAMBDA seen, d : Add(seen, d.name), <<>>, Definitions(f))
  IN  SelectSeq(names, LAMBDA name : Definition(f, name).autouse)

(* _fixture_closure: every fixture reached, dependencies first. *)
Walks == [seen : SUBSET STRING, order : Seq(STRING)]
Visit(f) ==
  LET visit[call \in Walks \X STRING] ==
        LET walk == call[1]
            name == call[2]
            below == FoldLeft(LAMBDA w, dep : IF dep = "request" THEN w ELSE visit[<<w, dep>>],
                              [walk EXCEPT !.seen = @ \cup {name}], Needs(f, name))
        IN  IF name \in walk.seen THEN walk ELSE [below EXCEPT !.order = Append(@, name)]
  IN  visit
Closure(f, names) ==
  FoldLeft(LAMBDA w, name : Visit(f)[<<w, name>>], [seen |-> {}, order |-> <<>>], names).order

(* A command names files, the parameters of a fixture are names, and only  *)
(* the built-in capsys captures.                                           *)
ASSUME CommandsAssumption ==
  \A files \in Commands :
    /\ files \in Seq(Range(files))
    /\ \A f \in Range(files) : \A name \in Known(f) :
         /\ Needs(f, name) \in Seq(STRING)
         /\ Definition(f, name).form = "capture" => Definition(f, name) = Capsys

(* A fixture without an override has 0 for its param. *)
Param(overrides, name) == IF name \in DOMAIN overrides THEN overrides[name] ELSE 0
With(overrides, name, i) ==
  [n \in DOMAIN overrides \cup {name} |-> IF n = name THEN i ELSE overrides[n]]

(* _fixture_param_cases: one set of overrides per combination of params of *)
(* the closure, the names that mark.parametrize provides left out; none at *)
(* all if one of them has an empty list of params.                         *)
ParamCases(f, names, provided) ==
  LET chosen == SelectSeq(Closure(f, names),
                  LAMBDA n : n \notin provided /\ n \in Known(f) /\ Definition(f, n).params # NoParams)
      Expand(cases, n) ==
        FlattenSeq([c \in DOMAIN cases |->
          [i \in 1..Definition(f, n).params |-> With(cases[c], n, i)]])
  IN  FoldLeft(Expand, << <<>> >>, chosen)

(* A test: the parameters of its function, those its parametrize rows      *)
(* provide, the number of rows, its form, its mark, and whether a call of  *)
(* it only makes a coroutine or a generator that nobody runs.              *)
Inject(t) == SelectSeq(t.requests, LAMBDA p : p \notin t.provided)
Requested(f, t) ==
  Inject(t) \o SelectSeq(Autouse(f), LAMBDA a : a \notin Range(Inject(t)))

(* A method of a unittest.TestCase is one case that only the autouse       *)
(* fixtures reach; a class with a constructor is not collected.            *)
CasesOf(f, t) ==
  CASE t.form = "constructed" -> <<>>
    [] t.form = "testcase" ->
         <<[mark |-> t.mark, deferred |-> t.deferred, wants |-> Autouse(f), overrides |-> <<>>]>>
    [] OTHER ->
         LET perRow == [c \in DOMAIN ParamCases(f, Requested(f, t), t.provided) |->
                          [mark |-> t.mark, deferred |-> t.deferred, wants |-> Requested(f, t),
                           overrides |-> ParamCases(f, Requested(f, t), t.provided)[c]]]
         IN  FlattenSeq([row \in 1..t.rows |-> perRow])
BuildCases(f) == FlattenSeq([i \in DOMAIN f.tests |-> CasesOf(f, f.tests[i])])

VARIABLES
  phase,     \* where the runner is
  left,      \* the paths it has still to run, the current one first
  worst,     \* main's worst: the exit code of the files so far
  pytest,    \* sys.modules["pytest"]: "absent", "real" or "shim"
  previous,  \* what stood there before the shim
  cases,     \* the cases of the current file
  current,   \* index of the current case
  wants,     \* fixtures of the case that are still to be resolved
  stack,     \* fixtures being created, each with the needs still to resolve
  values,    \* _values: key -> what was built, in which case
  bucket,    \* the finalizers that wait, per bucket, oldest first
  ran,       \* those of the case that have run and are still in the list
  errors,    \* whether a finalizer of the case has raised
  failures, executed,
  capturing, \* whether the file's capsys has replaced the streams
  lost,      \* whether that of an earlier file has, for good
  live,      \* history: the keys whose yield fixture waits to be resumed
  armed,     \* history: the keys whose finalizer may still raise
  escaped,   \* history: an exit has left the finalizers of a case
  log,       \* history: the labels the process has printed
  swallowed, \* history: the labels that a captured stream took
  bodies     \* history: whether a test that passed "ran" or was "unawaited"

fileVars == <<left, worst, pytest, previous, cases>>
listVars == <<values, bucket, ran, errors, live, armed>>
caseVars == <<current, wants, stack, listVars>>
counts == <<failures, executed>>
streamVars == <<capturing, lost, escaped>>
reports == <<log, swallowed, bodies>>
runnerVars == <<phase, fileVars, caseVars, counts, streamVars, reports>>

NoBuckets == [function |-> <<>>, module |-> <<>>]
F == Head(left)
Case == cases[current]
At(stage) == phase = stage
To(stage) == phase' = stage

(* What is printed goes where sys.stdout and sys.stderr lead. *)
Log(label) ==
  IF capturing \/ lost THEN swallowed' = swallowed \cup {label} /\ UNCHANGED log
  ELSE log' = log \cup {label} /\ UNCHANGED swallowed
Labels == log \cup swallowed

RunnerInit ==
  /\ At("file") /\ left \in Commands
  /\ worst = EXIT_NO_TESTS /\ pytest \in {"absent", "real"} /\ previous = pytest
  /\ cases = <<>> /\ current = 0 /\ wants = <<>> /\ stack = <<>>
  /\ values = <<>> /\ bucket = NoBuckets /\ ran = <<>> /\ errors = FALSE
  /\ failures = 0 /\ executed = 0 /\ live = {} /\ armed = {}
  /\ capturing = FALSE /\ lost = FALSE /\ escaped = FALSE
  /\ log = {} /\ swallowed = {} /\ bodies = {}

-----------------------------------------------------------------------------
(* run_file and _run_file up to the cases. *)

(* shim.install; what stood in its place is put back at the end. *)
InstallShim ==
  /\ At("file") /\ left # <<>>
  /\ previous' = pytest /\ pytest' = "shim"
  /\ To("import")
  /\ UNCHANGED <<left, worst, cases, caseVars, counts, streamVars, reports>>

(* The file, or a conftest above it, raises while it is imported. *)
CollectionError ==
  /\ At("import")
  /\ Log("COLLECTION_ERROR") /\ To("ended")
  /\ worst' = EXIT_COLLECTION_ERROR /\ pytest' = previous
  /\ UNCHANGED <<left, previous, cases, caseVars, counts, streamVars, bodies>>

(* A file starts with a state of its own; what the last one has left       *)
(* captured is never given back.                                           *)
Collect ==
  /\ At("import")
  /\ cases' = BuildCases(F) /\ current' = 1
  /\ values' = <<>> /\ bucket' = NoBuckets /\ ran' = <<>> /\ live' = {} /\ armed' = {}
  /\ failures' = 0 /\ executed' = 0
  /\ lost' = (lost \/ capturing) /\ capturing' = FALSE
  /\ To(IF BuildCases(F) = <<>> THEN "result" ELSE "case")
  /\ UNCHANGED <<left, worst, pytest, previous, wants, stack, errors, escaped, reports>>

(* A marker that cannot be read, or rows that are no tuples, raise where   *)
(* nothing catches: the process ends with the status of an exception.      *)
CollectionRaises ==
  /\ At("import")
  /\ worst' = Interrupted /\ pytest' = previous /\ To("ended")
  /\ UNCHANGED <<left, previous, cases, caseVars, counts, streamVars, reports>>

-----------------------------------------------------------------------------
(* One case: resolve what it wants, depth first, run it, finish. *)
SkipCase ==
  /\ At("case") /\ current <= Len(cases) /\ Case.mark = "skip"
  /\ Log("SKIP") /\ current' = current + 1
  /\ UNCHANGED <<phase, fileVars, wants, stack, listVars, counts, streamVars, bodies>>

StartCase ==
  /\ At("case") /\ current <= Len(cases) /\ Case.mark # "skip"
  /\ wants' = Case.wants /\ stack' = <<>> /\ errors' = FALSE
  /\ To("resolve")
  /\ UNCHANGED <<fileVars, current, values, bucket, ran, live, armed, counts, streamVars, reports>>

BucketOf(name) ==
  IF name \in Known(F) /\ Definition(F, name).scope # "function" THEN "module" ELSE "function"
Key(name) == <<BucketOf(name), name, Param(Case.overrides, name)>>

(* The name to resolve next: the first need of the fixture on top of the   *)
(* stack, or else the first the case wants.                                *)
Pending == IF stack = <<>> THEN wants ELSE Last(stack).needs
Resolved ==
  IF stack = <<>> THEN wants' = Tail(wants) /\ UNCHANGED stack
  ELSE /\ stack' = [stack EXCEPT ![Len(stack)].needs = Tail(@)]
       /\ UNCHANGED wants
Creating(name) == \E i \in DOMAIN stack : stack[i].name = name

NotCached(name) == Key(name) \notin DOMAIN values /\ ~(name = "request" /\ stack # <<>>)

(* A value in the cache, or the request object that only a fixture gets. *)
Cached ==
  /\ At("resolve") /\ Pending # <<>> /\ ~NotCached(Head(Pending))
  /\ Resolved
  /\ UNCHANGED <<phase, fileVars, current, listVars, counts, streamVars, reports>>

CreateFixture ==
  /\ At("resolve") /\ Pending # <<>>
  /\ LET name == Head(Pending)
     IN  /\ NotCached(name) /\ ~Creating(name) /\ name \in Known(F)
         /\ stack' = Append(stack, [name |-> name, needs |-> Needs(F, name)])
  /\ UNCHANGED <<phase, fileVars, current, wants, listVars, counts, streamVars, reports>>

(* _FixtureLookupError: a cycle, an unknown name, an async fixture. *)
LookupError ==
  /\ At("resolve")
  /\ \/ /\ Pending # <<>> /\ NotCached(Head(Pending))
        /\ Creating(Head(Pending)) \/ Head(Pending) \notin Known(F)
     \/ Pending = <<>> /\ stack # <<>> /\ Definition(F, Last(stack).name).form = "async"
  /\ failures' = failures + 1 /\ Log("ERROR") /\ To("finish")
  /\ UNCHANGED <<fileVars, caseVars, executed, streamVars, bodies>>

Constructing ==
  At("resolve") /\ Pending = <<>> /\ stack # <<>> /\ Definition(F, Last(stack).name).form # "async"

IsYield(key) == Definition(F, key[2]).form \in {"yield", "capture"}
Captures(key) == Definition(F, key[2]).form = "capture"
HasRequest(key) == "request" \in Range(Needs(F, key[2]))

(* The fixture's function returns or yields a value: it is kept for the    *)
(* file under its key, and a finalizer for the case or the file.  A plain  *)
(* function's finalizer has something to do only if it got a request.      *)
Construct ==
  /\ Constructing
  /\ LET key == Key(Last(stack).name)
         below == Front(stack)
         on == {Key(n) : n \in Range(Needs(F, Last(stack).name)) \ {"request"}}
     IN  /\ values' = [k \in DOMAIN values \cup {key} |->
                         IF k = key THEN [case |-> current, on |-> on] ELSE values[k]]
         /\ bucket' = [bucket EXCEPT ![key[1]] = Append(@, key)]
         /\ live' = IF IsYield(key) THEN live \cup {key} ELSE live
         /\ armed' = IF HasRequest(key) \/ (IsYield(key) /\ ~Captures(key)) THEN armed \cup {key} ELSE armed
         /\ capturing' = (capturing \/ Captures(key))
         /\ IF below = <<>> THEN stack' = below /\ wants' = Tail(wants)
            ELSE stack' = [below EXCEPT ![Len(below)].needs = Tail(@)] /\ UNCHANGED wants
  /\ UNCHANGED <<phase, fileVars, current, ran, errors, counts, lost, escaped, reports>>

(* It skips the test, or raises anything else; capsys does neither. *)
Failing == Constructing /\ Definition(F, Last(stack).name).form # "capture"

FixtureSkips ==
  /\ Failing
  /\ Log("SKIP") /\ To("finish")
  /\ UNCHANGED <<fileVars, caseVars, counts, streamVars, bodies>>

FixtureRaises ==
  /\ Failing
  /\ failures' = failures + 1 /\ executed' = executed + 1
  /\ Log("FAIL") /\ To("finish")
  /\ UNCHANGED <<fileVars, caseVars, streamVars, bodies>>

Ready == At("resolve") /\ wants = <<>> /\ stack = <<>>
Counted(label, failed, called) ==
  /\ failures' = failures + failed /\ executed' = executed + called
  /\ Log(label) /\ To("finish")
  /\ UNCHANGED <<fileVars, caseVars, streamVars>>

Xfail == Case.mark \in {"xfail", "strict"}

(* capsys.disabled() gives the streams back while the test runs. *)
Disables ==
  /\ Ready /\ capturing /\ "capsys" \in Range(Closure(F, Case.wants))
  /\ capturing' = FALSE
  /\ UNCHANGED <<phase, fileVars, caseVars, counts, lost, escaped, reports>>

(* The call of the test returns: its body has run, unless it is an async   *)
(* or a generator function, whose call only makes an object.               *)
Passes ==
  /\ Ready
  /\ \/ ~Xfail /\ Counted("PASS", 0, 1)
     \/ Case.mark = "xfail" /\ Counted("XPASS", 0, 1)
     \/ Case.mark = "strict" /\ Counted("FAIL", 1, 1)
  /\ bodies' = bodies \cup {IF Case.deferred THEN "unawaited" ELSE "ran"}

(* Any Exception, a skip included, is what an xfail expects. *)
Skips ==
  /\ Ready /\ IF Xfail THEN Counted("XFAIL", 0, 0) ELSE Counted("SKIP", 0, 0)
  /\ UNCHANGED bodies

Raises ==
  /\ Ready /\ IF Xfail THEN Counted("XFAIL", 0, 0) ELSE Counted("FAIL", 1, 1)
  /\ UNCHANGED bodies

(* SystemExit or KeyboardInterrupt out of the body. *)
Exits == Ready /\ Counted("FAIL", 1, 1) /\ UNCHANGED bodies

-----------------------------------------------------------------------------
(* finish_function: the finalizers of the case, newest first; an Exception *)
(* does not keep the others from running, and the list is cleared when all *)
(* have run.  finish_module does the same with those of the file.          *)
Finalizing(b) == phase = (IF b = "function" THEN "finish" ELSE "module") /\ bucket[b] # <<>>
Newest(b) == Last(bucket[b])

(* What a fixture registered with its request runs first: if that raises,  *)
(* its generator is not resumed.                                           *)
Resumed(b) == live' = live \ {Newest(b)}
NotResumed(b) == HasRequest(Newest(b)) /\ UNCHANGED live
Ran(b) ==
  /\ bucket' = [bucket EXCEPT ![b] = Front(@)]
  /\ ran' = IF b = "function" THEN <<Newest(b)>> \o ran ELSE ran

Finalize(b) ==
  /\ Finalizing(b) /\ Ran(b) /\ Resumed(b)
  /\ armed' = armed \ {Newest(b)}
  /\ capturing' = (capturing /\ ~Captures(Newest(b)))
  /\ UNCHANGED <<phase, fileVars, current, wants, stack, values, errors, counts, lost, escaped,
                 reports>>

(* Mutant of FinalizerRaises: the finalizers after the one that raises are *)
(* dropped.                                                                *)
FinalizerStops(b) ==
  /\ Finalizing(b) /\ Newest(b) \in armed
  /\ bucket' = [bucket EXCEPT ![b] = <<>>] /\ UNCHANGED ran
  /\ Resumed(b) /\ errors' = (errors \/ b = "function")
  /\ UNCHANGED <<phase, fileVars, current, wants, stack, values, armed, counts, streamVars, reports>>

(* In the module bucket the traceback is printed and nothing counts. *)
FinalizerRaises(b) ==
  /\ Finalizing(b) /\ Newest(b) \in armed /\ Ran(b)
  /\ Resumed(b) \/ NotResumed(b)
  /\ errors' = (errors \/ b = "function")
  /\ UNCHANGED <<phase, fileVars, current, wants, stack, values, armed, counts, streamVars, reports>>

(* finish_function is over: its first error fails the case once more. *)
CaseDone ==
  /\ At("finish") /\ bucket.function = <<>>
  /\ IF errors THEN failures' = failures + 1 /\ Log("TEARDOWN")
     ELSE UNCHANGED <<failures, log, swallowed>>
  /\ current' = current + 1 /\ errors' = FALSE /\ ran' = <<>> /\ To("case")
  /\ UNCHANGED <<fileVars, wants, stack, values, bucket, live, armed, executed, streamVars, bodies>>

(* SystemExit or KeyboardInterrupt out of a finalizer of the case: the     *)
(* list is not cleared, so all of it, what has run included, runs after    *)
(* the next case.                                                          *)
FinalizerExits ==
  /\ Finalizing("function") /\ Newest("function") \in armed
  /\ Resumed("function") \/ NotResumed("function")
  /\ bucket' = [bucket EXCEPT !.function = @ \o ran] /\ ran' = <<>>
  /\ failures' = failures + 1 /\ Log("TEARDOWN") /\ escaped' = TRUE
  /\ current' = current + 1 /\ errors' = FALSE /\ To("case")
  /\ UNCHANGED <<fileVars, wants, stack, values, armed, executed, capturing, lost, bodies>>

(* Out of a finalizer of the module it ends the process, whatever had      *)
(* failed; the stand-in for pytest is taken away first.                    *)
ModuleExits ==
  /\ Finalizing("module") /\ Newest("module") \in armed
  /\ worst' = Interrupted /\ pytest' = previous /\ To("ended")
  /\ UNCHANGED <<left, previous, cases, caseVars, counts, streamVars, reports>>

CasesDone ==
  /\ At("case") /\ current > Len(cases)
  /\ To("module")
  /\ UNCHANGED <<fileVars, caseVars, counts, streamVars, reports>>

ModuleDone ==
  /\ At("module") /\ bucket.module = <<>>
  /\ To("result")
  /\ UNCHANGED <<fileVars, caseVars, counts, streamVars, reports>>

(* Mutant of CodeOf: nothing failed, so all is well. *)
CodeUnlessFailed == IF failures > 0 THEN EXIT_FAILED ELSE EXIT_OK

CodeOf ==
  IF failures > 0 THEN EXIT_FAILED
  ELSE IF executed = 0 THEN EXIT_NO_TESTS ELSE EXIT_OK

(* run_file returns: pytest is what it was; main keeps the worst code.     *)
Result ==
  /\ At("result")
  /\ pytest' = previous
  /\ worst' = IF CodeOf = EXIT_FAILED THEN EXIT_FAILED
              ELSE IF CodeOf = EXIT_OK /\ worst # EXIT_FAILED THEN EXIT_OK ELSE worst
  /\ left' = Tail(left) /\ To(IF Tail(left) = <<>> THEN "ended" ELSE "file")
  /\ UNCHANGED <<previous, cases, caseVars, counts, streamVars, reports>>

RunnerNext ==
  \/ InstallShim \/ CollectionError \/ Collect \/ CollectionRaises \/ SkipCase \/ StartCase
  \/ Cached \/ CreateFixture \/ LookupError \/ Construct \/ FixtureSkips \/ FixtureRaises
  \/ Disables \/ Passes \/ Skips \/ Raises \/ Exits
  \/ \E b \in {"function", "module"} : Finalize(b) \/ FinalizerRaises(b)
  \/ CaseDone \/ FinalizerExits \/ ModuleExits \/ CasesDone \/ ModuleDone \/ Result
RunnerSpec == RunnerInit /\ [][RunnerNext]_runnerVars

-----------------------------------------------------------------------------
(* The code of a run over any files agrees with what the runner has        *)
(* reported: 0 only if a test was called and returned and nothing failed   *)
(* (not that it has run, as _minirunner.py has it: all that passed may be  *)
(* coroutines or generators that were made and dropped, "unawaited"),      *)
(* 5 only if everything was skipped or failed as expected, 1 only with a   *)
(* failure to show; whatever raises between import and teardown of a case  *)
(* is in it.  A case that holds capsys reports into its buffer, which is   *)
(* thrown away, but a collection error or a teardown that failed is never  *)
(* lost that way, unless an exit has left the finalizers of a case.        *)
ExitIsReported ==
  /\ phase = "ended" /\ worst # Interrupted =>
       LET bad == Labels \cap {"FAIL", "ERROR", "TEARDOWN"}
           good == Labels \cap {"PASS", "XPASS"}
       IN  CASE worst = EXIT_OK -> bad = {} /\ good # {} /\ bodies # {} /\ "COLLECTION_ERROR" \notin Labels
             [] worst = EXIT_FAILED -> bad # {}
             [] worst = EXIT_NO_TESTS -> Labels \subseteq {"SKIP", "XFAIL"}
             [] OTHER -> "COLLECTION_ERROR" \in Labels
  /\ swallowed \cap {"COLLECTION_ERROR", "TEARDOWN"} # {} => escaped

(* Whatever raises in between, every yield fixture is resumed by the time  *)
(* the file's result is known, save what an exit out of a finalizer left   *)
(* in the list and a generator whose request's finalizers raised; none     *)
(* while a younger one of its list that is built on it still waits; and    *)
(* the streams are the process's own again when a case is over, unless     *)
(* such an exit has kept capsys from its turn.                             *)
TornDown ==
  /\ phase = "result" =>
       \A key \in live : HasRequest(key) \/ (escaped /\ key \in Range(bucket.function))
  /\ phase \in {"finish", "module"} =>
       \A b \in DOMAIN bucket : \A key \in live \cap Range(bucket[b]) : \A below \in values[key].on :
         /\ IsYield(below) /\ below[1] = b
         /\ b = "module" \/ values[below].case = values[key].case
         /\ ~(escaped /\ HasRequest(key))
         => below \in live
  /\ (capturing /\ phase \notin {"resolve", "finish"}) \/ lost => escaped

(* "resolves fixtures recursively - cycle detection, function/module       *)
(* scopes, yield teardown" (_minirunner.py): a case whose fixtures are     *)
(* resolved has its own instance of every function-scoped one, not one     *)
(* that an earlier case used and tore down.  The code breaks it.           *)
FunctionScope ==
  Ready => \A name \in Range(Case.wants) :
             BucketOf(name) = "function" => values[Key(name)].case = current
=============================================================================
