-------------------------------- MODULE Guards --------------------------------
(***************************************************************************)
(* What _run_guarded_phase does around one execution: _readiness_block     *)
(* holds the manifests of a checkout against the distributions installed   *)
(* for it (readiness.py), the test runs, and _output_guard_block scans     *)
(* what it left (outputguard.py).  Either policy observes or enforces.     *)
(* Verify's RefuseReadiness and RefuseOutput are this module's refusals.   *)
(*                                                                         *)
(* A file is absent, unusable (a link, a fifo, changed while it was read,  *)
(* too large, not UTF-8, outside the requirement syntax) or read.  Clauses *)
(* the enforced subset leaves out (markers, extras, URLs, "~=", "===",     *)
(* wildcards, pre-releases) are a requirement that is not plain.           *)
(***************************************************************************)
EXTENDS Receipt, Integers, Sequences
LOCAL INSTANCE FiniteSetsExt

CONSTANTS
  Dists,           \* normalized names of distributions
  Versions,        \* releases: nonempty sequences of numbers
  ManifestFiles,   \* what a requirements file or the lock may be
  Executions,      \* what a test's process may do, see IsTestRun
  Outputs,         \* the trees a test may leave
  MaxEntries, MaxFiles, MaxBytes  \* limits of the scan

(* The left side of a clause in the parts of a specifier. *)
Operators == {"==", "!=", ">=", "<=", ">", "<"}
Clauses == [op : Operators, want : Versions]
Absent == [state |-> "absent", reqs |-> << >>]
Unusable == [state |-> "unusable", reqs |-> << >>]
Read(reqs) == [state |-> "read", reqs |-> reqs]
Requirements == [name : Dists, spec : Seq(Clauses), plain : BOOLEAN]
Requirement(d, spec) == [name |-> d, spec |-> spec, plain |-> TRUE]

NotInstalled == << >>

(* The first and the last of the lines that a reader looks for. *)
First(lines) == CHOOSE i \in lines : \A j \in lines : i <= j
Latest(lines) == CHOOSE i \in lines : \A j \in lines : j <= i

(* How a process ends, under pytest or the mini-runner; its junit report:   *)
(* no usable one, or its test cases in order; the lines of its output, by   *)
(* what _failure_kind_from_output makes of them: tagged ones ("FAIL ..." or *)
(* "E ..."), exceptions of a traceback, a mention of AssertionError.        *)
Exits == {"zero", "one", "five", "other", "timeout"}
Cases == {"passed", "skipped", "error", "assertion", "crash"}
Lines == {"tagged_assertion", "tagged_error", "assertion", "error", "mention", "other"}
IsTestRun(run) ==
  /\ run.exit \in Exits /\ run.pytest \in BOOLEAN
  /\ run.report.usable \in BOOLEAN /\ run.report.cases \in Seq(Cases)
  /\ run.lines \in Seq(Lines)

ASSUME ManifestsAssumption ==
  /\ \A run \in Executions : IsTestRun(run)
  /\ Versions \subseteq Seq(Nat) \ {NotInstalled}
  /\ \A f \in ManifestFiles : f \in {Absent, Unusable} \/ (f.state = "read" /\ f.reqs \in Seq(Requirements))

VARIABLES
  tree,       \* the checkout's manifests
  inventory,  \* the environment's resolved_versions
  execution,  \* what the process of the test does
  gpc,        \* where the guarded phase is
  readiness,  \* what the record says of readiness, and under which policy
  result,     \* the RunResult: outcome and failure kind
  left,       \* what the test left behind
  guard       \* what the record says of it

guardVars == <<tree, inventory, execution, gpc, readiness, result, left, guard>>

NoResult == [outcome |-> "none", kind |-> "none"]
Unseen == [mode |-> "none", block |-> "none"]

(* A tree an invocation may meet: only the first requirements file counts, *)
(* and the project's own manifest only when there is none.                 *)
Manifests ==
  [requirements : ManifestFiles, dev : {Absent}, lock : ManifestFiles, pyproject : {"silent"}]
    \cup [requirements : {Absent}, dev : ManifestFiles, lock : {Absent},
          pyproject : {"absent", "silent", "declares", "broken"}]

(* Lines that are no pins of releases, or pin one name twice, make an odd one. *)
Inventories == [odd : {FALSE}, at : [Dists -> Versions \cup {NotInstalled}]]
                 \cup [odd : {TRUE}, at : [Dists -> {NotInstalled}]]

GuardInit ==
  /\ tree \in Manifests /\ inventory \in Inventories /\ execution \in Executions
  /\ gpc = "readiness" /\ readiness = Unseen
  /\ result = NoResult /\ left = {} /\ guard = Unseen

-----------------------------------------------------------------------------
(* readiness.py *)

Part(v, i) == IF i <= Len(v) THEN v[i] ELSE 0
Wider(v, w) == IF Len(v) < Len(w) THEN Len(w) ELSE Len(v)

(* _pad, and the order of tuples. *)
Pad(v, width) == [i \in 1..width |-> Part(v, i)]
TupleLess(v, w) ==
  \E i \in DOMAIN w : /\ \A j \in 1..i - 1 : j \in DOMAIN v /\ v[j] = w[j]
                      /\ i \in DOMAIN v => v[i] < w[i]

Compare(op, left_, right_) ==
  CASE op = "==" -> left_ = right_
    [] op = "!=" -> left_ # right_
    [] op = ">=" -> ~TupleLess(left_, right_)
    [] op = "<=" -> ~TupleLess(right_, left_)
    [] op = ">"  -> TupleLess(right_, left_)
    [] op = "<"  -> TupleLess(left_, right_)

(* Mutant of SpecifierSatisfied: releases are compared as they are written. *)
SpecifierUnpadded(spec, have) ==
  \A i \in DOMAIN spec : Compare(spec[i].op, have, spec[i].want)

SpecifierSatisfied(spec, have) ==
  \A i \in DOMAIN spec :
    LET width == Wider(have, spec[i].want)
    IN Compare(spec[i].op, Pad(have, width), Pad(spec[i].want, width))

(* check_lock_drift: the last line for a name is its lock; a pin must lie   *)
(* in the declared range, and a lock without one must repeat it.           *)
LockLines(d) == {i \in DOMAIN tree.lock.reqs : tree.lock.reqs[i].name = d}
Lock(d) == tree.lock.reqs[Latest(LockLines(d))]
Pins(spec) == {i \in DOMAIN spec : spec[i].op = "=="}
Pin(spec) == spec[First(Pins(spec))].want

Drifts(req) ==
  \/ LockLines(req.name) = {}
  \/ LET spec == Lock(req.name).spec
     IN IF Pins(spec) # {} THEN ~SpecifierSatisfied(req.spec, Pin(spec))
        ELSE spec = << >> \/ (req.spec # << >> /\ req.spec # spec)

(* Mutant of EvaluateReadiness: a lock that agrees stands for what is       *)
(* installed.                                                               *)
LockStandsIn(reqs) ==
  \A i \in DOMAIN reqs :
    LET have == inventory.at[reqs[i].name]
    IN IF tree.lock # Absent THEN ~Drifts(reqs[i])
       ELSE have # NotInstalled /\ SpecifierSatisfied(reqs[i].spec, have)

EvaluateReadiness(reqs) ==
  \A i \in DOMAIN reqs :
    /\ inventory.at[reqs[i].name] # NotInstalled
    /\ SpecifierSatisfied(reqs[i].spec, inventory.at[reqs[i].name])
    /\ tree.lock # Absent => ~Drifts(reqs[i])

-----------------------------------------------------------------------------
(* _readiness_block *)
Source == IF tree.requirements # Absent THEN tree.requirements ELSE tree.dev

(* The enforced subset of requirements and locks. *)
Plain(file) == file # Unusable /\ \A i \in DOMAIN file.reqs : file.reqs[i].plain

(* An error is a finding of its own, never a pass. *)
ReadinessBlock ==
  CASE Source = Absent /\ tree.pyproject \in {"absent", "silent"} -> "no_manifest"
    [] Source = Absent /\ tree.pyproject \in {"declares", "broken"} -> "unsupported"
    [] Source # Absent /\ ~(Plain(Source) /\ Plain(tree.lock) /\ ~inventory.odd) -> "error"
    [] OTHER -> IF EvaluateReadiness(Source.reqs) THEN "ok" ELSE "not_ready"

CheckReadiness ==
  /\ gpc = "readiness"
  /\ \E mode \in {"observe", "required"} :
       /\ readiness' = [mode |-> mode, block |-> ReadinessBlock]
       /\ gpc' = IF mode = "required" /\ ReadinessBlock \notin {"ok", "no_manifest"}
                   THEN "refused" ELSE "run"
  /\ UNCHANGED <<tree, inventory, execution, result, left, guard>>

-----------------------------------------------------------------------------
(* run_test's reading of the process. *)

(* _passed_from_junit: 0 for "unknown", which its caller treats alike. *)
PassedFromJunit(report) ==
  IF report.usable THEN Cardinality({i \in DOMAIN report.cases : report.cases[i] = "passed"}) ELSE 0

(* Mutant of FailureKindFromJunit: an assertion anywhere in the report. *)
FailureKindAnywhere(report) ==
  LET cases == {report.cases[i] : i \in DOMAIN report.cases}
  IN CASE ~report.usable -> "unknown"
       [] report.usable /\ cases \subseteq {"passed", "skipped"} -> "none"
       [] OTHER -> IF "assertion" \in cases THEN "assertion" ELSE "error"

(* The case that failed first decides. *)
FailureKindFromJunit(report) ==
  LET failing == {i \in DOMAIN report.cases : report.cases[i] \notin {"passed", "skipped"}}
  IN CASE ~report.usable -> "unknown"
       [] report.usable /\ failing = {} -> "none"
       [] OTHER -> IF report.cases[First(failing)] = "assertion" THEN "assertion" ELSE "error"

(* The first tagged line decides, else the last exception of a traceback,   *)
(* else any mention of AssertionError.                                      *)
FailureKindFromOutput(lines) ==
  LET tagged == {i \in DOMAIN lines : lines[i] \in {"tagged_assertion", "tagged_error"}}
      raised == {i \in DOMAIN lines : lines[i] \in {"assertion", "error"}}
  IN CASE lines = << >> -> "unknown"
       [] tagged # {} -> IF lines[First(tagged)] = "tagged_error" THEN "error" ELSE "assertion"
       [] tagged = {} /\ raised # {} -> lines[Latest(raised)]
       [] OTHER -> IF "mention" \in {lines[i] : i \in DOMAIN lines} THEN "assertion" ELSE "error"

FailureKind(run) ==
  IF run.pytest THEN FailureKindFromJunit(run.report) ELSE FailureKindFromOutput(run.lines)

(* Exit code 0 is no evidence that a test passed. *)
ResultOf(run) ==
  CASE run.exit = "timeout" -> [outcome |-> "TIMEOUT", kind |-> "unknown"]
    [] run.exit = "zero" ->
         [outcome |-> IF run.pytest /\ PassedFromJunit(run.report) = 0 THEN "NOTRUN" ELSE "PASS",
          kind |-> "none"]
    [] run.exit = "one" -> [outcome |-> "FAIL", kind |-> FailureKind(run)]
    [] run.exit = "five" -> [outcome |-> "NOTRUN", kind |-> "none"]
    [] run.exit = "other" -> [outcome |-> "ERROR", kind |-> "error"]

RunTest ==
  /\ gpc = "run"
  /\ result' = ResultOf(execution)
  /\ left' \in Outputs
  /\ gpc' = "output"
  /\ UNCHANGED <<tree, inventory, execution, readiness, guard>>

-----------------------------------------------------------------------------
(* scan_output_tree: an entry is [path, normal, kind, links, size], where   *)
(* normal is its path in normal form C and kind dir, file, special (a link, *)
(* fifo, socket, device or unknown type) or faulty (one whose listing, stat *)
(* or resolution fails, or that resolves outside the tree).                 *)
Files == {e \in left : e.kind = "file"}
Rejected(e) ==
  \/ e.kind \in {"special", "faulty"}
  \/ e.kind = "file" /\ e.links # 1
  \/ \E d \in left : /\ {d.kind, e.kind} \subseteq {"dir", "file"}
                     /\ d.path # e.path /\ d.normal = e.normal

ScanOk ==
  /\ \A e \in left : ~Rejected(e)
  /\ Cardinality(left) <= MaxEntries /\ Cardinality(Files) <= MaxFiles
  /\ MapThenSumSet(LAMBDA e : e.size, Files) <= MaxBytes

CheckOutput ==
  /\ gpc = "output"
  /\ \E mode \in {"observe", "required"} :
       /\ guard' = [mode |-> mode, block |-> IF ScanOk THEN "ok" ELSE "violated"]
       /\ gpc' = IF mode = "required" /\ ~ScanOk THEN "refused" ELSE "done"
  /\ UNCHANGED <<tree, inventory, execution, readiness, result, left>>

GuardNext == CheckReadiness \/ RunTest \/ CheckOutput
GuardSpec == GuardInit /\ [][GuardNext]_guardVars

-----------------------------------------------------------------------------
(* Releases as numbers: the parts are digits, those not written are 0, and *)
(* the first digit in which two releases differ decides.                   *)
Differ(v, w) == {i \in 1..Wider(v, w) : Part(v, i) # Part(w, i)}
Below(v, w) ==
  \E i \in Differ(v, w) : (\A j \in Differ(v, w) : i <= j) /\ Part(v, i) < Part(w, i)
Within(have, spec) ==
  \A i \in DOMAIN spec :
    LET want == spec[i].want
        same == Differ(have, want) = {}
    IN CASE spec[i].op = "==" -> same
         [] spec[i].op = "!=" -> ~same
         [] spec[i].op = ">=" -> same \/ Below(want, have)
         [] spec[i].op = "<=" -> same \/ Below(have, want)
         [] spec[i].op = ">"  -> Below(want, have)
         [] spec[i].op = "<"  -> Below(have, want)

(* An enforced gate means what it says.  A test that ran under it found     *)
(* every requirement of the manifest installed in a release the specifiers  *)
(* allow as numbers, with a pin of the lock among them; a policy that only  *)
(* observes never stops a phase, and where nothing contradicts (plain       *)
(* files, everything installed and allowed, no lock) no gate refuses.  And  *)
(* the result is one that Verify reckons with: a PASS under pytest is a     *)
(* test that passed, an assertion one that no crash came before.            *)
RecordMeansWhatItSays ==
  LET reqs == Source.reqs
      installed == \A i \in DOMAIN reqs :
        /\ inventory.at[reqs[i].name] # NotInstalled
        /\ Within(inventory.at[reqs[i].name], reqs[i].spec)
      pinned == \A i \in DOMAIN reqs :
        LockLines(reqs[i].name) # {} /\
          LET lock == Lock(reqs[i].name).spec
          IN Pins(lock) # {} => Within(Pin(lock), reqs[i].spec)
      ran == gpc \in {"run", "output", "done"}
  IN /\ readiness.mode = "required" /\ ran =>
          installed /\ (Source # Absent /\ tree.lock # Absent => pinned)
     /\ gpc = "refused" => "required" \in {readiness.mode, guard.mode}
     /\ gpc = "refused" /\ guard = Unseen =>
          ~(Source # Absent /\ Plain(Source) /\ ~inventory.odd /\ installed /\ tree.lock = Absent)
     /\ result # NoResult =>
          \E run \in RunResults : run.outcome = result.outcome /\ run.kind = result.kind
     /\ result.outcome = "PASS" /\ execution.pytest =>
          \E i \in DOMAIN execution.report.cases : execution.report.cases[i] = "passed"
     /\ result.kind = "assertion" /\ execution.pytest =>
          \E i \in DOMAIN execution.report.cases :
            /\ execution.report.cases[i] = "assertion"
            /\ \A j \in 1..i - 1 : execution.report.cases[j] \notin {"crash", "error"}
=============================================================================
