# A verification development of jittest

jittest decides, from executions and never from a model's opinion, whether a test
proves a regression between two revisions of a Python repository, and signs what
it decided. What is modelled here is the machinery that makes such a decision
trustworthy: the paired verification and its gates, the receipt and its
consumers, the sandbox, the environments and runners that tests execute in, the
client and router that pay for model answers, the caches, keys, clones and
ledgers that threads, processes and restarts share, and the programs that measure
jittest and publish what they find.

Each module is translated from the sources; `PROJECT.json` maps every definition
to its lines.

## 1. The system

| Part | State it keeps | Operations | Talks to |
| --- | --- | --- | --- |
| paired verification, `verify.py` | phases, outcomes of BASE and HEAD, verdict, evidence, attempt census | `verify_test`, pass-to-pass guard, refusals | sandbox plan, provisioning, `run_test`, receipt, census |
| gates of a phase, `readiness.py`, `outputguard.py`, `execution_paths.py` | none that outlives a phase | `_readiness_block`, `run_test`'s reading of a process, `scan_output_tree` | verify |
| receipt, `receipt.py`, `integrity.py`, `_ed25519.py` | signing key file, receipt files | sign, validate schema and semantics, match signer and provenance | verify, Action, CLI, sweep, cohort |
| sandbox, `sandbox.py`, `registry.py` | the plan | `plan`, `wrap`, `load_runtime_image` | docker, podman, bubblewrap |
| environments, `env.py`, `provision.py`, `discovery.py` | venv cache shared by processes | `provision_environment` | bounded runner, pip and uv |
| bounded runner, `proc.py` | semaphore of live commands, capture threads, one reaper process per command | `run_bounded`, `kill_process_tree` | every subprocess of the program |
| fallback runner, `_minirunner*.py`, `_fixtureengine.py`, `_pytestshim*.py` | registry of the shim, fixture values, finalizers, counters | `main`, fixture resolution and teardown | `run_test` |
| response cache, `_llmcache.py`, `_sqlite.py` | SQLite rows, a flight per key with its lock and users | `get`, `put`, `singleflight` | model client |
| model client, `llm.py`, `_llmbase.py`, `_billing.py` | usage, budget, dispatch ledger | `complete`, `_post`, `summarize_dispatch_ledger` | cache, HTTP providers |
| Melious router, `melious.py` | a semaphore per model, the HTTP client | `complete`, `close` | HTTP provider |
| attempt census, `results.py` | journal file, running digest, snapshot file | `event`, `select`, `start_candidate`, `finish_candidate`, `finish` | verify, Action, release check |
| GitHub Action, `action.py` | changed tests, results, exit code, its own census | `run_action` | verify, census, receipts, GitHub |
| generation pipeline, `pipeline.py` | report, ledger connection | `run` | model client, oracle, assessor, outcome ledger |
| oracle of generated tests, `execute.py` | two checkouts per run | `Worktree`, `reset_workdir`, `differential_check`, `run_test` | git, bounded runner, sandbox |
| outcome ledger, `ledger.py` | SQLite table of candidates | `record`, `mark_outcome(_by_hash)`, `stats` | pipeline, CLI |
| layer-1 sweep, `scripts/run_layer1_sweep.py` | clones, results in memory, receipts, summary | thread pool over a manifest | verify, provisioning, keys, consumer |
| benchmark drivers, `eval/run_bugsinpy.py`, `false_positives.py`, `fp_ladder.py` | clones kept between runs, rows, summaries | one pipeline run per bug, pair or rung | pipeline, git |
| gauntlet, `scripts/run_instance.py` | a clone that all arms of a repository share | one arm per invocation | git, verify |
| default cohort, `prepare_default_cohort_runtime.py`, `run_default_cohort.py`, `default-cohort.yml` | images, containers, proof, census, inventories | prepare, replay, diagnose, reconcile | docker, CLI, consumer |
| analysis, `diff.py`, `risk.py`, `oracles.py`, `safety.py` | none | pure functions of source text | pipeline, CLI |
| configuration, rendering, GitHub client, redaction, probes, release scripts | none that outlives a call | | CLI, Action |

The hard behaviours, each with its line in `PROJECT.json` under `hazards`:

* **failure between two writes**: journal, memory and snapshot of a census; the
  evidence and its census; the ledger row and the report; the proof of a runtime
  and the removal of what it vouches for;
* **exceptions as control flow**: a typed refusal, an environment error and any
  other exception end the same code at different places, and the handler of one
  may raise again;
* **signals and death**: SIGINT anywhere, SIGTERM in every state of a reaper, a
  kill while a venv, a clone or a row is half done, a restart of the machine
  under a sweep, a deadline that expires while the command exits;
* **sharing without a lock**: venvs between processes, a signing key between its
  first users, checkouts between the candidates of a run, a clone between arms;
* **threads**: acquisition between looking up and creating a flight or a slot, a
  budget checked before a wait and spent after it, permits given back on every
  path, retries and failovers under one deadline;
* **executions that do not repeat**: reruns that disagree, controls that fail for
  another reason than the change, litter of an earlier candidate;
* **downgrades**: a requested sandbox mode against an untrusted context and a host
  that answers differently the second time, a policy that errs.

What makes each part correct: a catch is signed only if it was executed,
reproduced and controlled; what is signed is what the consumer accepts; nothing
untrusted runs on the host; a gate that enforces means what it says; a finished
environment is complete and nobody else's; no more commands live than there are
permits, and a returned result means that the command is gone; one thread computes
a missing answer, and what was paid is reported; an accepted census is true; a
green build, a published row and a passing lane are backed by evidence on disk;
what a benchmark compares is what it says it compares.

## 2. Modules

| Module | Models | Composition |
| --- | --- | --- |
| `Receipt` | outcomes, grades of an execution, verdicts, exit codes; the consumer's schema and semantic rules | used by `Verify`, `Guards`, `PairedOracle` |
| `PairedOracle` | the abstract promise: both sides are tried, then one ruling is given and never taken back | abstract specification of `Verify` |
| `Sandbox` | hosts, pins, `plan`, `wrap`: what a command can reach | used by `Verify` and `ActionGate` |
| `Verify` | one invocation of `verify_test`, and the command that wraps it | EXTENDS `Receipt`, INSTANCE of `Sandbox`; `Refines` is `PairedOracle` under a mapping |
| `Guards` | one guarded phase of it from inside: readiness, the test's process, the output scan | EXTENDS `Receipt`; its refusals are steps of `Verify` |
| `Census` | `AttemptCensus`: every step of `event()` and of its callers | extended by `ActionGate` |
| `ActionGate` | `run_action` driving a census | EXTENDS `Census`, INSTANCE of `Sandbox` |
| `RunBounded` | callers of `run_bounded`, their reapers, commands and processes | |
| `Router` | threads in `MeliousRouter.complete` | |
| `Singleflight` | threads in `HTTPLLM.complete` on backends sharing a cache file | |
| `Dispatch` | clients in `HTTPLLM.complete` that share a dispatch ledger, and the ledger's validator | the calls of `Singleflight`, seen from the wire |
| `Billing` | the summary of that ledger beside the clients' totals | EXTENDS `Dispatch` |
| `Environment` | processes in `provision_environment` over one venv cache | abstract side of `Sweep` |
| `Keys` | first users of a signing key file | |
| `Consumer` | `verify_receipt` with a consumer's expectations, `verify-receipt`'s exit code | used by `Sweep`, `Cohort` |
| `Sweep` | the layer-1 sweep | EXTENDS `Environment`, `Keys`, `Consumer`; shown to implement `EnvSafety` |
| `Cohort` | the lane of the default cohort | EXTENDS `Consumer` |
| `Oracle` | `differential_check` on shared checkouts | abstract side of `Pipeline` and `Benchmark` |
| `Pipeline` | `run` | EXTENDS `Oracle` |
| `Benchmark` | the benchmark drivers | EXTENDS `Pipeline`; shown to implement `OracleSpec` |
| `Gauntlet` | `run_instance` in a shared clone | |
| `Minirunner` | a process of the fallback runner | |
| `*Proofs` | theorems about the module of that name, about `Guards` in `VerifyProofs`, `Census` and `Sandbox` in `ActionGateProofs`, `Router` in `RunBoundedProofs`, `Keys`, `Consumer` and `Cohort` in `SweepProofs`, `Oracle`, `Pipeline` and `Gauntlet` in `BenchmarkProofs`; `ClientProofs` is about `Singleflight`, `Dispatch` and `Billing` | |
| `MC*` | the instances the configurations run | |

Some runs cover two machines that share nothing: an `MC` module then has a variable
(`system`, `view`, `inside`) that is drawn at the start and never changes, and every
action of either machine leaves the other alone. No behaviour mixes them, so each
is explored exactly as it would be by itself.

### Verify, Guards, PairedOracle, Receipt

`pc` names the place in `_verify_test`: planning, the BASE run, the HEAD run, its
reruns, the pass-to-pass guard (an unmodified test common to both revisions, on
BASE then HEAD, then a probe of a known regression), ruling, sealing, signing,
writing, and the places an exception leads to. An execution is a record of an
outcome, a failure kind and the class of text the ladder looks for; `RunResults`
has those `run_test` can produce and nothing else. `phases` is the list of guarded
executions that the receipt carries; `census` the attempt census as last
published, one step for each rewrite (its inside is module `Census`).
`Rule` is the verdict ladder, rung by rung. Refusals, `EnvSetupError`, any other
exception, SIGINT and SIGKILL may come wherever the code lets them.
`CommandStatuses` are the exit statuses `jittest verify` may give each ending.

`Guards` opens one phase. A manifest is absent, unusable or a list of
requirements; a release is a sequence of numbers; `ReadinessBlock` is the gate's
answer; `ResultOf` reads exit code, JUnit report and output lines as `run_test`
does; `ScanOk` is the output guard, with its limits on entries, files and bytes and the
faults of the walk. `RecordMeansWhatItSays` compares releases with a
reference order (`Below`: the first digit that differs decides, and digits not written
are 0) that knows nothing of padding.

`Receipt` has the consumer's side: `ValidSchema`, `ValidSemantics`, and
`Accepted`. `ConsumerAgrees` says that every receipt the producer signs without
one of the two known gaps is accepted by those rules, and accepted for what it says.

`PairedOracle` knows two trials and a ruling: a ruling is only given when each
side was tried (run, or `broken` by an environment error) and it must be `Justified`
by the trials and the controls. `Verify` implements it: `Refines` maps the runs to trials.

Left out: environment errors other than in provisioning; the refusal that
`contained_execution_path` may raise inside a rerun; output texts beyond their
class; the parsing of requirement lines (what the enforced subset refuses is a
requirement that is not `plain`); a tree that changes while it is scanned.

### Sandbox, Census, ActionGate

`Sandbox` is constant-level: what a host may answer to the probes (`Hosts`), which image a
pin makes of it, the plan, and what `wrap` lets a command reach. `plan` asks
again at every call, so the early refusal of the Action and the plan of
`verify_test` may meet different hosts.

`Census` has a state for every place in `event()`: the line is appended and
forced to disk (`WriteLine`, or `WriteFails`), hashed and counted (`Count`, or
`CutShort` when fsync or SIGINT intervenes), and the snapshot replaced (`Publish`, or
`PublishFails`). A digest is represented by the sequence of lines it covers, so that
"the digest is right" is equality of sequences. `ActionGate` is `run_action`: every
other step of it calls an operator of `Census`, waits until the event is done or
raised, and goes on; its exception handler logs and finishes the census again and
may fail itself. `verify_test` is one step with the answers that module `Verify`
allows in the given mode. `Leftovers` puts receipts of an earlier invocation into
the output directory. `Accepted` is the consumer's check of an exported census,
`scripts/check_distributable.py`.
Left out: what a verification that was interrupted had executed until then
(module `Verify` records it); the handler of `SandboxUnavailable`, which is dead code
since `verify_test` turns it into a refusal; the comment and the job summary; the
argument lists and resource ceilings of the engines.

### RunBounded, Router

Each caller asks for a permit (with a queue timeout), spawns its command under a
Linux reaper, starts its capture thread, waits for exit or deadline, terminates,
joins the capture and gives the permit back. The command may fork, in its session
or outside it, and ends when it likes or never. The reaper, a small program of
its own in `_REAPER_SOURCE`, arms its parent-death signal, spawns the workload,
waits, and sweeps what is left; SIGTERM may reach it at any point and jittest
itself may die. Left out: Windows job objects, the unsupervised POSIX path, byte
limits of the captures; a workload that kills its own reaper or leaves a process the reaper may not
kill (setuid); SIGKILL takes effect at once, and one stream stands for
stdout and stderr.

A call of the router waits for a slot of the model it names, then tries the legs of
the model's failover chain, with retries, cooldowns and escalations of a truncated
answer, all under one deadline; the semaphore lives in a weak dictionary
as long as some call refers to it. Time passes in ticks for all calls alike. Left
out: addresses and arguments, amounts, sleeps shorter than a tick.

### Singleflight, Dispatch, Billing

Threads call `complete` on one of several backends that share a cache file. A
call takes its backend's dispatch lock, passes the budget guard, joins or creates
the flight of its key, waits for the flight's lock, looks in the cache, and on a
miss makes up to `Copies` requests of which each may fail, stores the answer and
leaves. A flight counts its users and disappears with the last one. Rows the
cache holds at the start may be good or malformed. Left out: several processes on
one file, asynchronous interrupts inside lock operations, prices (responses are
counted, which is what the guard of unpriced models does).

`Dispatch` is the other half of `complete`: what is sent, how often, and what is
written down about it. `ledger` is the caller's list of events; an event is
appended before its request (`Post`) and its fields are written when the attempt
ends: `Accept`, `Malformed` (billed, then refused for its content or its usage),
`Undecodable`, `Lose` (timeouts and dropped connections, before the headers or in
the body), `HttpError` with a class of status, or `Escape` (an exception no clause
catches). `Lose` and transient errors go on to the next attempt through `RetryOr` or
end the call. `Logged` also makes the events of calls that send nothing: `CacheHit`,
`RefuseBudget`, `NeverDispatches`. `books` are the client's usage and billing totals,
`outcome` what the call returned or raised, `Accepts` is `_validate_ledger_event`,
and `Summary` (module `Billing`) is what `summarize_dispatch_ledger` makes of a list
that it accepts. `Foreign` names the two kinds of event the client writes and the
validator refuses. Left out: pacing and backoff, amounts (a bill is observed, of
another kind, either of them vast, or unknown), identifiers and timestamps. The cache is
unconstrained: any call may hit or miss.

### Environment, Keys, Consumer, Sweep

`Environment` cuts `provision_environment` at every command it spawns and every look it
takes at the shared directory: discovery and its refusals, the isolated routes, the
identity of a directory (`Identity`), lookup, preflight, removal, creation
with the fallback from uv to venv, each installer, the final preflight, all under
`_ProvisionDeadline`. The project itself is installed in two attempts, the second (`retry`)
only when the first exits non-zero. A checkout is reduced to its manifests and what kind of content
each has; a venv to what was installed and which worktree an editable install leads
into. Any process may be killed at any point. Left out: the refusal of the preflight for a
plan of mode `required` without a backend (`env.py:194-198`), which no caller can have:
`sandbox.plan` raises, and `verify_test` and the cohort refuse, before anything is provisioned.

`Keys` cuts `get_or_create_signing_key` into look, read, open and write. `Consumer` is
`verify_receipt` as a function of what each of its tests sees of a document and of what the
consumer expects. `Sweep` composes the three with the pool of threads, the lock of
the clones, frozen material, signing, the reading back of receipts, the summary
and restarts of the machine: the disk stays, the pool and its results go. What
`verify_test` makes of its executions is any verdict of `Given`; a catch among them (`Disputed`) may carry
a receipt that the semantic rules refuse, as `KnownGap` of `Verify` says. Such a row is written, read back
as not valid and published all the same, definitive and with `signature_valid` False: what
`SummaryIsEvidenced` claims of it is that `verify-receipt` says so too, with exit code 5. A row ends on
whatever it raises, and a clone that failed leaves nothing, so that a row that had seen it half
made finds no material.

### Cohort

The three programs of the lane in the order of the workflow: every command of the
preparation and the container it may leave behind when its client times out, the
replay row by row with its two receipt checks, the diagnosis phase by phase, the
reconciliation that always runs, each removal of which may fail on its own. Each program may fail at any command, be interrupted or
killed; files are written in place, so a kill can tear them. Left out: the wheel the
workflow builds first; the content of images and inventories (one comparison each).

### Oracle, Pipeline, Benchmark, Gauntlet

A candidate is what it does on each side under each of the two runners, what it
leaves behind, what it heeds of what others left, whether it commits or leaves a
process running. `Oracle` is `differential_check` cut at every verification of a checkout, every cleaning
and every execution; `Clean` is what `reset_workdir` can and cannot remove. `Pipeline` is
`run`: the screening of the diff, the ranking, the except clauses of a request, the loop over
targets and attempts, the assessor, the ledger row, and the status of a run that was
never answered; an exception out of the oracle or the ledger leaves `run` with its candidate open. `Benchmark` drives it over bugs (clones that are kept, also when the
program is killed) or over the rungs of a ladder of thresholds. `Gauntlet` names a tree by the
commit it started from, the patches applied and the litter committed with
them, and runs one arm after another in one clone, each command of which may fail or be
the last. Left out: prompts, scores and telemetry; the installation of a bug's
dependencies; the selection of pairs; git beyond head, tree, index and untracked files.

### Minirunner

A process of the fallback runner over its files: what the shim replaces, the registry, the
expansion of tests into cases, the resolution of fixtures one creation at a time, the
bodies, both lists of finalizers, and the exit code, with any outcome of the candidate's own
code. A test is `deferred` when a call of it only makes a coroutine or a generator, which nobody awaits
or iterates. `log` and `swallowed` are the labels that were printed to the process's own
streams and to the buffer of a capsys that was active; `Labels` is both, `bodies` whether a test that passed had run. A finalizer that exits stays in its list, and
the finalizers of a request may raise inside the teardown of their fixture (`HasRequest`).
Left out: the helpers a test calls (`raises`, `approx`), and what a test does to
`sys.stdout` other than through capsys.

## 3. Runs

| Run | Question | Instance |
| --- | --- | --- |
| `verify` | an invocation: which verdicts can be signed and by which executions (`Refines`), is what is signed accepted, is a policy bypassed, is the census true, does it end; or one guarded phase: do the gates and the result mean what they say | 2 reruns, one control test, two modes, both policies; one distribution, 4 releases, 30 requirement files, up to 2 test cases or output lines, 9 output trees |
| `action` | confinement, evidence of this invocation, an accepted census is true, the exit code is evidenced, the digest | 2 changed tests, both blocking policies, one stale receipt, any host twice |
| `run_bounded` | commands: permits, containment, session death, calls return, reapers follow their parent; or requests: the bound on a model, what is paid is reported, calls return | 2 callers and 1 permit, 2 descendants; or 2 requesters, 2 models, 1 slot each, 2 ticks, one close |
| `client` | the ledger: totals and summary against the events, retries, readability; or the cache: one leader, fresh misses, the overshoot, everyone returns | a generator with 2 calls, 2 responses and 2 attempts each beside an assessor without budget; or 3 threads, 2 backends, 2 keys, 3 flights |
| `environment` | venvs: editable installs are private, finished builds complete, the budget holds, provisioning ends; or the runner: exit code against what it printed, teardown and streams | 2 processes, 6 checkouts, every plan; or 6 sequences of candidate files |
| `benchmark` | drivers: a catch is about the change, attempts are accounted for, revisions are present; or arms: what is compared is what the arm is named for | 3 candidates, 2 targets, 2 bugs, a ladder of 2 rungs; or 2 instances of a manifest and a third outside it, one clone |
| `sweep` | a sweep: published rows are evidenced, no receipt stands in for another, no row gives up on a clone that is there; or the lane: what it leaves behind is true | 3 rows, 2 threads, one restart; or 2 declared rows, one of them diagnosed, two manifests that must be refused |
| `verify_gap_disagreement` | violated: `validate_semantics` "rerun_agreement=False forbids catch verdict" | as `verify`, sandbox off |
| `run_bounded_gap` | violated: the reaper sweeps whatever signal it gets | as `run_bounded` |
| `sweep_gap` | violated: no verdict where an environment could not be built | three rows, two commits that share a directory, no restart |
| `ladder_gap` | violated: a ladder that lost a candidate to a rate limit decides nothing | as `benchmark` |
| `minirunner_gap` | violated: a function-scoped fixture belongs to its case | as `environment` |

Why the bounds suffice. Two reruns are the least in which a rerun can agree and
another disagree with the first; one control test reaches every branch of the
guard. `<<1>>`, `<<1, 0>>`, `<<1, 0, 2>>` and `<<1, 10>>` are equal as releases, of different
length, or ordered otherwise than as text; two requirement lines are the least that
pin one name twice; two cases or lines are the least with a first and a later failure.
Two tests give the Action a loop with a before and an after, and one stale file
suffices because files of different tests have different names; the policy `advisory`
always exits 0, and the trust `unknown` is treated as `fork` by every line, so both
are left to the proofs, which cover them.
With two callers and one permit every wait and every hand-over
happens; processes inside and outside the session are the two kinds the kernel
tells apart. A router call with a chain of two legs and one without, over one slot, meet
in the dictionary; three escalations fit below the ceiling at most.
Three threads are the least with a leader, a waiter and a newcomer that finds the
flight gone; two backends separate what the dispatch lock serialises from what
the flight does; one key is new to the file, the other may have any row. Threads are
interchangeable, and so are flights that nobody refers to: the least thread calls first
and the least such flight is registered (`CallsInOrder`, `RegistersInOrder`). Two attempts are the
least with a retry and an exhausted one; two responses let a
retry follow an accepted response, and the ceiling of one puts the refusal
after them. The assessor's budget is spent, so that it appends at any time but sends
nothing: two clients that send differ in nothing the ledger could confuse, and the
proofs cover any number. An exhausted quota and a rate limit are the two treatments of a
status the reader accepts, a redirect and a status above 599 the two it does not; the other classes only
change the name of the error. A ledger with an event the reader refuses is followed to the
end of the calls under way (`Spoilt`).
The output trees have one for each limit and each kind of rejected entry, and one that passes with a
directory and the most files and bytes allowed. Of the candidate files one sequence puts a fixture over capsys before
an async test, so that what an exit leaves behind meets a later file.
Two processes are the least that remove and rebuild a directory under each other; two
commits with the same hashed manifests share one, and each refusal has a checkout.
Three rows on two threads are the least with a waiter on the clone and a thread that
starts late. `sweep` has one packaged checkout so that a restart may fall at any
step; `sweep_gap` has two that share a directory, without restarts. The three
candidates of `benchmark` (one about the change that litters, one that is flaky, stages
and lingers, one that commits and heeds what others left) are the ways a checkout can
be spoiled; two rungs are the least that can be compared. Cohort's second row makes a
row follow a failed one; the diagnosed row has three phases.

Deadlock is not checked where the system really stops: an invocation ends, callers
and threads return, the drivers finish. It is checked for `environment`, `sweep` and
`sweep_gap`, whose ends are steps that repeat.

Fairness. `verify` assumes weak fairness of the invocation's own steps: each is bounded
by a timeout of its own. `client` only assumes that some thread that can step
does: nothing about locks being fair. `run_bounded` assumes it of each caller and each
reaper separately, because the kernel schedules processes and deadlines pass; the
command owes nothing and may run for ever; and for the router that threads run, that time passes
and that a request ends some time (its phases have timeouts). `environment` assumes it of
each process, whose commands have timeouts. The other runs need none, their
properties are safety.

## 4. What disagrees with the repository's own words

Exhibited by a run, each quoted with its line under `findings`:

1. `verify_gap_disagreement`: a `collection_catch` is signed although the reruns of HEAD disagreed.
2. `run_bounded_gap`: a SIGTERM between the reaper's wait loop and its sweep ends the
   reaper with descendants alive.
3. `sweep_gap`: the directory of a build that failed is handed to the next row as cached.
4. `ladder_gap`: `rate_limited_candidates_total` is always 0, since no row carries what it adds up.
5. `minirunner_gap`: the value of a function-scoped fixture is kept for the next test of its file.

Met while modelling, kept in the models as the code has them, and exhibited by no run:

* A catch graded from output text is signed as proven with exit code 0 and refused by
  `receipt.py:538-540`, which asks for an assertion (`KnownGap`). The sweep publishes such a row, and one of finding 1,
  as definitive with `signature_valid` False (`run_layer1_sweep.py:361-389`).
* After an fsync error or an interrupt between writing and counting a census line the next line
  repeats its number (`results.py:288-292`); `SequencedIsBound` is what remains true: a
  consumer that checks sequence numbers is never deceived by the digest.
* A redirect that urllib does not follow is logged as an HTTP error below 400, a status above 599 as it
  came; the validator refuses both, and the summary of the whole list with them
  (`_billing.py:135-141`). A bill of 29 digits with the exponent 128 is taken by `BillingTotals.add`, and
  its sum, rounded to 28 digits, printed with an exponent `_ledger_decimal` refuses.
  `ReadableUnlessForeign` is what remains. A call that fails before it sends leaves no event when another client
  has appended to the list since it began (`llm.py:588`); bills of error bodies are in the summary but not in a client's totals.
* Readiness never compares what is installed with the lock, only the lock's pin with the declared range. A
  `requirements.txt` hides `pyproject.toml` and `requirements-dev.txt`, although the docstring of
  `_unsupported_manifest_reason` says such trees fail closed; the last line of a lock wins.
  `STATUS.md:115` calls the gates unwired; `verify.py` wires them.
* An uncaught exception of `jittest verify` exits 1, the status of "no catch".
* Two calls of `plan()` may meet different hosts. In mode `required` a missing image is
  refused by the probe's five seconds, though the text speaks of a pull as the expected cost.
* The reset between candidates ignores git's exit codes and spares staged and ignored files;
  the runner is looked for at each execution, so head and base may run under different ones
  (`CatchNeedsTheChange` names these as excused).
* `rate_limited` overwrites `model_unavailable` and `quota_exhausted` when nothing was answered
  (`pipeline.py:395`), so that `run_bugsinpy` does not stop; a run whose attempts all timed out, or
  met the budget, ends "ok"; each candidate is recorded with the cumulative cost of the run, which `stats` adds up.
* "Skipped" bugs stay in the denominator; dependencies are cached per project though requirements
  are per bug; a verdict that the gate was binding can come from timeouts.
* After a conflicting `git apply --3way` the clone of the gauntlet cannot be checked out again
  until it is repaired by hand; nested repositories survive `clean -xfd`; an arm without PASS_TO_PASS
  falls back to FAIL_TO_PASS.
* A container whose `docker run` timed out while the registry started is left to the workflow's
  last step; nine rows of fifteen minutes exceed the job's twenty-five; a row or census that
  was being written when the program was killed is torn.
* The router's failover leg posts without a slot of the second model; what a lost, late
  or failed-over leg has cost is not reported; the phase timeouts do not bound a request. Nothing
  under `src/` uses the router that `melious.py` calls the production transport.
* The fallback runner never undoes what a second test does through a cached `monkeypatch`, gives a fixture above a
  parametrised one the first param's value, and prints but does not count errors of module teardown. A failing
  test that holds capsys exits 1 and leaves neither its label nor its traceback anywhere (`_minirunner.py:131-154`). An `async def` or
  generator test counts as executed and passed though its coroutine is dropped (`_minirunner_cases.py:208`, `267`), so that exit
  code 0 does not mean what `_minirunner.py:16` says, that a test has actually run; `ExitIsReported` claims only the call.
* The sweep's report calls all rows "attempted with signed receipts"; the evidence file of an earlier
  sweep stays when a row raises; an empty key file, left by a kill, fails every later signing.

## 5. Proofs

TLAPS proves the following for every value of the constants that satisfies the named
assumptions of the modules (`RerunsAssumption`, `HealthAssumption`, `OptionsAssumption`, ...,
each stated where its constants are declared).

* `VerifyProofs`: `TypeCorrect`, `PolicyHolds`, `ConfinementHolds`, `CensusNeverOverstates`,
  `ProducerAndConsumerAgree`, and `Refinement`: `Verify` implements `PairedOracle`. The invariant is `TypeOK`, where the place implies
  what has been recorded (`RecordInv`), what is left to try (`LeftInv`) and which
  policies were passed (`PolicyInv`). Without `RecordInv` the ruling could not be shown to be
  about executions that happened. `CensusInv` adds what the journal and the file asked for say at
  each place after the ruling; `AgreeInv` that what would be sealed already agrees before it is
  signed, which is one lemma per ruling (`RulingAgrees`) and one for refusals (`RefusalAgrees`).
  Of `Guards`: `GatesMeanWhatTheySay` (the property `RecordMeansWhatItSays`). Its heart is
  `SpecifiersAreRanges`: comparing padded tuples is comparing the releases as numbers, for releases of any
  length and any parts, which needs that of two releases that are not equal one is below the other.
* `ClientProofs`, of `Singleflight`: `FlightTypeCorrect`, `FlightsCounted`, `LeaderIsAlone`, `MissStaysFresh`,
  `OvershootBounded`. The invariant relates a thread's place to the flight it holds
  (`CallInv`), a flight's lock and users to the threads (`FlightInv`, `CountedFlights`), and
  the counters to the requests still allowed (`BudgetInv`). The count is the heart of it: a flight is
  only dropped when nobody is left who could believe in it.
* `ClientProofs`, of `Dispatch`: `TypeCorrect`, `LedgersAreReadable` (the property `ReadableUnlessForeign`) and
  `RetriesAreEarned`. The
  invariant adds that the event of an attempt under way is still as `_event` made it
  (`SentInv`), whatever other clients append, and that a client that sends has a response to
  wait for (`LeftInv`). Each way an attempt can end is then one lemma: the event it writes is an
  event, its client's, and acceptable. `RetryInv` adds what a call has logged so far
  at each of its places (`CallIsAt`): the ledger is shared, so "the last event" is not the client's own.
* `ClientProofs`, of `Billing`: `BooksBalance` (the property `BooksAgree`). `BooksInv` says what each total of a
  client has in common with its events, that a response that was counted had a first attempt (`Opened`), and
  that calls are numbered without gaps. Sums over clients are cardinalities of disjoint sets of
  units, so that no induction over the clients is needed.
* `RunBoundedProofs`: `TypeCorrect`, `SemaphoreBalanced`, `ThrottleHolds`, `ResultContained`,
  `SessionKilled`. The invariant adds to the permits what each phase of a caller and
  its reaper says of the processes that may be alive (`PhaseInv`). Of `Router`, in the same module:
  `BackpressureHolds` and `AnswersReportTheirCost`. `RouterInv` says that the semaphore of a model is
  registered as long as some call refers to it, and that no call refers to another model's;
  `PaidInv` what a call was billed at each of its places.
* `ActionGateProofs`: `TypeCorrect`, `Confined`, `LedgerBound`, `EvidenceTrue`, `CensusTrue`,
  `ExitEvidenced`. The invariant has one part per question: where the loop stands
  (`PlaceInv`), how far the memory of the census is behind its journal (`LedgerInv`), where
  its claims come from (`EvidenceInv`), when the snapshot is current (`CurrentInv`), how far the journal
  says each test has come, the line being written included (`ProgressInv`), when
  anything is called finished (`FinishedInv`), and that results and exit code follow from the
  census (`VerdictInv`). `ProgressInv` speaks of the journal *to come*, because memory changes
  before the line is written. `Confined` holds for every pair of hosts, by lemmas about the plan.
* `EnvironmentProofs`: `EnvironmentTyped`, `EditableVenvsArePrivate`, `BuiltVenvsAreComplete`,
  `BudgetIsKept`, for any number of processes. A directory named by repository and commit is linked
  only by builds of that checkout; a build that was never disturbed holds
  what its stage says; the time spent plus the timeout in hand is bounded by the deadline.
* `SweepProofs`: `SweepImplementsEnvironment` (every step of the sweep, restarts included, is a step
  of `Environment` or stutters, so its theorems hold of a sweep), `NoRowGivesUpOnAClone`,
  `NoReceiptStandsIn`, `SummariesAreEvidenced` (rows published as not valid included: the consumer's refusal is derived
  from the receipt on disk) and, of `Cohort`, `CohortLeavesTruth`. `SweepInv` follows a
  row's receipt from the write to the published summary, under a key that all receipts share
  unless two first users raced, and gives the sweep's types (`SweepTypes`); `CohortInv` says of each step of the lane what its files mean at that step.
* `BenchmarkProofs`: `CatchesAreAboutTheChange` for any use of the oracle, `BenchmarkImplementsOracle` (drivers,
  pipeline and kills use it as its specification says), hence `BenchmarkCatches`;
  `BugsHaveTheirRevisions`; `AttemptsAreAccounted`: `AccountInv` keeps the balance of attempts and causes with
  one attempt open while a candidate is judged or assessed (the causes as disjoint sets of units, so that
  one more drop is one more unit), and that the ledger's catching rows are the findings, in order;
  `BenchmarkTypes`: `WorkInv` adds to the attempts made those that may still come (`ToCome`), which is what keeps
  them within targets times candidates, `HeadsBound` the executions of a candidate, `DriveInv` one summary per
  finished rung; and, of `Gauntlet`, `ArmsCompareTheirPatch`: `GauntletInv` says what the clone
  holds after each git command of an arm, given that it may hold anything before the first.

* `MinirunnerProofs`: `ExitIsEarned` (the property `ExitIsReported`; `LogInv` says what the counters and the worst
  code so far tell of the labels, `StreamInv` that a capsys that is active still waits in the list of its
  case, so that only what a case prints before its teardown is swallowed) and `FixturesAreTornDown` (the property `TornDown`; `TeardownInv` relates
  the stack of fixtures under construction, the cache and the lists of what must be resumed, `PassInv` the list of a
  case to the part of it that has run), from
  `CommandsAssumption` alone, whatever the candidate's code raises. Exempt are what an exit out of a finalizer
  left in its list and a generator whose request's finalizers raised, the two ways in which the code itself
  leaves a fixture suspended. `ExitIsEarned` is about the calls the runner makes: a call of an async test
  runs nothing (section 4).

The type invariants (`TypeOK`, `EnvTypeOK`, `FlightTypeOK`) of `Verify`, `Environment`, `Dispatch`, `RunBounded`,
`Singleflight`, `Sweep`, `Benchmark` and `ActionGate` are proved and for that reason not repeated in the
runs; those of `Oracle`, `Pipeline`, `Keys` and `Census` are parts of them.

Every safety property of a passing run is stated by one of these theorems. Only model-checked are, being
liveness under fairness, which the prover does not handle, `InvocationEnds`, `EveryoneReturns`, `CallsReturn`,
`ReapersFollow`, `RouterReturns` and `ProvisioningEnds`. Nothing is proved by induction over data:
counts are cardinalities, "the first that ..." is a choice from a set of positions, and no module uses RECURSIVE.

## 6. Not modelled, and what is left

* Source analysis (`diff.py`, `risk.py`, `oracles.py`, `safety.py`, `prompts.py`), prices and JSON
  extraction, rendering, configuration, redaction, the GitHub client, operational probes, Ed25519: pure
  functions or pure I/O, whose behaviour lies in parsing or arithmetic; see the notes under `components`.
* `provision.py`, `registry.py` and the SQLite connection policy: one command or one read each, inside
  a step of the module that calls them.
* Windows job objects and the unsupervised POSIX path of `proc.py`.
* The release, launch and evaluation scripts that drive the program from outside and only report; the
  census check of `check_distributable.py` is in module `Census`.
* Left for later: several processes on one response cache; the outcomes that people mark in the
  ledger; selection of benchmark pairs and installation of their dependencies; theorems that refine
  further components (the pipeline and the router by what they promise their callers).
