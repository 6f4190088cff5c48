----------------------------- MODULE Environment -----------------------------
(***************************************************************************)
(* env.provision_environment: how a checkout gets an interpreter with its  *)
(* dependencies.  Several processes share one directory of cached venvs    *)
(* and take no lock, so each process is cut at every command it spawns and *)
(* at every look it takes at the shared directory.  A checkout is reduced  *)
(* to its manifests: for each kind of file, what kind of content it has.   *)
(***************************************************************************)
EXTENDS Naturals, Sequences, FiniteSets

CONSTANTS
  Procs,      \* processes (or threads) that provision on this machine
  Checkouts,  \* (repository, commit) pairs
  Tree,       \* Tree[c][k]: the content of c's manifest of kind k
  Escapes,    \* checkouts with a symlink that leaves the worktree
  Requires,   \* Requires[c]: minor versions in python_requires
  Cutoff,     \* Cutoff[c]: the commit's timestamp
  UvPresent,  \* whether find_uv finds uv on this machine
  HostMinor,  \* minor version of the running interpreter
  Budget,     \* PROVISION_BUDGET_S
  StepLimit,  \* the timeout one step asks for
  MinTimeout, \* the floor under every timeout handed out
  NoCheckout

(* Manifests by how the three readers of a checkout treat them.  "named" is *)
(* a requirements file whose name _compute_lockfile_hash lists, "unhashed"  *)
(* one it does not list (requirements_test.txt, tox-requirements.txt),      *)
(* "testdir" a file of tests/requirements, which discovery does not read.   *)
Kinds == {"pyproject", "setup_cfg", "setup_py", "tox", "pipfile", "lock",
          "named", "unhashed", "testdir"}
Contents == {"absent", "empty", "deps", "pytest", "broken", "dynamic", "oversized"}

Discovered       == Kinds \ {"tox", "testdir", "lock"}
Hashed           == Kinds \ {"unhashed"}
RequirementFiles == {"named", "unhashed", "testdir"}
PackageTables    == {"pyproject", "setup_cfg", "tox"}
EditableMarkers  == {"pyproject", "setup_cfg", "setup_py"}

ASSUME EnvironmentAssumption ==
  /\ Tree \in [Checkouts -> [Kinds -> Contents]]
  /\ Escapes \subseteq Checkouts
  /\ NoCheckout \notin Checkouts
  /\ UvPresent \in BOOLEAN
  /\ Budget \in Nat /\ StepLimit \in Nat /\ MinTimeout \in Nat
  /\ StepLimit >= MinTimeout

Present(c, kinds) == {k \in kinds : Tree[c][k] # "absent"}
Declaring(c, kinds) == {k \in kinds : Tree[c][k] \in {"deps", "pytest"}}

-----------------------------------------------------------------------------
(* discovery.discover_manifest, and the code a refused checkout gets: an   *)
(* escape outranks a file that does not parse, which outranks the rest     *)
(* (a dynamic setup.py, a file above the size limit).                      *)
DeclaredDependencies(c) == Declaring(c, Discovered)
Unparsable(c) == {k \in Discovered : Tree[c][k] = "broken"}
Unreadable(c) == {k \in Discovered \cup {"lock"} : Tree[c][k] \in {"dynamic", "oversized"}}
Ambiguous(c) == c \in Escapes \/ Unparsable(c) # {} \/ Unreadable(c) # {}
AmbiguityCode(c) ==
  IF c \in Escapes THEN "symlink_escape"
  ELSE IF Unparsable(c) # {} THEN "unsupported_packaging" ELSE "ambiguous_build_metadata"

(* What is installed: requirement files in the order they are listed, and  *)
(* the packages named by the tables.                                       *)
Listed(c, k) == IF Tree[c][k] = "absent" THEN <<>> ELSE <<k>>
ReqFiles(c) == Listed(c, "named") \o Listed(c, "unhashed") \o Listed(c, "testdir")
DiscoveredPackages(c) == Declaring(c, PackageTables) # {}
NeedsEditable(c) == Present(c, EditableMarkers) # {}
HasProjectDeps(c) ==
  \/ DeclaredDependencies(c) # {} \/ Present(c, Hashed) # {}
  \/ DiscoveredPackages(c) \/ ReqFiles(c) # <<>>

(* resolve_target_python_version: the upper bounds it knows win over the   *)
(* lower bounds it knows; anything else is the running interpreter.        *)
AtMost(c, minor) == Requires[c].below = minor + 1 \/ Requires[c].upto = minor
TargetPython(c) ==
  IF \E minor \in 10..12 : AtMost(c, minor)
    THEN CHOOSE minor \in 10..12 :
           AtMost(c, minor) /\ \A n \in 10..12 : AtMost(c, n) => minor <= n
  ELSE IF Requires[c].from \in 8..12 /\ HostMinor < Requires[c].from
    THEN IF Requires[c].from = 8 THEN 10 ELSE Requires[c].from
  ELSE HostMinor

(* Mutant of EnvCacheIdentity: the manifests alone name the directory. *)
ManifestIdentity(c) ==
  [python |-> TargetPython(c),
   cutoff |-> IF UvPresent THEN Cutoff[c] ELSE "",
   bytes  |-> [k \in Hashed |-> Tree[c][k]],
   owner  |-> NoCheckout]

(* env_cache_identity.  The worktree an editable install points into is a  *)
(* part of the identity, through its repository and commit.                *)
EnvCacheIdentity(c) ==
  [python |-> TargetPython(c),
   cutoff |-> IF UvPresent THEN Cutoff[c] ELSE "",
   bytes  |-> [k \in Hashed |-> Tree[c][k]],
   owner  |-> IF NeedsEditable(c) THEN c ELSE NoCheckout]

(* Checkouts of one identity share a directory, which is named after one   *)
(* of them.                                                                *)
Directory == [c \in Checkouts |->
  CHOOSE d \in Checkouts : EnvCacheIdentity(d) = EnvCacheIdentity(c)]

-----------------------------------------------------------------------------
VARIABLES
  venv,   \* the cache: directory -> [python, has, link]
  at,     \* where each process is in provision_environment
  job,    \* the checkout it provisions
  next,   \* index of the requirements file it installs next
  spent,  \* time taken from its deadline
  own     \* history: nobody removed or re-created the directory it created

evars == <<venv, at, job, next, spent, own>>

Absent == [python |-> FALSE, has |-> {}, link |-> NoCheckout]
Installable == RequirementFiles \cup {"core"}

Building == {"create", "fallback", "files", "core", "packages", "editable", "retry", "check"}
Refusals == {"symlink_escape", "unsupported_packaging", "ambiguous_build_metadata",
             "image_inventory_failed", "image_inventory_malformed", "image_inventory_empty",
             "dependency_bearing"}
Provided == {"cached", "fresh", "host", "isolated", "image"}
Failed   == {"setup_error", "build_timeout"}
Settled  == Provided \cup Failed \cup Refusals

Dir(p) == Directory[job[p]]
Venv(p) == venv[Dir(p)]
WithPytest(c, has) == "core" \in has \/ \E k \in has \cap RequirementFiles : Tree[c][k] = "pytest"

EnvInit ==
  /\ venv = [d \in Checkouts |-> Absent]
  /\ at = [p \in Procs |-> "idle"]
  /\ job = [p \in Procs |-> NoCheckout]
  /\ next = [p \in Procs |-> 1]
  /\ spent = [p \in Procs |-> 0]
  /\ own = [p \in Procs |-> FALSE]

(* Mutant of Exhausted: the floor under a timeout hides an overdrawn budget. *)
NeverExhausted(p) == FALSE

(* _ProvisionDeadline.bounded. *)
Exhausted(p) == spent[p] >= Budget
Least(a, b) == IF a <= b THEN a ELSE b
Bounded(p) == LET left == Least(StepLimit, Budget - spent[p])
              IN  IF left >= MinTimeout THEN left ELSE MinTimeout

GoTo(p, stage) == at' = [at EXCEPT ![p] = stage]
Keep == UNCHANGED <<job, own>>
Takes(p, time) == spent' = [spent EXCEPT ![p] = @ + time]

(* The decisions taken before anything shared is looked at.  plan is the   *)
(* sandbox plan: option C is a container engine with a pinned image, whose *)
(* inventory probe may fail, print no list or find no package.             *)
Isolated(plan) == plan.backend \in {"docker", "podman", "bubblewrap"}
OptionC(plan) == plan.backend \in {"docker", "podman"} /\ plan.pinned

Route(c, plan) ==
  IF Ambiguous(c) THEN {AmbiguityCode(c)}
  ELSE IF OptionC(plan)
    THEN {"image", "image_inventory_failed", "image_inventory_malformed", "image_inventory_empty"}
  ELSE IF Isolated(plan) /\ DeclaredDependencies(c) # {} THEN {"dependency_bearing"}
  ELSE IF Isolated(plan) THEN {"isolated"}
  ELSE IF ~HasProjectDeps(c) THEN {"host"}
  ELSE {"lookup"}

Begin(p, c, plan) ==
  /\ at[p] = "idle"
  /\ \E stage \in Route(c, plan) : GoTo(p, stage)
  /\ job' = [job EXCEPT ![p] = c]
  /\ next' = [next EXCEPT ![p] = 1]
  /\ spent' = [spent EXCEPT ![p] = 0]
  /\ UNCHANGED <<venv, own>>

(* python_exe.exists() *)
Lookup(p) ==
  /\ at[p] = "lookup"
  /\ GoTo(p, IF Venv(p).python THEN "preflight" ELSE "create")
  /\ Keep /\ UNCHANGED <<venv, next, spent>>

(* _preflight_environment asks only for an interpreter that imports        *)
(* pytest; it has its own fixed timeouts.  A failure, a timeout included,  *)
(* removes the directory, whoever else uses it.  Its refusal of a required *)
(* sandbox without a backend has no plan to meet, see Plans.               *)
Healthy(p) == Venv(p).python /\ WithPytest(job[p], Venv(p).has)

PreflightPasses(p) ==
  /\ at[p] = "preflight" /\ Healthy(p)
  /\ GoTo(p, "cached")
  /\ Keep /\ UNCHANGED <<venv, next, spent>>

Rmtree(p) ==
  /\ at[p] = "preflight"
  /\ venv' = [venv EXCEPT ![Dir(p)] = Absent]
  /\ own' = [q \in Procs |-> own[q] /\ Dir(q) # Dir(p)]
  /\ GoTo(p, "create")
  /\ UNCHANGED <<job, next, spent>>

(* A directory is created by uv, or by python -m venv when uv is missing   *)
(* or exits non-zero; one that exists is emptied by the first and kept by  *)
(* the second.                                                             *)
WithPython(v) == [v EXCEPT !.python = TRUE]

Create(p) ==
  /\ at[p] \in {"create", "fallback"} /\ ~Exhausted(p)
  /\ \E time \in {0, Bounded(p)} : Takes(p, time)
  /\ venv' = [venv EXCEPT ![Dir(p)] =
       WithPython(IF UvPresent /\ at[p] = "create" THEN Absent ELSE Venv(p))]
  /\ own' = [q \in Procs |-> q = p \/ (own[q] /\ Dir(q) # Dir(p))]
  /\ GoTo(p, "files")
  /\ UNCHANGED <<job, next>>

UvFails(p) ==
  /\ at[p] = "create" /\ UvPresent /\ ~Exhausted(p)
  /\ \E time \in {0, Bounded(p)} : Takes(p, time)
  /\ GoTo(p, "fallback")
  /\ Keep /\ UNCHANGED <<venv, next>>

(* run_installer on what the stage installs.  It succeeds only while the   *)
(* directory is there; a time-out or a failure leaves what was installed.  *)
Install(p, item) ==
  /\ ~Exhausted(p) /\ Venv(p).python
  /\ \E time \in {0, Bounded(p)} : Takes(p, time)
  /\ venv' = [venv EXCEPT ![Dir(p)].has = @ \cup {item}]

(* Mutant of InstallFile: a requirements file that fails is skipped. *)
InstallOrSkipFile(p) ==
  /\ at[p] = "files" /\ next[p] <= Len(ReqFiles(job[p]))
  /\ \/ Install(p, ReqFiles(job[p])[next[p]])
     \/ UNCHANGED <<venv, spent>>
  /\ next' = [next EXCEPT ![p] = @ + 1]
  /\ Keep /\ UNCHANGED at

InstallFile(p) ==
  /\ at[p] = "files" /\ next[p] <= Len(ReqFiles(job[p]))
  /\ Install(p, ReqFiles(job[p])[next[p]])
  /\ next' = [next EXCEPT ![p] = @ + 1]
  /\ Keep /\ UNCHANGED at

InstallCore(p) ==
  /\ at[p] = "files" /\ next[p] > Len(ReqFiles(job[p]))
  /\ Install(p, "core")
  /\ GoTo(p, "packages")
  /\ Keep /\ UNCHANGED next

(* Packages named by tables are best effort, and nothing below asks which  *)
(* of them arrived.                                                        *)
InstallPackages(p) ==
  /\ at[p] = "packages" /\ DiscoveredPackages(job[p]) /\ ~Exhausted(p)
  /\ \E time \in {0, Bounded(p)} : Takes(p, time)
  /\ GoTo(p, "editable")
  /\ Keep /\ UNCHANGED <<venv, next>>

(* The project itself, in two attempts: the second, without the isolation  *)
(* of the build, only when the first exits non-zero.                       *)
InstallEditable(p) ==
  /\ at[p] \in {"editable", "retry"} /\ NeedsEditable(job[p])
  /\ ~Exhausted(p) /\ Venv(p).python
  /\ \E time \in {0, Bounded(p)} : Takes(p, time)
  /\ venv' = [venv EXCEPT ![Dir(p)].link = job[p]]
  /\ GoTo(p, "check")
  /\ Keep /\ UNCHANGED next

EditableFails(p) ==
  /\ at[p] = "editable" /\ NeedsEditable(job[p]) /\ ~Exhausted(p)
  /\ \E time \in {0, Bounded(p)} : Takes(p, time)
  /\ GoTo(p, "retry")
  /\ Keep /\ UNCHANGED <<venv, next>>

(* Packages and the project itself are best effort: there is nothing to    *)
(* install, or the installer exits non-zero or cannot be started, or the   *)
(* budget is gone, and the build goes on.                                  *)
SkipOptional(p) ==
  /\ at[p] \in {"packages", "editable", "retry"}
  /\ GoTo(p, IF at[p] = "packages" THEN "editable" ELSE "check")
  /\ \E time \in {0, IF Exhausted(p) \/ at[p] = "editable" THEN 0 ELSE Bounded(p)} : Takes(p, time)
  /\ Keep /\ UNCHANGED <<venv, next>>

(* An installer of requirement files or of the core packages that exits    *)
(* non-zero ends the build, and so does a venv that cannot be created.     *)
BuildFails(p) ==
  /\ \/ at[p] = "files"
     \/ at[p] = "fallback"
     \/ at[p] = "create" /\ ~UvPresent
  /\ GoTo(p, "setup_error")
  /\ Keep /\ UNCHANGED <<venv, next, spent>>

(* Any bounded command may run into its timeout, which is an error at      *)
(* every stage; a deadline that is gone raises before the command at the   *)
(* stages that are not best effort.                                        *)
TimesOut(p) ==
  /\ at[p] \in {"create", "fallback", "files", "packages", "editable", "retry"}
  /\ ~Exhausted(p)
  /\ Takes(p, Bounded(p))
  /\ GoTo(p, "build_timeout")
  /\ Keep /\ UNCHANGED <<venv, next>>

OutOfTime(p) ==
  /\ at[p] \in {"create", "fallback", "files"} /\ Exhausted(p)
  /\ GoTo(p, IF at[p] = "create" /\ UvPresent THEN "fallback" ELSE "build_timeout")
  /\ Keep /\ UNCHANGED <<venv, next, spent>>

(* Mutant of Check: a build that fails its preflight is started again. *)
CheckRebuilds(p) ==
  /\ at[p] = "check"
  /\ \/ Healthy(p) /\ GoTo(p, "fresh")
     \/ GoTo(p, "create")
  /\ next' = [next EXCEPT ![p] = 1]
  /\ Keep /\ UNCHANGED <<venv, spent>>

(* The preflight after the build: its failure raises and leaves the        *)
(* directory as it is.                                                     *)
Check(p) ==
  /\ at[p] = "check"
  /\ \/ Healthy(p) /\ GoTo(p, "fresh")
     \/ GoTo(p, "setup_error")
  /\ Keep /\ UNCHANGED <<venv, next, spent>>

EnvStep(p) ==
  \/ Lookup(p) \/ PreflightPasses(p) \/ Rmtree(p)
  \/ Create(p) \/ UvFails(p)
  \/ InstallFile(p) \/ InstallCore(p) \/ InstallPackages(p) \/ InstallEditable(p)
  \/ EditableFails(p) \/ SkipOptional(p) \/ BuildFails(p) \/ TimesOut(p) \/ OutOfTime(p) \/ Check(p)

(* The caller takes the result, or catches the error, and may call again.  *)
Return(p) ==
  /\ at[p] \in Settled
  /\ GoTo(p, "idle")
  /\ job' = [job EXCEPT ![p] = NoCheckout]
  /\ next' = [next EXCEPT ![p] = 1]
  /\ spent' = [spent EXCEPT ![p] = 0]
  /\ own' = [own EXCEPT ![p] = FALSE]
  /\ UNCHANGED venv

(* Every process is killed, the installers they wait for with them; the    *)
(* directories stay as they were.                                          *)
Abandon ==
  /\ at' = [p \in Procs |-> "idle"]
  /\ job' = [p \in Procs |-> NoCheckout]
  /\ next' = [p \in Procs |-> 1]
  /\ spent' = [p \in Procs |-> 0]
  /\ own' = [p \in Procs |-> FALSE]
  /\ UNCHANGED venv

(* On its own: processes that provision again and again on one machine,    *)
(* under any plan, and die at any time.  Every command is bounded in time  *)
(* (run_bounded), so a process that is not killed gets on.  A plan of mode *)
(* required has a backend: sandbox.plan raises and verify_test refuses     *)
(* before anything is provisioned when there is none.                      *)
Backends == {"none", "docker", "bubblewrap"}
Plans == [backend : Backends, pinned : BOOLEAN]

EnvNext ==
  \/ \E p \in Procs, c \in Checkouts, plan \in Plans : Begin(p, c, plan)
  \/ \E p \in Procs : EnvStep(p)
  \/ \E p \in Procs : Return(p)
  \/ Abandon

EnvSafety == EnvInit /\ [][EnvNext]_evars
EnvSpec == EnvSafety /\ \A p \in Procs : WF_evars(EnvStep(p))

-----------------------------------------------------------------------------
(* Type invariant of the cache and its users. *)
EnvTypeOK ==
  /\ venv \in [Checkouts -> [python : BOOLEAN, has : SUBSET Installable,
                             link : Checkouts \cup {NoCheckout}]]
  /\ at \in [Procs -> {"idle", "lookup", "preflight"} \cup Building \cup Settled]
  /\ job \in [Procs -> Checkouts \cup {NoCheckout}]
  /\ next \in [Procs -> 1..4]
  /\ \A p \in Procs : at[p] # "idle" => job[p] \in Checkouts /\ next[p] <= Len(ReqFiles(job[p])) + 1
  /\ spent \in [Procs -> Nat]
  /\ own \in [Procs -> BOOLEAN]

(* An editable install puts a path of one worktree into the venv; no       *)
(* process is ever handed a venv whose path leads into another checkout    *)
(* (env_cache_identity keys such a venv by repository and commit), however *)
(* builds, removals and kills of several processes interleave.             *)
EditableIsPrivate ==
  \A p \in Procs :
    at[p] \in {"cached", "fresh"} => Venv(p).link \in {job[p], NoCheckout}

(* A build that reached its end handed out every requirements file and the *)
(* core packages, unless another process removed or re-created the         *)
(* directory meanwhile: a failing file or an exhausted budget is an error  *)
(* there, never skipped (steps 2 and 3 of provision_environment).          *)
FreshIsComplete ==
  \A p \in Procs :
    at[p] = "fresh" /\ own[p] =>
      Present(job[p], RequirementFiles) \cup {"core"} \subseteq Venv(p).has

(* The commands one provisioning bounds by its deadline end within the     *)
(* budget, but for the part of the last one that the floor under its       *)
(* timeout adds (_ProvisionDeadline.bounded).                              *)
WithinBudget ==
  \A p \in Procs : spent[p] > Budget => spent[p] < Budget + MinTimeout

(* A provisioning ends in a result or an error, whatever other processes   *)
(* do to its directory, unless its process is killed.                      *)
ProvisioningEnds ==
  \A p \in Procs : at[p] # "idle" ~> at[p] \in Settled \cup {"idle"}
=============================================================================
