---------------------------- MODULE MCEnvironment ----------------------------
(* Where the tests of a checkout run: the venvs it is given, and the runner *)
(* of last resort where there is no pytest.  They share nothing, so a      *)
(* behaviour is one of either.                                             *)
(*                                                                         *)
(* Two commits whose hashed manifests have the same bytes; the second has, *)
(* outside the cache key, a requirements file that brings pytest.  A       *)
(* script without dependencies; one checkout for each refusal.             *)
EXTENDS Environment, MCMinirunner, TLC

CONSTANTS script, older, newer, broken, dynamic, escaping

MCCheckouts == {script, older, newer, broken, dynamic, escaping}
Plain == [k \in Kinds |-> "absent"]
Packaged == [Plain EXCEPT !["pyproject"] = "deps"]
MCTree == (script :> Plain) @@ (older :> Packaged) @@ (newer :> [Packaged EXCEPT !["unhashed"] = "pytest"])
       @@ (broken :> [Plain EXCEPT !["pyproject"] = "broken"])
       @@ (dynamic :> [Plain EXCEPT !["setup_py"] = "dynamic"]) @@ (escaping :> Packaged)
AnyPython == [c \in MCCheckouts |-> [below |-> 0, upto |-> 0, from |-> 0]]
SameTime == [c \in MCCheckouts |-> "t"]

VARIABLE system
all == <<evars, runnerVars, system>>

MCInit ==
  /\ EnvInit /\ RunnerInit
  /\ system = "runner" \/ (system = "venvs" /\ pytest = "real" /\ left = CHOOSE c \in Commands : TRUE)
Venvs(action) == system = "venvs" /\ action /\ UNCHANGED <<runnerVars, system>>
Runner == system = "runner" /\ RunnerNext /\ UNCHANGED <<evars, system>>
Ended == system = "runner" /\ phase = "ended" /\ UNCHANGED all
MCSpec ==
  /\ MCInit /\ [][Venvs(EnvNext) \/ Runner \/ Ended]_all
  /\ \A p \in Procs : WF_all(Venvs(EnvStep(p)))
=============================================================================
