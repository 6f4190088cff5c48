------------------------------- MODULE MCSweep -------------------------------
(* A script without dependencies, two commits of a packaged project whose  *)
(* requirements file brings pytest and whose manifests have the same       *)
(* bytes, and a checkout with a file that does not parse.                  *)
EXTENDS Sweep, Cohort, TLC

CONSTANTS script, older, newer, broken, T1, R1

MCCheckouts == {script, older, newer, broken}
Plain == [k \in Kinds |-> "absent"]
Packaged == [Plain EXCEPT !["named"] = "pytest", !["pyproject"] = "deps"]
MCTree == (script :> Plain) @@ (older :> Packaged) @@ (newer :> Packaged)
       @@ (broken :> [Plain EXCEPT !["pyproject"] = "broken"])
AnyPython == [c \in MCCheckouts |-> [below |-> 0, upto |-> 0, from |-> 0]]
SameTime == [c \in MCCheckouts |-> "t"]
Entry(kind, base, head) ==
  [kind |-> kind, repo |-> R1, base |-> base, head |-> head, test |-> T1,
   derived |-> "reversed", source |-> base]
(* One packaged checkout: a machine that restarts at any step. *)
MCRow == <<Entry("bug", script, older), Entry("control", script, script),
           Entry("bug", broken, script)>>

(* The packaged checkouts share a directory: without restarts. *)
MCSharedRow == <<Entry("bug", script, older), Entry("control", older, script),
                 Entry("bug", broken, newer)>>

(* The declared cohort has a bug and a control; a manifest that takes a    *)
(* test from the wrong side and one whose test is a link are offered too.  *)
Declared2(id, kind, test, source) ==
  [id |-> id, safe |-> TRUE, kind |-> kind, repo |-> R1, base |-> script, head |-> older, test |-> test,
   source |-> source]
Framed(rows) == [intact |-> TRUE, rows |-> rows, frame |-> {Original(rows[i]) : i \in DOMAIN rows}]
MCPreregistered == Framed(<<Declared2(1, "bug", T1, script), Declared2(2, "control", T1, older)>>)
MCManifests == {MCPreregistered, Framed(<<Declared2(1, "bug", T1, older)>>), Framed(<<Declared2(1, "bug", "link", script)>>)}
MCIrregular == {<<script, "link">>}
MCDiagnosticRows == <<1>>

(* The programs share nothing, so a behaviour is one of either. *)
VARIABLE system
all == <<vars, cohortVars, system>>
Sweeps(action) == system = "sweep" /\ action /\ UNCHANGED <<cohortVars, system>>
Follows(action) == system = "cohort" /\ action /\ UNCHANGED <<vars, system>>
MCInit ==
  /\ Init /\ CohortInit
  /\ \/ system = "cohort"
     \/ system = "sweep" /\ lane.hosted /\ lane.manifest = MCPreregistered
MCNext == Sweeps(Next) \/ Follows(CohortNext)
MCSpec == MCInit /\ [][MCNext]_all
=============================================================================
