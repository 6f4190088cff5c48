---------------------------- MODULE PairedOracle ----------------------------
(***************************************************************************)
(* What a paired verification promises, without saying how it is run: a    *)
(* test is tried on both revisions, each trial once and for good, unless   *)
(* the environment of a revision is broken, and then at most one verdict   *)
(* is given, which accounts for both revisions and which the trials made   *)
(* so far justify.  Verify implements it (VerifyProofs, run verify).       *)
(***************************************************************************)
EXTENDS Receipt

VARIABLES trials,  \* the executions that returned an outcome
          broken,  \* the revisions whose environment could not be built
          ruling   \* the verdict given, or "none"

ovars == <<trials, broken, ruling>>

Sides == {"base", "head", "health_base", "health_head", "probe_base", "probe_head"}

Trial ==
  [phase : Sides, n : Nat, outcome : Outcomes, kind : RunnerKinds, text : Texts,
   refused : BOOLEAN]

TriedAs(side, outcome, grade) ==
  \E t \in trials : t.phase = side /\ t.outcome = outcome /\ Grade(t) = grade

(* A healthy environment: the same control test passed on both revisions.  *)
ControlsPassed ==
  \E b, h \in trials :
    /\ <<b.phase, h.phase>> \in
         {<<"health_base", "health_head">>, <<"probe_base", "probe_head">>}
    /\ b.n = h.n
    /\ b.outcome = "PASS" /\ h.outcome = "PASS"

(* The head failure was reproduced: tried at least twice, and no trial of  *)
(* the head disagrees with another in outcome or in the runner's kind.     *)
Reproduced ==
  /\ \E s, t \in trials : s.phase = "head" /\ t.phase = "head" /\ s.n # t.n
  /\ \A s, t \in trials : s.phase = "head" /\ t.phase = "head" =>
       s.outcome = t.outcome /\ s.kind = t.kind

Justified(verdict) ==
  CASE verdict = "proven_catch" ->
         TriedAs("base", "PASS", "none") /\ TriedAs("head", "FAIL", "assertion") /\ Reproduced
    [] verdict = "reproduction_catch" ->
         /\ TriedAs("base", "FAIL", "assertion") /\ TriedAs("head", "PASS", "none")
         /\ ControlsPassed
    [] verdict = "collection_catch" ->
         /\ TriedAs("base", "PASS", "none")
         /\ \E o \in Outcomes : TriedAs("head", o, "collection")
    [] verdict = "refuted" ->
         TriedAs("base", "FAIL", "assertion") /\ TriedAs("head", "FAIL", "assertion")
    [] verdict = "non_discriminating" ->
         TriedAs("base", "PASS", "none") /\ TriedAs("head", "PASS", "none")
    [] OTHER -> verdict = "inconclusive"

(* "Never short-circuit": no revision is skipped because of the other.     *)
Settled ==
  \A side \in {"base", "head"} : side \in broken \/ \E t \in trials : t.phase = side

Init == trials = {} /\ broken = {} /\ ruling = "none"

(* A side is tried; what was tried before stays as it was. *)
Try(t) ==
  /\ ruling = "none"
  /\ \A s \in trials : <<s.phase, s.n>> # <<t.phase, t.n>>
  /\ trials' = trials \cup {t}
  /\ UNCHANGED <<broken, ruling>>

(* The environment of a revision breaks before anything is tried on it.    *)
Break(side) ==
  /\ ruling = "none" /\ ~\E t \in trials : t.phase = side
  /\ broken' = broken \cup {side}
  /\ UNCHANGED <<trials, ruling>>

Rule(verdict) ==
  /\ ruling = "none"
  /\ Settled /\ Justified(verdict)
  /\ broken # {} => verdict = "inconclusive"
  /\ ruling' = verdict
  /\ UNCHANGED <<trials, broken>>

(* The trial made is the one the step adds. *)
Next ==
  \/ \E t \in trials' \ trials : t \in Trial /\ Try(t)
  \/ \E side \in {"base", "head"} : Break(side)
  \/ \E verdict \in Verdicts : Rule(verdict)

Spec == Init /\ [][Next]_ovars
=============================================================================
