---------------------------- MODULE MCBenchmark -----------------------------
EXTENDS Benchmark, Gauntlet
CONSTANTS p1, p2, p3, t1, t2, catcher, squatter, victim, c1, c2, c3,
          i1, i2, i3, x1, r1, r2, s1, s2, s3, q1, q2, q3, src1, node1

(* The catcher is about the change, needs pytest and litters; the squatter *)
(* is flaky, stages a file, leaves a process and skips on base; the victim *)
(* commits, and passes unless it finds what others left.                   *)
Doing(head, base, headShim, baseShim) ==
  [s \in Sides |-> [r \in Runners |->
     IF s = "head" THEN (IF r = "shim" THEN headShim ELSE head) ELSE IF r = "shim" THEN baseShim ELSE base]]
MCHabit == [c \in Candidates |->
  CASE c = catcher  -> [does |-> Doing({"fails"}, {"passes"}, {"fails"}, {"breaks"}), leaves |-> {"untracked", "edited"},
                        heeds |-> {}, commits |-> FALSE, lingers |-> FALSE]
    [] c = squatter -> [does |-> Doing({"passes", "fails"}, {"skips"}, {"hangs"}, {"fails"}), leaves |-> {"staged"},
                        heeds |-> {}, commits |-> FALSE, lingers |-> TRUE]
    [] OTHER        -> [does |-> Doing({"passes"}, {"passes"}, {"passes"}, {"passes"}), leaves |-> {},
                        heeds |-> {"untracked", "staged"}, commits |-> TRUE, lingers |-> FALSE]]
MCKind == [p \in Pairs |-> IF p = p3 THEN "no_python" ELSE "ordinary"]
MCChanged == [p \in Pairs |-> CASE p = p1 -> {t1, t2} [] p = p2 -> {t1} [] OTHER -> {}]
MCScore == [t \in Targets |-> IF t = t1 THEN 2 ELSE 1]
MCBugs == <<p1, p3>>
MCMerges == <<p2, p3>>
MCThresholds == <<1, 0>>
MCProject == [p \in Pairs |-> CHOOSE j \in Projects : TRUE]
MCNeeds == [p \in Pairs |-> IF p = p1 THEN {c1, c2} ELSE IF p = p3 THEN {c1, c3} ELSE {}]
MCOnBranches == [j \in Projects |-> {c1}]
MCFetchable == [j \in Projects |-> {c2, c3}]

(* Two instances of a manifest and a third that is not in it; the donor of *)
(* the second one is that third, and its tests import nothing.             *)
MCFixtureOf == [i \in Instances |-> x1]
MCBaseCommit == [i \in Instances |-> IF i = i1 THEN r1 ELSE r2]
MCSolution == [i \in Instances |-> CASE i = i1 -> s1 [] i = i2 -> s2 [] OTHER -> s3]
MCTestPatch == [i \in Instances |-> CASE i = i1 -> q1 [] i = i2 -> q2 [] OTHER -> q3]
MCDonor == [i \in Instances |-> CASE i = i1 -> i2 [] i = i2 -> i3 [] OTHER -> NoInstance]
MCNodes == [i \in Instances |-> IF i = i1 THEN <<node1>> ELSE <<>>]
MCHeaders == [i \in Instances |-> IF i = i1
  THEN <<[named |-> FALSE, imports |-> <<>>], [named |-> TRUE, imports |-> <<[finds |-> NoFile, ends |-> FALSE], [finds |-> src1, ends |-> FALSE]>>]>>
  ELSE <<[named |-> FALSE, imports |-> <<[finds |-> NoFile, ends |-> TRUE]>>]>>]

(* The programs share nothing, so a behaviour is one of either. *)
VARIABLE system
all == <<vars, gauntletVars, system>>
Measures(action) == system = "pipeline" /\ action /\ UNCHANGED <<gauntletVars, system>>
Replays(action) == system = "gauntlet" /\ action /\ UNCHANGED <<vars, system>>
MCInit ==
  /\ Init /\ GauntletInit
  /\ system = "pipeline" \/ (system = "gauntlet" /\ drive.mode = CHOOSE mode \in Modes : TRUE)
MCNext == Measures(Next) \/ Replays(GauntletNext)
MCSpec == MCInit /\ [][MCNext]_all
=============================================================================
