------------------------------ MODULE MCVerify ------------------------------
(* An invocation, and one of its guarded phases seen from inside: a         *)
(* behaviour is one of either.                                              *)
EXTENDS Verify, Guards

(* Releases that are equal as numbers, or ordered otherwise than as text.   *)
MCVersions == {<<1>>, <<1, 0>>, <<1, 0, 2>>, <<1, 10>>}
One(spec) == Read(<<Requirement("lib", spec)>>)
MCManifestFiles ==
  {Absent, Unusable, One(<< >>), Read(<<[Requirement("lib", << >>) EXCEPT !.plain = FALSE]>>)}
    \cup {One(<<c>>) : c \in Clauses}
    \cup {One(<<[op |-> ">=", want |-> <<1>>], [op |-> "<", want |-> <<1, 10>>]>>),
          Read(<<Requirement("lib", <<[op |-> "==", want |-> <<1, 10>>]>>),
                 Requirement("lib", <<[op |-> "==", want |-> <<1>>]>>)>>)}

File(path, normal, links, size) ==
  [path |-> path, normal |-> normal, kind |-> "file", links |-> links, size |-> size]
Entry(path, kind) == [File(path, path, 1, 0) EXCEPT !.kind = kind]
MCOutputs ==
  {{}, {File("a", "a", 1, 1), Entry("d", "dir"), Entry("b", "file")}, {File("a", "a", 2, 1)},
   {File("a", "a", 1, 2)}, {File("a", "a", 1, 1), File("A", "a", 1, 0)},
   {Entry(x, "file") : x \in {"a", "b", "c"}}, {Entry(x, "dir") : x \in {"a", "b", "c", "d"}},
   {Entry("l", "special")}, {Entry("r", "faulty")}}

Upto(n, set) == UNION {[1..k -> set] : k \in 0..n}
Quiet == [exit |-> "zero", pytest |-> FALSE, report |-> [usable |-> FALSE, cases |-> << >>], lines |-> << >>]
MCExecutions ==
  [exit : Exits, pytest : {TRUE}, lines : {<< >>},
   report : {Quiet.report} \cup [usable : {TRUE}, cases : Upto(2, Cases)]]
    \cup [exit : Exits, pytest : {FALSE}, lines : Upto(2, Lines), report : {Quiet.report}]

VARIABLE inside
all == <<vars, guardVars, inside>>

Bare ==
  /\ tree = [requirements |-> Absent, dev |-> Absent, lock |-> Absent, pyproject |-> "absent"]
  /\ inventory = [odd |-> TRUE, at |-> [d \in Dists |-> NotInstalled]]
MCInit ==
  /\ inside \in BOOLEAN
  /\ \/ ~inside /\ execution = Quiet /\ Bare
     \/ inside /\ (execution = Quiet \/ Bare)
          /\ options = [mode |-> "off", enforcing |-> {}, reruns |-> 2, output |-> FALSE]
  /\ Init /\ GuardInit
Invocation == ~inside /\ Next /\ UNCHANGED <<guardVars, inside>>
Phase == inside /\ GuardNext /\ UNCHANGED <<vars, inside>>
MCSpec == MCInit /\ [][Invocation \/ Phase]_all /\ WF_all(~inside /\ Step /\ UNCHANGED <<guardVars, inside>>)

(* An invocation ends; a phase seen from inside is no invocation. *)
InvocationEnds == ~inside => Termination
=============================================================================
