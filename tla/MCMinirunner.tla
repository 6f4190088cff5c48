------------------------------ MODULE MCMinirunner ------------------------------
(* Candidate files that use what the runner supports and what it refuses.  *)
EXTENDS Minirunner

Simple(name, needs) == Fixture(name, "function", needs, "plain", NoParams, FALSE)
Yielding(name, scope, needs) == Fixture(name, scope, needs, "yield", NoParams, FALSE)
Test(requests) ==
  [requests |-> requests, provided |-> {}, rows |-> 1, form |-> "function", mark |-> "none",
   deferred |-> FALSE]
File(conftests, fixtures, tests) == [conftests |-> conftests, fixtures |-> fixtures, tests |-> tests]

(* Two tests over a chain of yield fixtures, the lower one of either scope *)
(* and defined in a conftest. *)
Chained(scope) ==
  File(<<<<Yielding("db", scope, <<>>)>>>>, <<Yielding("user", "function", <<"db", "request">>)>>,
       <<Test(<<"user">>), Test(<<"user", "monkeypatch">>)>>)

(* A parametrised fixture below another one, an autouse fixture, and one   *)
(* with an empty list of params.                                           *)
Expanded ==
  File(<<>>, <<Fixture("number", "function", <<"request">>, "plain", 2, FALSE),
               Simple("double", <<"number">>),
               Fixture("none", "function", <<"request">>, "plain", 0, FALSE),
               Fixture("auto", "module", <<>>, "yield", NoParams, TRUE)>>,
       <<Test(<<"double">>), Test(<<"none">>), [Test(<<"row">>) EXCEPT !.provided = {"row"}, !.rows = 2],
         [Test(<<>>) EXCEPT !.form = "testcase"]>>)

(* What is refused loudly: a cycle, an unknown name, an async fixture. *)
Refused ==
  File(<<>>, <<Simple("alpha", <<"beta">>), Simple("beta", <<"alpha">>),
               Fixture("async", "function", <<>>, "async", NoParams, FALSE)>>,
       <<Test(<<"alpha">>), Test(<<"missing">>), Test(<<"async">>)>>)

Marked ==
  File(<<>>, <<>>,
       <<[Test(<<>>) EXCEPT !.mark = "skip"], [Test(<<"capsys">>) EXCEPT !.mark = "xfail"],
         [Test(<<>>) EXCEPT !.mark = "strict"], [Test(<<>>) EXCEPT !.form = "constructed"]>>)

(* A yield fixture over capsys: an exit out of its finalizer leaves the    *)
(* streams replaced for the next case, or the next file.                   *)
Captured ==
  File(<<>>, <<Yielding("screen", "function", <<"capsys">>)>>, <<Test(<<"screen">>), Test(<<>>)>>)

(* An async test, which nobody awaits. *)
Unawaited == File(<<>>, <<>>, <<[Test(<<>>) EXCEPT !.deferred = TRUE]>>)

MCCommands ==
  {<<Chained("function")>>, <<Chained("module")>>, <<Expanded>>, <<Refused, Marked>>, <<Marked, Marked>>,
   <<Captured, Unawaited>>}
=============================================================================
