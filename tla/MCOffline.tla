------------------------------ MODULE MCOffline -----------------------------
EXTENDS Offline, DecisionTrees

(* What may become of a test run of package "p": its status and failure,   *)
(* the status of the package, and whether the execution is complete.       *)
Situation(status, failure, test, listed, complete, rejected) ==
  [status |-> status, failure |-> failure, test |-> test, packages |-> listed,
   astPackages |-> listed, complete |-> complete, rejected |-> rejected]

P(status) == [p \in {"p"} |-> status]
All == {"ast", "compiler", "cover"}

Situations ==
  {Situation("passed", "none", "passed", P("passed"), TRUE, {}),
   Situation("passed", "none", "passed", P("passed"), FALSE, {"ast", "compiler"}),
   Situation("passed", "none", "passed", P("skipped"), FALSE, {"cover"}),
   Situation("failed", "test", "failed", P("failed"), FALSE, {}),
   Situation("failed", "build", "failed", P("build-failed"), FALSE, {}),
   Situation("timeout", "timeout", "timeout", P("started"), FALSE, {"compiler"}),
   Situation("failed", "interrupted", "not-run", [p \in {} |-> ""], FALSE, All)}

With(situation, probes, evaluations, observations, blocks) ==
  [s \in {"probes", "evaluations", "observations", "blocks"} |->
     CASE s = "probes" -> probes [] s = "evaluations" -> evaluations
       [] s = "observations" -> observations [] s = "blocks" -> blocks] @@ situation

(* Some observed vectors, and one evaluation that a panic ended.           *)
Evaluations(tree) ==
  {[decision |-> "d", states |-> s, status |-> "completed"] : s \in Vectors(tree)}
    \union {[decision |-> "d", states |-> [i \in Conditions(tree) |-> "notEvaluated"],
             status |-> "aborted"]}

DecisionCase(package, tree, probes, situations, max) ==
  [plan |-> [e \in {"d"} |->
               [type |-> "decision", package |-> package, kind |-> "if", tree |-> tree]],
   max  |-> max,
   executions |-> {With(s, q, v, {}, [f \in {} |-> 0]) :
                     s \in situations, q \in probes, v \in SUBSET Evaluations(tree)}]

ClauseCase(kind, max) ==
  LET events == {<<"body", "c">>, <<"selection", "c">>, <<"selection", "n">>}
  IN  [plan |-> [e \in {"c", "n"} |->
                   IF e = "n" THEN [type |-> "noMatch", package |-> "p", kind |-> kind]
                   ELSE [type |-> "clause", package |-> "p", kind |-> kind, role |-> "case"]],
       max  |-> max,
       executions |-> {With(s, q, {}, o, [f \in {} |-> 0]) :
                         s \in Situations, q \in {events, {}}, o \in SUBSET events}]

Counters ==
  [count : {0, 1, 2}, evidence : {TRUE}] \union [count : {0, 1}, evidence : {FALSE}]

FunctionCase(max) ==
  [plan |-> [f \in {"f"} |-> [type |-> "function", package |-> "p", blocks |-> {1, 2}]],
   max  |-> max,
   executions |-> {With(s, {}, {}, {}, [f \in {"f"} |-> b]) : s \in {t \in Situations : t.status = "passed"},
                     b \in [{1, 2} -> Counters]}]

Probe == {<<"decision", "d">>}

(* p_test is an external test package, which go test does not list.        *)
AllCases ==
  [and      |-> DecisionCase("p", Binary("and", Leaf(1), Leaf(2)), {Probe}, Situations, 2),
   three    |-> DecisionCase("p", Leaf(1), {Probe}, {s \in Situations : s.rejected = {}}, 3),
   external |-> DecisionCase("p_test", Leaf(1), {Probe, {}}, Situations, 2),
   clause   |-> ClauseCase("type-switch", 2),
   function |-> FunctionCase(2)]
=============================================================================
