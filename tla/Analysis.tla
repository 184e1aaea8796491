------------------------------ MODULE Analysis ------------------------------
(***************************************************************************)
(* Coverage of a set of executions of one plan (internal/analysis):        *)
(* what one execution's accepted evidence says of every obligation         *)
(* (newBuildContext, buildHierarchy), how several executions are united    *)
(* (analyzeRuns), and what `require` makes of it (internal/requirements).  *)
(*                                                                         *)
(* A plan has entities by identity, each with its type and package:        *)
(*   "decision" with its kind and expression tree (Decision.tla),          *)
(*   "clause" of a switch or select with its kind and role,                *)
(*   "noMatch", the missing default of a switch, with its kind, and        *)
(*   "function" with its blocks of one statement each.                     *)
(* An execution has the fields of measurement.Run; its evidence is the one *)
(* that acceptance left, in each of the three producers or none.           *)
(***************************************************************************)
EXTENDS Decision, FiniteSetsExt, SequencesExt

CONSTANT MaxCount    \* the largest value of a statement counter

ASSUME MaxCountAssumption == MaxCount \in Nat \ {0}

Supported(e) ==
  CASE e.type = "decision" -> e.kind \in {"if", "for", "switch-case"}
    [] e.type = "clause"   -> e.role \in {"case", "default"}
    [] OTHER               -> TRUE

HasSelection(e) ==
  e.type \in {"clause", "noMatch"} /\ e.kind \in {"expression-switch", "type-switch"}

(* What there is to cover: metric, entity and place within the entity.     *)
Obligations(plan) ==
  UNION {CASE plan[e].type = "decision" ->
                {<<"decision", e, 0>>}
                  \union ({"condition", "mcdc-unique"} \X {e} \X Conditions(plan[e].tree))
           [] plan[e].type = "function" ->
                {<<"function", e, 0>>} \union ({"statement"} \X {e} \X plan[e].blocks)
           [] plan[e].type = "clause" ->
                {<<"body", e, 0>>}
                  \union (IF HasSelection(plan[e]) THEN {<<"selection", e, 0>>} ELSE {})
           [] plan[e].type = "noMatch" -> {<<"selection", e, 0>>}
         : e \in DOMAIN plan}
-----------------------------------------------------------------------------
(* MetricSummary: counts of units by what is known of them.                *)
Nothing == [covered |-> 0, total |-> 0, unsupported |-> 0, unknown |-> 0]
UnknownUnits(n) == [Nothing EXCEPT !.unknown = n]
UnsupportedUnits(n) == [Nothing EXCEPT !.unsupported = n]
Known(covered, total) == [Nothing EXCEPT !.covered = covered, !.total = total]

Add(a, b) ==
  [covered |-> a.covered + b.covered, total |-> a.total + b.total,
   unsupported |-> a.unsupported + b.unsupported, unknown |-> a.unknown + b.unknown]

Units(state, covered, total) ==
  CASE state = "unknown"     -> UnknownUnits(total)
    [] state = "unsupported" -> UnsupportedUnits(total)
    [] state = "normal"      -> Known(covered, total)
-----------------------------------------------------------------------------
(* Evidence of one execution.                                              *)
Rejects(run, producer) == producer \in run.rejected

RunsAst(plan, run, p) ==
  /\ ~Rejects(run, "ast")
  /\ \/ \E v \in run.evaluations : plan[v.decision].package = p
     \/ \E o \in run.observations : o[1] = "body" /\ plan[o[2]].package = p

RunsCompiled(plan, run, p) ==
  /\ ~Rejects(run, "compiler")
  /\ \E o \in run.observations : o[1] = "selection" /\ plan[o[2]].package = p

(* ensurePackageBuilder: a package that the test run does not list has the *)
(* status of the run.  A status of go test itself comes first, as          *)
(* astPackageStatus has it.                                                *)
StatusOf(run, p) == IF p \in DOMAIN run.packages THEN run.packages[p] ELSE run.status

AstStatusOf(run, p, otherwise) ==
  IF p \in DOMAIN run.astPackages THEN run.astPackages[p] ELSE otherwise

PackageUnknown(status, evidence) ==
  ~evidence /\ status \in {"failed", "build-failed", "started", "timeout"}

Unavailable(run, producer, status, evidence, probe) ==
  \/ Rejects(run, producer)
  \/ probe \notin run.probes
  \/ PackageUnknown(status, evidence)

StateOfEntity(unavailable, e) ==
  IF unavailable THEN "unknown" ELSE IF Supported(e) THEN "normal" ELSE "unsupported"

DecisionState(plan, run, d, status) ==
  StateOfEntity(Unavailable(run, "ast", status, RunsAst(plan, run, plan[d].package),
                            <<"decision", d>>),
                plan[d])

BodyState(plan, run, c) ==
  LET p == plan[c].package
  IN  StateOfEntity(Unavailable(run, "ast", AstStatusOf(run, p, StatusOf(run, p)),
                                RunsAst(plan, run, p), <<"body", c>>),
                    plan[c])

SelectionState(plan, run, c) ==
  LET p == plan[c].package
  IN  IF Unavailable(run, "compiler", AstStatusOf(run, p, StatusOf(run, p)),
                     RunsCompiled(plan, run, p), <<"selection", c>>)
      THEN "unknown" ELSE "normal"
-----------------------------------------------------------------------------
(* The outcomes of a decision, its conditions and their Unique-Cause pairs *)
(* in a set of evaluations; of conditions that can be covered.             *)
Completed(evaluations) == {v \in evaluations : v.status = "completed"}

Outcomes(tree, evaluations) ==
  {ResultOf(tree, v.states) : v \in Completed(evaluations)}

ConditionOutcomes(i, evaluations) ==
  {v.states[i] : v \in Completed(evaluations)} \ {"notEvaluated"}

PairCovers(tree, i, evaluations) ==
  \E v, w \in Completed(evaluations) :
    /\ v.states[i] = "true" /\ w.states[i] = "false"
    /\ ResultOf(tree, v.states) # ResultOf(tree, w.states)
    /\ \A j \in Conditions(tree) \ {i} : v.states[j] = w.states[j]

DecisionUnits(plan, o, state, evaluations) ==
  LET tree == plan[o[2]].tree
  IN  CASE o[1] = "decision"  -> Units(state, Cardinality(Outcomes(tree, evaluations)), 2)
        [] o[1] = "condition" -> Units(state, Cardinality(ConditionOutcomes(o[3], evaluations)), 2)
        [] o[1] = "mcdc-unique" ->
             Units(state, IF PairCovers(tree, o[3], evaluations) THEN 1 ELSE 0, 1)

EvaluationsOf(run, d) == {v \in run.evaluations : v.decision = d}

(* addC0Function: a block counts where its counter is evidence; a function *)
(* is covered by one such block, and not covered only if all of them are.  *)
Executed(run, f, b) == run.blocks[f][b].evidence /\ run.blocks[f][b].count > 0

FunctionUnits(plan, run, f) ==
  IF Rejects(run, "cover") THEN UnknownUnits(1)
  ELSE IF \E b \in plan[f].blocks : Executed(run, f, b) THEN Known(1, 1)
  ELSE IF \A b \in plan[f].blocks : run.blocks[f][b].evidence THEN Known(0, 1)
  ELSE UnknownUnits(1)

StatementUnits(run, f, b) ==
  IF Rejects(run, "cover") \/ ~run.blocks[f][b].evidence THEN UnknownUnits(1)
  ELSE Known(IF Executed(run, f, b) THEN 1 ELSE 0, 1)

Observed01(run, event, e) == IF <<event, e>> \in run.observations THEN 1 ELSE 0

(* Analyze: every obligation in one execution.                             *)
Single(plan, run, o) ==
  LET e == o[2]
      p == plan[e].package
  IN  CASE plan[e].type = "decision" ->
             DecisionUnits(plan, o,
                           DecisionState(plan, run, e, AstStatusOf(run, p, StatusOf(run, p))),
                           EvaluationsOf(run, e))
        [] o[1] = "body" ->
             Units(BodyState(plan, run, e), Observed01(run, "body", e), 1)
        [] o[1] = "selection" ->
             Units(SelectionState(plan, run, e), Observed01(run, "selection", e), 1)
        [] o[1] = "statement" -> StatementUnits(run, e, o[3])
        [] o[1] = "function"  -> FunctionUnits(plan, run, e)
-----------------------------------------------------------------------------
(* Several executions, in the order of their identities.                   *)

(* A mistake: the later execution replaces what was known. *)
UnionObligationReplaces(a, b) == IF b.unknown > 0 THEN a ELSE b

(* unionObligation                                                         *)
UnionObligation(a, b) ==
  IF \/ b.covered > a.covered
     \/ a.total = 0 /\ b.total > 0
     \/ a.unknown > 0 /\ b.unsupported > 0
  THEN b ELSE a

(* sourceDecisionState: no status where the execution lists none.          *)
ListedStatus(run, p) == IF p \in DOMAIN run.packages THEN run.packages[p] ELSE ""

SourceDecisionState(plan, run, d) ==
  LET p == plan[d].package
  IN  DecisionState(plan, run, d, AstStatusOf(run, p, ListedStatus(run, p)))

(* A mistake: an execution without evidence makes the decision unknown. *)
UnionDecisionStateWorst(plan, runs, d) ==
  LET states == {SourceDecisionState(plan, runs[i], d) : i \in DOMAIN runs}
  IN  IF "unknown" \in states THEN "unknown"
      ELSE IF "unsupported" \in states THEN "unsupported" ELSE "normal"

UnionDecisionState(plan, runs, d) ==
  LET states == {SourceDecisionState(plan, runs[i], d) : i \in DOMAIN runs}
  IN  IF "normal" \in states THEN "normal"
      ELSE IF "unsupported" \in states THEN "unsupported" ELSE "unknown"

UnionEvaluations(plan, runs, d) ==
  UNION {EvaluationsOf(runs[i], d) :
           i \in {k \in DOMAIN runs : SourceDecisionState(plan, runs[k], d) = "normal"}}

(* mergeFunction                                                           *)
Merged(plan, runs, o) ==
  IF plan[o[2]].type = "decision"
  THEN DecisionUnits(plan, o, UnionDecisionState(plan, runs, o[2]),
                     UnionEvaluations(plan, runs, o[2]))
  ELSE FoldLeft(LAMBDA units, run : UnionObligation(units, Single(plan, run, o)),
                Single(plan, runs[1], o), Tail(runs))

(* A statement's counters are summed and must not overflow.                *)
Total(runs, f, b) == FoldLeft(LAMBDA sum, run : sum + run.blocks[f][b].count, 0, runs)

Overflows(plan, runs) ==
  /\ Len(runs) > 1
  /\ \E f \in {e \in DOMAIN plan : plan[e].type = "function"} :
       \E b \in plan[f].blocks : Total(runs, f, b) > MaxCount

(* FromMeasurement                                                         *)
Report(plan, runs) ==
  [o \in Obligations(plan) |->
     IF Len(runs) = 1 THEN Single(plan, runs[1], o) ELSE Merged(plan, runs, o)]

(* rebuildSummaries: the metric of an obligation, and the sum per metric.  *)
MetricOf(plan, o) ==
  IF o[1] \notin {"body", "selection"} THEN <<o[1]>>
  ELSE IF plan[o[2]].kind = "conditionless-switch" THEN <<o[1], "expression-switch">>
  ELSE <<o[1], plan[o[2]].kind>>

SummaryOf(plan, report) ==
  LET metrics == {MetricOf(plan, o) : o \in DOMAIN report}
  IN  [m \in metrics |->
         MapThenFoldSet(Add, Nothing, LAMBDA o : report[o], LAMBDA S : CHOOSE o \in S : TRUE,
                        {o \in DOMAIN report : MetricOf(plan, o) = m})]

Summary(plan, runs) == SummaryOf(plan, Report(plan, runs))
-----------------------------------------------------------------------------
(* The outcome of the executions together.                                 *)
ResultRank(r) ==
  CASE r = "not-requested" -> 0 [] r = "passed" -> 1 [] r = "not-run" -> 2
    [] r = "failed" -> 3 [] r = "timeout" -> 4
CombinedResult(a, b) == IF ResultRank(b) > ResultRank(a) THEN b ELSE a

CombinedRunStatus(a, b) ==
  IF "timeout" \in {a, b} THEN "timeout" ELSE IF "failed" \in {a, b} THEN "failed" ELSE "passed"

PackageRank(s) ==
  CASE s = "passed" -> 1 [] s = "started" -> 2 [] s = "failed" -> 3
    [] s = "build-failed" -> 4 [] s = "timeout" -> 5 [] OTHER -> 0
CombinedPackageStatus(a, b) == IF PackageRank(b) > PackageRank(a) THEN b ELSE a

(* A mistake: the first failure is kept. *)
CombinedFailureFirst(a, b) == IF a = "none" THEN b ELSE a

CombinedFailure(a, b) ==
  IF a = "none" THEN b ELSE IF b \in {"none", a} THEN a ELSE "mixed"

CombinedRun(plan, runs) ==
  LET fold(op(_, _), field(_)) ==
        FoldLeft(LAMBDA acc, run : op(acc, field(run)), field(runs[1]), Tail(runs))
  IN  [status   |-> fold(CombinedRunStatus, LAMBDA run : run.status),
       failure  |-> fold(CombinedFailure, LAMBDA run : run.failure),
       complete |-> \A i \in DOMAIN runs : runs[i].complete,
       test     |-> fold(CombinedResult, LAMBDA run : run.test),
       packages |-> [p \in {plan[e].package : e \in DOMAIN plan} |->
                       fold(CombinedPackageStatus, LAMBDA run : StatusOf(run, p))]]

(* buildInstrumentationReport and HasGaps: an entity that has no probe in  *)
(* any execution, or that no backend supports.                             *)
Probed(runs, hook, e) == \E i \in DOMAIN runs : <<hook, e>> \in runs[i].probes

HasGaps(plan, runs) ==
  \E e \in DOMAIN plan :
    \/ plan[e].type = "decision" /\ ~(Supported(plan[e]) /\ Probed(runs, "decision", e))
    \/ plan[e].type = "clause" /\ ~(Supported(plan[e]) /\ Probed(runs, "body", e))
    \/ HasSelection(plan[e]) /\ ~Probed(runs, "selection", e)
    \/ plan[e].type = "function" /\ \E b \in plan[e].blocks :
         \A i \in DOMAIN runs : ~runs[i].blocks[e][b].evidence

(* requirements.Evaluate                                                   *)
Undecided(metric) == metric.unknown > 0 \/ metric.unsupported > 0

CompleteSatisfied(plan, runs) ==
  /\ CombinedRun(plan, runs).complete
  /\ ~HasGaps(plan, runs)
  /\ LET summary == Summary(plan, runs)
     IN  \A m \in DOMAIN summary : ~Undecided(summary[m])

MinimumSatisfied(metric, minimum) ==
  /\ metric.total > 0
  /\ metric.covered * 100 >= minimum * metric.total
  /\ ~Undecided(metric)
=============================================================================
