------------------------------- MODULE Offline ------------------------------
(***************************************************************************)
(* A growing measurement: archives of one execution each are merged into   *)
(* it (measurement.Merge keeps the executions in the order of their random *)
(* identities), and after every merge it is analyzed and required of.      *)
(***************************************************************************)
EXTENDS Analysis

CONSTANT Cases    \* plans by name, each with the executions that it may have, and how many

(* Plans and evidence are finite; and what the test runner can say of a     *)
(* run, of its tests and of a package.                                      *)
ASSUME CasesAssumption ==
  \A c \in DOMAIN Cases :
    /\ IsFiniteSet(Obligations(Cases[c].plan))
    /\ \A e \in DOMAIN Cases[c].plan :
         Cases[c].plan[e].type \in {"decision", "clause", "noMatch", "function"}
    /\ \A run \in Cases[c].executions :
         /\ IsFiniteSet(run.evaluations)
         /\ run.status \in {"passed", "failed", "timeout"}
         /\ run.test \in {"not-requested", "passed", "not-run", "failed", "timeout"}
         /\ \A p \in DOMAIN run.packages :
              run.packages[p] \in {"skipped", "passed", "started", "failed", "build-failed",
                                  "timeout"}

VARIABLES case,   \* which of the cases, never changed
          plan,   \* its plan
          runs    \* the executions merged so far, in the order of their identities

vars == <<case, plan, runs>>

Init ==
  /\ case \in DOMAIN Cases
  /\ plan = Cases[case].plan
  /\ \E run \in Cases[case].executions : runs = <<run>>

(* The identity of the next execution falls anywhere between the others.   *)
MergeExecution ==
  /\ Len(runs) < Cases[case].max
  /\ \E run \in Cases[case].executions, i \in 1..(Len(runs) + 1) : runs' = InsertAt(runs, i, run)
  /\ UNCHANGED <<case, plan>>

(* Counters that overflow end the analysis with an error.                  *)
Analyzed == ~Overflows(plan, runs)

Next == MergeExecution

Spec == Init /\ [][Next]_vars
-----------------------------------------------------------------------------
(***************************************************************************)
(* An obligation is as well known in the union as in the execution that    *)
(* knows most of it: unsupported before unknown, not covered before        *)
(* unsupported.  Outcomes and pairs are taken from the evaluations of all  *)
(* executions that know the decision, and of no other.  Decisions of a     *)
(* package that an execution does not list are subject to the property     *)
(* after this one.                                                         *)
(***************************************************************************)
Knowing(o) == {i \in DOMAIN runs : Single(plan, runs[i], o).total > 0}

FromKnowing(o) == UNION {EvaluationsOf(runs[i], o[2]) : i \in Knowing(o)}

Best(o) ==
  IF Knowing(o) # {}
  THEN IF plan[o[2]].type = "decision" THEN DecisionUnits(plan, o, "normal", FromKnowing(o))
       ELSE Known(IF \E i \in Knowing(o) : Single(plan, runs[i], o).covered > 0 THEN 1 ELSE 0, 1)
  ELSE IF \E i \in DOMAIN runs : Single(plan, runs[i], o).unsupported > 0
  THEN CHOOSE m \in {Single(plan, runs[i], o) : i \in DOMAIN runs} : m.unsupported > 0
  ELSE Single(plan, runs[1], o)

Listed(e) ==
  \A i \in DOMAIN runs :
    e.package \in DOMAIN runs[i].packages \/ Rejects(runs[i], "ast")

UnionIsBest ==
  Analyzed => \A o \in Obligations(plan) :
    (plan[o[2]].type = "decision" => Listed(plan[o[2]])) => Report(plan, runs)[o] = Best(o)

(***************************************************************************)
(* What no execution can tell stays unknown in the union: nothing turns    *)
(* into a measured and missed outcome by being merged.                     *)
(***************************************************************************)
MissingStaysUnknown ==
  \A o \in Obligations(plan) :
    (\A i \in DOMAIN runs : Single(plan, runs[i], o).unknown > 0) => Report(plan, runs)[o].unknown > 0

(***************************************************************************)
(* The identities are random: the order they give the executions does not  *)
(* change a count, a requirement, or the outcome of the whole.             *)
(***************************************************************************)
Reorderings ==
  {[i \in DOMAIN runs |-> runs[p[i]]] :
     p \in {q \in [DOMAIN runs -> DOMAIN runs] : IsInjective(q)}}

OrderIsImmaterial ==
  \A other \in Reorderings :
    /\ Report(plan, other) = Report(plan, runs)
    /\ CombinedRun(plan, other) = CombinedRun(plan, runs)
    /\ CompleteSatisfied(plan, other) = CompleteSatisfied(plan, runs)

(***************************************************************************)
(* Another execution of the same plan cannot take a satisfied minimum      *)
(* away.                                                                   *)
(***************************************************************************)
MinimumsStaySatisfied ==
  [][Analyzed /\ Analyzed' => \A m \in DOMAIN Summary(plan, runs) :
       \A minimum \in {1, 50, 100} :
         MinimumSatisfied(Summary(plan, runs)[m], minimum)
           => MinimumSatisfied(Summary(plan, runs')[m], minimum)]_vars
=============================================================================
