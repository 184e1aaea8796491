----------------------------- MODULE UniqueCause -----------------------------
(***************************************************************************)
(* Unique-Cause MC/DC of one condition (internal/mcdc/mcdc.go,             *)
(* uniqueCauseWitness and the status that UniqueCauseStrategy.Analyze      *)
(* derives from it): a bounded scan of the pairs of evaluations, then,     *)
(* when the bound is reached, an index by the other conditions' states.    *)
(***************************************************************************)
EXTENDS Suite, FiniteSetsExt

CONSTANTS Expressions,  \* the decisions that are analyzed
          ProbeLimit,   \* probeLimit
          SmallSuite    \* suites up to this size are scanned in full

ASSUME LimitAssumption == ProbeLimit \in Nat \ {0} /\ SmallSuite \in Nat

(* validateExpression: a malformed decision is not analyzed.               *)
ASSUME ExpressionsAssumption == \A E \in Expressions : WellFormed(E)

VARIABLES
  target,       \* the condition
  first, second, \* the pair that the scan is at
  probes,       \* pairs tried
  phase,        \* "probing", "indexing" or "done"
  witness       \* the set of the pair found

vars == <<expression, evaluations, target, first, second, probes, phase, witness>>

Result(k) == ResultOf(expression, evaluations[k])
States(k) == evaluations[k]

Init ==
  /\ expression \in Expressions
  /\ \E suite \in SUBSET Vectors(expression) : evaluations = Prepared(suite)
  /\ target \in Conditions(expression)
  /\ first = 1
  /\ second = 2
  /\ probes = 0
  /\ phase = "probing"
  /\ witness = {}

PairMatches(k, l) ==
  /\ Result(k) # Result(l)
  /\ States(k)[target] # "notEvaluated"
  /\ States(l)[target] # "notEvaluated"
  /\ States(k)[target] # States(l)[target]
  /\ \A i \in Conditions(expression) \ {target} : States(k)[i] = States(l)[i]

FullScanLimit ==
  IF Len(evaluations) <= SmallSuite THEN Len(evaluations) * Len(evaluations)
  ELSE ProbeLimit

Probe ==
  /\ phase = "probing"
  /\ second <= Len(evaluations)
  /\ IF PairMatches(first, second)
     THEN /\ witness' = {<<first, second>>}
          /\ phase' = "done"
          /\ UNCHANGED <<first, second, probes>>
     ELSE /\ probes' = probes + 1
          /\ second' = second + 1
          /\ phase' = IF probes' = FullScanLimit THEN "indexing" ELSE phase
          /\ UNCHANGED <<first, witness>>
  /\ UNCHANGED <<expression, evaluations, target>>

NextFirst ==
  /\ phase = "probing"
  /\ second > Len(evaluations)
  /\ IF first < Len(evaluations)
     THEN first' = first + 1 /\ second' = first + 2 /\ UNCHANGED phase
     ELSE phase' = "indexing" /\ UNCHANGED <<first, second>>
  /\ UNCHANGED <<expression, evaluations, target, probes, witness>>

(* A small suite has been scanned in full. *)
GiveUp ==
  /\ phase = "indexing"
  /\ Len(evaluations) <= SmallSuite
  /\ phase' = "done"
  /\ UNCHANGED <<expression, evaluations, target, first, second, probes, witness>>

(***************************************************************************)
(* The evaluations that have the states of k but for the target, by their  *)
(* result and the target's value; and the one that k is paired with: the   *)
(* next one of the opposite result and value.                              *)
(***************************************************************************)
Group(k, result, state) ==
  {l \in Indexes : /\ States(l)[target] = state
                   /\ Result(l) = result
                   /\ \A i \in Conditions(expression) \ {target} :
                        States(l)[i] = States(k)[i]}

Opposite(state) == IF state = "true" THEN "false" ELSE "true"

(* A mistake: the search starts behind the next evaluation. *)
PartnersAfterNext(k) ==
  {l \in Group(k, ~Result(k), Opposite(States(k)[target])) : l > k + 1}

Partners(k) ==
  {l \in Group(k, ~Result(k), Opposite(States(k)[target])) : l > k}

Index ==
  /\ phase = "indexing"
  /\ Len(evaluations) > SmallSuite
  /\ LET candidates == {k \in Indexes : States(k)[target] # "notEvaluated"
                                          /\ Partners(k) # {}}
         best == Min(candidates)
     IN  witness' = IF candidates = {} THEN {} ELSE {<<best, Min(Partners(best))>>}
  /\ phase' = "done"
  /\ UNCHANGED <<expression, evaluations, target, first, second, probes>>

Next == Probe \/ NextFirst \/ GiveUp \/ Index

Spec == Init /\ [][Next]_vars
-----------------------------------------------------------------------------
(***************************************************************************)
(* The status of a condition that no pair covers.                          *)
(* A mistake: conditions on either side of the target are in its way. *)
CompatibleAlone(E, i) ==
  \A n \in DOMAIN E : E[n].kind \in {"and", "or"} => i \notin Below(E)[n]

(* uniqueCauseEvaluationCompatible: nothing to the right of a short-circuit*)
(* operator depends on whether its left operand, with the target, decides. *)
Compatible(E, i) ==
  \A n \in DOMAIN E :
    E[n].kind \in {"and", "or"} /\ i \in Below(E)[E[n].left]
      => Below(E)[E[n].right] = {}

Infeasible == ~StructurallyPivotal(expression, target)
                \/ ~Compatible(expression, target)

Status ==
  IF phase # "done" THEN "open"
  ELSE IF witness # {} THEN "covered"
  ELSE IF Infeasible THEN "infeasible" ELSE "notCovered"
-----------------------------------------------------------------------------
(***************************************************************************)
(* The pairs of D18, over any suite.                                       *)
(***************************************************************************)
PairsIn(vectors) ==
  {p \in vectors \X vectors :
     /\ {p[1][target], p[2][target]} = {"true", "false"}
     /\ ResultOf(expression, p[1]) # ResultOf(expression, p[2])
     /\ \A i \in Conditions(expression) \ {target} : p[1][i] = p[2][i]}

FirstPairs ==
  {w \in Indexes \X Indexes :
     w[1] < w[2] /\ <<evaluations[w[1]], evaluations[w[2]]>>
                      \in PairsIn({evaluations[k] : k \in Indexes})}

(***************************************************************************)
(* The witness is the first pair that D18 admits, whether the bounded scan *)
(* or the index finds it; none is reported only if none is there           *)
(* (uniqueCauseWitness).                                                   *)
(***************************************************************************)
FindsTheFirstPair ==
  phase = "done" =>
    IF FirstPairs = {} THEN witness = {}
    ELSE /\ witness \subseteq FirstPairs
         /\ \E w \in witness : \A v \in FirstPairs :
              w[1] < v[1] \/ (w[1] = v[1] /\ w[2] <= v[2])

(***************************************************************************)
(* A condition is reported infeasible only if no suite whatsoever could    *)
(* cover it, and never after a suite that could be completed to cover it.  *)
(***************************************************************************)
InfeasibleMeansImpossible ==
  Status = "infeasible" => PairsIn(Vectors(expression)) = {}

(***************************************************************************)
(* What the status excuses no suite could cover, and an obligation that is *)
(* left open to the tests can be met by tests                              *)
(* (uniqueCauseStructurallyFeasible).                                      *)
(***************************************************************************)
StatusIsHonest ==
  /\ InfeasibleMeansImpossible
  /\ Status = "notCovered" => PairsIn(Vectors(expression)) # {}
=============================================================================
