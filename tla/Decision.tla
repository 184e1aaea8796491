------------------------------ MODULE Decision ------------------------------
(***************************************************************************)
(* Boolean decisions and their observed evaluations, as internal/mcdc      *)
(* reads them.  An expression is the sequence of its nodes, the root first *)
(* and every node before its operands; a condition occurs in one node.     *)
(* An observed vector has a state for every condition.                     *)
(***************************************************************************)
EXTENDS Integers, Sequences, FiniteSets

State == {"notEvaluated", "false", "true"}
StateOf(value) == IF value THEN "true" ELSE "false"

Conditions(E) == {E[n].index : n \in {m \in DOMAIN E : E[m].kind = "condition"}}

(* evaluateFull: the value of every node under a complete assignment.      *)
NodeValues(E, z) ==
  LET value[n \in DOMAIN E] ==
        IF E[n].kind = "condition" THEN z[E[n].index]
        ELSE IF E[n].kind = "constant" THEN E[n].constant
        ELSE IF E[n].kind = "not" THEN ~value[E[n].left]
        ELSE IF E[n].kind = "and" THEN value[E[n].left] /\ value[E[n].right]
        ELSE value[E[n].left] \/ value[E[n].right]
  IN  value

Value(E, z) == NodeValues(E, z)[1]

Operands(E, n) ==
  CASE E[n].kind = "not"           -> {E[n].left}
    [] E[n].kind \in {"and", "or"} -> {E[n].left, E[n].right}
    [] OTHER                       -> {}

(* containsCondition, and the conditions it finds.                         *)
Below(E) ==
  LET below[n \in DOMAIN E] ==
        IF E[n].kind = "condition" THEN {E[n].index}
        ELSE UNION {below[m] : m \in Operands(E, n)}
  IN  below

(***************************************************************************)
(* inspectExpression: the operands of an operator come after it and have no*)
(* condition in common, a condition is in one node, and every node but the *)
(* root is the operand of one other.                                       *)
(***************************************************************************)
WellFormed(E) ==
  /\ Len(E) \in Nat \ {0} /\ DOMAIN E = 1..Len(E)
  /\ \A n \in DOMAIN E :
       /\ E[n].kind \in {"condition", "constant", "not", "and", "or"}
       /\ E[n].kind = "condition" => E[n].index \in Nat
       /\ E[n].kind = "constant" => E[n].constant \in BOOLEAN
       /\ Operands(E, n) \subseteq (n + 1)..Len(E)
       /\ E[n].kind \in {"and", "or"} =>
            /\ E[n].left # E[n].right
            /\ Below(E)[E[n].left] \cap Below(E)[E[n].right] = {}
       /\ E[n].kind = "condition" => \A m \in DOMAIN E :
            E[m].kind = "condition" /\ E[m].index = E[n].index => m = n
  /\ \A n \in DOMAIN E \ {1} : \E m \in DOMAIN E : \A k \in DOMAIN E :
       n \in Operands(E, k) <=> k = m

(***************************************************************************)
(* evaluateObserved replays the short-circuit control flow: the result of  *)
(* every node, or nothing if a reached condition has no value or a skipped *)
(* one has.                                                                *)
(***************************************************************************)
NodeOutcomes(E, states) ==
  LET below == Below(E)
      skipped(n) == \A i \in below[n] : states[i] = "notEvaluated"
      observed[n \in DOMAIN E] ==
        IF E[n].kind = "condition"
        THEN {b \in BOOLEAN : states[E[n].index] = StateOf(b)}
        ELSE IF E[n].kind = "constant" THEN {E[n].constant}
        ELSE IF E[n].kind = "not" THEN {~b : b \in observed[E[n].left]}
        ELSE LET decides == E[n].kind = "or"  \* the value that short-circuits
             IN  {b \in BOOLEAN :
                    \E l \in observed[E[n].left] :
                      IF l = decides THEN b = l /\ skipped(E[n].right)
                      ELSE b \in observed[E[n].right]}
  IN  observed

Observed(E, states) == NodeOutcomes(E, states)[1]

(* The vectors that some execution can leave behind.                       *)
Vectors(E) ==
  {s \in [Conditions(E) -> State] : Observed(E, s) # {}}

ResultOf(E, s) == TRUE \in Observed(E, s)

(* lessEvaluation, on vectors of one decision. *)
Rank(state) == CASE state = "notEvaluated" -> 0 [] state = "false" -> 1
                 [] OTHER -> 2
Less(s, t) ==
  \E i \in DOMAIN s : /\ Rank(s[i]) < Rank(t[i])
                      /\ \A j \in DOMAIN s : j < i => s[j] = t[j]

(* prepareEvaluations, of the vectors that a decision can leave behind.    *)
Prepared(vectors) ==
  [k \in 1..Cardinality(vectors) |->
     CHOOSE s \in vectors : Cardinality({t \in vectors : Less(t, s)}) = k - 1]

(* computeFeasibility: the values a subtree can take with these states.    *)
Feasible(E, states) ==
  LET feasible[n \in DOMAIN E] ==
        IF E[n].kind = "condition"
        THEN {b \in BOOLEAN : states[E[n].index] \in {"notEvaluated", StateOf(b)}}
        ELSE IF E[n].kind = "constant" THEN {E[n].constant}
        ELSE IF E[n].kind = "not" THEN {~b : b \in feasible[E[n].left]}
        ELSE {IF E[n].kind = "and" THEN l /\ r ELSE l \/ r :
                l \in feasible[E[n].left], r \in feasible[E[n].right]}
  IN  feasible

(***************************************************************************)
(* findPivotalPath: what the siblings on the path from a node to the       *)
(* target must be for it to decide the node's result.                      *)
(***************************************************************************)
NeutralValue(kind) == kind = "and"
PivotalPaths(E, target) ==
  LET below == Below(E)
      path[n \in DOMAIN E] ==
        IF E[n].kind \in {"condition", "constant"} THEN {}
        ELSE IF E[n].kind = "not" THEN path[E[n].left]
        ELSE LET onPath == target \in below[E[n].left]
             IN  path[IF onPath THEN E[n].left ELSE E[n].right]
                   \cup {[sibling |-> IF onPath THEN E[n].right ELSE E[n].left,
                          desired |-> NeutralValue(E[n].kind)]}
  IN  path

PivotalPath(E, target) == PivotalPaths(E, target)[1]

StructurallyPivotal(E, target) ==
  /\ target \in Conditions(E)
  /\ LET free == Feasible(E, [i \in Conditions(E) |-> "notEvaluated"])
     IN  \A step \in PivotalPath(E, target) : step.desired \in free[step.sibling]

(***************************************************************************)
(* The definitions of the metrics, D10 of docs/specification.md: the       *)
(* complete assignments consistent with a vector and its path, and those   *)
(* in which a condition decides the result.                                *)
(***************************************************************************)
Assignments(E) == [Conditions(E) -> BOOLEAN]

Comp(E, s) ==
  {z \in Assignments(E) :
     \A i \in Conditions(E) : s[i] \in {"notEvaluated", StateOf(z[i])}}

Masked(E, z, i) == Value(E, z) = Value(E, [z EXCEPT ![i] = ~@])
=============================================================================
