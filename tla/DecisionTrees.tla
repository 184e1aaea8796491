---------------------------- MODULE DecisionTrees ----------------------------
(* Read-once decisions, conditions in source order, to analyze.            *)
EXTENDS Integers, Sequences

Leaf(i) == <<[kind |-> "condition", index |-> i]>>
Const(b) == <<[kind |-> "constant", constant |-> b]>>

Shift(E, by) ==
  [n \in DOMAIN E |->
     CASE E[n].kind \in {"condition", "constant"} -> E[n]
       [] E[n].kind = "not" -> [E[n] EXCEPT !.left = @ + by]
       [] OTHER -> [E[n] EXCEPT !.left = @ + by, !.right = @ + by]]

Not(E) == <<[kind |-> "not", left |-> 2]>> \o Shift(E, 1)
Binary(kind, L, R) ==
  <<[kind |-> kind, left |-> 2, right |-> Len(L) + 2]>>
    \o Shift(L, 1) \o Shift(R, Len(L) + 1)

Leaves(i, negated) == IF negated THEN {Leaf(i), Not(Leaf(i))} ELSE {Leaf(i)}

(* All trees over the conditions from i to j, with or without negated      *)
(* conditions.                                                             *)
RECURSIVE Trees(_, _, _)
Trees(i, j, negated) ==
  IF i = j THEN Leaves(i, negated)
  ELSE UNION {{Binary(kind, L, R) : kind \in {"and", "or"},
                 L \in Trees(i, m, negated), R \in Trees(m + 1, j, negated)} :
                m \in i..(j - 1)}

(* Constant operands, which the package accepts and the analyzer of Go     *)
(* source does not produce.                                                *)
ConstantExpressions ==
  UNION {{Binary(kind, Leaf(1), Binary(other, Const(b), Leaf(2))),
          Binary(kind, Leaf(1), Const(b)), Binary(kind, Const(b), Leaf(1))} :
           kind \in {"and", "or"}, other \in {"and", "or"}, b \in BOOLEAN}
=============================================================================
