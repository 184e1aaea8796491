------------------------------ MODULE MCMasking ------------------------------
(* Masking alone: (1 || 2) && (3 || 4) && (5 || 6), evaluated once with the*)
(* first operand of every || true, and once with the first || false in its *)
(* first operand and the second || false.                                  *)
EXTENDS Masking, DecisionTrees

Or(i, j) == Binary("or", Leaf(i), Leaf(j))
MCExpression == Binary("and", Or(1, 2), Binary("and", Or(3, 4), Or(5, 6)))

Took == <<"true", "notEvaluated", "true", "notEvaluated", "true", "notEvaluated">>
Refused == <<"false", "true", "false", "false", "notEvaluated", "notEvaluated">>

MCDecisions ==
  {[expression |-> MCExpression, suite |-> Prepared({Took, Refused}), enabled |-> {"masking"}]}
=============================================================================
