------------------------------ MODULE MCCriteria -----------------------------
(* Masking of decisions of up to three conditions with any suite of their  *)
(* vectors and of four conditions with small suites; Unique Cause of the   *)
(* read-once decisions of up to four conditions with every suite; and both *)
(* of decisions of up to three conditions.                                 *)
EXTENDS Criteria, DecisionTrees

WithSuites(criteria, expressions, sizes) ==
  UNION {{[expression |-> E, suite |-> Prepared(S), enabled |-> criteria] :
            S \in {T \in SUBSET Vectors(E) : Cardinality(T) \in sizes}} :
           E \in expressions}

MaskingDecisions ==
  WithSuites({"masking"},
             ConstantExpressions \cup Trees(1, 2, TRUE) \cup Trees(1, 3, FALSE), 0..5)
    \cup WithSuites({"masking"}, {Not(E) : E \in Trees(1, 3, FALSE)}, 2..3)
    \cup WithSuites({"masking"}, Trees(1, 4, FALSE), 2..3)

UniqueCauseDecisions ==
  WithSuites({"unique"},
    Trees(1, 1, TRUE) \cup Trees(1, 2, TRUE) \cup Trees(1, 3, TRUE)
      \cup {Not(E) : E \in Trees(1, 3, FALSE)}
      \cup {Binary(kind, L, R) : kind \in {"and", "or"},
               L \in Trees(1, 2, FALSE), R \in Trees(3, 4, FALSE)}, 0..9)

BothDecisions ==
  WithSuites({"unique", "masking"},
             ConstantExpressions \cup Trees(1, 2, TRUE) \cup Trees(1, 3, FALSE), 2..5)

MCDecisions == MaskingDecisions \cup UniqueCauseDecisions \cup BothDecisions
MCExpressions == {d.expression : d \in MCDecisions}
=============================================================================
