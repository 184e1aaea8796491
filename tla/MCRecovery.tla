----------------------------- MODULE MCRecovery -----------------------------
(* Small instances of Recovery. *)
EXTENDS Recovery

CONSTANTS c1

MCCalls == {c1}
MCClauseOf == [c \in {c1} |-> "clause"]

(* All evaluations are of one decision in one test, which skips another    *)
(* when it selects: those with the same values have the same data.         *)
MCSite == [e \in 1..N |-> 1]
MCSkips == [e \in 1..N |-> {3}]
OneCondition == {"c"}
=============================================================================
