----------------------------- MODULE MCJournal -----------------------------
(* Small instances of Journal. *)
EXTENDS Journal

CONSTANTS c1, c2

MCCalls == {c1, c2}
OneCall == {c1}
MCClauseOf == [c \in {c1, c2} |-> "clause"]

(* All evaluations are of one decision in one test, so that those with the *)
(* same result have the same data and are merged.                          *)
MCSite == [e \in 1..N |-> 1]
MCSkips == [e \in 1..N |-> {3}]
OneCondition == {"c"}
=============================================================================
