--------------------------- MODULE MCDecisionPool ---------------------------
(* A pool of two, of three and of one worker.                              *)
EXTENDS DecisionPool

MCConfigured == {-1, 0, 7}
=============================================================================
