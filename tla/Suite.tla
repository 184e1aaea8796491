-------------------------------- MODULE Suite --------------------------------
(***************************************************************************)
(* What both MC/DC criteria of a decision are asked about (internal/mcdc): *)
(* its expression, and the evaluations of it that were observed.           *)
(***************************************************************************)
EXTENDS Decision

VARIABLES
  expression,   \* metadata.ExpressionTree
  evaluations   \* the prepared evaluations: sorted and distinct

Indexes == 1..Len(evaluations)
=============================================================================
