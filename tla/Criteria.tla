------------------------------ MODULE Criteria ------------------------------
(***************************************************************************)
(* Both MC/DC criteria of one decision, as buildDecisionReport asks for    *)
(* them (internal/analysis/report.go): first Unique Cause, of one of the   *)
(* decision's conditions, then masking, of all of them; each only if it is *)
(* enabled, and both on the same evaluations.                              *)
(***************************************************************************)
EXTENDS UniqueCause, Masking

VARIABLE enabled   \* the criteria asked for

criteriaVars == <<vars, enabled, maskingVars>>

CriteriaInit ==
  /\ \E d \in Decisions : /\ expression = d.expression
                          /\ evaluations = d.suite
                          /\ enabled = d.enabled
  /\ target \in IF "unique" \in enabled THEN Conditions(expression) ELSE {1}
  /\ first = 1 /\ second = 2 /\ probes = 0 /\ witness = {}
  /\ phase = IF "unique" \in enabled THEN "probing" ELSE "off"
  /\ canceled = FALSE
  /\ position = 1 /\ pair = 0 /\ states = 0 /\ searching = FALSE
  /\ results = [i \in Conditions(expression) |-> NotCovered]
  /\ search = IF "masking" \in enabled THEN "started" ELSE "off"

UniqueCauseStep ==
  /\ Next
  /\ UNCHANGED <<enabled, maskingVars>>

MaskingStep ==
  /\ phase \in {"done", "off"}
  /\ MaskingNext
  /\ UNCHANGED <<enabled, target, first, second, probes, phase, witness>>

CriteriaNext == UniqueCauseStep \/ MaskingStep

CriteriaSpec == CriteriaInit /\ [][CriteriaNext]_criteriaVars
-----------------------------------------------------------------------------
(***************************************************************************)
(* Masking is the weaker demand, in the two algorithms as in D18 and D19:  *)
(* a condition that Unique Cause covers is covered by masking, unless the  *)
(* search did not finish; and one that masking calls infeasible, Unique    *)
(* Cause calls infeasible.                                                 *)
(***************************************************************************)
MaskingIsWeaker ==
  phase = "done" /\ search # "off" /\ Settled(target) =>
    /\ Status = "covered" => results[target].outcome \in {"covered", "unknown"}
    /\ results[target].analysis = "infeasible" => Status = "infeasible"
=============================================================================
