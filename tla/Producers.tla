------------------------------ MODULE Producers -----------------------------
(***************************************************************************)
(* What a measurement says of each source of its evidence, and what an     *)
(* archive demands of it: src/internal/evidence/producer.go, the two       *)
(* outcome functions of src/internal/cli/measurement.go, and the rules of  *)
(* measurement.Validate for one execution.                                 *)
(***************************************************************************)
EXTENDS Naturals, Sequences, SequencesExt

Integrities == {"valid", "valid-prefix", "invalid", "unavailable"}
Completenesses == {"complete", "partial", "unavailable"}
Mappings == {"complete", "invalid", "unavailable"}
Usabilities == {"accepted", "accepted-partial", "rejected"}

Outcomes == [integrity : Integrities, completeness : Completenesses,
             mapping : Mappings, usability : Usabilities]

AllowsCoverage(o) == o.usability \in {"accepted", "accepted-partial"}

Unavailable == [integrity |-> "unavailable", completeness |-> "unavailable",
                mapping |-> "unavailable", usability |-> "rejected"]

(* The outcome of undamaged evidence: a test run that passed is observed   *)
(* completely, any other partly.                                           *)
Observed(status) ==
  [integrity |-> "valid", mapping |-> "complete",
   completeness |-> IF status = "passed" THEN "complete" ELSE "partial",
   usability |-> IF status = "passed" THEN "accepted" ELSE "accepted-partial"]

(* Mutant of Diagnosed: a torn tail found after damage hides it.           *)
DiagnosedLastWins(status, o, severity) ==
  IF severity = "recoverable"
  THEN [o EXCEPT !.integrity = "valid-prefix", !.completeness = "partial",
                 !.usability = IF status = "passed" THEN "rejected" ELSE @]
  ELSE [o EXCEPT !.integrity = "invalid", !.usability = "rejected"]

(* The diagnostics of a collection change the outcome one after the other. *)
Diagnosed(status, o, severity) ==
  CASE severity = "integrity" ->
         [o EXCEPT !.integrity = "invalid", !.completeness = "partial",
                   !.usability = "rejected"]
    [] severity = "recoverable" ->
         [o EXCEPT !.integrity = IF @ = "valid" THEN "valid-prefix" ELSE @,
                   !.completeness = "partial",
                   !.usability = IF status = "passed" THEN "rejected" ELSE @]
    [] OTHER ->
         [o EXCEPT !.integrity = "invalid", !.usability = "rejected"]

(* Mutant of Misplaced: evidence that fails acceptance stays usable.       *)
MisplacedStaysUsable(o, mappingErr) ==
  IF mappingErr THEN [o EXCEPT !.mapping = "invalid"] ELSE o

Misplaced(o, mappingErr) ==
  IF mappingErr
  THEN [o EXCEPT !.mapping = "invalid", !.usability = "rejected"] ELSE o

(* status is "none" when no test was run.                                  *)
RuntimeProducerOutcome(status, unreadable, mappingErr, diagnostics) ==
  IF status = "none" \/ unreadable THEN Unavailable
  ELSE Misplaced(FoldLeft(LAMBDA o, d : Diagnosed(status, o, d),
                          Observed(status), diagnostics),
                 mappingErr)

(* readErr says how reading the profile failed: not, no file, or any other *)
(* way.                                                                    *)
GoCoverProducerOutcome(status, readErr, mappingErr) ==
  IF status = "none" THEN Unavailable
  ELSE IF readErr # "none"
       THEN [Observed(status) EXCEPT
               !.integrity = IF readErr = "missing" THEN "unavailable" ELSE "invalid",
               !.mapping = "unavailable", !.usability = "rejected"]
  ELSE Misplaced(Observed(status), mappingErr)
-----------------------------------------------------------------------------
(***************************************************************************)
(* One execution r of an archive whose plan measures the metrics of need,  *)
(* a subset of {"c0", "ast", "compiler"}.  rejected holds the producers    *)
(* whose evidence the acceptance rejects when the archive is validated.    *)
(***************************************************************************)
ProducerOf(metric) ==
  CASE metric = "c0" -> "go-cover" [] metric = "ast" -> "ast-runtime"
    [] OTHER -> "compiler-selection"

Consistent(o) ==
  AllowsCoverage(o) =>
    /\ o.mapping = "complete"
    /\ o.integrity \in {"valid", "valid-prefix"}
    /\ o.completeness # "unavailable"

RunValid(r, need, rejected) ==
  /\ r.complete => /\ r.status = "passed"
                   /\ r.failureKind = "none"
                   /\ r.results.test = "passed"
                   /\ r.results.measurement = "passed"
                   /\ r.results.integrity = "passed"
  /\ \A p \in DOMAIN r.producers :
       /\ Consistent(r.producers[p])
       /\ p \in rejected => ~AllowsCoverage(r.producers[p])
  /\ \A metric \in need : ProducerOf(metric) \in DOMAIN r.producers
  /\ "c0" \in need => r.cover # "none"
  /\ r.cover # "none" => "go-cover" \in DOMAIN r.producers
=============================================================================
