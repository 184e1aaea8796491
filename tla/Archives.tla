------------------------------ MODULE Archives ------------------------------
(***************************************************************************)
(* The files that the offline commands exchange, by what they say, and the *)
(* operations on them: measurement archives (internal/measurement) and     *)
(* saved results (internal/resultfile).                                    *)
(*                                                                         *)
(* An execution has an identity, the identity of the physical run of its   *)
(* tests ("" without one), contents, and whether it is complete.  A plan   *)
(* says whether Masking MC/DC was measured, and what search its conditions *)
(* take; plans are compared as a whole.  A field "shards", which no file   *)
(* has, tells which of the recorded archives went into a file.             *)
(***************************************************************************)
EXTENDS Integers, FiniteSets, Sequences, FiniteSetsExt

CONSTANT DefaultLimit    \* of the search budgets of Masking MC/DC, as one number

ASSUME DefaultLimitAssumption == DefaultLimit \in Nat \ {0}

Absent == [format |-> "absent"]
Torn == [format |-> "torn"]

Refused == [refused |-> TRUE, runs |-> {}, shards |-> {}]
IsRefused(archive) == "refused" \in DOMAIN archive

(* Validate, of what executions have to do with each other.                *)
Unique(runs, identity(_)) ==
  \A r, s \in runs : identity(r) = identity(s) /\ identity(r) # "" => r = s

Validates(archive) ==
  /\ archive.runs # {}
  /\ Unique(archive.runs, LAMBDA r : r.id)
  /\ Unique(archive.runs, LAMBDA r : r.runtime)

(* Merge: the inputs are read in their order into a map by identity.       *)
AllRuns(inputs) == UNION {inputs[i].runs : i \in DOMAIN inputs}

ById(inputs) ==
  [id \in {r.id : r \in AllRuns(inputs)} |->
     LET last == Max({i \in DOMAIN inputs : \E r \in inputs[i].runs : r.id = id})
     IN  CHOOSE r \in inputs[last].runs : r.id = id]

(* A mistake: an execution that is known is not compared. *)
NoConflict(inputs) == FALSE

Conflict(inputs) ==
  \E r, s \in AllRuns(inputs) : r.id = s.id /\ r # s

Merge(inputs, expected) ==
  LET byId == ById(inputs)
      merged == [plan |-> inputs[1].plan, runs |-> {byId[id] : id \in DOMAIN byId},
                 shards |-> UNION {inputs[i].shards : i \in DOMAIN inputs}]
  IN  IF \/ \E i \in DOMAIN inputs : ~Validates(inputs[i]) \/ inputs[i].plan # inputs[1].plan
         \/ Conflict(inputs)
         \/ expected > 0 /\ Cardinality(merged.runs) # expected
         \/ ~Validates(merged)
      THEN Refused ELSE merged
-----------------------------------------------------------------------------
(* MaskingBudget and NewSettings: a limit of zero is the default.          *)
Effective(limit) == IF limit = 0 THEN DefaultLimit ELSE limit

(* The report of an archive shows the limits if they mattered.             *)
ReportOf(archive, limit) ==
  [runs |-> archive.runs, limit |-> IF archive.plan.masking THEN Effective(limit) ELSE 0]

MeasurementFile(archive) == [format |-> "measurement", archive |-> archive]

ResultFile(archive, limit) ==
  [format |-> "result", archive |-> archive, limit |-> Effective(limit),
   report |-> ReportOf(archive, limit)]

(* Decode of a saved result.  A file of version 2.0 has no settings: they  *)
(* are those of its report.                                                *)
Decode(file) ==
  IF file.format = "result-2.0"
  THEN [format |-> "result", archive |-> file.archive,
        limit |-> Effective(file.report.limit), report |-> file.report]
  ELSE file

(* What a reader of either format accepts.                                 *)
Reads(file, format) ==
  /\ CASE format = "measurement" -> file.format = "measurement"
       [] format = "result"      -> file.format \in {"result", "result-2.0"}
  /\ Validates(file.archive)

(* FromMeasurement and Evaluate, of `require --complete`.                  *)
Satisfied(archive, limit) ==
  /\ \A r \in archive.runs : r.complete
  /\ archive.plan.masking => archive.plan.search <= Effective(limit)
=============================================================================
