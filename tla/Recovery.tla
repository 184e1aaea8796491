------------------------------ MODULE Recovery ------------------------------
(***************************************************************************)
(* The recorder of one test process composed with the collector that reads *)
(* the process's files after it has stopped, at whatever point, with       *)
(* whatever failures (src/internal/runtimecov/runtimecov.go, both halves). *)
(* The files are what Journal's disk variables say.                        *)
(***************************************************************************)
EXTENDS Journal, SequencesExt

(* A case that is true skips decisions of later cases, never its own.      *)
ASSUME SkipsAssumption == \A e \in Evals : Site[e] \notin Skips[e]

(* finishAborted knows of an evaluation what its begin record says.        *)
BegunOnly(b) ==
  [site |-> b.decision, conds |-> [c \in Conditions |-> "notEvaluated"],
   result |-> FALSE, status |-> "aborted", skipped |-> {}]

OfClause(r) == r.clause \in Clauses

Host == INSTANCE Collecting WITH NotEvaluated <- BegunOnly, NamesClause <- OfClause

Process == "process"

(***************************************************************************)
(* The wire form of the recorder's records.  A snapshot holds evaluations, *)
(* begins and clauses, in this order.                                      *)
(***************************************************************************)
BeginLine(e) ==
  [type |-> "begin", process |-> Process, id |-> e, decision |-> Site[e],
   count |-> Cardinality(Conditions)]

EndLine(type, v) ==
  [type |-> type, process |-> Process, id |-> v.id, decision |-> v.data.site,
   count |-> Cardinality(Conditions), data |-> v.data,
   completed |-> v.data.status = "completed",
   selects |-> v.data.status = "completed" /\ v.data.result,
   skips |-> v.data.skipped]

ClauseLine(c) == [type |-> "clause", process |-> Process, clause |-> c]

LineOf(r) ==
  CASE r.type = "begin"    -> BeginLine(r.id)
    [] r.type = "terminal" -> EndLine("terminal", r)
    [] r.type = "clause"   -> ClauseLine(r.clause)
    [] OTHER               -> [type |-> "garbled"]

SnapshotLines ==
  SetToSeq({EndLine("evaluation", v) : v \in base.evaluations})
    \o SetToSeq({BeginLine(e) : e \in base.begins})
    \o SetToSeq({ClauseLine(c) : c \in base.clauses})

(* The data directory: the journal, the temporary file of a compaction     *)
(* that was interrupted or left it behind, the recorder's own reports.     *)
Journals ==
  IF writer
  THEN <<[kind |-> "journal", torn |-> torn,
          lines |-> SnapshotLines \o [i \in DOMAIN log |-> LineOf(log[i])]]>>
  ELSE <<>>

Artifacts ==
  IF leftover \/ section.stage = "scan"
  THEN <<[kind |-> "artifact", torn |-> FALSE, lines |-> <<>>]>> ELSE <<>>

Reports ==
  IF diagFile
  THEN <<[kind |-> "journal", torn |-> FALSE,
          lines |-> SetToSeq({[type |-> "diagnostic", process |-> Process,
                                    message |-> m] : m \in persisted})]>>
  ELSE <<>>

(* What CollectDetailed returns of a process that has stopped.             *)
Collected == Host!Collect(Artifacts \o Journals \o Reports)
-----------------------------------------------------------------------------
(***************************************************************************)
(* A process that stops at any point, within a write or a compaction, but  *)
(* whose system calls succeed, never looks damaged: what the collector     *)
(* finds is at worst incomplete, and the evidence stays valid.  A failed   *)
(* system call is seen by the collector, or was printed to stderr, even    *)
(* when the diagnostics file stays empty.                                  *)
(***************************************************************************)
DamageMeansFailure ==
  ~alive =>
    LET integrity == Collected.integrity
    IN  /\ faults = 0 => ~integrity
        /\ faults > 0 => integrity \/ stderr # {}

(***************************************************************************)
(* Every completed evaluation the collector returns ran in the process and *)
(* ended with these conditions, this result and these skipped decisions.   *)
(* And what is not reported is not lost: if neither the collector nor      *)
(* stderr tells of damage, every evaluation whose End returned is among    *)
(* those collected, as itself or as one with the same data, none of them   *)
(* is counted as aborted on top of that, and so is every clause.           *)
(***************************************************************************)
RecoveredExactly ==
  ~alive =>
    LET collected == Collected
        found == ToSet(collected.evaluations)
    IN  /\ \A v \in found : v.completed =>
             /\ v.identity.id \in Ended
             /\ v.data = event[v.identity.id]
        /\ \A s \in collected.skipped :
             /\ s.cause.id \in Ended
             /\ s.decision \in event[s.cause.id].skipped
        /\ ~collected.integrity /\ stderr = {} =>
             /\ \A e \in Evals : pc[e] = "done" =>
                  /\ \E v \in found : v.data = event[e]
                  /\ \A v \in found :
                       v.identity.id = e => v.data = event[e]
             /\ seenClauses \subseteq {c.clause : c \in collected.clauses}
=============================================================================
