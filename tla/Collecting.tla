----------------------------- MODULE Collecting -----------------------------
(***************************************************************************)
(* What the collector of the runtime journal does with a record, a file    *)
(* and a directory (src/internal/runtimecov/runtimecov.go: consume,        *)
(* collectFile, finishAborted), as operators on the evidence collected so  *)
(* far.                                                                    *)
(*                                                                         *)
(* A line is a record: a process (run, package and process ID), its type,  *)
(* and for an evaluation its ID, decision, number of conditions and data.  *)
(* A file is its complete lines, and whether more follows the last of them.*)
(***************************************************************************)
EXTENDS Sequences, SequencesExt

CONSTANTS
  NotEvaluated(_),  \* the data of an evaluation of which only the begin
                    \* record is known
  NamesClause(_)    \* a clause record names what its event is about

NoProcess == "none"

Empty == [begun |-> {}, finished |-> {}, evaluations |-> <<>>,
          skipped |-> {}, clauses |-> {},
          integrity |-> FALSE, interrupted |-> FALSE]
-----------------------------------------------------------------------------
(***************************************************************************)
(* consume: what one record of the file does.                              *)
(***************************************************************************)
Identity(r) == [process |-> r.process, id |-> r.id]

Diagnostic(c) == [c EXCEPT !.integrity = TRUE]
Interruption(c) == [c EXCEPT !.interrupted = TRUE]

IsBegun(c, r) == \E b \in c.begun : Identity(b) = Identity(r)
IsFinished(c, r) == Identity(r) \in c.finished

EvaluationOf(r) ==
  [identity |-> Identity(r), decision |-> r.decision, data |-> r.data,
   completed |-> r.completed]

(* A mistake: the status is left at its zero value, which is "completed".  *)
AbortedOfZeroStatus(b) ==
  [identity |-> Identity(b), decision |-> b.decision, data |-> NotEvaluated(b),
   completed |-> TRUE]

AbortedOf(b) ==
  [identity |-> Identity(b), decision |-> b.decision, data |-> NotEvaluated(b),
   completed |-> FALSE]

(* addEvaluation and addNotEvaluatedDecisions, then finished.              *)
AddEvaluation(c, r) ==
  [c EXCEPT
     !.evaluations = Append(@, EvaluationOf(r)),
     !.finished = @ \cup {Identity(r)},
     !.skipped = IF r.selects
                 THEN @ \cup {[decision |-> d, cause |-> Identity(r)] :
                                d \in r.skips \ {r.decision}}
                 ELSE @,
     !.integrity = @ \/ (r.skips # {} /\ ~r.selects)
                     \/ r.decision \in r.skips]

(* A mistake: only open evaluations are compared with a begin.             *)
ConsumeBeginAfterEnd(c, r) ==
  IF IsBegun(c, r) THEN Diagnostic(c) ELSE [c EXCEPT !.begun = @ \cup {r}]

ConsumeBegin(c, r) ==
  IF IsFinished(c, r) \/ IsBegun(c, r) THEN Diagnostic(c)
  ELSE [c EXCEPT !.begun = @ \cup {r}]

(* A mistake: an end without its begin is dropped without a word.          *)
ConsumeTerminalQuietly(c, r) ==
  LET matching == {b \in c.begun : /\ Identity(b) = Identity(r)
                                   /\ b.decision = r.decision
                                   /\ b.count = r.count}
  IN  IF IsFinished(c, r) \/ matching = {} THEN c
      ELSE AddEvaluation([c EXCEPT !.begun = @ \ matching], r)

ConsumeTerminal(c, r) ==
  LET matching == {b \in c.begun : /\ Identity(b) = Identity(r)
                                   /\ b.decision = r.decision
                                   /\ b.count = r.count}
  IN  IF IsFinished(c, r) \/ matching = {} THEN Diagnostic(c)
      ELSE AddEvaluation([c EXCEPT !.begun = @ \ matching], r)

ConsumeEvaluation(c, r) ==
  IF IsFinished(c, r) \/ IsBegun(c, r) THEN Diagnostic(c)
  ELSE AddEvaluation(c, r)

ConsumeClause(c, r) ==
  IF ~NamesClause(r) THEN Diagnostic(c)
  ELSE [c EXCEPT
          !.clauses = @ \cup {[process |-> r.process, clause |-> r.clause]}]

Consume(c, r) ==
  CASE r.type = "begin"      -> ConsumeBegin(c, r)
    [] r.type = "terminal"   -> ConsumeTerminal(c, r)
    [] r.type = "evaluation" -> ConsumeEvaluation(c, r)
    [] r.type = "clause"     -> ConsumeClause(c, r)
    [] OTHER                 -> Diagnostic(c)  \* a recorder's own report

(* collectFile's treatment of one complete line. *)
ConsumeLine(c, r, process) ==
  IF r.type = "garbled" \/ (process # NoProcess /\ process # r.process)
  THEN Diagnostic(c)
  ELSE Consume(c, r)

ProvenanceAfter(r, process) ==
  IF r.type = "garbled" \/ process # NoProcess THEN process ELSE r.process

(* A mistake: a line cut off by a stop counts as damage.                   *)
FileEndTornIsDamage(c, f) ==
  IF f.torn THEN Diagnostic(c)
  ELSE IF f.lines = <<>> THEN Interruption(c) ELSE c

FileEnd(c, f) ==
  IF f.torn \/ f.lines = <<>> THEN Interruption(c) ELSE c
-----------------------------------------------------------------------------
(***************************************************************************)
(* A whole directory, in the order that ReadDir lists it.                  *)
(***************************************************************************)
CollectFile(c, f) ==
  CASE f.kind = "artifact" -> Interruption(c)
    [] f.kind = "stranger" -> Diagnostic(c)
    [] OTHER ->
         LET step(acc, r) ==
               [c |-> ConsumeLine(acc.c, r, acc.process),
                process |-> ProvenanceAfter(r, acc.process)]
         IN  FileEnd(FoldLeft(step, [c |-> c, process |-> NoProcess],
                              f.lines).c, f)

Collect(directory) ==
  LET read == FoldLeft(CollectFile, Empty, directory)
  IN  [read EXCEPT
         !.begun = {},
         !.evaluations = @ \o SetToSeq({AbortedOf(b) : b \in read.begun})]
=============================================================================
