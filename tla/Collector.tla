----------------------------- MODULE Collector -----------------------------
(***************************************************************************)
(* The host side of the runtime journal: CollectDetailed reads the files   *)
(* that the test processes of one run left in the data directory and turns *)
(* them into evaluations, skipped decisions and clause events, with a      *)
(* diagnostic for everything that does not fit                             *)
(* (src/internal/runtimecov/runtimecov.go).                                *)
(***************************************************************************)
EXTENDS Integers, Collecting

CONSTANT Directories  \* the directories that may be found: sequences of
                      \* [kind |-> , lines |-> , torn |-> ] in ReadDir's order

(* The entries are listed, and the complete lines of a file follow one     *)
(* another.                                                                *)
IsDirectory(d) ==
  /\ d \in Seq(ToSet(d))
  /\ \A i \in DOMAIN d : /\ d[i].kind \in {"journal", "artifact", "stranger"}
                         /\ d[i].lines \in Seq(ToSet(d[i].lines))

ASSUME DirectoriesAssumption == \A d \in Directories : IsDirectory(d)

VARIABLES
  files,       \* the directory that is read
  file,        \* index of the file being read
  line,        \* index of its next line
  provenance,  \* the process of its first record, or NoProcess
  collector,   \* what has been collected
  phase        \* "reading", "aborting", "collected" or "cancelled"

vars == <<files, file, line, provenance, collector, phase>>

Init ==
  /\ files \in Directories
  /\ file = 1
  /\ line = 1
  /\ provenance = NoProcess
  /\ collector = Empty
  /\ phase = "reading"

(* A mistake: the provenance of one file is required of the next.          *)
NextFileKeepsProvenance ==
  file' = file + 1 /\ line' = 1 /\ UNCHANGED provenance

NextFile == file' = file + 1 /\ line' = 1 /\ provenance' = NoProcess

Current == files[file]

Reading(kind) ==
  phase = "reading" /\ file <= Len(files) /\ Current.kind = kind

(* A compaction's temporary file is expected after an interruption, any    *)
(* other entry is not.                                                     *)
SkipArtifact ==
  /\ Reading("artifact")
  /\ collector' = Interruption(collector)
  /\ NextFile
  /\ UNCHANGED <<files, phase>>

SkipStranger ==
  /\ Reading("stranger")
  /\ collector' = Diagnostic(collector)
  /\ NextFile
  /\ UNCHANGED <<files, phase>>

ReadLine ==
  /\ Reading("journal")
  /\ line <= Len(Current.lines)
  /\ LET r == Current.lines[line]
     IN  /\ collector' = ConsumeLine(collector, r, provenance)
         /\ provenance' = ProvenanceAfter(r, provenance)
  /\ line' = line + 1
  /\ UNCHANGED <<files, file, phase>>

EndOfFile ==
  /\ Reading("journal")
  /\ line > Len(Current.lines)
  /\ collector' = FileEnd(collector, Current)
  /\ NextFile
  /\ UNCHANGED <<files, phase>>

EndOfDirectory ==
  /\ phase = "reading"
  /\ file > Len(files)
  /\ phase' = "aborting"
  /\ UNCHANGED <<files, file, line, provenance, collector>>

(* finishAborted walks the map of begun evaluations in no fixed order.     *)
FinishAborted(b) ==
  /\ phase = "aborting"
  /\ collector' = [collector EXCEPT
                     !.begun = @ \ {b},
                     !.evaluations = Append(@, AbortedOf(b))]
  /\ UNCHANGED <<files, file, line, provenance, phase>>

Return ==
  /\ phase = "aborting"
  /\ collector.begun = {}
  /\ phase' = "collected"
  /\ UNCHANGED <<files, file, line, provenance, collector>>

(* The recovery context is asked before every file, line and evaluation;   *)
(* once it is done nothing of what was collected is returned.              *)
Cancel ==
  /\ phase \in {"reading", "aborting"}
  /\ phase' = "cancelled"
  /\ collector' = Empty
  /\ UNCHANGED <<files, file, line, provenance>>

Next ==
  \/ SkipArtifact
  \/ SkipStranger
  \/ ReadLine
  \/ EndOfFile
  \/ EndOfDirectory
  \/ \E b \in collector.begun : FinishAborted(b)
  \/ Return
  \/ Cancel

Spec == Init /\ [][Next]_vars

-----------------------------------------------------------------------------
(***************************************************************************)
(* What the files say, without regard to order.                            *)
(***************************************************************************)
LinesOf(f) == IF f.kind = "journal" THEN ToSet(f.lines) ELSE {}
AllLines == UNION {LinesOf(files[i]) : i \in DOMAIN files}
Begins == {r \in AllLines : r.type = "begin"}
Ends == {r \in AllLines : r.type \in {"terminal", "evaluation"}}
Evaluations == ToSet(collector.evaluations)

Reference ==
  {EvaluationOf(r) : r \in Ends}
    \cup {AbortedOf(b) : b \in {x \in Begins :
            \A r \in Ends : Identity(r) # Identity(x)}}

(***************************************************************************)
(* No evaluation is counted twice, whatever the files hold: an identity is *)
(* begun, or in the result once, or neither.  Two processes that were      *)
(* given the same process ID are told apart or found out: if an evaluation *)
(* ID is ended in the journals of both, the result carries an integrity    *)
(* error (consume's begun and finished).                                   *)
(***************************************************************************)
CountedOnce ==
  /\ \A i, j \in DOMAIN collector.evaluations :
       collector.evaluations[i].identity = collector.evaluations[j].identity
         => i = j
  /\ \A b \in collector.begun, v \in Evaluations : v.identity # Identity(b)
  /\ phase = "collected" =>
       \A i, j \in DOMAIN files :
         i # j /\ (\E r \in LinesOf(files[i]) \cap Ends,
                      s \in LinesOf(files[j]) \cap Ends :
                        Identity(r) = Identity(s))
           => collector.integrity

(***************************************************************************)
(* A directory that yields no integrity error is collected in full: every  *)
(* end, every unfinished begin, every clause, and nothing else.            *)
(***************************************************************************)
CleanIsComplete ==
  phase = "collected" /\ ~collector.integrity =>
    /\ Evaluations = Reference
    /\ collector.clauses = {[process |-> r.process, clause |-> r.clause] :
                              r \in {l \in AllLines : l.type = "clause"}}

(***************************************************************************)
(* The step-by-step collector computes Collect.                            *)
(***************************************************************************)
ComputesCollect ==
  phase = "collected" =>
    LET whole == Collect(files)
    IN  /\ Evaluations = ToSet(whole.evaluations)
        /\ Len(collector.evaluations) = Len(whole.evaluations)
        /\ [collector EXCEPT !.evaluations = <<>>]
             = [whole EXCEPT !.evaluations = <<>>]
=============================================================================
