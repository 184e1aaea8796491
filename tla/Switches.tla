------------------------------ MODULE Switches ------------------------------
(***************************************************************************)
(* From an instrumented switch to accepted evidence.  Threads of the test  *)
(* processes run functions as src/internal/instrument/instrument.go        *)
(* rewrites them: a conditionless switch, whose case expressions are       *)
(* decisions, and an expression switch, whose selected alternative the     *)
(* compiler reports.  Their hooks append to the journal of the process.    *)
(* The collector reads what is left of the journals, and acceptance        *)
(* compares it with the metadata that the analysis of the source gave.     *)
(***************************************************************************)
EXTENDS Collector, Acceptance

CONSTANTS
  Functions,  \* of each function, its clauses in source order:
              \* [clause |-> , cases |-> , alternatives |-> , falls |-> ]
  Settings,   \* [identity |-> process of each file,
              \*  calls |-> of each thread, its [file |-> , function |-> ]]
  Remains(_)  \* what may be found of the files of a run, and whether it is
              \* as the processes left it: [files |-> , intact |-> ]

VARIABLES
  setting,
  thread,    \* where each thread is
  next,      \* of each file's process, nextEvaluation
  happened,  \* the evaluations that ended and the clauses, as they ran
  intact,    \* the directory is as the processes left it
  accepted   \* what acceptance returned

programVars == <<setting, thread, next, happened, intact, accepted>>

Idle == [at |-> "case", case |-> 1, clause |-> 0]
At(where, thing) == [at |-> where, case |-> thing, clause |-> thing]

Threads == DOMAIN setting.calls
File(t) == setting.calls[t].file
ProcessOf(t) == setting.identity[File(t)]
Function(t) == Functions[setting.calls[t].function]

Running(t) == phase = "running" /\ thread[t].at # "stopped"
-----------------------------------------------------------------------------
(***************************************************************************)
(* What the rewriting of a switch emits (transformCaseClauses).            *)
(***************************************************************************)
Cases(function) == FlattenSeq([n \in DOMAIN function |-> function[n].cases])

(* remainingDecisions, when the case has been rewritten.                   *)
Remaining(function, k) ==
  ToSet(SubSeq(Cases(function), k + 1, Len(Cases(function))))

Owner(function, k) ==
  CHOOSE n \in DOMAIN function : Cases(function)[k] \in ToSet(function[n].cases)

Default(function) == {n \in DOMAIN function : function[n].default}

IsConditionless(function) == Cases(function) # <<>>

Body(clause) ==
  [switch |-> Clauses[clause].switch, clause |-> clause,
   event |-> "body-execution", alternative |-> <<>>]

(* CompilerDirectClause and CompilerNoMatch.                               *)
Direct(clause, alternative) ==
  [switch |-> Clauses[clause].switch, clause |-> clause,
   event |-> "direct-selection", alternative |-> alternative]

(* A clause record is refused by the collector if its event is unknown or  *)
(* has no clause or switch.                                                *)
NamesItsClause(r) ==
  CASE r.clause.event = "no-match-selection" ->
         r.clause.switch # 0 /\ r.clause.clause = 0
    [] r.clause.event \in {"body-execution", "direct-selection"} ->
         r.clause.clause # 0
    [] OTHER -> FALSE

NoMatch(switch) ==
  [switch |-> switch, clause |-> 0, event |-> "no-match-selection",
   alternative |-> <<>>]
-----------------------------------------------------------------------------
(***************************************************************************)
(* The metadata are of the sources that were rewritten: the analyzer has   *)
(* numbered the clauses of a switch in their order and the decisions of a  *)
(* clause in theirs (matchClause, matchNoMatch), and a process writes      *)
(* records of its package only (writerFor).                                *)
(***************************************************************************)
Known(process) ==
  {d \in DOMAIN Decisions :
     IsSwitchCase(d) /\ FromHere(process, Decisions[d].package)}

IsConditionlessSwitch(function) ==
  LET clause(n) == Clauses[function[n].clause]
      group == clause(1).group
  IN  /\ group # NoGroup
      /\ {c \in DOMAIN Clauses : Clauses[c].kind = "conditionless" /\ Clauses[c].group = group}
           = {function[n].clause : n \in DOMAIN function}
      /\ \A n \in DOMAIN function :
           clause(n).index \in Nat /\ clause(n).decisions = function[n].cases
      /\ \A m, n \in DOMAIN function : m < n => clause(m).index < clause(n).index
      /\ \A m, n \in DOMAIN function :
           \A i \in DOMAIN function[m].cases, j \in DOMAIN function[n].cases :
             function[m].cases[i] = function[n].cases[j] => m = n /\ i = j
      /\ \A place \in Places :
           DecisionAt(place) \in ToSet(Cases(function)) => Clauses[place[1]].group = group

IsExpressionSwitch(function, process) ==
  LET clause(n) == Clauses[function[n].clause]
  IN  /\ \A n \in DOMAIN function :
           /\ clause(n).kind \in {"expression", "type"}
           /\ clause(n).alternatives = function[n].alternatives
           /\ function[n].default <=> clause(n).role = "default"
      /\ Default(function) = {} =>
           /\ clause(1).switch \in DOMAIN NoMatches
           /\ FromHere(process, NoMatches[clause(1).switch])

IsRewritten(function, process) ==
  /\ function \in Seq(ToSet(function)) /\ function # <<>>
  /\ \A n \in DOMAIN function :
       /\ function[n].clause \in DOMAIN Clauses
       /\ FromHere(process, Clauses[function[n].clause].package)
       /\ function[n].cases \in Seq(Known(process))
       /\ function[n].alternatives \in Nat
       /\ function[n].falls => n + 1 \in DOMAIN function
  /\ IF IsConditionless(function) THEN IsConditionlessSwitch(function)
     ELSE IsExpressionSwitch(function, process)

ASSUME SettingsAssumption ==
  \A S \in Settings :
    /\ S.identity \in Seq(DOMAIN Provenance)
    /\ \A t \in DOMAIN S.calls :
         /\ S.calls[t].file \in DOMAIN S.identity
         /\ S.calls[t].function \in DOMAIN Functions
         /\ IsRewritten(Functions[S.calls[t].function], S.identity[S.calls[t].file])

(***************************************************************************)
(* The hooks, each with its record in the journal.                         *)
(***************************************************************************)
With(f, record) == [f EXCEPT !.lines = Append(f.lines, record)]

Write(t, record) == files' = [files EXCEPT ![File(t)] = With(@, record)]

BeginLine(t, d) ==
  [type |-> "begin", process |-> ProcessOf(t), id |-> next[File(t)],
   decision |-> d, count |-> Cardinality(Conditions(Decisions[d].tree))]

EndLine(t, d, states, result, completed, skips) ==
  [type |-> "terminal", process |-> ProcessOf(t), id |-> thread[t].clause,
   decision |-> d, count |-> Cardinality(Conditions(Decisions[d].tree)),
   data |-> [states |-> states, result |-> result],
   completed |-> completed, selects |-> completed /\ result, skips |-> skips]

BeginInto(t) ==
  /\ Running(t) /\ thread[t].at = "case"
  /\ thread[t].case \in DOMAIN Cases(Function(t))
  /\ Write(t, BeginLine(t, Cases(Function(t))[thread[t].case]))
  /\ next' = [next EXCEPT ![File(t)] = @ + 1]
  /\ thread' = [thread EXCEPT ![t] = [@ EXCEPT !.at = "conditions",
                                               !.clause = next[File(t)]]]
  /\ UNCHANGED <<setting, happened, intact>>

RanAs(r) ==
  [identity |-> Identity(r), decision |-> r.decision, data |-> r.data,
   completed |-> r.completed, skips |-> r.skips]

Ended(record) ==
  happened' = [happened EXCEPT !.evaluations = @ \cup {RanAs(record)}]

(* The conditions are evaluated, and EndSelect records them: a case that   *)
(* is true skips the decisions of all later ones.                          *)
EndSelect(t, states, result) ==
  LET k == thread[t].case
      d == Cases(Function(t))[k]
      skips == IF result THEN Remaining(Function(t), k) ELSE {}
      record == EndLine(t, d, states, result, TRUE, skips)
  IN  /\ Running(t) /\ thread[t].at = "conditions"
      /\ states \in Vectors(Decisions[d].tree)
      /\ result \in Observed(Decisions[d].tree, states)
      /\ Write(t, record)
      /\ Ended(record)
      /\ thread' = [thread EXCEPT ![t] = IF result
                      THEN At("body", Owner(Function(t), k))
                      ELSE [Idle EXCEPT !.case = k + 1]]
      /\ UNCHANGED <<setting, next, intact>>

(* The vectors of an evaluation that panics in a condition it has reached. *)
CutShort(E) ==
  {[i \in DOMAIN s |-> IF i < j THEN s[i] ELSE "notEvaluated"] :
     s \in Vectors(E), j \in Conditions(E)}

(* A condition panics: the deferred AbortSlots ends the evaluation.        *)
AbortSlots(t, states) ==
  LET d == Cases(Function(t))[thread[t].case]
      record == EndLine(t, d, states, FALSE, FALSE, {})
  IN  /\ Running(t) /\ thread[t].at = "conditions"
      /\ states \in CutShort(Decisions[d].tree)
      /\ Write(t, record)
      /\ Ended(record)
      /\ thread' = [thread EXCEPT ![t] = At("stopped", 0)]
      /\ UNCHANGED <<setting, next, intact>>

(* recordClause, which writes a clause once.                               *)
RecordClause(t, clause) ==
  LET record == [type |-> "clause", process |-> ProcessOf(t), clause |-> clause]
  IN  /\ IF record \in ToSet(files[File(t)].lines) THEN UNCHANGED files
         ELSE Write(t, record)
      /\ happened' = [happened EXCEPT !.clauses = @ \cup {clause}]

(* No case was true: the default's body, wherever it stands.               *)
NoCase(t) ==
  /\ Running(t) /\ thread[t].at = "case"
  /\ IsConditionless(Function(t))
  /\ thread[t].case > Len(Cases(Function(t)))
  /\ thread' = [thread EXCEPT ![t] =
       IF Default(Function(t)) = {} THEN At("stopped", 0)
       ELSE At("body", CHOOSE n \in Default(Function(t)) : TRUE)]
  /\ UNCHANGED <<files, setting, next, happened, intact>>

(* The compiler's probe of the alternative that was selected, before the   *)
(* body's.                                                                 *)
CompilerDirectClause(t, n, i) ==
  /\ Running(t) /\ thread[t].at = "case"
  /\ ~IsConditionless(Function(t))
  /\ i \in 0..(Function(t)[n].alternatives - 1) \/ (i = 0 /\ Function(t)[n].default)
  /\ RecordClause(t, Direct(Function(t)[n].clause,
                            IF Function(t)[n].default THEN <<>> ELSE <<i>>))
  /\ thread' = [thread EXCEPT ![t] = At("body", n)]
  /\ UNCHANGED <<setting, next, intact>>

CompilerNoMatch(t) ==
  /\ Running(t) /\ thread[t].at = "case"
  /\ ~IsConditionless(Function(t))
  /\ Default(Function(t)) = {}
  /\ RecordClause(t, NoMatch(Clauses[Function(t)[1].clause].switch))
  /\ thread' = [thread EXCEPT ![t] = At("stopped", 0)]
  /\ UNCHANGED <<setting, next, intact>>

SelectClause(t) ==
  LET n == thread[t].clause
  IN  /\ Running(t) /\ thread[t].at = "body"
      /\ RecordClause(t, Body(Function(t)[n].clause))
      /\ thread' = [thread EXCEPT ![t] =
           IF Function(t)[n].falls THEN At("body", n + 1) ELSE At("stopped", 0)]
      /\ UNCHANGED <<setting, next, intact>>

(* The processes end, or are killed, and are found as they are left.       *)
EndOfRun ==
  /\ phase = "running"
  /\ phase' = "reading"
  /\ \E found \in Remains(files) : files' = found.files /\ intact' = found.intact
  /\ UNCHANGED <<setting, thread, next, happened>>

ProgramStep(t) ==
  \/ BeginInto(t)
  \/ \E states \in UNION {Vectors(Decisions[d].tree) : d \in DOMAIN Decisions} :
       \E result \in BOOLEAN : EndSelect(t, states, result)
  \/ \E states \in UNION {CutShort(Decisions[d].tree) : d \in DOMAIN Decisions} :
       AbortSlots(t, states)
  \/ NoCase(t)
  \/ \E n \in DOMAIN Function(t) :
       \E i \in 0..Function(t)[n].alternatives : CompilerDirectClause(t, n, i)
  \/ CompilerNoMatch(t)
  \/ SelectClause(t)
-----------------------------------------------------------------------------
(***************************************************************************)
(* The processes that the collector found records of.                      *)
(***************************************************************************)
FirstReadable(lines) ==
  {n \in DOMAIN lines : /\ lines[n].type # "garbled"
                        /\ \A m \in DOMAIN lines : m < n => lines[m].type = "garbled"}

ProcessesFound ==
  UNION {{files[f].lines[n].process : n \in FirstReadable(files[f].lines)} :
           f \in {i \in DOMAIN files : files[i].kind = "journal"}}

AcceptRuntime ==
  /\ phase = "collected"
  /\ \/ /\ accepted' = Accepted(ProcessesFound, collector)
        /\ phase' = "accepted"
     \/ /\ accepted' \in Interrupted(ProcessesFound, collector)
        /\ phase' = "interrupted"
  /\ UNCHANGED <<files, file, line, provenance, collector, setting, thread,
                 next, happened, intact>>

SwitchesInit ==
  /\ setting \in Settings
  /\ thread = [t \in DOMAIN setting.calls |-> Idle]
  /\ next = [f \in DOMAIN setting.identity |-> 1]
  /\ happened = [evaluations |-> {}, clauses |-> {}]
  /\ intact = TRUE
  /\ accepted = Nothing
  /\ files = [f \in DOMAIN setting.identity |->
                [kind |-> "journal", lines |-> <<>>, torn |-> FALSE]]
  /\ file = 1
  /\ line = 1
  /\ provenance = NoProcess
  /\ collector = Empty
  /\ phase = "running"

SwitchesNext ==
  \/ /\ \/ /\ \E t \in Threads : ProgramStep(t)
           /\ UNCHANGED phase
        \/ EndOfRun
     /\ UNCHANGED <<file, line, provenance, collector, accepted>>
  \/ Next /\ UNCHANGED programVars
  \/ AcceptRuntime

SwitchesSpec == SwitchesInit /\ [][SwitchesNext]_<<vars, programVars>>
-----------------------------------------------------------------------------
(***************************************************************************)
(* What ran, as acceptance should report it of these journals: ended       *)
(* evaluations once per process and data, and those that were killed.      *)
(***************************************************************************)
Killed ==
  {b \in Begins : \A r \in Ends : Identity(r) # Identity(b)}

RanKeys ==
  {Key(e) : e \in happened.evaluations} \cup {Key(AbortedOf(b)) : b \in Killed}

RanSkips ==
  UNION {{[decision |-> d, cause |-> e.identity] : d \in e.skips} :
           e \in happened.evaluations}

OfProducer(clauses, producer) ==
  {o \in clauses : Producer(o.event) = producer}

(***************************************************************************)
(* A producer without an error has reported all that ran, and an intact    *)
(* directory gives no error: whatever stops the processes and however the  *)
(* lines of threads mix, nothing that instrumented code records is refused *)
(* (AcceptRuntimeByProducer).  A process ID that was given twice is not    *)
(* missed.                                                                 *)
(***************************************************************************)
ErrorFreeIsExact ==
  phase = "accepted" /\ ~collector.integrity =>
    /\ ~ProducerError(accepted, "ast") =>
         /\ accepted.evaluations = RanKeys
         /\ accepted.skipped = RanSkips
         /\ OfProducer(accepted.clauses, "ast") = OfProducer(happened.clauses, "ast")
    /\ ~ProducerError(accepted, "compiler") =>
         OfProducer(accepted.clauses, "compiler")
           = OfProducer(happened.clauses, "compiler")
    /\ intact => accepted.issues = {}

(***************************************************************************)
(* However the directory is found (Remains), what is accepted happened; a  *)
(* decision counts as skipped only if a case before it in the same switch  *)
(* was selected, and then all that this case skipped do.                   *)
(***************************************************************************)
AcceptedHappened ==
  phase \in {"accepted", "interrupted"} =>
    /\ \A e \in accepted.evaluations :
         \/ e \in RanKeys
         \/ ~e.completed /\ \E b \in Begins : Key(AbortedOf(b)) = e
    /\ \A s \in accepted.skipped : \E e \in happened.evaluations :
         /\ e.identity = s.cause /\ s.decision \in e.skips
         /\ {[decision |-> d, cause |-> s.cause] : d \in e.skips}
              \subseteq accepted.skipped
    /\ accepted.clauses \subseteq happened.clauses
=============================================================================
