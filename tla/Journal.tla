------------------------------ MODULE Journal ------------------------------
(***************************************************************************)
(* The event journal that the injected recorder keeps in one test process  *)
(* for one package (src/internal/runtimecov/runtimecov.go, the runtime     *)
(* source injected into the measured module): writerState, the sharded     *)
(* table of active evaluations, the append path, snapshot compaction, and  *)
(* the recorder's own failure reports.                                     *)
(*                                                                         *)
(* Every evaluation of a decision is one thread of Evals (BeginInto, then  *)
(* Condition, then End, EndSelect or AbortSlots), every call of            *)
(* SelectClause and its siblings one thread of Calls.  A critical section  *)
(* is one action, except that a compaction, which holds state.mu, reads    *)
(* the shards one by one while other threads go on using them.  The        *)
(* process may stop between any two actions and in the middle of a write.  *)
(***************************************************************************)
EXTENDS Integers, Sequences, FiniteSets

CONSTANTS N,          \* evaluation IDs are 1..N: nextEvaluation counts from 1
          Calls,      \* the calls of recordClause
          ClauseOf,   \* ClauseOf[c]: the clause key that call c records
          Site,       \* Site[e]: test and decision of evaluation e
          Skips,      \* Skips[e]: decisions that a selecting EndSelect skips
          Conditions, \* the condition indices of the decisions
          ShardCount, \* activeShardCount
          MinTail,    \* minimumCompactTailBytes, in records
          MaxBytes,   \* math.MaxInt64, in records
          MaxFaults   \* bound on the number of failing system calls

Evals == 1..N
Clauses == {ClauseOf[c] : c \in Calls}
Threads == Evals \cup Calls

ASSUME NAssumption == N \in Nat \ {0}
ASSUME CallsAssumption == Calls \cap Evals = {}
ASSUME ShardAssumption == ShardCount \in Nat \ {0}
ASSUME SizeAssumption == /\ MinTail \in Nat \ {0}
                         /\ MaxBytes \in Nat
                         /\ MinTail <= MaxBytes
ASSUME FaultAssumption == MaxFaults \in Nat

Nobody == 0
ASSUME NobodyAssumption == Nobody \notin Calls

ConditionState == {"notEvaluated", "false", "true"}

(***************************************************************************)
(* What a terminal record says of its evaluation.  Two evaluations with    *)
(* the same data have the same evaluationRecordKey.                        *)
(***************************************************************************)
Data == [site : {Site[e] : e \in Evals},
         conds : [Conditions -> ConditionState],
         result : BOOLEAN,
         status : {"completed", "aborted"},
         skipped : {Skips[e] : e \in Evals} \cup {{}}]

Evaluation == [id : Evals, data : Data]

Section == [stage : {"outside", "compact", "scan", "return"},
            shard : 0..ShardCount, begins : SUBSET Evals]

Record == [type : {"begin"}, id : Evals]
            \cup [type : {"terminal"}, id : Evals, data : Data]
            \cup [type : {"clause"}, clause : Clauses]
            \cup [type : {"garbled"}]

VARIABLES
  pc,           \* where each thread is
  active,       \* the IDs in activeShards
  conds,        \* item.conditions of each evaluation
  event,        \* the terminal record finish or abort captured
  writer,       \* the package has a writerState: its file exists
  mu,           \* the thread that holds state.mu, or Nobody
  base,         \* the journal up to the last compaction
  log,          \* the lines appended since
  torn,         \* the journal ends in a line without its newline
  fileOpen,     \* state.file # nil
  tailBytes,    \* state.tailBytes
  compactAt,    \* state.compactAtTailBytes
  evaluations,  \* state.evaluations: the records, one per key
  clauses,      \* state.clauses
  seenClauses,  \* state.seenClauses
  beginIDs,     \* state.beginIDs
  terminalIDs,  \* state.terminalIDs
  section,      \* how far the holder of state.mu has come
  leftover,     \* a failed compaction left its temporary file behind
  diagSeen,     \* diagnosticSeen
  persisted,    \* the reports written to the diagnostics file
  diagFile,     \* the diagnostics file exists
  stderr,       \* the reports printed to stderr instead
  faults,       \* how many system calls have failed
  alive         \* the process runs

threadVars == <<pc, active, conds, event>>
diskVars == <<base, log, torn, leftover>>
writerVars == <<writer, fileOpen, tailBytes, compactAt, evaluations, clauses,
                seenClauses, beginIDs, terminalIDs>>
reportVars == <<diagSeen, persisted, diagFile, stderr, faults>>
vars == <<threadVars, mu, section, diskVars, writerVars, reportVars, alive>>

(***************************************************************************)
(* The stages of the critical section of writeEventLocked: the journal is  *)
(* long enough to "compact", compactLocked has a temporary file and reads  *)
(* the shards ("scan"), the caller may do its own bookkeeping ("return").  *)
(***************************************************************************)
At(stage) == [stage |-> stage, shard |-> 0, begins |-> {}]
Outside == At("outside")

Init ==
  /\ pc = [t \in Threads |-> "idle"]
  /\ active = {}
  /\ conds = [e \in Evals |-> [c \in Conditions |-> "notEvaluated"]]
  /\ event = [e \in Evals |-> [site |-> Site[e],
                               conds |-> [c \in Conditions |-> "notEvaluated"],
                               result |-> FALSE, status |-> "aborted",
                               skipped |-> {}]]
  /\ writer = FALSE
  /\ mu = Nobody
  /\ base = [evaluations |-> {}, begins |-> {}, clauses |-> {}]
  /\ log = <<>>
  /\ torn = FALSE
  /\ fileOpen = FALSE
  /\ tailBytes = 0
  /\ compactAt = MinTail
  /\ evaluations = {}
  /\ clauses = {}
  /\ seenClauses = {}
  /\ beginIDs = {}
  /\ terminalIDs = {}
  /\ section = Outside
  /\ leftover = FALSE
  /\ diagSeen = {}
  /\ persisted = {}
  /\ diagFile = FALSE
  /\ stderr = {}
  /\ faults = 0
  /\ alive = TRUE
-----------------------------------------------------------------------------
(***************************************************************************)
(* Arithmetic on sizes.                                                    *)
(***************************************************************************)
SaturatingAdd(left, right) ==
  IF right > MaxBytes - left THEN MaxBytes ELSE left + right

(* A mistake: the minimum is added, not the lower bound.                   *)
CompactTailThresholdSum(snapshot) ==
  IF snapshot > MaxBytes \div 2 THEN MaxBytes ELSE 2 * snapshot + MinTail

CompactTailThreshold(snapshot) ==
  IF snapshot > MaxBytes \div 2 THEN MaxBytes
  ELSE IF 2 * snapshot < MinTail THEN MinTail ELSE 2 * snapshot

(* A mistake: the tail that a failed write left is not counted in.         *)
CompactionRetryThresholdDoubled(current, tail) == SaturatingAdd(current, current)

CompactionRetryThreshold(current, tail) ==
  LET doubled == SaturatingAdd(current, current)
      afterMinimumTail == SaturatingAdd(tail, MinTail)
  IN  IF doubled < afterMinimumTail THEN afterMinimumTail ELSE doubled

(***************************************************************************)
(* A system call fails and the recorder reports it: once per message, to   *)
(* the diagnostics file, or to stderr when that file cannot be created or  *)
(* written either.  A kill between the call and its report leaves what a   *)
(* kill before, within or after a call that succeeds would leave: Stop.    *)
(***************************************************************************)
Fail(message) ==
  /\ faults < MaxFaults
  /\ diagSeen' = diagSeen \cup {message}
  /\ \/ /\ message \in diagSeen
        /\ faults' = faults + 1
        /\ UNCHANGED <<persisted, diagFile, stderr>>
     \/ /\ message \notin diagSeen
        /\ faults' = faults + 1
        /\ persisted' = persisted \cup {message}
        /\ diagFile' = TRUE
        /\ UNCHANGED stderr
     \/ /\ message \notin diagSeen
        /\ faults + 1 < MaxFaults
        /\ faults' = faults + 2
        /\ stderr' = stderr \cup {message}
        /\ UNCHANGED diagFile \/ diagFile' = TRUE
        /\ UNCHANGED persisted
-----------------------------------------------------------------------------
(***************************************************************************)
(* The callers' side: the table of active evaluations.                     *)
(***************************************************************************)
BeginInto(e) ==
  /\ alive
  /\ pc[e] = "idle"
  /\ active' = active \cup {e}
  /\ pc' = [pc EXCEPT ![e] = "inserted"]
  /\ UNCHANGED <<conds, event, mu, diskVars, writerVars, section,
                 reportVars, alive>>

Condition(e, c, value) ==
  /\ alive
  /\ pc[e] = "running"
  /\ conds' = [conds EXCEPT ![e][c] = IF value THEN "true" ELSE "false"]
  /\ UNCHANGED <<pc, active, event, mu, diskVars, writerVars, section,
                 reportVars, alive>>

(* finish or abort captures the terminal record under the shard's lock.    *)
Capture(e, data) ==
  /\ alive
  /\ pc[e] = "running"
  /\ event' = [event EXCEPT ![e] = data]
  /\ pc' = [pc EXCEPT ![e] = "terminal"]
  /\ UNCHANGED <<active, conds, mu, diskVars, writerVars, section,
                 reportVars, alive>>

Finish(e, result) ==
  Capture(e, [site |-> Site[e], conds |-> conds[e], result |-> result,
              status |-> "completed",
              skipped |-> IF result THEN Skips[e] ELSE {}])

Abort(e) ==
  Capture(e, [site |-> Site[e], conds |-> conds[e], result |-> FALSE,
              status |-> "aborted", skipped |-> {}])
-----------------------------------------------------------------------------
(***************************************************************************)
(* writerFor: the file is created by the first thread that needs it.  On   *)
(* failure this thread's record is dropped and the next thread tries again.*)
(***************************************************************************)
NeedsWriter(t) == IF t \in Calls THEN pc[t] = "idle"
                  ELSE pc[t] \in {"inserted", "terminal"}

(* Where a thread is once its record is written, skipped or given up.      *)
Afterwards(t, kept) ==
  CASE pc[t] = "inserted" -> "running"
    [] pc[t] = "terminal" /\ ~kept -> "stuck"
    [] OTHER -> "done"

CreateWriter(t) ==
  /\ alive
  /\ NeedsWriter(t)
  /\ ~writer
  /\ writer' = TRUE
  /\ fileOpen' = TRUE
  /\ UNCHANGED <<threadVars, mu, section, diskVars, tailBytes, compactAt,
                 evaluations, clauses, seenClauses, beginIDs, terminalIDs,
                 reportVars, alive>>

CreateWriterFails(t) ==
  /\ alive
  /\ NeedsWriter(t)
  /\ ~writer
  /\ Fail("create event file")
  /\ active' = IF pc[t] = "terminal" THEN active \ {t} ELSE active
  /\ pc' = [pc EXCEPT ![t] = IF @ = "terminal" THEN "dropped"
                             ELSE Afterwards(t, FALSE)]
  /\ UNCHANGED <<conds, event, mu, section, diskVars, writerVars, alive>>
-----------------------------------------------------------------------------
(***************************************************************************)
(* The append path: writeEventLocked and its callers writeEvent,           *)
(* writeTerminal and recordClause.                                         *)
(***************************************************************************)
(* A mistake: a begin is written whether or not a compaction wrote it.     *)
AlreadyWrittenClause(t) == t \in Calls /\ ClauseOf[t] \in seenClauses

(* A begin that a compaction already published, or a clause already        *)
(* recorded, is not written again.                                         *)
AlreadyWritten(t) == IF t \in Calls THEN ClauseOf[t] \in seenClauses
                     ELSE pc[t] = "inserted" /\ t \in beginIDs

MayLock(t) == alive /\ NeedsWriter(t) /\ writer /\ mu = Nobody

SkipWrite(t) ==
  /\ MayLock(t)
  /\ AlreadyWritten(t)
  /\ pc' = [pc EXCEPT ![t] = Afterwards(t, TRUE)]
  /\ UNCHANGED <<active, conds, event, mu, section, diskVars, writerVars,
                 reportVars, alive>>

(* A mistake: the record does not own its condition buffer.                *)
RecordOfSharedBuffer(t) ==
  IF t \in Calls THEN [type |-> "clause", clause |-> ClauseOf[t]]
  ELSE IF pc[t] = "inserted" THEN [type |-> "begin", id |-> t]
  ELSE [type |-> "terminal", id |-> t,
        data |-> [event[t] EXCEPT !.conds = conds[1]]]

RecordOf(t) ==
  IF t \in Calls THEN [type |-> "clause", clause |-> ClauseOf[t]]
  ELSE IF pc[t] = "inserted" THEN [type |-> "begin", id |-> t]
  ELSE [type |-> "terminal", id |-> t, data |-> event[t]]

(* A mistake: the key of an evaluation is that of its conditions alone.    *)
RememberByStates(t) ==
  /\ clauses' = IF t \in Calls THEN clauses \cup {ClauseOf[t]} ELSE clauses
  /\ IF t \in Evals /\ pc[t] = "terminal"
     THEN /\ terminalIDs' = terminalIDs \cup {t}
          /\ evaluations' =
               IF \E v \in evaluations : v.data.conds = event[t].conds
               THEN evaluations
               ELSE evaluations \cup {[id |-> t, data |-> event[t]]}
     ELSE UNCHANGED <<terminalIDs, evaluations>>

(* The maps that the next snapshot is made of; the first evaluation of a   *)
(* key stays.                                                              *)
Remember(t) ==
  /\ clauses' = IF t \in Calls THEN clauses \cup {ClauseOf[t]} ELSE clauses
  /\ IF t \in Evals /\ pc[t] = "terminal"
     THEN /\ terminalIDs' = terminalIDs \cup {t}
          /\ evaluations' =
               IF \E v \in evaluations : v.data = event[t] THEN evaluations
               ELSE evaluations \cup {[id |-> t, data |-> event[t]]}
     ELSE UNCHANGED <<terminalIDs, evaluations>>

(* The record follows the last line, or runs into it when that line was    *)
(* left without its newline.                                               *)
Write(t) ==
  /\ MayLock(t)
  /\ ~AlreadyWritten(t)
  /\ mu' = t
  /\ log' = Append(log, IF torn THEN [type |-> "garbled"] ELSE RecordOf(t))
  /\ torn' = FALSE
  /\ fileOpen' = TRUE
  /\ tailBytes' = SaturatingAdd(tailBytes, 1)
  /\ Remember(t)
  /\ section' = At(IF tailBytes' >= compactAt THEN "compact" ELSE "return")
  /\ UNCHANGED <<threadVars, base, leftover, writer, compactAt, seenClauses,
                 beginIDs, reportVars, alive>>

(* The file cannot be reopened, or nothing or a part of the record is      *)
(* written.  A terminal record that fails keeps its evaluation active.     *)
WriteFails(t) ==
  /\ MayLock(t)
  /\ ~AlreadyWritten(t)
  /\ \/ /\ ~fileOpen
        /\ Fail("reopen event file")
        /\ UNCHANGED <<fileOpen, torn, tailBytes>>
     \/ /\ Fail("write event file")
        /\ fileOpen' = TRUE
        /\ UNCHANGED <<torn, tailBytes>>
     \/ /\ Fail("write event file")
        /\ fileOpen' = TRUE
        /\ torn' = TRUE
        /\ tailBytes' = SaturatingAdd(tailBytes, 1)
  /\ pc' = [pc EXCEPT ![t] = Afterwards(t, FALSE)]
  /\ UNCHANGED <<active, conds, event, mu, section, base, log, leftover,
                 writer, compactAt, evaluations, clauses, seenClauses,
                 beginIDs, terminalIDs, alive>>

(* The rest of the caller's critical section.                              *)
Return(t) ==
  /\ alive
  /\ mu = t
  /\ section.stage = "return"
  /\ mu' = Nobody
  /\ section' = Outside
  /\ pc' = [pc EXCEPT ![t] = Afterwards(t, TRUE)]
  /\ seenClauses' = IF t \in Calls THEN seenClauses \cup {ClauseOf[t]}
                    ELSE seenClauses
  /\ IF pc[t] = "terminal"
     THEN /\ active' = active \ {t}
          /\ terminalIDs' = terminalIDs \ {t}
          /\ beginIDs' = beginIDs \ {t}
     ELSE UNCHANGED <<active, terminalIDs, beginIDs>>
  /\ UNCHANGED <<conds, event, diskVars, writer, fileOpen, tailBytes,
                 compactAt, evaluations, clauses, reportVars, alive>>
-----------------------------------------------------------------------------
(***************************************************************************)
(* compactLocked, run by the holder of state.mu.                           *)
(***************************************************************************)
CompactCreate ==
  /\ alive
  /\ section.stage = "compact"
  /\ section' = At("scan")
  /\ UNCHANGED <<threadVars, mu, diskVars, writerVars, reportVars, alive>>

(* A mistake: writeTerminal holds the shard's lock before it asks for      *)
(* state.mu, so that the scan waits for it.                                *)
MayScanLockOrder ==
  /\ alive /\ section.stage = "scan" /\ section.shard < ShardCount
  /\ \A e \in Evals : e % ShardCount = section.shard /\ mu # e
                        => pc[e] # "terminal"

MayScan ==
  alive /\ section.stage = "scan" /\ section.shard < ShardCount

(* A mistake: terminalIDs is not asked.                                    *)
FoundEnded == {e \in active : e % ShardCount = section.shard}

(* The active evaluations of the next shard whose end is not recorded.     *)
Found ==
  {e \in active : e % ShardCount = section.shard /\ e \notin terminalIDs}

(* One shard is read under its lock; the other shards may change.          *)
CompactScan ==
  /\ MayScan
  /\ section' = [section EXCEPT !.shard = @ + 1, !.begins = @ \cup Found]
  /\ UNCHANGED <<threadVars, mu, diskVars, writerVars, reportVars, alive>>

(* The temporary file, complete, replaces the journal.  Only then does the *)
(* recorder reopen the journal to append to it.                            *)
CompactCommit ==
  /\ alive
  /\ section.stage = "scan"
  /\ section.shard = ShardCount
  /\ base' = [evaluations |-> evaluations, begins |-> section.begins,
              clauses |-> clauses]
  /\ log' = <<>>
  /\ torn' = FALSE
  /\ tailBytes' = 0
  /\ compactAt' = CompactTailThreshold(Cardinality(evaluations)
                    + Cardinality(section.begins) + Cardinality(clauses))
  /\ beginIDs' = beginIDs \cup section.begins
  /\ section' = At("return")
  /\ \/ fileOpen' = TRUE /\ UNCHANGED reportVars
     \/ fileOpen' = TRUE /\ Fail("close replaced event file")
     \/ fileOpen' = FALSE /\ Fail("reopen compacted event file")
  /\ UNCHANGED <<threadVars, mu, leftover, writer, evaluations, clauses,
                 seenClauses, terminalIDs, alive>>

(* No temporary file, a snapshot record not written, the file not closed   *)
(* or not renamed: the journal stays, the next attempt is put off.  The    *)
(* removal of the temporary file may fail without a word.                  *)
CompactFails ==
  /\ alive
  /\ \/ section.stage = "compact" /\ UNCHANGED leftover
     \/ /\ section.stage = "scan"
        /\ section.shard \in {0, ShardCount}
        /\ UNCHANGED leftover \/ leftover' = TRUE
  /\ Fail("compact event file")
  /\ compactAt' = CompactionRetryThreshold(compactAt, tailBytes)
  /\ section' = At("return")
  /\ UNCHANGED <<threadVars, mu, base, log, torn, writer, fileOpen, tailBytes,
                 evaluations, clauses, seenClauses, beginIDs, terminalIDs,
                 alive>>
-----------------------------------------------------------------------------
(***************************************************************************)
(* The process stops: it exits, panics or is killed, perhaps in the middle *)
(* of a write.                                                             *)
(***************************************************************************)
Stop ==
  /\ alive
  /\ alive' = FALSE
  /\ \/ UNCHANGED torn
     \/ torn' = TRUE /\ \E t \in Threads : MayLock(t) /\ ~AlreadyWritten(t)
  /\ UNCHANGED <<threadVars, mu, section, base, log, leftover, writerVars,
                 reportVars>>

RecorderStep(t) ==
  \/ CreateWriter(t)
  \/ CreateWriterFails(t)
  \/ SkipWrite(t)
  \/ Write(t)
  \/ WriteFails(t)
  \/ Return(t)

CompactionStep == CompactCreate \/ CompactScan \/ CompactCommit \/ CompactFails

EvaluationStep(e) ==
  \/ BeginInto(e)
  \/ \E c \in Conditions, value \in BOOLEAN : Condition(e, c, value)
  \/ \E result \in BOOLEAN : Finish(e, result)
  \/ Abort(e)

Next ==
  \/ \E e \in Evals : EvaluationStep(e)
  \/ \E t \in Threads : RecorderStep(t)
  \/ CompactionStep
  \/ Stop

Spec == Init /\ [][Next]_vars

(***************************************************************************)
(* The recorder's own steps are straight-line code between lock operations *)
(* of goroutines that Go's scheduler runs; the measured program owes it    *)
(* nothing.                                                                *)
(***************************************************************************)
FairSpec == /\ Spec
            /\ \A t \in Threads : WF_vars(RecorderStep(t))
            /\ WF_vars(CompactionStep)
-----------------------------------------------------------------------------
(***************************************************************************)
(* What the journal file says, as the collector will read it.              *)
(***************************************************************************)
Lines == {log[i] : i \in DOMAIN log}
TerminalLines == {[id |-> r.id, data |-> r.data] :
                    r \in {l \in Lines : l.type = "terminal"}}
Recorded == base.evaluations \cup TerminalLines
RecordedClauses == base.clauses \cup {l.clause : l \in {k \in Lines : k.type = "clause"}}
BegunIDs == base.begins \cup {l.id : l \in {k \in Lines : k.type = "begin"}}
OpenIDs == BegunIDs \ {v.id : v \in TerminalLines}

Ended == {e \in Evals : pc[e] \in {"terminal", "done", "stuck", "dropped"}}

FlagsOK ==
  /\ torn \in BOOLEAN /\ leftover \in BOOLEAN
  /\ writer \in BOOLEAN /\ fileOpen \in BOOLEAN
  /\ diagFile \in BOOLEAN /\ alive \in BOOLEAN

ValuesOK ==
  /\ pc \in [Threads -> {"idle", "inserted", "running", "terminal", "done",
                         "stuck", "dropped"}]
  /\ \A c \in Calls : pc[c] \in {"idle", "done"}
  /\ active \subseteq Evals
  /\ conds \in [Evals -> [Conditions -> ConditionState]]
  /\ event \in [Evals -> Data]
  /\ mu \in Threads \cup {Nobody}
  /\ section \in Section
  /\ base \in [evaluations : SUBSET Evaluation, begins : SUBSET Evals,
               clauses : SUBSET Clauses]
  /\ log \in Seq(Record)
  /\ tailBytes \in 0..MaxBytes
  /\ compactAt \in 0..MaxBytes
  /\ evaluations \subseteq Evaluation
  /\ clauses \subseteq Clauses
  /\ seenClauses \subseteq Clauses
  /\ beginIDs \subseteq Evals
  /\ terminalIDs \subseteq Evals
  /\ faults \in 0..MaxFaults

TypeOK == ValuesOK /\ FlagsOK

(***************************************************************************)
(* Whatever fails and whenever the process stops, every evaluation in the  *)
(* journal or in the next snapshot ended, with exactly that data: neither  *)
(* a reused condition buffer nor a compaction makes evidence up.           *)
(***************************************************************************)
Truthful ==
  \A v \in Recorded \cup evaluations :
    v.id \in Ended /\ v.data = event[v.id]

(***************************************************************************)
(* The collector never meets an ID it has already seen in that role, even  *)
(* after failed writes and compactions: no second begin, no second         *)
(* terminal, no begin after the end, and no begin for an evaluation that   *)
(* the snapshot holds.                                                     *)
(***************************************************************************)
NoDuplicates ==
  /\ \A i, j \in DOMAIN log :
       /\ log[i].type \in {"begin", "terminal"}
       /\ log[j].type \in {"begin", "terminal"}
       /\ log[i].id = log[j].id
       /\ i < j
       => log[i].type = "begin" /\ log[j].type = "terminal"
  /\ \A l \in Lines : l.type = "begin" => l.id \notin base.begins
  /\ \A v \in base.evaluations :
       /\ v.id \notin base.begins
       /\ \A l \in Lines : l.type \in {"begin", "terminal"} => l.id # v.id

(***************************************************************************)
(* Without a reported failure nothing is lost: a terminal line follows its *)
(* begin, an evaluation whose end was recorded is not taken for aborted,   *)
(* its data is in the journal, and so is every clause.                     *)
(***************************************************************************)
NothingLostSilently ==
  diagSeen = {} =>
    /\ \A j \in DOMAIN log : log[j].type = "terminal" =>
         \/ log[j].id \in base.begins
         \/ \E i \in 1..(j - 1) : log[i] = [type |-> "begin", id |-> log[j].id]
    /\ \A e \in Evals : pc[e] = "done" =>
         /\ e \notin OpenIDs
         /\ \E v \in Recorded : v.data = event[e]
    /\ seenClauses \subseteq RecordedClauses

(***************************************************************************)
(* Without failures the journal is bounded by the unique evidence and the  *)
(* active evaluations: outside the critical section the tail is shorter    *)
(* than the larger of the minimum and twice the last snapshot, and a       *)
(* snapshot holds one record per key.                                      *)
(***************************************************************************)
Bounded ==
  LET snapshot == Cardinality(base.evaluations) + Cardinality(base.begins)
                    + Cardinality(base.clauses)
  IN  /\ faults = 0 /\ mu = Nobody =>
           Len(log) < MinTail \/ Len(log) < 2 * snapshot
      /\ \A v, w \in base.evaluations : v.data = w.data => v = w

(***************************************************************************)
(* A compaction that fails backs off and never turns itself off: the       *)
(* threshold stays ahead of a tail of another MinTail records, unless both *)
(* are saturated.                                                          *)
(***************************************************************************)
BacksOff == [][CompactFails => \/ compactAt' >= tailBytes + MinTail
                               \/ compactAt' = MaxBytes]_vars

(***************************************************************************)
(* What the journal has told once it keeps telling: neither compaction nor *)
(* a failure removes an evaluation's data or a clause from the file.       *)
(***************************************************************************)
EvidenceOnlyGrows ==
  [][/\ {v.data : v \in Recorded} \subseteq {v.data : v \in Recorded'}
     /\ RecordedClauses \subseteq RecordedClauses']_vars

(***************************************************************************)
(* No recorder call blocks its caller for ever: locks nest in one order    *)
(* and a compaction ends, also when every system call of it fails.         *)
(***************************************************************************)
CallsReturn ==
  \A t \in Threads : NeedsWriter(t) ~> (~alive \/ ~NeedsWriter(t))
-----------------------------------------------------------------------------
(***************************************************************************)
(* The journal implements the log that its reader relies on.               *)
(***************************************************************************)
Log == INSTANCE EvidenceLog WITH
         ended <- {[id |-> e, data |-> event[e]] : e \in Ended},
         readable <- {v.data : v \in Recorded},
         running <- alive

(***************************************************************************)
(* Every step of the recorder, failing or not, ends an evaluation, makes   *)
(* data of ended evaluations readable, or is invisible in the journal.     *)
(***************************************************************************)
ImplementsLog == Log!Spec
-----------------------------------------------------------------------------
(***************************************************************************)
(* The inductive strengthening of the safety invariants.                   *)
(***************************************************************************)
(* The evaluation whose terminal record was written but who still holds    *)
(* state.mu, and with it all whose terminal record was written.            *)
Ending == {e \in Evals : mu = e /\ pc[e] = "terminal"}
Written == Ending \cup {e \in Evals : pc[e] = "done"}

LockInv ==
  /\ mu = Nobody <=> section.stage = "outside"
  /\ mu # Nobody => writer /\ NeedsWriter(mu)
  /\ ~writer => beginIDs = {}
  /\ section.stage # "scan" => section.begins = {} /\ section.shard = 0

ActiveInv ==
  /\ \A e \in Evals :
       e \in active <=> pc[e] \in {"inserted", "running", "terminal", "stuck"}
  /\ terminalIDs = Ending
  /\ beginIDs \subseteq active
  /\ beginIDs \ Ending \subseteq base.begins
  /\ \A e \in base.begins :
       pc[e] # "idle" /\ (pc[e] = "inserted" => e \in beginIDs)

(* While the journal is compacted an evaluation known to the file stays    *)
(* active, and the scan finds it.                                          *)
ScanInv ==
  /\ section.begins \subseteq active \ Ending
  /\ \A e \in Evals :
       /\ section.stage = "scan"
       /\ e % ShardCount < section.shard
       /\ e \notin Ending
       /\ \/ pc[e] \in {"running", "terminal", "stuck"}
          \/ e \in beginIDs
          \/ mu = e
       => e \in section.begins

LineInv ==
  /\ \A i \in DOMAIN log :
       /\ log[i].type = "begin" =>
            /\ pc[log[i].id] # "idle"
            /\ pc[log[i].id] = "inserted" => mu = log[i].id
       /\ log[i].type = "terminal" =>
            /\ log[i].id \in Written
            /\ log[i].data = event[log[i].id]
            /\ \E v \in evaluations : v.data = log[i].data
       /\ log[i].type = "clause" => log[i].clause \in clauses

SnapshotInv ==
  /\ \A v \in evaluations : v.id \in Written /\ v.data = event[v.id]
  /\ \A v, w \in evaluations : v.data = w.data => v = w
  /\ \A e \in Written : \E v \in evaluations : v.data = event[e]
  /\ base.evaluations \subseteq evaluations
  /\ base.clauses \subseteq clauses

CoreInv == LockInv /\ ActiveInv /\ ScanInv /\ LineInv /\ SnapshotInv
             /\ NoDuplicates

(* The inductive invariant: what the lock, the active evaluations, the maps*)
(* and the lines of the file say of one another in every state.            *)
IInv == TypeOK /\ CoreInv

(* With nothing reported, the file is whole: what was written is there.    *)
Whole ==
  /\ alive => ~torn
  /\ \A i \in DOMAIN log : log[i].type # "garbled"
  /\ \A e \in Evals : pc[e] \notin {"stuck", "dropped"}
  /\ \A e \in Evals :
       \/ pc[e] = "running"
       \/ pc[e] = "terminal" /\ mu # e
       \/ pc[e] = "inserted" /\ mu = e
       => e \in BegunIDs
  /\ \A e \in Written : e \in BegunIDs =>
       \E i \in DOMAIN log : log[i].type = "terminal" /\ log[i].id = e
  /\ \A j \in DOMAIN log : log[j].type = "terminal" =>
       \/ log[j].id \in base.begins
       \/ \E i \in 1..(j - 1) : log[i] = [type |-> "begin", id |-> log[j].id]
  /\ \A v \in evaluations : \E w \in Recorded : w.data = v.data
  /\ clauses \subseteq RecordedClauses
  /\ seenClauses \subseteq clauses
  /\ mu \in Calls => ClauseOf[mu] \in clauses

(* As long as no failure was reported the file is whole.                   *)
WholeInv == diagSeen = {} => Whole
=============================================================================
