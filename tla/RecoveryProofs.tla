--------------------------- MODULE RecoveryProofs ----------------------------
(* The recorder, and what the collector makes of it after it has stopped,   *)
(* for every value of the constants of Journal and Recovery.                *)
EXTENDS Recovery, FoldTheorems

USE DEF Nobody

(* The arithmetic of the thresholds stays within the counters.             *)
LEMMA SizesInRange ==
  /\ \A l, r \in 0..MaxBytes : SaturatingAdd(l, r) \in 0..MaxBytes
  /\ \A s \in Nat : CompactTailThreshold(s) \in 0..MaxBytes
  /\ \A c, t \in 0..MaxBytes : CompactionRetryThreshold(c, t) \in 0..MaxBytes
<1>1. \A l, r \in 0..MaxBytes : SaturatingAdd(l, r) \in 0..MaxBytes
  BY SizeAssumption DEF SaturatingAdd
<1>2. \A s \in Nat : CompactTailThreshold(s) \in 0..MaxBytes
  BY SizeAssumption DEF CompactTailThreshold
<1>3. \A c, t \in 0..MaxBytes : CompactionRetryThreshold(c, t) \in 0..MaxBytes
  BY <1>1, SizeAssumption DEF CompactionRetryThreshold
<1> QED BY <1>1, <1>2, <1>3

(* A failure is counted within its bound.                                  *)
LEMMA FailType ==
  ASSUME NEW m, faults \in 0..MaxFaults, Fail(m)
  PROVE  faults' \in 0..MaxFaults
BY FaultAssumption DEF Fail

(* A failure keeps the flags Boolean.                                      *)
LEMMA FailFlag ==
  ASSUME NEW m, Fail(m), FlagsOK PROVE diagFile' \in BOOLEAN
BY Zenon DEF Fail, FlagsOK

(* The Boolean variables, apart from the rest of the types. *)
LEMMA FlagsStep == FlagsOK /\ [Next]_vars => FlagsOK'
<1> SUFFICES ASSUME FlagsOK, [Next]_vars PROVE FlagsOK'
  OBVIOUS
<1>1. CASE UNCHANGED <<torn, leftover, writer, fileOpen, diagFile, alive>>
  BY <1>1, Zenon DEF FlagsOK
<1>2. ASSUME NEW t \in Threads, CreateWriter(t) PROVE FlagsOK'
  BY <1>2, Zenon DEF FlagsOK, CreateWriter, diskVars, reportVars
<1>3. ASSUME NEW t \in Threads, CreateWriterFails(t) PROVE FlagsOK'
  <2>1. diagFile' \in BOOLEAN
    BY <1>3, FailFlag, Zenon DEF CreateWriterFails
  <2> QED
    BY <2>1, <1>3, Zenon DEF FlagsOK, CreateWriterFails, diskVars, writerVars
<1>4. ASSUME NEW t \in Threads, Write(t) PROVE FlagsOK'
  BY <1>4, Zenon DEF FlagsOK, Write, reportVars
<1>5. ASSUME NEW t \in Threads, WriteFails(t) PROVE FlagsOK'
  <2>1. diagFile' \in BOOLEAN
    BY <1>5, FailFlag, Zenon DEF WriteFails
  <2> QED
    BY <2>1, <1>5, Zenon DEF FlagsOK, WriteFails
<1>6. ASSUME CompactCommit PROVE FlagsOK'
  <2>1. diagFile' \in BOOLEAN
    BY <1>6, FailFlag, Zenon DEF FlagsOK, CompactCommit, reportVars
  <2> QED
    BY <2>1, <1>6, Zenon DEF FlagsOK, CompactCommit, reportVars
<1>7. ASSUME CompactFails PROVE FlagsOK'
  <2>1. diagFile' \in BOOLEAN
    BY <1>7, FailFlag, Zenon DEF CompactFails
  <2> QED
    BY <2>1, <1>7, Zenon DEF FlagsOK, CompactFails
<1>8. ASSUME Stop PROVE FlagsOK'
  BY <1>8, Zenon DEF FlagsOK, Stop, writerVars, reportVars
<1>9. ASSUME NEW e \in Evals, EvaluationStep(e) PROVE FlagsOK'
  BY <1>1, <1>9, Zenon DEF EvaluationStep, BeginInto, Condition, Finish, Abort,
     Capture, diskVars, writerVars, reportVars
<1>10. ASSUME NEW t \in Threads, SkipWrite(t) \/ Return(t) PROVE FlagsOK'
  BY <1>1, <1>10, Zenon DEF SkipWrite, Return, diskVars, writerVars, reportVars
<1>11. ASSUME CompactCreate \/ CompactScan PROVE FlagsOK'
  BY <1>1, <1>11, Zenon DEF CompactCreate, CompactScan, MayScan, Found, diskVars, writerVars,
     reportVars
<1>12. ASSUME UNCHANGED vars PROVE FlagsOK'
  BY <1>1, <1>12, Zenon DEF vars, diskVars, writerVars, reportVars
<1> QED
  BY <1>2, <1>3, <1>4, <1>5, <1>6, <1>7, <1>8, <1>9, <1>10, <1>11, <1>12,
     Zenon DEF Next, RecorderStep, CompactionStep

(* The sets that a compaction counts are finite. *)
FiniteInv == IsFiniteSet(evaluations) /\ IsFiniteSet(clauses)

(* No step makes an infinite map of evaluations or clauses.                *)
LEMMA FinitePreserved ==
  ASSUME FiniteInv, [Next]_vars PROVE FiniteInv'
<1>1. CASE \E t \in Threads : Write(t)
  <2> PICK t \in Threads : Write(t) BY <1>1
  <2>1. \/ clauses' = clauses
        \/ clauses' = clauses \cup {ClauseOf[t]}
    BY DEF Write, Remember
  <2>2. \/ evaluations' = evaluations
        \/ evaluations' = evaluations \cup {[id |-> t, data |-> event[t]]}
    BY DEF Write, Remember
  <2> QED BY <2>1, <2>2, FS_AddElement DEF FiniteInv
<1>2. CASE UNCHANGED <<evaluations, clauses>>
  BY <1>2 DEF FiniteInv
<1> QED
  BY <1>1, <1>2 DEF Next, EvaluationStep, RecorderStep, CompactionStep, BeginInto, Condition,
     Finish, Abort,
     Capture, CreateWriter, CreateWriterFails, SkipWrite, WriteFails, Return,
     CompactCreate, CompactScan, MayScan, Found, CompactCommit, CompactFails, Stop,
     vars, writerVars

(***************************************************************************)
(* Type correctness.                                                       *)
(***************************************************************************)
(* What At builds is a section.                                            *)
LEMMA SectionType ==
  \A stage \in {"outside", "compact", "scan", "return"} : At(stage) \in Section
BY ShardAssumption DEF At, Section

(* The initial state has its types.                                        *)
LEMMA TypeInit == Init => TypeOK /\ FiniteInv
<1> SUFFICES ASSUME Init PROVE TypeOK /\ FiniteInv OBVIOUS
<1>1. event \in [Evals -> Data]
  BY DEF Init, Data, ConditionState
<1>2. IsFiniteSet({})
  BY FS_EmptySet
<1>3. section \in Section
  BY SectionType DEF Init, Outside
<1>4. /\ conds \in [Evals -> [Conditions -> ConditionState]]
      /\ base \in [evaluations : SUBSET Evaluation, begins : SUBSET Evals,
                   clauses : SUBSET Clauses]
      /\ log \in Seq(Record)
  BY DEF Init, ConditionState
<1>5. FlagsOK
  BY Zenon DEF Init, FlagsOK
<1>6. TypeOK /\ FiniteInv
  <2>1. /\ pc \in [Threads -> {"idle"}]
        /\ tailBytes \in 0..MaxBytes /\ compactAt \in 0..MaxBytes
        /\ faults \in 0..MaxFaults
    BY SizeAssumption, FaultAssumption DEF Init
  <2>2. ValuesOK
    BY <1>1, <1>3, <1>4, <2>1 DEF Init, ValuesOK, Threads
  <2> QED
    BY <1>2, <1>5, <2>2 DEF Init, TypeOK, FiniteInv
<1> QED BY <1>6

(* What finish and abort capture is the data of an evaluation.             *)
LEMMA CaptureData ==
  ASSUME ValuesOK, NEW e \in Evals, NEW result \in BOOLEAN
  PROVE  /\ [site |-> Site[e], conds |-> conds[e], result |-> result,
             status |-> "completed",
             skipped |-> IF result THEN Skips[e] ELSE {}] \in Data
         /\ [site |-> Site[e], conds |-> conds[e], result |-> FALSE,
             status |-> "aborted", skipped |-> {}] \in Data
BY DEF ValuesOK, Data

(* Every step keeps the types of the variables that are not flags.         *)
LEMMA ValuesStep == ValuesOK /\ FiniteInv /\ [Next]_vars => ValuesOK'
<1> SUFFICES ASSUME ValuesOK, FiniteInv, [Next]_vars PROVE ValuesOK'
  OBVIOUS
<1>1. ASSUME NEW e \in Evals, BeginInto(e) PROVE ValuesOK'
  BY <1>1, CallsAssumption DEF ValuesOK, BeginInto, diskVars, writerVars, reportVars, Threads
<1>2. ASSUME NEW e \in Evals, NEW c \in Conditions, NEW value \in BOOLEAN,
             Condition(e, c, value)
      PROVE  ValuesOK'
  <2>1. conds' \in [Evals -> [Conditions -> ConditionState]]
    BY <1>2 DEF ValuesOK, Condition, ConditionState
  <2> QED
    BY <2>1, <1>2 DEF ValuesOK, Condition, diskVars, writerVars, reportVars
<1>3. ASSUME NEW e \in Evals, NEW data \in Data, Capture(e, data)
      PROVE  ValuesOK'
  BY <1>3 DEF ValuesOK, Capture, diskVars, writerVars, reportVars, Threads
<1>4. ASSUME NEW t \in Threads, CreateWriter(t) PROVE ValuesOK'
  BY <1>4 DEF ValuesOK, CreateWriter, threadVars, diskVars, reportVars
<1>5. ASSUME NEW t \in Threads, CreateWriterFails(t) PROVE ValuesOK'
  BY <1>5, FailType DEF ValuesOK, CreateWriterFails, diskVars, writerVars,
     Afterwards, NeedsWriter, Threads
<1>6. ASSUME NEW t \in Threads, SkipWrite(t) PROVE ValuesOK'
  BY <1>6 DEF ValuesOK, SkipWrite, diskVars, writerVars, reportVars,
     MayLock, Afterwards, NeedsWriter, Threads
<1>7. ASSUME NEW t \in Threads, Write(t) PROVE ValuesOK'
  <2>1. RecordOf(t) \in Record
    BY <1>7 DEF ValuesOK, Write, RecordOf, Record, Clauses, Threads
  <2>2. log' \in Seq(Record)
    BY <2>1, <1>7 DEF ValuesOK, Write, Record
  <2>3. section' \in Section
    BY <1>7, SectionType DEF Write
  <2>4. tailBytes' \in 0..MaxBytes
    BY <1>7, SizesInRange, SizeAssumption DEF ValuesOK, Write
  <2>5. /\ evaluations' \subseteq Evaluation
        /\ clauses' \subseteq Clauses
        /\ terminalIDs' \subseteq Evals
    BY <1>7 DEF ValuesOK, Write, Remember, Evaluation, Clauses
  <2> QED
    BY <2>2, <2>3, <2>4, <2>5, <1>7
    DEF ValuesOK, Write, threadVars, reportVars
<1>8. ASSUME NEW t \in Threads, WriteFails(t) PROVE ValuesOK'
  <2>1. pc' \in [Threads -> {"idle", "inserted", "running", "terminal", "done",
                             "stuck", "dropped"}]
    BY <1>8 DEF ValuesOK, WriteFails, Afterwards
  <2>2. \A c \in Calls : pc'[c] \in {"idle", "done"}
    BY <1>8, CallsAssumption DEF ValuesOK, WriteFails, Afterwards, Threads
  <2>3. faults' \in 0..MaxFaults
    BY <1>8, FailType DEF ValuesOK, WriteFails
  <2>4. tailBytes' \in 0..MaxBytes
    <3>1. tailBytes' = tailBytes \/ tailBytes' = SaturatingAdd(tailBytes, 1)
      BY <1>8 DEF WriteFails
    <3>2. tailBytes \in 0..MaxBytes /\ 1 \in 0..MaxBytes
      BY SizeAssumption DEF ValuesOK
    <3> QED BY <3>1, <3>2, SizesInRange
  <2> QED
    BY <2>1, <2>2, <2>3, <2>4, <1>8 DEF ValuesOK, WriteFails
<1>9. ASSUME NEW t \in Threads, Return(t) PROVE ValuesOK'
  <2>1. section' \in Section
    BY <1>9, SectionType DEF Return, Outside
  <2>2. seenClauses' \subseteq Clauses
    BY <1>9 DEF ValuesOK, Return, Clauses
  <2>3. pc' \in [Threads -> {"idle", "inserted", "running", "terminal", "done",
                             "stuck", "dropped"}]
    BY <1>9 DEF ValuesOK, Return, Afterwards
  <2>4. \A c \in Calls : pc'[c] \in {"idle", "done"}
    BY <1>9 DEF ValuesOK, Return, Afterwards, Threads
  <2> QED
    BY <2>1, <2>2, <2>3, <2>4, <1>9
    DEF ValuesOK, Return, diskVars, reportVars
<1>10. ASSUME CompactCreate PROVE ValuesOK'
  BY <1>10, SectionType DEF ValuesOK, CompactCreate, threadVars, diskVars, writerVars,
     reportVars
<1>11. ASSUME CompactScan PROVE ValuesOK'
  <2>1. section' \in Section
    <3>1. section \in Section /\ section.shard + 1 \in 0..ShardCount
      BY <1>11, ShardAssumption DEF ValuesOK, CompactScan, MayScan, Found, Section
    <3>2. PICK found \in SUBSET active :
            section' = [section EXCEPT !.shard = @ + 1, !.begins = @ \cup found]
      BY <1>11 DEF CompactScan, MayScan, Found
    <3> QED
      BY <3>1, <3>2 DEF ValuesOK, Section
  <2> QED
    BY <2>1, <1>11 DEF ValuesOK, CompactScan, MayScan, Found, threadVars, diskVars, writerVars,
       reportVars
<1>12. ASSUME CompactCommit PROVE ValuesOK'
  <2>1. base' \in [evaluations : SUBSET Evaluation, begins : SUBSET Evals,
                   clauses : SUBSET Clauses]
    BY <1>12 DEF ValuesOK, CompactCommit, Section
  <2>2. compactAt' \in 0..MaxBytes
    <3>1. IsFiniteSet(section.begins)
      <4>1. IsFiniteSet(Evals)
        BY FS_Interval, NAssumption DEF Evals
      <4> QED
        BY <4>1, FS_Subset DEF ValuesOK, Section
    <3>2. Cardinality(evaluations) + Cardinality(section.begins)
            + Cardinality(clauses) \in Nat
      BY <3>1, FS_CardinalityType DEF FiniteInv
    <3> QED BY <3>2, <1>12, SizesInRange DEF CompactCommit
  <2>3. section' \in Section /\ beginIDs' \subseteq Evals
    BY <1>12, SectionType DEF ValuesOK, CompactCommit, Section
  <2>5. faults' \in 0..MaxFaults
    BY <1>12, FailType DEF ValuesOK, CompactCommit, reportVars
  <2>6. log' \in Seq(Record) /\ tailBytes' \in 0..MaxBytes
    <3>1. log' = <<>> /\ tailBytes' = 0
      BY <1>12 DEF CompactCommit
    <3> QED BY <3>1, SizeAssumption
  <2> QED
    BY <2>1, <2>2, <2>3, <2>5, <2>6, <1>12
    DEF ValuesOK, CompactCommit, threadVars
<1>13. ASSUME CompactFails PROVE ValuesOK'
  BY <1>13, FailType, SizesInRange, SectionType DEF ValuesOK, CompactFails,
     threadVars
<1>14. ASSUME Stop PROVE ValuesOK'
  BY <1>14 DEF ValuesOK, Stop, threadVars, writerVars, reportVars
<1>15. ASSUME UNCHANGED vars PROVE ValuesOK'
  BY <1>15 DEF ValuesOK, vars, threadVars, diskVars, writerVars, reportVars
<1> QED
  BY <1>1, <1>2, <1>3, <1>4, <1>5, <1>6, <1>7, <1>8, <1>9, <1>10, <1>11,
     <1>12, <1>13, <1>14, <1>15, CaptureData
  DEF Next, EvaluationStep, RecorderStep, CompactionStep, Finish, Abort

(* Every step keeps the types.                                             *)
LEMMA TypeStep == TypeOK /\ FiniteInv /\ [Next]_vars => TypeOK'
BY ValuesStep, FlagsStep, Zenon DEF TypeOK

(* Every variable keeps its type, and the maps that a compaction walks     *)
(* stay finite, in every behaviour of the recorder.                        *)
THEOREM TypeCorrect == Spec => []TypeOK
<1>1. Init => TypeOK /\ FiniteInv
  BY TypeInit
<1>2. TypeOK /\ FiniteInv /\ [Next]_vars => (TypeOK /\ FiniteInv)'
  BY TypeStep, FinitePreserved
<1> QED
  BY <1>1, <1>2, PTL DEF Spec

-----------------------------------------------------------------------------
(***************************************************************************)
(* The invariant of the file, the maps and the lock.                       *)
(***************************************************************************)
(* What the record of a thread says about IDs.                             *)
LEMMA RecordIDs ==
  ASSUME ValuesOK, NEW i \in DOMAIN log
  PROVE  /\ log[i].type \in {"begin", "terminal"} => log[i].id \in Evals
         /\ log[i].type = "terminal" => log[i].data \in Data
BY DEF ValuesOK, Record

coreVars == <<pc, active, event, mu, section, base, log, writer, evaluations,
              clauses, beginIDs, terminalIDs>>

(* The invariant of the file depends on coreVars only.                     *)
LEMMA CoreUntouched == CoreInv /\ UNCHANGED coreVars => CoreInv'
BY DEF CoreInv, coreVars, LockInv, ActiveInv, ScanInv, LineInv, SnapshotInv,
       NoDuplicates, Ending, Written, NeedsWriter, Lines

(* The invariant holds at the start.                                       *)
LEMMA CoreInit == Init => CoreInv
BY ShardAssumption, CallsAssumption
DEF Init, CoreInv, LockInv, ActiveInv, ScanInv, LineInv, SnapshotInv,
    NoDuplicates, Ending, Written, NeedsWriter, Lines, At, Outside, Threads, Evals

(* A hook that begins an evaluation preserves the invariant.               *)
LEMMA CoreBegin ==
  ASSUME ValuesOK, CoreInv, NEW e \in Evals, BeginInto(e)
  PROVE  CoreInv'
<1> USE DEF CoreInv, BeginInto, diskVars, writerVars, reportVars
<1>1. pc' = [pc EXCEPT ![e] = "inserted"] /\ pc[e] = "idle" /\ e \in Threads
  BY DEF Threads
<1>2. mu # e
  BY <1>1, CallsAssumption DEF LockInv, NeedsWriter, Evals
<1>3. Ending' = Ending /\ Written' = Written
  BY <1>1, <1>2 DEF Ending, Written, ValuesOK
<1>4. LockInv'
  BY <1>1, <1>2 DEF LockInv, NeedsWriter, ValuesOK, Threads
<1>5. ActiveInv'
  BY <1>1, <1>3 DEF ActiveInv, ValuesOK
<1>6. ScanInv'
  BY <1>1, <1>2, <1>3 DEF ScanInv, ActiveInv, ValuesOK
<1>7. LineInv'
  BY <1>1, <1>2, <1>3, RecordIDs DEF LineInv, ValuesOK
<1>8. SnapshotInv'
  BY <1>3 DEF SnapshotInv
<1>9. NoDuplicates'
  BY DEF NoDuplicates, Lines
<1> QED BY <1>4, <1>5, <1>6, <1>7, <1>8, <1>9

(* A hook that ends one preserves it: the record is not in the file.       *)
LEMMA CoreCapture ==
  ASSUME ValuesOK, CoreInv, NEW e \in Evals, NEW data, Capture(e, data)
  PROVE  CoreInv'
<1> USE DEF CoreInv, Capture, diskVars, writerVars, reportVars
<1>1. pc' = [pc EXCEPT ![e] = "terminal"] /\ pc[e] = "running" /\ e \in Threads
  BY DEF Threads
<1>2. mu # e
  BY <1>1, CallsAssumption DEF LockInv, NeedsWriter, Evals
<1>3. Ending' = Ending /\ Written' = Written /\ e \notin Written
  BY <1>1, <1>2 DEF Ending, Written, ValuesOK
<1>4. \A d \in Written : event'[d] = event[d]
  BY <1>3 DEF ValuesOK, Written, Ending
<1>5. LockInv'
  BY <1>1, <1>2 DEF LockInv, NeedsWriter, ValuesOK, Threads
<1>6. ActiveInv'
  BY <1>1, <1>3 DEF ActiveInv, ValuesOK
<1>7. ScanInv'
  BY <1>1, <1>2, <1>3 DEF ScanInv, ValuesOK
<1>8. LineInv'
  BY <1>1, <1>2, <1>3, <1>4, RecordIDs DEF LineInv, ValuesOK
<1>9. SnapshotInv'
  BY <1>3, <1>4 DEF SnapshotInv
<1>10. NoDuplicates'
  BY DEF NoDuplicates, Lines
<1> QED BY <1>5, <1>6, <1>7, <1>8, <1>9, <1>10

(* A thread goes on without a record: skipped, failed or dropped. *)
LEMMA CoreGiveUp ==
  ASSUME ValuesOK, CoreInv, NEW t \in Threads, NeedsWriter(t), mu = Nobody,
         pc' = [pc EXCEPT ![t] = Afterwards(t, FALSE)],
         UNCHANGED <<active, event, mu, section, base, log, writer,
                     evaluations, clauses, beginIDs, terminalIDs>>
  PROVE  CoreInv'
<1> USE DEF CoreInv
<1>1. /\ section.stage = "outside" /\ section.begins = {} /\ section.shard = 0
  BY DEF LockInv
<1>2. Ending = {} /\ Ending' = {} /\ Written' = Written
  BY CallsAssumption
  DEF Ending, Written, ValuesOK, Afterwards, NeedsWriter, Evals
<1>3. \A e \in Evals : /\ pc[e] # "idle" <=> pc'[e] # "idle"
                       /\ pc'[e] = "inserted" => pc[e] = "inserted"
                       /\ pc[e] \in {"inserted", "running", "terminal", "stuck"}
                          <=> pc'[e] \in {"inserted", "running", "terminal", "stuck"}
  BY CallsAssumption DEF ValuesOK, Afterwards, NeedsWriter
<1>4. LockInv'
  BY <1>1 DEF LockInv
<1>5. ActiveInv'
  BY <1>2, <1>3 DEF ActiveInv, ValuesOK
<1>6. ScanInv'
  BY <1>1 DEF ScanInv
<1>7. LineInv'
  BY <1>2, <1>3, RecordIDs DEF LineInv
<1>8. SnapshotInv'
  BY <1>2 DEF SnapshotInv
<1>9. NoDuplicates'
  BY DEF NoDuplicates, Lines
<1> QED BY <1>4, <1>5, <1>6, <1>7, <1>8, <1>9

(* Before the file exists a terminal record is dropped. *)
LEMMA CoreCreateFails ==
  ASSUME ValuesOK, CoreInv, NEW t \in Threads, CreateWriterFails(t)
  PROVE  CoreInv'
<1>0. /\ NeedsWriter(t) /\ ~writer
      /\ UNCHANGED <<event, mu, section, base, log, writer, evaluations,
                     clauses, beginIDs, terminalIDs>>
  BY DEF CreateWriterFails, writerVars, diskVars
<1>1. mu = Nobody /\ beginIDs = {}
  BY <1>0 DEF CoreInv, LockInv
<1>2. CASE pc[t] # "terminal"
  <2>1. active' = active /\ pc' = [pc EXCEPT ![t] = Afterwards(t, FALSE)]
    BY <1>2 DEF CreateWriterFails
  <2> QED BY <1>0, <1>1, <2>1, CoreGiveUp
<1>3. CASE pc[t] = "terminal"
  <2>1. t \in Evals /\ t \notin Calls
    BY <1>3 DEF ValuesOK, Threads
  <2>2. /\ pc' = [pc EXCEPT ![t] = "dropped"]
        /\ active' = active \ {t}
    BY <1>3 DEF CreateWriterFails
  <2>3. /\ section.stage = "outside" /\ section.begins = {} /\ section.shard = 0
    BY <1>1 DEF CoreInv, LockInv
  <2>4. Ending = {} /\ Ending' = {} /\ Written' = Written
    BY <1>0, <1>1, <1>3, <2>1, <2>2 DEF Ending, Written, ValuesOK, Evals
  <2>5. LockInv'
    BY <1>0, <1>1, <2>3 DEF CoreInv, LockInv
  <2>6. ActiveInv'
    BY <1>0, <1>1, <2>1, <2>2, <2>4 DEF CoreInv, ActiveInv, ValuesOK
  <2>7. ScanInv'
    BY <1>0, <2>3 DEF CoreInv, ScanInv
  <2>8. LineInv'
    BY <1>0, <1>1, <2>1, <2>2, <2>4, RecordIDs DEF CoreInv, LineInv, ValuesOK
  <2>9. SnapshotInv'
    BY <1>0, <2>4 DEF CoreInv, SnapshotInv
  <2>10. NoDuplicates'
    BY <1>0 DEF CoreInv, NoDuplicates, Lines
  <2> QED BY <2>5, <2>6, <2>7, <2>8, <2>9, <2>10 DEF CoreInv
<1> QED BY <1>2, <1>3

(* The scan of a shard finds what the file knows to be active.             *)
LEMMA CoreScan ==
  ASSUME ValuesOK, CoreInv, CompactScan PROVE CoreInv'
<1> DEFINE found == {e \in active : /\ e % ShardCount = section.shard
                                    /\ e \notin terminalIDs}
           next == [section EXCEPT !.shard = @ + 1, !.begins = @ \cup found]
<1>1. /\ section.stage = "scan" /\ section.shard < ShardCount
      /\ section' = next
      /\ UNCHANGED <<pc, active, event, mu, base, log, writer, evaluations,
                     clauses, beginIDs, terminalIDs>>
  BY Zenon DEF CompactScan, MayScan, Found, threadVars, diskVars, writerVars
<1>2. /\ section \in Section /\ section.shard \in 0..ShardCount
      /\ ShardCount \in Nat \ {0}
  BY ShardAssumption DEF ValuesOK, Section
<1>3. \A e \in Evals : \/ e \notin active
                       \/ e \in Ending
                       \/ e % ShardCount # section.shard
                       \/ e \in found
  BY DEF CoreInv, ActiveInv
<1>4. found \subseteq active \ Ending
  BY DEF CoreInv, ActiveInv
<1> HIDE DEF found
<1>5. /\ next.stage = "scan" /\ next.shard = section.shard + 1
      /\ next.begins = section.begins \cup found
  BY <1>1, <1>2 DEF Section
<1> HIDE DEF next
<1>6. Ending' = Ending /\ Written' = Written
  BY <1>1 DEF Ending, Written
<1>7. LockInv'
  BY <1>1, <1>5 DEF CoreInv, LockInv, NeedsWriter
<1>8. ActiveInv'
  BY <1>1, <1>6 DEF CoreInv, ActiveInv
<1>9. next.begins \subseteq active \ Ending
  BY <1>4, <1>5 DEF CoreInv, ScanInv
<1>10. ASSUME NEW e \in Evals, e % ShardCount < section.shard + 1,
              e \notin Ending,
              \/ pc[e] \in {"running", "terminal", "stuck"}
              \/ e \in beginIDs
              \/ mu = e
       PROVE  e \in next.begins
  <2>1. e \in active
    BY <1>10, CallsAssumption DEF CoreInv, ActiveInv, LockInv, NeedsWriter, Evals
  <2>2. e % ShardCount < section.shard \/ e % ShardCount = section.shard
    BY <1>2, <1>10 DEF Evals
  <2>3. CASE e % ShardCount < section.shard
    BY <1>1, <1>5, <1>10, <2>3 DEF CoreInv, ScanInv
  <2>4. CASE e % ShardCount = section.shard
    BY <1>3, <1>5, <1>10, <2>1, <2>4
  <2> QED BY <2>2, <2>3, <2>4
<1>11. ScanInv'
  BY <1>1, <1>5, <1>6, <1>9, <1>10 DEF ScanInv
<1>12. LineInv' /\ SnapshotInv' /\ NoDuplicates'
  BY <1>1, <1>6 DEF CoreInv, LineInv, SnapshotInv, NoDuplicates, Lines
<1> QED BY <1>7, <1>8, <1>11, <1>12 DEF CoreInv

(* Steps that only move the critical section on. *)
LEMMA CoreSection ==
  ASSUME ValuesOK, CoreInv, mu # Nobody,
         NEW stage \in {"compact", "scan", "return"}, section' = At(stage),
         UNCHANGED <<pc, active, event, mu, base, log, writer, evaluations,
                     clauses, beginIDs, terminalIDs>>
  PROVE  CoreInv'
<1> USE DEF CoreInv
<1>1. section'.stage = stage /\ section'.begins = {} /\ section'.shard = 0
  BY DEF At
<1>2. Ending' = Ending /\ Written' = Written
  BY DEF Ending, Written
<1>3. LockInv'
  BY <1>1 DEF LockInv, NeedsWriter
<1>4. ActiveInv'
  BY <1>2 DEF ActiveInv
<1>5. ScanInv'
  BY <1>1, ShardAssumption DEF ScanInv, Evals
<1>6. LineInv' /\ SnapshotInv' /\ NoDuplicates'
  BY <1>2 DEF LineInv, SnapshotInv, NoDuplicates, Lines
<1> QED BY <1>3, <1>4, <1>5, <1>6

(* What appending one line does to the positions and the lines. *)
LEMMA AppendLine ==
  ASSUME ValuesOK, NEW r, log' = Append(log, r)
  PROVE  /\ \A i \in DOMAIN log : i \in DOMAIN log' /\ log'[i] = log[i] /\ i <= Len(log)
         /\ Len(log) + 1 \in DOMAIN log' /\ log'[Len(log) + 1] = r
         /\ \A i \in DOMAIN log' : i \in DOMAIN log \/ i = Len(log) + 1
         /\ \A i \in DOMAIN log' : i \in Int
         /\ \A l \in Lines' : l \in Lines \/ l = r
<1>1. log \in Seq(Record) /\ Len(log) \in Nat /\ DOMAIN log = 1..Len(log)
  BY DEF ValuesOK
<1>2. /\ DOMAIN log' = 1..(Len(log) + 1)
      /\ \A i \in 1..Len(log) : log'[i] = log[i]
      /\ log'[Len(log) + 1] = r
  BY <1>1
<1> QED BY <1>1, <1>2 DEF Lines

(* The write of a record neither repeats nor contradicts a line.           *)
LEMMA CoreWrite ==
  ASSUME ValuesOK, CoreInv, NEW t \in Threads, Write(t)
  PROVE  CoreInv'
<1> DEFINE r == IF torn THEN [type |-> "garbled"] ELSE RecordOf(t)
<1>1. /\ mu = Nobody /\ writer /\ NeedsWriter(t) /\ ~AlreadyWritten(t)
      /\ mu' = t
      /\ log' = Append(log, r)
      /\ section' = At("compact") \/ section' = At("return")
      /\ Remember(t)
      /\ UNCHANGED <<pc, active, event, base, writer, beginIDs>>
  BY DEF Write, MayLock, threadVars
<1>2. \/ r.type = "garbled"
      \/ t \in Calls /\ r.type = "clause" /\ r.clause = ClauseOf[t]
      \/ t \in Evals /\ t \notin Calls /\ pc[t] = "inserted"
         /\ r.type = "begin" /\ r.id = t
      \/ t \in Evals /\ t \notin Calls /\ pc[t] = "terminal"
         /\ r.type = "terminal" /\ r.id = t /\ r.data = event[t]
  BY <1>1 DEF RecordOf, NeedsWriter, Threads
<1> HIDE DEF r
<1>3. t # Nobody
  BY NobodyAssumption DEF Threads, Evals
<1>4. Ending = {} /\ terminalIDs = {}
  BY <1>1 DEF Ending, Evals, CoreInv, ActiveInv
<1>5. Ending' = IF pc[t] = "terminal" THEN {t} ELSE {}
  BY <1>1, CallsAssumption DEF Ending, NeedsWriter, Threads
<1>6. t \notin Written /\ Written' = Written \cup Ending'
  BY <1>1, <1>4, CallsAssumption DEF Written, NeedsWriter
<1>7. pc[t] = "terminal" => t \in Evals /\ t \notin Calls
  BY <1>1 DEF NeedsWriter, Threads
<1>8. /\ evaluations \subseteq evaluations'
      /\ \A v \in evaluations' : v \in evaluations
           \/ (pc[t] = "terminal" /\ v = [id |-> t, data |-> event[t]]
               /\ \A w \in evaluations : w.data # event[t])
      /\ pc[t] = "terminal" => \E v \in evaluations' : v.data = event[t]
      /\ clauses \subseteq clauses'
      /\ t \in Calls => ClauseOf[t] \in clauses'
      /\ terminalIDs' = Ending'
  <2>1. /\ clauses \subseteq clauses'
        /\ t \in Calls => ClauseOf[t] \in clauses'
    BY <1>1 DEF Remember
  <2>2. CASE pc[t] = "terminal"
    <3>1. terminalIDs' = Ending'
      BY <1>1, <1>4, <1>5, <1>7, <2>2 DEF Remember
    <3>2. CASE \E v \in evaluations : v.data = event[t]
      <4>1. evaluations' = evaluations
        BY <1>1, <1>7, <2>2, <3>2 DEF Remember
      <4> QED BY <4>1, <3>1, <3>2, <2>1
    <3>3. CASE ~\E v \in evaluations : v.data = event[t]
      <4>1. evaluations' = evaluations \cup {[id |-> t, data |-> event[t]]}
        BY <1>1, <1>7, <2>2, <3>3 DEF Remember
      <4>2. \A v \in evaluations' :
              v \in evaluations \/ v = [id |-> t, data |-> event[t]]
        BY <4>1
      <4>3. \E v \in evaluations' : v.data = event[t]
        <5>1. [id |-> t, data |-> event[t]] \in evaluations'
          BY <4>1
        <5>2. [id |-> t, data |-> event[t]].data = event[t]
          OBVIOUS
        <5> QED BY <5>1, <5>2, Zenon
      <4>4. \A w \in evaluations : w.data # event[t]
        BY <3>3
      <4>5. evaluations \subseteq evaluations'
        BY <4>1
      <4> QED BY <4>2, <4>3, <4>4, <4>5, <3>1, <2>1, <2>2
    <3> QED BY <3>2, <3>3
  <2>3. CASE pc[t] # "terminal"
    <3>1. evaluations' = evaluations /\ terminalIDs' = terminalIDs
      BY <1>1, <2>3 DEF Remember
    <3> QED BY <3>1, <2>1, <2>3, <1>4, <1>5
  <2> QED BY <2>2, <2>3
<1>9. \A l \in Lines : l.type = "terminal" \/ l.type = "begin" =>
        /\ l.id = t => l.type = "begin" /\ pc[t] = "terminal"
  BY <1>1, <1>3, <1>6 DEF CoreInv, LineInv, Lines, NeedsWriter
<1>10. LockInv'
  BY <1>1, <1>3 DEF CoreInv, LockInv, At, NeedsWriter
<1>11. ActiveInv'
  BY <1>1, <1>4, <1>5, <1>8 DEF CoreInv, ActiveInv
<1>12. ScanInv'
  BY <1>1 DEF ScanInv, At
<1>13. LineInv'
  <2>1. ASSUME NEW i \in DOMAIN log
        PROVE  /\ log[i].type = "begin" =>
                    /\ pc'[log[i].id] # "idle"
                    /\ pc'[log[i].id] = "inserted" => mu' = log[i].id
               /\ log[i].type = "terminal" =>
                    /\ log[i].id \in Written'
                    /\ log[i].data = event'[log[i].id]
                    /\ \E v \in evaluations' : v.data = log[i].data
               /\ log[i].type = "clause" => log[i].clause \in clauses'
    BY <2>1, <1>1, <1>6, <1>8, RecordIDs DEF CoreInv, LineInv, Evals
  <2>2. /\ r.type = "begin" =>
             /\ pc'[r.id] # "idle"
             /\ pc'[r.id] = "inserted" => mu' = r.id
        /\ r.type = "terminal" =>
             /\ r.id \in Written'
             /\ r.data = event'[r.id]
             /\ \E v \in evaluations' : v.data = r.data
        /\ r.type = "clause" => r.clause \in clauses'
    BY <1>1, <1>2, <1>5, <1>6, <1>8
  <2> QED BY <2>1, <2>2, <1>1, AppendLine DEF LineInv
<1>14. SnapshotInv'
  <2>1. \A v \in evaluations' : v.id \in Written' /\ v.data = event'[v.id]
    BY <1>1, <1>5, <1>6, <1>8 DEF CoreInv, SnapshotInv
  <2>2. \A v, w \in evaluations' : v.data = w.data => v = w
    BY <1>8 DEF CoreInv, SnapshotInv
  <2>3. \A e \in Written' : \E v \in evaluations' : v.data = event'[e]
    BY <1>1, <1>5, <1>6, <1>8 DEF CoreInv, SnapshotInv
  <2> QED BY <2>1, <2>2, <2>3, <1>1, <1>8 DEF CoreInv, SnapshotInv
<1>15. NoDuplicates'
  <2>1. ASSUME NEW i \in DOMAIN log, r.type \in {"begin", "terminal"},
               log[i].type \in {"begin", "terminal"}, log[i].id = r.id
        PROVE  log[i].type = "begin" /\ r.type = "terminal"
    BY <1>2, <1>9, <2>1 DEF Lines
  <2>2. \A i, j \in DOMAIN log' :
          /\ log'[i].type \in {"begin", "terminal"}
          /\ log'[j].type \in {"begin", "terminal"}
          /\ log'[i].id = log'[j].id
          /\ i < j
          => log'[i].type = "begin" /\ log'[j].type = "terminal"
    BY <2>1, <1>1, AppendLine DEF CoreInv, NoDuplicates
  <2>3. r.type = "begin" => r.id \notin base.begins
    BY <1>1, <1>2 DEF CoreInv, ActiveInv, AlreadyWritten
  <2>4. \A v \in base.evaluations :
          r.type \in {"begin", "terminal"} => r.id # v.id
    BY <1>2, <1>6 DEF CoreInv, SnapshotInv
  <2>5. \A l \in Lines' : l.type = "begin" => l.id \notin base.begins
    BY <2>3, <1>1, AppendLine DEF CoreInv, NoDuplicates
  <2>6. \A v \in base.evaluations :
          /\ v.id \notin base.begins
          /\ \A l \in Lines' : l.type \in {"begin", "terminal"} => l.id # v.id
    BY <2>4, <1>1, AppendLine DEF CoreInv, NoDuplicates
  <2> QED BY <2>2, <2>5, <2>6, <1>1 DEF NoDuplicates
<1> QED BY <1>10, <1>11, <1>12, <1>13, <1>14, <1>15 DEF CoreInv

(* The return from a write leaves the maps and the file in agreement.      *)
LEMMA CoreReturn ==
  ASSUME ValuesOK, CoreInv, NEW t \in Threads, Return(t)
  PROVE  CoreInv'
<1>1. /\ mu = t /\ mu' = Nobody /\ section' = Outside
      /\ pc' = [pc EXCEPT ![t] = Afterwards(t, TRUE)]
      /\ IF pc[t] = "terminal"
         THEN /\ active' = active \ {t}
              /\ terminalIDs' = terminalIDs \ {t}
              /\ beginIDs' = beginIDs \ {t}
         ELSE UNCHANGED <<active, terminalIDs, beginIDs>>
      /\ UNCHANGED <<event, base, log, writer, evaluations, clauses>>
  BY DEF Return, diskVars
<1>2. NeedsWriter(t) /\ writer /\ t # Nobody
  BY <1>1, NobodyAssumption DEF CoreInv, LockInv, Threads, Evals
<1>3. pc[t] = "terminal" => t \in Evals /\ t \notin Calls
  BY <1>2 DEF NeedsWriter, Threads
<1>4. /\ Ending = IF pc[t] = "terminal" THEN {t} ELSE {}
      /\ Ending' = {}
      /\ Written' = Written
  BY <1>1, <1>2, <1>3, CallsAssumption
  DEF Ending, Written, ValuesOK, Afterwards, NeedsWriter, Evals, Threads
<1>5. \A e \in Evals :
        /\ pc[e] # "idle" <=> pc'[e] # "idle"
        /\ pc'[e] = "inserted" => pc[e] = "inserted" /\ e # t
        /\ e # t => pc'[e] = pc[e]
        /\ e = t => \/ pc[e] = "inserted" /\ pc'[e] = "running"
                    \/ pc[e] = "terminal" /\ pc'[e] = "done"
  BY <1>1, <1>2, CallsAssumption DEF ValuesOK, Afterwards, NeedsWriter
<1>6. LockInv'
  BY <1>1, <1>2 DEF CoreInv, LockInv, Outside, At
<1>7. ActiveInv'
  <2>1. \A e \in Evals : e \in active' <=>
          pc'[e] \in {"inserted", "running", "terminal", "stuck"}
    BY <1>1, <1>5 DEF CoreInv, ActiveInv
  <2>2. terminalIDs' = Ending'
    BY <1>1, <1>4 DEF CoreInv, ActiveInv
  <2>3. beginIDs' \subseteq active' /\ beginIDs' \ Ending' \subseteq base.begins
    BY <1>1, <1>4 DEF CoreInv, ActiveInv
  <2>4. \A e \in base.begins :
          pc'[e] # "idle" /\ (pc'[e] = "inserted" => e \in beginIDs')
    BY <1>1, <1>5 DEF CoreInv, ActiveInv, ValuesOK
  <2> QED BY <2>1, <2>2, <2>3, <2>4, <1>1 DEF ActiveInv
<1>8. ScanInv'
  BY <1>1 DEF ScanInv, Outside, At
<1>9. LineInv'
  <2>1. ASSUME NEW i \in DOMAIN log, log[i].type = "begin"
        PROVE  pc'[log[i].id] # "idle" /\ pc'[log[i].id] # "inserted"
    <3>1. log[i].id \in Evals
      BY <2>1, RecordIDs
    <3> QED BY <2>1, <3>1, <1>1, <1>5 DEF CoreInv, LineInv
  <2> QED BY <2>1, <1>1, <1>4 DEF CoreInv, LineInv
<1>10. SnapshotInv'
  BY <1>1, <1>4 DEF CoreInv, SnapshotInv
<1>11. NoDuplicates'
  BY <1>1 DEF CoreInv, NoDuplicates, Lines
<1> QED BY <1>6, <1>7, <1>8, <1>9, <1>10, <1>11 DEF CoreInv

(* The snapshot that replaces the file says what the file said.            *)
LEMMA CoreCommit ==
  ASSUME ValuesOK, CoreInv, CompactCommit
  PROVE  CoreInv'
<1>1. /\ section.stage = "scan" /\ section.shard = ShardCount
      /\ base' = [evaluations |-> evaluations, begins |-> section.begins,
                  clauses |-> clauses]
      /\ log' = <<>>
      /\ beginIDs' = beginIDs \cup section.begins
      /\ section' = At("return")
      /\ UNCHANGED <<pc, active, event, mu, writer, evaluations, clauses,
                     terminalIDs>>
  BY DEF CompactCommit, threadVars
<1>2. mu # Nobody
  BY <1>1 DEF CoreInv, LockInv
<1>3. Ending' = Ending /\ Written' = Written
  BY <1>1 DEF Ending, Written
<1>4. LockInv'
  BY <1>1, <1>2 DEF CoreInv, LockInv, At, NeedsWriter
<1>5. section.begins \subseteq active \ Ending /\ active \subseteq Evals
  BY DEF CoreInv, ScanInv, ValuesOK
<1>6. \A e \in Evals : e % ShardCount < section.shard
  BY <1>1, ShardAssumption DEF Evals
<1>7. \A e \in beginIDs \ Ending : e \in section.begins
  BY <1>1, <1>6 DEF CoreInv, ScanInv, ValuesOK
<1>8. ActiveInv'
  BY <1>1, <1>3, <1>5, <1>7 DEF CoreInv, ActiveInv
<1>9. ScanInv'
  BY <1>1 DEF ScanInv, At
<1>10. LineInv'
  BY <1>1 DEF LineInv
<1>11. SnapshotInv'
  BY <1>1, <1>3 DEF CoreInv, SnapshotInv
<1>12. \A v \in evaluations : v.id \notin section.begins
  BY <1>5 DEF CoreInv, SnapshotInv, ActiveInv, Written
<1>13. NoDuplicates'
  BY <1>1, <1>12 DEF NoDuplicates, Lines
<1> QED BY <1>4, <1>8, <1>9, <1>10, <1>11, <1>13 DEF CoreInv

(* Every step preserves the invariant.                                     *)
LEMMA CoreStep == IInv /\ [Next]_vars => CoreInv'
<1> SUFFICES ASSUME ValuesOK, CoreInv, [Next]_vars PROVE CoreInv'
  BY DEF IInv, TypeOK
<1>1. ASSUME NEW e \in Evals, EvaluationStep(e) PROVE CoreInv'
  <2>1. ASSUME NEW c \in Conditions, NEW value \in BOOLEAN, Condition(e, c, value)
        PROVE  CoreInv'
    BY <2>1, CoreUntouched DEF Condition, coreVars, diskVars, writerVars
  <2> QED BY <1>1, <2>1, CoreBegin, CoreCapture DEF EvaluationStep, Finish, Abort
<1>2. ASSUME NEW t \in Threads, CreateWriter(t) PROVE CoreInv'
  <2>1. /\ ~writer /\ writer' = TRUE
        /\ UNCHANGED <<pc, active, event, mu, section, base, log,
                       evaluations, clauses, beginIDs, terminalIDs>>
    BY <1>2 DEF CreateWriter, threadVars, diskVars
  <2>2. LockInv'
    BY <2>1 DEF CoreInv, LockInv, NeedsWriter
  <2>3. ActiveInv' /\ ScanInv' /\ LineInv' /\ SnapshotInv' /\ NoDuplicates'
    BY <2>1 DEF CoreInv, ActiveInv, ScanInv, LineInv, SnapshotInv,
       NoDuplicates, Ending, Written, Lines
  <2> QED BY <2>2, <2>3 DEF CoreInv
<1>3. ASSUME NEW t \in Threads, SkipWrite(t) PROVE CoreInv'
  <2>1. Afterwards(t, TRUE) = Afterwards(t, FALSE)
    BY <1>3 DEF SkipWrite, AlreadyWritten, NeedsWriter, MayLock, Afterwards
  <2> QED
    BY <1>3, <2>1, CoreGiveUp DEF SkipWrite, MayLock, diskVars, writerVars
<1>4. ASSUME NEW t \in Threads, WriteFails(t) PROVE CoreInv'
  <2>1. /\ NeedsWriter(t) /\ mu = Nobody
        /\ pc' = [pc EXCEPT ![t] = Afterwards(t, FALSE)]
        /\ UNCHANGED <<active, event, mu, section, base, log, writer,
                       evaluations, clauses, beginIDs, terminalIDs>>
    BY <1>4 DEF WriteFails, MayLock
  <2> QED BY <2>1, CoreGiveUp
<1>5. ASSUME CompactCreate \/ CompactFails PROVE CoreInv'
  <2>1. /\ mu # Nobody
        /\ section' = At("scan") \/ section' = At("return")
        /\ UNCHANGED <<pc, active, event, mu, base, log, writer, evaluations,
                       clauses, beginIDs, terminalIDs>>
    BY <1>5 DEF CompactCreate, CompactFails, threadVars, diskVars, writerVars,
       CoreInv, LockInv
  <2> QED BY <2>1, CoreSection
<1>6. ASSUME Stop \/ UNCHANGED vars PROVE CoreInv'
  BY <1>6, CoreUntouched
  DEF Stop, vars, coreVars, threadVars, diskVars, writerVars
<1> QED
  BY <1>1, <1>2, <1>3, <1>4, <1>5, <1>6, CoreCreateFails, CoreWrite,
     CoreReturn, CoreScan, CoreCommit
  DEF Next, RecorderStep, CompactionStep

(* The inductive invariant holds of the recorder. *)
THEOREM Invariant == Spec => []IInv
<1>1. Init => IInv /\ FiniteInv
  BY TypeInit, CoreInit DEF IInv
<1>2. IInv /\ FiniteInv /\ [Next]_vars => (IInv /\ FiniteInv)'
  BY TypeStep, CoreStep, FinitePreserved DEF IInv
<1> QED
  BY <1>1, <1>2, PTL DEF Spec

(* Whatever fails and whenever the process stops, the journal and the next *)
(* snapshot hold only evaluations that ended, with the data they ended     *)
(* with.                                                                   *)
THEOREM JournalTruthful == Spec => []Truthful
<1>1. IInv => Truthful
  <2> SUFFICES ASSUME IInv PROVE Truthful OBVIOUS
  <2>1. Written \subseteq Ended
    BY DEF Written, Ending, Ended
  <2>2. \A v \in TerminalLines : v.id \in Written /\ v.data = event[v.id]
    BY DEF TerminalLines, Lines, IInv, CoreInv, LineInv
  <2>3. \A v \in evaluations \cup base.evaluations :
          v.id \in Written /\ v.data = event[v.id]
    BY DEF IInv, CoreInv, SnapshotInv
  <2> QED BY <2>1, <2>2, <2>3 DEF Truthful, Recorded
<1> QED BY <1>1, Invariant, PTL

(* The collector never meets a duplicate or contradictory record, however  *)
(* writes, compactions and their failures interleave.                      *)
THEOREM JournalNoDuplicates == Spec => []NoDuplicates
<1>1. IInv => NoDuplicates
  BY DEF IInv, CoreInv
<1> QED BY <1>1, Invariant, PTL

-----------------------------------------------------------------------------
(***************************************************************************)
(* Nothing readable is ever lost.                                          *)
(***************************************************************************)
(* A step leaves the file alone, appends to it, or puts the snapshot in    *)
(* its place.                                                              *)
LEMMA FileSteps ==
  ASSUME [Next]_vars
  PROVE  \/ base' = base /\ log' = log
         \/ base' = base /\ \E r : log' = Append(log, r)
         \/ base'.evaluations = evaluations /\ base'.clauses = clauses /\ log' = <<>>
<1>1. CASE UNCHANGED <<base, log>>
  BY <1>1
<1>2. ASSUME NEW t \in Threads, Write(t)
      PROVE  base' = base /\ \E r : log' = Append(log, r)
  BY <1>2, Zenon DEF Write
<1>3. ASSUME CompactCommit
      PROVE  base'.evaluations = evaluations /\ base'.clauses = clauses /\ log' = <<>>
  BY <1>3 DEF CompactCommit
<1> QED
  BY <1>1, <1>2, <1>3, Zenon
  DEF Next, EvaluationStep, RecorderStep, CompactionStep, BeginInto, Condition,
      Finish, Abort, Capture, CreateWriter, CreateWriterFails, SkipWrite,
      WriteFails, Return, CompactCreate, CompactScan, MayScan, Found, CompactFails, Stop,
      vars, diskVars

(* The set of lines after an append.                                       *)
LEMMA LinesAfterAppend ==
  ASSUME ValuesOK, NEW r, log' = Append(log, r) PROVE Lines' = Lines \cup {r}
<1>1. /\ DOMAIN log = 1..Len(log) /\ DOMAIN log' = 1..(Len(log) + 1)
      /\ Len(log) \in Nat
      /\ \A i \in 1..Len(log) : log'[i] = log[i]
      /\ log'[Len(log) + 1] = r
  BY DEF ValuesOK
<1>2. Lines' \subseteq Lines \cup {r}
  BY <1>1 DEF Lines
<1>3. Lines \subseteq Lines'
  BY <1>1 DEF Lines
<1>4. r \in Lines'
  BY <1>1 DEF Lines
<1> QED BY <1>2, <1>3, <1>4

(* No step takes evidence out of the file.                                 *)
LEMMA GrowStep ==
  ASSUME IInv, [Next]_vars
  PROVE  /\ {v.data : v \in Recorded} \subseteq {v.data : v \in Recorded'}
         /\ RecordedClauses \subseteq RecordedClauses'
<1>1. CASE base' = base /\ Lines \subseteq Lines'
  <2>1. TerminalLines \subseteq TerminalLines'
    BY <1>1 DEF TerminalLines
  <2>2. Recorded \subseteq Recorded'
    BY <1>1, <2>1 DEF Recorded
  <2>3. RecordedClauses \subseteq RecordedClauses'
    BY <1>1 DEF RecordedClauses
  <2> QED BY <2>2, <2>3
<1>2. CASE base'.evaluations = evaluations /\ base'.clauses = clauses
  <2>1. \A v \in Recorded : \E w \in evaluations : w.data = v.data
    BY DEF Recorded, TerminalLines, Lines, IInv, CoreInv, LineInv, SnapshotInv
  <2>2. evaluations \subseteq Recorded'
    BY <1>2 DEF Recorded
  <2>3. RecordedClauses \subseteq clauses
    BY DEF RecordedClauses, Lines, IInv, CoreInv, LineInv, SnapshotInv
  <2>4. clauses \subseteq RecordedClauses'
    BY <1>2 DEF RecordedClauses
  <2> QED BY <2>1, <2>2, <2>3, <2>4
<1> QED BY <1>1, <1>2, FileSteps, LinesAfterAppend DEF Lines, IInv, TypeOK

(* Neither a compaction nor a failure nor the end of the process removes   *)
(* an evaluation's data or a clause from the journal.                      *)
THEOREM JournalGrows == Spec => EvidenceOnlyGrows
<1>1. IInv /\ [Next]_vars =>
        [/\ {v.data : v \in Recorded} \subseteq {v.data : v \in Recorded'}
         /\ RecordedClauses \subseteq RecordedClauses']_vars
  BY GrowStep
<1> QED BY <1>1, Invariant, PTL DEF Spec, EvidenceOnlyGrows

-----------------------------------------------------------------------------
(***************************************************************************)
(* Without a report the file is whole.                                     *)
(***************************************************************************)
(* A failure is reported and a report is never withdrawn.                  *)
LEMMA ReportsStay ==
  /\ \A m : Fail(m) => diagSeen' # {}
  /\ [Next]_vars => diagSeen \subseteq diagSeen'
<1>1. \A m : Fail(m) => m \in diagSeen' /\ diagSeen \subseteq diagSeen'
  BY DEF Fail
<1>2. ASSUME UNCHANGED diagSeen PROVE diagSeen \subseteq diagSeen'
  BY <1>2
<1>3. ASSUME NEW t \in Threads, RecorderStep(t) PROVE diagSeen \subseteq diagSeen'
  BY <1>1, <1>2, <1>3, Zenon DEF RecorderStep, CreateWriter, CreateWriterFails, SkipWrite,
     Write, WriteFails, Return, reportVars
<1>4. ASSUME CompactionStep PROVE diagSeen \subseteq diagSeen'
  BY <1>1, <1>2, <1>4, Zenon DEF CompactionStep, CompactCreate, CompactScan, MayScan, Found,
     CompactCommit,
     CompactFails, reportVars
<1>5. ASSUME NEW e \in Evals, EvaluationStep(e) PROVE diagSeen \subseteq diagSeen'
  BY <1>2, <1>5, Zenon DEF EvaluationStep, BeginInto, Condition, Finish, Abort, Capture,
     reportVars
<1>6. ASSUME Stop \/ UNCHANGED vars PROVE diagSeen \subseteq diagSeen'
  BY <1>2, <1>6, Zenon DEF Stop, vars, reportVars
<1> QED BY <1>1, <1>3, <1>4, <1>5, <1>6 DEF Next

wholeVars == <<pc, event, mu, base, log, torn, evaluations, clauses,
               seenClauses, alive>>

(* Wholeness of the file depends on wholeVars only.                        *)
LEMMA WholeUntouched == Whole /\ UNCHANGED wholeVars => Whole'
BY DEF Whole, wholeVars, BegunIDs, Written, Ending, Recorded, TerminalLines,
       RecordedClauses, Lines

(* The missing file is whole.                                              *)
LEMMA WholeInit == Init => Whole
BY NobodyAssumption
DEF Init, Whole, Written, Ending, Evals, Threads, BegunIDs, Lines, Recorded,
    RecordedClauses, TerminalLines

(* Steps that leave the file and the maps alone. *)
fileVars == <<mu, base, log, torn, evaluations, clauses, seenClauses, alive>>

(* What the file tells depends on fileVars only.                           *)
LEMMA SameFile ==
  ASSUME UNCHANGED fileVars
  PROVE  /\ BegunIDs' = BegunIDs /\ Recorded' = Recorded
         /\ RecordedClauses' = RecordedClauses
BY DEF fileVars, BegunIDs, Recorded, TerminalLines, RecordedClauses, Lines

(* A step that leaves the files alone, whose threads are where Whole wants *)
(* them and that makes no evaluation written, keeps Whole.                 *)
LEMMA WholeKept ==
  ASSUME Whole, UNCHANGED fileVars, Written' = Written,
         \A d \in Evals : pc'[d] \notin {"stuck", "dropped"},
         \A d \in Evals :
           \/ pc'[d] = "running"
           \/ pc'[d] = "terminal" /\ mu' # d
           \/ pc'[d] = "inserted" /\ mu' = d
           => d \in BegunIDs
  PROVE  Whole'
<1>1. UNCHANGED <<base, log, torn, evaluations, clauses, seenClauses, mu, alive>>
  BY DEF fileVars
<1>2. /\ alive' => ~torn'
      /\ \A i \in DOMAIN log' : log'[i].type # "garbled"
  BY <1>1 DEF Whole
<1>3. \A d \in Written' : d \in BegunIDs' =>
        \E i \in DOMAIN log' : log'[i].type = "terminal" /\ log'[i].id = d
  BY <1>1, SameFile DEF Whole
<1>4. \A j \in DOMAIN log' : log'[j].type = "terminal" =>
        \/ log'[j].id \in base'.begins
        \/ \E i \in 1..(j - 1) : log'[i] = [type |-> "begin", id |-> log'[j].id]
  BY <1>1, Zenon DEF Whole
<1>5. /\ \A v \in evaluations' : \E w \in Recorded' : w.data = v.data
      /\ clauses' \subseteq RecordedClauses'
      /\ seenClauses' \subseteq clauses'
      /\ mu' \in Calls => ClauseOf[mu'] \in clauses'
  BY <1>1, SameFile DEF Whole
<1>6. \A d \in Evals :
        \/ pc'[d] = "running"
        \/ pc'[d] = "terminal" /\ mu' # d
        \/ pc'[d] = "inserted" /\ mu' = d
        => d \in BegunIDs'
  BY SameFile
<1> QED BY <1>2, <1>3, <1>4, <1>5, <1>6, Zenon DEF Whole

(* A begun evaluation is not owed to the file before it is written.        *)
LEMMA WholeBegin ==
  ASSUME IInv, Whole, NEW e \in Evals, BeginInto(e) PROVE Whole'
<1>1. /\ pc' = [pc EXCEPT ![e] = "inserted"] /\ pc[e] = "idle"
      /\ UNCHANGED fileVars
  BY DEF BeginInto, fileVars, diskVars, writerVars
<1>2. mu # e
  BY <1>1, CallsAssumption DEF IInv, CoreInv, LockInv, NeedsWriter, Evals
<1>3. pc \in [Threads -> {"idle", "inserted", "running", "terminal", "done",
                          "stuck", "dropped"}] /\ e \in Threads
  BY DEF IInv, TypeOK, ValuesOK, Threads
<1>4. Written' = Written
  BY <1>1, <1>2, <1>3 DEF Written, Ending, fileVars, Threads
<1>5. UNCHANGED <<base, log, torn, evaluations, clauses, seenClauses, mu, alive>>
  BY <1>1 DEF fileVars
<1>6. \A d \in Evals : pc'[d] = IF d = e THEN "inserted" ELSE pc[d]
  BY <1>1, <1>3 DEF Threads
<1>7. \A d \in Evals : pc'[d] \notin {"stuck", "dropped"}
  BY <1>6 DEF Whole
<1>8. \A d \in Evals :
        \/ pc'[d] = "running"
        \/ pc'[d] = "terminal" /\ mu' # d
        \/ pc'[d] = "inserted" /\ mu' = d
        => d \in BegunIDs
  BY <1>2, <1>5, <1>6 DEF Whole
<1> QED BY <1>1, <1>4, <1>7, <1>8, WholeKept

(* An ended evaluation is not owed to the file before it is written.       *)
LEMMA WholeCapture ==
  ASSUME IInv, Whole, NEW e \in Evals, NEW data, Capture(e, data) PROVE Whole'
<1>1. /\ pc' = [pc EXCEPT ![e] = "terminal"] /\ pc[e] = "running"
      /\ UNCHANGED fileVars
  BY DEF Capture, fileVars, diskVars, writerVars
<1>2. mu # e
  BY <1>1, CallsAssumption DEF IInv, CoreInv, LockInv, NeedsWriter, Evals
<1>3. pc \in [Threads -> {"idle", "inserted", "running", "terminal", "done",
                          "stuck", "dropped"}] /\ e \in Threads
  BY DEF IInv, TypeOK, ValuesOK, Threads
<1>4. Written' = Written
  BY <1>1, <1>2, <1>3 DEF Written, Ending, fileVars, Threads
<1>5. UNCHANGED <<base, log, torn, evaluations, clauses, seenClauses, mu, alive>>
  BY <1>1 DEF fileVars
<1>6. \A d \in Evals : pc'[d] = IF d = e THEN "terminal" ELSE pc[d]
  BY <1>1, <1>3 DEF Threads
<1>7. \A d \in Evals : pc'[d] \notin {"stuck", "dropped"}
  BY <1>6 DEF Whole
<1>8. \A d \in Evals :
        \/ pc'[d] = "running"
        \/ pc'[d] = "terminal" /\ mu' # d
        \/ pc'[d] = "inserted" /\ mu' = d
        => d \in BegunIDs
  BY <1>1, <1>2, <1>5, <1>6 DEF Whole
<1> QED BY <1>1, <1>4, <1>7, <1>8, WholeKept

(* A record is skipped only if the file has it.                            *)
LEMMA WholeSkip ==
  ASSUME IInv, Whole, NEW t \in Threads, SkipWrite(t) PROVE Whole'
<1>1. /\ pc' = [pc EXCEPT ![t] = Afterwards(t, TRUE)]
      /\ NeedsWriter(t) /\ AlreadyWritten(t) /\ mu = Nobody
      /\ UNCHANGED fileVars
  BY DEF SkipWrite, MayLock, fileVars, diskVars, writerVars
<1>2. pc \in [Threads -> {"idle", "inserted", "running", "terminal", "done",
                          "stuck", "dropped"}]
  BY DEF IInv, TypeOK, ValuesOK
<1>3. \A d \in Evals :
        \/ pc'[d] = pc[d]
        \/ d \in beginIDs /\ pc[d] = "inserted" /\ pc'[d] = "running"
  BY <1>1, <1>2, CallsAssumption DEF AlreadyWritten, Afterwards, NeedsWriter, Threads
<1>4. Ending = {} /\ Ending' = {} /\ Written' = Written
  <2>1. mu' = Nobody /\ Nobody \notin Evals
    BY <1>1 DEF fileVars, Evals
  <2>2. Ending = {} /\ Ending' = {}
    BY <1>1, <2>1 DEF Ending
  <2>3. \A d \in Evals : pc'[d] = "done" <=> pc[d] = "done"
    BY <1>3
  <2> QED BY <2>2, <2>3 DEF Written
<1>5. beginIDs \subseteq BegunIDs
  BY <1>4 DEF IInv, CoreInv, ActiveInv, BegunIDs
<1>6. UNCHANGED <<base, log, torn, evaluations, clauses, seenClauses, mu, alive>>
  BY <1>1 DEF fileVars
<1>7. \A d \in Evals : pc'[d] \notin {"stuck", "dropped"}
  BY <1>3 DEF Whole
<1>8. \A d \in Evals :
        \/ pc'[d] = "running"
        \/ pc'[d] = "terminal" /\ mu' # d
        \/ pc'[d] = "inserted" /\ mu' = d
        => d \in BegunIDs
  BY <1>3, <1>5, <1>6 DEF Whole
<1> QED BY <1>1, <1>4, <1>7, <1>8, WholeKept

(* A complete write adds the record in its place.                          *)
LEMMA WholeWrite ==
  ASSUME IInv, Whole, NEW t \in Threads, Write(t) PROVE Whole'
<1> DEFINE r == RecordOf(t)
<1>1. /\ mu = Nobody /\ NeedsWriter(t) /\ alive /\ ~AlreadyWritten(t)
      /\ mu' = t /\ torn' = FALSE
      /\ Remember(t)
      /\ UNCHANGED <<pc, event, base, seenClauses, alive>>
  BY DEF Write, MayLock, threadVars
<1>2. log' = Append(log, r)
  BY <1>1 DEF Write, Whole
<1>3. \/ t \in Calls /\ r = [type |-> "clause", clause |-> ClauseOf[t]]
         /\ clauses' = clauses \cup {ClauseOf[t]} /\ evaluations' = evaluations
      \/ t \in Evals /\ t \notin Calls /\ pc[t] = "inserted"
         /\ r = [type |-> "begin", id |-> t]
         /\ clauses' = clauses /\ evaluations' = evaluations
      \/ t \in Evals /\ t \notin Calls /\ pc[t] = "terminal"
         /\ r = [type |-> "terminal", id |-> t, data |-> event[t]]
         /\ clauses' = clauses
         /\ \A v \in evaluations' : v \in evaluations \/ v.data = event[t]
  BY <1>1, CallsAssumption DEF RecordOf, NeedsWriter, Threads, Remember
<1> HIDE DEF r
<1>4. ValuesOK
  BY DEF IInv, TypeOK
<1>5. Lines' = Lines \cup {r}
  BY <1>2, <1>4, LinesAfterAppend
<1>6. /\ BegunIDs \subseteq BegunIDs' /\ TerminalLines \subseteq TerminalLines'
      /\ RecordedClauses \subseteq RecordedClauses'
      /\ Recorded \subseteq Recorded'
      /\ r.type = "begin" => BegunIDs' = BegunIDs \cup {r.id}
      /\ r.type # "begin" => BegunIDs' = BegunIDs
      /\ r.type = "terminal" => [id |-> r.id, data |-> r.data] \in Recorded'
      /\ r.type = "clause" => r.clause \in RecordedClauses'
  BY <1>1, <1>5 DEF BegunIDs, TerminalLines, RecordedClauses, Recorded
<1>7. Written' = IF t \in Evals /\ pc[t] = "terminal" THEN Written \cup {t}
                 ELSE Written
  BY <1>1 DEF Written, Ending, Evals
<1>8. \A i \in DOMAIN log' : log'[i].type # "garbled"
  BY <1>2, <1>3, <1>4, AppendLine DEF Whole
<1>9. \A e \in Evals : pc'[e] \notin {"stuck", "dropped"}
  BY <1>1 DEF Whole
<1>10. ASSUME NEW e \in Evals,
              \/ pc'[e] = "running"
              \/ pc'[e] = "terminal" /\ mu' # e
              \/ pc'[e] = "inserted" /\ mu' = e
       PROVE  e \in BegunIDs'
  <2>1. Nobody \notin Evals
    BY DEF Evals
  <2>2. CASE pc[e] = "inserted"
    BY <2>2, <1>1, <1>3, <1>6, <1>10, CallsAssumption
  <2>3. CASE pc[e] # "inserted"
    BY <2>1, <2>3, <1>1, <1>6, <1>10 DEF Whole
  <2> QED BY <2>2, <2>3
<1>11. ASSUME NEW e \in Written', e \in BegunIDs'
       PROVE  \E i \in DOMAIN log' : log'[i].type = "terminal" /\ log'[i].id = e
  <2>1. CASE e \in Written
    <3>1. e \in BegunIDs
      BY <1>3, <1>6, <1>11, <2>1 DEF Written, Ending, IInv, CoreInv, NeedsWriter
    <3> QED BY <2>1, <3>1, <1>2, <1>4, AppendLine DEF Whole
  <2>2. CASE e = t /\ t \in Evals /\ pc[t] = "terminal"
    <3>1. r.type = "terminal" /\ r.id = e
      BY <2>2, <1>3, CallsAssumption
    <3> QED BY <3>1, <1>2, <1>4, AppendLine
  <2> QED BY <1>7, <1>11, <2>1, <2>2
<1>12. ASSUME NEW j \in DOMAIN log', log'[j].type = "terminal"
       PROVE  \/ log'[j].id \in base'.begins
              \/ \E i \in 1..(j - 1) :
                   log'[i] = [type |-> "begin", id |-> log'[j].id]
  <2>1. DOMAIN log = 1..Len(log) /\ Len(log) \in Nat
    BY <1>4 DEF ValuesOK
  <2>2. CASE j \in DOMAIN log
    BY <2>1, <2>2, <1>1, <1>2, <1>4, <1>12, AppendLine DEF Whole
  <2>3. CASE j = Len(log) + 1
    <3>1. log'[j] = r /\ r.type = "terminal" /\ r.id = t /\ t \in Evals
          /\ pc[t] = "terminal"
      BY <2>3, <1>2, <1>3, <1>4, <1>12, AppendLine
    <3>2. t \in BegunIDs
      BY <3>1, <1>1 DEF Whole, Evals
    <3>3. ASSUME t \notin base.begins
          PROVE  \E i \in DOMAIN log : log[i] = [type |-> "begin", id |-> t]
      <4>1. PICK i \in DOMAIN log : log[i].type = "begin" /\ log[i].id = t
        BY <3>2, <3>3 DEF BegunIDs, Lines
      <4>2. log[i] \in Record
        BY <1>4 DEF ValuesOK
      <4> QED BY <4>1, <4>2 DEF Record
    <3> QED BY <2>1, <2>3, <3>1, <3>3, <1>1, <1>2, <1>4, AppendLine
  <2> QED BY <2>2, <2>3, <1>2, <1>4, AppendLine
<1>13. \A v \in evaluations' : \E w \in Recorded' : w.data = v.data
  <2>1. ASSUME pc[t] = "terminal", t \in Evals
        PROVE  \E w \in Recorded' : w.data = event[t]
    BY <2>1, <1>3, <1>6, CallsAssumption
  <2> QED BY <2>1, <1>3, <1>6 DEF Whole
<1>14. clauses' \subseteq RecordedClauses'
  BY <1>3, <1>6 DEF Whole
<1>15. /\ seenClauses' \subseteq clauses'
       /\ mu' \in Calls => ClauseOf[mu'] \in clauses'
  BY <1>1, <1>3 DEF Whole
<1> QED
  BY <1>1, <1>8, <1>9, <1>10, <1>11, <1>12, <1>13, <1>14, <1>15 DEF Whole

(* What a returned call recorded is in the file.                           *)
LEMMA WholeReturn ==
  ASSUME IInv, Whole, NEW t \in Threads, Return(t) PROVE Whole'
<1>1. /\ mu = t /\ mu' = Nobody /\ NeedsWriter(t)
      /\ pc' = [pc EXCEPT ![t] = Afterwards(t, TRUE)]
      /\ seenClauses' = IF t \in Calls THEN seenClauses \cup {ClauseOf[t]}
                        ELSE seenClauses
      /\ UNCHANGED <<event, base, log, torn, evaluations, clauses, alive>>
  BY NobodyAssumption
  DEF Return, diskVars, IInv, CoreInv, LockInv, Threads, Evals
<1>2. pc \in [Threads -> {"idle", "inserted", "running", "terminal", "done",
                          "stuck", "dropped"}]
  BY DEF IInv, TypeOK, ValuesOK
<1>3. \A d \in Evals :
        /\ d # t => pc'[d] = pc[d]
        /\ d = t => \/ pc[d] = "inserted" /\ pc'[d] = "running"
                    \/ pc[d] = "terminal" /\ pc'[d] = "done"
  BY <1>1, <1>2, CallsAssumption DEF Afterwards, NeedsWriter, Threads
<1>4. Written' = Written
  <2>1. Nobody \notin Evals
    BY DEF Evals
  <2>2. \A d \in Evals : d \in Written' <=> d \in Written
    BY <1>1, <1>3, <2>1 DEF Written, Ending
  <2> QED BY <2>2 DEF Written, Ending
<1>5. /\ BegunIDs' = BegunIDs /\ Recorded' = Recorded
      /\ RecordedClauses' = RecordedClauses
  BY <1>1 DEF BegunIDs, Recorded, TerminalLines, RecordedClauses, Lines
<1>6. ASSUME NEW e \in Evals,
             \/ pc'[e] = "running"
             \/ pc'[e] = "terminal" /\ mu' # e
             \/ pc'[e] = "inserted" /\ mu' = e
      PROVE  e \in BegunIDs
  <2>1. e # Nobody
    BY DEF Evals
  <2>2. CASE e = t
    BY <1>1, <1>3, <1>6, <2>2 DEF Whole
  <2>3. CASE e # t
    BY <1>1, <1>3, <1>6, <2>1, <2>3 DEF Whole
  <2> QED BY <2>2, <2>3
<1>7. seenClauses' \subseteq clauses
  BY <1>1 DEF Whole
<1>8. mu' \notin Calls
  BY <1>1, NobodyAssumption
<1>9. \A e \in Evals : pc'[e] \notin {"stuck", "dropped"}
  BY <1>3 DEF Whole
<1> QED BY <1>1, <1>4, <1>5, <1>6, <1>7, <1>8, <1>9 DEF Whole

(* The snapshot holds all that the file held.                              *)
LEMMA WholeCommit ==
  ASSUME IInv, Whole, CompactCommit PROVE Whole'
<1>1. /\ section.stage = "scan" /\ section.shard = ShardCount
      /\ base' = [evaluations |-> evaluations, begins |-> section.begins,
                  clauses |-> clauses]
      /\ log' = <<>> /\ torn' = FALSE
      /\ UNCHANGED <<pc, event, mu, evaluations, clauses, seenClauses, alive>>
  BY DEF CompactCommit, threadVars
<1>2. /\ Recorded' = evaluations /\ RecordedClauses' = clauses
      /\ BegunIDs' = section.begins
  BY <1>1 DEF Recorded, TerminalLines, RecordedClauses, BegunIDs, Lines
<1>3. \A e \in Evals : e % ShardCount < section.shard
  BY <1>1, ShardAssumption DEF Evals
<1>4. ASSUME NEW e \in Evals,
             \/ pc[e] = "running"
             \/ pc[e] = "terminal" /\ mu # e
             \/ pc[e] = "inserted" /\ mu = e
      PROVE  e \in section.begins
  BY <1>1, <1>3, <1>4 DEF IInv, CoreInv, ScanInv, Ending
<1>5. \A e \in Written : e \notin section.begins
  BY DEF IInv, CoreInv, ScanInv, ActiveInv, Written
<1>6. Written' = Written
  BY <1>1 DEF Written, Ending
<1> QED BY <1>1, <1>2, <1>4, <1>5, <1>6 DEF Whole

(* Every step that reports nothing keeps the file whole.                   *)
LEMMA WholeStep == IInv /\ WholeInv /\ [Next]_vars => WholeInv'
<1> SUFFICES ASSUME IInv, WholeInv, [Next]_vars, diagSeen' = {} PROVE Whole'
  BY DEF WholeInv
<1>1. Whole /\ ~\E m : Fail(m)
  BY ReportsStay DEF WholeInv
<1>2. ASSUME NEW e \in Evals, EvaluationStep(e) PROVE Whole'
  <2>1. ASSUME NEW c \in Conditions, NEW value \in BOOLEAN, Condition(e, c, value)
        PROVE  Whole'
    BY <2>1, <1>1, WholeUntouched DEF Condition, wholeVars, diskVars, writerVars
  <2> QED
    BY <1>1, <1>2, <2>1, WholeBegin, WholeCapture DEF EvaluationStep, Finish, Abort
<1>3. ASSUME NEW t \in Threads, CreateWriter(t) PROVE Whole'
  BY <1>1, <1>3, WholeUntouched DEF CreateWriter, wholeVars, threadVars, diskVars
<1>4. ASSUME CompactCreate \/ CompactScan PROVE Whole'
  BY <1>1, <1>4, WholeUntouched
  DEF CompactCreate, CompactScan, MayScan, Found, wholeVars, threadVars, diskVars, writerVars
<1>5. ASSUME NEW t \in Threads, CreateWriterFails(t) \/ WriteFails(t) PROVE FALSE
  BY <1>1, <1>5, Zenon DEF CreateWriterFails, WriteFails
<1>6. ASSUME CompactFails PROVE FALSE
  BY <1>1, <1>6, Zenon DEF CompactFails
<1>7. ASSUME Stop PROVE Whole'
  <2>1. ~alive' /\ UNCHANGED <<pc, event, mu, base, log, evaluations, clauses,
                               seenClauses>>
    BY <1>7 DEF Stop, threadVars, writerVars
  <2>2. /\ BegunIDs' = BegunIDs /\ Recorded' = Recorded /\ Written' = Written
        /\ RecordedClauses' = RecordedClauses
    BY <2>1 DEF BegunIDs, Recorded, Written, Ending, RecordedClauses,
       TerminalLines, Lines
  <2> QED BY <1>1, <2>1, <2>2 DEF Whole
<1>8. ASSUME UNCHANGED vars PROVE Whole'
  BY <1>1, <1>8, WholeUntouched DEF vars, wholeVars, threadVars, diskVars, writerVars
<1> QED
  BY <1>1, <1>2, <1>3, <1>4, <1>5, <1>6, <1>7, <1>8, WholeSkip, WholeWrite,
     WholeReturn, WholeCommit
  DEF Next, RecorderStep, CompactionStep

(* As long as no failure was reported, the file has the begin and the end  *)
(* of every evaluation and every clause that a completed call recorded.    *)
THEOREM FileWhole == Spec => [](IInv /\ WholeInv)
<1>1. Init => WholeInv
  BY WholeInit DEF WholeInv
<1>2. IInv /\ WholeInv /\ [Next]_vars => WholeInv'
  BY WholeStep
<1> QED BY <1>1, <1>2, Invariant, PTL DEF Spec

(* A whole file has lost nothing.                                          *)
LEMMA WholeLosesNothing == IInv /\ WholeInv => NothingLostSilently
<1> SUFFICES ASSUME IInv, Whole, diagSeen = {} PROVE NothingLostSilently
  BY DEF WholeInv, NothingLostSilently
<1>1. ASSUME NEW e \in Evals, pc[e] = "done"
      PROVE  e \notin OpenIDs /\ \E v \in Recorded : v.data = event[e]
  <2>1. e \in Written
    BY <1>1 DEF Written
  <2>2. ASSUME e \in BegunIDs PROVE e \in {v.id : v \in TerminalLines}
    <3>1. PICK i \in DOMAIN log : log[i].type = "terminal" /\ log[i].id = e
      BY <2>1, <2>2 DEF Whole
    <3>2. [id |-> log[i].id, data |-> log[i].data] \in TerminalLines
      BY <3>1 DEF TerminalLines, Lines
    <3>3. [id |-> log[i].id, data |-> log[i].data].id = e
      BY <3>1
    <3> QED BY <3>2, <3>3, Zenon
  <2>3. \E v \in Recorded : v.data = event[e]
    BY <2>1 DEF Whole, IInv, CoreInv, SnapshotInv
  <2> QED BY <2>2, <2>3 DEF OpenIDs
<1> QED BY <1>1 DEF Whole, NothingLostSilently

(* A process that reported no failure has a journal from which every ended *)
(* evaluation and every selected clause can be read, in the order that the *)
(* collector accepts, wherever it was stopped.                             *)
THEOREM JournalLosesNothingSilently == Spec => []NothingLostSilently
BY WholeLosesNothing, FileWhole, PTL

-----------------------------------------------------------------------------
(***************************************************************************)
(* The journal implements EvidenceLog.                                     *)
(***************************************************************************)
endedNow == {[id |-> e, data |-> event[e]] : e \in Ended}

(* What the journal tells of did end.                                      *)
LEMMA RecordedEnded == IInv => Recorded \subseteq endedNow
<1> SUFFICES ASSUME IInv PROVE Recorded \subseteq endedNow
  OBVIOUS
<1>1. \A v \in Recorded : v.id \in Ended /\ v.data = event[v.id]
  <2>1. Written \subseteq Ended
    BY DEF Written, Ending, Ended
  <2>2. \A v \in TerminalLines : v.id \in Written /\ v.data = event[v.id]
    BY DEF TerminalLines, Lines, IInv, CoreInv, LineInv
  <2>3. \A v \in base.evaluations : v.id \in Written /\ v.data = event[v.id]
    BY DEF IInv, CoreInv, SnapshotInv
  <2> QED BY <2>1, <2>2, <2>3 DEF Recorded
<1>2. \A v \in Recorded : v = [id |-> v.id, data |-> v.data]
  <2>1. \A v \in TerminalLines : v = [id |-> v.id, data |-> v.data]
    BY DEF TerminalLines
  <2>2. \A v \in base.evaluations : v = [id |-> v.id, data |-> v.data]
    BY DEF IInv, TypeOK, ValuesOK, Evaluation
  <2> QED BY <2>1, <2>2 DEF Recorded
<1> QED BY <1>1, <1>2 DEF endedNow

(* Only a hook ends an evaluation.                                         *)
LEMMA RecorderKeepsEnded ==
  ASSUME IInv, NEW t \in Threads, RecorderStep(t)
  PROVE  Ended' = Ended /\ event' = event
<1>0. ValuesOK
  BY DEF IInv, TypeOK
<1>1. \A kept \in BOOLEAN, e \in Evals :
        pc' = [pc EXCEPT ![t] = Afterwards(t, kept)] /\ NeedsWriter(t) =>
          (pc'[e] \in {"terminal", "done", "stuck", "dropped"}
             <=> pc[e] \in {"terminal", "done", "stuck", "dropped"})
  BY <1>0, CallsAssumption DEF ValuesOK, Afterwards, NeedsWriter
<1>2. ASSUME pc' = pc PROVE Ended' = Ended
  BY <1>2 DEF Ended
<1>3. CASE CreateWriter(t) \/ Write(t)
  BY <1>2, <1>3 DEF CreateWriter, Write, threadVars
<1>4. CASE CreateWriterFails(t)
  <2>1. /\ event' = event /\ NeedsWriter(t)
        /\ pc' = [pc EXCEPT ![t] = IF @ = "terminal" THEN "dropped"
                                   ELSE Afterwards(t, FALSE)]
    BY <1>4 DEF CreateWriterFails
  <2>2. \A e \in Evals : pc'[e] \in {"terminal", "done", "stuck", "dropped"}
             <=> pc[e] \in {"terminal", "done", "stuck", "dropped"}
    BY <1>0, <2>1, CallsAssumption DEF ValuesOK, Afterwards, NeedsWriter
  <2> QED BY <2>1, <2>2 DEF Ended
<1>5. CASE SkipWrite(t)
  BY <1>1, <1>5 DEF SkipWrite, MayLock, Ended
<1>6. CASE WriteFails(t)
  <2>1. /\ event' = event /\ NeedsWriter(t)
        /\ pc' = [pc EXCEPT ![t] = Afterwards(t, FALSE)]
    BY <1>6 DEF WriteFails, MayLock
  <2> QED BY <1>1, <2>1 DEF Ended
<1>7. CASE Return(t)
  <2>1. event' = event /\ pc' = [pc EXCEPT ![t] = Afterwards(t, TRUE)] /\ mu = t
    BY <1>7 DEF Return
  <2>2. NeedsWriter(t)
    BY <2>1, NobodyAssumption DEF IInv, CoreInv, LockInv, Threads, Evals
  <2> QED BY <1>1, <2>1, <2>2 DEF Ended
<1> QED BY <1>3, <1>4, <1>5, <1>6, <1>7 DEF RecorderStep

(* A step of the recorder publishes some of what has ended.                *)
LEMMA PublishStep ==
  ASSUME IInv, IInv', [Next]_vars, alive, alive' = alive,
         Ended' = Ended, event' = event
  PROVE  Log!Next
<1>1. Recorded' \in SUBSET endedNow
  <2>1. (Recorded \subseteq endedNow)'
    BY RecordedEnded, PTL
  <2> QED BY <2>1 DEF endedNow
<1>2. {v.data : v \in Recorded'}
        = {v.data : v \in Recorded} \cup {v.data : v \in Recorded'}
  BY GrowStep
<1>3. PICK published \in SUBSET endedNow : published = Recorded'
  BY <1>1
<1>4. Log!Publish(published)
  BY <1>2, <1>3 DEF Log!Publish, endedNow
<1> QED BY <1>4, Zenon DEF Log!Next, endedNow

(* A hook that ends an evaluation is End of the log.                       *)
LEMMA EndStep ==
  ASSUME IInv, NEW e \in Evals, NEW data \in Data, Capture(e, data)
  PROVE  Log!Next
<1>1. /\ alive /\ pc[e] = "running" /\ e \in Threads
      /\ pc' = [pc EXCEPT ![e] = "terminal"]
      /\ event' = [event EXCEPT ![e] = data]
      /\ base' = base /\ log' = log /\ alive' = alive
  BY DEF Capture, diskVars, Threads
<1>2. /\ pc \in [Threads -> {"idle", "inserted", "running", "terminal", "done",
                             "stuck", "dropped"}]
      /\ event \in [Evals -> Data]
  BY DEF IInv, TypeOK, ValuesOK
<1>3. e \notin Ended
  BY <1>1 DEF Ended
<1>4. Ended' = Ended \cup {e}
  <2>1. \A d \in Evals : d # e => pc'[d] = pc[d]
    BY <1>1, <1>2 DEF Threads
  <2>2. pc'[e] = "terminal"
    BY <1>1, <1>2
  <2> QED BY <2>1, <2>2 DEF Ended
<1>5. endedNow' = endedNow \cup {[id |-> e, data |-> data]}
  <2>1. event'[e] = data /\ \A d \in Ended : event'[d] = event[d]
    BY <1>1, <1>2, <1>3 DEF Ended
  <2> QED BY <1>4, <2>1 DEF endedNow
<1>6. Recorded' = Recorded
  BY <1>1 DEF Recorded, TerminalLines, Lines
<1>7. \A v \in endedNow : v.id # e
  BY <1>3 DEF endedNow
<1>8. Log!End(e, data)
  BY <1>1, <1>5, <1>6, <1>7 DEF Log!End, endedNow
<1> QED BY <1>8, Zenon DEF Log!Next

(* Every step is a step of the log or a stutter.                           *)
LEMMA LogStep == IInv /\ IInv' /\ [Next]_vars => [Log!Next]_(Log!vars)
<1> SUFFICES ASSUME IInv, IInv', [Next]_vars PROVE [Log!Next]_(Log!vars)
  OBVIOUS
<1>1. ASSUME NEW e \in Evals, EvaluationStep(e) PROVE Log!Next
  <2>1. ASSUME BeginInto(e) \/ \E c \in Conditions, value \in BOOLEAN :
                                 Condition(e, c, value)
        PROVE  alive /\ alive' = alive /\ Ended' = Ended /\ event' = event
    <3>1. CASE BeginInto(e)
      BY <3>1 DEF BeginInto, Ended, IInv, TypeOK, ValuesOK, Threads
    <3>2. ASSUME NEW c \in Conditions, NEW value \in BOOLEAN,
                 Condition(e, c, value)
          PROVE  alive /\ alive' = alive /\ Ended' = Ended /\ event' = event
      BY <3>2 DEF Condition, Ended
    <3> QED BY <2>1, <3>1, <3>2
  <2> QED
    BY <1>1, <2>1, PublishStep, EndStep, CaptureData
    DEF EvaluationStep, Finish, Abort, IInv, TypeOK
<1>2. ASSUME NEW t \in Threads, RecorderStep(t) PROVE Log!Next
  <2>1. alive /\ alive' = alive
    BY <1>2, Zenon DEF RecorderStep, CreateWriter, CreateWriterFails, SkipWrite,
       Write, WriteFails, Return, MayLock
  <2> QED BY <1>2, <2>1, RecorderKeepsEnded, PublishStep
<1>3. ASSUME CompactionStep PROVE Log!Next
  <2>1. /\ alive /\ alive' = alive /\ event' = event /\ pc' = pc
    BY <1>3, Zenon DEF CompactionStep, CompactCreate, CompactScan, MayScan, Found, CompactCommit,
       CompactFails, threadVars
  <2> QED BY <2>1, PublishStep DEF Ended
<1>4. ASSUME Stop PROVE Log!Next
  <2>1. alive /\ alive' = FALSE
    BY <1>4, Zenon DEF Stop
  <2>2. UNCHANGED <<pc, event, base, log>>
    BY <1>4, Zenon DEF Stop, threadVars
  <2>3. endedNow' = endedNow /\ Recorded' = Recorded
    BY <2>2 DEF endedNow, Ended, Recorded, TerminalLines, Lines
  <2>4. Log!Stop
    BY <2>1, <2>3, Zenon DEF Log!Stop, endedNow
  <2> QED BY <2>4, Zenon DEF Log!Next
<1>5. ASSUME UNCHANGED vars PROVE UNCHANGED Log!vars
  <2>1. UNCHANGED <<pc, event, base, log, alive>>
    BY <1>5 DEF vars, threadVars, diskVars
  <2> QED BY <2>1 DEF Log!vars, Ended, Recorded, TerminalLines, Lines
<1> QED BY <1>1, <1>2, <1>3, <1>4, <1>5 DEF Next

(* The recorder with all its failures, compactions and stops implements    *)
(* the log that its reader relies on: evidence appears only for            *)
(* evaluations that ended, and stays.                                      *)
THEOREM JournalImplementsLog == Spec => ImplementsLog
<1>1. Init => Log!Init
  <2> SUFFICES ASSUME Init PROVE Log!Init OBVIOUS
  <2>1. Ended = {} /\ Recorded = {}
    BY DEF Init, Ended, Recorded, TerminalLines, Lines, Threads
  <2>2. alive = TRUE
    BY Zenon DEF Init
  <2> QED BY <2>1, <2>2, Zenon DEF Log!Init
<1>2. IInv /\ IInv' /\ [Next]_vars => [Log!Next]_(Log!vars)
  BY LogStep
<1> QED BY <1>1, <1>2, Invariant, PTL DEF Spec, ImplementsLog, Log!Spec

(***************************************************************************)
(* The size of the journal.                                                *)
(***************************************************************************)
SnapshotSize ==
  Cardinality(base.evaluations) + Cardinality(base.begins) + Cardinality(base.clauses)

(***************************************************************************)
(* Until something fails, the counter of the tail is its length, the       *)
(* threshold is that of the last snapshot, and a tail that has reached it  *)
(* is compacted before the lock is given back.  The counter does not       *)
(* saturate: it is below the threshold whenever a record is appended.      *)
(***************************************************************************)
SizeInv ==
  faults = 0 =>
    /\ SnapshotSize \in Nat
    /\ Len(log) = tailBytes
    /\ compactAt = CompactTailThreshold(SnapshotSize)
    /\ section.stage \in {"outside", "return"} => tailBytes < compactAt

(* An empty snapshot has the minimum for its threshold.                    *)
LEMMA Thresholds ==
  /\ CompactTailThreshold(0) = MinTail
  /\ \A s \in Nat : CompactTailThreshold(s) > 0
  /\ \A s \in Nat : \A l \in Nat :
       l < CompactTailThreshold(s) => l < MinTail \/ l < 2 * s
<1>1. CompactTailThreshold(0) = MinTail
  BY SizeAssumption DEF CompactTailThreshold
<1>2. \A s \in Nat : CompactTailThreshold(s) > 0
  BY SizeAssumption DEF CompactTailThreshold
<1>3. ASSUME NEW s \in Nat, NEW l \in Nat, l < CompactTailThreshold(s)
      PROVE  l < MinTail \/ l < 2 * s
  <2>1. CASE s > MaxBytes \div 2
    <3>1. MaxBytes <= 2 * s
      BY <2>1, SizeAssumption
    <3> QED BY <1>3, <2>1, <3>1, SizeAssumption DEF CompactTailThreshold
  <2>2. CASE ~(s > MaxBytes \div 2)
    BY <1>3, <2>2, SizeAssumption DEF CompactTailThreshold
  <2> QED BY <2>1, <2>2
<1> QED BY <1>1, <1>2, <1>3

(* Nothing is recorded at first.                                           *)
LEMMA SizeInit == Init => SizeInv
<1> SUFFICES ASSUME Init
             PROVE  SizeInv
  OBVIOUS
<1>1. SnapshotSize = 0
  BY FS_EmptySet DEF Init, SnapshotSize
<1> QED BY <1>1, Thresholds, SizeAssumption DEF Init, SizeInv

(* A snapshot is finite.                                                   *)
LEMMA SnapshotFinite ==
  ASSUME IInv, FiniteInv, CompactCommit
  PROVE  /\ SnapshotSize' \in Nat
         /\ compactAt' = CompactTailThreshold(SnapshotSize')
<1>1. section.begins \subseteq 1..N /\ IsFiniteSet(1..N)
  <2>1. section.begins \subseteq 1..N
    BY DEF IInv, CoreInv, ScanInv, TypeOK, ValuesOK, Evals
  <2>2. IsFiniteSet(1..N)
    BY FS_Interval, NAssumption
  <2> QED BY <2>1, <2>2
<1>2. IsFiniteSet(section.begins)
  BY <1>1, FS_Subset
<1>3. /\ Cardinality(evaluations) \in Nat
      /\ Cardinality(section.begins) \in Nat
      /\ Cardinality(clauses) \in Nat
  BY <1>2, FS_CardinalityType DEF FiniteInv
<1>4. SnapshotSize' = Cardinality(evaluations) + Cardinality(section.begins)
                        + Cardinality(clauses)
  BY DEF CompactCommit, SnapshotSize
<1>5. compactAt' = CompactTailThreshold(Cardinality(evaluations)
                     + Cardinality(section.begins) + Cardinality(clauses))
  BY DEF CompactCommit
<1>6. SnapshotSize' \in Nat
  BY <1>3, <1>4
<1> QED BY <1>4, <1>5, <1>6, Zenon

(* Every step preserves it; a step that fails is counted.                  *)
LEMMA SizeStep == IInv /\ FiniteInv /\ SizeInv /\ [Next]_vars => SizeInv'
<1> SUFFICES ASSUME IInv, FiniteInv, SizeInv, [Next]_vars, faults' = 0
             PROVE  SizeInv'
  BY DEF SizeInv
<1>1. faults \in Nat /\ tailBytes \in 0..MaxBytes /\ compactAt \in 0..MaxBytes
      /\ log \in Seq(Record)
  BY FaultAssumption DEF IInv, TypeOK, ValuesOK
<1>2. \A m : ~Fail(m)
  BY <1>1 DEF Fail
<1>3. ASSUME UNCHANGED <<base, log, tailBytes, compactAt>>, faults = 0,
             section'.stage \in {"outside", "return"} => section.stage \in {"outside", "return"}
      PROVE  SizeInv'
  BY <1>3 DEF SizeInv, SnapshotSize
<1>4. CASE CompactCommit
  <2>1. Len(log') = 0 /\ tailBytes' = 0
    BY <1>4 DEF CompactCommit
  <2> QED BY <1>4, <2>1, SnapshotFinite, Thresholds DEF SizeInv
<1>5. CASE \E t \in Threads : Write(t)
  <2> PICK t \in Threads : Write(t)
    BY <1>5
  <2>1. /\ faults = 0 /\ base' = base /\ compactAt' = compactAt
        /\ mu = Nobody
        /\ \E r : log' = Append(log, r)
        /\ tailBytes' = SaturatingAdd(tailBytes, 1)
        /\ section' = At(IF tailBytes' >= compactAt THEN "compact" ELSE "return")
    BY DEF Write, reportVars, MayLock
  <2>2. tailBytes < compactAt
    BY <2>1 DEF IInv, CoreInv, LockInv, SizeInv
  <2>3. tailBytes' = tailBytes + 1
    BY <1>1, <2>1, <2>2, SizeAssumption DEF SaturatingAdd
  <2>4. Len(log') = Len(log) + 1
    BY <1>1, <2>1
  <2>5. section'.stage \in {"outside", "return"} => tailBytes' < compactAt
    BY <1>1, <2>1, <2>3, SizeAssumption DEF At
  <2> QED BY <2>1, <2>3, <2>4, <2>5 DEF SizeInv, SnapshotSize
<1>6. CASE \E t \in Threads : CreateWriter(t) \/ SkipWrite(t) \/ Return(t)
  <2> PICK t \in Threads : CreateWriter(t) \/ SkipWrite(t) \/ Return(t)
    BY <1>6
  <2>1. UNCHANGED <<base, log, tailBytes, compactAt>> /\ faults' = faults
    BY DEF CreateWriter, SkipWrite, Return, diskVars, writerVars, reportVars
  <2>2. section'.stage \in {"outside", "return"} => section.stage \in {"outside", "return"}
    BY DEF CreateWriter, SkipWrite, Return
  <2> QED BY <1>3, <2>1, <2>2
<1>7. CASE \E t \in Threads : CreateWriterFails(t) \/ WriteFails(t)
  BY <1>2, <1>7 DEF CreateWriterFails, WriteFails
<1>8. CASE CompactFails
  BY <1>2, <1>8 DEF CompactFails
<1>9. CASE CompactCreate \/ CompactScan
  <2>1. UNCHANGED <<base, log, tailBytes, compactAt>> /\ faults' = faults
    BY <1>9 DEF CompactCreate, CompactScan, diskVars, writerVars, reportVars
  <2>2. section'.stage \notin {"outside", "return"}
    <3>1. CASE CompactCreate
      BY <3>1 DEF CompactCreate, At
    <3>2. CASE CompactScan
      BY <3>2 DEF CompactScan, MayScan, IInv, TypeOK, ValuesOK, Section
    <3> QED BY <1>9, <3>1, <3>2
  <2> QED BY <1>3, <2>1, <2>2
<1>10. CASE Stop \/ UNCHANGED vars \/ \E e \in Evals : EvaluationStep(e)
  <2>1. UNCHANGED <<base, log, tailBytes, compactAt, section>> /\ faults' = faults
    BY <1>10 DEF Stop, vars, EvaluationStep, BeginInto, Condition, Finish, Abort, Capture,
       diskVars, writerVars, reportVars
  <2> QED BY <1>3, <2>1
<1> QED BY <1>4, <1>5, <1>6, <1>7, <1>8, <1>9, <1>10 DEF Next, RecorderStep, CompactionStep

(* Without failures the file is bounded by the unique evidence and by the  *)
(* active evaluations, and a snapshot holds one record per key             *)
(* (compactTailThreshold, compactLocked).                                  *)
THEOREM JournalBounded == Spec => []Bounded
<1>1. Init => FiniteInv /\ SizeInv
  BY TypeInit, SizeInit
<1>2. IInv /\ FiniteInv /\ SizeInv /\ [Next]_vars => FiniteInv' /\ SizeInv'
  BY FinitePreserved, SizeStep
<1>3. IInv /\ SizeInv => Bounded
  <2> SUFFICES ASSUME IInv, SizeInv
               PROVE  Bounded
    OBVIOUS
  <2>1. ASSUME NEW v \in base.evaluations, NEW w \in base.evaluations, v.data = w.data
        PROVE  v = w
    BY <2>1 DEF IInv, CoreInv, SnapshotInv
  <2>2. ASSUME faults = 0, mu = Nobody
        PROVE  Len(log) < MinTail \/ Len(log) < 2 * SnapshotSize
    <3>1. Len(log) \in Nat /\ SnapshotSize \in Nat
      BY <2>2 DEF SizeInv, IInv, TypeOK, ValuesOK
    <3>2. Len(log) < CompactTailThreshold(SnapshotSize)
      BY <2>2 DEF SizeInv, IInv, CoreInv, LockInv
    <3> QED BY <3>1, <3>2, Thresholds
  <2> QED BY <2>1, <2>2 DEF Bounded, SnapshotSize
<1> QED BY <1>1, <1>2, <1>3, Invariant, PTL DEF Spec
-----------------------------------------------------------------------------
(* A compaction that fails puts the next attempt off by the minimum tail   *)
(* at least, in counters that saturate (compactionRetryThreshold).         *)
THEOREM JournalBacksOff == Spec => BacksOff
<1>1. IInv /\ [Next]_vars =>
        [CompactFails => \/ compactAt' >= tailBytes + MinTail
                         \/ compactAt' = MaxBytes]_vars
  <2> SUFFICES ASSUME IInv, CompactFails
               PROVE  compactAt' >= tailBytes + MinTail \/ compactAt' = MaxBytes
    OBVIOUS
  <2>1. tailBytes \in 0..MaxBytes /\ compactAt \in 0..MaxBytes
    BY DEF IInv, TypeOK, ValuesOK
  <2>2. compactAt' = CompactionRetryThreshold(compactAt, tailBytes)
    BY DEF CompactFails
  <2>3. \/ SaturatingAdd(tailBytes, MinTail) = tailBytes + MinTail
        \/ SaturatingAdd(tailBytes, MinTail) = MaxBytes
    BY DEF SaturatingAdd
  <2>4. /\ SaturatingAdd(tailBytes, MinTail) \in 0..MaxBytes
        /\ SaturatingAdd(compactAt, compactAt) \in 0..MaxBytes
    <3>1. MinTail \in 0..MaxBytes /\ MaxBytes \in Nat
      BY SizeAssumption
    <3> QED BY <2>1, <3>1 DEF SaturatingAdd
  <2>5. compactAt' >= SaturatingAdd(tailBytes, MinTail) /\ compactAt' \in 0..MaxBytes
    BY <2>1, <2>2, <2>4, SizeAssumption DEF CompactionRetryThreshold
  <2> QED BY <2>1, <2>3, <2>5, SizeAssumption
<1> QED BY <1>1, Invariant, PTL DEF Spec, BacksOff
-----------------------------------------------------------------------------
(***************************************************************************)
(* The collector reads the lines of a file, and the files of a directory,  *)
(* one after another.                                                      *)
(***************************************************************************)
LineStep(acc, r) ==
  [c |-> Host!ConsumeLine(acc.c, r, acc.process),
   process |-> Host!ProvenanceAfter(r, acc.process)]

Unread(c) == [c |-> c, process |-> Host!NoProcess]

ByLines(c, n, lines, G) ==
  /\ G[0] = Unread(c)
  /\ \A i \in 1..n : G[i] = LineStep(G[i - 1], lines[i])
  /\ Host!FoldLeft(LineStep, Unread(c), lines) = G[n]

ByFiles(n, files, G) ==
  /\ G[0] = Host!Empty
  /\ \A i \in 1..n : G[i] = Host!CollectFile(G[i - 1], files[i])
  /\ Host!FoldLeft(Host!CollectFile, Host!Empty, files) = G[n]

(* The lines read one by one, from nothing to the last.                    *)
LEMMA ReadsLines ==
  ASSUME NEW c, NEW n \in Nat, NEW lines, DOMAIN lines = 1..n
  PROVE  \E G : ByLines(c, n, lines, G)
<1> DEFINE base_ == Unread(c)
           Fold(m, f) ==
             f = [s \in SUBSET (1..m) |-> IF s = {} THEN base_
                                          ELSE LineStep(f[s \ {Max(s)}], lines[Max(s)])]
           P(m) == \E f : Fold(m, f)
           T == {m \in Nat : P(m)}
           g == CHOOSE f : Fold(n, f)
<1>1. Host!FoldLeft(LineStep, base_, lines) = g[1..n]
  <2>1. Host!FoldLeft(LineStep, base_, lines)
          = (CHOOSE f : f = [s \in SUBSET (DOMAIN lines) |->
                               IF s = {} THEN base_
                               ELSE LineStep(f[s \ {Max(s)}], lines[Max(s)])])[DOMAIN lines]
    BY Zenon DEF Host!FoldLeft, Host!MapThenFoldSet, Host!Max, Max
  <2> QED BY <2>1
<1> HIDE DEF base_
<1>2. P(0)
  <2>1. 1..0 = {} /\ SUBSET {} = {{}}
    OBVIOUS
  <2>2. Fold(0, [s \in {{}} |-> base_])
    BY <2>1
  <2> QED BY <2>2
<1>3. ASSUME NEW m \in Nat, P(m) PROVE P(m + 1)
  <2>1. PICK f : Fold(m, f)
    BY <1>3
  <2> DEFINE h == [s \in SUBSET (1..(m + 1)) |->
                     IF m + 1 \in s THEN LineStep(f[s \ {m + 1}], lines[m + 1]) ELSE f[s]]
  <2>2. ASSUME NEW s \in SUBSET (1..(m + 1))
        PROVE  h[s] = IF s = {} THEN base_ ELSE LineStep(h[s \ {Max(s)}], lines[Max(s)])
    <3>1. CASE m + 1 \in s
      <4>1. Max(s) = m + 1 /\ s # {}
        BY <3>1, MaxIs
      <4>2. s \ {m + 1} \in SUBSET (1..(m + 1)) /\ m + 1 \notin s \ {m + 1}
        OBVIOUS
      <4>3. h[s \ {m + 1}] = f[s \ {m + 1}]
        BY <4>2
      <4> QED BY <3>1, <4>1, <4>3
    <3>2. CASE m + 1 \notin s
      <4>1. s \in SUBSET (1..m) /\ h[s] = f[s]
        BY <3>2
      <4>2. \A x : s \ {x} \in SUBSET (1..(m + 1)) /\ m + 1 \notin s \ {x}
        BY <3>2
      <4>3. \A x : h[s \ {x}] = f[s \ {x}]
        BY <4>2
      <4> QED BY <2>1, <4>1, <4>3
    <3> QED BY <3>1, <3>2
  <2>3. h = [s \in SUBSET (1..(m + 1)) |-> h[s]]
    OBVIOUS
  <2> HIDE DEF h
  <2>4. Fold(m + 1, h)
    BY <2>2, <2>3
  <2> HIDE DEF Fold
  <2> QED BY <2>4
<1>4. T \in SUBSET Nat /\ 0 \in T /\ \A m \in T : m + 1 \in T
  <2> HIDE DEF P
  <2> QED BY <1>2, <1>3
<1>5. Fold(n, g)
  <2>1. T = Nat
    <3> HIDE DEF T
    <3> QED BY <1>4, SetInduction
  <2>2. P(n)
    <3> HIDE DEF P
    <3> QED BY <2>1
  <2> HIDE DEF Fold
  <2> QED BY <2>2
<1> HIDE DEF g
<1> DEFINE G == [i \in 0..n |-> g[1..i]]
<1>6. G[0] = base_ /\ G[n] = g[1..n]
  <2>1. 1..0 = {} /\ {} \in SUBSET (1..n) /\ 0 \in 0..n /\ n \in 0..n
    OBVIOUS
  <2>2. g[{}] = base_
    BY <1>5, <2>1
  <2> QED BY <2>1, <2>2
<1>7. ASSUME NEW i \in 1..n PROVE G[i] = LineStep(G[i - 1], lines[i])
  <2>1. 1..i \in SUBSET (1..n) /\ 1..i # {} /\ i \in 1..i /\ i \in Nat
    OBVIOUS
  <2>2. (1..i) \ {i} = 1..(i - 1)
    OBVIOUS
  <2>3. i \in 0..n /\ i - 1 \in 0..n
    OBVIOUS
  <2>4. Max(1..i) = i
    BY <2>1, MaxIs
  <2>5. g[1..i] = LineStep(g[1..(i - 1)], lines[i])
    BY <1>5, <2>1, <2>2, <2>4
  <2> QED BY <2>3, <2>5
<1> HIDE DEF G
<1> QED BY <1>1, <1>6, <1>7 DEF base_, ByLines
(* And so are the files of a directory.                                    *)
LEMMA ReadsFiles ==
  ASSUME NEW n \in Nat, NEW files, DOMAIN files = 1..n
  PROVE  \E G : ByFiles(n, files, G)
<1> DEFINE base_ == Host!Empty
           Fold(m, f) ==
             f = [s \in SUBSET (1..m) |-> IF s = {} THEN base_
                                          ELSE Host!CollectFile(f[s \ {Max(s)}], files[Max(s)])]
           P(m) == \E f : Fold(m, f)
           T == {m \in Nat : P(m)}
           g == CHOOSE f : Fold(n, f)
<1>1. Host!FoldLeft(Host!CollectFile, base_, files) = g[1..n]
  <2>1. Host!FoldLeft(Host!CollectFile, base_, files)
          = (CHOOSE f : f = [s \in SUBSET (DOMAIN files) |->
                               IF s = {} THEN base_
                               ELSE Host!CollectFile(f[s \ {Max(s)}], files[Max(s)])])[DOMAIN files]
    BY Zenon DEF Host!FoldLeft, Host!MapThenFoldSet, Host!Max, Max
  <2> QED BY <2>1
<1> HIDE DEF base_
<1>2. P(0)
  <2>1. 1..0 = {} /\ SUBSET {} = {{}}
    OBVIOUS
  <2>2. Fold(0, [s \in {{}} |-> base_])
    BY <2>1
  <2> QED BY <2>2
<1>3. ASSUME NEW m \in Nat, P(m) PROVE P(m + 1)
  <2>1. PICK f : Fold(m, f)
    BY <1>3
  <2> DEFINE h == [s \in SUBSET (1..(m + 1)) |->
                     IF m + 1 \in s THEN Host!CollectFile(f[s \ {m + 1}], files[m + 1]) ELSE f[s]]
  <2>2. ASSUME NEW s \in SUBSET (1..(m + 1))
        PROVE  h[s] = IF s = {} THEN base_ ELSE Host!CollectFile(h[s \ {Max(s)}], files[Max(s)])
    <3>1. CASE m + 1 \in s
      <4>1. Max(s) = m + 1 /\ s # {}
        BY <3>1, MaxIs
      <4>2. s \ {m + 1} \in SUBSET (1..(m + 1)) /\ m + 1 \notin s \ {m + 1}
        OBVIOUS
      <4>3. h[s \ {m + 1}] = f[s \ {m + 1}]
        BY <4>2
      <4> QED BY <3>1, <4>1, <4>3
    <3>2. CASE m + 1 \notin s
      <4>1. s \in SUBSET (1..m) /\ h[s] = f[s]
        BY <3>2
      <4>2. \A x : s \ {x} \in SUBSET (1..(m + 1)) /\ m + 1 \notin s \ {x}
        BY <3>2
      <4>3. \A x : h[s \ {x}] = f[s \ {x}]
        BY <4>2
      <4> QED BY <2>1, <4>1, <4>3
    <3> QED BY <3>1, <3>2
  <2>3. h = [s \in SUBSET (1..(m + 1)) |-> h[s]]
    OBVIOUS
  <2> HIDE DEF h
  <2>4. Fold(m + 1, h)
    BY <2>2, <2>3
  <2> HIDE DEF Fold
  <2> QED BY <2>4
<1>4. T \in SUBSET Nat /\ 0 \in T /\ \A m \in T : m + 1 \in T
  <2> HIDE DEF P
  <2> QED BY <1>2, <1>3
<1>5. Fold(n, g)
  <2>1. T = Nat
    <3> HIDE DEF T
    <3> QED BY <1>4, SetInduction
  <2>2. P(n)
    <3> HIDE DEF P
    <3> QED BY <2>1
  <2> HIDE DEF Fold
  <2> QED BY <2>2
<1> HIDE DEF g
<1> DEFINE G == [i \in 0..n |-> g[1..i]]
<1>6. G[0] = base_ /\ G[n] = g[1..n]
  <2>1. 1..0 = {} /\ {} \in SUBSET (1..n) /\ 0 \in 0..n /\ n \in 0..n
    OBVIOUS
  <2>2. g[{}] = base_
    BY <1>5, <2>1
  <2> QED BY <2>1, <2>2
<1>7. ASSUME NEW i \in 1..n PROVE G[i] = Host!CollectFile(G[i - 1], files[i])
  <2>1. 1..i \in SUBSET (1..n) /\ 1..i # {} /\ i \in 1..i /\ i \in Nat
    OBVIOUS
  <2>2. (1..i) \ {i} = 1..(i - 1)
    OBVIOUS
  <2>3. i \in 0..n /\ i - 1 \in 0..n
    OBVIOUS
  <2>4. Max(1..i) = i
    BY <2>1, MaxIs
  <2>5. g[1..i] = Host!CollectFile(g[1..(i - 1)], files[i])
    BY <1>5, <2>1, <2>2, <2>4
  <2> QED BY <2>3, <2>5
<1> HIDE DEF G
<1> QED BY <1>1, <1>6, <1>7 DEF base_, ByFiles
-----------------------------------------------------------------------------
(***************************************************************************)
(* What Recovery needs of the recorder beyond the invariant of Journal:    *)
(* where the captured data come from, how failures were reported, and that *)
(* a file which was not created holds nothing.                             *)
(***************************************************************************)
EventInv ==
  \A e \in Evals :
    /\ event[e].site = Site[e]
    /\ \/ event[e].skipped = {}
       \/ /\ event[e].skipped = Skips[e]
          /\ event[e].status = "completed" /\ event[e].result

ReportInv ==
  /\ faults = 0 => diagSeen = {} /\ persisted = {} /\ diagFile = FALSE /\ stderr = {}
  /\ faults # 0 => persisted # {} \/ stderr # {}
  /\ persisted # {} => diagFile = TRUE
  /\ IsFiniteSet(persisted)

EmptyInv ==
  writer = FALSE => /\ log = <<>>
                    /\ base = [evaluations |-> {}, begins |-> {}, clauses |-> {}]

RInv == IInv /\ WholeInv /\ FiniteInv /\ EventInv /\ ReportInv /\ EmptyInv

(* Only a capture changes the data of an evaluation.                       *)
LEMMA EventStep == IInv /\ EventInv /\ [Next]_vars => EventInv'
<1> SUFFICES ASSUME IInv, EventInv, [Next]_vars PROVE EventInv'
  OBVIOUS
<1>1. CASE UNCHANGED event
  BY <1>1 DEF EventInv
<1>2. ASSUME NEW e \in Evals, NEW data,
             event' = [event EXCEPT ![e] = data], data.site = Site[e],
             data.skipped = {} \/ /\ data.skipped = Skips[e]
                                  /\ data.status = "completed" /\ data.result
      PROVE  EventInv'
  <2>1. event \in [Evals -> Data]
    BY DEF IInv, TypeOK, ValuesOK
  <2>2. event'[e] = data /\ \A d \in Evals \ {e} : event'[d] = event[d]
    BY <1>2, <2>1
  <2> QED BY <1>2, <2>2 DEF EventInv
<1>3. ASSUME NEW e \in Evals, NEW result \in BOOLEAN, Finish(e, result) PROVE EventInv'
  <2> DEFINE data == [site |-> Site[e], conds |-> conds[e], result |-> result,
                      status |-> "completed", skipped |-> IF result THEN Skips[e] ELSE {}]
  <2>1. event' = [event EXCEPT ![e] = data]
    BY <1>3 DEF Finish, Capture
  <2>2. /\ data.site = Site[e]
        /\ data.skipped = {} \/ (data.skipped = Skips[e] /\ data.status = "completed"
                                                      /\ data.result)
    OBVIOUS
  <2> HIDE DEF data
  <2> QED BY <2>1, <2>2, <1>2
<1>4. ASSUME NEW e \in Evals, Abort(e) PROVE EventInv'
  <2> DEFINE data == [site |-> Site[e], conds |-> conds[e], result |-> FALSE,
                      status |-> "aborted", skipped |-> {}]
  <2>1. event' = [event EXCEPT ![e] = data]
    BY <1>4 DEF Abort, Capture
  <2>2. data.site = Site[e] /\ data.skipped = {}
    OBVIOUS
  <2> HIDE DEF data
  <2> QED BY <2>1, <2>2, <1>2
<1>5. ASSUME NEW t \in Threads, RecorderStep(t) PROVE UNCHANGED event
  BY <1>5, Zenon DEF RecorderStep, CreateWriter, CreateWriterFails, SkipWrite, Write,
     WriteFails, Return, threadVars
<1>6. ASSUME CompactionStep \/ Stop \/ UNCHANGED vars PROVE UNCHANGED event
  BY <1>6, Zenon DEF CompactionStep, CompactCreate, CompactScan, CompactCommit, CompactFails,
     Stop, vars, threadVars
<1>7. ASSUME NEW e \in Evals, EvaluationStep(e) PROVE EventInv'
  <2>1. ASSUME BeginInto(e) \/ \E c \in Conditions, value \in BOOLEAN : Condition(e, c, value)
        PROVE  UNCHANGED event
    BY <2>1, Zenon DEF BeginInto, Condition
  <2> QED BY <1>1, <1>3, <1>4, <1>7, <2>1 DEF EvaluationStep
<1> QED BY <1>1, <1>5, <1>6, <1>7 DEF Next

(* A failure is reported where the collector or the user sees it.          *)
LEMMA ReportStep == IInv /\ ReportInv /\ [Next]_vars => ReportInv'
<1> SUFFICES ASSUME IInv, ReportInv, [Next]_vars PROVE ReportInv'
  OBVIOUS
<1>1. CASE UNCHANGED reportVars
  BY <1>1 DEF ReportInv, reportVars
<1>2. ASSUME NEW m, Fail(m) PROVE ReportInv'
  <2>1. faults \in Nat /\ faults' # 0
    BY <1>2, FaultAssumption DEF IInv, TypeOK, ValuesOK, Fail
  <2>2. CASE m \in diagSeen /\ UNCHANGED <<persisted, diagFile, stderr>>
    <3>1. faults # 0
      BY <2>2 DEF ReportInv
    <3> QED BY <2>1, <2>2, <3>1 DEF ReportInv
  <2>3. CASE persisted' = persisted \cup {m} /\ diagFile' = TRUE
    <3>1. IsFiniteSet(persisted')
      BY <2>3, FS_AddElement DEF ReportInv
    <3> QED BY <2>1, <2>3, <3>1 DEF ReportInv
  <2>4. CASE /\ stderr' = stderr \cup {m} /\ UNCHANGED persisted
             /\ (UNCHANGED diagFile \/ diagFile' = TRUE)
    <3>1. stderr' # {}
      BY <2>4
    <3>2. persisted' # {} => diagFile' = TRUE
      BY <2>4 DEF ReportInv
    <3> QED BY <2>1, <2>4, <3>1, <3>2 DEF ReportInv
  <2> QED BY <1>2, <2>2, <2>3, <2>4, Zenon DEF Fail
<1>3. ASSUME NEW t \in Threads, RecorderStep(t) PROVE ReportInv'
  <2>1. UNCHANGED reportVars \/ \E m : Fail(m)
    BY <1>3, Zenon DEF RecorderStep, CreateWriter, CreateWriterFails, SkipWrite, Write,
       WriteFails, Return
  <2> QED BY <1>1, <1>2, <2>1
<1>4. ASSUME CompactionStep PROVE ReportInv'
  <2>1. UNCHANGED reportVars \/ \E m : Fail(m)
    BY <1>4, Zenon DEF CompactionStep, CompactCreate, CompactScan, CompactCommit, CompactFails
  <2> QED BY <1>1, <1>2, <2>1
<1>5. ASSUME NEW e \in Evals, EvaluationStep(e) PROVE UNCHANGED reportVars
  BY <1>5, Zenon DEF EvaluationStep, BeginInto, Condition, Finish, Abort, Capture
<1>6. ASSUME Stop \/ UNCHANGED vars PROVE UNCHANGED reportVars
  BY <1>6, Zenon DEF Stop, vars
<1> QED BY <1>1, <1>3, <1>4, <1>5, <1>6 DEF Next

(* The file exists before anything is written to it.                       *)
LEMMA EmptyStep == IInv /\ EmptyInv /\ [Next]_vars => EmptyInv'
<1> SUFFICES ASSUME IInv, EmptyInv, [Next]_vars PROVE EmptyInv'
  OBVIOUS
<1>1. CASE UNCHANGED <<base, log, writer>>
  BY <1>1 DEF EmptyInv
<1>2. CASE writer' = TRUE
  BY <1>2 DEF EmptyInv
<1>3. ASSUME NEW t \in Threads, RecorderStep(t) PROVE EmptyInv'
  <2>1. ASSUME Write(t) PROVE writer' = TRUE
    BY <2>1 DEF Write, MayLock, IInv, TypeOK, FlagsOK
  <2>2. ASSUME CreateWriter(t) PROVE writer' = TRUE
    BY <2>2, Zenon DEF CreateWriter
  <2>3. ASSUME CreateWriterFails(t) \/ SkipWrite(t) \/ WriteFails(t) \/ Return(t)
        PROVE  UNCHANGED <<base, log, writer>>
    BY <2>3, Zenon DEF CreateWriterFails, SkipWrite, WriteFails, Return, diskVars, writerVars
  <2> QED BY <1>1, <1>2, <1>3, <2>1, <2>2, <2>3 DEF RecorderStep
<1>4. ASSUME CompactCommit PROVE writer' = TRUE
  BY <1>4, Zenon DEF CompactCommit, IInv, CoreInv, LockInv, TypeOK, FlagsOK
<1>5. ASSUME CompactCreate \/ CompactScan \/ CompactFails \/ Stop \/ UNCHANGED vars
      PROVE  UNCHANGED <<base, log, writer>>
  BY <1>5, Zenon DEF CompactCreate, CompactScan, CompactFails, Stop, vars, diskVars, writerVars
<1>6. ASSUME NEW e \in Evals, EvaluationStep(e) PROVE UNCHANGED <<base, log, writer>>
  BY <1>6, Zenon DEF EvaluationStep, BeginInto, Condition, Finish, Abort, Capture, diskVars,
     writerVars
<1> QED BY <1>1, <1>2, <1>3, <1>4, <1>5, <1>6 DEF Next, CompactionStep

(* In every state of the recorder: its own invariants, and these.          *)
THEOREM RecoveryInvariant == Spec => []RInv
<1>1. Init => FiniteInv /\ EventInv /\ ReportInv /\ EmptyInv
  <2> SUFFICES ASSUME Init PROVE FiniteInv /\ EventInv /\ ReportInv /\ EmptyInv
    OBVIOUS
  <2>1. FiniteInv
    BY TypeInit
  <2>2. IsFiniteSet({})
    BY FS_EmptySet
  <2>3. EventInv
    BY DEF Init, EventInv
  <2>4. ReportInv
    BY <2>2 DEF Init, ReportInv
  <2>5. EmptyInv
    BY DEF Init, EmptyInv
  <2> QED BY <2>1, <2>3, <2>4, <2>5
<1>2. IInv /\ FiniteInv /\ EventInv /\ ReportInv /\ EmptyInv /\ [Next]_vars
        => FiniteInv' /\ EventInv' /\ ReportInv' /\ EmptyInv'
  BY FinitePreserved, EventStep, ReportStep, EmptyStep
<1> QED BY <1>1, <1>2, FileWhole, PTL DEF Spec, RInv
-----------------------------------------------------------------------------
(***************************************************************************)
(* The lines that the recorder's files hold, and what can be collected of  *)
(* them.                                                                   *)
(***************************************************************************)
Ident(e) == [process |-> Process, id |-> e]

Beginnings == {BeginLine(e) : e \in Evals}
Endings == {EndLine(type, v) : type \in {"terminal", "evaluation"}, v \in Recorded}
Mentions == {ClauseLine(k) : k \in Clauses}
Reported == {[type |-> "diagnostic", process |-> Process, message |-> m] : m \in persisted}
Broken == {[type |-> "garbled"]}
Told == Beginnings \cup Endings \cup Mentions \cup Reported \cup Broken

SkipsBy(r) == {[decision |-> d, cause |-> Host!Identity(r)] : d \in r.skips}

Evidence ==
  [begun : SUBSET Beginnings, finished : SUBSET {Ident(e) : e \in Evals},
   evaluations : Seq({Host!EvaluationOf(r) : r \in Endings}),
   skipped : SUBSET UNION {SkipsBy(r) : r \in Endings},
   clauses : SUBSET {[process |-> Process, clause |-> k] : k \in Clauses},
   integrity : BOOLEAN, interrupted : BOOLEAN]

(* A record whose skipped decisions have a cause, as consume demands.      *)
Honest(r) == r.decision \notin r.skips /\ (r.skips = {} \/ r.selects)

(* The reader finds in an end line what the recorder put there.            *)
LEMMA EndFields ==
  ASSUME IInv, NEW r \in Endings
  PROVE  \E v \in Recorded :
           /\ v.id \in Evals /\ v.data \in Data
           /\ \E type \in {"terminal", "evaluation"} : r = EndLine(type, v)
           /\ r.type \in {"terminal", "evaluation"} /\ r.process = Process /\ r.id = v.id
           /\ r.data = v.data /\ r.skips = v.data.skipped /\ r.decision = v.data.site
           /\ r.count = Cardinality(Conditions)
           /\ r.selects <=> (v.data.status = "completed" /\ v.data.result)
           /\ Host!Identity(r) = Ident(v.id)
<1>1. PICK type \in {"terminal", "evaluation"}, v \in Recorded : r = EndLine(type, v)
  BY DEF Endings
<1>2. v.id \in Evals /\ v.data \in Data
  <2>1. CASE v \in base.evaluations
    BY <2>1 DEF IInv, TypeOK, ValuesOK, Evaluation
  <2>2. CASE v \in TerminalLines
    BY <2>2 DEF IInv, TypeOK, ValuesOK, TerminalLines, Lines, Record
  <2> QED BY <2>1, <2>2 DEF Recorded
<1> QED BY <1>1, <1>2 DEF EndLine, Host!Identity, Ident

(* The identities of begin lines are those of the evaluations.             *)
LEMMA BeginFields ==
  ASSUME NEW e \in Evals
  PROVE  /\ BeginLine(e).type = "begin" /\ BeginLine(e).process = Process
         /\ BeginLine(e).id = e /\ BeginLine(e).decision = Site[e]
         /\ BeginLine(e).count = Cardinality(Conditions)
         /\ Host!Identity(BeginLine(e)) = Ident(e)
         /\ \A d \in Evals : Ident(d) = Ident(e) \/ BeginLine(d) = BeginLine(e) => d = e
BY DEF BeginLine, Host!Identity, Ident

(* Nothing is evidence, and the marks change nothing else.                 *)
LEMMA Marks ==
  /\ Host!Empty \in Evidence
  /\ \A c \in Evidence :
       /\ Host!Diagnostic(c) \in Evidence /\ Host!Diagnostic(c).integrity = TRUE
       /\ Host!Interruption(c) \in Evidence
       /\ Host!Interruption(c).integrity = c.integrity
       /\ Host!Interruption(c).begun = c.begun
       /\ Host!Interruption(c).finished = c.finished
       /\ Host!Interruption(c).evaluations = c.evaluations
       /\ Host!Interruption(c).clauses = c.clauses
<1>1. Host!Empty \in Evidence
  BY DEF Host!Empty, Evidence
<1>2. ASSUME NEW c \in Evidence
      PROVE  Host!Diagnostic(c) \in Evidence /\ Host!Diagnostic(c).integrity = TRUE
  BY DEF Host!Diagnostic, Evidence
<1>3. ASSUME NEW c \in Evidence
      PROVE  /\ Host!Interruption(c) \in Evidence
             /\ Host!Interruption(c).integrity = c.integrity
             /\ Host!Interruption(c).begun = c.begun
             /\ Host!Interruption(c).finished = c.finished
             /\ Host!Interruption(c).evaluations = c.evaluations
             /\ Host!Interruption(c).clauses = c.clauses
  BY DEF Host!Interruption, Evidence
<1> QED BY <1>1, <1>2, <1>3

(* A begin opens its evaluation, unless it was met before.                 *)
LEMMA Begins ==
  ASSUME NEW c \in Evidence, NEW e \in Evals, NEW d,
         d = Host!ConsumeBegin(c, BeginLine(e))
  PROVE  /\ d \in Evidence /\ (c.integrity => d.integrity)
         /\ Ident(e) \notin c.finished /\ BeginLine(e) \notin c.begun =>
              d = [c EXCEPT !.begun = c.begun \cup {BeginLine(e)}]
<1> DEFINE k == [c EXCEPT !.begun = c.begun \cup {BeginLine(e)}]
<1>1. k \in Evidence /\ k.integrity = c.integrity
  BY DEF Evidence, Beginnings
<1>2. d = Host!Diagnostic(c) \/ d = k
  BY DEF Host!ConsumeBegin
<1>3. ASSUME Ident(e) \notin c.finished, BeginLine(e) \notin c.begun PROVE d = k
  <2>1. ~Host!IsFinished(c, BeginLine(e))
    BY <1>3, BeginFields DEF Host!IsFinished
  <2>2. ASSUME NEW b \in c.begun PROVE Host!Identity(b) # Host!Identity(BeginLine(e))
    <3>1. PICK x \in Evals : b = BeginLine(x)
      BY DEF Evidence, Beginnings
    <3>2. x # e
      BY <1>3, <3>1
    <3> QED BY <3>1, <3>2, BeginFields
  <2>3. ~Host!IsBegun(c, BeginLine(e))
    BY <2>2 DEF Host!IsBegun
  <2> QED BY <2>1, <2>3 DEF Host!ConsumeBegin
<1> HIDE DEF k
<1>4. d \in Evidence /\ (c.integrity => d.integrity)
  BY <1>1, <1>2, Marks
<1> QED BY <1>3, <1>4 DEF k

(* What the end of an evaluation adds.                                     *)
Ends(c, r, d) ==
  /\ d.begun = c.begun \ {BeginLine(r.id)}
  /\ d.finished = c.finished \cup {Host!Identity(r)}
  /\ d.evaluations = Append(c.evaluations, Host!EvaluationOf(r))
  /\ d.clauses = c.clauses
  /\ (~c.integrity /\ Honest(r) => ~d.integrity)

(* What the end of an evaluation, added to well formed evidence, makes of  *)
(* it.                                                                     *)
LEMMA Adds ==
  ASSUME IInv, NEW c \in Evidence, NEW r \in Endings, NEW X, NEW d,
         d = Host!AddEvaluation([c EXCEPT !.begun = c.begun \ X], r)
  PROVE  /\ d \in Evidence /\ (c.integrity => d.integrity)
         /\ c.begun \ X = c.begun \ {BeginLine(r.id)} => Ends(c, r, d)
<1> DEFINE i == c.integrity \/ (r.skips # {} /\ ~r.selects) \/ r.decision \in r.skips
           s == IF r.selects
                THEN c.skipped \cup {[decision |-> k, cause |-> Host!Identity(r)] :
                                       k \in r.skips \ {r.decision}}
                ELSE c.skipped
           b == c.begun \ X
           f == c.finished \cup {Host!Identity(r)}
           v == Append(c.evaluations, Host!EvaluationOf(r))
<1>1. i \in BOOLEAN /\ (c.integrity => i) /\ (~c.integrity /\ Honest(r) => ~i)
  BY DEF Evidence, Honest
<1>2. s \in SUBSET UNION {SkipsBy(x) : x \in Endings}
  <2>1. {[decision |-> k, cause |-> Host!Identity(r)] : k \in r.skips \ {r.decision}}
          \subseteq SkipsBy(r)
    BY DEF SkipsBy
  <2>2. c.skipped \in SUBSET UNION {SkipsBy(x) : x \in Endings}
    BY DEF Evidence
  <2> QED BY <2>1, <2>2
<1>3. v \in Seq({Host!EvaluationOf(x) : x \in Endings})
  BY DEF Evidence
<1>4. f \in SUBSET {Ident(e) : e \in Evals}
  BY EndFields DEF Evidence
<1>5. b \in SUBSET Beginnings
  BY DEF Evidence
<1>6. d = [c EXCEPT !.begun = b, !.evaluations = v, !.finished = f, !.skipped = s, !.integrity = i]
  BY DEF Host!AddEvaluation, Evidence
<1> HIDE DEF i, s, v, f, b
<1>7. d \in Evidence
  BY <1>1, <1>2, <1>3, <1>4, <1>5, <1>6 DEF Evidence
<1>8. d.begun = b /\ d.finished = f /\ d.evaluations = v /\ d.clauses = c.clauses
  BY <1>6 DEF Evidence
<1>9. d.integrity = i
  BY <1>6 DEF Evidence
<1> QED BY <1>1, <1>7, <1>8, <1>9 DEF Ends, v, f, b

(* An end closes its evaluation, or the reader says why it does not.       *)
LEMMA Closes ==
  ASSUME IInv, NEW c \in Evidence, NEW r \in Endings, NEW d,
         d = Host!ConsumeTerminal(c, r) \/ d = Host!ConsumeEvaluation(c, r)
  PROVE  d \in Evidence /\ (c.integrity => d.integrity)
<1>1. CASE d = Host!Diagnostic(c)
  BY <1>1, Marks
<1>2. ASSUME NEW X, d = Host!AddEvaluation([c EXCEPT !.begun = c.begun \ X], r)
      PROVE  d \in Evidence /\ (c.integrity => d.integrity)
  BY <1>2, Adds
<1>3. CASE d = Host!AddEvaluation(c, r)
  <2>1. c = [c EXCEPT !.begun = c.begun \ {}]
    BY DEF Evidence
  <2> QED BY <1>2, <1>3, <2>1
<1>4. CASE d = Host!ConsumeTerminal(c, r)
  BY <1>1, <1>2, <1>4 DEF Host!ConsumeTerminal
<1>5. CASE d = Host!ConsumeEvaluation(c, r)
  BY <1>1, <1>3, <1>5 DEF Host!ConsumeEvaluation
<1> QED BY <1>4, <1>5

(* An end that fits what was read before closes its evaluation.            *)
LEMMA ClosesExactly ==
  ASSUME IInv, NEW c \in Evidence, NEW r \in Endings, NEW d,
         Host!Identity(r) \notin c.finished,
         \/ /\ d = Host!ConsumeTerminal(c, r)
            /\ BeginLine(r.id) \in c.begun /\ r.decision = Site[r.id]
         \/ d = Host!ConsumeEvaluation(c, r) /\ BeginLine(r.id) \notin c.begun
  PROVE  Ends(c, r, d)
<1>1. r.id \in Evals /\ Host!Identity(r) = Ident(r.id) /\ r.count = Cardinality(Conditions)
  BY EndFields
<1>2. ~Host!IsFinished(c, r)
  BY DEF Host!IsFinished
<1>3. ASSUME NEW b \in c.begun
      PROVE  Host!Identity(b) = Host!Identity(r) <=> b = BeginLine(r.id)
  <2>1. PICK x \in Evals : b = BeginLine(x)
    BY DEF Evidence, Beginnings
  <2> QED BY <1>1, <2>1, BeginFields
<1>4. CASE /\ d = Host!ConsumeTerminal(c, r)
           /\ BeginLine(r.id) \in c.begun /\ r.decision = Site[r.id]
  <2> DEFINE matching == {b \in c.begun : /\ Host!Identity(b) = Host!Identity(r)
                                          /\ b.decision = r.decision
                                          /\ b.count = r.count}
  <2>1. BeginLine(r.id) \in matching
    BY <1>1, <1>3, <1>4, BeginFields
  <2>2. matching \subseteq {BeginLine(r.id)}
    BY <1>3
  <2>3. d = Host!AddEvaluation([c EXCEPT !.begun = c.begun \ matching], r)
    BY <1>2, <1>4, <2>1 DEF Host!ConsumeTerminal
  <2>4. c.begun \ matching = c.begun \ {BeginLine(r.id)}
    BY <2>1, <2>2
  <2> HIDE DEF matching
  <2> QED BY <2>3, <2>4, Adds
<1>5. CASE d = Host!ConsumeEvaluation(c, r) /\ BeginLine(r.id) \notin c.begun
  <2>1. ~Host!IsBegun(c, r)
    BY <1>3, <1>5 DEF Host!IsBegun
  <2>2. c = [c EXCEPT !.begun = c.begun \ {}]
    BY DEF Evidence
  <2>3. d = Host!AddEvaluation([c EXCEPT !.begun = c.begun \ {}], r)
    BY <1>2, <1>5, <2>1, <2>2 DEF Host!ConsumeEvaluation
  <2>4. c.begun \ {} = c.begun \ {BeginLine(r.id)}
    BY <1>5
  <2> QED BY <2>3, <2>4, Adds
<1> QED BY <1>4, <1>5

(* What one line makes of the evidence.                                    *)
LEMMA OneLine ==
  ASSUME NEW c, NEW r \in Told, NEW p \in {Host!NoProcess, Process}
  PROVE  /\ Host!ProvenanceAfter(r, p) \in {Host!NoProcess, Process}
         /\ r \in Reported \cup Broken => Host!ConsumeLine(c, r, p) = Host!Diagnostic(c)
         /\ r \in Beginnings => Host!ConsumeLine(c, r, p) = Host!ConsumeBegin(c, r)
         /\ r \in Endings => /\ r.type \in {"terminal", "evaluation"}
                             /\ Host!ConsumeLine(c, r, p)
                                  = IF r.type = "terminal" THEN Host!ConsumeTerminal(c, r)
                                    ELSE Host!ConsumeEvaluation(c, r)
         /\ \A k \in Clauses : r = ClauseLine(k) =>
              Host!ConsumeLine(c, r, p)
                = [c EXCEPT !.clauses = c.clauses \cup {[process |-> Process, clause |-> k]}]
<1>1. CASE r \in Beginnings
  <2>1. r.type = "begin" /\ r.process = Process
    BY <1>1 DEF Beginnings, BeginLine
  <2>2. r \notin Reported \cup Broken \cup Endings \cup Mentions
    BY <2>1 DEF Reported, Broken, Endings, Mentions, EndLine, ClauseLine
  <2> QED BY <2>1, <2>2 DEF Host!ConsumeLine, Host!Consume, Host!ProvenanceAfter, Mentions
<1>2. CASE r \in Endings
  <2>1. r.type \in {"terminal", "evaluation"} /\ r.process = Process
    BY <1>2 DEF Endings, EndLine
  <2>2. r \notin Reported \cup Broken \cup Beginnings \cup Mentions
    BY <2>1 DEF Reported, Broken, Beginnings, Mentions, BeginLine, ClauseLine
  <2> QED BY <2>1, <2>2 DEF Host!ConsumeLine, Host!Consume, Host!ProvenanceAfter, Mentions
<1>3. CASE r \in Mentions
  <2>1. PICK k \in Clauses : r = ClauseLine(k)
    BY <1>3 DEF Mentions
  <2>2. r.type = "clause" /\ r.process = Process /\ r.clause = k
    BY <2>1 DEF ClauseLine
  <2>3. r \notin Reported \cup Broken \cup Beginnings \cup Endings
    BY <2>2 DEF Reported, Broken, Beginnings, Endings, BeginLine, EndLine
  <2>4. \A x \in Clauses : r = ClauseLine(x) => x = k
    BY <2>2 DEF ClauseLine
  <2>5. Host!ConsumeLine(c, r, p) = Host!ConsumeClause(c, r)
    BY <2>2 DEF Host!ConsumeLine, Host!Consume
  <2>6. OfClause(r)
    BY <2>2 DEF OfClause
  <2>7. Host!ConsumeClause(c, r)
          = [c EXCEPT !.clauses = c.clauses \cup {[process |-> Process, clause |-> k]}]
    BY <2>2, <2>6 DEF Host!ConsumeClause
  <2> QED BY <2>2, <2>3, <2>4, <2>5, <2>7 DEF Host!ProvenanceAfter
<1>4. CASE r \in Reported \cup Broken
  <2>1. r.type \in {"diagnostic", "garbled"} /\ (r.type = "diagnostic" => r.process = Process)
    BY <1>4 DEF Reported, Broken
  <2>2. r \notin Beginnings \cup Endings \cup Mentions
    BY <2>1 DEF Beginnings, Endings, Mentions, BeginLine, EndLine, ClauseLine
  <2> QED BY <2>1, <2>2 DEF Host!ConsumeLine, Host!Consume, Host!ProvenanceAfter, Mentions
<1> QED BY <1>1, <1>2, <1>3, <1>4, Zenon DEF Told

(* One line keeps the evidence true, and damage stays.                     *)
LEMMA LineType ==
  ASSUME IInv, NEW c \in Evidence, NEW r \in Told, NEW p \in {Host!NoProcess, Process}
  PROVE  /\ Host!ConsumeLine(c, r, p) \in Evidence
         /\ c.integrity => Host!ConsumeLine(c, r, p).integrity
<1> DEFINE d == Host!ConsumeLine(c, r, p)
<1>1. CASE r \in Beginnings
  <2>1. PICK e \in Evals : r = BeginLine(e)
    BY <1>1 DEF Beginnings
  <2>2. d = Host!ConsumeBegin(c, BeginLine(e))
    BY <1>1, <2>1, OneLine
  <2> QED BY <2>2, Begins
<1>2. CASE r \in Endings
  <2>1. d = Host!ConsumeTerminal(c, r) \/ d = Host!ConsumeEvaluation(c, r)
    BY <1>2, OneLine
  <2> QED BY <1>2, <2>1, Closes
<1>3. CASE r \in Mentions
  <2>1. PICK k \in Clauses : r = ClauseLine(k)
    BY <1>3 DEF Mentions
  <2>2. d = [c EXCEPT !.clauses = c.clauses \cup {[process |-> Process, clause |-> k]}]
    BY <2>1, OneLine
  <2> HIDE DEF d
  <2>3. d \in Evidence /\ d.integrity = c.integrity
    BY <2>2 DEF Evidence
  <2> QED BY <2>3 DEF d
<1>4. CASE r \in Reported \cup Broken
  BY <1>4, OneLine, Marks
<1> QED BY <1>1, <1>2, <1>3, <1>4 DEF Told
-----------------------------------------------------------------------------
(***************************************************************************)
(* A file of such lines, read from its first line to its end.              *)
(***************************************************************************)
Reading(c, lines, G) ==
  /\ G[0] = Unread(c)
  /\ \A i \in 1..Len(lines) : G[i] = LineStep(G[i - 1], lines[i])
  /\ \A i \in 0..Len(lines) :
       /\ G[i].c \in Evidence /\ G[i].process \in {Host!NoProcess, Process}
       /\ c.integrity => G[i].c.integrity

(* A journal is read line by line; what its file is worth is what its last *)
(* line left.                                                              *)
LEMMA FileIsRead ==
  ASSUME IInv, NEW c \in Evidence, NEW f, f.kind = "journal", f.lines \in Seq(Told)
  PROVE  \E G : /\ Reading(c, f.lines, G)
                /\ Host!CollectFile(c, f) = Host!FileEnd(G[Len(f.lines)].c, f)
<1> DEFINE n == Len(f.lines)
<1>1. n \in Nat /\ DOMAIN f.lines = 1..n /\ \A i \in 1..n : f.lines[i] \in Told
  OBVIOUS
<1>2. PICK G : ByLines(c, n, f.lines, G)
  <2> HIDE DEF n
  <2> QED BY <1>1, ReadsLines
<1> USE DEF ByLines
<1>3. Host!CollectFile(c, f) = Host!FileEnd(G[n].c, f)
  <2>1. Host!CollectFile(c, f)
          = Host!FileEnd(Host!FoldLeft(LineStep, Unread(c), f.lines).c, f)
    BY Zenon DEF Host!CollectFile, LineStep, Unread
  <2> QED BY <1>2, <2>1
<1> DEFINE P(i) == /\ G[i].c \in Evidence /\ G[i].process \in {Host!NoProcess, Process}
                   /\ c.integrity => G[i].c.integrity
           T == {i \in Nat : i <= n => P(i)}
<1>4. P(0)
  BY <1>2 DEF Unread
<1>5. ASSUME NEW i \in Nat, i + 1 <= n, P(i) PROVE P(i + 1)
  <2>1. i + 1 \in 1..n /\ (i + 1) - 1 = i
    BY <1>1, <1>5
  <2>2. G[i + 1] = LineStep(G[i], f.lines[i + 1]) /\ f.lines[i + 1] \in Told
    BY <1>1, <1>2, <2>1
  <2> DEFINE k == Host!ConsumeLine(G[i].c, f.lines[i + 1], G[i].process)
  <2>3. k \in Evidence /\ (G[i].c.integrity => k.integrity)
    BY <1>5, <2>2, LineType
  <2>4. Host!ProvenanceAfter(f.lines[i + 1], G[i].process) \in {Host!NoProcess, Process}
    BY <1>5, <2>2, OneLine
  <2>5. G[i + 1].c = k
    BY <2>2 DEF LineStep
  <2>6. G[i + 1].process = Host!ProvenanceAfter(f.lines[i + 1], G[i].process)
    BY <2>2 DEF LineStep
  <2> HIDE DEF k
  <2> QED BY <1>5, <2>3, <2>4, <2>5, <2>6
<1>6. T \in SUBSET Nat /\ 0 \in T /\ \A i \in T : i + 1 \in T
  <2> HIDE DEF P
  <2> QED BY <1>1, <1>4, <1>5
<1>7. ASSUME NEW i \in 0..n PROVE P(i)
  <2>1. T = Nat
    <3> HIDE DEF T
    <3> QED BY <1>6, SetInduction
  <2>2. i \in Nat /\ i <= n
    BY <1>1
  <2> HIDE DEF P
  <2> QED BY <2>1, <2>2
<1> HIDE DEF n
<1>8. Reading(c, f.lines, G)
  BY <1>2, <1>7 DEF Reading, n
<1> QED BY <1>3, <1>8 DEF n

(* The end of a file adds no more than the mark of an interruption.        *)
LEMMA EndIsMark ==
  ASSUME NEW c \in Evidence, NEW f
  PROVE  /\ Host!FileEnd(c, f) \in Evidence
         /\ Host!FileEnd(c, f).integrity = c.integrity
         /\ Host!FileEnd(c, f).begun = c.begun /\ Host!FileEnd(c, f).finished = c.finished
         /\ Host!FileEnd(c, f).evaluations = c.evaluations
         /\ Host!FileEnd(c, f).clauses = c.clauses
BY Marks DEF Host!FileEnd

(* Whatever file is read, the evidence stays true and damage stays known;  *)
(* a file of the recorder's own reports is damage.                         *)
LEMMA FileType ==
  ASSUME IInv, NEW c \in Evidence, NEW f,
         \/ f.kind = "artifact"
         \/ f.kind = "journal" /\ f.lines \in Seq(Told)
  PROVE  /\ Host!CollectFile(c, f) \in Evidence
         /\ c.integrity => Host!CollectFile(c, f).integrity
         /\ f.kind = "journal" /\ f.lines \in Seq(Reported) /\ f.lines # <<>> =>
              Host!CollectFile(c, f).integrity
<1>1. CASE f.kind = "artifact"
  <2>1. Host!CollectFile(c, f) = Host!Interruption(c)
    BY <1>1 DEF Host!CollectFile
  <2> QED BY <1>1, <2>1, Marks
<1>2. CASE f.kind = "journal" /\ f.lines \in Seq(Told)
  <2> DEFINE n == Len(f.lines)
  <2>1. PICK G : /\ Reading(c, f.lines, G)
                 /\ Host!CollectFile(c, f) = Host!FileEnd(G[n].c, f)
    BY <1>2, FileIsRead
  <2>2. n \in Nat /\ n \in 0..n
    BY <1>2
  <2>3. G[n].c \in Evidence /\ (c.integrity => G[n].c.integrity)
    BY <2>1, <2>2 DEF Reading
  <2>4. ASSUME f.lines \in Seq(Reported), f.lines # <<>> PROVE G[n].c.integrity
    <3>1. n \in 1..n /\ n - 1 \in 0..n /\ f.lines[n] \in Reported
      BY <2>2, <2>4
    <3>2. G[n] = LineStep(G[n - 1], f.lines[n])
      BY <2>1, <3>1 DEF Reading
    <3>3. G[n - 1].c \in Evidence /\ G[n - 1].process \in {Host!NoProcess, Process}
      BY <2>1, <3>1 DEF Reading
    <3>4. f.lines[n] \in Told
      BY <3>1 DEF Told
    <3>5. Host!ConsumeLine(G[n - 1].c, f.lines[n], G[n - 1].process)
            = Host!Diagnostic(G[n - 1].c)
      BY <3>1, <3>3, <3>4, OneLine
    <3> QED BY <3>2, <3>3, <3>5, Marks DEF LineStep
  <2> HIDE DEF n
  <2> QED BY <1>2, <2>1, <2>3, <2>4, EndIsMark
<1> QED BY <1>1, <1>2
-----------------------------------------------------------------------------
(***************************************************************************)
(* The files of a process that has stopped.                                *)
(***************************************************************************)
JournalLines == SnapshotLines \o [i \in DOMAIN log |-> LineOf(log[i])]
ReportLines == SetToSeq(Reported)

(* The image of a finite set is finite.                                    *)
LEMMA ImageFinite ==
  ASSUME NEW S, NEW T, IsFiniteSet(S), NEW f \in [S -> T], \A y \in T : \E x \in S : f[x] = y
  PROVE  IsFiniteSet(T)
<1>1. f \in Surjection(S, T)
  BY DEF Surjection
<1> QED BY <1>1, FS_Surjection

(* The sets that the snapshot lists are finite.                            *)
LEMMA SnapshotLinesFinite ==
  ASSUME RInv
  PROVE  /\ IsFiniteSet({EndLine("evaluation", v) : v \in base.evaluations})
         /\ IsFiniteSet({BeginLine(e) : e \in base.begins})
         /\ IsFiniteSet({ClauseLine(k) : k \in base.clauses})
<1>1. base.evaluations \subseteq evaluations /\ base.clauses \subseteq clauses
      /\ base.begins \subseteq 1..N
  BY DEF RInv, IInv, CoreInv, SnapshotInv, TypeOK, ValuesOK, Evals
<1>2. IsFiniteSet(base.evaluations) /\ IsFiniteSet(base.clauses)
  BY <1>1, FS_Subset DEF RInv, FiniteInv
<1>3. IsFiniteSet(base.begins)
  <2>1. IsFiniteSet(1..N)
    BY NAssumption, FS_Interval
  <2> QED BY <1>1, <2>1, FS_Subset
<1>4. IsFiniteSet({EndLine("evaluation", v) : v \in base.evaluations})
  <2> DEFINE T == {EndLine("evaluation", v) : v \in base.evaluations}
             f == [v \in base.evaluations |-> EndLine("evaluation", v)]
  <2>1. f \in [base.evaluations -> T] /\ \A y \in T : \E x \in base.evaluations : f[x] = y
    OBVIOUS
  <2> HIDE DEF f, T
  <2>2. IsFiniteSet(T)
    BY <1>2, <2>1, ImageFinite
  <2> QED BY <2>2 DEF T
<1>5. IsFiniteSet({BeginLine(e) : e \in base.begins})
  <2> DEFINE T == {BeginLine(e) : e \in base.begins}
             f == [e \in base.begins |-> BeginLine(e)]
  <2>1. f \in [base.begins -> T] /\ \A y \in T : \E x \in base.begins : f[x] = y
    OBVIOUS
  <2> HIDE DEF f, T
  <2>2. IsFiniteSet(T)
    BY <1>3, <2>1, ImageFinite
  <2> QED BY <2>2 DEF T
<1>6. IsFiniteSet({ClauseLine(k) : k \in base.clauses})
  <2> DEFINE T == {ClauseLine(k) : k \in base.clauses}
             f == [k \in base.clauses |-> ClauseLine(k)]
  <2>1. f \in [base.clauses -> T] /\ \A y \in T : \E x \in base.clauses : f[x] = y
    OBVIOUS
  <2> HIDE DEF f, T
  <2>2. IsFiniteSet(T)
    BY <1>2, <2>1, ImageFinite
  <2> QED BY <2>2 DEF T
<1> QED BY <1>4, <1>5, <1>6

(* What a line of the journal says is a line that a reader may find.       *)
LEMMA LogLines ==
  ASSUME IInv, NEW i \in DOMAIN log
  PROVE  /\ log[i].type = "begin" => /\ log[i].id \in Evals
                                     /\ LineOf(log[i]) = BeginLine(log[i].id)
         /\ log[i].type = "terminal" =>
              /\ log[i].id \in Evals
              /\ LineOf(log[i]) = EndLine("terminal", log[i])
              /\ LineOf(log[i]) \in Endings
              /\ log[i].data = event[log[i].id]
         /\ log[i].type = "clause" => /\ log[i].clause \in Clauses
                                      /\ LineOf(log[i]) = ClauseLine(log[i].clause)
         /\ log[i].type = "garbled" => LineOf(log[i]) \in Broken
         /\ log[i].type \in {"begin", "terminal", "clause", "garbled"}
         /\ LineOf(log[i]) \in Told
<1>1. log[i] \in Record
  BY DEF IInv, TypeOK, ValuesOK
<1>2. CASE log[i].type = "terminal"
  <2> DEFINE v == [id |-> log[i].id, data |-> log[i].data]
  <2>1. v \in Recorded
    BY <1>2 DEF Recorded, TerminalLines, Lines
  <2>2. EndLine("terminal", v) = EndLine("terminal", log[i])
    BY DEF EndLine
  <2>3. LineOf(log[i]) = EndLine("terminal", log[i])
    BY <1>2 DEF LineOf
  <2>4. EndLine("terminal", v) \in Endings
    BY <2>1 DEF Endings
  <2>5. log[i].id \in Evals /\ log[i].data = event[log[i].id]
    BY <1>1, <1>2 DEF Record, IInv, CoreInv, LineInv
  <2> QED BY <1>2, <2>2, <2>3, <2>4, <2>5 DEF Told
<1>3. CASE log[i].type = "begin"
  BY <1>1, <1>3 DEF Record, LineOf, Told, Beginnings
<1>4. CASE log[i].type = "clause"
  BY <1>1, <1>4 DEF Record, LineOf, Told, Mentions
<1>5. CASE log[i].type = "garbled"
  BY <1>5 DEF LineOf, Told, Broken
<1>6. log[i].type \in {"begin", "terminal", "clause", "garbled"}
  BY <1>1 DEF Record
<1> QED BY <1>2, <1>3, <1>4, <1>5, <1>6
-----------------------------------------------------------------------------
(***************************************************************************)
(* Lines in the order in which consume accepts them: a line fits the lines *)
(* P before it, and what has been collected of P is exact.                 *)
(***************************************************************************)
Fits(P, r) ==
  /\ r \in Beginnings \cup Endings \cup Mentions
  /\ r \in Beginnings => /\ r \notin P
                         /\ \A q \in P \cap Endings : Host!Identity(q) # Host!Identity(r)
  /\ r \in Endings => /\ \A q \in P \cap Endings : Host!Identity(q) # Host!Identity(r)
                      /\ r.type = "terminal" <=> BeginLine(r.id) \in P

InOrder(P, lines) ==
  \A j \in DOMAIN lines : Fits(P \cup {lines[i] : i \in 1..(j - 1)}, lines[j])

Exact(c, P) ==
  /\ c.integrity = FALSE
  /\ c.begun = {r \in P \cap Beginnings : Host!Identity(r) \notin c.finished}
  /\ c.finished = {Host!Identity(r) : r \in P \cap Endings}
  /\ ToSet(c.evaluations) = {Host!EvaluationOf(r) : r \in P \cap Endings}
  /\ c.clauses = {[process |-> Process, clause |-> k] :
                    k \in {x \in Clauses : ClauseLine(x) \in P}}

(* The kinds of lines have nothing in common.                              *)
LEMMA KindsApart ==
  /\ \A r \in Beginnings : r.type = "begin"
  /\ \A r \in Endings : r.type \in {"terminal", "evaluation"}
  /\ \A r \in Mentions : r.type = "clause"
  /\ Beginnings \cap Endings = {} /\ Beginnings \cap Mentions = {}
  /\ Endings \cap Mentions = {}
<1>1. \A r \in Beginnings : r.type = "begin"
  BY DEF Beginnings, BeginLine
<1>2. \A r \in Endings : r.type \in {"terminal", "evaluation"}
  BY DEF Endings, EndLine
<1>3. \A r \in Mentions : r.type = "clause"
  BY DEF Mentions, ClauseLine
<1>4. \A r \in Beginnings : r \notin Endings \cup Mentions
  BY <1>1, <1>2, <1>3
<1>5. \A r \in Endings : r \notin Mentions
  BY <1>2, <1>3
<1> QED BY <1>1, <1>2, <1>3, <1>4, <1>5

(* What an end line says is what its evaluation ended with, and consume    *)
(* has nothing to say against it.                                          *)
LEMMA EndsAreTrue ==
  ASSUME RInv, NEW r \in Endings
  PROVE  /\ r.id \in Ended /\ r.data = event[r.id] /\ r.decision = Site[r.id]
         /\ r.skips = event[r.id].skipped /\ Honest(r)
<1>1. PICK v \in Recorded :
        /\ v.id \in Evals /\ r.id = v.id /\ r.data = v.data
        /\ r.skips = v.data.skipped /\ r.decision = v.data.site
        /\ (r.selects <=> (v.data.status = "completed" /\ v.data.result))
  BY EndFields DEF RInv
<1>2. v \in endedNow
  BY <1>1, RecordedEnded DEF RInv
<1>3. v.id \in Ended /\ v.data = event[v.id]
  BY <1>2 DEF endedNow
<1> QED BY <1>1, <1>3, SkipsAssumption DEF RInv, EventInv, Honest

(* One sequence after another.                                             *)
LEMMA OrderConcat ==
  ASSUME NEW E, NEW s \in Seq(E), NEW t \in Seq(E), NEW P,
         InOrder(P, s), InOrder(P \cup ToSet(s), t)
  PROVE  InOrder(P, s \o t)
<1>1. /\ Len(s) \in Nat /\ Len(t) \in Nat /\ DOMAIN s = 1..Len(s) /\ DOMAIN t = 1..Len(t)
      /\ DOMAIN (s \o t) = 1..(Len(s) + Len(t))
  OBVIOUS
<1>2. \A i \in 1..Len(s) : (s \o t)[i] = s[i]
  BY <1>1
<1>3. \A i \in 1..Len(t) : (s \o t)[i + Len(s)] = t[i]
  BY <1>1
<1>4. ASSUME NEW j \in 1..Len(s)
      PROVE  Fits(P \cup {(s \o t)[i] : i \in 1..(j - 1)}, (s \o t)[j])
  <2>1. \A i \in 1..(j - 1) : (s \o t)[i] = s[i]
    BY <1>1, <1>2
  <2>2. {(s \o t)[i] : i \in 1..(j - 1)} = {s[i] : i \in 1..(j - 1)}
    BY <2>1
  <2>3. Fits(P \cup {s[i] : i \in 1..(j - 1)}, s[j])
    BY <1>1 DEF InOrder
  <2> QED BY <1>2, <2>2, <2>3
<1>5. ASSUME NEW j \in 1..Len(t), NEW q, q = j + Len(s)
      PROVE  Fits(P \cup {(s \o t)[i] : i \in 1..(q - 1)}, (s \o t)[q])
  <2> DEFINE U == {(s \o t)[i] : i \in 1..(q - 1)}
             V == ToSet(s) \cup {t[i] : i \in 1..(j - 1)}
  <2>1. U \subseteq V
    <3>1. SUFFICES ASSUME NEW i \in 1..(q - 1) PROVE (s \o t)[i] \in V
      OBVIOUS
    <3>2. CASE i \in 1..Len(s)
      BY <1>1, <1>2, <3>2 DEF ToSet
    <3>3. CASE i \notin 1..Len(s)
      <4>1. i - Len(s) \in 1..(j - 1) /\ i - Len(s) \in 1..Len(t) /\ (i - Len(s)) + Len(s) = i
        BY <1>1, <1>5, <3>3
      <4> QED BY <1>3, <4>1
    <3> QED BY <3>2, <3>3
  <2>2. V \subseteq U
    <3>1. \A i \in 1..Len(s) : i \in 1..(q - 1) /\ s[i] = (s \o t)[i]
      BY <1>1, <1>2, <1>5
    <3>2. \A i \in 1..(j - 1) : i + Len(s) \in 1..(q - 1) /\ t[i] = (s \o t)[i + Len(s)]
      BY <1>1, <1>3, <1>5
    <3> QED BY <1>1, <3>1, <3>2 DEF ToSet
  <2>3. Fits((P \cup ToSet(s)) \cup {t[i] : i \in 1..(j - 1)}, t[j])
    BY <1>1 DEF InOrder
  <2>4. (P \cup ToSet(s)) \cup {t[i] : i \in 1..(j - 1)} = P \cup U
    BY <2>1, <2>2
  <2> HIDE DEF U, V
  <2>5. (s \o t)[q] = t[j]
    BY <1>3, <1>5
  <2> QED BY <2>3, <2>4, <2>5 DEF U
<1>6. ASSUME NEW j \in DOMAIN (s \o t), j \notin 1..Len(s)
      PROVE  j - Len(s) \in 1..Len(t) /\ (j - Len(s)) + Len(s) = j
  BY <1>1, <1>6
<1>7. ASSUME NEW j \in DOMAIN (s \o t)
      PROVE  Fits(P \cup {(s \o t)[i] : i \in 1..(j - 1)}, (s \o t)[j])
  <2>1. CASE j \in 1..Len(s)
    BY <1>4, <2>1
  <2>2. CASE j \notin 1..Len(s)
    <3>1. PICK k \in 1..Len(t) : k + Len(s) = j
      BY <1>6, <2>2
    <3> QED BY <1>5, <3>1
  <2> QED BY <2>1, <2>2
<1> QED BY <1>7 DEF InOrder

(* A line that fits keeps the evidence exact.                              *)
LEMMA ExactStep ==
  ASSUME RInv, NEW c \in Evidence, NEW P, NEW r \in Told, NEW p \in {Host!NoProcess, Process},
         Exact(c, P), Fits(P, r)
  PROVE  Exact(Host!ConsumeLine(c, r, p), P \cup {r})
<1> DEFINE d == Host!ConsumeLine(c, r, p)
           Q == P \cup {r}
<1>1. CASE r \in Beginnings
  <2>1. PICK e \in Evals : r = BeginLine(e)
    BY <1>1 DEF Beginnings
  <2>2. d = Host!ConsumeBegin(c, BeginLine(e))
    BY <1>1, <2>1, OneLine
  <2>3. Host!Identity(r) = Ident(e) /\ Ident(e) \notin c.finished /\ BeginLine(e) \notin c.begun
    BY <1>1, <2>1, BeginFields DEF Fits, Exact
  <2>4. d = [c EXCEPT !.begun = c.begun \cup {r}]
    BY <2>1, <2>2, <2>3, Begins
  <2> HIDE DEF d
  <2>5. /\ d.begun = c.begun \cup {r} /\ d.finished = c.finished /\ d.evaluations = c.evaluations
        /\ d.clauses = c.clauses /\ d.integrity = c.integrity
    BY <2>4 DEF Evidence
  <2>6. r \notin Endings /\ r \notin Mentions
    BY <1>1, KindsApart
  <2>7. Q \cap Endings = P \cap Endings
    BY <2>6
  <2>8. \A x \in Clauses : ClauseLine(x) \in Q <=> ClauseLine(x) \in P
    BY <2>6 DEF Mentions
  <2>9. {x \in Clauses : ClauseLine(x) \in Q} = {x \in Clauses : ClauseLine(x) \in P}
    BY <2>8
  <2>10. d.begun = {x \in Q \cap Beginnings : Host!Identity(x) \notin d.finished}
    BY <1>1, <2>3, <2>5 DEF Exact
  <2> HIDE DEF Q
  <2>11. Exact(d, Q)
    BY <2>5, <2>7, <2>9, <2>10 DEF Exact
  <2> QED BY <2>11 DEF d, Q
<1>2. CASE r \in Endings
  <2>1. /\ r.id \in Evals /\ Host!Identity(r) = Ident(r.id)
    BY <1>2, EndFields DEF RInv
  <2>2. r.decision = Site[r.id] /\ Honest(r)
    BY <1>2, EndsAreTrue
  <2>3. Host!Identity(r) \notin c.finished
    BY <1>2 DEF Fits, Exact
  <2>4. BeginLine(r.id) \in c.begun <=> BeginLine(r.id) \in P
    BY <2>1, <2>3, BeginFields DEF Exact, Beginnings
  <2>5. \/ /\ d = Host!ConsumeTerminal(c, r)
           /\ BeginLine(r.id) \in c.begun /\ r.decision = Site[r.id]
        \/ d = Host!ConsumeEvaluation(c, r) /\ BeginLine(r.id) \notin c.begun
    BY <1>2, <2>2, <2>4, OneLine DEF Fits
  <2>6. Ends(c, r, d)
    BY <1>2, <2>3, <2>5, ClosesExactly DEF RInv
  <2>7. d \in Evidence
    BY LineType DEF RInv
  <2> HIDE DEF d
  <2>8. d.integrity = FALSE
    <3>1. d.integrity \in BOOLEAN
      BY <2>7 DEF Evidence
    <3> QED BY <2>2, <2>6, <3>1 DEF Ends, Exact
  <2>9. r \notin Beginnings /\ r \notin Mentions
    BY <1>2, KindsApart
  <2>10. Q \cap Beginnings = P \cap Beginnings /\ Q \cap Endings = (P \cap Endings) \cup {r}
    BY <1>2, <2>9
  <2>11. d.finished = {Host!Identity(x) : x \in Q \cap Endings}
    BY <2>6, <2>10 DEF Ends, Exact
  <2>12. ToSet(d.evaluations) = ToSet(c.evaluations) \cup {Host!EvaluationOf(r)}
    <3>1. c.evaluations \in Seq({Host!EvaluationOf(x) : x \in Endings})
      BY DEF Evidence
    <3>2. d.evaluations = Append(c.evaluations, Host!EvaluationOf(r))
      BY <2>6 DEF Ends
    <3> HIDE DEF Exact
    <3> QED BY <3>1, <3>2 DEF ToSet
  <2>13. ToSet(d.evaluations) = {Host!EvaluationOf(x) : x \in Q \cap Endings}
    BY <2>10, <2>12 DEF Exact
  <2>14. \A x \in Clauses : ClauseLine(x) \in Q <=> ClauseLine(x) \in P
    BY <2>9 DEF Mentions
  <2>15. d.clauses = {[process |-> Process, clause |-> k] :
                        k \in {x \in Clauses : ClauseLine(x) \in Q}}
    <3>1. {x \in Clauses : ClauseLine(x) \in Q} = {x \in Clauses : ClauseLine(x) \in P}
      BY <2>14
    <3> QED BY <2>6, <3>1 DEF Ends, Exact
  <2>16. d.begun = {x \in Q \cap Beginnings : Host!Identity(x) \notin d.finished}
    <3>1. \A x \in Beginnings : Host!Identity(x) = Host!Identity(r) <=> x = BeginLine(r.id)
      BY <2>1, BeginFields DEF Beginnings
    <3>2. d.begun = {x \in P \cap Beginnings : Host!Identity(x) \notin c.finished}
                     \ {BeginLine(r.id)}
      BY <2>6 DEF Ends, Exact
    <3>3. d.finished = c.finished \cup {Host!Identity(r)}
      BY <2>6 DEF Ends
    <3> QED BY <2>10, <3>1, <3>2, <3>3
  <2> HIDE DEF Q
  <2>17. Exact(d, Q)
    BY <2>8, <2>11, <2>13, <2>15, <2>16 DEF Exact
  <2> QED BY <2>17 DEF d, Q
<1>3. CASE r \in Mentions
  <2>1. PICK k \in Clauses : r = ClauseLine(k)
    BY <1>3 DEF Mentions
  <2>2. d = [c EXCEPT !.clauses = c.clauses \cup {[process |-> Process, clause |-> k]}]
    BY <2>1, OneLine
  <2> HIDE DEF d
  <2>3. /\ d.begun = c.begun /\ d.finished = c.finished /\ d.evaluations = c.evaluations
        /\ d.clauses = c.clauses \cup {[process |-> Process, clause |-> k]}
        /\ d.integrity = c.integrity
    BY <2>2 DEF Evidence
  <2>4. r \notin Beginnings /\ r \notin Endings
    BY <1>3, KindsApart
  <2>5. Q \cap Beginnings = P \cap Beginnings /\ Q \cap Endings = P \cap Endings
    BY <2>4
  <2>6. \A x \in Clauses : ClauseLine(x) \in Q <=> ClauseLine(x) \in P \/ x = k
    BY <2>1 DEF ClauseLine
  <2>7. {x \in Clauses : ClauseLine(x) \in Q} = {x \in Clauses : ClauseLine(x) \in P} \cup {k}
    BY <2>6
  <2>8. d.clauses = {[process |-> Process, clause |-> x] :
                       x \in {y \in Clauses : ClauseLine(y) \in Q}}
    BY <2>3, <2>7 DEF Exact
  <2> HIDE DEF Q
  <2>9. Exact(d, Q)
    BY <2>3, <2>5, <2>8 DEF Exact
  <2> QED BY <2>9 DEF d, Q
<1> QED BY <1>1, <1>2, <1>3 DEF Fits
-----------------------------------------------------------------------------
(***************************************************************************)
(* The journal of a process that reported nothing is in order.             *)
(***************************************************************************)
SnapshotEnds == {EndLine("evaluation", v) : v \in base.evaluations}
SnapshotBegins == {BeginLine(e) : e \in base.begins}
SnapshotClauses == {ClauseLine(k) : k \in base.clauses}
LogLinesSeq == [i \in DOMAIN log |-> LineOf(log[i])]

(* The lines of the journal and where they come from.                      *)
LEMMA JournalTold ==
  ASSUME RInv
  PROVE  /\ SetToSeq(SnapshotEnds) \in Seq(Told) /\ ToSet(SetToSeq(SnapshotEnds)) = SnapshotEnds
         /\ SetToSeq(SnapshotBegins) \in Seq(Told)
         /\ ToSet(SetToSeq(SnapshotBegins)) = SnapshotBegins
         /\ SetToSeq(SnapshotClauses) \in Seq(Told)
         /\ ToSet(SetToSeq(SnapshotClauses)) = SnapshotClauses
         /\ LogLinesSeq \in Seq(Told)
         /\ SnapshotEnds \subseteq Endings /\ SnapshotBegins \subseteq Beginnings
         /\ SnapshotClauses \subseteq Mentions
         /\ JournalLines \in Seq(Told)
         /\ ToSet(JournalLines)
              = ((SnapshotEnds \cup SnapshotBegins) \cup SnapshotClauses) \cup ToSet(LogLinesSeq)
<1>1. /\ base.begins \subseteq Evals /\ base.clauses \subseteq Clauses /\ log \in Seq(Record)
  BY DEF RInv, IInv, TypeOK, ValuesOK
<1>2. SnapshotEnds \subseteq Endings /\ SnapshotBegins \subseteq Beginnings
      /\ SnapshotClauses \subseteq Mentions
  BY <1>1 DEF SnapshotEnds, Endings, Recorded, SnapshotBegins, Beginnings, SnapshotClauses, Mentions
<1>3. SnapshotEnds \subseteq Told /\ SnapshotBegins \subseteq Told /\ SnapshotClauses \subseteq Told
  BY <1>2 DEF Told
<1>4. IsFiniteSet(SnapshotEnds) /\ IsFiniteSet(SnapshotBegins) /\ IsFiniteSet(SnapshotClauses)
  BY SnapshotLinesFinite DEF SnapshotEnds, SnapshotBegins, SnapshotClauses
<1>5. /\ SetToSeq(SnapshotEnds) \in Seq(SnapshotEnds)
      /\ ToSet(SetToSeq(SnapshotEnds)) = SnapshotEnds
      /\ SetToSeq(SnapshotBegins) \in Seq(SnapshotBegins)
      /\ ToSet(SetToSeq(SnapshotBegins)) = SnapshotBegins
      /\ SetToSeq(SnapshotClauses) \in Seq(SnapshotClauses)
      /\ ToSet(SetToSeq(SnapshotClauses)) = SnapshotClauses
  BY <1>4, SetToSeqIs
<1>6. /\ SetToSeq(SnapshotEnds) \in Seq(Told) /\ SetToSeq(SnapshotBegins) \in Seq(Told)
      /\ SetToSeq(SnapshotClauses) \in Seq(Told)
  BY <1>3, <1>5
<1>7. LogLinesSeq \in Seq(Told)
  <2>1. DOMAIN log = 1..Len(log) /\ Len(log) \in Nat
    BY <1>1
  <2>2. \A i \in DOMAIN log : LineOf(log[i]) \in Told
    BY LogLines DEF RInv
  <2> QED BY <2>1, <2>2 DEF LogLinesSeq
<1> DEFINE s1 == SetToSeq(SnapshotEnds)
           s2 == SetToSeq(SnapshotBegins)
           s3 == SetToSeq(SnapshotClauses)
<1>8. JournalLines = ((s1 \o s2) \o s3) \o LogLinesSeq
  BY DEF JournalLines, SnapshotLines, SnapshotEnds, SnapshotBegins, SnapshotClauses, LogLinesSeq
<1> HIDE DEF s1, s2, s3
<1>9. s1 \in Seq(Told) /\ s2 \in Seq(Told) /\ s3 \in Seq(Told)
  BY <1>6 DEF s1, s2, s3
<1>10. s1 \o s2 \in Seq(Told) /\ ToSet(s1 \o s2) = ToSet(s1) \cup ToSet(s2)
  BY <1>9, ToSetConcat
<1> DEFINE s12 == s1 \o s2
           s123 == s12 \o s3
<1>11. s123 \in Seq(Told) /\ ToSet(s123) = ToSet(s12) \cup ToSet(s3)
  <2> HIDE DEF s12
  <2>1. s12 \in Seq(Told)
    BY <1>10 DEF s12
  <2> QED BY <1>9, <2>1, ToSetConcat
<1>12. s123 \o LogLinesSeq \in Seq(Told)
       /\ ToSet(s123 \o LogLinesSeq) = ToSet(s123) \cup ToSet(LogLinesSeq)
  <2> HIDE DEF s123
  <2> QED BY <1>7, <1>11, ToSetConcat
<1>13. ToSet(s1) = SnapshotEnds /\ ToSet(s2) = SnapshotBegins /\ ToSet(s3) = SnapshotClauses
  BY <1>5 DEF s1, s2, s3
<1> QED BY <1>2, <1>5, <1>6, <1>7, <1>8, <1>10, <1>11, <1>12, <1>13

(* The snapshot has each evaluation once.                                  *)
LEMMA EndsInOrder == ASSUME RInv PROVE InOrder({}, SetToSeq(SnapshotEnds))
<1> DEFINE s == SetToSeq(SnapshotEnds)
<1>1. /\ s \in Seq(Told) /\ ToSet(s) = SnapshotEnds
      /\ \A i, j \in DOMAIN s : s[i] = s[j] => i = j
  <2>1. IsFiniteSet(SnapshotEnds)
    BY SnapshotLinesFinite DEF SnapshotEnds
  <2> QED BY <2>1, JournalTold, SetToSeqIs
<1> HIDE DEF s
<1>2. ASSUME NEW j \in DOMAIN s PROVE Fits({} \cup {s[i] : i \in 1..(j - 1)}, s[j])
  <2>1. \A i \in 1..(j - 1) : i \in DOMAIN s /\ i # j
    BY <1>1
  <2>2. \A i \in DOMAIN s : s[i] \in SnapshotEnds
    BY <1>1 DEF ToSet
  <2>3. PICK v \in base.evaluations : s[j] = EndLine("evaluation", v)
    BY <2>2 DEF SnapshotEnds
  <2>4. ASSUME NEW i \in 1..(j - 1) PROVE Host!Identity(s[i]) # Host!Identity(s[j])
    <3>1. s[i] # s[j]
      BY <1>1, <2>1
    <3>2. PICK w \in base.evaluations : s[i] = EndLine("evaluation", w)
      BY <2>1, <2>2 DEF SnapshotEnds
    <3>3. w.id # v.id
      <4>1. v \in evaluations /\ w \in evaluations /\ w # v
        BY <2>3, <3>1, <3>2 DEF RInv, IInv, CoreInv, SnapshotInv
      <4>2. v.data = event[v.id] /\ w.data = event[w.id] /\ (v.data = w.data => v = w)
        BY <4>1 DEF RInv, IInv, CoreInv, SnapshotInv
      <4> QED BY <4>1, <4>2
    <3>4. Host!Identity(s[i]) = Ident(w.id) /\ Host!Identity(s[j]) = Ident(v.id)
      BY <2>3, <3>2 DEF Host!Identity, EndLine, Ident
    <3> QED BY <3>3, <3>4 DEF Ident
  <2>5. s[j] \in Endings /\ s[j].type = "evaluation"
    BY <2>2, <2>3, JournalTold DEF EndLine
  <2>6. BeginLine(s[j].id) \notin {s[i] : i \in 1..(j - 1)}
    <3>1. \A i \in 1..(j - 1) : s[i].type = "evaluation"
      BY <2>1, <2>2 DEF SnapshotEnds, EndLine
    <3> QED BY <3>1 DEF BeginLine
  <2>7. s[j] \notin Beginnings
    BY <2>5, KindsApart
  <2> QED BY <2>4, <2>5, <2>6, <2>7 DEF Fits
<1> QED BY <1>2 DEF InOrder, s

(* It has no begin of an evaluation that it has.                           *)
LEMMA BeginsInOrder == ASSUME RInv PROVE InOrder(SnapshotEnds, SetToSeq(SnapshotBegins))
<1> DEFINE s == SetToSeq(SnapshotBegins)
<1>1. /\ s \in Seq(Told) /\ ToSet(s) = SnapshotBegins
      /\ \A i, j \in DOMAIN s : s[i] = s[j] => i = j
  <2>1. IsFiniteSet(SnapshotBegins)
    BY SnapshotLinesFinite DEF SnapshotBegins
  <2> QED BY <2>1, JournalTold, SetToSeqIs
<1> HIDE DEF s
<1>2. ASSUME NEW j \in DOMAIN s PROVE Fits(SnapshotEnds \cup {s[i] : i \in 1..(j - 1)}, s[j])
  <2>1. \A i \in 1..(j - 1) : i \in DOMAIN s /\ i # j
    BY <1>1
  <2>2. \A i \in DOMAIN s : s[i] \in SnapshotBegins /\ s[i] \in Beginnings
    BY <1>1, JournalTold DEF ToSet
  <2>3. PICK e \in base.begins : s[j] = BeginLine(e)
    BY <2>2 DEF SnapshotBegins
  <2>4. s[j] \in Beginnings /\ s[j] \notin Endings
    BY <2>2, KindsApart
  <2>5. s[j] \notin {s[i] : i \in 1..(j - 1)}
    BY <1>1, <2>1
  <2>6. s[j] \notin SnapshotEnds
    BY <2>4, JournalTold
  <2>7. ASSUME NEW q \in SnapshotEnds PROVE Host!Identity(q) # Host!Identity(s[j])
    <3>1. PICK v \in base.evaluations : q = EndLine("evaluation", v)
      BY DEF SnapshotEnds
    <3>2. v.id # e
      BY <2>3 DEF RInv, IInv, CoreInv, NoDuplicates
    <3>3. Host!Identity(q) = Ident(v.id) /\ Host!Identity(s[j]) = Ident(e)
      BY <2>3, <3>1 DEF Host!Identity, EndLine, BeginLine, Ident
    <3> QED BY <3>2, <3>3 DEF Ident
  <2>8. \A q \in {s[i] : i \in 1..(j - 1)} : q \notin Endings
    BY <2>1, <2>2, KindsApart
  <2> QED BY <2>4, <2>5, <2>6, <2>7, <2>8 DEF Fits
<1> QED BY <1>2 DEF InOrder, s

(* Clauses go anywhere.                                                    *)
LEMMA ClausesInOrder ==
  ASSUME RInv, NEW P PROVE InOrder(P, SetToSeq(SnapshotClauses))
<1> DEFINE s == SetToSeq(SnapshotClauses)
<1>1. s \in Seq(Told) /\ ToSet(s) = SnapshotClauses
  BY JournalTold
<1> HIDE DEF s
<1>2. ASSUME NEW j \in DOMAIN s PROVE s[j] \in Mentions /\ s[j] \notin Beginnings \cup Endings
  BY <1>1, JournalTold, KindsApart DEF ToSet
<1> QED BY <1>2 DEF InOrder, Fits, s

(* In the tail a begin comes before its end and nothing comes twice.       *)
LEMMA LogInOrder ==
  ASSUME RInv, diagSeen = {}
  PROVE  InOrder((SnapshotEnds \cup SnapshotBegins) \cup SnapshotClauses, LogLinesSeq)
<1> DEFINE s == LogLinesSeq
           P == (SnapshotEnds \cup SnapshotBegins) \cup SnapshotClauses
<1>1. /\ log \in Seq(Record) /\ DOMAIN s = DOMAIN log /\ DOMAIN log = 1..Len(log)
      /\ \A i \in DOMAIN log : s[i] = LineOf(log[i])
  BY DEF LogLinesSeq, RInv, IInv, TypeOK, ValuesOK
<1>2. Whole /\ NoDuplicates /\ IInv
  BY DEF RInv, WholeInv, IInv, CoreInv
<1> HIDE DEF s
<1>3. ASSUME NEW q \in P, q \in Endings
      PROVE  \E v \in base.evaluations : q = EndLine("evaluation", v)
  <2>1. q \in SnapshotEnds
    BY <1>3, JournalTold, KindsApart
  <2> QED BY <2>1 DEF SnapshotEnds
<1>4. ASSUME NEW q \in P, q \in Beginnings
      PROVE  \E e \in base.begins : q = BeginLine(e)
  <2>1. q \in SnapshotBegins
    BY <1>4, JournalTold, KindsApart
  <2> QED BY <2>1 DEF SnapshotBegins
<1>5. ASSUME NEW j \in DOMAIN log, NEW i \in 1..(j - 1)
      PROVE  i \in DOMAIN log /\ i < j
  BY <1>1
<1>6. ASSUME NEW i \in DOMAIN log, s[i] \in Endings
      PROVE  log[i].type = "terminal" /\ Host!Identity(s[i]) = Ident(log[i].id)
  <2>1. log[i].type = "terminal"
    BY <1>1, <1>2, <1>6, LogLines, KindsApart DEF Beginnings, Mentions, Broken
  <2> QED BY <1>1, <1>2, <2>1, LogLines DEF EndLine, Host!Identity, Ident
<1>7. ASSUME NEW i \in DOMAIN log, s[i] \in Beginnings
      PROVE  log[i].type = "begin" /\ s[i] = BeginLine(log[i].id) /\ log[i].id \in Evals
  <2>1. log[i].type = "begin"
    BY <1>1, <1>2, <1>7, LogLines, KindsApart DEF Mentions, Broken
  <2> QED BY <1>1, <1>2, <2>1, LogLines
<1>8. ASSUME NEW j \in DOMAIN log
      PROVE  Fits(P \cup {s[i] : i \in 1..(j - 1)}, s[j])
  <2> DEFINE before == {s[i] : i \in 1..(j - 1)}
  <2>1. CASE log[j].type = "clause"
    <3>1. s[j] \in Mentions
      BY <1>1, <1>2, <2>1, LogLines DEF Mentions
    <3> QED BY <3>1, KindsApart DEF Fits
  <2>2. CASE log[j].type = "begin"
    <3>1. s[j] = BeginLine(log[j].id) /\ log[j].id \in Evals
      BY <1>1, <1>2, <2>2, LogLines
    <3>2. s[j] \in Beginnings /\ s[j] \notin Endings /\ Host!Identity(s[j]) = Ident(log[j].id)
      BY <3>1, KindsApart, BeginFields DEF Beginnings
    <3>3. ASSUME NEW q \in P, q \in Endings PROVE Host!Identity(q) # Host!Identity(s[j])
      <4>1. PICK v \in base.evaluations : q = EndLine("evaluation", v)
        BY <1>3, <3>3
      <4>2. v.id # log[j].id
        BY <1>2, <2>2 DEF NoDuplicates, Lines
      <4>3. Host!Identity(q) = Ident(v.id)
        BY <4>1 DEF Host!Identity, EndLine, Ident
      <4> QED BY <3>2, <4>2, <4>3 DEF Ident
    <3>4. ASSUME NEW i \in 1..(j - 1), s[i] \in Endings
          PROVE  Host!Identity(s[i]) # Host!Identity(s[j])
      <4>1. log[i].type = "terminal" /\ Host!Identity(s[i]) = Ident(log[i].id)
        BY <1>5, <1>6, <3>4
      <4>2. log[i].id # log[j].id
        BY <1>2, <1>5, <2>2, <4>1 DEF NoDuplicates
      <4> QED BY <3>2, <4>1, <4>2 DEF Ident
    <3>5. s[j] \notin P
      <4>1. log[j].id \notin base.begins
        BY <1>2, <2>2 DEF NoDuplicates, Lines
      <4>2. \A e \in base.begins : e \in Evals
        BY <1>2 DEF IInv, TypeOK, ValuesOK
      <4>3. \A e \in base.begins : BeginLine(e) # s[j]
        BY <3>1, <4>1, <4>2, BeginFields
      <4> QED BY <1>4, <3>2, <4>3
    <3>6. ASSUME NEW i \in 1..(j - 1) PROVE s[i] # s[j]
      <4>1. SUFFICES ASSUME s[i] = s[j] PROVE FALSE
        OBVIOUS
      <4>2. log[i].type = "begin" /\ s[i] = BeginLine(log[i].id) /\ log[i].id \in Evals
        BY <1>5, <1>7, <3>2, <4>1
      <4>3. BeginLine(log[i].id) = BeginLine(log[j].id) /\ log[j].id \in Evals
        BY <3>1, <4>1, <4>2
      <4>4. log[i].id = log[j].id
        BY <4>2, <4>3, BeginFields
      <4> QED BY <1>2, <1>5, <2>2, <4>2, <4>4 DEF NoDuplicates
    <3> QED BY <3>2, <3>3, <3>4, <3>5, <3>6 DEF Fits
  <2>3. CASE log[j].type = "terminal"
    <3>1. /\ s[j] = EndLine("terminal", log[j]) /\ log[j].id \in Evals /\ s[j] \in Endings
          /\ s[j] \notin Beginnings
      BY <1>1, <1>2, <2>3, LogLines, KindsApart
    <3>2. s[j].type = "terminal" /\ s[j].id = log[j].id /\ Host!Identity(s[j]) = Ident(log[j].id)
      BY <3>1 DEF EndLine, Host!Identity, Ident
    <3>3. ASSUME NEW q \in P, q \in Endings PROVE Host!Identity(q) # Host!Identity(s[j])
      <4>1. PICK v \in base.evaluations : q = EndLine("evaluation", v)
        BY <1>3, <3>3
      <4>2. v.id # log[j].id
        BY <1>2, <2>3 DEF NoDuplicates, Lines
      <4>3. Host!Identity(q) = Ident(v.id)
        BY <4>1 DEF Host!Identity, EndLine, Ident
      <4> QED BY <3>2, <4>2, <4>3 DEF Ident
    <3>4. ASSUME NEW i \in 1..(j - 1), s[i] \in Endings
          PROVE  Host!Identity(s[i]) # Host!Identity(s[j])
      <4>1. log[i].type = "terminal" /\ Host!Identity(s[i]) = Ident(log[i].id)
        BY <1>5, <1>6, <3>4
      <4>2. log[i].id # log[j].id
        BY <1>2, <1>5, <2>3, <4>1 DEF NoDuplicates
      <4> QED BY <3>2, <4>1, <4>2 DEF Ident
    <3>5. BeginLine(log[j].id) \in P \cup before
      <4>1. CASE log[j].id \in base.begins
        BY <4>1 DEF SnapshotBegins
      <4>2. CASE \E i \in 1..(j - 1) : log[i] = [type |-> "begin", id |-> log[j].id]
        <5>1. PICK i \in 1..(j - 1) : log[i] = [type |-> "begin", id |-> log[j].id]
          BY <4>2
        <5>2. log[i].type = "begin" /\ log[i].id = log[j].id
          BY <5>1
        <5>3. s[i] = BeginLine(log[j].id)
          BY <1>1, <1>2, <1>5, <5>2, LogLines
        <5> QED BY <5>3
      <4> QED BY <1>2, <2>3, <4>1, <4>2 DEF Whole
    <3> HIDE DEF P
    <3> QED BY <3>1, <3>2, <3>3, <3>4, <3>5 DEF Fits
  <2>4. log[j].type # "garbled"
    BY <1>2 DEF Whole
  <2> QED BY <1>2, <2>1, <2>2, <2>3, <2>4, LogLines
<1> QED BY <1>1, <1>8 DEF InOrder, s

(* All of the journal.                                                     *)
LEMMA JournalInOrder == ASSUME RInv, diagSeen = {} PROVE InOrder({}, JournalLines)
<1> DEFINE s1 == SetToSeq(SnapshotEnds)
           s2 == SetToSeq(SnapshotBegins)
           s3 == SetToSeq(SnapshotClauses)
<1>1. JournalLines = ((s1 \o s2) \o s3) \o LogLinesSeq
  BY DEF JournalLines, SnapshotLines, SnapshotEnds, SnapshotBegins, SnapshotClauses, LogLinesSeq
<1>2. /\ InOrder({}, s1) /\ InOrder(SnapshotEnds, s2)
      /\ InOrder(SnapshotEnds \cup SnapshotBegins, s3)
      /\ InOrder((SnapshotEnds \cup SnapshotBegins) \cup SnapshotClauses, LogLinesSeq)
  BY EndsInOrder, BeginsInOrder, ClausesInOrder, LogInOrder
<1>3. /\ s1 \in Seq(Told) /\ s2 \in Seq(Told) /\ s3 \in Seq(Told) /\ LogLinesSeq \in Seq(Told)
      /\ ToSet(s1) = SnapshotEnds /\ ToSet(s2) = SnapshotBegins /\ ToSet(s3) = SnapshotClauses
  BY JournalTold
<1> HIDE DEF s1, s2, s3
<1>4. s1 \o s2 \in Seq(Told) /\ ToSet(s1 \o s2) = SnapshotEnds \cup SnapshotBegins
  BY <1>3, ToSetConcat
<1> DEFINE s12 == s1 \o s2
           s123 == s12 \o s3
<1>5. /\ s123 \in Seq(Told)
      /\ ToSet(s123) = (SnapshotEnds \cup SnapshotBegins) \cup SnapshotClauses
  <2> HIDE DEF s12
  <2>1. s12 \in Seq(Told) /\ ToSet(s12) = SnapshotEnds \cup SnapshotBegins
    BY <1>4 DEF s12
  <2> QED BY <1>3, <2>1, ToSetConcat
<1>6. \A S : {} \cup S = S
  OBVIOUS
<1>7. InOrder({}, s12)
  <2>1. InOrder({} \cup ToSet(s1), s2)
    BY <1>2, <1>3, <1>6
  <2> QED BY <1>2, <1>3, <2>1, OrderConcat
<1>8. InOrder({}, s123)
  <2>1. s12 \in Seq(Told) /\ ToSet(s12) = SnapshotEnds \cup SnapshotBegins
    BY <1>4
  <2> HIDE DEF s12
  <2>2. InOrder({} \cup ToSet(s12), s3)
    BY <1>2, <1>6, <2>1
  <2> QED BY <1>3, <1>7, <2>1, <2>2, OrderConcat
<1>9. InOrder({}, s123 \o LogLinesSeq)
  <2> HIDE DEF s123
  <2>1. InOrder({} \cup ToSet(s123), LogLinesSeq)
    BY <1>2, <1>5, <1>6
  <2> QED BY <1>3, <1>5, <1>8, <2>1, OrderConcat
<1> QED BY <1>1, <1>9
-----------------------------------------------------------------------------
(***************************************************************************)
(* What is collected of the whole directory.                               *)
(***************************************************************************)
ArtifactFile == [kind |-> "artifact", torn |-> FALSE, lines |-> <<>>]
JournalFile == [kind |-> "journal", torn |-> torn, lines |-> JournalLines]
ReportFile == [kind |-> "journal", torn |-> FALSE, lines |-> ReportLines]
Files == {ArtifactFile, JournalFile, ReportFile}
Directory == (Artifacts \o Journals) \o Reports

(* The journal of a process that reported nothing is read without damage   *)
(* and without loss.                                                       *)
LEMMA JournalIsExact ==
  ASSUME RInv, diagSeen = {}, NEW c \in Evidence, Exact(c, {})
  PROVE  Exact(Host!CollectFile(c, JournalFile), ToSet(JournalLines))
<1> DEFINE n == Len(JournalLines)
           upTo(i) == {JournalLines[k] : k \in 1..i}
<1>1. JournalLines \in Seq(Told) /\ InOrder({}, JournalLines) /\ IInv
  BY JournalTold, JournalInOrder DEF RInv
<1>2. /\ n \in Nat /\ DOMAIN JournalLines = 1..n
      /\ \A i \in 1..n : JournalLines[i] \in Told /\ Fits(upTo(i - 1), JournalLines[i])
  <2>1. \A i \in 1..n : Fits({} \cup upTo(i - 1), JournalLines[i])
    BY <1>1 DEF InOrder
  <2>2. \A i : {} \cup upTo(i) = upTo(i)
    OBVIOUS
  <2> HIDE DEF upTo
  <2> QED BY <1>1, <2>1, <2>2
<1>3. JournalFile.kind = "journal" /\ JournalFile.lines = JournalLines
  BY DEF JournalFile
<1>4. PICK G : /\ Reading(c, JournalLines, G)
               /\ Host!CollectFile(c, JournalFile) = Host!FileEnd(G[n].c, JournalFile)
  BY <1>1, <1>3, FileIsRead
<1> DEFINE P(i) == Exact(G[i].c, upTo(i))
           T == {i \in Nat : i <= n => P(i)}
<1>5. P(0)
  <2>1. upTo(0) = {}
    OBVIOUS
  <2>2. G[0].c = c
    BY <1>4 DEF Reading, Unread
  <2> QED BY <2>1, <2>2
<1>6. ASSUME NEW i \in Nat, i + 1 <= n, P(i) PROVE P(i + 1)
  <2>1. i + 1 \in 1..n /\ (i + 1) - 1 = i /\ i \in 0..n
    BY <1>2, <1>6
  <2>2. G[i + 1] = LineStep(G[i], JournalLines[i + 1])
    BY <1>4, <2>1 DEF Reading
  <2>3. G[i].c \in Evidence /\ G[i].process \in {Host!NoProcess, Process}
    BY <1>4, <2>1 DEF Reading
  <2>4. JournalLines[i + 1] \in Told /\ Fits(upTo(i), JournalLines[i + 1])
    <3> HIDE DEF upTo
    <3> QED BY <1>2, <2>1
  <2>5. upTo(i) \cup {JournalLines[i + 1]} = upTo(i + 1)
    <3>1. 1..(i + 1) = (1..i) \cup {i + 1}
      BY <1>6
    <3> QED BY <3>1
  <2>6. G[i + 1].c = Host!ConsumeLine(G[i].c, JournalLines[i + 1], G[i].process)
    BY <2>2 DEF LineStep
  <2> HIDE DEF upTo
  <2>7. Exact(Host!ConsumeLine(G[i].c, JournalLines[i + 1], G[i].process),
              upTo(i) \cup {JournalLines[i + 1]})
    BY <1>6, <2>3, <2>4, ExactStep
  <2> QED BY <2>5, <2>6, <2>7
<1>7. T \in SUBSET Nat /\ 0 \in T /\ \A i \in T : i + 1 \in T
  <2> HIDE DEF P
  <2> QED BY <1>2, <1>5, <1>6
<1>8. P(n)
  <2>1. T = Nat
    <3> HIDE DEF T
    <3> QED BY <1>7, SetInduction
  <2> HIDE DEF P
  <2> QED BY <1>2, <2>1
<1>9. upTo(n) = ToSet(JournalLines)
  BY <1>2 DEF ToSet
<1>10. G[n].c \in Evidence
  BY <1>2, <1>4 DEF Reading
<1> DEFINE k == G[n].c
<1>11. Exact(k, ToSet(JournalLines)) /\ k \in Evidence
  BY <1>8, <1>9, <1>10
<1> HIDE DEF k
<1>12. /\ Host!FileEnd(k, JournalFile).integrity = k.integrity
       /\ Host!FileEnd(k, JournalFile).begun = k.begun
       /\ Host!FileEnd(k, JournalFile).finished = k.finished
       /\ Host!FileEnd(k, JournalFile).evaluations = k.evaluations
       /\ Host!FileEnd(k, JournalFile).clauses = k.clauses
  BY <1>11, EndIsMark
<1>13. Exact(Host!FileEnd(k, JournalFile), ToSet(JournalLines))
  BY <1>11, <1>12 DEF Exact
<1> QED BY <1>4, <1>13 DEF k

(* The files of the directory.                                             *)
LEMMA DirectoryType ==
  ASSUME RInv
  PROVE  /\ Artifacts \in Seq(Files) /\ Journals \in Seq(Files) /\ Reports \in Seq(Files)
         /\ Artifacts = <<>> \/ Artifacts = <<ArtifactFile>>
         /\ Journals = IF writer THEN <<JournalFile>> ELSE <<>>
         /\ Reports = IF diagFile THEN <<ReportFile>> ELSE <<>>
         /\ ReportLines \in Seq(Reported) /\ (persisted # {} => ReportLines # <<>>)
         /\ \A f \in Files : \/ f.kind = "artifact"
                             \/ f.kind = "journal" /\ f.lines \in Seq(Told)
<1>1. Artifacts = <<>> \/ Artifacts = <<ArtifactFile>>
  BY DEF Artifacts, ArtifactFile
<1>2. Journals = IF writer THEN <<JournalFile>> ELSE <<>>
  BY DEF Journals, JournalFile, JournalLines
<1>3. Reports = IF diagFile THEN <<ReportFile>> ELSE <<>>
  BY DEF Reports, ReportFile, ReportLines, Reported
<1>4. IsFiniteSet(Reported)
  <2> DEFINE line(m) == [type |-> "diagnostic", process |-> Process, message |-> m]
             f == [m \in persisted |-> line(m)]
  <2>1. f \in [persisted -> Reported] /\ \A y \in Reported : \E m \in persisted : f[m] = y
    BY DEF Reported
  <2>2. IsFiniteSet(persisted)
    BY DEF RInv, ReportInv
  <2> HIDE DEF f
  <2> QED BY <2>1, <2>2, ImageFinite
<1>5. ReportLines \in Seq(Reported) /\ ToSet(ReportLines) = Reported
  BY <1>4, SetToSeqIs DEF ReportLines
<1>6. persisted # {} => ReportLines # <<>>
  <2>1. SUFFICES ASSUME persisted # {}, ReportLines = <<>> PROVE FALSE
    OBVIOUS
  <2>2. Reported # {}
    BY <2>1 DEF Reported
  <2>3. ToSet(<<>>) = {}
    BY DEF ToSet
  <2> QED BY <1>5, <2>1, <2>2, <2>3
<1>7. ReportLines \in Seq(Told)
  BY <1>5 DEF Told
<1>8. \A f \in Files : \/ f.kind = "artifact"
                       \/ f.kind = "journal" /\ f.lines \in Seq(Told)
  BY <1>7, JournalTold DEF Files, ArtifactFile, JournalFile, ReportFile
<1>9. Artifacts \in Seq(Files) /\ Journals \in Seq(Files) /\ Reports \in Seq(Files)
  <2>1. \A f \in Files : <<f>> \in Seq(Files)
    OBVIOUS
  <2>2. <<>> \in Seq(Files)
    OBVIOUS
  <2> QED BY <1>1, <1>2, <1>3, <2>1, <2>2 DEF Files
<1> QED BY <1>1, <1>2, <1>3, <1>5, <1>6, <1>8, <1>9

(* Without a writer there is no line.                                      *)
LEMMA NoFileNoLines == ASSUME RInv, writer = FALSE PROVE ToSet(JournalLines) = {}
<1>1. /\ log = <<>> /\ base.evaluations = {} /\ base.begins = {} /\ base.clauses = {}
  BY DEF RInv, EmptyInv
<1>2. SnapshotEnds = {} /\ SnapshotBegins = {} /\ SnapshotClauses = {}
  BY <1>1 DEF SnapshotEnds, SnapshotBegins, SnapshotClauses
<1>3. ToSet(LogLinesSeq) = {}
  BY <1>1 DEF LogLinesSeq, ToSet
<1> QED BY <1>2, <1>3, JournalTold

(***************************************************************************)
(* What CollectDetailed returns of a process that has stopped: evidence    *)
(* with its open evaluations aborted.  The recorder's own reports are      *)
(* damage to it, and without any it is exact.                              *)
(***************************************************************************)
IsCollected(c) ==
  /\ c \in Evidence
  /\ Collected.integrity = c.integrity /\ Collected.skipped = c.skipped
  /\ Collected.clauses = c.clauses
  /\ ToSet(Collected.evaluations)
       = ToSet(c.evaluations) \cup {Host!AbortedOf(b) : b \in c.begun}
  /\ persisted # {} => c.integrity
  /\ faults = 0 => Exact(c, ToSet(JournalLines))

(* There is such evidence, whatever the state in which the process stopped.*)
LEMMA Recovered == ASSUME RInv PROVE \E c : IsCollected(c)
<1> DEFINE n == Len(Directory)
<1>1. Directory \in Seq(Files) /\ n \in Nat /\ DOMAIN Directory = 1..n
      /\ \A i \in 1..n : Directory[i] \in Files
  <2>1. Directory \in Seq(Files)
    BY DirectoryType DEF Directory
  <2> QED BY <2>1
<1>2. PICK F : ByFiles(n, Directory, F)
  <2> HIDE DEF n
  <2> QED BY <1>1, ReadsFiles
<1> DEFINE P(i) == F[i] \in Evidence
           T == {i \in Nat : i <= n => P(i)}
<1>3. F[0] = Host!Empty /\ \A i \in 1..n : F[i] = Host!CollectFile(F[i - 1], Directory[i])
  BY <1>2 DEF ByFiles
<1>4. P(0)
  BY <1>3, Marks
<1>5. ASSUME NEW i \in Nat, i + 1 <= n, P(i) PROVE P(i + 1)
  <2>1. i + 1 \in 1..n /\ (i + 1) - 1 = i
    BY <1>1, <1>5
  <2>2. F[i + 1] = Host!CollectFile(F[i], Directory[i + 1]) /\ Directory[i + 1] \in Files
    BY <1>1, <1>3, <2>1
  <2> QED BY <1>5, <2>2, FileType, DirectoryType DEF RInv
<1>6. T \in SUBSET Nat /\ 0 \in T /\ \A i \in T : i + 1 \in T
  <2> HIDE DEF P
  <2> QED BY <1>1, <1>4, <1>5
<1>7. ASSUME NEW i \in Nat, i <= n PROVE F[i] \in Evidence
  <2>1. T = Nat
    <3> HIDE DEF T
    <3> QED BY <1>6, SetInduction
  <2> QED BY <1>7, <2>1
<1>8. ASSUME persisted # {} PROVE F[n].integrity
  <2> DEFINE s == Artifacts \o Journals
  <2>1. s \in Seq(Files) /\ Directory = s \o <<ReportFile>>
    <3>1. diagFile = TRUE
      BY <1>8 DEF RInv, ReportInv
    <3>2. Reports = <<ReportFile>>
      BY <3>1, DirectoryType
    <3>3. Artifacts \in Seq(Files) /\ Journals \in Seq(Files)
      BY DirectoryType
    <3> QED BY <3>2, <3>3 DEF Directory
  <2> HIDE DEF s
  <2>2. n = Len(s) + 1 /\ Directory[n] = ReportFile /\ n \in 1..n /\ n - 1 \in Nat /\ n - 1 <= n
    BY <2>1
  <2>3. F[n] = Host!CollectFile(F[n - 1], ReportFile) /\ F[n - 1] \in Evidence
    BY <1>3, <1>7, <2>2
  <2>4. /\ ReportFile.kind = "journal" /\ ReportFile.lines = ReportLines
        /\ ReportFile.lines \in Seq(Told)
    BY DirectoryType DEF ReportFile, Files
  <2> QED BY <1>8, <2>3, <2>4, DirectoryType, FileType DEF RInv
<1>9. ASSUME faults = 0 PROVE Exact(F[n], ToSet(JournalLines))
  <2>1. diagFile = FALSE /\ diagSeen = {}
    BY <1>9 DEF RInv, ReportInv
  <2>2. Reports = <<>>
    BY <2>1, DirectoryType
  <2>3. Directory = Artifacts \o Journals
    BY <2>2, DirectoryType DEF Directory
  <2>4. Exact(Host!Empty, {})
    BY DEF Exact, Host!Empty, ToSet
  <2>5. ASSUME NEW c \in Evidence, Exact(c, {})
        PROVE  /\ Host!CollectFile(c, ArtifactFile) \in Evidence
               /\ Exact(Host!CollectFile(c, ArtifactFile), {})
    <3>1. Host!CollectFile(c, ArtifactFile) = Host!Interruption(c)
      BY DEF Host!CollectFile, ArtifactFile
    <3>2. /\ Host!Interruption(c).integrity = c.integrity
          /\ Host!Interruption(c).begun = c.begun
          /\ Host!Interruption(c).finished = c.finished
          /\ Host!Interruption(c).evaluations = c.evaluations
          /\ Host!Interruption(c).clauses = c.clauses
          /\ Host!Interruption(c) \in Evidence
      BY Marks
    <3>3. Exact(Host!Interruption(c), {})
      BY <2>5, <3>2 DEF Exact
    <3> QED BY <3>1, <3>2, <3>3
  <2>6. CASE writer = FALSE /\ Artifacts = <<>>
    <3>1. n = 0
      BY <2>3, <2>6, DirectoryType
    <3> QED BY <1>3, <2>4, <2>6, <3>1, NoFileNoLines
  <2>7. CASE writer = FALSE /\ Artifacts = <<ArtifactFile>>
    <3>1. n = 1 /\ Directory[1] = ArtifactFile
      BY <2>3, <2>7, DirectoryType
    <3>2. F[1] = Host!CollectFile(Host!Empty, ArtifactFile)
      BY <1>3, <3>1
    <3> QED BY <2>4, <2>5, <2>7, <3>1, <3>2, NoFileNoLines, Marks
  <2>8. CASE writer = TRUE /\ Artifacts = <<>>
    <3>1. n = 1 /\ Directory[1] = JournalFile
      BY <2>3, <2>8, DirectoryType
    <3>2. F[1] = Host!CollectFile(Host!Empty, JournalFile)
      BY <1>3, <3>1
    <3> QED BY <2>1, <2>4, <3>1, <3>2, JournalIsExact, Marks
  <2>9. CASE writer = TRUE /\ Artifacts = <<ArtifactFile>>
    <3>1. n = 2 /\ Directory[1] = ArtifactFile /\ Directory[2] = JournalFile
      <4>1. Journals = <<JournalFile>>
        BY <2>9, DirectoryType
      <4>2. Artifacts \in Seq(Files) /\ Journals \in Seq(Files)
        BY DirectoryType
      <4>3. /\ Len(Artifacts) = 1 /\ Artifacts[1] = ArtifactFile
            /\ Len(Journals) = 1 /\ Journals[1] = JournalFile
        BY <2>9, <4>1
      <4>4. /\ Len(Artifacts \o Journals) = 2
            /\ (Artifacts \o Journals)[1] = Artifacts[1]
            /\ (Artifacts \o Journals)[2] = Journals[1]
        <5> DEFINE s == Artifacts
                   t == Journals
        <5>1. /\ s \in Seq(Files) /\ t \in Seq(Files)
              /\ 1 \in 1..Len(s) /\ 1 \in 1..Len(t) /\ 1 + Len(s) = 2 /\ Len(s) + Len(t) = 2
          BY <4>2, <4>3
        <5> HIDE DEF s, t
        <5>2. /\ Len(s \o t) = Len(s) + Len(t)
              /\ \A i \in 1..Len(s) : (s \o t)[i] = s[i]
              /\ \A i \in 1..Len(t) : (s \o t)[i + Len(s)] = t[i]
          BY <5>1, ConcatElements
        <5>3. /\ Len(s \o t) = 2 /\ (s \o t)[1] = s[1] /\ (s \o t)[2] = t[1]
          BY <5>1, <5>2
        <5> QED BY <5>3 DEF s, t
      <4> QED BY <2>3, <4>3, <4>4
    <3>2. /\ F[1] = Host!CollectFile(Host!Empty, ArtifactFile)
          /\ F[2] = Host!CollectFile(F[1], JournalFile)
      BY <1>3, <3>1
    <3> QED BY <2>1, <2>4, <2>5, <3>1, <3>2, JournalIsExact, Marks
  <2> QED BY <2>6, <2>7, <2>8, <2>9, DirectoryType DEF RInv, IInv, TypeOK, FlagsOK
<1> DEFINE c == F[n]
           open == {Host!AbortedOf(b) : b \in c.begun}
           result == [c EXCEPT !.begun = {},
                               !.evaluations = c.evaluations \o Host!SetToSeq(open)]
<1>10. Collected = result
  <2>1. Host!FoldLeft(Host!CollectFile, Host!Empty, Directory) = c
    BY <1>2 DEF ByFiles
  <2>2. Collected = Host!Collect(Directory)
    BY Zenon DEF Collected, Directory
  <2>3. Host!Collect(Directory)
          = LET read == Host!FoldLeft(Host!CollectFile, Host!Empty, Directory)
            IN  [read EXCEPT !.begun = {},
                             !.evaluations =
                               @ \o Host!SetToSeq({Host!AbortedOf(b) : b \in read.begun})]
    BY Zenon DEF Host!Collect
  <2> HIDE DEF c
  <2> QED BY <2>1, <2>2, <2>3
<1>11. c \in Evidence
  BY <1>1, <1>7
<1> HIDE DEF c
<1>12. /\ result.integrity = c.integrity /\ result.skipped = c.skipped
       /\ result.clauses = c.clauses
       /\ result.evaluations = c.evaluations \o Host!SetToSeq(open)
  BY <1>11 DEF Evidence
<1>13. ToSet(c.evaluations \o Host!SetToSeq(open)) = ToSet(c.evaluations) \cup open
  <2>1. Host!SetToSeq(open) = SetToSeq(open)
    BY Zenon DEF Host!SetToSeq, SetToSeq, Host!IsInjective, IsInjective, Host!Cardinality,
       Cardinality
  <2>2. IsFiniteSet(Evals)
    BY NAssumption, FS_Interval DEF Evals
  <2>3. IsFiniteSet(Beginnings)
    <3> DEFINE f == [e \in Evals |-> BeginLine(e)]
    <3>1. f \in [Evals -> Beginnings] /\ \A y \in Beginnings : \E e \in Evals : f[e] = y
      BY DEF Beginnings
    <3> HIDE DEF f
    <3> QED BY <2>2, <3>1, ImageFinite
  <2>4. IsFiniteSet(c.begun)
    BY <1>11, <2>3, FS_Subset DEF Evidence
  <2>5. IsFiniteSet(open)
    <3> DEFINE f == [b \in c.begun |-> Host!AbortedOf(b)]
    <3>1. f \in [c.begun -> open] /\ \A y \in open : \E b \in c.begun : f[b] = y
      OBVIOUS
    <3> HIDE DEF f, open
    <3> QED BY <2>4, <3>1, ImageFinite
  <2> DEFINE E == {Host!EvaluationOf(r) : r \in Endings} \cup open
  <2> HIDE DEF open
  <2>6. SetToSeq(open) \in Seq(open) /\ ToSet(SetToSeq(open)) = open
    BY <2>5, SetToSeqIs
  <2>7. SetToSeq(open) \in Seq(E) /\ c.evaluations \in Seq(E)
    BY <1>11, <2>6 DEF Evidence
  <2> HIDE DEF E
  <2> QED BY <2>1, <2>6, <2>7, ToSetConcat
<1> HIDE DEF result
<1>14. IsCollected(c)
  BY <1>8, <1>9, <1>10, <1>11, <1>12, <1>13 DEF IsCollected, c
<1> QED BY <1>14

(* A stop alone never looks like damage, and a failure never goes unseen:  *)
(* the collector finds it, or it was printed. (finish, abort, compactLocked*)
(* and recordFailure against consume and collectFile.)                     *)
THEOREM RecoveryDamageMeansFailure == Spec => []DamageMeansFailure
<1>1. RInv => DamageMeansFailure
  <2> SUFFICES ASSUME RInv PROVE DamageMeansFailure
    OBVIOUS
  <2>1. PICK c : IsCollected(c)
    BY Recovered
  <2>2. ASSUME faults = 0 PROVE ~Collected.integrity
    BY <2>1, <2>2 DEF IsCollected, Exact
  <2>3. ASSUME faults > 0 PROVE Collected.integrity \/ stderr # {}
    <3>1. faults # 0
      BY <2>3 DEF RInv, IInv, TypeOK, ValuesOK
    <3>2. persisted # {} \/ stderr # {}
      BY <3>1 DEF RInv, ReportInv
    <3> QED BY <2>1, <3>2 DEF IsCollected
  <2> QED BY <2>2, <2>3 DEF DamageMeansFailure
<1> QED BY <1>1, RecoveryInvariant, PTL

(* What the evidence tells happened: an evaluation with these data ended,  *)
(* and a skipped decision was skipped by an evaluation that ended.         *)
LEMMA EvidenceIsTrue ==
  ASSUME RInv, NEW c \in Evidence
  PROVE  /\ \A v \in ToSet(c.evaluations) : v.identity.id \in Ended
                                            /\ v.data = event[v.identity.id]
         /\ \A s \in c.skipped : s.cause.id \in Ended
                                 /\ s.decision \in event[s.cause.id].skipped
<1>1. ASSUME NEW r \in Endings
      PROVE  /\ Host!Identity(r).id = r.id /\ Host!EvaluationOf(r).identity.id = r.id
             /\ Host!EvaluationOf(r).data = r.data
  BY DEF Host!Identity, Host!EvaluationOf
<1>2. ASSUME NEW v \in ToSet(c.evaluations)
      PROVE  v.identity.id \in Ended /\ v.data = event[v.identity.id]
  <2>1. PICK r \in Endings : v = Host!EvaluationOf(r)
    BY DEF Evidence, ToSet
  <2> QED BY <1>1, <2>1, EndsAreTrue
<1>3. ASSUME NEW s \in c.skipped
      PROVE  s.cause.id \in Ended /\ s.decision \in event[s.cause.id].skipped
  <2>1. PICK r \in Endings : s \in SkipsBy(r)
    BY DEF Evidence
  <2>2. s.cause = Host!Identity(r) /\ s.decision \in r.skips
    BY <2>1 DEF SkipsBy
  <2> QED BY <1>1, <2>2, EndsAreTrue
<1> QED BY <1>2, <1>3

(* Nothing of a process without failures is missing from its evidence.     *)
LEMMA EvidenceIsWhole ==
  ASSUME RInv, faults = 0, NEW c \in Evidence, Exact(c, ToSet(JournalLines))
  PROVE  /\ \A e \in Evals : pc[e] = "done" =>
              /\ \E v \in ToSet(c.evaluations) : v.data = event[e]
              /\ BeginLine(e) \notin c.begun
         /\ seenClauses \subseteq {k.clause : k \in c.clauses}
<1> DEFINE L == ToSet(JournalLines)
<1>1. NothingLostSilently /\ diagSeen = {}
  BY WholeLosesNothing DEF RInv, ReportInv
<1>2. ASSUME NEW i \in DOMAIN log PROVE LineOf(log[i]) \in L
  <2>1. LineOf(log[i]) \in ToSet(LogLinesSeq)
    BY DEF LogLinesSeq, ToSet
  <2> QED BY <2>1, JournalTold
<1>3. /\ \A v \in base.evaluations : EndLine("evaluation", v) \in L \cap Endings
      /\ \A k \in base.clauses : ClauseLine(k) \in L
  BY JournalTold DEF SnapshotEnds, SnapshotClauses
<1>4. ASSUME NEW r \in Endings, r \in L
      PROVE  Host!EvaluationOf(r) \in ToSet(c.evaluations) /\ Host!Identity(r) \in c.finished
  BY <1>4 DEF Exact
<1>5. ASSUME NEW e \in Evals, pc[e] = "done"
      PROVE  \E v \in ToSet(c.evaluations) : v.data = event[e]
  <2>1. PICK w \in Recorded : w.data = event[e]
    BY <1>1, <1>5 DEF NothingLostSilently
  <2>2. CASE w \in base.evaluations
    <3>1. Host!EvaluationOf(EndLine("evaluation", w)) \in ToSet(c.evaluations)
      BY <1>3, <1>4, <2>2
    <3>2. Host!EvaluationOf(EndLine("evaluation", w)).data = w.data
      BY DEF Host!EvaluationOf, EndLine
    <3> QED BY <2>1, <3>1, <3>2
  <2>3. CASE w \in TerminalLines
    <3>1. PICK i \in DOMAIN log : log[i].type = "terminal" /\ w.data = log[i].data
      BY <2>3 DEF TerminalLines, Lines
    <3>2. LineOf(log[i]) \in Endings /\ LineOf(log[i]) = EndLine("terminal", log[i])
      BY <3>1, LogLines DEF RInv
    <3>3. Host!EvaluationOf(LineOf(log[i])) \in ToSet(c.evaluations)
      BY <1>2, <1>4, <3>2
    <3>4. Host!EvaluationOf(LineOf(log[i])).data = w.data
      BY <3>1, <3>2 DEF Host!EvaluationOf, EndLine
    <3> QED BY <2>1, <3>3, <3>4
  <2> QED BY <2>2, <2>3 DEF Recorded
<1>6. ASSUME NEW e \in Evals, pc[e] = "done", BeginLine(e) \in c.begun
      PROVE  FALSE
  <2>1. BeginLine(e) \in L /\ Ident(e) \notin c.finished /\ BeginLine(e) \in Beginnings
    BY <1>6, BeginFields DEF Exact
  <2>2. e \in BegunIDs
    <3>1. CASE BeginLine(e) \in SnapshotBegins
      <4>1. PICK d \in base.begins : BeginLine(e) = BeginLine(d)
        BY <3>1 DEF SnapshotBegins
      <4>2. d \in Evals
        BY DEF RInv, IInv, TypeOK, ValuesOK
      <4>3. d = e
        BY <4>1, <4>2, BeginFields
      <4> QED BY <4>3 DEF BegunIDs
    <3>2. CASE BeginLine(e) \in ToSet(LogLinesSeq)
      <4>1. PICK i \in DOMAIN log : LineOf(log[i]) = BeginLine(e)
        BY <3>2 DEF LogLinesSeq, ToSet
      <4>2. log[i].type = "begin"
        BY <2>1, <4>1, LogLines, KindsApart DEF RInv, Mentions, Broken
      <4>3. BeginLine(log[i].id) = BeginLine(e) /\ log[i].id \in Evals
        BY <4>1, <4>2, LogLines DEF RInv
      <4>4. log[i].id = e
        BY <4>3, BeginFields
      <4>5. log[i] \in {k \in Lines : k.type = "begin"}
        BY <4>2 DEF Lines
      <4> QED BY <4>4, <4>5 DEF BegunIDs
    <3> QED BY <2>1, <3>1, <3>2, JournalTold, KindsApart
  <2>3. e \in {v.id : v \in TerminalLines}
    BY <1>1, <1>6, <2>2 DEF NothingLostSilently, OpenIDs
  <2>4. PICK i \in DOMAIN log : log[i].type = "terminal" /\ log[i].id = e
    BY <2>3 DEF TerminalLines, Lines
  <2>5. LineOf(log[i]) \in Endings /\ LineOf(log[i]) = EndLine("terminal", log[i])
    BY <2>4, LogLines DEF RInv
  <2>6. Host!Identity(LineOf(log[i])) = Ident(e)
    BY <2>4, <2>5 DEF EndLine, Host!Identity, Ident
  <2> QED BY <1>2, <1>4, <2>1, <2>5, <2>6
<1>7. ASSUME NEW k \in seenClauses
      PROVE  [process |-> Process, clause |-> k] \in c.clauses
  <2>1. k \in RecordedClauses /\ k \in Clauses
    BY <1>1 DEF NothingLostSilently, RInv, IInv, TypeOK, ValuesOK
  <2>2. ClauseLine(k) \in L
    <3>1. CASE k \in base.clauses
      BY <1>3, <3>1
    <3>2. CASE k \in {l.clause : l \in {q \in Lines : q.type = "clause"}}
      <4>1. PICK i \in DOMAIN log : log[i].type = "clause" /\ log[i].clause = k
        BY <3>2 DEF Lines
      <4>2. LineOf(log[i]) = ClauseLine(k)
        BY <4>1, LogLines DEF RInv
      <4> QED BY <1>2, <4>2
    <3> QED BY <2>1, <3>1, <3>2 DEF RecordedClauses
  <2> QED BY <2>1, <2>2 DEF Exact
<1>8. seenClauses \subseteq {k.clause : k \in c.clauses}
  <2>1. \A k : [process |-> Process, clause |-> k].clause = k
    OBVIOUS
  <2> QED BY <1>7, <2>1
<1> QED BY <1>5, <1>6, <1>8

(* Whatever is recovered ran, and whatever ran is recovered unless someone *)
(* was told of damage.                                                     *)
THEOREM RecoveryIsExact == Spec => []RecoveredExactly
<1>1. RInv => RecoveredExactly
  <2> SUFFICES ASSUME RInv PROVE RecoveredExactly
    OBVIOUS
  <2>1. PICK c : IsCollected(c)
    BY Recovered
  <2>2. /\ c \in Evidence /\ Collected.skipped = c.skipped /\ Collected.clauses = c.clauses
        /\ Collected.integrity = c.integrity
        /\ ToSet(Collected.evaluations)
             = ToSet(c.evaluations) \cup {Host!AbortedOf(b) : b \in c.begun}
    BY <2>1 DEF IsCollected
  <2> DEFINE found == ToSet(Collected.evaluations)
  <2>3. ASSUME NEW v \in found, v.completed
        PROVE  v.identity.id \in Ended /\ v.data = event[v.identity.id]
    <3>1. ASSUME NEW b \in c.begun, v = Host!AbortedOf(b) PROVE FALSE
      BY <2>3, <3>1 DEF Host!AbortedOf
    <3>2. v \in ToSet(c.evaluations)
      BY <2>2, <3>1
    <3> QED BY <2>2, <3>2, EvidenceIsTrue
  <2>4. ASSUME NEW s \in Collected.skipped
        PROVE  s.cause.id \in Ended /\ s.decision \in event[s.cause.id].skipped
    BY <2>2, EvidenceIsTrue
  <2>5. ASSUME ~Collected.integrity, stderr = {}
        PROVE  /\ \A e \in Evals : pc[e] = "done" =>
                    /\ \E v \in found : v.data = event[e]
                    /\ \A v \in found : v.identity.id = e => v.data = event[e]
               /\ seenClauses \subseteq {k.clause : k \in Collected.clauses}
    <3>1. faults = 0
      <4>1. persisted = {}
        BY <2>1, <2>5 DEF IsCollected
      <4> QED BY <2>5, <4>1 DEF RInv, ReportInv
    <3>2. Exact(c, ToSet(JournalLines))
      BY <2>1, <3>1 DEF IsCollected
    <3>3. ASSUME NEW e \in Evals, pc[e] = "done", NEW v \in found, v.identity.id = e
          PROVE  v.data = event[e]
      <4>1. CASE v \in ToSet(c.evaluations)
        BY <2>2, <3>3, <4>1, EvidenceIsTrue
      <4>2. ASSUME NEW b \in c.begun, v = Host!AbortedOf(b) PROVE FALSE
        <5>1. PICK d \in Evals : b = BeginLine(d)
          BY <2>2 DEF Evidence, Beginnings
        <5>2. v.identity = Ident(d)
          BY <4>2, <5>1, BeginFields DEF Host!AbortedOf
        <5>3. d = e
          BY <3>3, <5>2 DEF Ident
        <5> QED BY <2>2, <3>1, <3>2, <3>3, <5>1, <5>3, EvidenceIsWhole
      <4> QED BY <2>2, <4>1, <4>2
    <3>4. ASSUME NEW e \in Evals, pc[e] = "done" PROVE \E v \in found : v.data = event[e]
      BY <2>2, <3>1, <3>2, <3>4, EvidenceIsWhole
    <3>5. seenClauses \subseteq {k.clause : k \in Collected.clauses}
      BY <2>2, <3>1, <3>2, EvidenceIsWhole
    <3> HIDE DEF found
    <3> QED BY <3>3, <3>4, <3>5
  <2> QED BY <2>3, <2>4, <2>5 DEF RecoveredExactly
<1> QED BY <1>1, RecoveryInvariant, PTL
==============================================================================
