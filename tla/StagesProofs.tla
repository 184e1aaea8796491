---------------------------- MODULE StagesProofs ----------------------------
(***************************************************************************)
(* The offline commands, for every set of recorded archives, commands and  *)
(* processes, and any number of failures: files are whole, an entry page   *)
(* leads to its report, exit codes tell the truth, and the same archives   *)
(* give the same executions.                                               *)
(*                                                                         *)
(* The invariant has a part for each shared variable and one for what a    *)
(* process holds at the call it has come to.                               *)
(***************************************************************************)
EXTENDS Stages, FoldTheorems

Shards == {s \in DOMAIN Recorded : Recorded[s].format = "measurement"}
Plans == {Recorded[s].archive.plan : s \in Shards}

(* The archives that are made of recorded ones, and the files of them.     *)
Pool == {a \in [plan : Plans, runs : {Pooled(S) : S \in SUBSET Shards}, shards : SUBSET Shards] :
           IsPooled(a)}

MeasurementFiles == {MeasurementFile(a) : a \in Pool}
ResultFiles == {ResultFile(a, limit) : a \in Pool, limit \in Nat}
OldResultFiles ==
  {[format |-> "result-2.0", archive |-> a, report |-> ReportOf(a, limit)] :
     a \in Pool, limit \in Nat}
EntryFiles == {EntryFile(number) : number \in Nat}

Files == MeasurementFiles \union ResultFiles \union OldResultFiles
Contents == {Absent} \union Files \union EntryFiles

(* What a command reads.                                                   *)
Inputs(name) == IF Format(name) = "measurement" THEN MeasurementFiles ELSE ResultFiles
-----------------------------------------------------------------------------
(* An archive is pooled exactly if it is in the pool. *)
LEMMA PoolIs ==
  ASSUME NEW a, IsPooled(a)
  PROVE  a \in Pool
<1>1. /\ a.shards \in SUBSET Shards /\ a.shards # {} /\ a.plan \in Plans
  BY DEF IsPooled, Shards, Plans
<1>2. a = [plan |-> a.plan, runs |-> Pooled(a.shards), shards |-> a.shards]
  BY DEF IsPooled
<1>3. a \in [plan : Plans, runs : {Pooled(S) : S \in SUBSET Shards}, shards : SUBSET Shards]
  BY <1>1, <1>2
<1> QED BY <1>3 DEF Pool

(* What an archive of the pool is. *)
LEMMA PoolHas ==
  ASSUME NEW a \in Pool
  PROVE  /\ a.shards # {} /\ a.shards \subseteq Shards
         /\ \A s \in a.shards : Recorded[s].archive.plan = a.plan
         /\ a.runs = Pooled(a.shards)
         /\ a = [plan |-> a.plan, runs |-> a.runs, shards |-> a.shards]
BY DEF Pool, IsPooled, Shards

(* A limit that is in effect stays in effect. *)
LEMMA EffectiveTwice ==
  ASSUME NEW limit \in Nat
  PROVE  /\ Effective(limit) \in Nat \ {0}
         /\ Effective(Effective(limit)) = Effective(limit)
BY DefaultLimitAssumption DEF Effective

(* What files hold, by their kind. *)
LEMMA MeasurementFileHas ==
  ASSUME NEW f \in MeasurementFiles
  PROVE  f.format = "measurement" /\ f.archive \in Pool /\ f = MeasurementFile(f.archive)
BY DEF MeasurementFiles, MeasurementFile

(* A saved result shows what its archive and its limit say. *)
LEMMA ResultFileHas ==
  ASSUME NEW f \in ResultFiles
  PROVE  /\ f.format = "result" /\ f.archive \in Pool /\ f.limit \in Nat
         /\ f.report = ReportOf(f.archive, f.limit)
<1>1. PICK a \in Pool, limit \in Nat : f = ResultFile(a, limit)
  BY DEF ResultFiles
<1>2. /\ f.format = "result" /\ f.archive = a /\ f.limit = Effective(limit)
      /\ f.report = ReportOf(a, limit)
  BY <1>1 DEF ResultFile
<1>3. ReportOf(a, limit) = ReportOf(a, Effective(limit))
  BY EffectiveTwice DEF ReportOf
<1> QED BY <1>2, <1>3, EffectiveTwice

(* Decoding a saved result of either version gives one of this version. *)
LEMMA OldResultFileHas ==
  ASSUME NEW f \in OldResultFiles
  PROVE  /\ f.format = "result-2.0" /\ f.archive \in Pool
         /\ Decode(f) \in ResultFiles
<1>1. PICK a \in Pool, limit \in Nat :
        f = [format |-> "result-2.0", archive |-> a, report |-> ReportOf(a, limit)]
  BY DEF OldResultFiles
<1> DEFINE shown == ReportOf(a, limit).limit
<1>2. shown \in Nat /\ ReportOf(a, shown) = ReportOf(a, limit)
  BY EffectiveTwice DEF ReportOf
<1>3. f.format = "result-2.0" /\ f.archive = a /\ f.report = ReportOf(a, limit)
  BY <1>1
<1>4. Decode(f) = ResultFile(a, shown)
  BY <1>2, <1>3 DEF Decode, ResultFile
<1> QED BY <1>2, <1>3, <1>4 DEF ResultFiles

(* The files at the start are whole, and made of recorded archives. *)
LEMMA RecordedAre ==
  ASSUME NEW path \in DOMAIN Recorded
  PROVE  Recorded[path] \in {Absent} \union Files
<1> DEFINE f == Recorded[path]
<1>0. /\ f.format \in {"absent", "measurement", "result", "result-2.0"}
      /\ f.format = "absent" => f = Absent
      /\ f.format # "absent" => IsPooled(f.archive)
      /\ f.format = "measurement" => f = MeasurementFile(f.archive)
      /\ f.format = "result" => f.limit \in Nat /\ f = ResultFile(f.archive, f.limit)
      /\ f.format = "result-2.0" =>
           /\ f.report.limit \in Nat
           /\ f = [format |-> "result-2.0", archive |-> f.archive,
                   report |-> ReportOf(f.archive, f.report.limit)]
  BY RecordedAssumption
<1> HIDE DEF f
<1>1. f.format # "absent" => f.archive \in Pool
  BY <1>0, PoolIs
<1>2. f.format = "measurement" => f \in MeasurementFiles
  BY <1>0, <1>1 DEF MeasurementFiles
<1>3. f.format = "result" => f \in ResultFiles
  BY <1>0, <1>1 DEF ResultFiles
<1>4. f.format = "result-2.0" => f \in OldResultFiles
  BY <1>0, <1>1 DEF OldResultFiles
<1>5. f \in {Absent} \union Files
  BY <1>0, <1>2, <1>3, <1>4 DEF Files
<1> QED BY <1>5 DEF f

(* What a command reads of a file is of its format, and whole. *)
LEMMA ReadIs ==
  ASSUME NEW f \in Contents, NEW name, Reads(f, Format(name))
  PROVE  Decode(f) \in Inputs(name)
<1>1. CASE f \in MeasurementFiles
  BY <1>1, MeasurementFileHas DEF Reads, Format, Inputs, Decode
<1>2. CASE f \in ResultFiles
  BY <1>2, ResultFileHas DEF Reads, Format, Inputs, Decode
<1>3. CASE f \in OldResultFiles
  BY <1>3, OldResultFileHas DEF Reads, Format, Inputs
<1>4. CASE f = Absent \/ f \in EntryFiles
  <2>1. f.format \in {"absent", "entry"}
    BY <1>4 DEF Absent, EntryFiles, EntryFile
  <2> QED BY <2>1 DEF Reads, Format
<1> QED BY <1>1, <1>2, <1>3, <1>4 DEF Contents, Files

(* No file is torn, and only entry pages lead anywhere. *)
LEMMA ContentsAre ==
  ASSUME NEW f \in Contents
  PROVE  /\ f # Torn
         /\ f.format = "entry" => f \in EntryFiles
         /\ f.format \in {"measurement", "result", "result-2.0"} => f \in Files
<1>1. CASE f \in MeasurementFiles
  BY <1>1, MeasurementFileHas DEF Torn, Files
<1>2. CASE f \in ResultFiles
  BY <1>2, ResultFileHas DEF Torn, Files
<1>3. CASE f \in OldResultFiles
  BY <1>3, OldResultFileHas DEF Torn, Files
<1>4. CASE f = Absent \/ f \in EntryFiles
  BY <1>4 DEF Torn, Absent, EntryFiles, EntryFile
<1> QED BY <1>1, <1>2, <1>3, <1>4 DEF Contents, Files
-----------------------------------------------------------------------------
(* Merge loses no execution and invents none: what it accepts is the union *)
(* of its inputs, whatever their order and repetition, and of the number   *)
(* that was expected.                                                      *)
LEMMA MergePools ==
  ASSUME NEW n \in Nat \ {0}, NEW inputs \in [1..n -> Pool], NEW expected \in Nat,
         ~IsRefused(Merge(inputs, expected))
  PROVE  /\ Merge(inputs, expected) \in Pool
         /\ expected > 0 => Cardinality(Merge(inputs, expected).runs) = expected
<1> DEFINE byId == ById(inputs)
           made == [plan |-> inputs[1].plan, runs |-> {byId[id] : id \in DOMAIN byId},
                    shards |-> UNION {inputs[i].shards : i \in DOMAIN inputs}]
<1>1. /\ Merge(inputs, expected) = made
      /\ \A i \in 1..n : inputs[i].plan = inputs[1].plan
      /\ ~Conflict(inputs)
      /\ expected > 0 => Cardinality(made.runs) = expected
  <2> HIDE DEF byId
  <2>1. Merge(inputs, expected) # Refused
    BY DEF IsRefused, Refused
  <2>2. Merge(inputs, expected) =
          IF \/ \E i \in DOMAIN inputs : ~Validates(inputs[i]) \/ inputs[i].plan # inputs[1].plan
             \/ Conflict(inputs)
             \/ expected > 0 /\ Cardinality(made.runs) # expected
             \/ ~Validates(made)
          THEN Refused ELSE made
    BY Zenon DEF Merge, byId
  <2> HIDE DEF made
  <2> QED BY <2>1, <2>2
<1>2. \A id \in {r.id : r \in AllRuns(inputs)} :
        byId[id] \in AllRuns(inputs) /\ byId[id].id = id
  <2> TAKE id \in {r.id : r \in AllRuns(inputs)}
  <2> DEFINE among == {i \in DOMAIN inputs : \E r \in inputs[i].runs : r.id = id}
             last == Max(among)
  <2>1. among \in SUBSET (1..n) /\ among # {}
    BY DEF AllRuns
  <2>2. last \in among
    <3> HIDE DEF among
    <3> QED BY <2>1, LastIsIn
  <2>3. byId[id] = CHOOSE r \in inputs[last].runs : r.id = id
    BY DEF ById
  <2>4. \E r \in inputs[last].runs : r.id = id
    <3> HIDE DEF last
    <3> QED BY <2>2
  <2>5. last \in DOMAIN inputs
    <3> HIDE DEF last
    <3> QED BY <2>2
  <2> HIDE DEF last, byId
  <2>6. byId[id] \in inputs[last].runs /\ byId[id].id = id
    BY <2>3, <2>4
  <2> QED BY <2>5, <2>6 DEF AllRuns
<1>3. made.runs = AllRuns(inputs)
  <2>1. DOMAIN byId = {r.id : r \in AllRuns(inputs)}
    BY DEF ById
  <2> HIDE DEF byId
  <2>2. \A r, s \in AllRuns(inputs) : r.id = s.id => r = s
    BY <1>1 DEF Conflict
  <2>3. \A r \in AllRuns(inputs) : byId[r.id] = r
    BY <1>2, <2>2
  <2>4. {byId[id] : id \in DOMAIN byId} = AllRuns(inputs)
    BY <1>2, <2>1, <2>3
  <2> QED BY <2>4
<1>4. AllRuns(inputs) = Pooled(made.shards)
  <2>1. \A i \in 1..n : inputs[i].runs = Pooled(inputs[i].shards)
    BY PoolHas
  <2>2. made.shards = UNION {inputs[i].shards : i \in 1..n}
    OBVIOUS
  <2> HIDE DEF made
  <2>3. \A r : r \in AllRuns(inputs) <=> \E i \in 1..n : r \in Pooled(inputs[i].shards)
    BY <2>1 DEF AllRuns
  <2>4. \A r : r \in Pooled(made.shards) <=>
               \E i \in 1..n : \E s \in inputs[i].shards : r \in Recorded[s].archive.runs
    BY <2>2 DEF Pooled
  <2>5. \A r, i : r \in Pooled(inputs[i].shards) <=>
                  \E s \in inputs[i].shards : r \in Recorded[s].archive.runs
    BY DEF Pooled
  <2> QED BY <2>3, <2>4, <2>5
<1>5. IsPooled(made)
  <2>1. /\ made = [plan |-> made.plan, runs |-> made.runs, shards |-> made.shards]
        /\ made.plan = inputs[1].plan
        /\ made.shards = UNION {inputs[i].shards : i \in 1..n}
    OBVIOUS
  <2> HIDE DEF made
  <2>2. \A s \in made.shards : s \in Shards /\ Recorded[s].archive.plan = made.plan
    BY <1>1, <2>1, PoolHas
  <2>3. made.shards # {}
    BY <2>1, PoolHas
  <2> QED BY <1>3, <1>4, <2>1, <2>2, <2>3 DEF IsPooled, Shards
<1> HIDE DEF made
<1> QED BY <1>1, <1>5, PoolIs
-----------------------------------------------------------------------------
(* Where the calls of a command are.  SyncAt is the call that writes its   *)
(* file through.                                                           *)
SyncAt(name) ==
  CASE name = "merge"                    -> 5
    [] name \in {"analyze", "reanalyze"} -> 7
    [] name = "report"                   -> 11
    [] name = "require"                  -> 1

CallsAre(name, call, i) ==
  /\ call = "merge"       <=> (name \in {"merge", "analyze"} /\ i = 1)
  /\ call = "analyze"     <=> (name = "analyze" /\ i = 2) \/ (name = "reanalyze" /\ i = 1)
  /\ call = "require"     <=> (name = "require" /\ i = 1)
  /\ call = "render"      <=> (name = "report" /\ i = 4)
  /\ call = "renameStage" <=> (name = "report" /\ i = 7)
  /\ call = "overview"    <=> (name = "report" /\ i = 8)
  /\ call = "stage" => name = "report" /\ i = 3
  /\ call \in {"create", "write"} => i < SyncAt(name)
  /\ name # "require" => (call = "sync" <=> i = SyncAt(name))
  /\ name # "require" => (call = "rename" <=> i = Len(Calls(name)))
  /\ name = "require" => call = "require"

Names == {"merge", "analyze", "reanalyze", "report", "require"}

(* The positions of the calls, command by command. *)
LEMMA Positions ==
  ASSUME NEW name \in Names, NEW i \in 1..Len(Calls(name))
  PROVE  /\ Len(Calls(name)) \in Nat \ {0}
         /\ CallsAre(name, Calls(name)[i], i)
         /\ name # "require" => Len(Calls(name)) > SyncAt(name)
         /\ name \in {"merge", "analyze"} => Len(Calls(name)) > 2
<1>1. CASE name = "merge"
  <2>1. Calls(name) = MergeCalls /\ Len(MergeCalls) = 8
    BY <1>1 DEF Calls, MergeCalls
  <2>2. i \in {1, 2, 3, 4, 5, 6, 7, 8}
    BY <2>1
  <2>3. /\ SyncAt(name) = 5
        /\ MergeCalls[1] = "merge" /\ MergeCalls[2] = "check" /\ MergeCalls[3] = "create"
        /\ MergeCalls[4] = "write" /\ MergeCalls[5] = "sync" /\ MergeCalls[6] = "close"
        /\ MergeCalls[7] = "check" /\ MergeCalls[8] = "rename"
    BY <1>1 DEF MergeCalls, SyncAt
  <2> DEFINE call == MergeCalls[i]
  <2>4. /\ call = "merge" <=> i = 1
        /\ call \notin {"analyze", "require", "render", "renameStage", "overview", "stage"}
        /\ call \in {"create", "write"} => i < 5
        /\ call = "sync" <=> i = 5
        /\ call = "rename" <=> i = 8
    BY <2>2, <2>3
  <2> HIDE DEF call
  <2>5. CallsAre(name, call, i)
    BY <1>1, <2>1, <2>3, <2>4 DEF CallsAre
  <2>6. CallsAre(name, Calls(name)[i], i)
    BY <2>1, <2>5 DEF call
  <2>7. Len(Calls(name)) \in Nat \ {0} /\ Len(Calls(name)) > SyncAt(name) /\ Len(Calls(name)) > 2
    BY <2>1, <2>3
  <2> QED BY <2>6, <2>7
<1>2. CASE name = "analyze"
  <2>1. Calls(name) = AnalyzeCalls /\ Len(AnalyzeCalls) = 10
    BY <1>2 DEF Calls, AnalyzeCalls
  <2>2. i \in {1, 2, 3, 4, 5, 6, 7, 8, 9, 10}
    BY <2>1
  <2>3. /\ SyncAt(name) = 7
        /\ AnalyzeCalls[1] = "merge" /\ AnalyzeCalls[2] = "analyze" /\ AnalyzeCalls[3] = "check"
        /\ AnalyzeCalls[4] = "check" /\ AnalyzeCalls[5] = "create" /\ AnalyzeCalls[6] = "write"
        /\ AnalyzeCalls[7] = "sync" /\ AnalyzeCalls[8] = "close" /\ AnalyzeCalls[9] = "check"
        /\ AnalyzeCalls[10] = "rename"
    BY <1>2 DEF AnalyzeCalls, SyncAt
  <2> DEFINE call == AnalyzeCalls[i]
  <2>4. /\ call = "merge" <=> i = 1
        /\ call = "analyze" <=> i = 2
        /\ call \notin {"require", "render", "renameStage", "overview", "stage"}
        /\ call \in {"create", "write"} => i < 7
        /\ call = "sync" <=> i = 7
        /\ call = "rename" <=> i = 10
    BY <2>2, <2>3
  <2> HIDE DEF call
  <2>5. CallsAre(name, call, i)
    BY <1>2, <2>1, <2>3, <2>4 DEF CallsAre
  <2>6. CallsAre(name, Calls(name)[i], i)
    BY <2>1, <2>5 DEF call
  <2>7. Len(Calls(name)) \in Nat \ {0} /\ Len(Calls(name)) > SyncAt(name) /\ Len(Calls(name)) > 2
    BY <2>1, <2>3
  <2> QED BY <2>6, <2>7
<1>3. CASE name = "reanalyze"
  <2>1. Calls(name) = ReanalyzeCalls /\ Len(ReanalyzeCalls) = 10
    BY <1>3 DEF Calls, ReanalyzeCalls
  <2>2. i \in {1, 2, 3, 4, 5, 6, 7, 8, 9, 10}
    BY <2>1
  <2>3. /\ SyncAt(name) = 7
        /\ ReanalyzeCalls[1] = "analyze" /\ ReanalyzeCalls[2] = "check"
        /\ ReanalyzeCalls[3] = "check"
        /\ ReanalyzeCalls[4] = "check" /\ ReanalyzeCalls[5] = "create"
        /\ ReanalyzeCalls[6] = "write"
        /\ ReanalyzeCalls[7] = "sync" /\ ReanalyzeCalls[8] = "close" /\ ReanalyzeCalls[9] = "check"
        /\ ReanalyzeCalls[10] = "rename"
    BY <1>3 DEF ReanalyzeCalls, SyncAt
  <2> DEFINE call == ReanalyzeCalls[i]
  <2>4. /\ call = "analyze" <=> i = 1
        /\ call \notin {"merge", "require", "render", "renameStage", "overview", "stage"}
        /\ call \in {"create", "write"} => i < 7
        /\ call = "sync" <=> i = 7
        /\ call = "rename" <=> i = 10
    BY <2>2, <2>3
  <2> HIDE DEF call
  <2>5. CallsAre(name, call, i)
    BY <1>3, <2>1, <2>3, <2>4 DEF CallsAre
  <2>6. CallsAre(name, Calls(name)[i], i)
    BY <2>1, <2>5 DEF call
  <2>7. Len(Calls(name)) \in Nat \ {0} /\ Len(Calls(name)) > SyncAt(name) /\ Len(Calls(name)) > 2
    BY <2>1, <2>3
  <2> QED BY <2>6, <2>7
<1>4. CASE name = "report"
  <2>1. Calls(name) = ReportCalls /\ Len(ReportCalls) = 15
    BY <1>4 DEF Calls, ReportCalls
  <2>2. i \in {1, 2, 3, 4, 5, 6, 7, 8, 9, 10, 11, 12, 13, 14, 15}
    BY <2>1
  <2>3. /\ SyncAt(name) = 11
        /\ ReportCalls[1] = "check" /\ ReportCalls[2] = "check" /\ ReportCalls[3] = "stage"
        /\ ReportCalls[4] = "render" /\ ReportCalls[5] = "validate" /\ ReportCalls[6] = "check"
        /\ ReportCalls[7] = "renameStage" /\ ReportCalls[8] = "overview"
        /\ ReportCalls[9] = "create"
        /\ ReportCalls[10] = "write" /\ ReportCalls[11] = "sync" /\ ReportCalls[12] = "close"
        /\ ReportCalls[13] = "chmod" /\ ReportCalls[14] = "check" /\ ReportCalls[15] = "rename"
    BY <1>4 DEF ReportCalls, SyncAt
  <2> DEFINE call == ReportCalls[i]
  <2>4. /\ call = "render" <=> i = 4
        /\ call = "renameStage" <=> i = 7
        /\ call = "overview" <=> i = 8
        /\ call = "stage" => i = 3
        /\ call \notin {"merge", "analyze", "require"}
        /\ call \in {"create", "write"} => i < 11
        /\ call = "sync" <=> i = 11
        /\ call = "rename" <=> i = 15
    BY <2>2, <2>3
  <2> HIDE DEF call
  <2>5. CallsAre(name, call, i)
    BY <1>4, <2>1, <2>3, <2>4 DEF CallsAre
  <2>6. CallsAre(name, Calls(name)[i], i)
    BY <2>1, <2>5 DEF call
  <2>7. Len(Calls(name)) \in Nat \ {0} /\ Len(Calls(name)) > SyncAt(name) /\ Len(Calls(name)) > 2
    BY <2>1, <2>3
  <2> QED BY <2>6, <2>7
<1>5. CASE name = "require"
  BY <1>5 DEF Calls, CallsAre, SyncAt
<1> QED BY <1>1, <1>2, <1>3, <1>4, <1>5 DEF Names
-----------------------------------------------------------------------------
(***************************************************************************)
(* The inductive invariant.                                                *)
(***************************************************************************)
Working ==
  [at : {"reading", "calling"}, number : Nat, next : Nat, command : Commands, read : Seq(Files),
   made : Contents, temp : {"none", "empty", "written", "durable"},
   pages : {"none", "partial", "whole"}, cancelled : BOOLEAN, published : {FALSE}]

(* One input has been read for each that the command is past.              *)
Reading(q) ==
  /\ q \in Working /\ q.at = "reading"
  /\ q.next \in 1..Len(q.command.inputs)
  /\ Len(q.read) = q.next - 1
  /\ \A i \in DOMAIN q.read : q.read[i] \in Inputs(q.command.name)

AsExpected(command, made) ==
  command.expected > 0 => Cardinality(made.archive.runs) = command.expected

(* What has been made by the call it has come to, given the generations    *)
(* that are in place.                                                      *)
Holds(command, i, q, generations) ==
  /\ command.name \in {"merge", "analyze"} /\ i > 1 => AsExpected(command, q.made)
  /\ command.name = "merge" /\ i > 1 => q.made \in MeasurementFiles
  /\ command.name = "analyze" /\ i = 2 => q.made \in MeasurementFiles
  /\ command.name = "analyze" /\ i > 2 => q.made \in ResultFiles
  /\ command.name = "reanalyze" /\ i > 1 => q.made \in ResultFiles
  /\ command.name = "report" =>
       /\ i \in 5..7 => q.pages = "whole"
       /\ i > 7 => q.number \in generations
       /\ i > 8 => q.made = EntryFile(q.number)
  /\ i > SyncAt(command.name) => q.temp = "durable"

Calling(q, generations) ==
  /\ q \in Working /\ q.at = "calling"
  /\ q.next \in 1..Len(Calls(q.command.name))
  /\ Len(q.read) = Len(q.command.inputs)
  /\ \A i \in DOMAIN q.read : q.read[i] \in Inputs(q.command.name)
  /\ Holds(q.command, q.next, q, generations)

Exited(q) ==
  /\ q.at = "exited"
  /\ q.writes => (q.code = 0 <=> q.published)
  /\ q.code = 130 => q.cancelled
  /\ q.code = 0 => ~q.short

ProcessInv(q, generations) ==
  q = Idle \/ Reading(q) \/ Calling(q, generations) \/ Exited(q)

ProcessesInv ==
  /\ DOMAIN process = Processes
  /\ \A p \in Processes : ProcessInv(process[p], DOMAIN reports)

FilesInv ==
  /\ DOMAIN file = DOMAIN Recorded /\ DOMAIN afterwards = DOMAIN Recorded
  /\ \A path \in DOMAIN Recorded :
       /\ file[path] \in afterwards[path]
       /\ \A f \in afterwards[path] :
            /\ f \in Contents
            /\ Recorded[path] # Absent => f # Absent
            /\ f.format = "entry" /\ powerFailures = 0 => f.to \in DOMAIN reports

ReportsInv ==
  /\ powerFailures = 0 => \A g \in DOMAIN reports : reports[g] = "whole"

AnswersInv ==
  \A a \in answers :
    a.satisfied <=> \A s \in a.shards :
      Satisfied([plan |-> Recorded[s].archive.plan, runs |-> Pooled(a.shards)], a.limit)

SInv ==
  /\ ProcessesInv /\ FilesInv /\ ReportsInv /\ AnswersInv
  /\ started \in Nat /\ powerFailures \in Nat
-----------------------------------------------------------------------------
(* The invariant holds at the start. *)
LEMMA StagesInit ==
  ASSUME Init
  PROVE  SInv
<1>1. ProcessesInv
  BY DEF Init, ProcessesInv, ProcessInv
<1>2. FilesInv
  <2>1. \A path \in DOMAIN Recorded : Recorded[path] \in Contents
    BY RecordedAre DEF Contents
  <2>2. \A path \in DOMAIN Recorded : Recorded[path].format # "entry"
    <3> TAKE path \in DOMAIN Recorded
    <3> QED BY RecordedAssumption
  <2> QED BY <2>1, <2>2 DEF Init, FilesInv
<1>3. ReportsInv /\ AnswersInv /\ started \in Nat /\ powerFailures \in Nat
  BY DEF Init, ReportsInv, AnswersInv
<1> QED BY <1>1, <1>2, <1>3 DEF SInv

(* What other processes do takes nothing from a process. *)
LEMMA ProcessStays ==
  ASSUME NEW q, NEW before, NEW after, before \subseteq after, ProcessInv(q, before)
  PROVE  ProcessInv(q, after)
BY DEF ProcessInv, Calling, Holds

(* A step of one process keeps what is known of all if it does so of it. *)
LEMMA OneProcess ==
  ASSUME ProcessesInv, NEW p \in Processes, NEW q,
         process' = [process EXCEPT ![p] = q],
         DOMAIN reports \subseteq DOMAIN reports', ProcessInv(q, DOMAIN reports')
  PROVE  ProcessesInv'
<1>1. DOMAIN process' = Processes
  BY DEF ProcessesInv
<1>2. ASSUME NEW r \in Processes
      PROVE  ProcessInv(process'[r], DOMAIN reports')
  <2>1. CASE r = p
    BY <2>1 DEF ProcessesInv
  <2>2. CASE r # p
    <3>1. process'[r] = process[r]
      BY <2>2 DEF ProcessesInv
    <3>2. ProcessInv(process[r], DOMAIN reports)
      BY DEF ProcessesInv
    <3> QED BY <3>1, <3>2, ProcessStays
  <2> QED BY <2>1, <2>2
<1> QED BY <1>1, <1>2 DEF ProcessesInv

(* A command that fails says so, and that it was interrupted only if so. *)
LEMMA FailExits ==
  ASSUME ProcessesInv, NEW p \in Processes, Active(p),
         UNCHANGED reports, Fail(p) \/ Exit(p, 2, FALSE) \/ Exit(p, 4, FALSE)
  PROVE  ProcessesInv'
<1>1. process[p] \in Working
  BY DEF ProcessesInv, ProcessInv, Active, Idle, Reading, Calling, Exited
<1> DEFINE Ending(code) == [at |-> "exited", code |-> code, published |-> FALSE,
                            cancelled |-> process[p].cancelled,
                            writes |-> Command(p).name # "require", short |-> Short(p)]
<1>2. ASSUME NEW code \in {2, 4, 130}, code = 130 => process[p].cancelled,
             process' = [process EXCEPT ![p] = Ending(code)]
      PROVE  ProcessesInv'
  <2> DEFINE q == Ending(code)
  <2>1. Exited(q)
    BY <1>2 DEF Exited
  <2>2. process' = [process EXCEPT ![p] = q]
    BY <1>2
  <2> HIDE DEF q
  <2>3. ProcessInv(q, DOMAIN reports') /\ DOMAIN reports \subseteq DOMAIN reports'
    BY <2>1 DEF ProcessInv
  <2> QED BY <2>2, <2>3, OneProcess
<1>3. process[p].published = FALSE /\ process[p].cancelled \in BOOLEAN
  BY <1>1 DEF Working
<1>4. CASE Fail(p)
  <2>1. CASE process[p].cancelled
    <3>1. process' = [process EXCEPT ![p] = Ending(130)]
      BY <1>3, <1>4, <2>1 DEF Fail, Exit
    <3> QED BY <1>2, <2>1, <3>1
  <2>2. CASE ~process[p].cancelled
    <3>1. process' = [process EXCEPT ![p] = Ending(2)]
      BY <1>3, <1>4, <2>2 DEF Fail, Exit
    <3> QED BY <1>2, <3>1
  <2> QED BY <2>1, <2>2
<1>5. CASE Exit(p, 2, FALSE)
  <2>1. process' = [process EXCEPT ![p] = Ending(2)]
    BY <1>5 DEF Exit
  <2> QED BY <1>2, <2>1
<1>6. CASE Exit(p, 4, FALSE)
  <2>1. process' = [process EXCEPT ![p] = Ending(4)]
    BY <1>6 DEF Exit
  <2> QED BY <1>2, <2>1
<1> QED BY <1>4, <1>5, <1>6

(* What a process is that has come to a call. *)
LEMMA CallHas ==
  ASSUME ProcessesInv, NEW p \in Processes, process[p].at = "calling"
  PROVE  /\ Calling(process[p], DOMAIN reports) /\ process[p] \in Working
         /\ Command(p) \in Commands /\ Command(p).name \in Names
         /\ process[p].next \in 1..Len(Calls(Command(p).name))
         /\ CallsAre(Command(p).name, Calls(Command(p).name)[process[p].next], process[p].next)
         /\ Holds(Command(p), process[p].next, process[p], DOMAIN reports)
<1>1. Calling(process[p], DOMAIN reports)
  BY DEF ProcessesInv, ProcessInv, Idle, Reading, Exited
<1>2. /\ process[p] \in Working /\ Command(p) \in Commands
      /\ process[p].next \in 1..Len(Calls(Command(p).name))
      /\ Holds(Command(p), process[p].next, process[p], DOMAIN reports)
  BY <1>1 DEF Calling, Working, Command
<1>3. Command(p).name \in Names
  BY <1>2, StagesAssumption DEF Names
<1> QED BY <1>1, <1>2, <1>3, Positions

(* A call that makes nothing leaves what is held. *)
LEMMA HoldsOn ==
  ASSUME NEW command, NEW i \in Nat, NEW q, NEW after, NEW generations,
         Holds(command, i, q, generations),
         i > 0, CallsAre(command.name, Calls(command.name)[i], i), command.name \in Names,
         Calls(command.name)[i] \notin
           {"merge", "analyze", "require", "render", "renameStage", "overview", "sync"},
         after.made = q.made, after.number = q.number,
         after.pages = q.pages \/ Calls(command.name)[i] = "stage",
         after.temp = q.temp \/ Calls(command.name)[i] \in {"create", "write"}
  PROVE  Holds(command, i + 1, after, generations)
<1> DEFINE call == Calls(command.name)[i]
<1>1. /\ command.name \in {"merge", "analyze"} => i > 1
      /\ command.name = "analyze" => i > 2
      /\ command.name = "reanalyze" => i > 1
      /\ command.name = "report" => i \notin {4, 7, 8}
      /\ command.name # "require"
      /\ i # SyncAt(command.name)
  BY DEF CallsAre, Names
<1>2. call = "stage" => i = 3
  BY DEF CallsAre
<1>3. call \in {"create", "write"} => i < SyncAt(command.name)
  BY DEF CallsAre
<1>4. SyncAt(command.name) \in Nat
  BY DEF SyncAt, Names
<1> QED BY <1>1, <1>2, <1>3, <1>4 DEF Holds, AsExpected

(* A process goes on to its next call with what it needs there, or ends    *)
(* successfully with its output in place.                                  *)
LEMMA ProceedsWell ==
  ASSUME ProcessesInv, NEW p \in Processes, process[p].at = "calling", NEW after,
         Proceed(p, after), DOMAIN reports \subseteq DOMAIN reports',
         process[p].next # Len(Calls(Command(p).name)) =>
           /\ after \in Working /\ after.at = "calling"
           /\ after.command = process[p].command /\ after.read = process[p].read
           /\ after.next = process[p].next
           /\ Holds(Command(p), process[p].next + 1, after, DOMAIN reports'),
         process[p].next = Len(Calls(Command(p).name)) => after.published = TRUE /\ ~Short(p)
  PROVE  ProcessesInv'
<1>1. CASE process[p].next = Len(Calls(Command(p).name))
  <2> DEFINE q == [at |-> "exited", code |-> 0, published |-> after.published,
                   cancelled |-> process[p].cancelled,
                   writes |-> Command(p).name # "require", short |-> Short(p)]
  <2>1. process' = [process EXCEPT ![p] = q]
    BY <1>1 DEF Proceed, Exit
  <2>2. Exited(q)
    BY <1>1 DEF Exited
  <2> HIDE DEF q
  <2> QED BY <2>1, <2>2, OneProcess DEF ProcessInv
<1>2. CASE process[p].next # Len(Calls(Command(p).name))
  <2> DEFINE q == [after EXCEPT !.next = @ + 1]
  <2>1. process' = [process EXCEPT ![p] = q]
    BY <1>2 DEF Proceed
  <2>2. /\ Calling(process[p], DOMAIN reports)
        /\ process[p].next \in 1..Len(Calls(Command(p).name))
    BY CallHas
  <2>3. Len(Calls(Command(p).name)) \in Nat
    BY CallHas, Positions
  <2>4. /\ q \in Working /\ q.at = "calling" /\ q.next = process[p].next + 1
        /\ q.command = process[p].command /\ q.read = process[p].read
        /\ q.made = after.made /\ q.pages = after.pages /\ q.temp = after.temp
        /\ q.number = after.number
    <3>1. after \in Working /\ after.next \in Nat
      BY <1>2 DEF Working
    <3> DEFINE next == after.next + 1
    <3>2. q \in Working /\ q.next = after.next + 1
      <4>1. q = [after EXCEPT !.next = next] /\ next \in Nat
        BY <3>1
      <4> HIDE DEF q, next
      <4>2. q \in Working /\ q.next = next
        BY <3>1, <4>1 DEF Working
      <4> QED BY <4>2 DEF next
    <3>3. /\ q.at = after.at /\ q.command = after.command /\ q.read = after.read
          /\ q.made = after.made /\ q.pages = after.pages /\ q.temp = after.temp
          /\ q.number = after.number
      BY <3>1 DEF Working
    <3> QED BY <1>2, <3>2, <3>3
  <2>5. q.next \in 1..Len(Calls(Command(p).name))
    BY <1>2, <2>2, <2>3, <2>4
  <2>6. Holds(Command(p), q.next, q, DOMAIN reports')
    BY <1>2, <2>4 DEF Holds
  <2> HIDE DEF q
  <2>7. Calling(q, DOMAIN reports')
    BY <2>2, <2>4, <2>5, <2>6 DEF Calling, Command
  <2> QED BY <2>1, <2>7, OneProcess DEF ProcessInv
<1> QED BY <1>1, <1>2
-----------------------------------------------------------------------------
(* A process starts with nothing but its command. *)
LEMMA StartProcess ==
  ASSUME SInv, NEW p \in Processes, Start(p)
  PROVE  ProcessesInv'
<1>1. PICK command \in Commands :
        process' = [process EXCEPT ![p] =
          [at |-> "reading", number |-> started', next |-> 1, command |-> command,
           read |-> <<>>, made |-> Absent, temp |-> "none", pages |-> "none",
           cancelled |-> FALSE, published |-> FALSE]]
  BY DEF Start
<1> DEFINE q == [at |-> "reading", number |-> started', next |-> 1, command |-> command,
                 read |-> <<>>, made |-> Absent, temp |-> "none", pages |-> "none",
                 cancelled |-> FALSE, published |-> FALSE]
<1>2. started' \in Nat /\ UNCHANGED reports
  BY DEF Start, SInv
<1>3. q \in Working
  BY <1>2 DEF Working, Contents
<1>4. 1 \in 1..Len(command.inputs)
  BY StagesAssumption
<1>5. Reading(q)
  BY <1>3, <1>4 DEF Reading
<1> HIDE DEF q
<1>6. process' = [process EXCEPT ![p] = q]
  BY <1>1 DEF q
<1> QED BY <1>2, <1>5, <1>6, OneProcess DEF ProcessInv, SInv

(* Reading keeps one decoded input of the right format for each that was read. *)
LEMMA ReadProcess ==
  ASSUME SInv, NEW p \in Processes, Read(p)
  PROVE  ProcessesInv'
<1> DEFINE command == Command(p)
           input == command.inputs[process[p].next]
           last == process[p].next = Len(command.inputs)
           q == [process[p] EXCEPT
                  !.read = Append(@, Decode(file[input])),
                  !.at = IF last THEN "calling" ELSE "reading",
                  !.next = IF last THEN 1 ELSE @ + 1]
<1>1. UNCHANGED reports /\ process[p].at = "reading" /\ ProcessesInv
  BY DEF Read, SInv
<1>2. \/ Exit(p, 4, FALSE) \/ Fail(p)
      \/ /\ Reads(file[input], Format(command.name))
         /\ process' = [process EXCEPT ![p] = q]
  BY <1>1 DEF Read
<1>3. CASE Exit(p, 4, FALSE) \/ Fail(p)
  BY <1>1, <1>3, FailExits DEF Active
<1>4. CASE /\ Reads(file[input], Format(command.name))
           /\ process' = [process EXCEPT ![p] = q]
  <2>1. Reading(process[p])
    BY <1>1 DEF ProcessesInv, ProcessInv, Idle, Calling, Exited
  <2>2. /\ command \in Commands /\ process[p] \in Working /\ Len(command.inputs) \in Nat
        /\ process[p].next \in 1..Len(command.inputs) /\ Len(process[p].read) = process[p].next - 1
        /\ process[p].read \in Seq(Files) /\ command.inputs \in Seq(DOMAIN Recorded)
        /\ \A i \in DOMAIN process[p].read : process[p].read[i] \in Inputs(command.name)
    <3>1. process[p] \in Working /\ command \in Commands /\ process[p].read \in Seq(Files)
      BY <2>1 DEF Reading, Working, Command
    <3>2. command.inputs \in Seq(DOMAIN Recorded)
      BY <3>1, StagesAssumption
    <3> QED BY <2>1, <3>1, <3>2 DEF Reading, Command
  <2>3. input \in DOMAIN Recorded
    BY <2>2
  <2>4. file[input] \in Contents
    BY <2>3 DEF SInv, FilesInv
  <2>5. Decode(file[input]) \in Inputs(command.name)
    BY <1>4, <2>4, ReadIs
  <2>6. Inputs(command.name) \subseteq Files
    BY DEF Inputs, Files
  <2> DEFINE d == Decode(file[input])
             read == Append(process[p].read, d)
  <2> HIDE DEF d
  <2>7. /\ read \in Seq(Files) /\ Len(read) = process[p].next
        /\ \A i \in DOMAIN read : read[i] \in Inputs(command.name)
    BY <2>2, <2>5, <2>6 DEF d
  <2>8. /\ q \in Working /\ q.read = read /\ q.command = command
        /\ q.at = IF last THEN "calling" ELSE "reading"
        /\ q.next = IF last THEN 1 ELSE process[p].next + 1
    <3> DEFINE at == IF last THEN "calling" ELSE "reading"
               next == IF last THEN 1 ELSE process[p].next + 1
    <3>1. q = [process[p] EXCEPT !.read = read, !.at = at, !.next = next]
      BY DEF d
    <3>2. at \in {"reading", "calling"} /\ next \in Nat /\ read \in Seq(Files)
      BY <2>2, <2>7
    <3> HIDE DEF at, next, q, read
    <3>3. q \in Working /\ q.read = read /\ q.at = at /\ q.next = next
      BY <2>2, <3>1, <3>2 DEF Working
    <3>4. q.command = command
      BY <2>2, <3>1 DEF Working, Command
    <3> QED BY <3>3, <3>4 DEF at, next
  <2> HIDE DEF q, read
  <2>9. CASE last
    <3>1. command.name \in Names
      BY <2>2, StagesAssumption DEF Names
    <3>2. 1 \in 1..Len(Calls(command.name))
      BY <3>1 DEF Names, Calls, MergeCalls, AnalyzeCalls, ReanalyzeCalls, ReportCalls
    <3>3. Holds(command, 1, q, DOMAIN reports')
      BY <3>1 DEF Holds, SyncAt, Names
    <3>4. Calling(q, DOMAIN reports')
      BY <2>7, <2>8, <2>9, <3>2, <3>3 DEF Calling
    <3> QED BY <1>1, <1>4, <3>4, OneProcess DEF ProcessInv
  <2>10. CASE ~last
    <3>1. Reading(q)
      BY <2>2, <2>7, <2>8, <2>10 DEF Reading
    <3> QED BY <1>1, <1>4, <3>1, OneProcess DEF ProcessInv
  <2> QED BY <2>9, <2>10
<1> QED BY <1>2, <1>3, <1>4

(* A call that makes nothing and publishes nothing. *)
LEMMA ProceedsEmpty ==
  ASSUME ProcessesInv, NEW p \in Processes, process[p].at = "calling", NEW after \in Working,
         Proceed(p, after), UNCHANGED reports,
         Calls(Command(p).name)[process[p].next] \notin
           {"merge", "analyze", "require", "render", "renameStage", "overview", "sync", "rename"},
         after.at = "calling", after.command = process[p].command,
         after.read = process[p].read, after.next = process[p].next,
         after.made = process[p].made, after.number = process[p].number,
         after.pages = process[p].pages \/ Calls(Command(p).name)[process[p].next] = "stage",
         after.temp = process[p].temp
           \/ Calls(Command(p).name)[process[p].next] \in {"create", "write"}
  PROVE  ProcessesInv'
<1> DEFINE command == Command(p)
           i == process[p].next
           q == process[p]
<1>1. /\ command.name \in Names /\ i \in Nat /\ i > 0
      /\ CallsAre(command.name, Calls(command.name)[i], i)
      /\ Holds(command, i, q, DOMAIN reports)
  BY CallHas, Positions
<1>2. command.name # "require" /\ i # Len(Calls(command.name))
  BY <1>1 DEF CallsAre
<1>3. Holds(command, i + 1, after, DOMAIN reports)
  <2> HIDE DEF command, i, q
  <2>1. /\ Calls(command.name)[i] \notin
             {"merge", "analyze", "require", "render", "renameStage", "overview", "sync"}
        /\ after.made = q.made /\ after.number = q.number
        /\ after.pages = q.pages \/ Calls(command.name)[i] = "stage"
        /\ after.temp = q.temp \/ Calls(command.name)[i] \in {"create", "write"}
    BY DEF command, i, q
  <2> QED BY <1>1, <2>1, HoldsOn
<1> QED BY <1>2, <1>3, ProceedsWell

(* Looking at the context. *)
LEMMA CheckProcess ==
  ASSUME SInv, NEW p \in Processes, CheckContext(p)
  PROVE  ProcessesInv'
<1>1. /\ UNCHANGED reports /\ ProcessesInv /\ process[p].at = "calling"
      /\ Calls(Command(p).name)[process[p].next] = "check"
      /\ Fail(p) \/ Proceed(p, process[p])
  BY DEF CheckContext, Call, SInv
<1>2. CASE Fail(p)
  BY <1>1, <1>2, FailExits DEF Active
<1>3. CASE Proceed(p, process[p])
  <2>1. process[p] \in Working
    BY <1>1, CallHas
  <2> QED BY <1>1, <1>3, <2>1, ProceedsEmpty
<1> QED BY <1>1, <1>2, <1>3

(* What has been merged is as it was expected. *)
LEMMA MergeProcess ==
  ASSUME SInv, NEW p \in Processes, MergeInputs(p)
  PROVE  ProcessesInv'
<1> DEFINE read == process[p].read
           command == Command(p)
           archives == [i \in DOMAIN read |-> read[i].archive]
           merged == Merge(archives, command.expected)
           after == [process[p] EXCEPT !.made = MeasurementFile(merged)]
<1>1. /\ UNCHANGED reports /\ ProcessesInv /\ process[p].at = "calling"
      /\ Calls(command.name)[process[p].next] = "merge"
      /\ Fail(p) \/ (~IsRefused(merged) /\ Proceed(p, after))
  BY DEF MergeInputs, Call, SInv
<1>2. CASE Fail(p)
  BY <1>1, <1>2, FailExits DEF Active
<1>3. CASE ~IsRefused(merged) /\ Proceed(p, after)
  <2>1. /\ process[p] \in Working /\ command \in Commands /\ command.name \in Names
        /\ Calling(process[p], DOMAIN reports) /\ process[p].next = 1
        /\ process[p].next \in 1..Len(Calls(command.name))
        /\ command.name \in {"merge", "analyze"}
    BY <1>1, CallHas DEF CallsAre
  <2>2. /\ read \in Seq(Files) /\ Len(read) = Len(command.inputs)
        /\ \A i \in DOMAIN read : read[i] \in MeasurementFiles
    BY <2>1 DEF Calling, Working, Inputs, Format, Command
  <2>3. command.inputs \in Seq(DOMAIN Recorded) /\ command.inputs # <<>> /\ command.expected \in Nat
    BY <2>1, StagesAssumption
  <2>4. Len(read) \in Nat \ {0} /\ archives \in [1..Len(read) -> Pool]
    BY <2>2, <2>3, MeasurementFileHas
  <2>5. /\ merged \in Pool
        /\ command.expected > 0 => Cardinality(merged.runs) = command.expected
    <3> HIDE DEF read, archives, command
    <3> QED BY <1>3, <2>3, <2>4, MergePools
  <2> DEFINE made == MeasurementFile(merged)
  <2> HIDE DEF merged
  <2>6. made \in MeasurementFiles /\ made.archive = merged /\ AsExpected(command, made)
    BY <2>5 DEF MeasurementFiles, MeasurementFile, AsExpected
  <2>7. made \in Contents
    BY <2>6 DEF Contents, Files
  <2> HIDE DEF made
  <2>8. /\ after \in Working /\ after.made = made /\ after.at = "calling"
        /\ after.command = process[p].command /\ after.read = process[p].read
        /\ after.next = process[p].next
    BY <1>1, <2>1, <2>7 DEF Working, made
  <2> HIDE DEF after
  <2>9. Holds(command, 2, after, DOMAIN reports)
    BY <2>1, <2>6, <2>8 DEF Holds, SyncAt
  <2>10. process[p].next # Len(Calls(command.name))
    BY <2>1, Positions
  <2>11. Holds(command, process[p].next + 1, after, DOMAIN reports')
    BY <1>1, <2>1, <2>9
  <2> QED BY <1>1, <1>3, <2>8, <2>10, <2>11, ProceedsWell
<1> QED BY <1>1, <1>2, <1>3

(* What has been analyzed is the archive that was merged, or read. *)
LEMMA AnalyzeProcess ==
  ASSUME SInv, NEW p \in Processes, AnalyzeArchive(p)
  PROVE  ProcessesInv'
<1> DEFINE command == Command(p)
           source == IF command.name = "analyze" THEN process[p].made ELSE process[p].read[1]
           limit == IF command.name = "reanalyze" /\ command.limit = 0
                    THEN source.limit ELSE command.limit
           made == ResultFile(source.archive, limit)
           after == [process[p] EXCEPT !.made = made]
<1>1. /\ UNCHANGED reports /\ ProcessesInv /\ process[p].at = "calling"
      /\ Calls(command.name)[process[p].next] = "analyze"
      /\ Exit(p, 4, FALSE) \/ Fail(p) \/ Proceed(p, after)
  BY DEF AnalyzeArchive, Call, SInv
<1>2. CASE Exit(p, 4, FALSE) \/ Fail(p)
  BY <1>1, <1>2, FailExits DEF Active
<1>3. CASE Proceed(p, after)
  <2> DEFINE i == process[p].next
  <2>1. /\ process[p] \in Working /\ command \in Commands /\ command.name \in Names
        /\ Calling(process[p], DOMAIN reports)
        /\ \/ command.name = "analyze" /\ i = 2
           \/ command.name = "reanalyze" /\ i = 1
        /\ Holds(command, i, process[p], DOMAIN reports)
    BY <1>1, CallHas DEF CallsAre
  <2>2. command.limit \in Nat
    BY <2>1, StagesAssumption
  <2>3. /\ source.archive \in Pool /\ limit \in Nat
        /\ command.name = "analyze" => AsExpected(command, source)
    <3>1. CASE command.name = "analyze"
      <4>1. source \in MeasurementFiles /\ AsExpected(command, source)
        BY <2>1, <3>1 DEF Holds
      <4> HIDE DEF source
      <4> QED BY <2>2, <3>1, <4>1, MeasurementFileHas
    <3>2. CASE command.name = "reanalyze"
      <4>1. Len(command.inputs) \in Nat \ {0}
        BY <2>1, StagesAssumption
      <4>2. process[p].read \in Seq(Files) /\ Len(process[p].read) = Len(command.inputs)
        BY <2>1 DEF Calling, Working, Command
      <4>3. 1 \in DOMAIN process[p].read
        BY <4>1, <4>2
      <4>4. process[p].read[1] \in ResultFiles
        BY <2>1, <3>2, <4>3 DEF Calling, Inputs, Format, Command
      <4>5. source \in ResultFiles
        BY <3>2, <4>4
      <4> HIDE DEF source
      <4> QED BY <2>2, <3>2, <4>5, ResultFileHas
    <3> QED BY <2>1, <3>1, <3>2
  <2> HIDE DEF source, limit
  <2>4. made \in ResultFiles /\ made.archive = source.archive
    BY <2>3 DEF ResultFiles, ResultFile
  <2>5. made \in Contents
    BY <2>4 DEF Contents, Files
  <2> HIDE DEF made
  <2>6. /\ after \in Working /\ after.made = made /\ after.at = "calling"
        /\ after.command = process[p].command /\ after.read = process[p].read
        /\ after.next = process[p].next
    BY <1>1, <2>1, <2>5 DEF Working
  <2> HIDE DEF after
  <2>7. Holds(command, i + 1, after, DOMAIN reports)
    BY <2>1, <2>3, <2>4, <2>6 DEF Holds, SyncAt, AsExpected
  <2>8. Len(Calls(command.name)) > SyncAt(command.name) /\ SyncAt(command.name) = 7
    BY <2>1, Positions DEF SyncAt, Calling, Command
  <2>9. Len(Calls(command.name)) # i
    BY <2>1, <2>8
  <2> QED BY <1>1, <1>3, <2>6, <2>7, <2>9, ProceedsWell
<1> QED BY <1>1, <1>2, <1>3

(* `require` ends with its answer. *)
LEMMA RequireProcess ==
  ASSUME SInv, NEW p \in Processes, Require(p)
  PROVE  ProcessesInv'
<1>1. /\ UNCHANGED reports /\ ProcessesInv /\ process[p].at = "calling"
      /\ Calls(Command(p).name)[process[p].next] = "require"
      /\ Fail(p) \/ \E code \in {0, 3} : Exit(p, code, FALSE)
  BY DEF Require, Call, SInv
<1>2. CASE Fail(p)
  BY <1>1, <1>2, FailExits DEF Active
<1>3. ASSUME NEW code \in {0, 3}, Exit(p, code, FALSE)
      PROVE  ProcessesInv'
  <2> DEFINE q == [at |-> "exited", code |-> code, published |-> FALSE,
                   cancelled |-> process[p].cancelled,
                   writes |-> Command(p).name # "require", short |-> Short(p)]
  <2>1. Command(p).name = "require"
    BY <1>1, CallHas DEF CallsAre
  <2>2. ~Short(p)
    BY <2>1 DEF Short
  <2>3. process' = [process EXCEPT ![p] = q]
    BY <1>3 DEF Exit
  <2>4. Exited(q)
    <3>1. ~q.writes
      BY <2>1
    <3>2. ~q.short
      BY <2>2
    <3>3. q.at = "exited" /\ q.code # 130
      OBVIOUS
    <3> HIDE DEF q
    <3> QED BY <3>1, <3>2, <3>3 DEF Exited
  <2> HIDE DEF q
  <2> QED BY <1>1, <2>3, <2>4, OneProcess DEF ProcessInv
<1> QED BY <1>1, <1>2, <1>3

(* The file is written through when the calls have come past "sync". *)
LEMMA WriteProcess ==
  ASSUME SInv, NEW p \in Processes, WriteTemporary(p)
  PROVE  ProcessesInv'
<1> DEFINE q == process[p]
           command == Command(p)
           call == Calls(command.name)[q.next]
<1>1. UNCHANGED reports /\ ProcessesInv /\ q.at = "calling"
  BY DEF WriteTemporary, Call, SInv
<1>2. /\ q \in Working /\ command.name \in Names /\ q.next \in 1..Len(Calls(command.name))
      /\ CallsAre(command.name, call, q.next)
      /\ Holds(command, q.next, q, DOMAIN reports)
  BY <1>1, CallHas
<1>3. CASE call = "create" /\ Proceed(p, [q EXCEPT !.temp = "empty"])
  <2> DEFINE after == [q EXCEPT !.temp = "empty"]
  <2>1. /\ after \in Working /\ after.at = q.at /\ after.command = q.command /\ after.read = q.read
        /\ after.next = q.next /\ after.made = q.made /\ after.number = q.number
        /\ after.pages = q.pages
    BY <1>2 DEF Working
  <2> HIDE DEF after
  <2>2. Proceed(p, after)
    BY <1>3 DEF after
  <2> QED BY <1>1, <1>3, <2>1, <2>2, ProceedsEmpty
<1>4. CASE call = "write" /\ Proceed(p, [q EXCEPT !.temp = "written"])
  <2> DEFINE after == [q EXCEPT !.temp = "written"]
  <2>1. /\ after \in Working /\ after.at = q.at /\ after.command = q.command /\ after.read = q.read
        /\ after.next = q.next /\ after.made = q.made /\ after.number = q.number
        /\ after.pages = q.pages
    BY <1>2 DEF Working
  <2> HIDE DEF after
  <2>2. Proceed(p, after)
    BY <1>4 DEF after
  <2> QED BY <1>1, <1>4, <2>1, <2>2, ProceedsEmpty
<1>5. CASE call = "sync" /\ Proceed(p, [q EXCEPT !.temp = "durable"])
  <2> DEFINE after == [q EXCEPT !.temp = "durable"]
  <2>1. /\ after \in Working /\ after.at = q.at /\ after.command = q.command /\ after.read = q.read
        /\ after.next = q.next /\ after.made = q.made /\ after.number = q.number
        /\ after.pages = q.pages /\ after.temp = "durable"
    BY <1>2 DEF Working
  <2> HIDE DEF after
  <2>2. Proceed(p, after)
    BY <1>5 DEF after
  <2>3. command.name # "require" /\ q.next = SyncAt(command.name)
    BY <1>2, <1>5 DEF CallsAre
  <2>4. q.next # Len(Calls(command.name))
    BY <1>2, <1>5, <2>3 DEF CallsAre
  <2>5. Holds(command, q.next + 1, after, DOMAIN reports')
    BY <1>1, <1>2, <2>1, <2>3 DEF Holds, AsExpected, SyncAt, Names
  <2> QED BY <1>1, <2>1, <2>2, <2>4, <2>5, ProceedsWell
<1>6. CASE call \in {"close", "chmod"} /\ Proceed(p, q)
  BY <1>1, <1>2, <1>6, ProceedsEmpty
<1>7. \/ call = "create" /\ Proceed(p, [q EXCEPT !.temp = "empty"])
      \/ call = "write" /\ Proceed(p, [q EXCEPT !.temp = "written"])
      \/ call = "sync" /\ Proceed(p, [q EXCEPT !.temp = "durable"])
      \/ call \in {"close", "chmod"} /\ Proceed(p, q)
  BY DEF WriteTemporary, Call
<1> QED BY <1>3, <1>4, <1>5, <1>6, <1>7

(* The pages are whole when they are put in place. *)
LEMMA StagePagesProcess ==
  ASSUME SInv, NEW p \in Processes, StagePages(p)
  PROVE  ProcessesInv'
<1> DEFINE q == process[p]
           command == Command(p)
           call == Calls(command.name)[q.next]
<1>1. UNCHANGED reports /\ ProcessesInv /\ q.at = "calling"
  BY DEF StagePages, Call, SInv
<1>2. /\ q \in Working /\ command.name \in Names /\ q.next \in 1..Len(Calls(command.name))
      /\ CallsAre(command.name, call, q.next)
      /\ Holds(command, q.next, q, DOMAIN reports)
  BY <1>1, CallHas
<1>3. CASE call = "stage" /\ Proceed(p, [q EXCEPT !.pages = "partial"])
  <2> DEFINE after == [q EXCEPT !.pages = "partial"]
  <2>1. /\ after \in Working /\ after.at = q.at /\ after.command = q.command /\ after.read = q.read
        /\ after.next = q.next /\ after.made = q.made /\ after.number = q.number
        /\ after.temp = q.temp
    BY <1>2 DEF Working
  <2> HIDE DEF after
  <2>2. Proceed(p, after)
    BY <1>3 DEF after
  <2> QED BY <1>1, <1>3, <2>1, <2>2, ProceedsEmpty
<1>4. CASE call = "render" /\ Proceed(p, [q EXCEPT !.pages = "whole"])
  <2> DEFINE after == [q EXCEPT !.pages = "whole"]
  <2>1. /\ after \in Working /\ after.at = q.at /\ after.command = q.command /\ after.read = q.read
        /\ after.next = q.next /\ after.pages = "whole"
    BY <1>2 DEF Working
  <2> HIDE DEF after
  <2>2. Proceed(p, after)
    BY <1>4 DEF after
  <2>3. command.name = "report" /\ q.next = 4
    BY <1>2, <1>4 DEF CallsAre
  <2>4. q.next # Len(Calls(command.name))
    BY <1>2, <1>4, <2>3 DEF CallsAre
  <2>5. Holds(command, q.next + 1, after, DOMAIN reports')
    BY <2>1, <2>3 DEF Holds, SyncAt
  <2> QED BY <1>1, <2>1, <2>2, <2>4, <2>5, ProceedsWell
<1>5. CASE call = "validate" /\ Proceed(p, q)
  BY <1>1, <1>2, <1>5, ProceedsEmpty
<1>6. CASE call = "overview" /\ Proceed(p, [q EXCEPT !.made = EntryFile(q.number)])
  <2> DEFINE after == [q EXCEPT !.made = EntryFile(q.number)]
  <2>1. EntryFile(q.number) \in Contents
    BY <1>2 DEF Contents, EntryFiles, Working
  <2>2. /\ after \in Working /\ after.at = q.at /\ after.command = q.command /\ after.read = q.read
        /\ after.next = q.next /\ after.number = q.number /\ after.made = EntryFile(q.number)
    BY <1>2, <2>1 DEF Working
  <2> HIDE DEF after
  <2>3. Proceed(p, after)
    BY <1>6 DEF after
  <2>4. command.name = "report" /\ q.next = 8
    BY <1>2, <1>6 DEF CallsAre
  <2>5. q.next # Len(Calls(command.name))
    BY <1>2, <1>6, <2>4 DEF CallsAre
  <2>6. Holds(command, q.next + 1, after, DOMAIN reports')
    BY <1>1, <1>2, <2>2, <2>4 DEF Holds, SyncAt
  <2> QED BY <1>1, <2>2, <2>3, <2>5, <2>6, ProceedsWell
<1>7. \/ call = "stage" /\ Proceed(p, [q EXCEPT !.pages = "partial"])
      \/ call = "render" /\ Proceed(p, [q EXCEPT !.pages = "whole"])
      \/ call = "validate" /\ Proceed(p, q)
      \/ call = "overview" /\ Proceed(p, [q EXCEPT !.made = EntryFile(q.number)])
  BY DEF StagePages, Call
<1> QED BY <1>3, <1>4, <1>5, <1>6, <1>7

(* The pages of a stage that is put in place are whole. *)
LEMMA RenameStageProcess ==
  ASSUME SInv, NEW p \in Processes, RenameStage(p)
  PROVE  /\ ProcessesInv'
         /\ DOMAIN reports \subseteq DOMAIN reports'
         /\ \A g \in DOMAIN reports' :
              reports'[g] = "whole" \/ (g \in DOMAIN reports /\ reports'[g] = reports[g])
<1> DEFINE q == process[p]
           command == Command(p)
           after == [q EXCEPT !.pages = "none"]
<1>1. /\ ProcessesInv /\ q.at = "calling" /\ Calls(command.name)[q.next] = "renameStage"
      /\ reports' = [g \in DOMAIN reports \union {q.number} |->
                       IF g = q.number THEN q.pages ELSE reports[g]]
      /\ Proceed(p, after)
  BY DEF RenameStage, Call, SInv
<1>2. /\ q \in Working /\ command.name = "report" /\ q.next = 7
      /\ q.next \in 1..Len(Calls(command.name))
      /\ q.next # Len(Calls(command.name))
      /\ Holds(command, q.next, q, DOMAIN reports)
  BY <1>1, CallHas DEF CallsAre
<1>3. q.pages = "whole"
  BY <1>2 DEF Holds
<1>4. /\ after \in Working /\ after.at = q.at /\ after.command = q.command /\ after.read = q.read
      /\ after.next = q.next /\ after.number = q.number
  BY <1>2 DEF Working
<1> HIDE DEF after
<1>5. q.number \in DOMAIN reports' /\ DOMAIN reports \subseteq DOMAIN reports'
  BY <1>1
<1>6. Holds(command, q.next + 1, after, DOMAIN reports')
  BY <1>2, <1>4, <1>5 DEF Holds, SyncAt
<1>7. ProcessesInv'
  BY <1>1, <1>2, <1>4, <1>5, <1>6, ProceedsWell
<1> QED BY <1>1, <1>3, <1>5, <1>7

(* What is put in place by a rename was made, and has been written through.*)
LEMMA RenameProcess ==
  ASSUME SInv, NEW p \in Processes, Rename(p)
  PROVE  /\ ProcessesInv'
         /\ process[p].temp = "durable"
         /\ process[p].made \in MeasurementFiles \union ResultFiles
              \/ (/\ process[p].number \in DOMAIN reports /\ process[p].number \in Nat
                  /\ process[p].made = EntryFile(process[p].number))
<1> DEFINE q == process[p]
           command == Command(p)
           after == [q EXCEPT !.temp = "none", !.published = TRUE]
<1>1. /\ UNCHANGED reports /\ ProcessesInv /\ q.at = "calling"
      /\ Calls(command.name)[q.next] = "rename" /\ Proceed(p, after)
  BY DEF Rename, Call, SInv
<1>2. /\ q \in Working /\ command.name \in Names
      /\ q.next \in 1..Len(Calls(command.name)) /\ Len(Calls(command.name)) \in Nat
      /\ Holds(command, q.next, q, DOMAIN reports)
      /\ CallsAre(command.name, Calls(command.name)[q.next], q.next)
  BY <1>1, CallHas, Positions
<1>3. command.name # "require" /\ q.next = Len(Calls(command.name))
  BY <1>1, <1>2 DEF CallsAre
<1>4. /\ q.next > SyncAt(command.name)
      /\ command.name \in {"merge", "analyze"} => q.next > 2
  BY <1>2, <1>3, Positions
<1>5. /\ SyncAt(command.name) > 1 /\ SyncAt(command.name) \in Nat
      /\ command.name = "report" => SyncAt(command.name) > 8
  BY <1>2, <1>3 DEF SyncAt, Names
<1>6. q.temp = "durable"
  BY <1>2, <1>4 DEF Holds
<1>7. \/ q.made \in MeasurementFiles \union ResultFiles
      \/ /\ q.number \in DOMAIN reports /\ q.number \in Nat
         /\ q.made = EntryFile(q.number)
  <2>1. q.number \in Nat
    BY <1>2 DEF Working
  <2>2. q.next > 1 /\ (command.name = "report" => q.next > 8)
    BY <1>2, <1>4, <1>5
  <2> QED BY <1>2, <1>3, <1>4, <2>1, <2>2 DEF Holds, Names
<1>8. ~Short(p)
  <2>1. command.name \in {"merge", "analyze"} => AsExpected(command, q.made)
    BY <1>2, <1>4 DEF Holds
  <2> QED BY <2>1 DEF Short, AsExpected
<1>9. after.published = TRUE
  BY <1>2 DEF Working
<1> HIDE DEF after
<1>10. ProcessesInv'
  BY <1>1, <1>3, <1>8, <1>9, ProceedsWell
<1> QED BY <1>6, <1>7, <1>10

(* Failures, cancellations and kills. *)
LEMMA FaultProcess ==
  ASSUME SInv, NEW p \in Processes, FailCall(p) \/ Cancel(p) \/ Kill(p)
  PROVE  ProcessesInv'
<1>1. UNCHANGED reports /\ ProcessesInv /\ Active(p)
  BY DEF FailCall, Cancel, Kill, SInv
<1>2. CASE FailCall(p)
  BY <1>1, <1>2, FailExits DEF FailCall
<1>3. CASE Cancel(p)
  <2> DEFINE q == [process[p] EXCEPT !.cancelled = TRUE]
  <2>1. process' = [process EXCEPT ![p] = q]
    BY <1>3 DEF Cancel
  <2>2. Reading(process[p]) \/ Calling(process[p], DOMAIN reports)
    BY <1>1 DEF ProcessesInv, ProcessInv, Active, Idle, Exited
  <2>3. process[p] \in Working
    BY <2>2 DEF Reading, Calling
  <2>4. /\ q \in Working /\ q.at = process[p].at /\ q.next = process[p].next
        /\ q.command = process[p].command /\ q.read = process[p].read
        /\ q.made = process[p].made /\ q.number = process[p].number
        /\ q.pages = process[p].pages /\ q.temp = process[p].temp
    BY <2>3 DEF Working
  <2> HIDE DEF q
  <2>5. Reading(process[p]) => Reading(q)
    BY <2>4 DEF Reading
  <2>6. Calling(process[p], DOMAIN reports) => Calling(q, DOMAIN reports)
    BY <2>4 DEF Calling, Holds
  <2> QED BY <1>1, <2>1, <2>2, <2>5, <2>6, OneProcess DEF ProcessInv
<1>4. CASE Kill(p)
  BY <1>1, <1>4, OneProcess DEF Kill, ProcessInv
<1> QED BY <1>2, <1>3, <1>4
-----------------------------------------------------------------------------
(* Without a power failure generations only come: entry pages keep theirs. *)
LEMMA FilesStay ==
  ASSUME FilesInv, UNCHANGED <<file, afterwards, powerFailures>>, DOMAIN reports \subseteq DOMAIN reports'
  PROVE  FilesInv'
BY DEF FilesInv

(* A rename puts a whole file in place of what was there. *)
LEMMA RenameFiles ==
  ASSUME SInv, NEW p \in Processes, Rename(p)
  PROVE  FilesInv'
<1> DEFINE output == Command(p).output
           made == process[p].made
<1>1. /\ file' = [file EXCEPT ![output] = made]
      /\ afterwards' = [afterwards EXCEPT ![output] = @ \union {made}]
      /\ UNCHANGED reports /\ UNCHANGED powerFailures
  <2>1. process[p].temp = "durable"
    BY RenameProcess
  <2> QED BY <2>1 DEF Rename, counters
<1>2. CASE made \in MeasurementFiles \union ResultFiles
  <2>1. made \in Contents /\ made.format # "entry" /\ made # Absent
    BY <1>2, MeasurementFileHas, ResultFileHas DEF Contents, Files, Absent
  <2> HIDE DEF made
  <2> QED BY <1>1, <2>1 DEF SInv, FilesInv
<1>3. CASE /\ process[p].number \in DOMAIN reports /\ process[p].number \in Nat
           /\ made = EntryFile(process[p].number)
  <2>1. made \in Contents /\ made.to \in DOMAIN reports /\ made # Absent
    BY <1>3 DEF Contents, EntryFiles, EntryFile, Absent
  <2> HIDE DEF made
  <2> QED BY <1>1, <2>1 DEF SInv, FilesInv
<1> QED BY <1>2, <1>3, RenameProcess

(* `require` says what its input says of the recorded archives in it. *)
LEMMA RequireAnswers ==
  ASSUME SInv, NEW p \in Processes, Require(p)
  PROVE  AnswersInv'
<1> DEFINE source == process[p].read[1]
           satisfied == Satisfied(source.archive, source.limit)
           answer == [shards |-> source.archive.shards, limit |-> source.limit,
                      satisfied |-> satisfied]
           Right(a) == a.satisfied <=> \A s \in a.shards :
             Satisfied([plan |-> Recorded[s].archive.plan, runs |-> Pooled(a.shards)], a.limit)
<1>1. /\ process[p].at = "calling" /\ Calls(Command(p).name)[process[p].next] = "require"
      /\ UNCHANGED answers \/ answers' = answers \union {answer}
  BY DEF Require, Call
<1>2. Right(answer)
  <2>1. /\ Command(p).name = "require" /\ Command(p) \in Commands
        /\ Calling(process[p], DOMAIN reports)
    BY <1>1, CallHas DEF CallsAre, SInv
  <2>2. Len(Command(p).inputs) = 1
    BY <2>1, StagesAssumption
  <2>3. process[p].read \in Seq(Files) /\ Len(process[p].read) = 1
    BY <2>1, <2>2 DEF Calling, Working, Command
  <2>4. source \in ResultFiles
    BY <2>1, <2>3 DEF Calling, Inputs, Format, Command
  <2> HIDE DEF source
  <2>5. source.archive \in Pool
    BY <2>4, ResultFileHas
  <2> DEFINE a == source.archive
  <2> HIDE DEF a
  <2>6. /\ a.shards # {} /\ a.runs = Pooled(a.shards)
        /\ \A s \in a.shards : Recorded[s].archive.plan = a.plan
    BY <2>5, PoolHas DEF a
  <2>7. \A s \in a.shards :
          Satisfied([plan |-> Recorded[s].archive.plan, runs |-> Pooled(a.shards)], source.limit)
            <=> Satisfied(a, source.limit)
    BY <2>6 DEF Satisfied
  <2>8. satisfied <=> Satisfied(a, source.limit)
    BY DEF a
  <2>9. answer.shards = a.shards /\ answer.limit = source.limit
    BY DEF a
  <2>10. answer.satisfied <=> satisfied
    OBVIOUS
  <2> HIDE DEF answer, satisfied
  <2> QED BY <2>6, <2>7, <2>8, <2>9, <2>10
<1> HIDE DEF answer
<1>3. \A a \in answers : Right(a)
  BY DEF SInv, AnswersInv
<1>4. \A a \in answers' : Right(a)
  <2> HIDE DEF Right
  <2> QED BY <1>1, <1>2, <1>3
<1> QED BY <1>4 DEF AnswersInv

(* A power failure leaves of each path one of what it may leave. *)
LEMMA PowerFailureKeeps ==
  ASSUME SInv, PowerFailure
  PROVE  SInv'
<1> DEFINE unsettled == {path \in DOMAIN file : Cardinality(afterwards[path]) > 1}
<1>1. PICK left \in [unsettled -> UNION {afterwards[path] : path \in unsettled}] :
        /\ \A path \in unsettled : left[path] \in afterwards[path]
        /\ file' = [path \in DOMAIN file |-> IF path \in unsettled THEN left[path] ELSE file[path]]
  BY DEF PowerFailure
<1>2. /\ afterwards' = [path \in DOMAIN file |-> {file'[path]}]
      /\ process' = [p \in Processes |-> Idle]
      /\ powerFailures' = powerFailures + 1
      /\ UNCHANGED <<answers, started>>
  BY DEF PowerFailure
<1> HIDE DEF unsettled
<1>3. ProcessesInv'
  BY <1>2 DEF ProcessesInv, ProcessInv
<1>4. FilesInv'
  <2>1. DOMAIN file' = DOMAIN Recorded /\ DOMAIN afterwards' = DOMAIN Recorded
    BY <1>1, <1>2 DEF SInv, FilesInv
  <2>2. \A path \in DOMAIN Recorded : file'[path] \in afterwards[path]
    BY <1>1 DEF SInv, FilesInv
  <2>3. \A path \in DOMAIN Recorded : afterwards'[path] = {file'[path]}
    BY <1>1, <1>2 DEF SInv, FilesInv
  <2>4. powerFailures' # 0
    BY <1>2 DEF SInv
  <2> QED BY <1>2, <2>1, <2>2, <2>3, <2>4 DEF SInv, FilesInv
<1>5. ReportsInv' /\ AnswersInv' /\ started' \in Nat /\ powerFailures' \in Nat
  BY <1>2 DEF SInv, ReportsInv, AnswersInv
<1> QED BY <1>3, <1>4, <1>5 DEF SInv

(* The invariant is inductive: one step for each action. *)
LEMMA StagesNext ==
  ASSUME SInv, [Next]_vars
  PROVE  SInv'
<1>1. ASSUME NEW p \in Processes, Start(p)
      PROVE  SInv'
  <2>1. UNCHANGED <<file, afterwards, reports, answers, powerFailures>> /\ started' \in Nat
    BY <1>1 DEF Start, SInv
  <2> QED BY <1>1, <2>1, StartProcess, FilesStay DEF SInv, ReportsInv, AnswersInv
<1>2. ASSUME ProcessesInv', UNCHANGED <<file, afterwards, reports, answers, started, powerFailures>>
      PROVE  SInv'
  BY <1>2, FilesStay DEF SInv, ReportsInv, AnswersInv
<1>3. ASSUME NEW p \in Processes, Read(p)
      PROVE  SInv'
  BY <1>2, <1>3, ReadProcess DEF Read, counters
<1>4. ASSUME NEW p \in Processes, CheckContext(p)
      PROVE  SInv'
  BY <1>2, <1>4, CheckProcess DEF CheckContext, counters
<1>5. ASSUME NEW p \in Processes, MergeInputs(p)
      PROVE  SInv'
  BY <1>2, <1>5, MergeProcess DEF MergeInputs, counters
<1>6. ASSUME NEW p \in Processes, AnalyzeArchive(p)
      PROVE  SInv'
  <2>1. UNCHANGED <<file, afterwards, reports, answers, started, powerFailures>>
    BY <1>6 DEF AnalyzeArchive, counters
  <2> QED BY <1>2, <1>6, <2>1, AnalyzeProcess
<1>7. ASSUME NEW p \in Processes, Require(p)
      PROVE  SInv'
  <2>1. UNCHANGED <<file, afterwards, reports, started, powerFailures>>
    BY <1>7 DEF Require, counters
  <2> QED BY <1>7, <2>1, RequireProcess, RequireAnswers, FilesStay DEF SInv, ReportsInv
<1>8. ASSUME NEW p \in Processes, WriteTemporary(p)
      PROVE  SInv'
  BY <1>2, <1>8, WriteProcess DEF WriteTemporary, counters
<1>9. ASSUME NEW p \in Processes, Rename(p)
      PROVE  SInv'
  <2>1. UNCHANGED <<reports, answers, started, powerFailures>>
    BY <1>9 DEF Rename, counters
  <2>2. ProcessesInv'
    BY <1>9, RenameProcess
  <2> QED BY <1>9, <2>1, <2>2, RenameFiles DEF SInv, ReportsInv, AnswersInv
<1>10. ASSUME NEW p \in Processes, StagePages(p)
       PROVE  SInv'
  BY <1>2, <1>10, StagePagesProcess DEF StagePages, counters
<1>11. ASSUME NEW p \in Processes, RenameStage(p)
       PROVE  SInv'
  <2>1. UNCHANGED <<file, afterwards, answers, started, powerFailures>>
    BY <1>11 DEF RenameStage, counters
  <2>2. /\ ProcessesInv' /\ DOMAIN reports \subseteq DOMAIN reports'
        /\ \A g \in DOMAIN reports' :
             reports'[g] = "whole" \/ (g \in DOMAIN reports /\ reports'[g] = reports[g])
    BY <1>11, RenameStageProcess
  <2>3. ReportsInv'
    BY <2>1, <2>2 DEF SInv, ReportsInv
  <2> QED BY <2>1, <2>2, <2>3, FilesStay DEF SInv, AnswersInv
<1>12. ASSUME NEW p \in Processes, FailCall(p) \/ Cancel(p) \/ Kill(p)
       PROVE  SInv'
  <2>1. UNCHANGED <<file, afterwards, reports, answers, started, powerFailures>>
    BY <1>12 DEF FailCall, Cancel, Kill, counters
  <2> QED BY <1>2, <1>12, <2>1, FaultProcess
<1>13. CASE UNCHANGED vars
  <2>1. ProcessesInv'
    BY <1>13 DEF vars, SInv, ProcessesInv
  <2> QED BY <1>2, <1>13, <2>1 DEF vars
<1> QED BY <1>1, <1>3, <1>4, <1>5, <1>6, <1>7, <1>8, <1>9, <1>10, <1>11, <1>12, <1>13,
           PowerFailureKeeps DEF Next

(***************************************************************************)
(* What is at every path is whole and was put there by a command that had  *)
(* made it; every process holds, at the call it has come to, what the rest *)
(* of its calls relies on.                                                 *)
(***************************************************************************)
THEOREM StagesInvariant == Spec => []SInv
BY StagesInit, StagesNext, PTL DEF Spec

(* The invariant is strong enough for the four properties. *)
LEMMA InvariantSuffices ==
  ASSUME SInv
  PROVE  FilesAreWhole /\ EntryLeadsToReport /\ ExitTellsTheTruth /\ SameShardsSameArchive
<1>1. \A path \in DOMAIN file :
        /\ file[path] \in Contents
        /\ Recorded[path] # Absent => file[path] # Absent
        /\ file[path].format = "entry" /\ powerFailures = 0 => file[path].to \in DOMAIN reports
  BY DEF SInv, FilesInv
<1>2. FilesAreWhole
  BY <1>1, ContentsAre DEF FilesAreWhole
<1>3. EntryLeadsToReport
  BY <1>1 DEF EntryLeadsToReport, SInv, ReportsInv
<1>4. ExitTellsTheTruth
  <2> SUFFICES ASSUME NEW p \in Processes, process[p].at = "exited"
               PROVE  Exited(process[p])
    BY DEF ExitTellsTheTruth, Exited
  <2> QED BY DEF SInv, ProcessesInv, ProcessInv, Idle, Reading, Calling
<1>5. SameShardsSameArchive
  <2>1. ASSUME NEW path \in DOMAIN file,
               file[path].format \in {"measurement", "result", "result-2.0"}
        PROVE  LET found == Decode(file[path])
               IN  /\ found.archive.runs = Pooled(found.archive.shards)
                   /\ found.format = "result" => found.report = ReportOf(found.archive, found.limit)
    <3>1. Decode(file[path]) \in MeasurementFiles \union ResultFiles
      <4>1. file[path] \in Files
        BY <1>1, <2>1, ContentsAre
      <4> QED BY <4>1, MeasurementFileHas, ResultFileHas, OldResultFileHas DEF Files, Decode
    <3> QED BY <3>1, MeasurementFileHas, ResultFileHas, PoolHas
  <2>2. AnswersInv
    BY DEF SInv
  <2> QED BY <2>1, <2>2 DEF SameShardsSameArchive, AnswersInv
<1> QED BY <1>2, <1>3, <1>4, <1>5

(***************************************************************************)
(* Whatever fails or stops, commands leave whole files, for any number of  *)
(* processes, commands and failures.                                       *)
(***************************************************************************)
THEOREM StagesFilesAreWhole == Spec => []FilesAreWhole
BY StagesInvariant, InvariantSuffices, PTL

(***************************************************************************)
(* An entry page never leads to a report that is not there; it is whole    *)
(* unless the power has failed.                                            *)
(***************************************************************************)
THEOREM StagesEntryLeadsToReport == Spec => []EntryLeadsToReport
BY StagesInvariant, InvariantSuffices, PTL

(* The exit code of a command says what became of its output. *)
THEOREM StagesExitTellsTheTruth == Spec => []ExitTellsTheTruth
BY StagesInvariant, InvariantSuffices, PTL

(***************************************************************************)
(* Grouping, order and repetition of the recorded archives do not matter   *)
(* to what is merged, shown and required of them.                          *)
(***************************************************************************)
THEOREM StagesSameShardsSameArchive == Spec => []SameShardsSameArchive
BY StagesInvariant, InvariantSuffices, PTL
=============================================================================
