------------------------------- MODULE Stages -------------------------------
(***************************************************************************)
(* The offline commands (internal/cli: runMeasurementStage, runReanalysis, *)
(* runReport with HTML, runRequire) of several processes over the same     *)
(* files, each publishing what it made by renaming a temporary file        *)
(* (measurement.Publish, resultfile.WriteContext, publishHTMLEntry) or a   *)
(* staged directory (WriteHTMLDirectory).  Any call may fail, a command    *)
(* may be cancelled or killed between any two calls, and the power may     *)
(* fail.  The names of temporary files are unique: only their owner's      *)
(* state of them is kept.                                                  *)
(***************************************************************************)
EXTENDS Archives

CONSTANTS
  Processes,
  Recorded,       \* the files at the start, by path; paths without a file are absent
  Commands,       \* what may be run
  MaxCommands, MaxFaults, MaxPowerFailures   \* bounds

ASSUME StagesAssumption ==
  /\ {MaxCommands, MaxFaults, MaxPowerFailures} \subseteq Nat
  /\ \A c \in Commands :
       /\ c.name \in {"merge", "analyze", "reanalyze", "report", "require"}
       /\ c.inputs \in Seq(DOMAIN Recorded) /\ c.inputs # <<>>
       /\ c.name \notin {"merge", "analyze"} => Len(c.inputs) = 1
       /\ c.name # "require" => c.output \in DOMAIN Recorded
       /\ c.name \in {"merge", "analyze"} => c.expected \in Nat
       /\ c.name \in {"analyze", "reanalyze"} => c.limit \in Nat

(* The executions of the recorded archives.  A file at the start may be    *)
(* one of them, or a merged archive or saved result made of them earlier.  *)
Pooled(shards) == UNION {Recorded[s].archive.runs : s \in shards}

IsPooled(archive) ==
  /\ archive.shards # {}
  /\ \A s \in archive.shards : /\ s \in DOMAIN Recorded /\ Recorded[s].format = "measurement"
                              /\ Recorded[s].archive.plan = archive.plan
  /\ archive = [plan |-> archive.plan, runs |-> Pooled(archive.shards), shards |-> archive.shards]

ASSUME RecordedAssumption ==
  \A path \in DOMAIN Recorded :
    LET f == Recorded[path]
    IN  /\ f.format \in {"absent", "measurement", "result", "result-2.0"}
        /\ f.format = "absent" => f = Absent
        /\ f.format # "absent" => IsPooled(f.archive)
        /\ f.format = "measurement" => f = MeasurementFile(f.archive)
        /\ f.format = "result" => f.limit \in Nat /\ f = ResultFile(f.archive, f.limit)
        /\ f.format = "result-2.0" =>
             /\ f.report.limit \in Nat
             /\ f = [format |-> "result-2.0", archive |-> f.archive,
                     report |-> ReportOf(f.archive, f.report.limit)]

VARIABLES
  file,         \* what is at a path
  afterwards,   \* what a power failure may leave there
  reports,      \* the generations of the HTML report by the number of their command, whole or torn
  process,      \* each process: its command, where it is in it, and what it holds
  answers,      \* what `require` has said, of which shards and limit
  started, faults, powerFailures   \* bounded

vars == <<file, afterwards, reports, process, answers, started, faults, powerFailures>>
counters == <<started, faults, powerFailures>>

(* The calls of a command after its inputs are read.  "check" looks at the *)
(* context.                                                                *)
(* A mistake: the file is not written through. *)
MergeCallsNoSync == <<"merge", "check", "create", "write", "close", "check", "rename">>

(* A mistake: the context is looked at once more, after the file is in place. *)
MergeCallsCheckLast ==
  <<"merge", "check", "create", "write", "sync", "close", "check", "rename", "check">>

MergeCalls == <<"merge", "check", "create", "write", "sync", "close", "check", "rename">>

AnalyzeCalls ==
  <<"merge", "analyze", "check", "check", "create", "write", "sync", "close", "check", "rename">>

ReanalyzeCalls ==
  <<"analyze", "check", "check", "check", "create", "write", "sync", "close", "check", "rename">>

(* A mistake: the entry page is replaced before the pages are in place. *)
ReportCallsEntryFirst ==
  <<"check", "check", "stage", "render", "validate", "overview", "create", "write", "sync",
    "close", "chmod", "check", "rename", "check", "renameStage">>

ReportCalls ==
  <<"check", "check", "stage", "render", "validate", "check", "renameStage", "overview",
    "create", "write", "sync", "close", "chmod", "check", "rename">>

Calls(name) ==
  CASE name = "merge"     -> MergeCalls
    [] name = "analyze"   -> AnalyzeCalls
    [] name = "reanalyze" -> ReanalyzeCalls
    [] name = "report"    -> ReportCalls
    [] name = "require"   -> <<"require">>

Idle == [at |-> "idle"]

Init ==
  /\ file = Recorded
  /\ afterwards = [path \in DOMAIN Recorded |-> {Recorded[path]}]
  /\ reports = <<>>
  /\ process = [p \in Processes |-> Idle]
  /\ answers = {}
  /\ started = 0 /\ faults = 0 /\ powerFailures = 0

Command(p) == process[p].command
Active(p) == process[p].at \in {"reading", "calling"}

Start(p) ==
  /\ ~Active(p) /\ started < MaxCommands
  /\ started' = started + 1
  /\ \E command \in Commands :
       process' = [process EXCEPT ![p] =
         [at |-> "reading", number |-> started', next |-> 1, command |-> command,
          read |-> <<>>, made |-> Absent, temp |-> "none", pages |-> "none",
          cancelled |-> FALSE, published |-> FALSE]]
  /\ UNCHANGED <<file, afterwards, reports, answers, faults, powerFailures>>

(* Fewer or more executions than were expected.                            *)
Short(p) ==
  /\ Command(p).name \in {"merge", "analyze"} /\ Command(p).expected > 0
  /\ process[p].made # Absent
  /\ Cardinality(process[p].made.archive.runs) # Command(p).expected

(* A command ends with its exit code; deferred calls remove what it has    *)
(* not renamed.  What is kept of it is for the properties alone.           *)
Exit(p, code, published) ==
  process' = [process EXCEPT ![p] =
    [at |-> "exited", code |-> code, published |-> published,
     cancelled |-> process[p].cancelled,
     writes |-> Command(p).name # "require", short |-> Short(p)]]

(* An error is an interruption if the context is done by now.              *)
Fail(p) == Exit(p, IF process[p].cancelled THEN 130 ELSE 2, process[p].published)

(* The next call, with what the process holds after this one, or the       *)
(* successful end.                                                         *)
Proceed(p, after) ==
  IF process[p].next = Len(Calls(Command(p).name)) THEN Exit(p, 0, after.published)
  ELSE process' = [process EXCEPT ![p] = [after EXCEPT !.next = @ + 1]]

EntryFile(number) == [format |-> "entry", to |-> number]
-----------------------------------------------------------------------------
(* Each input is opened and decoded before the next is looked at.  `report`*)
(* compares the paths before it looks at the context.                      *)
(* An input must not be what the command writes (checkDistinctOutput).     *)
Overwrites(command, input) == command.name # "require" /\ input = command.output

Format(name) == IF name \in {"merge", "analyze"} THEN "measurement" ELSE "result"

Read(p) ==
  LET command == Command(p)
      input == command.inputs[process[p].next]
      same == Overwrites(command, input)
      last == process[p].next = Len(command.inputs)
  IN  /\ process[p].at = "reading"
      /\ CASE same /\ (command.name = "report" \/ ~process[p].cancelled) ->
                Exit(p, 4, FALSE)
           [] ~same /\ ~process[p].cancelled /\ Reads(file[input], Format(command.name)) ->
                process' = [process EXCEPT
                  ![p].read = Append(@, Decode(file[input])),
                  ![p].at = IF last THEN "calling" ELSE "reading",
                  ![p].next = IF last THEN 1 ELSE @ + 1]
           [] OTHER -> Fail(p)
      /\ UNCHANGED <<file, afterwards, reports, answers, counters>>
-----------------------------------------------------------------------------
(* What is done with what was read.                                        *)
Call(p, name) ==
  /\ process[p].at = "calling"
  /\ Calls(Command(p).name)[process[p].next] = name

CheckContext(p) ==
  /\ Call(p, "check")
  /\ IF process[p].cancelled THEN Fail(p) ELSE Proceed(p, process[p])
  /\ UNCHANGED <<file, afterwards, reports, answers, counters>>

(* Validation looks at the context too, so that a cancelled merge fails.   *)
MergeInputs(p) ==
  /\ Call(p, "merge")
  /\ LET read == process[p].read
         merged == Merge([i \in DOMAIN read |-> read[i].archive], Command(p).expected)
     IN  IF process[p].cancelled \/ IsRefused(merged) THEN Fail(p)
         ELSE Proceed(p, [process[p] EXCEPT !.made = MeasurementFile(merged)])
  /\ UNCHANGED <<file, afterwards, reports, answers, counters>>

(* Limits are refused where Masking MC/DC was not measured; those that are *)
(* not given are the defaults of `analyze`, and those of the input of      *)
(* `reanalyze`.  A cancelled analysis may still end.                       *)
AnalyzeArchive(p) ==
  LET command == Command(p)
      source == IF command.name = "analyze" THEN process[p].made ELSE process[p].read[1]
      limit == IF command.name = "reanalyze" /\ command.limit = 0
               THEN source.limit ELSE command.limit
  IN  /\ Call(p, "analyze")
      /\ IF command.limit > 0 /\ ~source.archive.plan.masking THEN Exit(p, 4, FALSE)
         ELSE \/ process[p].cancelled /\ Fail(p)
              \/ Proceed(p, [process[p] EXCEPT !.made = ResultFile(source.archive, limit)])
      /\ UNCHANGED <<file, afterwards, reports, answers, counters>>

Require(p) ==
  LET source == process[p].read[1]
      satisfied == Satisfied(source.archive, source.limit)
  IN  /\ Call(p, "require")
      /\ IF process[p].cancelled THEN Fail(p) /\ UNCHANGED answers
         ELSE /\ Exit(p, IF satisfied THEN 0 ELSE 3, FALSE)
              /\ answers' = answers \union {[shards |-> source.archive.shards,
                                             limit |-> source.limit, satisfied |-> satisfied]}
      /\ UNCHANGED <<file, afterwards, reports, counters>>
-----------------------------------------------------------------------------
(* Publication of a file.                                                  *)
WriteTemporary(p) ==
  /\ \/ Call(p, "create") /\ Proceed(p, [process[p] EXCEPT !.temp = "empty"])
     \/ Call(p, "write")  /\ Proceed(p, [process[p] EXCEPT !.temp = "written"])
     \/ Call(p, "sync")   /\ Proceed(p, [process[p] EXCEPT !.temp = "durable"])
     \/ Call(p, "close")  /\ Proceed(p, process[p])
     \/ Call(p, "chmod")  /\ Proceed(p, process[p])
  /\ UNCHANGED <<file, afterwards, reports, answers, counters>>

(* A power failure after the rename may undo it, and keeps of the contents *)
(* only what was written through.                                          *)
Rename(p) ==
  LET output == Command(p).output
      made == process[p].made
  IN  /\ Call(p, "rename")
      /\ file' = [file EXCEPT ![output] = made]
      /\ afterwards' = [afterwards EXCEPT ![output] =
           @ \union {IF process[p].temp = "durable" THEN made ELSE Torn}]
      /\ Proceed(p, [process[p] EXCEPT !.temp = "none", !.published = TRUE])
      /\ UNCHANGED <<reports, answers, counters>>

(* Publication of a report: a staged generation, then the entry page that  *)
(* leads to it.  The name of the generation is that of its stage.          *)
StagePages(p) ==
  /\ \/ Call(p, "stage")    /\ Proceed(p, [process[p] EXCEPT !.pages = "partial"])
     \/ Call(p, "render")   /\ Proceed(p, [process[p] EXCEPT !.pages = "whole"])
     \/ Call(p, "validate") /\ process[p].pages = "whole" /\ Proceed(p, process[p])
     \/ Call(p, "overview") /\ Proceed(p, [process[p] EXCEPT !.made = EntryFile(process[p].number)])
  /\ UNCHANGED <<file, afterwards, reports, answers, counters>>

RenameStage(p) ==
  /\ Call(p, "renameStage")
  /\ reports' = [g \in DOMAIN reports \union {process[p].number} |->
                  IF g = process[p].number THEN process[p].pages ELSE reports[g]]
  /\ Proceed(p, [process[p] EXCEPT !.pages = "none"])
  /\ UNCHANGED <<file, afterwards, answers, counters>>
-----------------------------------------------------------------------------
(* Faults.  An input that cannot be opened is no interruption, even if the *)
(* command is cancelled meanwhile.                                         *)
FailCall(p) ==
  /\ Active(p) /\ faults < MaxFaults
  /\ ~Call(p, "check") /\ ~Call(p, "merge")
  /\ faults' = faults + 1
  /\ \/ process[p].at = "reading" /\ Exit(p, 2, FALSE)
     \/ process[p].at = "calling" /\ Fail(p)
  /\ UNCHANGED <<file, afterwards, reports, answers, started, powerFailures>>

Cancel(p) ==
  /\ Active(p) /\ ~process[p].cancelled
  /\ process' = [process EXCEPT ![p].cancelled = TRUE]
  /\ UNCHANGED <<file, afterwards, reports, answers, counters>>

Kill(p) ==
  /\ Active(p) /\ faults < MaxFaults
  /\ faults' = faults + 1
  /\ process' = [process EXCEPT ![p] = Idle]
  /\ UNCHANGED <<file, afterwards, reports, answers, started, powerFailures>>

(* Neither the pages nor the rename of their generation are written        *)
(* through, so that an entry page may outlive what it leads to.            *)
PowerFailure ==
  LET unsettled == {path \in DOMAIN file : Cardinality(afterwards[path]) > 1}
  IN  /\ powerFailures < MaxPowerFailures
      /\ powerFailures' = powerFailures + 1
      /\ \E left \in [unsettled -> UNION {afterwards[path] : path \in unsettled}] :
           /\ \A path \in unsettled : left[path] \in afterwards[path]
           /\ file' = [path \in DOMAIN file |->
                         IF path \in unsettled THEN left[path] ELSE file[path]]
      /\ afterwards' = [path \in DOMAIN file |-> {file'[path]}]
      /\ \E gone, torn \in SUBSET DOMAIN reports :
           reports' = [g \in DOMAIN reports \ gone |->
                         IF g \in torn THEN "torn" ELSE reports[g]]
      /\ process' = [p \in Processes |-> Idle]
      /\ UNCHANGED <<answers, started, faults>>

Next ==
  \/ \E p \in Processes :
       \/ Start(p) \/ Read(p) \/ CheckContext(p) \/ MergeInputs(p) \/ AnalyzeArchive(p)
       \/ Require(p) \/ WriteTemporary(p) \/ Rename(p) \/ StagePages(p) \/ RenameStage(p)
       \/ FailCall(p) \/ Cancel(p) \/ Kill(p)
  \/ PowerFailure

Spec == Init /\ [][Next]_vars
-----------------------------------------------------------------------------
(***************************************************************************)
(* Whatever stops or fails, a path never holds half a file, and what was   *)
(* once there is replaced but never lost.                                  *)
(***************************************************************************)
FilesAreWhole ==
  \A path \in DOMAIN file :
    /\ file[path] # Torn
    /\ Recorded[path] # Absent => file[path] # Absent

(***************************************************************************)
(* index.html leads to pages that are in place and whole, whatever stopped *)
(* or failed; only a power failure takes them (publishHTMLEntry).          *)
(***************************************************************************)
EntryLeadsToReport ==
  powerFailures = 0 =>
    \A path \in DOMAIN file :
      file[path].format = "entry" =>
        file[path].to \in DOMAIN reports /\ reports[file[path].to] = "whole"

(***************************************************************************)
(* The exit code tells what became of the output: zero if it is in place   *)
(* and holds as many executions as were expected, otherwise this command   *)
(* has not touched it; an interruption is reported only if there was one.  *)
(***************************************************************************)
ExitTellsTheTruth ==
  \A p \in Processes : process[p].at = "exited" =>
    LET exit == process[p]
    IN  /\ exit.writes => (exit.code = 0 <=> exit.published)
        /\ exit.code = 130 => exit.cancelled
        /\ exit.code = 0 => ~exit.short

(***************************************************************************)
(* However recorded archives are grouped, ordered, repeated, and analyzed  *)
(* over and over: the same archives give the same executions, namely all   *)
(* of them, a saved result shows what its evidence and its limit say, and  *)
(* `require` answers accordingly.                                          *)
(***************************************************************************)
SameShardsSameArchive ==
  /\ \A path \in DOMAIN file : file[path].format \in {"measurement", "result", "result-2.0"} =>
       LET found == Decode(file[path])
       IN  /\ found.archive.runs = Pooled(found.archive.shards)
           /\ found.format = "result" => found.report = ReportOf(found.archive, found.limit)
  /\ \A a \in answers :
       a.satisfied <=> \A s \in a.shards :
         Satisfied([plan |-> Recorded[s].archive.plan, runs |-> Pooled(a.shards)], a.limit)
=============================================================================
