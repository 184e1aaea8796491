# A formal model of gomcdc

gomcdc measures statement, decision, condition and MC/DC coverage of Go programs. It rewrites the source of a
module, runs `go test` on the copy, collects what the injected recorder wrote, accepts that evidence against the
analysis of the sources, archives it, and analyzes, merges and reports archives. This directory holds TLA+ modules
that model the parts of it in which an error would silently change a verdict, TLC configurations that check them on
small instances, and TLAPS proofs of the most important results for all instances.

A coverage tool fails in two ways that no user sees: it counts evidence that never happened, or it loses evidence and
does not say so. Most properties below are one of these two, stated for one component or for several that interact.

## 1. The system

Paths are relative to `src/internal/` unless they begin with `main.go` or `docs/`.

| component | state it keeps | operations | interacts with |
|---|---|---|---|
| runtime recorder (`runtimecov/runtimecov.go`, the injected half) | per package: the shards of active evaluations, the journal and its size counters, the maps of evaluations and clauses, the sets of IDs known to the file, the reports made | the hooks `BeginInto`, `Condition`, `End`, `EndSelect`, `AbortSlots`, `SelectClause`; writing, compaction, failure reports | goroutines of the measured tests; the event directory |
| instrumentation (`instrument/`) | none; it emits the calls of the hooks | rewriting of decisions and switches | recorder, compiler wrapper |
| collector (`runtimecov/runtimecov.go`, the host half) | the maps of begins, terminals and evaluations; the provenance of the file that is read | `CollectDetailed` over a directory | the event directory; evidence acceptance |
| evidence acceptance (`evidence/`) | rejections per producer | `AcceptRuntimeByProducer`, the outcome of each producer | collector, plan of the measurement; runs again whenever an archive is validated |
| MC/DC (`mcdc/`) | the search of one condition: pair, budget, memo, witness | `UniqueCauseStrategy.Analyze`, `MaskingStrategy.AnalyzeContext` | analysis; its context is canceled from outside |
| decision pool (`analysis/decision_parallel.go`) | queue of jobs, results, marks, the first panic | `runDecisionBuildPool` | MC/DC, one build per decision |
| statement coverage (`c0/`, `testcover/`) | the plan of regions, Go's cover profile, counter files of test files | `PlanCoverageCorrespondence`, `ParseProfile`, `AcceptProfileEvidence`, `ProjectAcceptedEvidence`; hits and failures of counter files | `go tool cover`, test binaries, analysis |
| test execution (`gotest/`, `processgroup/`) | what the lines said, why the context is done | `Run` | `go test`, its process group |
| measurement session (`cli/measurement.go`, `cli/cli.go`, `main.go`) | outcome of the run, recovery deadline, workspaces, exit code | `measure`, `runCoverage`, `runWithSignals` | everything; signals |
| analysis and requirements (`analysis/`, `requirements/`) | counts per entity and metric | `Analyze`, `FromMeasurement`, `Evaluate` | MC/DC, pool, archives |
| archives, saved results, offline commands, report publication (`measurement/`, `resultfile/`, `cli/stages.go`, `cli/offline.go`, `report/html_publish.go`) | files | `Merge`, `Publish`, `WriteContext`, `WriteHTMLDirectory`; merge, analyze, reanalyze, report, require | other commands over the same files, kills, power failures |
| source side (`analyzer/`, `transformmap/`, `compileraware/`, `loader/`, `workspace/`, `modulecontext/`) | copies of the module, maps of positions | parse, patch the compiler, copy | Go toolchain, file system |
| command line (`cli/options.go`, `config/`, `goflags/`, `gotestargs/`, `buildinfo/`, `backend/`) | none | parsing, static tables | the session |

What makes the system hard:

* *Concurrency.* Hooks run in any goroutine of the tests. One lock per writer, one per evaluation and one per shard
  are nested, and a compaction walks all shards inside of the writer's lock. Offline commands may run over the same
  files at once. A signal handler and the command race for the exit code.
* *Stops.* A test process ends by `os.Exit`, a panic or SIGKILL, in the middle of a line or of a compaction; a
  command is killed, or the power fails, between writing a file and renaming it.
* *Partial failure.* Each system call of the recorder may fail. It must not disturb the tests, so that a failure
  becomes a report, and the report itself may fail to be written. A session continues after most failures, because
  what was measured should be kept.
* *Merged evidence.* The journal keeps one record per distinct content, so that an evaluation may be represented by
  another one. Archives of several executions are merged; each may know what others do not.
* *Bounded search.* A masking search stops at limits of pairs, states and bytes, and at a cancellation. A stop must
  not look like a negative answer.
* *Two languages for one place.* Go's counters are about the rewritten source. A statement of the original has to be
  found again by positions that the rewriting has changed.

What makes each component correct: the *recorder* tells only of evaluations that ended, and all of them unless it
reports a failure; the *collector* counts each once and never returns clean evidence for a damaged directory;
*acceptance* refuses what cannot have been recorded by the measured program, for the producer concerned only, and
nothing else; *MC/DC* agrees with definitions D10 and D18 of `docs/specification.md`, and
with D19 as the comments of `mcdc.go` narrow it (section 3), says "infeasible" only of
the impossible and "not covered" only after a complete search; the *pool* reports each decision once and hides no
panic; *statement coverage* credits exactly what was entered and keeps unknown what was not measured; the *session*
ends with the code of the gravest failure (D28), and its archive passes the validation of later stages; *merging* is
a union that depends on no order; *publication* leaves the old file or the new one.

## 2. The modules

| module | models | state and actions in the code |
|---|---|---|
| `Journal` | the recorder of one package in one process | one action per hook and per critical section of `writerFor`, `writeEventLocked` and `compactLocked`; `pc` is the position of an evaluation's or a clause's call, the other variables are the fields of `writerState`, the global shards and the files |
| `EvidenceLog` | what a reader relies on: evidence appears for what ended, and stays | abstract specification of `Journal` |
| `Collecting` | `collectFile`, `consume`, `addEvaluation` and `finishAborted` as operators over lines | an accumulator record is the `eventCollector` |
| `Collector` | the same as steps over a directory, with cancellation | `NextFile`, `SkipArtifact`, `SkipStranger`, `ReadLine`, `EndOfFile`, `EndOfDirectory`, `FinishAborted`, `Return`, `Cancel` |
| `FoldTheorems` | induction and folds over sequences, for the proofs of several components | |
| `CollectorProofs` | proofs about `Collector`, that it computes what `Collecting` defines, and about `Switches` with `Acceptance` | |
| `Recovery` | `Journal` composed with `Collecting`: the collector applied to the files of a stopped recorder | the wire form of records, the directory at the stop |
| `RecoveryProofs` | proofs about `Journal`, then about its sizes, then about what the collector makes of the recorder's files | |
| `Acceptance` | `evidence/runtime.go` as operators: what is valid, earned, whole, and to whom a refusal is charged | `IsValid`, `IsEarned`, `IsWhole`, `IsClauseValid`, `Accepted`, `Interrupted` |
| `Switches` | threads that run rewritten switches, then `Collector`, then `Acceptance` | one action per hook that `instrument.go` emits, `EndOfRun`, the collector's steps, `AcceptRuntime` |
| `Decision` | expressions, replay of vectors, pivotality, and the definitions D10 | `evaluateObserved`, `computeFeasibility`, `findPivotalPath`, `structurallyPivotal` |
| `Suite` | what both criteria are asked about: the expression and the prepared evaluations | |
| `JointSolver` | `masking_joint.go`: `solve`, `solveBinary`, `reconstruct`, `solvePair` | operators; a state says which value a node takes in both completions and whether a change of it would reach the root |
| `UniqueCause` | `uniqueCauseWitness` and the verdict on a condition | scan (`Probe`, `NextFirst`), fallback (`Index`), `GiveUp` |
| `Masking` | `MaskingStrategy.analyzeContext` over `JointSolver` | one action per exit of the loop over conditions, `TryPair` per pair, `Cancel` at any time |
| `Criteria` | both criteria of one decision on one suite, as `buildDecisionReport` asks for them | the steps of `UniqueCause`, then those of `Masking`, on the variables of `Suite` |
| `DecisionPool` | `runDecisionBuildPool` | a worker's loop statement by statement, `Panic`, the caller's `Wait`, `Skip`, `Build`, `Return`, and `Interrupt` |
| `DecisionProofs` | proofs about `UniqueCause`, about `JointSolver`, `Masking` and `Criteria`, and about `DecisionPool` | |
| `Statements` | statement coverage: inventory of counters, correspondence plan, test binaries, profiles and counter files, acceptance, projection | `Execute`, `NewFile`, `HitFails`, `EndBinary`, `Parse`, `Accept`; the rest is operators |
| `StatementsProofs` | proofs about `Statements` | |
| `Producers` | `evidence/producer.go`, the two outcome functions of `measurement.go`, the validation of one execution | operators over the four axes of an outcome |
| `Signals` | `runWithSignals` of `main.go` | one action per statement of the handler and of the main goroutine, `Send` |
| `GoTest` | `gotest.Run` | `StartTest`, `Line`, `TestContextDone`, `EndTest` |
| `Session` | `runCoverage`, `measure`, `assembleAnalysisInput`, `archiveMeasurement` over `Producers`, `Signals`, `GoTest` | one action per call of the command that may change its outcome, in the order of `Stages`; `StartDeadline`, `Expire` |
| `Verdict` | what an exit code promises | abstract specification of `Session` |
| `SessionProofs` | proofs about the control of `Session`, the folding of diagnostics, and what is archived | |
| `Analysis` | `Analyze` of one execution, `analyzeRuns` of several, `require` | operators over a plan and executions |
| `Offline` | a measurement that grows by executions and is analyzed after each | `MergeExecution` |
| `OfflineProofs` | proofs about the union of executions | |
| `Archives` | `Merge`, `Validate`, saved results and their limits | operators over files |
| `Stages` | merge, analyze, reanalyze, report and require by several processes | one action per call; `FailCall`, `Cancel`, `Kill`, `PowerFailure` |
| `StagesProofs` | proofs about `Stages` and the merging of archives | |
| `DecisionTrees`, `MC*` | constants for TLC | |

Notes on how code became actions:

* A critical section is one action where no other thread can see its middle. The compaction is several: it holds the
  writer's lock but takes the shards one at a time, and other threads begin and end evaluations meanwhile.
* `writerState.mu` is a variable, since a hook holds it from the write until its own bookkeeping is done; the lock of
  one evaluation is held by at most one call and is part of that call's position. The nesting of both is what
  `CallsReturn` is about.
* The journal is its last snapshot (`base`) and the lines since (`log`). Sizes are counted in records, and one unit
  of `MinTail` stands for the minimum of 64 KiB and more; what matters is the order of tail, threshold and snapshot.
* Evaluations carry `Data`, the part of a record that `evaluationRecordKey` compares. Records of equal data but
  different identities are merged as in the code, the first identity winning.
* Failures are actions of their own next to each call that can fail, counted by `faults`.
* In `Switches` a function runs at most once per file, so that no evaluation repeats another's data; the merging of
  equal ones is `Journal`'s. Which alternative of an expression switch is taken is chosen freely: it is what the
  patched compiler reports. A directory is found as the processes left it, torn, compacted, with one more file, or
  with one record changed (`Remains`).
* In `Masking` the budgets are those of the code; `MaxBytes` counts nodes and candidate indexes instead of the
  architecture's sizes. A cancellation is looked at where the code looks, at every `CheckInterval`-th unit (1024
  in the code) and between conditions. A pair is solved in one step: a cancellation within it stops it at the next
  look, with the same result as one before it.
* In `DecisionPool` a build is "exact", or "canceled" if its context was done, since the build of a decision passes
  its context to the masking search; a faulty build panics unless the cancellation stopped it first.
* In `Statements` a statement is known by its place, the number of its list and its own in it; an inventory gives
  each region the set of places that it counts. Rewriting keeps the statements of a source, their identities and
  their order (`IsRewriting`), and puts generated ones among them. A statement that was moved
  loses its column, because the printer emits `//line file:line` without one; rewriting adds ends of basic blocks and
  never removes one, and every region has its own counter.
* A counter of a test file is written at most once (`Hit`), by a call that may fail (`HitFails`): its byte is then in
  the file or not, the statement runs all the same, and the counter is never tried again (`spent`). The file is removed,
  or stays because the removal fails too. What the collector learns of it is the error file of `failure()`
  (`testcover/runtime.go:21`), whose creation may fail for the same cause, such as a limit of open files; the line on
  standard error reaches nobody if `go test` drops the output of a passing package or a parent process keeps it. So a
  failure is `reported`, or what it has lost is `unreported` (`Failure`); the same holds of a file that could not be
  created (`NewFile`). A kill between the failure and its report is a failure without a report, followed by the kill.
* A failing call of the recorder and its report are one step (`Fail` in `Journal`). A kill between the two leaves what
  a kill before, within or after a call that succeeds would leave, which `Stop` in the states around it covers.
* In `Session` a call under the request's context may succeed although the context is done, and may fail by itself.
  What a call returns is chosen freely within what the callee can return; the models of the callees are above.
* In `Stages` contents of archives are the executions in them; a field that no file has remembers which recorded
  archives went into one. A rename puts a whole file in place, and a power failure may undo it or, if the contents
  were not synchronized first, leave a torn file. The renames of a generation and of the entry page are undone
  independently: the page may outlive the generation that it names.

## 3. What is checked

| run | instance | shows |
|---|---|---|
| `journal` | 2 evaluations of one decision, whose data may be equal, 2 calls of one clause, 2 shards, tail of 1, sizes up to 8, 1 failure | the inductive invariant `IInv`, `Bounded`, `CallsReturn` (liveness), `ImplementsLog` (refinement of `EvidenceLog`) |
| `recovery` | 2 evaluations of one decision with a reused condition buffer, 1 clause call, 2 failures, a stop anywhere | `Truthful`, `NoDuplicates`, `NothingLostSilently`, `BacksOff`; with the collector `DamageMeansFailure`, `RecoveredExactly` |
| `evidence` | a switch of three decisions with its default in the middle and a fallthrough, one of a single decision, an expression switch; one process, two, and two of the same process ID; whole, torn, compacted and damaged journals, a cancellation anywhere | `CountedOnce`, `CleanIsComplete`, `ComputesCollect`, `ErrorFreeIsExact`, `AcceptedHappened` |
| `criteria` | Unique Cause: all suites of all read-once trees of up to three conditions and the balanced ones of four; masking: suites of up to 5 vectors for trees of up to three conditions, of 2 or 3 for trees of four; both of the same suite; 2 pairs, 12 states, 9 units of memory | `FindsTheFirstPair`, `StatusIsHonest`, `MatchesDefinition`, `MaskingIsWeaker` |
| `masking_d19` | `(1 \|\| 2) && (3 \|\| 4) && (5 \|\| 6)` with two evaluations | a violation, see below |
| `decision_pool` | 1, 2 and 3 workers, 3 tasks, any of them faulty, interrupted anywhere | `EveryTaskReported`, `BuiltOnce`, `PanicIsPassedOn`, `ExactUnlessInterrupted`, `PoolEnds` (liveness) |
| `statements` | sources of four statements in two lists, moved, divided and extended in all ways; two copies of a file; a file with a test file; 2 test binaries that pass, fail or are killed; counter files and reports that fail any number of times; modes `set` and `count` | `PlansTellTheTruth`, `CreditIsEarned`, `MissedMeansMeasured`, `RefusedForCause` |
| `statements_paths` | an unmeasured file whose path ends with that of a measured one | a violation, see below |
| `session` | three groups of requests, 2 signals, 2 diagnostics, a failure of any call, the recovery's deadline | `ArchiveValidates`, `CompleteMeansAccepted`, `DiagnosticsCommute`, `ImplementsVerdict` (refinement of `Verdict`), `InterruptionEnds` (liveness) |
| `offline` | executions of five plans: a decision of two conditions (2 executions), of one (3), of an external test package (2), a clause with its no-match (2), a function of two blocks (2) | `UnionIsBest`, `OrderIsImmaterial`, `MinimumsStaySatisfied` (an action property) |
| `offline_missing` | the same | a violation, see below |
| `stages` | 13 commands of which any 3 are run by 2 processes, 1 failing call or kill, 1 power failure, cancellations | `FilesAreWhole`, `EntryLeadsToReport`, `ExitTellsTheTruth`, `SameShardsSameArchive` |

Every property of a passing run has a mutant, a definition changed by a plausible mistake, under which it fails; the
mutated forms stand before the definitions they replace, marked "A mistake" or "Mutant of".

*Why the bounds are enough.* The races of the recorder need an evaluation that begins and one that ends or writes
while a compaction scans: two evaluations, with two shards so that an evaluation may be before or behind the scan;
with a tail of one record there are several compactions. Both are of one decision: if they end with equal values the
second is merged into the first, with different ones both are written; the mutant of `ImplementsLog` and of
`NothingLostSilently` confuses the two. Two clause calls are concurrent selections of one clause.
Two failures (`recovery`) are enough for a failing report of a failing write, and for a failing retry. The size
counters saturate at `MaxBytes`, small enough to be reached. The proofs hold for any number of all of these. What
the collector and acceptance may get wrong relates two lines, two files or two decisions of a switch: hence three
decisions in two clauses around a default, and two processes. The search of Unique-Cause passes its probe limit with
four vectors, as the code does with 33. The budgets of masking are such that some searches finish, some stop at each
of the three limits, and some meet a limit exactly. Planning of statements is about ordinals on one line: one line
holds up to three statements in two lists; positions may coincide or lack a column. Two binaries are enough for a
statement that only the killed one ran, and for a counter that overflows only as a sum (`MaxCount` 1). The session
does each thing once; two signals are one that is handled and one that comes while it is, two diagnostics are enough
for each order of severities. A union of two executions meets each pair of situations; three, each grouping. Three
commands are a producer, a consumer and one that interferes, e.g. a merge, an analysis of it and a report of that.

*Symmetry.* `stages` permutes its two processes, `statements` its two binaries; both sets of constants are closed
under the exchange, and neither run checks a temporal property.

*Deadlock* is checked in `session`, whose end is a stuttering step. The other systems end by themselves or stop with
their process.

*Fairness.* `journal` assumes that a goroutine that can take its next step in the recorder takes it (`WF` per thread
and of the compaction), which is what the Go scheduler and unlocking a mutex provide; nothing is assumed of the
tests, which may never call another hook. `decision_pool` assumes the same of each worker and of the caller, and that
a build ends, which the budget of every search ensures. `session` assumes that the two goroutines of `main.go` and
the deadline's timer take their steps, that a cancelled `go test` is ended (its process group is killed), and that
the command takes its next step only where it can be relied on (`Prompt`): a call that is given the request's context
returns once that is done, one that is given the recovery context once its deadline has passed, and a step that calls
nothing from outside at any time. Tests and collections that nobody interrupts may take for ever. None of these
assumes that a cancellation, a signal or a failure ever happens.

### The runs that expect a violation

`masking_d19`. D19 (`docs/specification.md:150-155`) calls a condition covered if two evaluations have completions
that meet four conditions: both evaluate the target, target and result differ, and every other condition that differs
is masked in both. It promises an exact joint search (`:159`), and `issues/masking-mcdc-optimization-results.md:57-58`
concludes that the solver reaches every D19 witness. The solver (`mcdc/masking_joint.go:268`) demands also that the
target decide the result in both completions, as the comments `mcdc/mcdc.go:67-69` and `190-192` say. The demands
differ. Of `(1 || 2) && (3 || 4) && (5 || 6)`, evaluated once with 1, 3 and 5 true and once with 1 false, 2 true, 3
and 4 false, there are completions with 2 true in both, 4 and 6 true in the first, 5 and 6 false in the second: they
meet the four conditions for the target 1, which decides neither of them. The search finishes and reports "not
covered". `MatchesDefinition` is about the definition with that demand (`Shows`), `ExactByD19` about the four
conditions alone.

`offline_missing`. The specification (`docs/specification.md:401`) says that merging "preserves unsupported and
unknown as distinct evidence states". The analysis of one execution takes the status of the run for a package that
has none of its own (`analysis/report.go:1031`); `sourceDecisionState` (`analysis/measurement.go:156`) does not. A
decision of such a package, unknown in each of two failed executions, is measured and not covered in their union. An
external test package measured with `--include-tests` is one that has no status.

`statements_paths`. `acceptancePathMatches` (`c0/accept.go:552`) takes every profile file whose path ends with a
planned path of several elements for the planned file. If `a/x.go` is measured, `v2/a/x.go` is not, and both have the
same text, then a run that is not complete and has written counters of the second only gives the first the credit of
statements that nobody measured. The comment at `c0/accept.go:33-35` promises accepted producer identity.

Three observations have no run of their own.

`uniqueCauseStructurallyFeasible` (`mcdc/mcdc.go:491`) calls a condition infeasible if it is in the left operand of an
operator whose right operand has a condition, whose states "can never be identical" (`:490`). With a constant
operand they can: for `a && (true || c)`, in which `c` is never evaluated, the vectors with `a` true and
false are a Unique-Cause pair, so that "not covered" would be right where the code says "infeasible". Tests use constant
operands; the analyzer yields one only as a placeholder after an error (`analyzer/analyzer.go:493`, `516`), so that
the reports of programs it accepts are not affected. `StatusIsHonest` is proved for trees without constants.

A counter of a test file whose write fails is removed with its file (`testcover/runtime.go:55`, `60`), and if the
report of that cannot be created either (`:23` ignores the error), the collection does not know. If another process of
the same test binary kept its file, statements that ran in the first only are accepted as missed; a file that could not
be removed has the same effect. `docs/specification.md:241` says that each first hit is committed before the block
executes and `testcover/testcover.go:247-248` that missing files never become zero counts: true of an interrupted run,
which leaves each file with the hits made so far, and not of two failures in a row. `CreditIsEarned` and
`MissedMeansMeasured` therefore except the binaries whose counter there is `unreported` (`Measured`) from what they
promise, and nothing else: an accepted zero is a lie only of these. The mutant of the second property,
`HitFailsQuietly`, is a loss that is neither reported nor excused by the failure of a report.

A cancellation while evaluations are deduplicated is charged to the AST
producer only (`evidence/runtime.go:296`), although no clause has been accepted by then, so that the compiler's error
stays nil. `ErrorFreeIsExact` therefore speaks of acceptances that were not interrupted. The session is not misled:
any error of acceptance is a failure of integrity (`cli/measurement.go:309`).

## 4. What is proved

All theorems hold for every value of the constants that satisfies the named assumptions. Most of these say that
counts and sizes are natural numbers, that there is a shard, a budget and a processor, and that calls and evaluations
differ. Nine say what the inputs of a component look like: `DirectoriesAssumption`, that a directory is a sequence of
files, each of one of three kinds with a sequence of lines (`IsDirectory`), and nothing of what the lines say;
`ExpressionsAssumption`, that an expression is a finite tree whose conditions occur once (`WellFormed`);
`DecisionsAssumption`, that the decisions given to masking are such trees, their conditions numbered without a gap, and
their suites prepared from vectors of them;
`SkipsAssumption`, that a true case skips later decisions and never its own; `SettingsAssumption`, that the metadata
are of the sources that were rewritten: the clauses of a switch are numbered in their order and their decisions are
distinct, and a process runs functions of its package; `ProgramsAssumption`, that a source is lists of statements,
that its rewriting keeps them with their identities, their order and their positions but for a column
(`IsRewriting`), and that there are finitely many binaries; `StagesAssumption`, that commands name files of the system;
`RecordedAssumption`, that the files at the start were written by this program: a recorded archive knows itself as the
one it is made of, a saved result shows what its evidence says; `CasesAssumption`, that plans and evidence are finite,
which types of entities a plan has, and which statuses the test runner gives a run, its tests and a package. TLC
evaluates each of them on the constants of the runs.

*Recorder* (`RecoveryProofs`). `TypeCorrect`, then `Invariant`: `IInv` is inductive. None of the safety properties is
inductive alone. That no line repeats an ID (`NoDuplicates`) depends on what the lock's holder has just written but
not yet marked (`ActiveInv`), on the evaluations that a scan in progress has found (`ScanInv`: one that the file
already knows stays active and is found), on the lines agreeing with the positions of the evaluations (`LineInv`), and
on the maps from which the next snapshot is made (`SnapshotInv`). From it follow `JournalTruthful` and
`JournalNoDuplicates`. `JournalGrows` says that a step leaves the file alone, appends to it, or replaces it by a
snapshot that holds all the evidence it held. `FileWhole` and `JournalLosesNothingSilently` add a second invariant
`Whole`, which holds as long as nothing was reported. `JournalImplementsLog` is the refinement: the initial state maps
to the initial state, a hook that ends an evaluation to `End`, any step of the file to `Publish`, a stop to `Stop`.

*Sizes of the journal* (`RecoveryProofs`). `JournalBounded` needs `SizeInv`: until something fails, the counter of
the tail is the length of the file, the threshold is the one that belongs to the last snapshot, and the tail is below
it whenever no compaction is under way; so the counter never saturates before it reaches the threshold.
`JournalBacksOff` is the arithmetic of a failed compaction, with its saturation.

*Folds* (`FoldTheorems`). The library's induction theorems take an operator as a parameter, which the provers cannot
instantiate. `SetInduction` makes the induction for a set of natural numbers, whose complement would have a least
element (`NatLessThanWellFounded`, `WFMin`). `FoldLeft` is defined by a function on sets of positions that a CHOOSE
picks; by induction there is one (`SetFoldExists`), and on the first n positions it is the step applied n times
(`SetFoldIterates`). `SetToSeqIs` says that a finite set put in some order is a sequence of
its elements, each once; `PlaceExists` and `FlattenSeqIs`, that each position of a flattened sequence is one of one of
its parts, at the sum of the lengths before it.

*Collector* (`CollectorProofs`). `CollectorInvariant`: `CInv` is inductive. While it reads (`ReadInv`), the evidence
is `Good` for the lines seen so far, that is, open and finished identities are apart, and each evaluation comes from a
line; and unless integrity has failed, lines of different files that have ended are of different evaluations (`Apart`).
Afterwards (`AbortInv`) the loop of `finishAborted` turns the open ones into aborted evaluations one at a time, in an
order nobody fixes. `CollectorCountsOnce` and `CollectorCleanIsComplete` follow for directories of any number of files
and lines. `CollectorComputesCollect` is the connection to `Collecting`: the accumulator is at each line the fold of
the lines before it (`FoldInv`), so that steps and operators define the same evidence whatever the order of
`finishAborted`. It justifies `Recovery`, which uses the operators.

*Acceptance* (end of `CollectorProofs`). `SwitchesAcceptedHappened` and `SwitchesErrorFreeIsExact` are about any
sources, threads, processes and directories. The argument follows the phases of `Switches`:

* While the processes run (`InRun`), every record in a journal tells something that happened, and all that happened is
  told (`ToldInv`). It rests on `SuffixIs`: the order in which acceptance puts the decisions of a switch, from groups
  and indices, is the one in which they were rewritten, so that the decisions a true case skips are the ones acceptance
  expects of it. A thread that is about to record a clause or an end holds what `ThreadsInv` says.
* While a directory is read (`HInv`), whatever is collected comes from a line that the collector listens to, that is,
  one of the process that its file names first (`ProvenanceInv`, `Heard`); and without a diagnostic every line was
  understood, its skips are collected and no evaluation has ended twice (`Clean`).
* What is found relates the two (`FoundInv`, `ExactInv`, `WrittenInv`). From there on the argument is about one state:
  what is accepted was listened to and told (`AcceptedIsTrue`, `InterruptedIsTrue`); a producer without an issue has
  been charged with nothing, so that all it wrote was found (`NothingLost`, `AstIsExact`, `ClausesAreExact`); an intact
  directory has no issue (`IntactHasNoIssues`).

What may be found of the files is a constant, `Remains`; a theorem for every value of it needs to know what damage may
do. Both theorems say so as a condition on the behavior. `OnlyWrittenIsFound`: an end or a clause that the collector
listens to was written, as it is or as a compaction keeps it; or acceptance refuses it by itself; or it is an end whose
skipped decisions have been altered. Damage that turns one valid record into another one is thereby left out, which
acceptance could not tell from the truth. `EveryLossShows`, for the second theorem only: where an end or a clause of a
producer is missing there is a line that the collector takes for damage, or a record that acceptance charges to the
producer; and a directory that counts as intact holds nothing but what was written. A journal that is cut at the end of
a line, or is gone altogether, does not show, and the code promises nothing of it. All that `Remains` gives for the run
`evidence` meets both conditions, edited records and strangers included, which TLC confirmed with the two operators as
invariants of that instance; among them are losses that show as damage and losses that show as a refusal.
`HasStates` says that an evaluation which was killed has a state for each of its conditions.

*Recorder and collector together* (end of `RecoveryProofs`). `RInv` is the recorder's `IInv` with what the collector depends
on: nothing is missing from the file unless it was reported (`WholeInv`), the sets that are written are finite
(`FiniteInv`), a record's data are those of its site (`EventInv`), each failure was reported in a file or on standard
error (`ReportInv`), and a writer that was never created left nothing (`EmptyInv`). Then the fold over the files is
followed: lines of any recorder have the form `Told`, each keeps the evidence in `Evidence` and adds what `Fits`;
and the lines of a journal without failures are in order and lead to clean evidence (`InOrder`, `Exact`). From it
follow `RecoveryDamageMeansFailure` and `RecoveryIsExact`, for any number of evaluations, calls, shards, compactions
and failures, at every point at which the process may stop.

*Unique Cause* (`DecisionProofs`). `UniqueCauseInvariant`: `SearchInv` is inductive. While the scan is under way no
pair before the one it is at matches, and the probes are fewer than the pairs up to there, so that a suite below
`SmallSuite` is scanned to its end before the limit, its size squared, is reached (`ScanInv`). What the index pairs by
value and result is what the scan matches (`PartnersMatch`), and least partners of least candidates are the first pair.
So `UniqueCauseFindsTheFirstPair` for decisions, suites and limits of any size, where a run sees four conditions. That
the suite is a sequence of the vectors at all is `PreparedLists`: `Less` orders them (`LessIsAnOrder`), there are
finitely many (`VectorsFinite`), and counting those before each numbers them without a gap.

`UniqueCauseStatusIsHonest` is about trees of any size that are `WellFormed`, which `inspectExpression` sees to. Its
hypothesis is that no operand is a constant: with one, the verdict is wrong (section 3). Both the
outcomes of a tree and its satisfying vectors are functions on its nodes that a CHOOSE picks (`RecursionExists`,
`OutcomesAre`, `PathsAre`), and statements about them go up from the operands (`FromTheLeaves`, `OperandInduction`) or
down from the root (`FromTheRoot`). A vector is replayed in one way (`ReplayIsUnique`), which depends on the conditions
below a node only (`ReplayIsLocal`). In a pair that matches every node from the root to the target differs
(`PairDiffers`), so that none of them is to the right of an operand that ends the evaluation in both: the target is
compatible (`PairIsCompatible`). Conversely each node has a vector for either value (`EitherValue`) that leaves all
conditions not below it alone (`LeftAlone`); chosen so that nothing on the way is cut short, two of them are a pair of
a compatible target (`CompatibleHasPair`); and without constants each condition is pivotal (`AllPivotal`).

*Masking* (`DecisionProofs`). The solver is compared with an enumeration of all pairs of completions (`Shows`), for
trees of any size, constants included, and evaluations of any kind.

* `SolverIsSound`: what it returns are completions of the two evaluations that show the target's effect. The states
  on the way of the choices it takes are possible (`TakenIs` by `PossibleDescends`, since the first choice that works
  exists, `ChosenWorks`), and from the leaves up each is what the completions read off them evaluate to
  (`StatesAreCompletion`), which at the root are the results (`CompletionResult`). A node's activity is told from the
  root down by the values of the operands beside it (`IsActivity`), and a condition is active exactly if it is not
  masked (`ActiveDecides`).
* `SolverIsComplete`: if there are such completions, their values and activity are a possible state of every node,
  from the leaves up, and at the root the one that is asked for. Together the two are `PairIsSolved`.
* `MaskingInvariant`: `MaskingInv` is inductive, for any limits and with a cancellation at any step. Settled
  conditions have a result that the solver's answers justify; of the pairs tried so far for the current one none had
  a witness; what was not reached is untouched. It needs that the candidate pairs are numbered without a gap by how
  many are tried before each (`PairsAreRanked`), so that a search which has counted all of them has tried all of them.
* `MaskingMatchesDefinition` follows (`InvMatches`): a finished search covers exactly what some pair of the suite
  covers, "infeasible" is said only of a condition that decides no assignment (`DecidingIsPivotal`), and a stop of any
  kind is neither.

*Both criteria.* `CriteriaInvariant` joins the two invariants. From it follow `CriteriaMatchesDefinition` and
`CriteriaFindTheFirstPair` for the composition that the run `criteria` checks, and `CriteriaMaskingIsWeaker`: a
Unique-Cause pair is completed alike in what neither evaluates, after which nothing but the target differs and
the results still do, so that the pair covers the condition for masking (`UniquePairShows`).

*Pool* (end of `DecisionProofs`). `PoolInvariant` relates the queue, the workers' jobs, the marks and the caller's
position (`JobInv`, `BegunInv`, `ReportInv`, `CancelInv`): whatever was begun is completed, has panicked or is in a
worker's hands, and once the caller goes on nobody is left. From it `PoolBuildsOnce`, `PoolReportsAll`,
`PoolPassesPanicOn`, `PoolLeavesNobody` and `PoolExact`.

*Statements* (`StatementsProofs`). The sources are any that `ProgramsAssumption` admits: any number of lists and
statements, cut, moved and extended in any way that is a rewriting. There are three parts.

* *The plan.* `CutsCover` and `CutsApart`: the regions of an inventory divide the statements among them. Each
  statement of a rewritten source has one it comes from, its home (`HomeIs`). If at the position of a statement no
  other than its home is found (`AnchorsHold`), then what is left of a line after the exact matches is as many
  statements on both sides (`HomesCount`, `OrdinalsAgree`), of which the n-th comes from the n-th (`RankIsStrict`), so
  that the candidates of a statement are its home alone (`CandidatesAreHome`). A projectable plan implies as much:
  every statement found one candidate, no two the same, and all originals were found (`ProjectableFinds`,
  `OneEachAnchors`, by counting). So `PlansAreTrue`, and the converse for positions of their own
  (`PositionsAreEnough`): no source is given up because of a column that its rewriting lost.
* *The counters.* `CoverageInvariant`: `CoverageInv` is inductive. What has begun in a list has begun from its start
  (`OrderInv`); a counter counts if its region's first statement has begun, unless it is one of a test file that is not
  kept (`CountInv`: its only write has failed, or its file has), and each counter that is not kept was either reported
  or is in `unreported` (`FilesInv`); and the outcome is that of the merged counters (`OutcomeInv`). Nothing is assumed
  of how often writes, removals and reports fail. What is not kept never comes back and is never taken for kept
  (`FilesGrow`, `GrowKeeps`, `HitFailsKeeps`). The invariant is needed because credit is given long after the counting,
  by then from sums and files alone; accepted evidence means that nothing was reported, so that a statement's counter
  counts or its loss is unreported.
  A sum of counters is positive if one of them is (`SumIsPositive`, by induction over the size of the set).
* *The projection.* A line matches the plan of its own region and no other (`MatchesAre`, `MatchesApart`), so the
  lines of a run are accepted (`LinesAreAccepted`) and each statement is given the count of the region it is in
  (`RegionEvidenceIs`). Grouping loses nothing: within a block the last head of a span before a statement has its
  evidence (`HeadIs`), and the one span that holds it carries that (`SpanIs`, `ProjectedIs`). Together:
  `CreditIsAlwaysEarned`, `MissedIsAlwaysMeasured`, `RefusalsHaveCauses`.

The last three have the hypothesis `PathsApart`: no file's profile path ends with the path of another file that is
measured. The instance of the run `statements` satisfies it, copies of one file included. The run `statements_paths`
shows that it cannot be dropped: that of `acceptancePathMatches` is the one way in which credit goes astray.

*Session* (`SessionProofs`). `SessionInvariant`: `SInv` is inductive. It says that each failure is recorded by one
stage of the command and absent until then (`StageInv`), that a signal's code is stored before the command is canceled
(`SignalInv`), and that what the command returns is the gravest failure, or an interruption only if it was canceled
(`ResultInv`). The last two are needed together: 130 from the command is harmless only because the code of the signal
that canceled it replaces it. All stages before the exit ladder share what `Regular` says, so that the argument is
made once for them. From it follows `SessionImplementsVerdict`, the refinement, for any requests, signals and
diagnostics: handling a signal maps to `Handle`, the process's end to `End`, every other step changes at most what
failed.

*Diagnostics* (end of `SessionProofs`). The outcome of a producer folds over its diagnostics, in their order. The function
that defines `FoldLeft` extends from the sets of positions up to m to those up to m + 1; so `RuntimeProducerTold`: the
outcome is told by which kinds of diagnostics there are. From that follow `SessionDiagnosticsCommute`,
`SessionCompleteMeansAccepted` and `SessionArchiveValidates`, for diagnostics of any number and order. The last needs
two more invariants: whatever makes a producer less than clean also makes its integrity fail (`EInv`), and accepted
counters without evidence come only from a recovery that ran out, which cancels and is reported as an interruption
(`CInv`).

*Offline commands* (`StagesProofs`). `StagesInvariant`: `SInv` is inductive, for any recorded archives, commands and
processes, and any number of failures. It has a part for each shared variable and one for the processes. `ProcessInv`
says what a process holds at the call it has come to: the value `Holds` names for the position, and, once it writes,
how far its temporary has got (`SyncAt`, `Positions`). `FilesInv` says that every file that is in place, or that a
power failure would bring back, is one of `Contents`; `ReportsInv`, that until the power fails every published
generation is whole, so that an entry page leads to one; `AnswersInv`, that `require` has answered for the archives it read. The invariant is needed because
the contents of a rename were decided many calls, of other processes too, before it. The merge of any sequence of
pooled archives is pooled (`MergePools`, by induction over the inputs): what is merged depends on the set of recorded
archives in it. From these follow `StagesFilesAreWhole`, `StagesEntryLeadsToReport`, `StagesExitTellsTheTruth` and
`StagesSameShardsSameArchive`.

*Union of executions* (`OfflineProofs`). The analysis of several executions folds their values, one metric, status or
result at a time, in the order of random identities. Each step `Joins`: folded over values, it comes to something that
is told by their set. For amounts that is the highest of four (`ObligationsJoin`), for statuses and results the one of
highest rank (`RanksJoin`), for kinds of failure the only one there is, or "mixed" (`FailuresJoin`). So each fold is a
function of a set (`StatusFold` to `ObligationFold`, by `FoldJoins`), and a permutation of the executions has the same
sets. From this and the invariant that the executions are those of the case (`RunsInv`) follows
`OfflineOrderIsImmaterial`. `OfflineUnionIsBest` compares the highest amount, or for a decision the union of the
evaluations of executions that know it, with `Best`, case by case. `OfflineMinimumsStay` is the action property: what was
known for good of an obligation stays known, its total the same and not less of it covered (`HighestGrows`,
`DecisionGrows`: more evaluations show no fewer outcomes, and no pair goes away), and the sums by which the summary is
made grow with their summands (`SumGrows`, by induction over the size of the set that is summed).

Only model-checked: `CallsReturn`, `PoolEnds` and `InterruptionEnds`, since liveness under fairness is out of the
prover's reach. Every other property of a passing run is stated by a theorem.

## 5. What is not modelled

Within the modelled components: several packages in one process (their writers share only the shards, in which each
evaluation is of one package); hooks called with an evaluation that was never begun; the labels by which tests are
told apart, which are part of the site of an evaluation; the overflow of the 64-bit evaluation ID; what a loop of
acceptance that is interrupted has accepted by then; validation of malformed metadata in MC/DC, and Unique-Cause
without an expression tree; the search for the ends of basic blocks in syntax trees, which is an input of
`Statements`; the rewriting of `go tool cover`'s output for test files; `c0.Analyze` and `c0map.Build`, an older
projection by positions that only tests reach; the field checks of one archive by itself; text and JSON reports,
which `os.WriteFile` writes in place; failures to remove temporaries. Pages of an HTML report are not synchronized
and neither is the rename of their generation, so that `EntryLeadsToReport` promises nothing once the power failed
(`html_publish.go:47`): pages may then be torn, or the generation gone although the entry page leads to it. Encodings of records are
abstracted to their fields; a line that cannot be parsed is `garbled`.

Not modelled at all:

* the source analyzer, a sequential walk over syntax trees; what it yields is the input of the models,
* the compiler wrapper, which patches Go's compiler: what it does is compiler code and file I/O,
* loading, copying and removing of workspaces, and `transformmap`; that finalization may fail is in `Session`,
* the layout of reports, the parsing of flags, static tables.

## 6. The plan

Done: recorder, instrumented switches, collector, acceptance and their compositions, both criteria, the pool,
statement coverage, the session, analysis and merging, files of the offline commands; proofs about recorder,
collector, both together, acceptance, both criteria, pool, statement coverage, session, union of executions and
offline commands.

Left: workspaces (cleanup after partial failure) and `transformmap` (composition of position maps).

Runs are kept few: each component gets one run with its hardest properties, and a property gives way when a deeper
one covers it.
