------------------------------- MODULE Session ------------------------------
(***************************************************************************)
(* One measuring command from its start to its exit code: runCoverage      *)
(* (src/internal/cli/cli.go), measure (src/internal/cli/measurement.go),   *)
(* assembleAnalysisInput (analysis_input.go) and archiveMeasurement, under *)
(* the signals of src/main.go and over one run of go test.                 *)
(*                                                                         *)
(* A request says what is measured ("c0", "ast", "compiler"); whether the  *)
(* sources have entities to instrument, test files, and a file that cannot *)
(* be parsed; what the tests may print and whether a timeout is set; and   *)
(* what is done with the result.                                           *)
(***************************************************************************)
EXTENDS Producers, Signals, GoTest

CONSTANTS Requests, Severities, MaxDiagnostics

ASSUME SessionAssumption ==
  /\ \A r \in Requests :
       /\ r.need \subseteq {"c0", "ast", "compiler"}
       /\ "compiler" \in r.need => "ast" \in r.need
       /\ r.lines \subseteq LineKinds
       /\ {r.record, r.unparsable, r.strict, r.threshold} \subseteq BOOLEAN
  /\ Severities \subseteq {"recoverable", "integrity", "other"}
  /\ MaxDiagnostics \in Nat

VARIABLES
  request,     \* the parsed options and the loaded sources, never changed
  stage,       \* where the command stands
  outcome,     \* measurementOutcome
  recovery,    \* the recovery context: "none", "live", "deadline", "expired"
  incomplete,  \* analysisIncomplete: a source could not be analyzed
  cleanup,     \* the workspace: "absent", "open", "removed", "failed"
  archive,     \* the one execution of the archive
  policy,      \* strictFailure and whether a threshold failed
  broken,      \* an operation failed, so that the command gives up
  result       \* what runCoverage returns once its finalizer has run

kept == <<request, testVars>>
sessionVars == <<request, stage, outcome, recovery, incomplete, cleanup,
                 archive, policy, broken, result>>
vars == <<code, signalVars, testVars, sessionVars>>

Needs(metric) == metric \in request.need

(* The stages of runCoverage and of measure, in their order.               *)
Stages == <<"discover", "create", "load", "settings", "analyze",
            "inject", "instrument", "testcover", "toolchain", "runid",
            "gotest", "collect", "accept", "diagnose", "profile", "plans",
            "counters", "measured", "finalize", "archive", "analysis",
            "save", "report", "ladder">>

Proceed ==
  /\ stage' = Stages[1 + CHOOSE i \in DOMAIN Stages : Stages[i] = stage]
  /\ UNCHANGED <<code, broken, result>>

Return(c) ==
  /\ stage' = "deferred"
  /\ result' = c
  /\ UNCHANGED code

(* An error that ends the command: an interruption if the request is       *)
(* cancelled by now, otherwise a failure of the measurement.               *)
GiveUp == broken' = TRUE /\ Return(IF cancelled THEN 130 ELSE 2)
Fail == broken' = TRUE /\ Return(2)

NoArchive == [complete |-> FALSE]

NoOutcome ==
  [interrupted |-> FALSE, integrityChecked |-> FALSE, integrityFailure |-> FALSE,
   collectionErr |-> FALSE, diagnostics |-> <<>>, unsound |-> {}, rejected |-> {},
   producers |-> [p \in {} |-> Unavailable], cover |-> "none",
   readErr |-> "none", probes |-> FALSE]

SessionInit ==
  /\ request \in Requests
  /\ stage = "discover"
  /\ outcome = NoOutcome
  /\ recovery = "none"
  /\ incomplete = FALSE
  /\ cleanup = "absent"
  /\ archive = NoArchive
  /\ policy = [strict |-> FALSE, threshold |-> FALSE]
  /\ broken = FALSE
  /\ result = 0

Init == code = Running /\ SignalsInit /\ GoTestInit /\ SessionInit
-----------------------------------------------------------------------------
(***************************************************************************)
(* Before measure.  Each call takes the request's context: it may succeed  *)
(* although the context is done, and it may fail by itself.                *)
(***************************************************************************)
Prepare ==
  /\ stage \in {"discover", "create", "load", "settings"}
  /\ \/ /\ Proceed
        /\ cleanup' = IF stage = "create" THEN "open" ELSE cleanup
     \/ GiveUp /\ UNCHANGED cleanup
  /\ UNCHANGED <<kept, outcome, recovery, incomplete, archive, policy>>

(* A source that cannot be parsed is skipped; a failed inventory or two    *)
(* entities of one identity end the command.  The context is checked last. *)
AnalyzeSources ==
  /\ stage = "analyze"
  /\ incomplete' = request.unparsable
  /\ \/ ~cancelled /\ Proceed
     \/ cancelled /\ Return(130) /\ UNCHANGED broken
     \/ Fail
  /\ UNCHANGED <<kept, outcome, recovery, cleanup, archive, policy>>
-----------------------------------------------------------------------------
(***************************************************************************)
(* measure up to the test run.  A step that fails because the request is   *)
(* cancelled marks the measurement as interrupted and skips what follows;  *)
(* any other failure ends the command.                                     *)
(***************************************************************************)
Applies ==
  CASE stage \in {"inject", "instrument"} -> Needs("ast") /\ request.entities
    [] stage = "testcover" -> Needs("c0") /\ request.testFiles
    [] stage = "toolchain" -> Needs("compiler")
    [] OTHER -> Needs("ast") \/ (Needs("c0") /\ request.testFiles)

Instrument ==
  /\ stage \in {"inject", "instrument", "testcover", "toolchain", "runid"}
  /\ LET skipped == outcome.interrupted \/ ~Applies
     IN  \/ skipped /\ Proceed /\ UNCHANGED outcome
         \/ /\ ~skipped /\ Proceed
            /\ outcome' = [outcome EXCEPT
                 !.probes = @ \/ stage = "instrument",
                 !.interrupted = (stage = "inject" /\ cancelled)]
         \/ /\ ~skipped /\ cancelled /\ stage # "runid" /\ Proceed
            /\ outcome' = [outcome EXCEPT !.interrupted = TRUE]
         \/ /\ ~skipped /\ (cancelled => stage \in {"testcover", "runid"})
            /\ GiveUp /\ UNCHANGED outcome
  /\ UNCHANGED <<kept, recovery, incomplete, cleanup, archive, policy>>

RunTest ==
  /\ stage = "gotest" /\ ~outcome.interrupted
  /\ StartTest(cancelled) \/ TestStep(request.lines, cancelled, request.timeout)
  /\ UNCHANGED <<code, sessionVars>>

(* After the test, or instead of it; the recovery context starts here, and *)
(* its deadline with it when the request is already cancelled.             *)
AfterTest ==
  /\ stage = "gotest"
  /\ outcome.interrupted \/ testRun = "ended"
  /\ Proceed
  /\ outcome' = [outcome EXCEPT !.interrupted = @ \/ cancelled]
  /\ recovery' = IF cancelled THEN "deadline" ELSE "live"
  /\ UNCHANGED <<kept, incomplete, cleanup, archive, policy>>

(* A later cancellation starts the deadline of a live recovery.            *)
Clock(from, to) ==
  /\ recovery = from
  /\ recovery' = to
  /\ UNCHANGED <<code, kept, stage, outcome, incomplete, cleanup, archive,
                 policy, broken, result>>

(* Mutant of StartDeadline: the deadline starts only with the recovery.    *)
StartDeadlineOnlyAtStart == cancelled /\ stage = "gotest" /\ Clock("live", "deadline")

StartDeadline == cancelled /\ Clock("live", "deadline")
Expire == Clock("deadline", "expired")
Expired == recovery = "expired"
-----------------------------------------------------------------------------
(***************************************************************************)
(* The runtime evidence.  A call fails when the recovery has expired; the  *)
(* directory may be unreadable without it.                                 *)
(***************************************************************************)
Found == UNION {[1..n -> Severities] : n \in 0..MaxDiagnostics}

Collect ==
  /\ stage = "collect"
  /\ Proceed
  /\ \/ ~Needs("ast") /\ UNCHANGED outcome
     \/ /\ Needs("ast")
        /\ \E failed \in BOOLEAN, found \in Found :
             /\ Expired => failed
             /\ failed => found = <<>>
             /\ outcome' = [outcome EXCEPT
                  !.integrityChecked = TRUE, !.collectionErr = failed,
                  !.integrityFailure = failed, !.diagnostics = found]
  /\ UNCHANGED <<kept, recovery, incomplete, cleanup, archive, policy>>

RuntimeProducers == {ProducerOf(m) : m \in request.need \ {"c0"}}

(* Evidence of a producer may be unsound.  An acceptance that ends early   *)
(* rejects every producer, and returns the diagnostics or none.            *)
Accept ==
  /\ stage = "accept"
  /\ Proceed
  /\ \/ ~Needs("ast") /\ UNCHANGED outcome
     \/ /\ Needs("ast")
        /\ \E unsound \in SUBSET RuntimeProducers,
              found \in {outcome.diagnostics, <<>>} :
             /\ ~Expired => found = outcome.diagnostics
             /\ LET rejected == IF Expired THEN RuntimeProducers ELSE unsound
                IN  outcome' = [outcome EXCEPT
                      !.unsound = unsound, !.rejected = rejected,
                      !.diagnostics = found,
                      !.integrityFailure = @ \/ rejected # {}]
  /\ UNCHANGED <<kept, recovery, incomplete, cleanup, archive, policy>>

(* Mutant of DiagnosticsInvalidate: a torn tail is always excused.         *)
TornTailIsExcused ==
  \/ testResult.runtimeReports
  \/ \E i \in DOMAIN outcome.diagnostics : outcome.diagnostics[i] # "recoverable"

DiagnosticsInvalidate ==
  \/ testResult.runtimeReports
  \/ \E i \in DOMAIN outcome.diagnostics : outcome.diagnostics[i] # "recoverable"
  \/ outcome.diagnostics # <<>> /\ testResult.status \in {"none", "passed"}

(* Diagnostics that can no longer be read to their end count as an error.  *)
Diagnose ==
  /\ stage = "diagnose"
  /\ Proceed
  /\ outcome' =
       IF ~Needs("ast") THEN outcome
       ELSE LET cut == Expired /\ outcome.diagnostics # <<>>
            IN  [outcome EXCEPT
                  !.integrityFailure = @ \/ cut \/ DiagnosticsInvalidate,
                  !.producers = [p \in RuntimeProducers |->
                     RuntimeProducerOutcome(testResult.status,
                       outcome.collectionErr \/ cut, p \in outcome.rejected,
                       outcome.diagnostics)]]
  /\ UNCHANGED <<kept, recovery, incomplete, cleanup, archive, policy>>
-----------------------------------------------------------------------------
(***************************************************************************)
(* The counters of Go's own coverage and of the test files.                *)
(***************************************************************************)
ReadProfile ==
  /\ stage = "profile"
  /\ Proceed
  /\ \/ ~Needs("c0") /\ UNCHANGED outcome
     \/ /\ Needs("c0")
        /\ \E readErr \in {"none", "missing", "invalid"} :
             /\ testResult.status = "none" => readErr = "missing"
             /\ Expired \/ testResult.coverReports => readErr # "none"
             /\ outcome' = [outcome EXCEPT !.readErr = readErr,
                                           !.integrityChecked = TRUE]
  /\ UNCHANGED <<kept, recovery, incomplete, cleanup, archive, policy>>

(* Without the correspondence of counters and sources nothing is kept.     *)
PlanSources ==
  /\ stage = "plans"
  /\ \/ Needs("c0") /\ GiveUp
     \/ ~(Needs("c0") /\ Expired) /\ Proceed
  /\ UNCHANGED <<kept, outcome, recovery, incomplete, cleanup, archive, policy>>

(* Counters that are not accepted are replaced by the acceptance of an     *)
(* empty profile, which an expired recovery refuses as well.               *)
AcceptCounters ==
  /\ stage = "counters"
  /\ Proceed
  /\ \/ ~Needs("c0") /\ UNCHANGED outcome
     \/ /\ Needs("c0")
        /\ \E mappingErr \in BOOLEAN :
             /\ outcome.readErr # "none" => ~mappingErr
             /\ outcome.readErr = "none" /\ Expired => mappingErr
             /\ LET failed == mappingErr \/ outcome.readErr # "none"
                IN  outcome' = [outcome EXCEPT
                      !.producers = [p \in DOMAIN @ \union {"go-cover"} |->
                         IF p # "go-cover" THEN outcome.producers[p]
                         ELSE GoCoverProducerOutcome(testResult.status,
                                outcome.readErr, mappingErr)],
                      !.integrityFailure =
                         @ \/ (failed /\ testResult.status = "passed"),
                      !.cover = IF ~failed THEN "accepted"
                                ELSE IF Expired THEN "none" ELSE "empty"]
  /\ UNCHANGED <<kept, recovery, incomplete, cleanup, archive, policy>>

(* measure returns and cancels its recovery context.                       *)
Measured ==
  /\ stage = "measured"
  /\ Proceed
  /\ outcome' = [outcome EXCEPT !.interrupted = @ \/ cancelled]
  /\ recovery' = "none"
  /\ UNCHANGED <<kept, incomplete, cleanup, archive, policy>>
-----------------------------------------------------------------------------
(***************************************************************************)
(* After measure: the workspace is finalized, then the execution archived. *)
(***************************************************************************)
Finalize ==
  /\ stage = "finalize"
  /\ Proceed
  /\ cleanup' \in {"removed", "failed"}
  /\ UNCHANGED <<kept, outcome, recovery, incomplete, archive, policy>>

PassFail(passed) == IF passed THEN "passed" ELSE "failed"

Results ==
  [test |-> IF testResult.status = "none" THEN "not-run" ELSE testResult.status,
   measurement |-> PassFail(~incomplete /\ ~outcome.interrupted /\ cleanup # "failed"),
   integrity |-> IF outcome.integrityChecked
                 THEN PassFail(~outcome.integrityFailure) ELSE "not-run"]

Overall ==
  IF outcome.interrupted
  THEN [status |-> "failed", failureKind |-> "interrupted"]
  ELSE IF testResult.status = "none"
       THEN [status |-> "passed", failureKind |-> "none"]
       ELSE [status |-> testResult.status, failureKind |-> testResult.failureKind]

Execution ==
  [status |-> Overall.status, failureKind |-> Overall.failureKind,
   complete |-> /\ Overall.status = "passed"
                /\ Results.measurement = "passed" /\ Results.integrity = "passed",
   results |-> Results, producers |-> outcome.producers, cover |-> outcome.cover]

Valid == RunValid(archive, request.need, outcome.unsound)

ArchiveExecution ==
  /\ stage = "archive"
  /\ \/ Fail /\ UNCHANGED archive
     \/ Proceed /\ archive' = Execution
  /\ UNCHANGED <<kept, outcome, recovery, incomplete, cleanup, policy>>

(* An analysis under a cancelled context is made of the measured input,    *)
(* without validating the archive.  Recording makes none.                  *)
Analyze ==
  /\ stage = "analysis"
  /\ \/ request.record /\ Proceed /\ UNCHANGED policy
     \/ /\ ~request.record /\ (cancelled \/ Valid) /\ Proceed
        /\ policy' \in [strict : {FALSE, request.strict},
                        threshold : {FALSE, request.threshold}]
     \/ ~request.record /\ ~cancelled /\ ~Valid /\ Fail /\ UNCHANGED policy
  /\ UNCHANGED <<kept, outcome, recovery, incomplete, cleanup, archive>>

(* Both formats validate what they encode; writing may fail by itself.     *)
Save ==
  /\ stage = "save"
  /\ \/ (request.record \/ request.save => Valid) /\ Proceed
     \/ (request.record \/ request.save) /\ Fail
  /\ UNCHANGED <<kept, outcome, recovery, incomplete, cleanup, archive, policy>>

Report ==
  /\ stage = "report"
  /\ \/ Proceed
     \/ ~request.record /\ Fail
  /\ UNCHANGED <<kept, outcome, recovery, incomplete, cleanup, archive, policy>>

TestRunFailed == testResult.status \notin {"none", "passed"}

(* Mutant of ClassifyExit: failed tests come before a failed measurement.  *)
ClassifyExitTestsFirst(measurement, test, threshold) ==
  CASE test -> 1
    [] ~test /\ measurement -> 2
    [] ~measurement /\ ~test /\ threshold -> 3
    [] OTHER -> 0

(* classifyExit of a request whose usage was valid.                        *)
ClassifyExit(measurement, test, threshold) ==
  CASE measurement -> 2
    [] ~measurement /\ test -> 1
    [] ~measurement /\ ~test /\ threshold -> 3
    [] OTHER -> 0

(* The end of runCoverage; a recording classifies at once.                 *)
Ladder ==
  /\ stage = "ladder"
  /\ UNCHANGED broken
  /\ Return(
       CASE outcome.interrupted -> 130
         [] ~outcome.interrupted /\ request.record ->
              ClassifyExit(outcome.integrityFailure \/ cleanup = "failed" \/ incomplete,
                           TestRunFailed, FALSE)
         [] OTHER ->
              IF \/ outcome.integrityFailure
                 \/ cleanup = "failed"
                 \/ policy.strict
                 \/ incomplete
              THEN ClassifyExit(TRUE, FALSE, FALSE)
              ELSE IF TestRunFailed THEN ClassifyExit(FALSE, TRUE, FALSE)
              ELSE ClassifyExit(FALSE, FALSE, policy.threshold))
  /\ UNCHANGED <<kept, outcome, recovery, incomplete, cleanup, archive, policy>>

(* The deferred finalizer, which runs after every return.                  *)
Deferred ==
  /\ stage = "deferred"
  /\ stage' = "returned"
  /\ cleanup' \in IF cleanup = "open" THEN {"removed", "failed"} ELSE {cleanup}
  /\ code' = IF cleanup' = "failed" /\ result # 130 THEN 2 ELSE result
  /\ UNCHANGED <<kept, outcome, recovery, incomplete, archive, policy, broken, result>>
-----------------------------------------------------------------------------
CommandStep ==
  \/ Prepare \/ AnalyzeSources \/ Instrument \/ AfterTest
  \/ Collect \/ Accept \/ Diagnose \/ ReadProfile \/ PlanSources
  \/ AcceptCounters \/ Measured \/ Finalize \/ ArchiveExecution
  \/ Analyze \/ Save \/ Report \/ Ladder \/ Deferred

Next ==
  \/ SignalsStep /\ UNCHANGED <<code, testVars, sessionVars>>
  \/ /\ exit = Running
     /\ CommandStep \/ RunTest \/ StartDeadline \/ Expire
     /\ UNCHANGED signalVars
  \/ exit # Running /\ UNCHANGED vars

(***************************************************************************)
(* Calls that take a context return once it is done: the go command of the *)
(* preparation and of the test is killed with its process group, the       *)
(* reading of evidence checks the recovery context for each file.  Nothing *)
(* is promised of how long they take otherwise.                            *)
(***************************************************************************)
Prompt ==
  CASE stage \in {"discover", "create", "load", "settings", "analyze", "inject",
                  "instrument", "testcover", "toolchain", "analysis"} -> cancelled
    [] stage \in {"collect", "accept", "profile", "plans", "counters"} -> Expired
    [] OTHER -> TRUE

Fairness ==
  /\ WF_vars(exit = Running /\ HandlerStep /\ UNCHANGED <<code, testVars, sessionVars>>)
  /\ WF_vars(exit = Running /\ MainStep /\ UNCHANGED <<code, testVars, sessionVars>>)
  /\ WF_vars(exit = Running /\ Prompt /\ CommandStep /\ UNCHANGED signalVars)
  /\ WF_vars(exit = Running /\ StartDeadline /\ UNCHANGED signalVars)
  /\ WF_vars(exit = Running /\ Expire /\ UNCHANGED signalVars)
  /\ WF_vars(exit = Running /\ stage = "gotest" /\ testRun = "idle" /\ RunTest
               /\ UNCHANGED signalVars)
  /\ WF_vars(exit = Running /\ stage = "gotest" /\ testCtx = "none"
               /\ TestContextDone(cancelled, FALSE) /\ UNCHANGED <<code, sessionVars, signalVars>>)
  /\ WF_vars(exit = Running /\ stage = "gotest" /\ testCtx # "none"
               /\ (\E b \in BOOLEAN : EndTest(b))
               /\ UNCHANGED <<code, sessionVars, signalVars>>)

Spec == Init /\ [][Next]_vars /\ Fairness
-----------------------------------------------------------------------------
MeasurementFailed ==
  \/ broken \/ incomplete
  \/ outcome.integrityFailure
  \/ cleanup = "failed"
  \/ policy.strict

FailuresFound ==
  {k \in {"measurement", "test", "threshold"} :
     \/ k = "measurement" /\ MeasurementFailed
     \/ k = "test" /\ TestRunFailed
     \/ k = "threshold" /\ policy.threshold}

(***************************************************************************)
(* D28: a process that ends by itself reports the signal it handled, else  *)
(* the gravest failure the command met, whatever the order in which the    *)
(* failures were found and the early returns taken.                        *)
(***************************************************************************)
Promise == INSTANCE Verdict WITH signal <- signalCode, failures <- FailuresFound
ImplementsVerdict == Promise!Spec

(***************************************************************************)
(* Whatever the test run and the collection did, the archive of the        *)
(* execution passes the validation that every later stage begins with; the *)
(* one exception is a recovery that ran out before the counters of an      *)
(* interrupted run were accepted.                                          *)
(***************************************************************************)
ArchiveValidates ==
  archive # NoArchive /\ ~Valid =>
    outcome.interrupted /\ Needs("c0") /\ outcome.cover = "none"

(***************************************************************************)
(* An execution that calls itself complete was observed by every producer  *)
(* it asked for, completely and without a rejection: the integrity that    *)
(* measure derives and the outcomes of the producers, which are derived    *)
(* separately, agree.                                                      *)
(***************************************************************************)
CompleteMeansAccepted ==
  archive # NoArchive /\ archive.complete =>
    \A m \in request.need : archive.producers[ProducerOf(m)] = Observed("passed")

(***************************************************************************)
(* The outcome of a runtime producer depends on which kinds of diagnostics *)
(* the collection found, not on their order: damage outweighs a torn tail, *)
(* and a torn tail is excused only when the test run did not pass.         *)
(***************************************************************************)
DiagnosticsCommute ==
  \A p \in DOMAIN outcome.producers \ {"go-cover"} :
    LET o == outcome.producers[p]
        kinds == Range(outcome.diagnostics)
    IN  o # Unavailable =>
          /\ o.integrity = IF kinds \ {"recoverable"} # {} THEN "invalid"
                           ELSE IF kinds # {} THEN "valid-prefix" ELSE "valid"
          /\ AllowsCoverage(o) <=>
               /\ kinds \subseteq {"recoverable"}
               /\ kinds # {} => testResult.status # "passed"
               /\ p \notin outcome.rejected

(***************************************************************************)
(* An interrupted command ends, by its deadline if not before, however     *)
(* long tests and collections take when they are left alone.               *)
(***************************************************************************)
InterruptionEnds == cancelled ~> exit # Running
=============================================================================
