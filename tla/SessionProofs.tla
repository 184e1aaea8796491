---------------------------- MODULE SessionProofs ----------------------------
(* A measuring command, for any requests, signals and diagnostics.  First  *)
(* its exit code: the session implements what Verdict promises (D28).      *)
(* Then what it says of its execution: the archive passes validation, what *)
(* calls itself complete is, and the order of diagnostics does not matter. *)
EXTENDS Session, FoldTheorems

(***************************************************************************)
(* The invariant.  Each failure is recorded by one stage, and is absent    *)
(* until then; the command returns the gravest, or an interruption only if *)
(* it was cancelled, which is done only after a signal's code was stored.  *)
(***************************************************************************)
BeforeAnalyze == {"discover", "create", "load", "settings", "analyze"}
BeforeCollect == BeforeAnalyze \cup
  {"inject", "instrument", "testcover", "toolchain", "runid", "gotest", "collect"}
BeforeFinalize == BeforeCollect \cup
  {"accept", "diagnose", "profile", "plans", "counters", "measured", "finalize"}
BeforeAnalysis == BeforeFinalize \cup {"archive", "analysis"}
Working == BeforeAnalysis \cup {"save", "report", "ladder"}

OutcomeOK ==
  /\ {"interrupted", "integrityFailure"} \subseteq DOMAIN outcome
  /\ outcome = [f \in DOMAIN outcome |-> outcome[f]]
  /\ {outcome.interrupted, outcome.integrityFailure} \subseteq BOOLEAN

TypeOK ==
  /\ request \in Requests
  /\ stage \in Working \cup {"deferred", "returned"}
  /\ OutcomeOK
  /\ policy \in [strict : BOOLEAN, threshold : BOOLEAN]
  /\ {incomplete, broken, cancelled} \subseteq BOOLEAN
  /\ testRun \in {"idle", "running", "ended"}
  /\ DOMAIN testResult = {"status", "failureKind", "runtimeReports", "coverReports"}

NoPolicy == ~policy.strict /\ ~policy.threshold

StageInv ==
  /\ stage \in BeforeAnalyze => ~incomplete
  /\ stage \in BeforeCollect => ~outcome.integrityFailure
  /\ stage \in BeforeFinalize => cleanup # "failed"
  /\ stage \in BeforeAnalysis \/ request.record => NoPolicy
  /\ stage \in Working => ~broken
  /\ testRun # "ended" => testResult.status = "none"
  /\ outcome.interrupted => cancelled

SignalInv ==
  /\ handler \in {"select", "stop", "cancel", "done"}
  /\ pending \in SignalCodes \cup {0}
  /\ signalCode \in {0, 130, 143}
  /\ handler = "select" => signalCode = 0
  /\ handler \in {"stop", "cancel"} => signalCode # 0
  /\ cancelled => signalCode # 0
  /\ mainStep # "run" => code # Running

Gravest ==
  CASE MeasurementFailed -> 2
    [] ~MeasurementFailed /\ TestRunFailed -> 1
    [] ~MeasurementFailed /\ ~TestRunFailed /\ policy.threshold -> 3
    [] OTHER -> 0

Honest(c) == IF c = 130 THEN cancelled ELSE c = Gravest

ResultInv ==
  /\ code # Running <=> stage = "returned"
  /\ stage = "deferred" => Honest(result)
  /\ stage = "returned" => Honest(code)

SInv == TypeOK /\ StageInv /\ SignalInv /\ ResultInv
-----------------------------------------------------------------------------
(* No stage occurs twice.                                                  *)
LEMMA StagesDiffer ==
  \A i, j \in 1..24 : Stages[i] = Stages[j] => i = j
BY DEF Stages

(* Proceed moves to the next entry of Stages.                              *)
LEMMA StageAfter ==
  ASSUME NEW i \in 1..23, stage = Stages[i], Proceed
  PROVE  stage' = Stages[i + 1]
<1>1. DOMAIN Stages = 1..24
  BY DEF Stages
<1> DEFINE position == CHOOSE j \in DOMAIN Stages : Stages[j] = stage
<1>2. position \in 1..24 /\ Stages[position] = stage
  BY <1>1
<1>3. position = i
  BY <1>2, StagesDiffer
<1>4. stage' = Stages[1 + position]
  BY DEF Proceed
<1> HIDE DEF position
<1>5. 1 + position = i + 1
  BY <1>3
<1> QED BY <1>4, <1>5

(* A stage that succeeds is followed by the next.                          *)
LEMMA Moves ==
  ASSUME Proceed
  PROVE  /\ stage = "discover" => stage' = "create"
         /\ stage = "create" => stage' = "load"
         /\ stage = "load" => stage' = "settings"
         /\ stage = "settings" => stage' = "analyze"
         /\ stage = "analyze" => stage' = "inject"
         /\ stage = "inject" => stage' = "instrument"
         /\ stage = "instrument" => stage' = "testcover"
         /\ stage = "testcover" => stage' = "toolchain"
         /\ stage = "toolchain" => stage' = "runid"
         /\ stage = "runid" => stage' = "gotest"
         /\ stage = "gotest" => stage' = "collect"
         /\ stage = "collect" => stage' = "accept"
         /\ stage = "accept" => stage' = "diagnose"
         /\ stage = "diagnose" => stage' = "profile"
         /\ stage = "profile" => stage' = "plans"
         /\ stage = "plans" => stage' = "counters"
         /\ stage = "counters" => stage' = "measured"
         /\ stage = "measured" => stage' = "finalize"
         /\ stage = "finalize" => stage' = "archive"
         /\ stage = "archive" => stage' = "analysis"
         /\ stage = "analysis" => stage' = "save"
         /\ stage = "save" => stage' = "report"
         /\ stage = "report" => stage' = "ladder"
<1>1. \A i \in 1..23 : stage = Stages[i] => stage' = Stages[i + 1]
  BY StageAfter
<1> QED BY <1>1 DEF Stages

(* The first stage has no failure, and no stage returned yet.              *)
LEMMA SessionInitInv == Init => SInv
<1> SUFFICES ASSUME Init PROVE SInv
  OBVIOUS
<1>1. TypeOK
  <2>1. /\ DOMAIN outcome = {"interrupted", "integrityChecked", "integrityFailure",
             "collectionErr", "diagnostics", "unsound", "rejected", "producers",
             "cover", "readErr", "probes"}
        /\ outcome = [f \in DOMAIN outcome |-> outcome[f]]
        /\ outcome.interrupted = FALSE /\ outcome.integrityFailure = FALSE
    BY DEF Init, SessionInit, NoOutcome
  <2>2. testRun = "idle" /\ DOMAIN testResult = {"status", "failureKind",
                                                "runtimeReports", "coverReports"}
    BY DEF Init, GoTestInit
  <2> QED BY <2>1, <2>2 DEF TypeOK, OutcomeOK, Init, SessionInit, SignalsInit, Working,
     BeforeAnalysis, BeforeFinalize, BeforeCollect, BeforeAnalyze
<1>2. StageInv
  BY DEF Init, SessionInit, SignalsInit, GoTestInit, NoOutcome, StageInv, NoPolicy
<1>3. SignalInv /\ ResultInv
  BY DEF Init, SessionInit, SignalsInit, SignalInv, ResultInv, Running
<1> QED BY <1>1, <1>2, <1>3 DEF SInv

(* A stage that succeeds leaves the result open.                           *)
LEMMA ProceedInv ==
  ASSUME SInv, Proceed, stage \in Working, stage # "ladder"
  PROVE  /\ stage' \in Working
         /\ broken' = broken
         /\ ResultInv'
<1>1. stage' \in Working /\ stage' \notin {"deferred", "returned"}
  BY Moves DEF Working, BeforeAnalysis, BeforeFinalize, BeforeCollect, BeforeAnalyze
<1>2. code = Running /\ code' = code /\ broken' = broken
  BY DEF SInv, ResultInv, Proceed, Working, BeforeAnalysis, BeforeFinalize, BeforeCollect,
     BeforeAnalyze
<1> QED BY <1>1, <1>2 DEF ResultInv, Running

(* A stage that fails makes the command return 2, or 130 if it was         *)
(* cancelled.                                                              *)
LEMMA GiveUpInv ==
  ASSUME SInv, GiveUp \/ Fail, stage \in Working, UNCHANGED cancelled
  PROVE  /\ stage' = "deferred"
         /\ broken' = TRUE
         /\ ResultInv'
<1>1. /\ stage' = "deferred" /\ broken' = TRUE /\ code' = code
      /\ result' = 2 \/ (result' = 130 /\ cancelled)
  BY DEF GiveUp, Fail, Return
<1>2. code = Running
  BY DEF SInv, ResultInv, Working, BeforeAnalysis, BeforeFinalize, BeforeCollect, BeforeAnalyze
<1>3. Gravest' = 2
  BY <1>1 DEF Gravest, MeasurementFailed
<1> QED BY <1>1, <1>2, <1>3 DEF ResultInv, Honest, Running

(* The failures that are found are never forgotten.                        *)
Grows ==
  /\ MeasurementFailed => MeasurementFailed'
  /\ TestRunFailed => TestRunFailed'
  /\ policy.threshold => policy'.threshold

(* The goroutines of main.go: a signal's code is stored before the command *)
(* is cancelled.                                                           *)
LEMMA SignalsInv ==
  ASSUME SInv, SignalsStep, UNCHANGED <<code, testVars, sessionVars>>
  PROVE  SInv' /\ FailuresFound' = FailuresFound
<1>1. cancelled' \in BOOLEAN /\ (cancelled => cancelled')
  <2>1. cancelled \in BOOLEAN
    BY DEF SInv, TypeOK
  <2>2. cancelled' = cancelled \/ cancelled' = TRUE
    BY DEF SignalsStep, HandlerStep, MainStep, Receive, HandlerStop, Cancel,
       HandlerFinished, Close, MainStop, Exit, Send
  <2> QED BY <2>1, <2>2
<1>2. SignalInv'
  <2>1. CASE \E n \in SignalCodes : Send(n)
    BY <2>1 DEF SInv, SignalInv, Send
  <2>2. CASE Receive
    BY <2>2, SignalsAssumption DEF SInv, SignalInv, Receive
  <2>3. CASE HandlerStop \/ Cancel \/ HandlerFinished
    BY <2>3 DEF SInv, SignalInv, HandlerStop, Cancel, HandlerFinished
  <2>4. CASE MainStep
    BY <2>4 DEF SInv, SignalInv, MainStep, Close, MainStop, Exit
  <2> QED BY <2>1, <2>2, <2>3, <2>4 DEF SignalsStep, HandlerStep
<1>3. UNCHANGED <<code, request, stage, outcome, recovery, incomplete, cleanup, policy, broken,
                  result, testRun, testResult>>
  BY DEF sessionVars, testVars
<1>4. FailuresFound' = FailuresFound
  BY <1>3 DEF FailuresFound, MeasurementFailed, TestRunFailed
<1>5. Gravest' = Gravest
  BY <1>3 DEF Gravest, MeasurementFailed, TestRunFailed
<1>6. ResultInv'
  BY <1>1, <1>3, <1>5 DEF SInv, ResultInv, Honest
<1>7. TypeOK' /\ StageInv'
  BY <1>1, <1>3 DEF SInv, TypeOK, OutcomeOK, StageInv, NoPolicy
<1> QED BY <1>2, <1>4, <1>6, <1>7 DEF SInv
-----------------------------------------------------------------------------
(* The signals are left alone while the command works.                     *)
LEMMA SignalsKept ==
  ASSUME SInv, stage # "returned", UNCHANGED signalVars
  PROVE  SignalInv'
BY DEF SInv, ResultInv, SignalInv, signalVars

(* What the stages before the ladder have in common: each may find the     *)
(* failures that are recorded by it, and forgets none.                     *)
Ends ==
  \/ Proceed
  \/ GiveUp \/ Fail
  \/ cancelled /\ Return(130) /\ UNCHANGED broken

Regular ==
  /\ stage \in Working /\ stage # "ladder"
  /\ Ends
  /\ UNCHANGED <<request, testRun, testResult, signalVars>>
  /\ OutcomeOK'
  /\ outcome.integrityFailure => outcome'.integrityFailure
  /\ outcome'.interrupted => cancelled
  /\ outcome'.integrityFailure = outcome.integrityFailure
       \/ stage \notin BeforeCollect \ {"collect"}
  /\ incomplete' = incomplete \/ (stage = "analyze" /\ incomplete' \in BOOLEAN)
  /\ cleanup' = cleanup \/ (stage = "create" /\ cleanup' = "open") \/ stage = "finalize"
  /\ policy' = policy
       \/ /\ stage = "analysis" /\ ~request.record
          /\ policy' \in [strict : BOOLEAN, threshold : BOOLEAN]

(* A regular stage preserves the invariant.                                *)
LEMMA RegularInv ==
  ASSUME SInv, Regular
  PROVE  SInv' /\ Grows
<1>1. /\ stage \in Working /\ stage # "ladder" /\ stage # "returned"
      /\ UNCHANGED <<cancelled, signalVars>>
  BY DEF Regular, signalVars, Working, BeforeAnalysis, BeforeFinalize, BeforeCollect,
     BeforeAnalyze
<1>2. SignalInv'
  BY <1>1, SignalsKept
<1>3. /\ stage' \in Working \cup {"deferred"}
      /\ {broken, broken'} \subseteq BOOLEAN /\ (broken => broken')
      /\ stage' \in Working => ~broken'
      /\ ResultInv'
  <2>1. ~broken /\ broken \in BOOLEAN
    BY <1>1 DEF SInv, StageInv, TypeOK
  <2>2. CASE Proceed
    BY <1>1, <2>1, <2>2, ProceedInv
  <2>3. CASE GiveUp \/ Fail
    BY <1>1, <2>1, <2>3, GiveUpInv DEF Working, BeforeAnalysis, BeforeFinalize,
       BeforeCollect, BeforeAnalyze
  <2>4. CASE cancelled /\ Return(130) /\ UNCHANGED broken
    BY <1>1, <2>1, <2>4 DEF SInv, ResultInv, Return, Honest, Running, Working,
       BeforeAnalysis, BeforeFinalize, BeforeCollect, BeforeAnalyze
  <2> QED BY <2>2, <2>3, <2>4 DEF Regular, Ends
<1>4. TypeOK'
  BY <1>1, <1>3 DEF SInv, TypeOK, Regular
<1>5. Grows
  BY <1>3 DEF SInv, StageInv, TypeOK, Regular, Grows, MeasurementFailed, TestRunFailed,
     NoPolicy, Working, BeforeAnalysis, BeforeFinalize, BeforeCollect, BeforeAnalyze
<1>6. StageInv'
  <2>1. /\ stage' \in BeforeAnalyze => stage \in BeforeAnalyze \ {"analyze"}
        /\ stage' \in BeforeCollect => stage \in BeforeCollect \ {"collect"}
        /\ stage' \in BeforeFinalize => stage \in BeforeFinalize \ {"finalize"}
        /\ stage' \in BeforeAnalysis => stage \in BeforeAnalysis \ {"analysis"}
    <3>1. CASE Proceed
      BY <1>1, <3>1, Moves DEF Working, BeforeAnalysis, BeforeFinalize, BeforeCollect,
         BeforeAnalyze
    <3>2. CASE stage' = "deferred"
      BY <3>2 DEF Working, BeforeAnalysis, BeforeFinalize, BeforeCollect, BeforeAnalyze
    <3> QED BY <3>1, <3>2 DEF Regular, Ends, GiveUp, Fail, Return
  <2>2. stage' \in BeforeAnalyze => ~incomplete'
    BY <2>1 DEF SInv, StageInv, Regular, Working, BeforeAnalysis, BeforeFinalize,
       BeforeCollect, BeforeAnalyze
  <2>3. stage' \in BeforeCollect => ~outcome'.integrityFailure
    BY <2>1 DEF SInv, StageInv, Regular
  <2>4. stage' \in BeforeFinalize => cleanup' # "failed"
    BY <2>1 DEF SInv, StageInv, Regular
  <2>5. stage' \in BeforeAnalysis \/ request'.record => NoPolicy'
    BY <2>1 DEF SInv, StageInv, Regular, NoPolicy
  <2>6. /\ testRun' # "ended" => testResult'.status = "none"
        /\ outcome'.interrupted => cancelled'
    BY <1>1 DEF SInv, StageInv, Regular
  <2> QED BY <1>3, <2>2, <2>3, <2>4, <2>5, <2>6 DEF StageInv
<1> QED BY <1>2, <1>3, <1>4, <1>5, <1>6 DEF SInv

(* Every stage before the ladder is regular.                               *)
LEMMA StagesRegular ==
  ASSUME SInv, UNCHANGED signalVars,
         \/ Prepare \/ AnalyzeSources \/ Instrument \/ AfterTest
         \/ Collect \/ Accept \/ Diagnose \/ ReadProfile \/ PlanSources
         \/ AcceptCounters \/ Measured \/ Finalize \/ ArchiveExecution
         \/ Analyze \/ Save \/ Report
  PROVE  Regular
<1>1. /\ OutcomeOK /\ (outcome.interrupted => cancelled)
      /\ {cancelled, incomplete} \subseteq BOOLEAN /\ request \in Requests
      /\ {request.record, request.unparsable, request.strict, request.threshold}
            \subseteq BOOLEAN
      /\ cancelled' = cancelled
  BY SessionAssumption DEF SInv, TypeOK, StageInv, signalVars
<1> USE DEF Working, BeforeAnalysis, BeforeFinalize, BeforeCollect, BeforeAnalyze
<1>2. CASE Prepare
  BY <1>1, <1>2 DEF Prepare, kept, testVars, Regular, Ends, OutcomeOK
<1>3. CASE AnalyzeSources
  BY <1>1, <1>3 DEF AnalyzeSources, kept, testVars, Regular, Ends, OutcomeOK
<1>4. CASE Instrument
  <2>1. /\ OutcomeOK'
        /\ outcome'.integrityFailure = outcome.integrityFailure
        /\ outcome'.interrupted => cancelled
    BY <1>1, <1>4 DEF Instrument, OutcomeOK
  <2> QED BY <1>1, <1>4, <2>1 DEF Instrument, kept, testVars, Regular, Ends
<1>5. CASE AfterTest
  <2>1. /\ OutcomeOK'
        /\ outcome'.integrityFailure = outcome.integrityFailure
        /\ outcome'.interrupted => cancelled
    BY <1>1, <1>5 DEF AfterTest, OutcomeOK
  <2> QED BY <1>1, <1>5, <2>1 DEF AfterTest, kept, testVars, Regular, Ends
<1>6. CASE Collect
  <2>1. /\ OutcomeOK'
        /\ outcome'.interrupted = outcome.interrupted
        /\ ~outcome.integrityFailure
    BY <1>1, <1>6 DEF Collect, OutcomeOK, SInv, StageInv
  <2> QED BY <1>1, <1>6, <2>1 DEF Collect, kept, testVars, Regular, Ends
<1>7. CASE Accept
  <2>1. /\ OutcomeOK'
        /\ outcome'.interrupted = outcome.interrupted
        /\ outcome.integrityFailure => outcome'.integrityFailure
    BY <1>1, <1>7 DEF Accept, OutcomeOK
  <2> QED BY <1>1, <1>7, <2>1 DEF Accept, kept, testVars, Regular, Ends
<1>8. CASE Diagnose
  <2>1. /\ OutcomeOK'
        /\ outcome'.interrupted = outcome.interrupted
        /\ outcome.integrityFailure => outcome'.integrityFailure
    BY <1>1, <1>8 DEF Diagnose, OutcomeOK
  <2> QED BY <1>1, <1>8, <2>1 DEF Diagnose, kept, testVars, Regular, Ends
<1>9. CASE ReadProfile
  <2>1. /\ OutcomeOK'
        /\ outcome'.interrupted = outcome.interrupted
        /\ outcome.integrityFailure = outcome'.integrityFailure
    BY <1>1, <1>9 DEF ReadProfile, OutcomeOK
  <2> QED BY <1>1, <1>9, <2>1 DEF ReadProfile, kept, testVars, Regular, Ends
<1>10. CASE PlanSources
  BY <1>1, <1>10 DEF PlanSources, kept, testVars, Regular, Ends, OutcomeOK
<1>11. CASE AcceptCounters
  <2>1. /\ OutcomeOK'
        /\ outcome'.interrupted = outcome.interrupted
        /\ outcome.integrityFailure => outcome'.integrityFailure
    BY <1>1, <1>11 DEF AcceptCounters, OutcomeOK
  <2> QED BY <1>1, <1>11, <2>1 DEF AcceptCounters, kept, testVars, Regular, Ends
<1>12. CASE Measured
  <2>1. /\ OutcomeOK'
        /\ outcome'.interrupted => cancelled
        /\ outcome.integrityFailure = outcome'.integrityFailure
    BY <1>1, <1>12 DEF Measured, OutcomeOK
  <2> QED BY <1>1, <1>12, <2>1 DEF Measured, kept, testVars, Regular, Ends
<1>13. CASE Finalize
  BY <1>1, <1>13 DEF Finalize, kept, testVars, Regular, Ends, OutcomeOK
<1>14. CASE ArchiveExecution
  BY <1>1, <1>14 DEF ArchiveExecution, kept, testVars, Regular, Ends, OutcomeOK
<1>15. CASE Analyze
  BY <1>1, <1>15 DEF Analyze, kept, testVars, Regular, Ends, OutcomeOK
<1>16. CASE Save \/ Report
  BY <1>1, <1>16 DEF Save, Report, kept, testVars, Regular, Ends, OutcomeOK
<1> QED BY <1>2, <1>3, <1>4, <1>5, <1>6, <1>7, <1>8, <1>9, <1>10, <1>11, <1>12, <1>13,
           <1>14, <1>15, <1>16

(* The end of runCoverage returns the gravest failure, or the interruption *)
(* (classifyExit); a recording has no policy to fail.                      *)
LEMMA LadderInv ==
  ASSUME SInv, Ladder, UNCHANGED signalVars
  PROVE  SInv' /\ Grows
<1>1. /\ stage = "ladder" /\ stage' = "deferred" /\ code' = code
      /\ UNCHANGED <<request, testRun, testResult, outcome, incomplete, cleanup, policy,
                     broken, cancelled>>
  BY DEF Ladder, Return, kept, testVars, signalVars
<1>2. ~broken /\ (request.record => NoPolicy) /\ (outcome.interrupted => cancelled)
  BY <1>1 DEF SInv, StageInv, Working, BeforeAnalysis, BeforeFinalize, BeforeCollect,
     BeforeAnalyze
<1>4. Honest(result)'
  <2>1. Gravest' = Gravest
    BY <1>1 DEF Gravest, MeasurementFailed, TestRunFailed
  <2>2. CASE outcome.interrupted
    <3>1. result' = 130
      BY <2>2 DEF Ladder, Return
    <3> QED BY <1>1, <1>2, <2>2, <3>1 DEF Honest
  <2>3. CASE ~outcome.interrupted
    <3>1. result' = Gravest
      BY <1>2, <2>3 DEF Ladder, Return, ClassifyExit, Gravest, MeasurementFailed, NoPolicy
    <3>2. Gravest # 130
      BY DEF Gravest
    <3> QED BY <1>1, <2>1, <3>1, <3>2 DEF Honest
  <2> QED BY <2>2, <2>3
<1>5. SignalInv' /\ code = Running
  BY <1>1, SignalsKept DEF SInv, ResultInv, Working, BeforeAnalysis, BeforeFinalize,
     BeforeCollect, BeforeAnalyze
<1>6. TypeOK' /\ StageInv' /\ ResultInv'
  BY <1>1, <1>4, <1>5 DEF SInv, TypeOK, OutcomeOK, StageInv, NoPolicy, ResultInv, Working,
     BeforeAnalysis, BeforeFinalize, BeforeCollect, BeforeAnalyze
<1>7. Grows
  BY <1>1 DEF Grows, MeasurementFailed, TestRunFailed
<1> QED BY <1>5, <1>6, <1>7 DEF SInv

(* The deferred finalizer may still fail.                                  *)
LEMMA DeferredInv ==
  ASSUME SInv, Deferred, UNCHANGED signalVars
  PROVE  SInv' /\ Grows
<1>1. /\ stage = "deferred" /\ stage' = "returned"
      /\ UNCHANGED <<request, testRun, testResult, outcome, incomplete, policy,
                     broken, cancelled>>
      /\ cleanup' = cleanup \/ cleanup = "open"
      /\ code' = IF cleanup' = "failed" /\ result # 130 THEN 2 ELSE result
  BY DEF Deferred, kept, testVars, signalVars
<1>2. Honest(result)
  BY <1>1 DEF SInv, ResultInv
<1>3. Grows
  BY <1>1 DEF Grows, MeasurementFailed, TestRunFailed
<1>4. Honest(code)'
  <2>1. CASE cleanup' = "failed"
    <3>1. Gravest' = 2
      BY <2>1 DEF Gravest, MeasurementFailed
    <3> QED BY <1>1, <1>2, <2>1, <3>1 DEF Honest
  <2>2. CASE cleanup' # "failed"
    <3>1. code' = result /\ cleanup # "failed"
      BY <1>1, <2>2
    <3>2. Gravest' = Gravest
      BY <1>1, <2>2, <3>1 DEF Gravest, MeasurementFailed, TestRunFailed
    <3> QED BY <1>1, <1>2, <3>1, <3>2 DEF Honest
  <2> QED BY <2>1, <2>2
<1>5. code' # Running
  BY <1>1, <1>2 DEF Honest, Gravest, Running
<1>6. SignalInv'
  BY <1>1, SignalsKept
<1>7. TypeOK' /\ StageInv' /\ ResultInv'
  BY <1>1, <1>4, <1>5 DEF SInv, TypeOK, OutcomeOK, StageInv, NoPolicy, ResultInv, Working,
     BeforeAnalysis, BeforeFinalize, BeforeCollect, BeforeAnalyze
<1> QED BY <1>3, <1>6, <1>7 DEF SInv

(* The test run ends once, and the clock of the recovery is nobody's       *)
(* failure.                                                                *)
LEMMA TestAndClockInv ==
  ASSUME SInv, RunTest \/ StartDeadline \/ Expire, UNCHANGED signalVars
  PROVE  SInv' /\ Grows
<1>1. /\ UNCHANGED <<request, stage, outcome, incomplete, cleanup, policy, broken, result,
                     code, cancelled>>
      /\ testRun' \in {"idle", "running", "ended"}
      /\ DOMAIN testResult' = {"status", "failureKind", "runtimeReports", "coverReports"}
      /\ testRun' # "ended" => testResult'.status = "none"
      /\ testResult' = testResult
           \/ /\ testRun = "running" /\ stage = "gotest"
              /\ testResult.status = "none"
  <2>1. CASE RunTest
    BY <2>1 DEF SInv, TypeOK, StageInv, RunTest, StartTest, TestStep, Line, TestContextDone,
       EndTest, sessionVars, signalVars
  <2>2. CASE StartDeadline \/ Expire
    BY <2>2 DEF SInv, TypeOK, StageInv, StartDeadline, Expire, Clock, kept, testVars,
       signalVars
  <2> QED BY <2>1, <2>2
<1>2. Grows
  BY <1>1 DEF Grows, MeasurementFailed, TestRunFailed
<1>3. SignalInv'
  BY <1>1 DEF SInv, SignalInv, signalVars
<1>4. TypeOK' /\ StageInv'
  BY <1>1 DEF SInv, TypeOK, OutcomeOK, StageInv, NoPolicy
<1>5. ResultInv'
  <2>1. CASE stage = "gotest"
    BY <1>1, <2>1 DEF SInv, ResultInv
  <2>2. CASE stage # "gotest"
    <3>1. Gravest' = Gravest
      BY <1>1, <2>2 DEF Gravest, MeasurementFailed, TestRunFailed
    <3> QED BY <1>1, <3>1 DEF SInv, ResultInv, Honest
  <2> QED BY <2>1, <2>2
<1> QED BY <1>2, <1>3, <1>4, <1>5 DEF SInv
-----------------------------------------------------------------------------
(* One step of the command, whatever its stage.                            *)
LEMMA SessionStepInv ==
  ASSUME SInv, CommandStep \/ RunTest \/ StartDeadline \/ Expire, UNCHANGED signalVars
  PROVE  SInv' /\ Grows
<1>1. CASE Ladder \/ Deferred
  BY <1>1, LadderInv, DeferredInv
<1>2. CASE RunTest \/ StartDeadline \/ Expire
  BY <1>2, TestAndClockInv
<1>3. CASE Regular
  BY <1>3, RegularInv
<1> QED BY <1>1, <1>2, <1>3, StagesRegular DEF CommandStep

(* The invariant is inductive.                                             *)
LEMMA SessionNextInv == SInv /\ [Next]_vars => SInv'
<1> SUFFICES ASSUME SInv, [Next]_vars PROVE SInv'
  OBVIOUS
<1>1. CASE SignalsStep /\ UNCHANGED <<code, testVars, sessionVars>>
  BY <1>1, SignalsInv
<1>2. CASE (CommandStep \/ RunTest \/ StartDeadline \/ Expire) /\ UNCHANGED signalVars
  BY <1>2, SessionStepInv
<1>3. CASE UNCHANGED vars
  BY <1>3 DEF vars, signalVars, testVars, sessionVars, SInv, TypeOK, OutcomeOK, StageInv,
     NoPolicy, SignalInv, ResultInv, Honest, Gravest, MeasurementFailed, TestRunFailed
<1> QED BY <1>1, <1>2, <1>3 DEF Next

(* The invariant holds of any requests, signals and diagnostics.           *)
THEOREM SessionInvariant == Spec => []SInv
BY SessionInitInv, SessionNextInv, PTL DEF Spec
-----------------------------------------------------------------------------
(* What Verdict calls the code is the gravest failure, unless a signal was *)
(* handled.                                                                *)
LEMMA CodeIsGravest ==
  Promise!Code = IF signalCode # 0 THEN signalCode ELSE Gravest
<1>1. /\ "measurement" \in FailuresFound <=> MeasurementFailed
      /\ "test" \in FailuresFound <=> TestRunFailed
      /\ "threshold" \in FailuresFound <=> policy.threshold
      /\ FailuresFound \subseteq {"measurement", "test", "threshold"}
  BY DEF FailuresFound
<1>2. CASE MeasurementFailed
  BY <1>1, <1>2 DEF Promise!Code, Gravest
<1>3. CASE ~MeasurementFailed /\ TestRunFailed
  <2>1. FailuresFound = {"test"} \/ FailuresFound = {"test", "threshold"}
    BY <1>1, <1>3
  <2> QED BY <1>1, <1>3, <2>1 DEF Promise!Code, Gravest
<1>4. CASE ~MeasurementFailed /\ ~TestRunFailed
  <2>1. FailuresFound = IF policy.threshold THEN {"threshold"} ELSE {}
    BY <1>1, <1>4
  <2> QED BY <1>1, <1>4, <2>1 DEF Promise!Code, Gravest
<1> QED BY <1>2, <1>3, <1>4

(* A step of the signals' goroutines is the handling of a signal, the end  *)
(* of the process, or nothing that Verdict sees.                           *)
LEMMA SignalsImplement ==
  ASSUME SInv, exit = Running, SignalsStep, UNCHANGED <<code, testVars, sessionVars>>
  PROVE  Promise!Handle \/ Promise!End \/ UNCHANGED <<FailuresFound, signalCode, exit>>
<1>1. FailuresFound' = FailuresFound
  BY SignalsInv
<1>2. CASE \E n \in SignalCodes : Send(n)
  BY <1>1, <1>2 DEF Send, Promise!End, Killed, Promise!Killed
<1>3. CASE Receive
  <2>1. signalCode = 0 /\ signalCode' \in {130, 143} /\ exit' = exit
    BY <1>3, SignalsAssumption DEF SInv, SignalInv, Receive
  <2> QED BY <1>1, <2>1 DEF Promise!Handle
<1>4. CASE HandlerStop \/ Cancel \/ HandlerFinished \/ Close \/ MainStop
  BY <1>1, <1>4 DEF HandlerStop, Cancel, HandlerFinished, Close, MainStop
<1>5. CASE Exit
  <2>1. /\ exit' = IF signalCode # 0 THEN signalCode ELSE code
        /\ signalCode' = signalCode /\ mainStep = "wait"
    BY <1>5 DEF Exit
  <2>2. Honest(code) /\ (cancelled => signalCode # 0)
    BY <2>1 DEF SInv, ResultInv, SignalInv
  <2>3. signalCode = 0 => code = Gravest
    BY <2>2 DEF Honest
  <2>4. exit' = Promise!Code
    BY <2>1, <2>3, CodeIsGravest
  <2> QED BY <1>1, <2>1, <2>4 DEF Promise!End
<1> QED BY <1>2, <1>3, <1>4, <1>5 DEF SignalsStep, HandlerStep, MainStep

(* Every step of the session is one of Verdict, or a stutter.              *)
LEMMA SessionImplements ==
  SInv /\ [Next]_vars => [Promise!Next]_<<FailuresFound, signalCode, exit>>
<1> SUFFICES ASSUME SInv, [Next]_vars
             PROVE  Promise!Next \/ UNCHANGED <<FailuresFound, signalCode, exit>>
  OBVIOUS
<1>1. CASE SignalsStep /\ UNCHANGED <<code, testVars, sessionVars>>
  BY <1>1, SignalsImplement DEF SignalsStep, Promise!Next, Running, Promise!Running
<1>2. CASE /\ exit = Running
           /\ CommandStep \/ RunTest \/ StartDeadline \/ Expire
           /\ UNCHANGED signalVars
  <2>1. Grows /\ UNCHANGED <<signalCode, exit>>
    BY <1>2, SessionStepInv DEF signalVars
  <2>2. FailuresFound \subseteq FailuresFound'
        /\ FailuresFound' \subseteq {"measurement", "test", "threshold"}
    BY <2>1 DEF Grows, FailuresFound
  <2> QED BY <1>2, <2>1, <2>2 DEF Promise!Next, Promise!Find, Running, Promise!Running
<1>3. CASE UNCHANGED vars
  BY <1>3 DEF vars, signalVars, testVars, sessionVars, FailuresFound, MeasurementFailed,
     TestRunFailed
<1> QED BY <1>1, <1>2, <1>3 DEF Next

(* D28, of any requests, signals and diagnostics: the process reports the  *)
(* signal that it handled, else the gravest failure that the command met,  *)
(* whatever was found in which order and wherever it gave up.              *)
THEOREM SessionImplementsVerdict == Spec => ImplementsVerdict
<1>1. Init => Promise!Init
  BY DEF Init, SessionInit, SignalsInit, GoTestInit, NoOutcome, Promise!Init, FailuresFound,
     MeasurementFailed, TestRunFailed, Running, Promise!Running
<1> QED BY <1>1, SessionInvariant, SessionImplements, PTL
      DEF Spec, ImplementsVerdict, Promise!Spec
-----------------------------------------------------------------------------
(***************************************************************************)
(* The outcome after diagnostics of the kinds K: damage outweighs a torn   *)
(* tail, and a torn tail is excused unless the test run passed.            *)
(***************************************************************************)
Told(status, o, K) ==
  /\ o \in Outcomes
  /\ o.mapping = "complete" /\ o.completeness # "unavailable"
  /\ o.integrity = IF K \ {"recoverable"} # {} THEN "invalid"
                   ELSE IF K # {} THEN "valid-prefix" ELSE "valid"
  /\ AllowsCoverage(o) <=> K \subseteq {"recoverable"} /\ (K # {} => status # "passed")

(* No diagnostics leave the observation as it is.                          *)
LEMMA ObservedTold == \A status : Told(status, Observed(status), {})
BY DEF Told, Observed, Outcomes, Integrities, Completenesses, Mappings, Usabilities,
   AllowsCoverage

(* One more diagnostic adds its kind.                                      *)
LEMMA DiagnosedTold ==
  ASSUME NEW status, NEW o, NEW K, NEW d, Told(status, o, K)
  PROVE  Told(status, Diagnosed(status, o, d), K \cup {d})
<1>1. o = [integrity |-> o.integrity, completeness |-> o.completeness,
           mapping |-> o.mapping, usability |-> o.usability]
  BY DEF Told, Outcomes
<1> USE DEF Told, Outcomes, Integrities, Completenesses, Mappings, Usabilities, AllowsCoverage
<1>2. CASE d = "recoverable"
  <2>1. Diagnosed(status, o, d) =
          [o EXCEPT !.integrity = IF @ = "valid" THEN "valid-prefix" ELSE @,
                    !.completeness = "partial",
                    !.usability = IF status = "passed" THEN "rejected" ELSE @]
    BY <1>2 DEF Diagnosed
  <2> QED BY <1>1, <1>2, <2>1
<1>3. CASE d # "recoverable"
  <2>1. /\ Diagnosed(status, o, d) \in Outcomes
        /\ Diagnosed(status, o, d).integrity = "invalid"
        /\ Diagnosed(status, o, d).usability = "rejected"
        /\ Diagnosed(status, o, d).mapping = "complete"
        /\ Diagnosed(status, o, d).completeness # "unavailable"
    BY <1>1, <1>3 DEF Diagnosed
  <2> QED BY <1>3, <2>1
<1> QED BY <1>2, <1>3

-----------------------------------------------------------------------------
(***************************************************************************)
(* FoldLeft is a function on the sets of positions.  It exists, because    *)
(* one on the sets up to m extends to one up to m + 1, and its values are  *)
(* told by the kinds of diagnostics at the positions.                      *)
(***************************************************************************)
IsFold(status, seq, D, f) ==
  f = [s \in SUBSET D |->
         IF s = {} THEN Observed(status)
         ELSE LET x == Max(s)
              IN  Diagnosed(status, f[s \ {x}], seq[x])]

(* The diagnostics of any number of places can be folded.                  *)
LEMMA FoldExists ==
  ASSUME NEW status, NEW seq, NEW n \in Nat
  PROVE  \E f : IsFold(status, seq, 1..n, f)
<1> DEFINE T == {m \in Nat : \E f : IsFold(status, seq, 1..m, f)}
<1>1. 0 \in T
  <2>1. IsFold(status, seq, {}, [s \in {{}} |-> Observed(status)])
    BY DEF IsFold
  <2>2. 1..0 = {}
    OBVIOUS
  <2> QED BY <2>1, <2>2
<1>2. ASSUME NEW m \in T
      PROVE  m + 1 \in T
  <2>1. PICK f : IsFold(status, seq, 1..m, f)
    OBVIOUS
  <2> DEFINE g == [s \in SUBSET (1..(m + 1)) |->
                     IF m + 1 \in s THEN Diagnosed(status, f[s \ {m + 1}], seq[m + 1])
                     ELSE f[s]]
             h == [s \in SUBSET (1..(m + 1)) |->
                     IF s = {} THEN Observed(status)
                     ELSE LET x == Max(s)
                          IN  Diagnosed(status, g[s \ {x}], seq[x])]
  <2>2. ASSUME NEW s \in SUBSET (1..(m + 1))
        PROVE  g[s] = h[s]
    <3>1. CASE m + 1 \in s
      <4>1. s \ {m + 1} \in SUBSET (1..m) /\ Max(s) = m + 1 /\ s # {}
        BY <3>1, MaxIs
      <4>2. s \ {m + 1} \in SUBSET (1..(m + 1)) /\ m + 1 \notin s \ {m + 1}
        OBVIOUS
      <4>3. g[s \ {m + 1}] = f[s \ {m + 1}]
        BY <4>2
      <4> QED BY <3>1, <4>1, <4>3
    <3>2. CASE m + 1 \notin s
      <4>1. s \in SUBSET (1..m)
        BY <3>2
      <4>2. f[s] = IF s = {} THEN Observed(status)
                   ELSE LET x == Max(s)
                        IN  Diagnosed(status, f[s \ {x}], seq[x])
        BY <2>1, <4>1 DEF IsFold
      <4>3. \A x : g[s \ {x}] = f[s \ {x}]
        BY <3>2
      <4> QED BY <3>2, <4>2, <4>3
    <3> QED BY <3>1, <3>2
  <2>3. g = h
    BY <2>2
  <2> HIDE DEF g
  <2>4. IsFold(status, seq, 1..(m + 1), g)
    BY <2>3 DEF IsFold
  <2> QED BY <2>4
<1>3. T \in SUBSET Nat
  OBVIOUS
<1> HIDE DEF T
<1>4. T = Nat
  BY <1>1, <1>2, <1>3, SetInduction
<1> QED BY <1>4 DEF T

(* The kinds of the diagnostics at the positions s.                        *)
Kinds(seq, s) == {seq[i] : i \in s}

(* Its value at all positions is told by all kinds.                        *)
LEMMA FoldTold ==
  ASSUME NEW status, NEW seq, NEW n \in Nat, NEW f, IsFold(status, seq, 1..n, f)
  PROVE  Told(status, f[1..n], Kinds(seq, 1..n))
<1> DEFINE P(m) == m <= n => \A s \in SUBSET (1..m) : Told(status, f[s], Kinds(seq, s))
           T == {m \in Nat : P(m)}
<1>1. P(0)
  <2>1. f[{}] = Observed(status) /\ Kinds(seq, {}) = {}
    BY DEF IsFold, Kinds
  <2>2. SUBSET (1..0) = {{}}
    OBVIOUS
  <2> QED BY <2>1, <2>2, ObservedTold
<1>2. ASSUME NEW m \in Nat, P(m)
      PROVE  P(m + 1)
  <2>1. SUFFICES ASSUME m + 1 <= n, NEW s \in SUBSET (1..(m + 1))
                 PROVE  Told(status, f[s], Kinds(seq, s))
    OBVIOUS
  <2>2. m <= n
    BY <2>1
  <2>3. \A r \in SUBSET (1..m) : Told(status, f[r], Kinds(seq, r))
    BY <1>2, <2>2
  <2>4. CASE m + 1 \notin s
    <3>1. s \in SUBSET (1..m)
      BY <2>4
    <3> QED BY <2>3, <3>1
  <2>5. CASE m + 1 \in s
    <3>1. s \ {m + 1} \in SUBSET (1..m) /\ Max(s) = m + 1 /\ s # {} /\ s \in SUBSET (1..n)
      BY <2>1, <2>5, MaxIs
    <3>2. f[s] = Diagnosed(status, f[s \ {m + 1}], seq[m + 1])
      BY <3>1 DEF IsFold
    <3>3. Told(status, f[s \ {m + 1}], Kinds(seq, s \ {m + 1}))
      BY <2>3, <3>1
    <3>4. Kinds(seq, s) = Kinds(seq, s \ {m + 1}) \cup {seq[m + 1]}
      BY <2>5 DEF Kinds
    <3>5. Told(status, Diagnosed(status, f[s \ {m + 1}], seq[m + 1]),
               Kinds(seq, s \ {m + 1}) \cup {seq[m + 1]})
      BY <3>3, DiagnosedTold, Zenon
    <3> QED BY <3>2, <3>4, <3>5, Zenon
  <2> QED BY <2>4, <2>5
<1>3. T \in SUBSET Nat /\ 0 \in T /\ \A m \in T : m + 1 \in T
  <2> HIDE DEF P
  <2> QED BY <1>1, <1>2
<1>4. T = Nat
  <2> HIDE DEF T
  <2> QED BY <1>3, SetInduction
<1>5. P(n)
  <2> HIDE DEF P
  <2> QED BY <1>4
<1> QED BY <1>5

(***************************************************************************)
(* What is proved of any diagnostics: an outcome of a runtime producer     *)
(* that was read is told by their kinds, whatever their order.             *)
(***************************************************************************)
DiagnosedBy(status, seq) ==
  FoldLeft(LAMBDA o, d : Diagnosed(status, o, d), Observed(status), seq)

(* What the diagnostics of a sequence make of a status is told by their    *)
(* kinds.                                                                  *)
LEMMA FoldLeftTold ==
  ASSUME NEW status, NEW n \in Nat, NEW seq, DOMAIN seq = 1..n
  PROVE  Told(status, DiagnosedBy(status, seq), Kinds(seq, 1..n))
<1> DEFINE g == CHOOSE f : IsFold(status, seq, DOMAIN seq, f)
<1>1. DiagnosedBy(status, seq) = g[DOMAIN seq]
  BY Zenon DEF DiagnosedBy, FoldLeft, MapThenFoldSet, IsFold
<1>2. IsFold(status, seq, DOMAIN seq, g)
  BY FoldExists, Zenon
<1> HIDE DEF g
<1>3. Told(status, g[1..n], Kinds(seq, 1..n))
  BY <1>2, FoldTold
<1> QED BY <1>1, <1>3

OutcomeTold(status, mappingErr, o, kinds) ==
  o # Unavailable =>
    /\ o.integrity = IF kinds \ {"recoverable"} # {} THEN "invalid"
                     ELSE IF kinds # {} THEN "valid-prefix" ELSE "valid"
    /\ AllowsCoverage(o) <=> /\ kinds \subseteq {"recoverable"}
                             /\ kinds # {} => status # "passed"
                             /\ ~mappingErr

(* The same of the whole outcome, with a rejection by the acceptance.      *)
LEMMA RuntimeProducerTold ==
  ASSUME NEW status, NEW unreadable \in BOOLEAN, NEW mappingErr \in BOOLEAN,
         NEW n \in Nat, NEW seq, DOMAIN seq = 1..n
  PROVE  LET o == RuntimeProducerOutcome(status, unreadable, mappingErr, seq)
         IN  /\ Consistent(o)
             /\ mappingErr => ~AllowsCoverage(o)
             /\ OutcomeTold(status, mappingErr, o, Kinds(seq, 1..n))
<1> DEFINE o == RuntimeProducerOutcome(status, unreadable, mappingErr, seq)
           d == DiagnosedBy(status, seq)
           kinds == Kinds(seq, 1..n)
<1>1. Told(status, d, kinds)
  BY FoldLeftTold
<1>2. o = IF status = "none" \/ unreadable THEN Unavailable ELSE Misplaced(d, mappingErr)
  BY Zenon DEF RuntimeProducerOutcome, DiagnosedBy
<1> HIDE DEF o, d, kinds
<1>3. CASE status = "none" \/ unreadable
  <2>1. o = Unavailable
    BY <1>2, <1>3
  <2> QED BY <2>1 DEF Unavailable, Consistent, AllowsCoverage, OutcomeTold, o, kinds
<1>4. CASE ~(status = "none" \/ unreadable)
  <2>1. o = Misplaced(d, mappingErr)
    BY <1>2, <1>4
  <2>2. /\ d \in Outcomes /\ d.mapping = "complete" /\ d.completeness # "unavailable"
        /\ d.integrity = IF kinds \ {"recoverable"} # {} THEN "invalid"
                         ELSE IF kinds # {} THEN "valid-prefix" ELSE "valid"
        /\ AllowsCoverage(d) <=>
             kinds \subseteq {"recoverable"} /\ (kinds # {} => status # "passed")
    BY <1>1 DEF Told
  <2>3. /\ o.integrity = d.integrity
        /\ AllowsCoverage(o) <=> AllowsCoverage(d) /\ ~mappingErr
        /\ ~mappingErr => o = d
    BY <2>1, <2>2 DEF Misplaced, AllowsCoverage, Outcomes
  <2>4. Consistent(o)
    BY <2>2, <2>3 DEF Consistent
  <2> QED BY <2>2, <2>3, <2>4 DEF OutcomeTold, o, kinds
<1> QED BY <1>3, <1>4
-----------------------------------------------------------------------------
(***************************************************************************)
(* Whatever makes a runtime producer's outcome less than a clean           *)
(* observation also fails the integrity of the measurement, which is       *)
(* derived from the same facts by other conditions.  OutcomeInv says so    *)
(* for each of them from the stage on that derives both.                   *)
(***************************************************************************)
AfterCounters == {"measured", "finalize", "archive"}
AfterDiagnose == {"profile", "plans", "counters"} \cup AfterCounters
AfterTesting == {"collect", "accept", "diagnose"} \cup AfterDiagnose

CleanRun == ~outcome.integrityFailure /\ testResult.status = "passed"

ObservedBy(p) ==
  p \in DOMAIN outcome.producers /\ outcome.producers[p] = Observed("passed")

OutcomeInv ==
  /\ DOMAIN outcome = DOMAIN NoOutcome
  /\ outcome.collectionErr => outcome.integrityFailure
  /\ outcome.rejected # {} => outcome.integrityFailure
  /\ stage \in BeforeCollect \cup {"accept"} => outcome.rejected = {}

ObservedInv ==
  /\ testRun = "ended" => testResult.status # "none"
  /\ stage \in AfterTesting => outcome.interrupted \/ testResult.status # "none"
  /\ stage \in AfterDiagnose /\ CleanRun /\ Needs("ast") =>
       \A p \in RuntimeProducers : ObservedBy(p)
  /\ stage \in AfterCounters /\ CleanRun /\ Needs("c0") => ObservedBy("go-cover")

CInv == OutcomeInv /\ ObservedInv /\ CompleteMeansAccepted
-----------------------------------------------------------------------------
(* Without diagnostics and without a rejection a run that passed is        *)
(* observed completely.                                                    *)
LEMMA CleanOutcome ==
  RuntimeProducerOutcome("passed", FALSE, FALSE, <<>>) = Observed("passed")
<1> DEFINE op(o, d) == Diagnosed("passed", o, d)
           base == Observed("passed")
<1>1. FoldLeft(op, base, <<>>) = base
  <2> DEFINE iter(f) ==
        f = [s \in SUBSET (DOMAIN <<>>) |->
               IF s = {} THEN base
               ELSE LET x == Max(s)
                    IN  op(f[s \ {x}], <<>>[x])]
  <2>1. SUBSET (DOMAIN <<>>) = {{}} /\ DOMAIN <<>> = {}
    OBVIOUS
  <2>2. iter([s \in {{}} |-> base])
    BY <2>1
  <2>3. FoldLeft(op, base, <<>>) = (CHOOSE f : iter(f))[DOMAIN <<>>]
    BY Zenon DEF FoldLeft, MapThenFoldSet
  <2>4. iter(CHOOSE f : iter(f))
    <3> HIDE DEF iter
    <3> QED BY <2>2
  <2> HIDE DEF op
  <2>5. (CHOOSE f : iter(f))[{}] = base
    <3> DEFINE g == CHOOSE f : iter(f)
    <3>1. iter(g)
      BY <2>4
    <3> HIDE DEF g
    <3>2. g[{}] = base
      BY <2>1, <3>1
    <3> QED BY <3>2 DEF g
  <2> QED BY <2>1, <2>3, <2>5
<1> QED BY <1>1 DEF RuntimeProducerOutcome, Misplaced

(* The same of what Diagnose computes: integrity that has not failed       *)
(* leaves no diagnostics, no rejection and no unreadable directory.        *)
LEMMA DiagnosedClean ==
  ASSUME OutcomeOK, OutcomeInv, Diagnose, Needs("ast"),
         ~outcome'.integrityFailure, testResult.status = "passed"
  PROVE  /\ DOMAIN outcome'.producers = RuntimeProducers
         /\ \A p \in RuntimeProducers : outcome'.producers[p] = Observed("passed")
<1> DEFINE cut == Expired /\ outcome.diagnostics # <<>>
           made == [p \in RuntimeProducers |->
                     RuntimeProducerOutcome(testResult.status,
                       outcome.collectionErr \/ cut, p \in outcome.rejected,
                       outcome.diagnostics)]
<1>1. /\ outcome'.integrityFailure =
           (outcome.integrityFailure \/ cut \/ DiagnosticsInvalidate)
      /\ outcome'.producers = made
  BY DEF Diagnose, OutcomeInv, OutcomeOK, NoOutcome
<1>2. ~outcome.integrityFailure /\ ~cut /\ ~DiagnosticsInvalidate
  BY <1>1 DEF OutcomeOK
<1>3. outcome.diagnostics = <<>>
  BY <1>2 DEF DiagnosticsInvalidate
<1>4. ~outcome.collectionErr /\ outcome.rejected = {}
  BY <1>2 DEF OutcomeInv
<1>5. \A p \in RuntimeProducers : made[p] = Observed("passed")
  <2> TAKE p \in RuntimeProducers
  <2>1. made[p] = RuntimeProducerOutcome(testResult.status,
                    outcome.collectionErr \/ cut, p \in outcome.rejected,
                    outcome.diagnostics)
    OBVIOUS
  <2>2. (outcome.collectionErr \/ cut) = FALSE /\ (p \in outcome.rejected) = FALSE
    BY <1>2, <1>4
  <2> QED BY <2>1, <2>2, <1>3, CleanOutcome
<1> QED BY <1>1, <1>5
-----------------------------------------------------------------------------
(* The fields of a measurementOutcome.                                     *)
LEMMA OutcomeFields ==
  DOMAIN NoOutcome =
    {"interrupted", "integrityChecked", "integrityFailure", "collectionErr", "diagnostics",
     "unsound", "rejected", "producers", "cover", "readErr", "probes"}
BY DEF NoOutcome

(* A command that has not begun has claimed nothing.                       *)
LEMMA CompletenessInit == Init => CInv
<1> SUFFICES ASSUME Init
             PROVE  CInv
  OBVIOUS
<1>1. /\ outcome = NoOutcome /\ stage = "discover" /\ archive = NoArchive
      /\ testRun = "idle"
  BY DEF Init, SessionInit, GoTestInit
<1>2. OutcomeInv
  BY <1>1 DEF OutcomeInv, NoOutcome
<1>3. ObservedInv
  BY <1>1 DEF ObservedInv, AfterTesting, AfterDiagnose, AfterCounters
<1>4. CompleteMeansAccepted
  BY <1>1 DEF CompleteMeansAccepted
<1> QED BY <1>2, <1>3, <1>4 DEF CInv

(* The stages from which the sets of the invariant are entered.            *)
LEMMA Entered ==
  ASSUME Ends, stage \in Working, stage # "ladder"
  PROVE  /\ stage' \in BeforeCollect \cup {"accept"} => stage \in BeforeCollect
         /\ stage' \in AfterTesting => stage \in AfterTesting \cup {"gotest"}
         /\ stage' \in AfterDiagnose => stage \in AfterDiagnose \cup {"diagnose"}
         /\ stage' \in AfterCounters => stage \in AfterCounters \cup {"counters"}
<1> USE DEF Working, BeforeAnalysis, BeforeFinalize, BeforeCollect, BeforeAnalyze, AfterTesting,
        AfterDiagnose, AfterCounters
<1>1. CASE Proceed
  BY <1>1, Moves
<1>2. CASE ~Proceed
  BY <1>2 DEF Ends, GiveUp, Fail, Return
<1> QED BY <1>1, <1>2

(* Most stages leave alone what the invariant speaks of.                   *)
EvidenceKept ==
  /\ DOMAIN outcome' = DOMAIN outcome
  /\ outcome'.collectionErr = outcome.collectionErr
  /\ outcome'.rejected = outcome.rejected
  /\ outcome'.producers = outcome.producers
  /\ outcome.interrupted => outcome'.interrupted

(* Such a stage preserves the invariant.                                   *)
LEMMA KeptInv ==
  ASSUME SInv, OutcomeInv, ObservedInv, Regular, EvidenceKept,
         stage \notin {"diagnose", "counters"},
         stage = "gotest" => outcome.interrupted \/ testRun = "ended"
  PROVE  OutcomeInv' /\ ObservedInv'
<1>1. /\ Ends /\ stage \in Working /\ stage # "ladder"
      /\ UNCHANGED <<request, testRun, testResult>>
      /\ outcome.integrityFailure => outcome'.integrityFailure
  BY DEF Regular
<1>2. OutcomeInv'
  BY <1>1, Entered DEF OutcomeInv, EvidenceKept
<1>3. (stage \in AfterTesting => outcome.interrupted \/ testResult.status # "none")'
  BY <1>1, Entered DEF ObservedInv, EvidenceKept
<1>4. CleanRun' => CleanRun
  BY <1>1 DEF CleanRun
<1>5. /\ Needs("ast")' <=> Needs("ast")
      /\ Needs("c0")' <=> Needs("c0")
      /\ RuntimeProducers' = RuntimeProducers
      /\ \A p : ObservedBy(p)' <=> ObservedBy(p)
  BY <1>1 DEF Needs, RuntimeProducers, ObservedBy, EvidenceKept
<1>6. (stage \in AfterDiagnose /\ CleanRun /\ Needs("ast") =>
         \A p \in RuntimeProducers : ObservedBy(p))'
  BY <1>1, <1>4, <1>5, Entered DEF ObservedInv
<1>7. (stage \in AfterCounters /\ CleanRun /\ Needs("c0") => ObservedBy("go-cover"))'
  BY <1>1, <1>4, <1>5, Entered DEF ObservedInv
<1> QED BY <1>1, <1>2, <1>3, <1>6, <1>7 DEF ObservedInv

(* The runtime's evidence: what is read, what is rejected, what is made of *)
(* the diagnostics.                                                        *)
LEMMA RuntimeInv ==
  ASSUME SInv, OutcomeInv, ObservedInv, Regular, Collect \/ Accept \/ Diagnose
  PROVE  OutcomeInv' /\ ObservedInv'
<1>1. OutcomeOK /\ outcome = [f \in DOMAIN NoOutcome |-> outcome[f]]
  BY DEF SInv, TypeOK, OutcomeOK, OutcomeInv
<1>2. UNCHANGED <<request, testRun, testResult>> /\ Proceed
  BY DEF Regular, Collect, Accept, Diagnose
<1> USE OutcomeFields DEF OutcomeInv, AfterTesting, AfterDiagnose, AfterCounters,
        BeforeCollect, BeforeAnalyze
<1>3. CASE Collect
  <2>1. /\ stage = "collect" /\ stage' = "accept"
        /\ outcome.rejected = {} /\ ~outcome.integrityFailure
    BY <1>2, <1>3, Moves DEF Collect, SInv, StageInv
  <2>2. OutcomeInv' /\ outcome'.interrupted = outcome.interrupted
    BY <1>1, <1>3, <2>1 DEF Collect
  <2> QED BY <1>2, <2>1, <2>2 DEF ObservedInv
<1>4. CASE Accept
  <2>1. stage = "accept" /\ stage' = "diagnose"
    BY <1>2, <1>4, Moves DEF Accept
  <2>2. OutcomeInv' /\ outcome'.interrupted = outcome.interrupted
    BY <1>1, <1>4, <2>1 DEF Accept
  <2> QED BY <1>2, <2>1, <2>2 DEF ObservedInv
<1>5. CASE Diagnose
  <2>1. stage = "diagnose" /\ stage' = "profile"
    BY <1>2, <1>5, Moves DEF Diagnose
  <2>2. OutcomeInv' /\ outcome'.interrupted = outcome.interrupted
    BY <1>1, <1>5, <2>1 DEF Diagnose
  <2>3. (CleanRun /\ Needs("ast") => \A p \in RuntimeProducers : ObservedBy(p))'
    BY <1>1, <1>2, <1>5, DiagnosedClean DEF CleanRun, Needs, RuntimeProducers, ObservedBy
  <2> QED BY <1>2, <2>1, <2>2, <2>3 DEF ObservedInv
<1> QED BY <1>3, <1>4, <1>5

(* Counters that were not read or not accepted of a run that passed fail   *)
(* its integrity.                                                          *)
LEMMA CountersInv ==
  ASSUME SInv, OutcomeInv, ObservedInv, Regular, AcceptCounters
  PROVE  OutcomeInv' /\ ObservedInv'
<1>1. OutcomeOK /\ outcome = [f \in DOMAIN NoOutcome |-> outcome[f]]
  BY DEF SInv, TypeOK, OutcomeOK, OutcomeInv
<1>2. /\ UNCHANGED <<request, testRun, testResult>>
      /\ stage = "counters" /\ stage' = "measured"
      /\ outcome.integrityFailure => outcome'.integrityFailure
  BY Moves DEF Regular, AcceptCounters
<1> USE OutcomeFields DEF AfterTesting, AfterDiagnose, AfterCounters, BeforeCollect, BeforeAnalyze
<1>3. OutcomeInv' /\ outcome'.interrupted = outcome.interrupted
  BY <1>1, <1>2 DEF AcceptCounters, OutcomeInv
<1>4. CASE ~Needs("c0")
  <2>1. outcome' = outcome
    BY <1>4 DEF AcceptCounters
  <2> QED BY <1>2, <1>3, <1>4, <2>1 DEF ObservedInv, CleanRun, Needs, RuntimeProducers, ObservedBy
<1>5. CASE Needs("c0")
  <2>1. PICK mappingErr \in BOOLEAN :
          LET failed == mappingErr \/ outcome.readErr # "none"
              made == GoCoverProducerOutcome(testResult.status, outcome.readErr, mappingErr)
          IN  /\ outcome'.producers =
                   [p \in DOMAIN outcome.producers \cup {"go-cover"} |->
                      IF p # "go-cover" THEN outcome.producers[p] ELSE made]
              /\ outcome'.integrityFailure =
                   (outcome.integrityFailure \/ (failed /\ testResult.status = "passed"))
    BY <1>1, <1>5 DEF AcceptCounters, OutcomeInv
  <2> DEFINE made == GoCoverProducerOutcome(testResult.status, outcome.readErr, mappingErr)
  <2>2. /\ DOMAIN outcome'.producers = {"go-cover"} \cup DOMAIN outcome.producers
        /\ outcome'.producers["go-cover"] = made
        /\ \A p \in DOMAIN outcome.producers :
             p # "go-cover" => outcome'.producers[p] = outcome.producers[p]
    BY <2>1
  <2>3. CleanRun' => ObservedBy("go-cover")'
    BY <1>2, <2>1, <2>2 DEF CleanRun, ObservedBy, GoCoverProducerOutcome, Misplaced
  <2>4. \A p \in RuntimeProducers : p # "go-cover"
    BY DEF RuntimeProducers, ProducerOf
  <2>5. CleanRun' /\ Needs("ast")' => \A p \in RuntimeProducers' : ObservedBy(p)'
    BY <1>2, <2>2, <2>4 DEF ObservedInv, CleanRun, Needs, RuntimeProducers, ObservedBy
  <2> QED BY <1>2, <1>3, <2>3, <2>5 DEF ObservedInv
<1> QED BY <1>4, <1>5

(* All stages but the four that collect, judge and count the evidence.     *)
LEMMA OthersKeep ==
  ASSUME SInv, OutcomeInv,
         \/ Prepare \/ AnalyzeSources \/ Instrument \/ AfterTest \/ ReadProfile \/ PlanSources
         \/ Measured \/ Finalize \/ ArchiveExecution \/ Analyze \/ Save \/ Report
  PROVE  /\ EvidenceKept
         /\ stage \notin {"diagnose", "counters"}
         /\ stage = "gotest" => outcome.interrupted \/ testRun = "ended"
<1>1. OutcomeOK /\ outcome = [f \in DOMAIN NoOutcome |-> outcome[f]]
  BY DEF SInv, TypeOK, OutcomeOK, OutcomeInv
<1>2. CASE Prepare \/ AnalyzeSources \/ PlanSources \/ Finalize \/ ArchiveExecution \/ Analyze
              \/ Save \/ Report
  BY <1>2 DEF Prepare, AnalyzeSources, PlanSources, Finalize, ArchiveExecution, Analyze, Save,
     Report, EvidenceKept
<1>3. CASE Instrument
  BY <1>1, <1>3, OutcomeFields DEF Instrument, EvidenceKept
<1>4. CASE AfterTest \/ Measured
  BY <1>1, <1>4, OutcomeFields DEF AfterTest, Measured, EvidenceKept
<1>5. CASE ReadProfile
  BY <1>1, <1>5, OutcomeFields DEF ReadProfile, EvidenceKept
<1> QED BY <1>2, <1>3, <1>4, <1>5

(* What is archived as complete was observed by every producer.            *)
LEMMA ArchiveComplete ==
  ASSUME SInv, CInv, ArchiveExecution
  PROVE  CompleteMeansAccepted'
<1>1. CASE UNCHANGED archive
  BY <1>1 DEF CInv, CompleteMeansAccepted, ArchiveExecution, kept
<1>2. CASE archive' = Execution
  <2>1. request' = request /\ request \in Requests /\ stage = "archive"
    BY DEF ArchiveExecution, kept, SInv, TypeOK
  <2>2. SUFFICES ASSUME Execution.complete, NEW m \in request.need
                 PROVE  outcome.producers[ProducerOf(m)] = Observed("passed")
    BY <1>2, <2>1 DEF CompleteMeansAccepted, Execution
  <2>3. /\ Overall.status = "passed"
        /\ Results.measurement = "passed" /\ Results.integrity = "passed"
    BY <2>2 DEF Execution
  <2>4. ~outcome.interrupted /\ ~outcome.integrityFailure
    BY <2>3 DEF Overall, Results, PassFail
  <2>5. testResult.status = "passed"
    BY <2>1, <2>3, <2>4 DEF Overall, CInv, ObservedInv, AfterTesting, AfterDiagnose, AfterCounters
  <2>6. CASE m = "c0"
    BY <2>1, <2>2, <2>4, <2>5, <2>6 DEF CInv, ObservedInv, CleanRun, Needs, ObservedBy, ProducerOf,
       AfterCounters
  <2>7. CASE m # "c0"
    <3>1. Needs("ast") /\ ProducerOf(m) \in RuntimeProducers
      BY <2>1, <2>2, <2>7, SessionAssumption DEF Needs, RuntimeProducers
    <3> QED BY <2>1, <2>4, <2>5, <3>1 DEF CInv, ObservedInv, CleanRun, ObservedBy, AfterDiagnose,
               AfterCounters
  <2> QED BY <2>6, <2>7
<1> QED BY <1>1, <1>2 DEF ArchiveExecution

(* The invariant is inductive, given that of the session.                  *)
LEMMA CompletenessNext == SInv /\ CInv /\ [Next]_vars => CInv'
<1> SUFFICES ASSUME SInv, CInv, [Next]_vars
             PROVE  CInv'
  OBVIOUS
<1>1. ASSUME UNCHANGED <<request, testRun, testResult, outcome, archive>>,
             stage' = stage \/ stage' \in {"deferred", "returned"}
      PROVE  CInv'
  BY <1>1 DEF CInv, OutcomeInv, ObservedInv, CompleteMeansAccepted, CleanRun, Needs, ObservedBy,
     RuntimeProducers, AfterTesting, AfterDiagnose, AfterCounters, BeforeCollect, BeforeAnalyze
<1>2. CASE SignalsStep /\ UNCHANGED <<code, testVars, sessionVars>>
  BY <1>1, <1>2 DEF testVars, sessionVars
<1>3. CASE UNCHANGED vars
  BY <1>1, <1>3 DEF vars, testVars, sessionVars
<1>4. CASE (Ladder \/ Deferred \/ StartDeadline \/ Expire) /\ UNCHANGED signalVars
  <2>1. UNCHANGED <<request, testRun, testResult, outcome, archive>>
    BY <1>4 DEF Ladder, Deferred, StartDeadline, Expire, Clock, kept, testVars
  <2>2. stage' = stage \/ stage' \in {"deferred", "returned"}
    BY <1>4 DEF Ladder, Return, Deferred, StartDeadline, Expire, Clock
  <2> QED BY <1>1, <2>1, <2>2
<1>5. CASE RunTest
  <2>1. stage = "gotest" /\ UNCHANGED <<request, stage, outcome, archive>>
    BY <1>5 DEF RunTest, sessionVars
  <2>2. testRun' = "ended" => testResult'.status # "none"
    BY <1>5 DEF CInv, ObservedInv, RunTest, StartTest, TestStep, Line, TestContextDone, EndTest,
       TestVerdict
  <2> QED BY <2>1, <2>2 DEF CInv, OutcomeInv, ObservedInv, CompleteMeansAccepted, Needs,
             AfterTesting, AfterDiagnose, AfterCounters, BeforeCollect, BeforeAnalyze
<1>6. CASE /\ UNCHANGED signalVars
           /\ \/ Prepare \/ AnalyzeSources \/ Instrument \/ AfterTest
              \/ Collect \/ Accept \/ Diagnose \/ ReadProfile \/ PlanSources
              \/ AcceptCounters \/ Measured \/ Finalize \/ ArchiveExecution
              \/ Analyze \/ Save \/ Report
  <2>1. Regular
    BY <1>6, StagesRegular
  <2>2. OutcomeInv' /\ ObservedInv'
    BY <1>6, <2>1, RuntimeInv, CountersInv, OthersKeep, KeptInv DEF CInv
  <2>3. CASE ArchiveExecution
    BY <2>2, <2>3, ArchiveComplete DEF CInv
  <2>4. CASE ~ArchiveExecution
    <3>1. archive' = archive
      BY <1>6, <2>4 DEF Prepare, AnalyzeSources, Instrument, AfterTest, Collect, Accept, Diagnose,
         ReadProfile, PlanSources, AcceptCounters, Measured, Finalize, Analyze, Save, Report
    <3> QED BY <2>1, <2>2, <3>1 DEF CInv, CompleteMeansAccepted, Regular
  <2> QED BY <2>3, <2>4
<1> QED BY <1>2, <1>3, <1>4, <1>5, <1>6 DEF Next, CommandStep

(* An execution that is archived as complete was observed completely by    *)
(* every producer it asked for (measure and completeRun of cli), for any   *)
(* requests, severities and number of diagnostics.                         *)
THEOREM SessionCompleteMeansAccepted == Spec => []CompleteMeansAccepted
<1>1. Init => CInv
  BY CompletenessInit
<1>2. SInv /\ CInv /\ [Next]_vars => CInv'
  BY CompletenessNext
<1>3. CInv => CompleteMeansAccepted
  BY DEF CInv
<1> QED BY <1>1, <1>2, <1>3, SessionInvariant, PTL DEF Spec
-----------------------------------------------------------------------------
(***************************************************************************)
(* Each runtime producer has the outcome that RuntimeProducerOutcome makes *)
(* of the diagnostics; a producer that was asked for has one; counters are *)
(* left without evidence only by a recovery that ran out, which begins     *)
(* with a cancellation, and the end of measure turns that into an          *)
(* interruption.                                                           *)
(***************************************************************************)
Measuring == BeforeFinalize \cup {"archive"}

ProducersInv ==
  /\ \E n \in Nat : DOMAIN outcome.diagnostics = 1..n
  /\ stage \in BeforeCollect \cup {"accept", "diagnose"} => DOMAIN outcome.producers = {}
  /\ \A p \in DOMAIN outcome.producers \ {"go-cover"} : \E unreadable \in BOOLEAN :
       outcome.producers[p] =
         RuntimeProducerOutcome(testResult.status, unreadable, p \in outcome.rejected,
                                outcome.diagnostics)
  /\ "go-cover" \in DOMAIN outcome.producers => Consistent(outcome.producers["go-cover"])
  /\ outcome.unsound \subseteq outcome.rejected \cap RuntimeProducers

PresentInv ==
  /\ stage \in AfterDiagnose /\ Needs("ast") =>
       RuntimeProducers \subseteq DOMAIN outcome.producers
  /\ stage \in AfterCounters /\ Needs("c0") => "go-cover" \in DOMAIN outcome.producers
  /\ outcome.cover # "none" => "go-cover" \in DOMAIN outcome.producers

CoverInv ==
  /\ recovery \in {"deadline", "expired"} => cancelled
  /\ stage = "measured" /\ Needs("c0") /\ outcome.cover = "none" => cancelled
  /\ stage \in {"finalize", "archive"} /\ Needs("c0") /\ outcome.cover = "none" =>
       outcome.interrupted
  /\ testResult.status = "passed" => testResult.failureKind = "none"
  /\ stage \in Measuring => archive = NoArchive

EInv == ProducersInv /\ PresentInv /\ CoverInv /\ ArchiveValidates
-----------------------------------------------------------------------------
(* The order of the diagnostics does not matter.                           *)
LEMMA ProducersCommute == ProducersInv => DiagnosticsCommute
<1> SUFFICES ASSUME ProducersInv, NEW p \in DOMAIN outcome.producers \ {"go-cover"}
             PROVE  LET o == outcome.producers[p]
                        kinds == Range(outcome.diagnostics)
                    IN  o # Unavailable =>
                          /\ o.integrity = IF kinds \ {"recoverable"} # {} THEN "invalid"
                                           ELSE IF kinds # {} THEN "valid-prefix" ELSE "valid"
                          /\ AllowsCoverage(o) <=>
                               /\ kinds \subseteq {"recoverable"}
                               /\ kinds # {} => testResult.status # "passed"
                               /\ p \notin outcome.rejected
  BY DEF DiagnosticsCommute
<1>1. PICK n \in Nat : DOMAIN outcome.diagnostics = 1..n
  BY DEF ProducersInv
<1>2. PICK unreadable \in BOOLEAN :
        outcome.producers[p] =
          RuntimeProducerOutcome(testResult.status, unreadable, p \in outcome.rejected,
                                 outcome.diagnostics)
  BY DEF ProducersInv
<1>3. Range(outcome.diagnostics) = Kinds(outcome.diagnostics, 1..n)
  BY <1>1 DEF Range, Kinds
<1> DEFINE mappingErr == p \in outcome.rejected
<1>4. mappingErr \in BOOLEAN
  OBVIOUS
<1> HIDE DEF mappingErr
<1>5. OutcomeTold(testResult.status, mappingErr,
        RuntimeProducerOutcome(testResult.status, unreadable, mappingErr, outcome.diagnostics),
        Kinds(outcome.diagnostics, 1..n))
  BY <1>1, <1>4, RuntimeProducerTold
<1>6. OutcomeTold(testResult.status, mappingErr, outcome.producers[p],
                  Range(outcome.diagnostics))
  BY <1>2, <1>3, <1>5, Zenon DEF mappingErr
<1> QED BY <1>6 DEF OutcomeTold, mappingErr
-----------------------------------------------------------------------------
(* Nothing is collected, counted or archived at first.                     *)
LEMMA ExecutionInit == Init => EInv
<1> SUFFICES ASSUME Init
             PROVE  EInv
  OBVIOUS
<1>1. /\ outcome = NoOutcome /\ stage = "discover" /\ archive = NoArchive
      /\ recovery = "none" /\ testResult.status = "none"
  BY DEF Init, SessionInit, GoTestInit
<1>2. DOMAIN outcome.diagnostics = 1..0
  BY <1>1 DEF NoOutcome
<1>3. ProducersInv
  BY <1>1, <1>2 DEF ProducersInv, NoOutcome
<1>4. PresentInv /\ CoverInv
  BY <1>1 DEF PresentInv, CoverInv, NoOutcome, AfterDiagnose, AfterCounters
<1>5. ArchiveValidates
  BY <1>1 DEF ArchiveValidates
<1> QED BY <1>3, <1>4, <1>5 DEF EInv

(* The stages from which the sets of this invariant are entered.           *)
LEMMA EnteredLater ==
  ASSUME Ends, stage \in Working, stage # "ladder"
  PROVE  /\ stage' \in BeforeCollect \cup {"accept", "diagnose"} =>
              stage \in BeforeCollect \cup {"accept"}
         /\ stage' = "measured" => stage = "counters"
         /\ stage' \in {"finalize", "archive"} => stage \in {"measured", "finalize"}
         /\ stage' \in Measuring => stage \in Measuring \ {"archive"}
<1> USE DEF Working, BeforeAnalysis, BeforeFinalize, BeforeCollect, BeforeAnalyze, Measuring
<1>1. CASE Proceed
  BY <1>1, Moves
<1>2. CASE ~Proceed
  BY <1>2 DEF Ends, GiveUp, Fail, Return
<1> QED BY <1>1, <1>2

AllEvidenceKept ==
  /\ EvidenceKept
  /\ outcome'.diagnostics = outcome.diagnostics
  /\ outcome'.unsound = outcome.unsound
  /\ outcome'.cover = outcome.cover

(* What the outcomes of the producers are made of stays as it is.          *)
LEMMA ProducersKept ==
  ASSUME ProducersInv, UNCHANGED <<request, testResult>>, AllEvidenceKept,
         stage' \in BeforeCollect \cup {"accept", "diagnose"} =>
           stage \in BeforeCollect \cup {"accept", "diagnose"}
  PROVE  ProducersInv'
<1>1. RuntimeProducers' = RuntimeProducers
  BY DEF RuntimeProducers
<1> QED BY <1>1 DEF ProducersInv, AllEvidenceKept, EvidenceKept

(* A stage that leaves the evidence alone preserves the invariant; only    *)
(* Measured may turn a cancellation into an interruption.                  *)
LEMMA ExecutionKept ==
  ASSUME SInv, EInv, Regular, AllEvidenceKept, stage # "archive" => UNCHANGED archive,
         stage \notin {"diagnose", "counters"},
         recovery' \in {"deadline", "expired"} => cancelled,
         stage = "measured" => outcome'.interrupted = (outcome.interrupted \/ cancelled)
  PROVE  ProducersInv' /\ PresentInv' /\ CoverInv'
<1>1. /\ Ends /\ stage \in Working /\ stage # "ladder"
      /\ UNCHANGED <<request, testRun, testResult, cancelled>>
  BY DEF Regular, signalVars
<1>2. ProducersInv'
  BY <1>1, EnteredLater, ProducersKept DEF EInv
<1>3. /\ Needs("ast")' <=> Needs("ast")
      /\ Needs("c0")' <=> Needs("c0")
      /\ RuntimeProducers' = RuntimeProducers
  BY <1>1 DEF Needs, RuntimeProducers
<1>4. PresentInv'
  BY <1>1, <1>3, Entered DEF EInv, PresentInv, AllEvidenceKept, EvidenceKept
<1>5. (stage = "measured" /\ Needs("c0") /\ outcome.cover = "none" => cancelled)'
  BY <1>1, EnteredLater
<1>6. (stage \in {"finalize", "archive"} /\ Needs("c0") /\ outcome.cover = "none" =>
         outcome.interrupted)'
  <2>1. CASE stage = "measured"
    BY <1>1, <1>3, <2>1 DEF EInv, CoverInv, AllEvidenceKept, EvidenceKept
  <2>2. CASE stage # "measured"
    BY <1>1, <1>3, <2>2, EnteredLater DEF EInv, CoverInv, AllEvidenceKept, EvidenceKept
  <2> QED BY <2>1, <2>2
<1>7. (stage \in Measuring => archive = NoArchive)'
  BY <1>1, EnteredLater DEF EInv, CoverInv
<1>8. CoverInv'
  BY <1>1, <1>5, <1>6, <1>7 DEF EInv, CoverInv
<1> QED BY <1>2, <1>4, <1>8

(* The outcome of the counters never claims more than its parts.           *)
LEMMA GoCoverConsistent ==
  \A status, readErr : \A mappingErr \in BOOLEAN :
    Consistent(GoCoverProducerOutcome(status, readErr, mappingErr))
BY DEF GoCoverProducerOutcome, Unavailable, Observed, Misplaced, Consistent, AllowsCoverage

(* Where the outcomes of the runtime producers come from.                  *)
LEMMA ExecutionRuntime ==
  ASSUME SInv, OutcomeInv, EInv, Regular, Collect \/ Accept \/ Diagnose
  PROVE  ProducersInv' /\ PresentInv' /\ CoverInv'
<1>1. OutcomeOK /\ outcome = [f \in DOMAIN NoOutcome |-> outcome[f]]
  BY DEF SInv, TypeOK, OutcomeOK, OutcomeInv
<1>2. /\ UNCHANGED <<request, testRun, testResult, cancelled, recovery, archive>>
      /\ Proceed
      /\ RuntimeProducers' = RuntimeProducers
      /\ Needs("ast")' <=> Needs("ast")
  BY DEF Regular, signalVars, Collect, Accept, Diagnose, kept, RuntimeProducers, Needs
<1> USE OutcomeFields
<1>3. CASE Collect
  <2>1. /\ stage = "collect" /\ stage' = "accept" /\ DOMAIN outcome.producers = {}
        /\ archive = NoArchive
    BY <1>2, <1>3, Moves DEF Collect, EInv, ProducersInv, CoverInv, BeforeCollect, Measuring,
       BeforeFinalize
  <2>2. /\ outcome'.producers = outcome.producers /\ outcome'.cover = outcome.cover
        /\ outcome'.unsound = outcome.unsound /\ outcome'.rejected = outcome.rejected
    BY <1>1, <1>3 DEF Collect, OutcomeInv
  <2>3. \E n \in Nat : DOMAIN outcome'.diagnostics = 1..n
    <3>1. CASE ~Needs("ast")
      BY <1>3, <3>1 DEF Collect, EInv, ProducersInv
    <3>2. CASE Needs("ast")
      <4>1. PICK found \in Found : outcome'.diagnostics = found
        BY <1>1, <1>3, <3>2 DEF Collect, OutcomeInv
      <4> QED BY <4>1, SessionAssumption DEF Found
    <3> QED BY <3>1, <3>2
  <2>4. ProducersInv'
    BY <1>2, <2>1, <2>2, <2>3 DEF EInv, ProducersInv
  <2> QED BY <1>2, <2>1, <2>2, <2>4 DEF EInv, PresentInv, CoverInv, AfterDiagnose, AfterCounters
<1>4. CASE Accept
  <2>1. /\ stage = "accept" /\ stage' = "diagnose" /\ DOMAIN outcome.producers = {}
        /\ archive = NoArchive
    BY <1>2, <1>4, Moves DEF Accept, EInv, ProducersInv, CoverInv, BeforeCollect, Measuring,
       BeforeFinalize
  <2>2. /\ outcome'.producers = outcome.producers /\ outcome'.cover = outcome.cover
        /\ outcome'.diagnostics \in {outcome.diagnostics, <<>>}
        /\ outcome'.unsound \subseteq outcome'.rejected \cap RuntimeProducers
    BY <1>1, <1>4 DEF Accept, OutcomeInv, EInv, ProducersInv
  <2>3. \E n \in Nat : DOMAIN outcome'.diagnostics = 1..n
    <3>1. DOMAIN <<>> = 1..0
      OBVIOUS
    <3> QED BY <2>2, <3>1 DEF EInv, ProducersInv
  <2>4. ProducersInv'
    BY <1>2, <2>1, <2>2, <2>3 DEF EInv, ProducersInv
  <2> QED BY <1>2, <2>1, <2>2, <2>4 DEF EInv, PresentInv, CoverInv, AfterDiagnose, AfterCounters
<1>5. CASE Diagnose
  <2>1. /\ stage = "diagnose" /\ stage' = "profile" /\ DOMAIN outcome.producers = {}
        /\ archive = NoArchive
    BY <1>2, <1>5, Moves DEF Diagnose, EInv, ProducersInv, CoverInv, BeforeCollect, Measuring,
       BeforeFinalize
  <2>2. /\ outcome'.cover = outcome.cover /\ outcome'.diagnostics = outcome.diagnostics
        /\ outcome'.unsound = outcome.unsound /\ outcome'.rejected = outcome.rejected
    BY <1>1, <1>5 DEF Diagnose, OutcomeInv
  <2>3. CASE ~Needs("ast")
    <3>1. outcome' = outcome
      BY <1>5, <2>3 DEF Diagnose
    <3>2. ProducersInv'
      BY <1>2, <2>1, <3>1 DEF EInv, ProducersInv
    <3> QED BY <1>2, <2>1, <2>3, <3>1, <3>2 DEF EInv, PresentInv, CoverInv, AfterCounters
  <2>4. CASE Needs("ast")
    <3> DEFINE cut == Expired /\ outcome.diagnostics # <<>>
               unreadable == outcome.collectionErr \/ cut
    <3>1. outcome'.producers =
            [p \in RuntimeProducers |->
               RuntimeProducerOutcome(testResult.status, unreadable, p \in outcome.rejected,
                                      outcome.diagnostics)]
      BY <1>1, <1>5, <2>4 DEF Diagnose, OutcomeInv
    <3>2. unreadable \in BOOLEAN
      OBVIOUS
    <3>3. "go-cover" \notin RuntimeProducers
      BY DEF RuntimeProducers, ProducerOf
    <3> HIDE DEF unreadable
    <3>4. ProducersInv'
      BY <1>2, <2>1, <2>2, <3>1, <3>2, <3>3 DEF EInv, ProducersInv, BeforeCollect, BeforeAnalyze
    <3>5. DOMAIN outcome'.producers = RuntimeProducers
      BY <3>1
    <3> QED BY <1>2, <2>1, <2>2, <3>4, <3>5 DEF EInv, PresentInv, CoverInv, AfterCounters
  <2> QED BY <2>3, <2>4
<1> QED BY <1>3, <1>4, <1>5

(* Counters are left without evidence only by an expired recovery.         *)
LEMMA ExecutionCounters ==
  ASSUME SInv, OutcomeInv, EInv, Regular, AcceptCounters
  PROVE  ProducersInv' /\ PresentInv' /\ CoverInv'
<1>1. OutcomeOK /\ outcome = [f \in DOMAIN NoOutcome |-> outcome[f]]
  BY DEF SInv, TypeOK, OutcomeOK, OutcomeInv
<1>2. /\ UNCHANGED <<request, testRun, testResult, cancelled, recovery, archive>>
      /\ stage = "counters" /\ stage' = "measured" /\ archive = NoArchive
      /\ RuntimeProducers' = RuntimeProducers
      /\ Needs("ast")' <=> Needs("ast")
      /\ Needs("c0")' <=> Needs("c0")
  BY Moves DEF Regular, signalVars, AcceptCounters, kept, RuntimeProducers, Needs, EInv, CoverInv,
     Measuring, BeforeFinalize
<1> USE OutcomeFields
<1>3. CASE ~Needs("c0")
  <2>1. outcome' = outcome
    BY <1>3 DEF AcceptCounters
  <2>2. ProducersInv'
    BY <1>2, <2>1 DEF EInv, ProducersInv, BeforeCollect, BeforeAnalyze
  <2>3. PresentInv'
    BY <1>2, <1>3, <2>1 DEF EInv, PresentInv, AfterDiagnose
  <2> QED BY <1>2, <1>3, <2>1, <2>2, <2>3 DEF EInv, CoverInv
<1>4. CASE Needs("c0")
  <2>1. /\ outcome'.diagnostics = outcome.diagnostics
        /\ outcome'.unsound = outcome.unsound /\ outcome'.rejected = outcome.rejected
        /\ outcome'.cover = "none" => Expired
    BY <1>1, <1>4 DEF AcceptCounters, OutcomeInv
  <2>2. PICK mappingErr \in BOOLEAN :
          outcome'.producers =
            [p \in DOMAIN outcome.producers \cup {"go-cover"} |->
               IF p # "go-cover" THEN outcome.producers[p]
               ELSE GoCoverProducerOutcome(testResult.status, outcome.readErr, mappingErr)]
    BY <1>1, <1>4 DEF AcceptCounters, OutcomeInv
  <2>3. /\ DOMAIN outcome'.producers = DOMAIN outcome.producers \cup {"go-cover"}
        /\ \A p \in DOMAIN outcome.producers \ {"go-cover"} :
             outcome'.producers[p] = outcome.producers[p]
        /\ Consistent(outcome'.producers["go-cover"])
    BY <2>2, GoCoverConsistent
  <2>4. ProducersInv'
    BY <1>2, <2>1, <2>3 DEF EInv, ProducersInv, BeforeCollect, BeforeAnalyze
  <2>5. PresentInv'
    BY <1>2, <2>3 DEF EInv, PresentInv, AfterDiagnose
  <2>6. CoverInv'
    BY <1>2, <2>1 DEF EInv, CoverInv, Expired
  <2> QED BY <2>4, <2>5, <2>6
<1> QED BY <1>3, <1>4

(* The execution that is archived passes RunValid.                         *)
LEMMA ExecutionValid ==
  ASSUME SInv, CInv, EInv, stage = "archive",
         ~(outcome.interrupted /\ Needs("c0") /\ outcome.cover = "none")
  PROVE  RunValid(Execution, request.need, outcome.unsound)
<1> DEFINE made == outcome.producers
<1>1. /\ Execution.producers = made /\ Execution.cover = outcome.cover
      /\ Execution.results = Results /\ Execution.status = Overall.status
      /\ Execution.failureKind = Overall.failureKind
      /\ Execution.complete => /\ Overall.status = "passed"
                               /\ Results.measurement = "passed"
                               /\ Results.integrity = "passed"
  BY DEF Execution
<1>2. ASSUME Execution.complete
      PROVE  /\ Execution.status = "passed" /\ Execution.failureKind = "none"
             /\ Execution.results.test = "passed"
             /\ Execution.results.measurement = "passed"
             /\ Execution.results.integrity = "passed"
  <2>1. ~outcome.interrupted
    BY <1>1, <1>2 DEF Results, PassFail
  <2>2. testResult.status # "none"
    BY <2>1 DEF CInv, ObservedInv, AfterTesting, AfterDiagnose, AfterCounters
  <2>3. testResult.status = "passed" /\ testResult.failureKind = "none"
    BY <1>1, <1>2, <2>1, <2>2 DEF Overall, EInv, CoverInv
  <2>4. Results.test = "passed" /\ Overall.failureKind = "none"
    BY <2>1, <2>3 DEF Results, Overall
  <2> QED BY <1>1, <1>2, <2>4
<1>3. ASSUME NEW p \in DOMAIN made
      PROVE  Consistent(made[p]) /\ (p \in outcome.unsound => ~AllowsCoverage(made[p]))
  <2>1. CASE p = "go-cover"
    <3>1. p \notin outcome.unsound
      BY <2>1 DEF EInv, ProducersInv, RuntimeProducers, ProducerOf
    <3> QED BY <1>3, <2>1, <3>1 DEF EInv, ProducersInv
  <2>2. CASE p # "go-cover"
    <3>1. PICK unreadable \in BOOLEAN :
            made[p] = RuntimeProducerOutcome(testResult.status, unreadable,
                                             p \in outcome.rejected, outcome.diagnostics)
      BY <1>3, <2>2 DEF EInv, ProducersInv
    <3>2. PICK n \in Nat : DOMAIN outcome.diagnostics = 1..n
      BY DEF EInv, ProducersInv
    <3> DEFINE mappingErr == p \in outcome.rejected
               o == RuntimeProducerOutcome(testResult.status, unreadable, mappingErr,
                                           outcome.diagnostics)
    <3>3. mappingErr \in BOOLEAN
      OBVIOUS
    <3> HIDE DEF mappingErr
    <3>4. Consistent(o) /\ (mappingErr => ~AllowsCoverage(o))
      BY <3>2, <3>3, RuntimeProducerTold
    <3>5. made[p] = o
      BY <3>1, Zenon DEF mappingErr
    <3>6. p \in outcome.unsound => mappingErr
      BY DEF EInv, ProducersInv, mappingErr
    <3> HIDE DEF o, made
    <3> QED BY <3>4, <3>5, <3>6
  <2> QED BY <2>1, <2>2
<1>4. ASSUME NEW metric \in request.need
      PROVE  ProducerOf(metric) \in DOMAIN made
  <2>1. CASE metric = "c0"
    BY <1>4, <2>1 DEF EInv, PresentInv, AfterCounters, Needs, ProducerOf
  <2>2. CASE metric # "c0"
    <3>1. request \in Requests
      BY DEF SInv, TypeOK
    <3>2. Needs("ast") /\ ProducerOf(metric) \in RuntimeProducers
      BY <1>4, <2>2, <3>1, SessionAssumption DEF Needs, RuntimeProducers
    <3> QED BY <3>2 DEF EInv, PresentInv, AfterDiagnose, AfterCounters
  <2> QED BY <2>1, <2>2
<1>5. /\ "c0" \in request.need => outcome.cover # "none"
      /\ outcome.cover # "none" => "go-cover" \in DOMAIN made
  BY DEF EInv, CoverInv, PresentInv, Needs
<1> HIDE DEF made
<1> QED BY <1>1, <1>2, <1>3, <1>4, <1>5 DEF RunValid

(* The invariant is inductive, given the two before it.                    *)
LEMMA ExecutionNext == SInv /\ CInv /\ EInv /\ [Next]_vars => EInv'
<1> SUFFICES ASSUME SInv, CInv, EInv, [Next]_vars
             PROVE  EInv'
  OBVIOUS
<1> USE DEF CInv
<1>1. ASSUME UNCHANGED <<request, testResult, outcome, archive>>,
             stage' = stage \/ stage' \in {"deferred", "returned"},
             cancelled => cancelled',
             recovery' \in {"deadline", "expired"} => cancelled'
      PROVE  EInv'
  <2>1. /\ Needs("ast")' <=> Needs("ast")
        /\ Needs("c0")' <=> Needs("c0")
        /\ RuntimeProducers' = RuntimeProducers
        /\ Valid' <=> Valid
    BY <1>1 DEF Needs, RuntimeProducers, Valid
  <2>2. ProducersInv'
    BY <1>1, <2>1 DEF EInv, ProducersInv, BeforeCollect, BeforeAnalyze
  <2>3. PresentInv' /\ CoverInv'
    BY <1>1, <2>1 DEF EInv, PresentInv, CoverInv, AfterDiagnose, AfterCounters, Measuring,
       BeforeFinalize, BeforeCollect, BeforeAnalyze
  <2>4. ArchiveValidates'
    BY <1>1, <2>1 DEF EInv, ArchiveValidates
  <2> QED BY <2>2, <2>3, <2>4 DEF EInv
<1>2. CASE SignalsStep /\ UNCHANGED <<code, testVars, sessionVars>>
  <2>1. cancelled => cancelled'
    BY <1>2 DEF SignalsStep, HandlerStep, MainStep, Receive, HandlerStop, Cancel,
       HandlerFinished, Close, MainStop, Exit, Send
  <2> QED BY <1>1, <1>2, <2>1 DEF testVars, sessionVars, EInv, CoverInv
<1>3. CASE UNCHANGED vars
  BY <1>1, <1>3 DEF vars, testVars, sessionVars, signalVars, EInv, CoverInv
<1>4. CASE (Ladder \/ Deferred \/ StartDeadline \/ Expire) /\ UNCHANGED signalVars
  <2>1. UNCHANGED <<request, testResult, outcome, archive, cancelled>>
    BY <1>4 DEF Ladder, Deferred, StartDeadline, Expire, Clock, kept, testVars, signalVars
  <2>2. stage' = stage \/ stage' \in {"deferred", "returned"}
    BY <1>4 DEF Ladder, Return, Deferred, StartDeadline, Expire, Clock
  <2>3. recovery' \in {"deadline", "expired"} => cancelled
    BY <1>4 DEF Ladder, Deferred, StartDeadline, Expire, Clock, EInv, CoverInv
  <2> QED BY <1>1, <2>1, <2>2, <2>3
<1>5. CASE RunTest /\ UNCHANGED signalVars
  <2>1. /\ stage = "gotest"
        /\ UNCHANGED <<request, stage, outcome, archive, recovery, cancelled>>
    BY <1>5 DEF RunTest, sessionVars, signalVars
  <2>2. testResult'.status = "passed" => testResult'.failureKind = "none"
    BY <1>5 DEF EInv, CoverInv, RunTest, StartTest, TestStep, Line, TestContextDone, EndTest,
       TestVerdict
  <2>3. archive = NoArchive /\ DOMAIN outcome.producers = {}
    BY <2>1 DEF EInv, CoverInv, ProducersInv, Measuring, BeforeFinalize, BeforeCollect
  <2>4. ProducersInv'
    BY <2>1, <2>3 DEF EInv, ProducersInv, RuntimeProducers
  <2>5. PresentInv' /\ CoverInv'
    BY <2>1, <2>2, <2>3 DEF EInv, PresentInv, CoverInv, AfterDiagnose, AfterCounters
  <2> QED BY <2>1, <2>3, <2>4, <2>5 DEF EInv, ArchiveValidates
<1>6. CASE /\ UNCHANGED signalVars
           /\ \/ Prepare \/ AnalyzeSources \/ Instrument \/ AfterTest
              \/ Collect \/ Accept \/ Diagnose \/ ReadProfile \/ PlanSources
              \/ AcceptCounters \/ Measured \/ Finalize \/ ArchiveExecution
              \/ Analyze \/ Save \/ Report
  <2>1. Regular
    BY <1>6, StagesRegular
  <2>2. UNCHANGED <<request, testResult, cancelled>>
    BY <2>1 DEF Regular, signalVars
  <2>3. CASE Collect \/ Accept \/ Diagnose \/ AcceptCounters
    <3>1. ProducersInv' /\ PresentInv' /\ CoverInv'
      BY <2>1, <2>3, ExecutionRuntime, ExecutionCounters
    <3>2. archive' = archive /\ stage \in Measuring
      BY <2>3 DEF Collect, Accept, Diagnose, AcceptCounters, Measuring, BeforeFinalize,
         BeforeCollect
    <3> QED BY <3>1, <3>2 DEF EInv, CoverInv, ArchiveValidates
  <2>4. CASE ArchiveExecution
    <3>1. /\ stage = "archive" /\ archive = NoArchive
          /\ UNCHANGED <<outcome, recovery>>
      BY <2>4 DEF ArchiveExecution, EInv, CoverInv, Measuring
    <3>2. ProducersInv' /\ PresentInv' /\ CoverInv'
      BY <2>1, <3>1, ExecutionKept DEF AllEvidenceKept, EvidenceKept, EInv, CoverInv
    <3>3. archive' = archive \/ archive' = Execution
      BY <2>4 DEF ArchiveExecution
    <3>4. /\ Needs("c0")' <=> Needs("c0")
          /\ archive' = Execution =>
               (Valid' <=> RunValid(Execution, request.need, outcome.unsound))
      BY <2>2, <3>1 DEF Needs, Valid
    <3>5. ArchiveValidates'
      BY <3>1, <3>3, <3>4, ExecutionValid DEF ArchiveValidates
    <3> QED BY <3>2, <3>5 DEF EInv
  <2>5. CASE \/ Prepare \/ AnalyzeSources \/ PlanSources \/ Finalize \/ Analyze \/ Save
             \/ Report
    <3>1. /\ UNCHANGED <<outcome, recovery, archive>>
          /\ stage \notin {"measured", "diagnose", "counters"}
      BY <2>5 DEF Prepare, AnalyzeSources, PlanSources, Finalize, Analyze, Save, Report
    <3>2. ProducersInv' /\ PresentInv' /\ CoverInv'
      BY <2>1, <3>1, ExecutionKept DEF AllEvidenceKept, EvidenceKept, EInv, CoverInv
    <3>3. ArchiveValidates'
      BY <2>2, <3>1 DEF EInv, ArchiveValidates, Valid, Needs
    <3> QED BY <3>2, <3>3 DEF EInv
  <2>6. CASE Instrument \/ AfterTest \/ ReadProfile \/ Measured
    <3>1. /\ archive' = archive /\ stage \in Measuring
          /\ stage \notin {"diagnose", "counters"}
          /\ recovery' \in {"deadline", "expired"} => cancelled
      BY <2>6 DEF Instrument, AfterTest, ReadProfile, Measured, Measuring, BeforeFinalize,
         BeforeCollect, BeforeAnalyze, EInv, CoverInv
    <3>2. /\ AllEvidenceKept
          /\ stage = "measured" => outcome'.interrupted = (outcome.interrupted \/ cancelled)
      <4>1. OutcomeOK /\ outcome = [f \in DOMAIN NoOutcome |-> outcome[f]]
        BY DEF SInv, TypeOK, OutcomeOK, OutcomeInv
      <4>2. EvidenceKept
        BY <2>6, OthersKeep
      <4> USE OutcomeFields
      <4>3. CASE Instrument
        BY <4>1, <4>2, <4>3 DEF Instrument, AllEvidenceKept
      <4>4. CASE AfterTest \/ Measured
        BY <4>1, <4>2, <4>4 DEF AfterTest, Measured, AllEvidenceKept
      <4>5. CASE ReadProfile
        BY <4>1, <4>2, <4>5 DEF ReadProfile, AllEvidenceKept
      <4> QED BY <2>6, <4>3, <4>4, <4>5
    <3>3. ProducersInv' /\ PresentInv' /\ CoverInv'
      BY <2>1, <3>1, <3>2, ExecutionKept
    <3> QED BY <3>1, <3>3 DEF EInv, CoverInv, ArchiveValidates
  <2> QED BY <1>6, <2>3, <2>4, <2>5, <2>6
<1> QED BY <1>2, <1>3, <1>4, <1>5, <1>6 DEF Next, CommandStep

(* It holds of every session.                                              *)
LEMMA SessionExecution == Spec => []EInv
<1>1. Init => CInv /\ EInv
  BY CompletenessInit, ExecutionInit
<1>2. SInv /\ CInv /\ EInv /\ [Next]_vars => CInv' /\ EInv'
  BY CompletenessNext, ExecutionNext
<1> QED BY <1>1, <1>2, SessionInvariant, PTL DEF Spec

(* The archive passes the validation of later stages (RunValid), whatever  *)
(* the test run and the collection did, but for a recovery that ran out.   *)
THEOREM SessionArchiveValidates == Spec => []ArchiveValidates
<1>1. EInv => ArchiveValidates
  BY DEF EInv
<1> QED BY <1>1, SessionExecution, PTL

(* The outcome of a runtime producer depends on the kinds of diagnostics,  *)
(* for sequences of any length (runtimeProducerOutcome).                   *)
THEOREM SessionDiagnosticsCommute == Spec => []DiagnosticsCommute
<1>1. EInv => DiagnosticsCommute
  BY ProducersCommute DEF EInv
<1> QED BY <1>1, SessionExecution, PTL
=============================================================================
