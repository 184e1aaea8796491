------------------------------- MODULE GoTest -------------------------------
(***************************************************************************)
(* One go test invocation: src/internal/gotest/gotest.go.  The go command  *)
(* is outside of the repository: it prints lines, which plainEventWriter   *)
(* inspects, and ends.  Its context is the request's, which may be         *)
(* cancelled, with a timeout.                                              *)
(***************************************************************************)
EXTENDS Naturals

VARIABLES
  testRun,    \* "idle", "running" or "ended"
  testCtx,    \* why the context of the invocation is done, or "none"
  seen,       \* the eventWriter: what the lines so far have said
  testResult  \* gotest.Result

testVars == <<testRun, testCtx, seen, testResult>>

(* What a line may say that changes the result: a package that cannot be   *)
(* built or set up, a package that failed otherwise, a failed test, the    *)
(* timeout of a test binary, and the reports of the two recorders.         *)
LineKinds == {"build", "fail", "test", "timeout", "runtime", "cover"}

GoTestInit ==
  /\ testRun = "idle"
  /\ testCtx = "none"
  /\ seen = {}
  /\ testResult = [status |-> "none", failureKind |-> "none",
                   runtimeReports |-> FALSE, coverReports |-> FALSE]

StartTest(cancelled) ==
  /\ testRun = "idle"
  /\ testRun' = "running"
  /\ testCtx' = IF cancelled THEN "canceled" ELSE "none"
  /\ UNCHANGED <<seen, testResult>>

Line(kind) ==
  /\ testRun = "running"
  /\ seen' = seen \union {kind}
  /\ UNCHANGED <<testRun, testCtx, testResult>>

(* The context of the invocation keeps its first reason for being done.    *)
TestContextDone(cancelled, timeout) ==
  /\ testRun = "running" /\ testCtx = "none"
  /\ \/ timeout /\ testCtx' = "deadline"
     \/ cancelled /\ testCtx' = "canceled"
  /\ UNCHANGED <<testRun, seen, testResult>>

ClassifyFailure ==
  LET build == "build" \in seen
      tests == seen \intersect {"fail", "test"} # {}
  IN  CASE "timeout" \in seen                      -> "timeout"
        [] "timeout" \notin seen /\ build /\ tests  -> "mixed"
        [] "timeout" \notin seen /\ build /\ ~tests -> "build"
        [] "timeout" \notin seen /\ ~build /\ tests -> "test"
        [] OTHER                                   -> "command"

(* What Run makes of the end of the command: status and failure kind.      *)
TestVerdict(succeeded) ==
  IF succeeded THEN <<"passed", "none">>
  ELSE CASE testCtx = "deadline" -> <<"timeout", "timeout">>
         [] testCtx = "canceled" -> <<"failed", "interrupted">>
         [] OTHER -> <<IF ClassifyFailure = "timeout" THEN "timeout" ELSE "failed",
                       ClassifyFailure>>

(* Success is what the go command says, whatever the lines looked like.    *)
(* What Run kept is gone with it.                                          *)
EndTest(succeeded) ==
  /\ testRun = "running"
  /\ testRun' = "ended"
  /\ testResult' = [status |-> TestVerdict(succeeded)[1],
                    failureKind |-> TestVerdict(succeeded)[2],
                    runtimeReports |-> "runtime" \in seen,
                    coverReports |-> "cover" \in seen]
  /\ testCtx' = "none" /\ seen' = {}

TestStep(kinds, cancelled, timeout) ==
  \/ \E kind \in kinds : Line(kind)
  \/ TestContextDone(cancelled, timeout)
  \/ \E succeeded \in BOOLEAN : EndTest(succeeded)
=============================================================================
