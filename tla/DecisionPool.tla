---------------------------- MODULE DecisionPool ----------------------------
(***************************************************************************)
(* The reports of a run's decisions, built by a pool of goroutines         *)
(* (internal/analysis/decision_parallel.go, runDecisionBuildPool).  The    *)
(* jobs are queued before the workers start; a worker that panics, or the  *)
(* context, cancels the others; the caller waits for them, panics in turn  *)
(* or builds what they left.                                               *)
(***************************************************************************)
EXTENDS Integers, FiniteSets

CONSTANTS Tasks,       \* the number of decisions
          Configured,  \* settings of the number of workers to try
          Processors   \* runtime.GOMAXPROCS(0)

ASSUME PoolAssumption == /\ Tasks \in Nat
                         /\ Configured \subseteq Int
                         /\ Processors \in Nat \ {0}

VARIABLES
  workers,     \* the effective number of workers
  faulty,      \* the tasks whose build panics
  interrupted, \* the caller's context is done
  poolCanceled, \* poolContext is done
  next,        \* the first job that is still queued
  pc,          \* where a worker is
  job,         \* the job a worker took
  begun,       \* how many times the build of a task was begun
  reports,     \* the set of the result of a task
  completed,   \* the tasks completed by the workers
  panicValues, \* the set of the value in the channel
  panicked,    \* the tasks whose build did panic
  caller,      \* where the caller is
  turn         \* the task that the caller is at

poolVars == <<workers, faulty, interrupted, poolCanceled, next, pc, job, begun, reports,
          completed, panicValues, panicked, caller, turn>>

TaskIds == 1..Tasks

MaxWorkers == 4  \* maxMaskingDecisionWorkers

Least(S) == CHOOSE x \in S : \A y \in S : x <= y

EffectiveWorkers(configured) ==
  IF Tasks <= 1 \/ configured < 0 THEN 1
  ELSE Least({IF configured = 0 THEN Processors ELSE configured,
              MaxWorkers, Tasks})

WorkerIds == 1..MaxWorkers

Parallel == workers > 1

PoolInit ==
  /\ \E configured \in Configured : workers = EffectiveWorkers(configured)
  /\ faulty \in SUBSET TaskIds
  /\ interrupted = FALSE
  /\ poolCanceled = FALSE
  /\ next = 1
  /\ pc = [w \in WorkerIds |-> IF Parallel /\ w <= workers THEN "loop" ELSE "exited"]
  /\ job = [w \in WorkerIds |-> 0]
  /\ begun = [t \in TaskIds |-> 0]
  /\ reports = [t \in TaskIds |-> {}]
  /\ completed = {}
  /\ panicValues = {}
  /\ panicked = {}
  /\ caller = "waiting"
  /\ turn = 1
-----------------------------------------------------------------------------
Go(w, where) == pc' = [pc EXCEPT ![w] = where]

CallerUnchanged == UNCHANGED <<workers, faulty, interrupted, caller, turn>>

(* The loop's first look at the context. *)
Loop(w) ==
  /\ pc[w] = "loop"
  /\ Go(w, IF poolCanceled THEN "exited" ELSE "select")
  /\ CallerUnchanged
  /\ UNCHANGED <<poolCanceled, next, job, begun, reports, completed, panicValues,
                 panicked>>

(* The select: both cases may be ready.                                    *)
SelectDone(w) ==
  /\ pc[w] = "select"
  /\ poolCanceled
  /\ Go(w, "exited")
  /\ CallerUnchanged
  /\ UNCHANGED <<poolCanceled, next, job, begun, reports, completed, panicValues,
                 panicked>>

SelectJob(w) ==
  /\ pc[w] = "select"
  /\ next <= Tasks
  /\ job' = [job EXCEPT ![w] = next]
  /\ next' = next + 1
  /\ Go(w, "taken")
  /\ CallerUnchanged
  /\ UNCHANGED <<poolCanceled, begun, reports, completed, panicValues, panicked>>

(* A mistake: every worker cancels the pool as it ends. *)
SelectClosedCancels(w) ==
  /\ pc[w] = "select"
  /\ next > Tasks
  /\ Go(w, "exited")
  /\ poolCanceled' = TRUE
  /\ CallerUnchanged
  /\ UNCHANGED <<next, job, begun, reports, completed, panicValues, panicked>>

SelectClosed(w) ==
  /\ pc[w] = "select"
  /\ next > Tasks
  /\ Go(w, "exited")
  /\ CallerUnchanged
  /\ UNCHANGED <<poolCanceled, next, job, begun, reports, completed, panicValues,
                 panicked>>

(* A job taken by a worker that then finds the context done is dropped.    *)
Begin(w) ==
  /\ pc[w] = "taken"
  /\ IF poolCanceled THEN Go(w, "exited") /\ UNCHANGED begun
     ELSE /\ Go(w, "building")
          /\ begun' = [begun EXCEPT ![job[w]] = @ + 1]
  /\ CallerUnchanged
  /\ UNCHANGED <<poolCanceled, next, job, reports, completed, panicValues, panicked>>

(* A build that sees the context done may give up with an unknown outcome; *)
(* a faulty one returns only if it gave up.                                *)
Outcomes(t) ==
  (IF poolCanceled THEN {"canceled"} ELSE {})
    \cup (IF t \in faulty THEN {} ELSE {"exact"})

(* A mistake: the result is stored but the task is not marked. *)
CompletedWithout(t) == completed

CompletedWith(t) == completed \cup {t}

Complete(w) ==
  /\ pc[w] = "building"
  /\ \E outcome \in Outcomes(job[w]) :
       reports' = [reports EXCEPT ![job[w]] = {outcome}]
  /\ completed' = CompletedWith(job[w])
  /\ Go(w, "loop")
  /\ CallerUnchanged
  /\ UNCHANGED <<poolCanceled, next, job, begun, panicValues, panicked>>

(* A mistake: the recovered value is dropped. *)
SentNothing(value) == panicValues

(* The send never blocks: a second value is dropped.                       *)
Sent(value) == IF panicValues = {} THEN {value} ELSE panicValues

(* A mistake: the deferred recover swallows wait.Done. *)
AfterPanicStuck == "stuck"

AfterPanic == "exited"

Panic(w) ==
  /\ pc[w] = "building"
  /\ job[w] \in faulty
  /\ panicked' = panicked \cup {job[w]}
  /\ panicValues' = Sent(job[w])
  /\ poolCanceled' = TRUE
  /\ Go(w, AfterPanic)
  /\ CallerUnchanged
  /\ UNCHANGED <<next, job, begun, reports, completed>>

WorkerStep(w) ==
  \/ Loop(w) \/ SelectDone(w) \/ SelectJob(w) \/ SelectClosed(w)
  \/ Begin(w) \/ Complete(w) \/ Panic(w)
-----------------------------------------------------------------------------
WorkersUnchanged ==
  UNCHANGED <<workers, faulty, interrupted, poolCanceled, next, pc, job, completed,
              panicValues>>

Waited == \A w \in WorkerIds : pc[w] = "exited"

(* wait.Wait and the look at panicValues. *)
Wait ==
  /\ caller = "waiting"
  /\ Waited
  /\ caller' = IF panicValues # {} THEN "panicked" ELSE "building"
  /\ WorkersUnchanged
  /\ UNCHANGED <<begun, reports, panicked, turn>>

(* A mistake: what the workers dropped is forgotten. *)
LeftToCallerNothing(t) == FALSE

LeftToCaller(t) == t \notin completed

Skip ==
  /\ caller = "building"
  /\ turn <= Tasks
  /\ ~LeftToCaller(turn)
  /\ turn' = turn + 1
  /\ WorkersUnchanged
  /\ UNCHANGED <<begun, reports, panicked, caller>>

Build ==
  /\ caller = "building"
  /\ turn <= Tasks
  /\ LeftToCaller(turn)
  /\ begun' = [begun EXCEPT ![turn] = @ + 1]
  /\ \/ /\ \E outcome \in Outcomes(turn) :
             reports' = [reports EXCEPT ![turn] = {outcome}]
        /\ turn' = turn + 1
        /\ UNCHANGED <<panicked, caller>>
     \/ /\ turn \in faulty
        /\ panicked' = panicked \cup {turn}
        /\ caller' = "panicked"
        /\ UNCHANGED <<reports, turn>>
  /\ WorkersUnchanged

Return ==
  /\ caller = "building"
  /\ turn > Tasks
  /\ caller' = "returned"
  /\ WorkersUnchanged
  /\ UNCHANGED <<begun, reports, panicked, turn>>

CallerStep == Wait \/ Skip \/ Build \/ Return

(* The caller's context is canceled, and the pool's with it.               *)
Interrupt ==
  /\ ~interrupted
  /\ caller \notin {"returned", "panicked"}
  /\ interrupted' = TRUE
  /\ poolCanceled' = TRUE
  /\ UNCHANGED <<workers, faulty, next, pc, job, begun, reports, completed,
                 panicValues, panicked, caller, turn>>

PoolNext == (\E w \in WorkerIds : WorkerStep(w)) \/ CallerStep \/ Interrupt

PoolSpec == PoolInit /\ [][PoolNext]_poolVars

(* Goroutines are scheduled, and a build ends: its search has a budget.    *)
FairSpec ==
  /\ PoolSpec
  /\ \A w \in WorkerIds : WF_poolVars(WorkerStep(w))
  /\ WF_poolVars(CallerStep)
-----------------------------------------------------------------------------
TypeOK ==
  /\ workers \in 1..MaxWorkers
  /\ faulty \subseteq TaskIds
  /\ interrupted \in BOOLEAN
  /\ poolCanceled \in BOOLEAN
  /\ next \in 1..(Tasks + 1)
  /\ pc \in [WorkerIds -> {"loop", "select", "taken", "building", "exited"}]
  /\ job \in [WorkerIds -> 0..Tasks]
  /\ begun \in [TaskIds -> Nat]
  /\ reports \in [TaskIds -> SUBSET {"exact", "canceled"}]
  /\ completed \subseteq TaskIds
  /\ panicValues \subseteq TaskIds
  /\ panicked \subseteq TaskIds
  /\ caller \in {"waiting", "building", "returned", "panicked"}
  /\ turn \in 1..(Tasks + 1)

(***************************************************************************)
(* No decision is lost: when the pool returns, every task has its result,  *)
(* whoever dropped it on the way.                                          *)
(***************************************************************************)
EveryTaskReported ==
  caller = "returned" => \A t \in TaskIds : reports[t] # {}

(***************************************************************************)
(* No task is built twice, neither by two workers nor by a worker and then *)
(* the caller.                                                             *)
(***************************************************************************)
BuiltOnce == \A t \in TaskIds : begun[t] <= 1

(***************************************************************************)
(* A panic of a build reaches the caller: the pool does not return reports *)
(* after one, and it passes on the value of a build that did panic.        *)
(***************************************************************************)
PanicIsPassedOn ==
  /\ caller \in {"building", "returned"} => panicked = {}
  /\ panicValues \subseteq panicked

(***************************************************************************)
(* When the caller goes on, no goroutine of the pool is left that could    *)
(* still write a result.                                                   *)
(***************************************************************************)
NobodyLeft ==
  caller # "waiting" => \A w \in WorkerIds : pc[w] = "exited"

(***************************************************************************)
(* The pool's own cancellation is never seen in a report: without an       *)
(* interruption by the caller, what is returned is exact.                  *)
(***************************************************************************)
ExactUnlessInterrupted ==
  caller = "returned" /\ ~interrupted =>
    \A t \in TaskIds : reports[t] = {"exact"}

(***************************************************************************)
(* The pool comes to an end, whatever panics and whenever it is canceled.  *)
(***************************************************************************)
PoolEnds == <>(caller \in {"returned", "panicked"})
-----------------------------------------------------------------------------
(***************************************************************************)
(* The inductive strengthening of the safety invariants.                   *)
(***************************************************************************)
Held(w) == pc[w] \in {"taken", "building"}

(* A job is with at most one worker, and nobody has begun it before.       *)
JobInv ==
  /\ completed \subseteq 1..(next - 1)
  /\ \A w \in WorkerIds : Held(w) => /\ job[w] \in 1..(next - 1)
                                    /\ job[w] \notin completed
  /\ \A w, v \in WorkerIds : Held(w) /\ Held(v) /\ job[w] = job[v] => w = v
  /\ \A w \in WorkerIds : pc[w] = "taken" => begun[job[w]] = 0

(* What was begun is completed, has panicked or is with a worker.          *)
BegunInv ==
  /\ caller = "waiting" => \A t \in TaskIds : begun[t] # 0 =>
       /\ t < next
       /\ \/ t \in completed
          \/ t \in panicked
          \/ \E w \in WorkerIds : pc[w] = "building" /\ job[w] = t
  /\ caller = "building" => \A t \in TaskIds :
       t >= turn /\ begun[t] # 0 => t \in completed

StartInv == caller = "waiting" => turn = 1

ReportInv ==
  /\ \A t \in completed : reports[t] # {}
  /\ caller \in {"building", "returned"} =>
       \A t \in TaskIds : t < turn => reports[t] # {}
  /\ caller = "returned" => turn = Tasks + 1

CancelInv ==
  /\ caller = "waiting" /\ panicked # {} => panicValues # {}
  /\ poolCanceled => interrupted \/ panicked # {}
  /\ ~poolCanceled => \A t \in TaskIds : reports[t] \subseteq {"exact"}

(* The inductive invariant: what the queue, the workers, the marks and the *)
(* caller say of one another in every state.                               *)
IInv == /\ TypeOK /\ JobInv /\ BegunInv /\ ReportInv /\ CancelInv
        /\ BuiltOnce /\ PanicIsPassedOn /\ NobodyLeft /\ StartInv
=============================================================================
