------------------------------- MODULE Signals ------------------------------
(***************************************************************************)
(* runWithSignals of src/main.go: the goroutine that turns the first       *)
(* signal into a cancellation, and the main goroutine that runs the        *)
(* command, stops the goroutine and chooses the exit code.  The command is *)
(* the variable code, which it sets once when it returns.                  *)
(***************************************************************************)
EXTENDS Naturals

CONSTANTS
  MaxSignals,  \* bound: the signals a user sends
  SignalCodes  \* of the signals sent: 128 + SIGINT, 128 + SIGTERM

ASSUME SignalsAssumption == MaxSignals \in Nat /\ SignalCodes \subseteq {130, 143}

Running == 256              \* no exit code yet
Killed == 257               \* ended by the system, without a code

VARIABLES
  code,        \* what the command returned, Running until then
  sent,        \* signals sent so far
  pending,     \* the channel of capacity one: a signal's exit code, or 0
  notified,    \* signals go to the channel rather than kill the process
  handler,     \* where the goroutine stands
  signalCode,  \* the exit code it stored, or 0
  cancelled,   \* the command's context is cancelled
  mainStep,    \* where the main goroutine stands after the command
  exit         \* the exit code of the process, Running, or Killed

signalVars == <<sent, pending, notified, handler, signalCode, cancelled,
                mainStep, exit>>

SignalsInit ==
  /\ sent = 0
  /\ pending = 0
  /\ notified = TRUE
  /\ handler = "select"
  /\ signalCode = 0
  /\ cancelled = FALSE
  /\ mainStep = "run"
  /\ exit = Running

(* A signal is dropped when the channel is full, and kills the process     *)
(* once notification has been stopped.                                     *)
Send(n) ==
  /\ sent < MaxSignals
  /\ sent' = sent + 1
  /\ IF notified
     THEN /\ pending' = IF pending = 0 THEN n ELSE pending
          /\ UNCHANGED exit
     ELSE /\ exit' = Killed
          /\ UNCHANGED pending
  /\ UNCHANGED <<notified, handler, signalCode, cancelled, mainStep>>

Receive ==
  /\ handler = "select" /\ pending # 0
  /\ signalCode' = pending
  /\ pending' = 0
  /\ handler' = "stop"
  /\ UNCHANGED <<sent, notified, cancelled, mainStep, exit>>

HandlerStop ==
  /\ handler = "stop"
  /\ notified' = FALSE
  /\ handler' = "cancel"
  /\ UNCHANGED <<sent, pending, signalCode, cancelled, mainStep, exit>>

Cancel ==
  /\ handler = "cancel"
  /\ cancelled' = TRUE
  /\ handler' = "done"
  /\ UNCHANGED <<sent, pending, notified, signalCode, mainStep, exit>>

(* Both channels of the select may be ready, then either is taken.         *)
HandlerFinished ==
  /\ handler = "select" /\ mainStep # "run"
  /\ handler' = "done"
  /\ UNCHANGED <<sent, pending, notified, signalCode, cancelled, mainStep, exit>>

Close ==
  /\ mainStep = "run" /\ code # Running
  /\ mainStep' = "close"
  /\ UNCHANGED <<sent, pending, notified, handler, signalCode, cancelled, exit>>

MainStop ==
  /\ mainStep = "close"
  /\ mainStep' = "wait"
  /\ notified' = FALSE
  /\ UNCHANGED <<sent, pending, handler, signalCode, cancelled, exit>>

Exit ==
  /\ mainStep = "wait" /\ handler = "done"
  /\ mainStep' = "exited"
  /\ exit' = IF signalCode # 0 THEN signalCode ELSE code
  /\ UNCHANGED <<sent, pending, notified, handler, signalCode, cancelled>>

HandlerStep == Receive \/ HandlerStop \/ Cancel \/ HandlerFinished
MainStep == Close \/ MainStop \/ Exit
SignalsStep ==
  /\ exit = Running
  /\ HandlerStep \/ MainStep \/ \E n \in SignalCodes : Send(n)
=============================================================================
