------------------------------- MODULE Verdict ------------------------------
(***************************************************************************)
(* What the exit code of a measuring command promises (classifyExit of     *)
(* src/internal/cli/cli.go and runWithSignals of src/main.go): failures    *)
(* are found in any order and never forgotten, and the process ends with   *)
(* the code of the gravest, unless it handled a signal.                    *)
(***************************************************************************)
EXTENDS Naturals

VARIABLES
  failures,  \* the kinds of failures found
  signal,    \* the exit code of the signal that was handled, or 0
  exit       \* the exit code, Running or Killed

Running == 256
Killed == 257

Code ==
  CASE signal # 0 -> signal
    [] signal = 0 /\ "measurement" \in failures -> 2
    [] signal = 0 /\ failures = {"test"} -> 1
    [] signal = 0 /\ failures = {"test", "threshold"} -> 1
    [] signal = 0 /\ failures = {"threshold"} -> 3
    [] OTHER -> 0

Init == failures = {} /\ signal = 0 /\ exit = Running

Find ==
  /\ failures \subseteq failures' /\ failures' \subseteq {"measurement", "test", "threshold"}
  /\ UNCHANGED <<signal, exit>>

Handle ==
  /\ signal = 0 /\ signal' \in {130, 143}
  /\ UNCHANGED <<failures, exit>>

End ==
  /\ exit' \in {Code, Killed}
  /\ UNCHANGED <<failures, signal>>

Next == exit = Running /\ (Find \/ Handle \/ End)
Spec == Init /\ [][Next]_<<failures, signal, exit>>
=============================================================================
