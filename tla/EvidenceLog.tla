---------------------------- MODULE EvidenceLog ----------------------------
(***************************************************************************)
(* What one process's journal promises to whoever reads it, however late   *)
(* and after whatever failure: evaluations end, the data of evaluations    *)
(* that ended becomes readable, nothing else ever does, and nothing        *)
(* readable is lost again.  It does not promise that every evaluation that *)
(* ended becomes readable: the process may stop first.                     *)
(***************************************************************************)
CONSTANTS Evals, Data

VARIABLES
  ended,     \* the evaluations that ended, each with its data
  readable,  \* the data that a reader of the journal finds
  running    \* the process has not stopped

vars == <<ended, readable, running>>

Init ==
  /\ ended = {}
  /\ readable = {}
  /\ running = TRUE

End(e, data) ==
  /\ running
  /\ \A v \in ended : v.id # e
  /\ ended' = ended \cup {[id |-> e, data |-> data]}
  /\ UNCHANGED <<readable, running>>

(* An append publishes one evaluation, a compaction perhaps several.       *)
Publish(published) ==
  /\ running
  /\ readable' = readable \cup {v.data : v \in published}
  /\ UNCHANGED <<ended, running>>

Stop ==
  /\ running
  /\ running' = FALSE
  /\ UNCHANGED <<ended, readable>>

Next ==
  \/ \E e \in Evals, data \in Data : End(e, data)
  \/ \E published \in SUBSET ended : Publish(published)
  \/ Stop

Spec == Init /\ [][Next]_vars
=============================================================================
