------------------------ MODULE ExecutionLifecycle -------------------------
(***************************************************************************)
(* What the backend promises about Executions, whoever asks: the rows of a *)
(* bundle appear together in QUEUED, a row then moves one allowed          *)
(* transition at a time, its state_version counts the moves, terminal rows *)
(* never move again, and a result is offered exactly by COMPLETED rows.    *)
(*                                                                         *)
(* Nothing is said of who moves a row.  ExecutionQueue, with its           *)
(* dispatchers, heartbeat threads, watchdog, cancellations and intake      *)
(* failures, is shown to implement this specification.                     *)
(***************************************************************************)
EXTENDS ExecutionStates

CONSTANT Executions

VARIABLES
  state,    \* executions.execution_state
  version,  \* executions.state_version
  result    \* executions.result_available

vars == <<state, version, result>>

TypeOK ==
  /\ state \in [Executions -> RowStates]
  /\ version \in [Executions -> Nat]
  /\ result \in [Executions -> BOOLEAN]

Init ==
  /\ state = [e \in Executions |-> "ABSENT"]
  /\ version = [e \in Executions |-> 0]
  /\ result = [e \in Executions |-> FALSE]

\* One transaction inserts the rows of a bundle.
Create(bundle) ==
  /\ \A e \in bundle : state[e] = "ABSENT"
  /\ state' = [e \in Executions |-> IF e \in bundle THEN "QUEUED" ELSE state[e]]
  /\ UNCHANGED <<version, result>>

\* One row takes one allowed transition.
Move(e, to) ==
  /\ CanTransition(state[e], to)
  /\ state' = [state EXCEPT ![e] = to]
  /\ version' = [version EXCEPT ![e] = @ + 1]
  /\ result' = [result EXCEPT ![e] = (to = "COMPLETED")]

Next ==
  \/ \E bundle \in SUBSET Executions : Create(bundle)
  \/ \E e \in Executions, to \in States : Move(e, to)

Spec == Init /\ [][Next]_vars

-----------------------------------------------------------------------------
(* A result is offered exactly by the executions that completed: this is   *)
(* what the results and comparison routes rely on before opening a file.   *)
ResultIffCompleted ==
  \A e \in Executions : result[e] <=> state[e] = "COMPLETED"
=============================================================================
