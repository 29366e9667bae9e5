-------------------------- MODULE MCExecutionQueue -------------------------
(* Small instances of ExecutionQueue for TLC.                              *)
EXTENDS ExecutionQueue, TLC

CONSTANTS d1, d2, r1, s1

OneBundle == [e \in Executions |-> s1]

DispatcherSymmetry == Permutations(Dispatchers)

\* Every fault but a heartbeat thread that lives and does not beat.
PromptFaults == FaultKinds \ {"slow"}
=============================================================================
