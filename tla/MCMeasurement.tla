---------------------------- MODULE MCMeasurement --------------------------
(* Small instances of Measurement for TLC.                                 *)
EXTENDS Measurement, TLC

\* Executions and nodes are told apart by nothing; for safety runs only.
Symmetry == Permutations(Executions) \cup Permutations(Nodes)

\* TLC takes no symmetry where liveness is checked.  Instead, whatever is
\* served first has the first name: every behaviour is one of these after
\* executions, nodes and masters are renamed.
First(S) == CHOOSE x \in S : TRUE
InOrder ==
  (\A e \in Executions : target[e] = NoNode) =>
    /\ \A e \in Executions : target'[e] # NoNode =>
         e = First(Executions) /\ target'[e] = First(Nodes)
    /\ \A m \in Masters : job'[m] # NoExecution => m = First(Masters)

NextInOrder == Next /\ InOrder
LiveSpecInOrder == Init /\ [][NextInOrder]_vars /\ Fairness
=============================================================================
