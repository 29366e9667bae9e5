SPECIFICATION LiveSpecInOrder
CONSTANTS
  Executions = {e1, e2}
  Nodes = {n1, n2}
  Masters = {m1, m2}
  NoExecution = NoExecution
  NoNode = NoNode
  Faults <- FaultKinds
INVARIANTS TypeOK TargetOnJob
PROPERTIES OwnMarker VerdictStands ImplementsService ServeEnds NodesReturn
CHECK_DEADLOCK FALSE
