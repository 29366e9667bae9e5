SPECIFICATION LiveSpecInOrder
CONSTANTS
  Executions = {e1, e2}
  Nodes = {n1, n2}
  Masters = {m1, m2}
  NoExecution = NoExecution
  NoNode = NoNode
  Faults = {}
INVARIANTS SerialMeasurement
PROPERTIES VerdictArrives
CHECK_DEADLOCK FALSE
