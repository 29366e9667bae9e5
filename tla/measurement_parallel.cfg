SPECIFICATION Spec
CONSTANTS
  Executions = {e1, e2}
  Nodes = {n1, n2}
  Masters = {m1}
  NoExecution = NoExecution
  NoNode = NoNode
  Faults = {"overrun"}
INVARIANTS SerialMeasurement
SYMMETRY Symmetry
CHECK_DEADLOCK FALSE
