SPECIFICATION Spec
CONSTANTS
  r1 = r1
  r2 = r2
  NoConfig = NoConfig
  Inputs <- OneProtocol
  Callers = {r1, r2}
  Polls = {"p"}
  Faults = {}
  MaxFaults = 0
  MaxOperations = 2
SYMMETRY Symmetry
CHECK_DEADLOCK FALSE
PROPERTIES
  RevisionMonotone
