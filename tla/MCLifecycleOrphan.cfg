SPECIFICATION Spec
CONSTANTS
  r1 = r1
  r2 = r2
  NoConfig = NoConfig
  Inputs <- TwoRevisions
  Callers = {r1, r2}
  Polls = {"p"}
  Faults = {"agent_crash"}
  MaxFaults = 1
  MaxOperations = 2
SYMMETRY Symmetry
CHECK_DEADLOCK FALSE
INVARIANTS
  HelpersExclusive
