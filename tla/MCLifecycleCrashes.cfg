SPECIFICATION FairSpec
CONSTANTS
  r1 = r1
  r2 = r2
  NoConfig = NoConfig
  Inputs <- TwoRevisions
  Callers = {r1}
  Polls = {"p"}
  Faults = {"agent_crash", "torn_write", "helper_failure", "late_failure",
            "cleanup_failure", "stop_failure", "write_failure"}
  MaxFaults = 2
  MaxOperations = 2
CHECK_DEADLOCK FALSE
INVARIANTS
  WaitsAreServed
  StepsEnabled
PROPERTIES
  RequestsAnswered
  OperationsSettle
  DivergenceIsReported
