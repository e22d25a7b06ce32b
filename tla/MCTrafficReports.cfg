SPECIFICATION Spec
CONSTANTS
  Users = {u1}
  Triggers = {t1, t2}
  Interval = 2
  InitialDelay = 1
  Faults = {"rpc_error", "center_error", "db_error", "clock_back", "agent_crash"}
  MaxFaults = 2
  MaxClock = 6
  MaxEpoch = 2
  MaxTraffic = 1
SYMMETRY Symmetry
CHECK_DEADLOCK FALSE
INVARIANTS
  RunningIsHeld
  BackoffSkipsOneTick
PROPERTIES
  PostsInOrder
  ReportsAccumulate
