CONSTANTS
  Users = {u1, u2}
  Credentials = {c1, c2}
  NoCredential = NoCredential
  Faults = {"rpc_error", "lost_reply", "store_error", "agent_crash", "runtime_restart", "host_reboot"}
  MaxFaults = 2
  MaxRequests = 3
  QueueBound = 1
SYMMETRY Symmetry
SPECIFICATION Spec
CHECK_DEADLOCK FALSE
INVARIANTS
  TypeOK
  RevokedNotServed
  UnflaggedMeansServed
  UnflaggedMeansCurrent
  NeverStalls
PROPERTIES
  SyncInstallsDesired
  RowOutlivesAccess
  UnchangedKeepsCounters
