CONSTANTS
  Users = {u1, u2}
  Credentials = {c1, c2}
  NoCredential = NoCredential
  Faults = {"host_reboot"}
  MaxFaults = 1
  MaxRequests = 2
  QueueBound = 1
SYMMETRY Symmetry
SPECIFICATION Spec
CHECK_DEADLOCK FALSE
INVARIANTS
  UsersComeBack
