CONSTANTS
  Users = {u1, u2}
  Credentials = {c1, c2}
  NoCredential = NoCredential
  Faults = {"lost_reply"}
  MaxFaults = 1
  MaxRequests = 3
  QueueBound = 1
SYMMETRY Symmetry
SPECIFICATION Spec
CHECK_DEADLOCK FALSE
INVARIANTS
  CredentialsReplaced
