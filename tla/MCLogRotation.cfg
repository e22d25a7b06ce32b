SPECIFICATION FairSpec
CONSTANTS
  MaxDay = 3
  MaxEntries = 2
  RetentionDays = 1
  Faults = {"io_error", "crash"}
  MaxFaults = 2
CHECK_DEADLOCK FALSE
INVARIANTS
  NothingLost
  DuplicatesOnlyWhenTorn
  RestsOnlyWhenRotated
PROPERTIES
  RotationCatchesUp
