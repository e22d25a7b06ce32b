SPECIFICATION Spec
CONSTANTS
  r1 = r1
  r2 = r2
  NoConfig = NoConfig
  Inputs <- OneProtocol
  Callers = {r1, r2}
  Polls = {"p"}
  Faults = {"helper_failure", "cleanup_failure"}
  MaxFaults = 2
  MaxOperations = 3
SYMMETRY Symmetry
CHECK_DEADLOCK FALSE
INVARIANTS
  HelpersExclusive
  InstalledAsRecorded
  RecordedIsInstalled
  UninstallIsClean
