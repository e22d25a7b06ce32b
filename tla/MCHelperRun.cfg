SPECIFICATION Spec
CONSTANTS
  NoConfig = NoConfig
  Plans = {443, 8443}
  HttpPort = 80
  Foreigns <- SomeForeigns
  MaxRuns = 3
  MaxFaults = 2
  MaxEdits = 1
CHECK_DEADLOCK FALSE
INVARIANTS
  NothingForgotten
  InterruptedRuleIsAdopted
  ServedPortIsOpen
PROPERTIES
  ForeignRulesStay
  ImplementsHostHelper
