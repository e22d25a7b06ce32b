CONSTANTS
  Fingerprints = {f1, f2}
  Polls = {p1, p2}
  MaxOperations = 3
SPECIFICATION FairSpec
INVARIANTS
  SingleActive
  LocksAgree
  RecoversInterruptedOnly
PROPERTIES
  SettledStays
  ImplementsLedger
  AcceptedSettles
