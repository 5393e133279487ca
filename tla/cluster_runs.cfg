SPECIFICATION FairSpec
CONSTANTS
  n1 = n1
  n2 = n2
  Nodes = {n1, n2}
  Networks = {"b1"}
  NetNSs = {"s1"}
  TPM = {n1}
  Serial <- TwoSerials
  Failures = TRUE
  MaxRuns = 2
INVARIANTS
  TypeOK
  ForceMeetsNoGarbage
  JumpsAreSingle
  CleanupRemovesNetworks
  ServedLeavesNothing
  VMUnderItsSerial
  NoQEMUOutlives
PROPERTIES
  SignalEnds
CHECK_DEADLOCK FALSE
