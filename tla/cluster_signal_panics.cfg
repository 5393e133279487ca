SPECIFICATION Spec
CONSTANTS
  n1 = n1
  n2 = n2
  Nodes = {n1}
  Networks = {"b1"}
  NetNSs = {}
  TPM = {}
  Serial <- OneSerial
  Failures = FALSE
  MaxRuns = 1
INVARIANTS
  SignalNeverPanics
CHECK_DEADLOCK FALSE
