SPECIFICATION Spec
CONSTANTS
  n1 = n1
  n2 = n2
  Nodes = {n1, n2}
  Networks = {"b1"}
  NetNSs = {}
  TPM = {}
  Serial <- NoSerials
  Failures = FALSE
  MaxRuns = 1
INVARIANTS
  VMUnderItsSerial
CHECK_DEADLOCK FALSE
