SPECIFICATION FairSpec
CONSTANTS
  n1 = n1
  n2 = n2
  n3 = n3
  Nodes = {n1, n2}
  Serial <- Serials
  InRange = {"a1", "a2"}
  Lines = {"a1", "a2", "away", "garbage", ""}
  Failures = TRUE
INVARIANTS
  TypeOK
  NeverBlocks
  MachineIsThere
  ServesItsNode
PROPERTIES
  AnnouncedIsServed
  Returns
CHECK_DEADLOCK FALSE
