SPECIFICATION Spec
CONSTANTS
  Definitions <- MCDefinitions
  MaxRuns = 2
INVARIANT
  CopiesAreEntire
CHECK_DEADLOCK FALSE
