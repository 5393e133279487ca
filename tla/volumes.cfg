SPECIFICATION FairSpec
CONSTANTS
  Definitions <- MCDefinitions
  MaxRuns = 3
INVARIANTS
  TypeOK
  IncompleteIsCutOff
  RunsOnWholeFiles
  FilesAreAsDefined
  ArgumentsAreKnown
PROPERTIES
  ImplementsCache
  KeepsGuestData
  
  ServesOrEnds
CHECK_DEADLOCK FALSE
