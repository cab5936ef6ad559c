SPECIFICATION FairSpec
CONSTANTS
  MaxSize = 6
  MaxThreads = 4
  Nothing = Nothing
INVARIANTS
  TypeOK
  SectionsPartition
  
  
PROPERTIES
  ProgramEnds
\* The program ends.
CHECK_DEADLOCK FALSE
