SPECIFICATION FairSpec
CONSTANTS
  MaxCommands = 4
  LineCounts = {0, 2}
INVARIANTS
  TypeOK
  StoredWhole
  ShownIsAnswer
PROPERTIES
  WaitEnds
\* The user may stop typing, and the client may have left.
CHECK_DEADLOCK FALSE
