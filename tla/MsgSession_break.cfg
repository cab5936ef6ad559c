SPECIFICATION Spec
CONSTANTS
  MaxCommands = 2
  LineCounts = {0, 1}
INVARIANTS
  BreaksOnlyWhenDone
\* The user may stop typing, and the client may have left.
CHECK_DEADLOCK FALSE
