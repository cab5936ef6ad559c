SPECIFICATION FairSpec
CONSTANTS
  Workers = {w1, w2, w3}
  Clients = {c1, c2, c3, c4}
  QueueSize = 2
  FdLimit = 3
  NoClient = NoClient
INVARIANTS
  TypeOK
  SemaphoresCount
  NeverPopsEmpty
  HandedOnce
PROPERTIES
  ImplementsBuffer
  
  FullTableEndsServer
\* The process ends when the descriptor table is full.
CHECK_DEADLOCK FALSE
