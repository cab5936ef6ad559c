SPECIFICATION FairSpec
CONSTANTS
  Clients = {c1, c2}
  MaxPuts = 2
  MaxOthers = 2
  MaxLines = 2
  NoClient = NoClient
INVARIANTS
  TypeOK
  CacheBetweenRequests
  
  
PROPERTIES
  ConnectedIsAccepted
\* Every client may have left, and SIGPIPE may have ended the server.
CHECK_DEADLOCK FALSE
