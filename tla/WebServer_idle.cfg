SPECIFICATION FairSpec
CONSTANTS
  c1 = c1
  c2 = c2
  Conns <- MCConns
  MaxRequests <- MCMaxRequests
  Descriptors = {5, 6}
  Listener = 3
  Size = 4
  ResponseSize = 2
  SendSpace = 1
  Nobody = Nobody
\* poll() may be interrupted, an exception may end the server, and a client in
\* hand that is gone stops it.
CHECK_DEADLOCK FALSE
PROPERTIES
  SweepClosesIdle
