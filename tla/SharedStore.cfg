SPECIFICATION FairSpec
CONSTANTS
  Workers = {w1, w2}
  Names = {alice, bob}
  Messages = {m1, m2}
  Lengths <- MCLengths
  Indices <- MCIndices
  LongBits = 5
  IntBits = 3
  NoUser = NoUser
  NoRequest = NoRequest
  NoReply = NoReply
INVARIANTS
  TypeOK
  IteratorValid
  StoredOnce
PROPERTIES
  IndexStable
  ImplementsAtomicStore
  LockReleased
