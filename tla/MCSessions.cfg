CONSTANTS
  Clients = {c1, c2}
  Sessions = {s1, s2}
  TTL = 2
  MaxIngests = 2
  Sweeper = Sweeper
SPECIFICATION FairSpec
INVARIANTS
  SessionTypeOK
  AckedIsStored
PROPERTIES
  OnlyExpiredEvicted
  ReadersSeeOneState
  RequestsEnd
  SessionsExpire
