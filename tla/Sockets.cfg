SPECIFICATION FairSpec
CONSTANTS
  c1 = c1
  c2 = c2
  i1 = i1
  NoConn = NoConn
  Empty = Empty
  NoId = NoId
  Conn <- MCConn
  Id <- MCId
  MaxStart = 2
INVARIANTS
  NobodyGoneIsRegistered
  NeverAnOlderServer
  LeftOpenHasCause
PROPERTIES
  StopDisconnects
CHECK_DEADLOCK FALSE
