SPECIFICATION FairSpec
CONSTANTS
  c1 = c1
  c2 = c2
  a = a
  b = b
  s1 = s1
  NoConn = NoConn
  UNKNOWN = UNKNOWN
  NoId = NoId
  ALL = ALL
  Conn <- TwoConns
  Id <- Ids
  Sender <- Senders
  Proxy = TRUE
INVARIANTS
  IdListsAreExact
  DelegatorWithinReach
  SendStaysInChannel
CHECK_DEADLOCK FALSE
PROPERTIES
  ImplementsDirectory
  EventsEndOrWait
