SPECIFICATION FairSpec
CONSTANTS
  in = in
  evt = evt
  out = out
  own = own
  b1 = b1
  m1 = m1
  m2 = m2
  None = None
  Name <- MCName
  Broker <- MCBroker
  Dest <- MCDest
  KindOf <- MCKindOf
  Pub <- MCPub
  Sub <- MCSub
  Channel <- MCChannel
  ReplyTo <- MCReplyTo
  Message <- MCMessage
  MaxStart = 2
INVARIANTS
  RepliesFindTheirWay
  NothingOpenWhenDown
PROPERTIES
  FailedHasCause
  StopEndsOrWaits
CHECK_DEADLOCK FALSE
