SPECIFICATION Spec
CONSTANTS
  c1 = c1
  c2 = c2
  a = a
  b = b
  s1 = s1
  NoConn = NoConn
  UNKNOWN = UNKNOWN
  NoId = NoId
  ALL = ALL
  Conn <- TwoConns
  Id <- Ids
  Sender <- Senders
  Proxy = FALSE
INVARIANT AllMeansEachOnce
