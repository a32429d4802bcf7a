SPECIFICATION FairSpec
CONSTANTS
  s1 = s1
  s2 = s2
  NoSub = NoSub
  Publisher = Publisher
  Sub <- MCSub
  Proxied <- MCProxied
  MaxRecord = 2
  MaxCrash = 1
INVARIANTS
  LostHasCause
  ListensWhileUp
  NothingLeftWhenDown
PROPERTIES
  HandledOnce
  StopEndsOrWaits
CHECK_DEADLOCK FALSE
