SPECIFICATION FairSpec
CONSTANTS
  MaxRule = 3
  MaxReply = 2
INVARIANTS
  NobodyLeftWaiting
  SuccessMeansAnswered
  RulesDoNotMix
  ProxyIsLastResort
  StaysInStep
PROPERTY ToldOnce
CHECK_DEADLOCK FALSE
