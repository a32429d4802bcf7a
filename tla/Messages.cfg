SPECIFICATION FairSpec
CONSTANTS
  s1 = s1
  s2 = s2
  h1 = h1
  h2 = h2
  m1 = m1
  c1 = c1
  c2 = c2
  NoSim = NoSim
  NoClass = NoClass
  NoThread = NoThread
  Sim <- Sims
  Handler = {h1}
  Manager <- Managers
  Drains <- Draining
  Throws <- Draining
  Class <- Classes
  Uses <- TwoAndOne
  Targets <- AllTargets
  MaxBean = 2
  MaxRun = 2
INVARIANTS
  EveryBeanIsClosed
  OwnAnswersPass
PROPERTIES
  DrainedStopIsClean
  CountedInItsRun
  StopEndsOrEmbraces
CHECK_DEADLOCK FALSE
