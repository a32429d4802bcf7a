SPECIFICATION FairSpec
CONSTANTS
  s1 = s1
  s2 = s2
  h1 = h1
  h2 = h2
  m1 = m1
  c1 = c1
  c2 = c2
  NoSim = NoSim
  NoClass = NoClass
  NoThread = NoThread
  Sim <- Sims
  Handler <- Handlers
  Manager <- Managers
  Drains <- Draining
  Throws <- Draining
  Class <- Classes
  Uses <- OneEach
  Targets <- AllTargets
  MaxBean = 2
  MaxRun = 2
PROPERTY StopReturns
CHECK_DEADLOCK FALSE
