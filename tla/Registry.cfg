SPECIFICATION Spec
CONSTANTS
  n1 = n1
  n2 = n2
  t1 = t1
  t2 = t2
  nobody = nobody
  root = root
  Name <- Names
  Thread <- Threads
  OwnLib <- NoName
  Edited <- FirstName
  RootLib = TRUE
  Root = root
  NoThread = nobody
  MaxVersion = 2
  MaxLoad = 3
SYMMETRY ThreadSymmetry
INVARIANTS
  RunningIsRegistered
  CounterWhileRunning
PROPERTIES
  RestartIsFresh
  OnlyBrokenLoadsLose
  RestartIsolates
