SPECIFICATION Spec
CONSTANTS
  n1 = n1
  n2 = n2
  t1 = t1
  t2 = t2
  nobody = nobody
  root = root
  Name <- OneName
  Thread <- Threads
  OwnLib <- OneName
  Edited <- OneName
  RootLib = TRUE
  Root = root
  NoThread = nobody
  MaxVersion = 3
  MaxLoad = 3
PROPERTY SettingsNeverGoBack
