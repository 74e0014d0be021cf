SPECIFICATION FairSpec
CONSTANTS
  h1 = h1
  h2 = h2
  t1 = t1
  t2 = t2
  NoThread = NoThread
  Threads = {h1, h2, t1, t2}
  Hosts = {h1, h2}
  MaxPProcs = 1
  PidMod = 3
  MaxSpawns = 2
  Codes = {0, 1}
  ExclusiveWaits = FALSE
  Cooperative = TRUE
CHECK_DEADLOCK FALSE
PROPERTIES
  WaitsReturn
