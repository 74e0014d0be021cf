SPECIFICATION FairSpec
CONSTANTS
  h1 = h1
  t1 = t1
  t2 = t2
  t3 = t3
  NoThread = NoThread
  Threads = {h1, t1, t2, t3}
  Hosts = {h1}
  MaxPProcs = 2
  PidMod = 3
  MaxSpawns = 2
  Codes = {0}
  ExclusiveWaits = TRUE
  Cooperative = TRUE
CHECK_DEADLOCK FALSE
PROPERTIES
  WaitsReturn
  DrainsEnd
