SPECIFICATION Spec
CONSTANTS
  h1 = h1
  t1 = t1
  t2 = t2
  NoThread = NoThread
  Threads = {h1, t1, t2}
  Hosts = {h1}
  MaxPProcs = 2
  PidMod = 4
  MaxSpawns = 3
  Codes = {0, 1}
  ExclusiveWaits = TRUE
  Cooperative = FALSE
SYMMETRY GuestSymmetry
CHECK_DEADLOCK FALSE
INVARIANTS
  TypeOK
  SlotsOutliveThreads
  WaitersHold
  AuxCountExact
  ExitedMeansQuiet
  CountIsUnreaped
PROPERTIES
  WaitReturnsOwnCode
  LifecycleSpec
