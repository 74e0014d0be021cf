SPECIFICATION FairSpec
CONSTANTS
  w1 = w1
  w2 = w2
  w3 = w3
  guest1 = guest1
  guest2 = guest2
  Main = Main
  Nobody = Nobody
  Windows = {w1, w2, w3}
  ThreadOf <- TwoThreads
  MaxSurfaces = 2
  MaxIds = 3
  MaxChanges = 6
CHECK_DEADLOCK FALSE
INVARIANTS
  TypeOK
  ReadsLiveSurface
  RegistryExact
  SkippedIsShown
PROPERTIES
  CatchesUp
  ScreenSpec
