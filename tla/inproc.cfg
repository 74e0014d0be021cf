SPECIFICATION FairSpec
CONSTANTS
  wine = wine
  c1 = c1
  c2 = c2
  p0 = p0
  p1 = p1
  p2 = p2
  Primary = wine
  Children = {c1, c2}
  Pebs = {p0, p1, p2}
  FirstPeb = p0
  MaxProcs = 3
  MaxFds = 4
  Exiters = {wine}
CHECK_DEADLOCK FALSE
INVARIANTS
  TypeOK
  OwnState
  NothingLeft
PROPERTIES
  CreateReturns
