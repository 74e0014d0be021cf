SPECIFICATION FairSpec
CONSTANTS
  p1 = p1
  p2 = p2
  Procs = {p1, p2}
  QueueLen = 2
  MaxEvents = 4
INVARIANTS
  TypeOK
  NoStuckButton
PROPERTIES
  FifoSpec
  Delivered
