SPECIFICATION FairSpec
CONSTANTS
  c1 = c1
  c2 = c2
  NoClient = NoClient
  Clients = {c1, c2}
  PidOf <- TwoPids
  MaxConns = 2
  MaxClients = 2
  MaxHandles = 3
  Calls <- AllCalls
  MaxIssues = 3
  MaxStarts = 2
CHECK_DEADLOCK FALSE
INVARIANTS
  TypeOK
  ListedIsOpen
  NoLostWakeup
  StopClosesListed
PROPERTIES
  HandleServiceSpec
  CallsReturn
  VanishedAreReaped
