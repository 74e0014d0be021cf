SPECIFICATION Spec
CONSTANTS
  c1 = c1
  c2 = c2
  NoClient = NoClient
  Clients = {c1, c2}
  PidOf <- TwoPids
  MaxConns = 3
  MaxClients = 2
  MaxHandles = 3
  Calls <- OtherCalls
  MaxIssues = 4
  MaxStarts = 1
CHECK_DEADLOCK FALSE
INVARIANTS
  StopClosesAll
