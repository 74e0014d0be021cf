SPECIFICATION Spec
CONSTANTS
  t1 = t1
  t2 = t2
  Tasks = {t1, t2}
  MaxBottles = 3
  MaxCalls = 4
  MaxCrashes = 2
CHECK_DEADLOCK FALSE
INVARIANTS
  TypeOK
  SelectedIsListed
  RunningIsLive
PROPERTIES
  ListChangesOnRequest
