SPECIFICATION FairSpec
CONSTANTS
  Params = {p1}
  Values = {0, 1}
  Undef = Undef
  None = None
  Users = {u1, u2}
  Modes <- SomeModes
  Timeouts = TRUE
  CallsDuringInit = TRUE
  MaxWrites = 3
  MaxLoads = 1
  MaxEvents = 0
INVARIANTS
  CycleMatchesQueue
PROPERTIES
  PromisesSettle
CHECK_DEADLOCK FALSE
