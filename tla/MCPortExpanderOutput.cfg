SPECIFICATION FairSpec
CONSTANTS
  Pins = {p1, p2}
  Users = {u1, u2}
  None = None
  MaxRequests = 3
  MaxCancels = 1
  InitialBytes <- AllLow
INVARIANTS
  ItemHasItsTimer
  NothingIsLost
PROPERTIES
  ResolvedMeansWritten
  PromisesSettle
CHECK_DEADLOCK FALSE
