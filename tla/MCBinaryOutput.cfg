SPECIFICATION FairSpec
CONSTANTS
  Props <- AllProps
  Careful = TRUE
  MaxCalls = 4
  MaxCancels = 1
  MaxPolls = 1
  None = None
INVARIANTS
  OneWriteAtATime
  BlockedUntilItsTimer
  KnowsThePin
  PendingIsRemembered
PROPERTIES
  ResolvedMeansWritten
  ProgressEnds
  CallsSettle
CHECK_DEADLOCK FALSE
