SPECIFICATION Spec
CONSTANTS
  Props <- DeferringBlocked
  Careful = TRUE
  MaxCalls = 2
  MaxCancels = 0
  MaxPolls = 0
  None = None
INVARIANT
  DeferredIsWritten
CHECK_DEADLOCK FALSE
