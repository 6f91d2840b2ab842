SPECIFICATION Spec
CONSTANTS
  Props <- Deferring
  Careful = TRUE
  MaxCalls = 3
  MaxCancels = 0
  MaxPolls = 0
  None = None
INVARIANT
  LastRequestWins
CHECK_DEADLOCK FALSE
