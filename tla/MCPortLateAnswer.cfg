SPECIFICATION Spec
CONSTANTS
  Pins = {p1}
  Users = {u1, u2}
  None = None
  MaxRequests = 2
  MaxCancels = 0
  InitialBytes <- AllLow
PROPERTY
  LateAnswerIsIgnored
CHECK_DEADLOCK FALSE
