SPECIFICATION Spec
CONSTANTS
  Params = {p1, p2}
  Values = {0, 1}
  Undef = Undef
  None = None
  Users = {u1}
  Modes <- OnlyFull
  Timeouts = FALSE
  CallsDuringInit = FALSE
  MaxWrites = 1
  MaxLoads = 0
  MaxEvents = 1
SYMMETRY Symmetric
INVARIANT
  Consistent
CHECK_DEADLOCK FALSE
