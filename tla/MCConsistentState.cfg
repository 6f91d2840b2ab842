SPECIFICATION Spec
CONSTANTS
  Params = {p1, p2}
  Values = {0, 1}
  Undef = Undef
  None = None
  Users = {u1, u2, u3}
  Modes <- OnlyFull
  Timeouts = FALSE
  CallsDuringInit = FALSE
  MaxWrites = 3
  MaxLoads = 1
  MaxEvents = 1
SYMMETRY Symmetric
INVARIANTS
  PromiseFollowsItsWrite
  ConsistentIfHeard
PROPERTIES
  SavingIsNotOverwritten
  ResolvedMeansSaved
CHECK_DEADLOCK FALSE
