SPECIFICATION FairSpec
CONSTANTS
  Inputs = {d, i}
  Outputs = {o}
  Debounced = {d}
  None = None
  MaxPolls = 2
  MaxInits = 1
  MaxWrites = 1
  MaxReads = 1
  MaxChanges = 1
  MaxFails = 2
INVARIANTS
  OutputsAreKnown
  InputsFollowPolls
PROPERTIES
  InitIcEnds
  InputsCatchUp
CHECK_DEADLOCK FALSE
