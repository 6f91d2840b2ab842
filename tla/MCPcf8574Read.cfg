SPECIFICATION FairSpec
CONSTANTS
  Inputs = {i}
  Outputs = {o}
  Debounced = {}
  None = None
  MaxPolls = 1
  MaxInits = 1
  MaxWrites = 1
  MaxReads = 1
  MaxChanges = 1
  MaxFails = 0
PROPERTY
  ReadTellsTheLevel
CHECK_DEADLOCK FALSE
