SPECIFICATION FairSpec
CONSTANTS
  NamedIds = {a}
  Clients = {c1}
  MaxCbs = 3
  MaxUnnamed = 2
  NoJob = NoJob
INVARIANTS
  TimerOfCurrentJob
  OneLiveCallback
  NobodyWaitsForNothing
PROPERTIES
  EndsByItself
  PromiseTellsOfItsJob
  ServesInOrder
  PromisesSettle
CHECK_DEADLOCK FALSE
