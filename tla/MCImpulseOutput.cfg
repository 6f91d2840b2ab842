SPECIFICATION FairSpec
CONSTANTS
    Modes = {"fixed", "defer", "increasing"}
    BlockTimes = {TRUE, FALSE}
    MaxCalls = 5
    MaxCancels = 2
    MaxFailures = 2
INVARIANTS
    RaisedMeansEnds
    DeferredAreServed
PROPERTIES
    CallsSettle
CHECK_DEADLOCK FALSE
