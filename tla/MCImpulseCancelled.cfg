SPECIFICATION FairSpec
CONSTANTS
    Modes = {"defer"}
    BlockTimes = {TRUE, FALSE}
    MaxCalls = 2
    MaxCancels = 1
    MaxFailures = 0
PROPERTIES
    DeferredStart
CHECK_DEADLOCK FALSE
