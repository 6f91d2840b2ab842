SPECIFICATION FairSpec
CONSTANTS
    Clients = {c1}
    MaxDeaths = 1
    MaxSends = 1
PROPERTIES
    ConnectedPromiseResolves
CHECK_DEADLOCK FALSE
