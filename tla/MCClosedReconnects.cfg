SPECIFICATION FairSpec
CONSTANTS
    Clients = {c1}
    MaxDeaths = 1
    MaxSends = 0
PROPERTIES
    CloseIsFinal
CHECK_DEADLOCK FALSE
