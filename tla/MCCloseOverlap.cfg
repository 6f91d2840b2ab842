SPECIFICATION FairSpec
CONSTANTS
    Clients = {c1}
    MaxDeaths = 2
    MaxSends = 0
INVARIANTS
    OpenMeansActive
CHECK_DEADLOCK FALSE
