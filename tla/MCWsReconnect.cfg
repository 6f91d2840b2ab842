SPECIFICATION FairSpec
CONSTANTS
    Clients = {c1, c2}
    MaxDeaths = 1
    MaxSends = 1
INVARIANTS
    SessionsStayWithTheirClient
    ConnectedMeansActive
    OpenMeansHeard
    OneWayBack
PROPERTIES
    ComesBack
CHECK_DEADLOCK FALSE
