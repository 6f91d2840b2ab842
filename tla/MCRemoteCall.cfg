CONSTANTS
    Client = client
    Server = server
    Methods = {m1, m2}
    WithCallback = {m2}
    Callers = {client}
    MethodCallers = {server}
    MaxAsks = 3
    MaxLosses = 1
SPECIFICATION FairSpec
INVARIANTS
    HandlersAreWaits
    OwnOrRivalsAnswer
PROPERTIES
    NoCallbackAfterDestroy
    CallsSettle
CHECK_DEADLOCK FALSE
