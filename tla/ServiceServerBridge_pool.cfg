SPECIFICATION FairSpec
CONSTANTS
    Calls = {k1, k2}
    Clients = {c1, c2}
    NoCall = NoCall
    NoClient = NoClient
    MaxFaults = 1
    MayClose = TRUE
CHECK_DEADLOCK FALSE
INVARIANTS
    PoolConsistent
    ReturnedIdle
    KnownCallsCanceled
PROPERTIES
    CallSpec
    EveryCallEnds
