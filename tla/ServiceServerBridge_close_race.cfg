SPECIFICATION Spec
CONSTANTS
    Calls = {k1}
    Clients = {c1}
    NoCall = NoCall
    NoClient = NoClient
    MaxFaults = 0
    MayClose = TRUE
CHECK_DEADLOCK FALSE
INVARIANTS
    CanceledBeforeClose
