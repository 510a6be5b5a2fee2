SPECIFICATION FairSpec
CONSTANTS
    Requests = {q1, q2, q3}
    Tokens = {t1, t2}
    TokenOf <- SharedToken
    NoRequest = NoRequest
    MaxRequests = 2
    MaxFaults = 1
    MayClose = TRUE
CHECK_DEADLOCK FALSE
INVARIANTS
    TokenLeadsToCall
PROPERTIES
    CallSpec
    SilentAfterClear
    RequestAnswered
    FutureReleased
