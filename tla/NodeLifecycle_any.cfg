SPECIFICATION FairSpec
CONSTANTS
    Kinds = {"action_server", "action_client", "service_server", "service_client"}
    Endpoints = 3
    MayRaise <- Anything
CHECK_DEADLOCK FALSE
INVARIANTS
    ServersFirst
    EverythingClosed
PROPERTIES
    ContextShutDown
