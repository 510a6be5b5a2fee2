SPECIFICATION FairSpec
CONSTANTS
    Pdus <- TwoPdus
    UnknownPdu <- NoPdu
    Topics <- ThreeTopics
    NoTopic = NoTopic
    MaxEntries = 2
    MayFail = {"startup", "message", "stop"}
CHECK_DEADLOCK FALSE
INVARIANTS
    AcceptedExactly
    TeardownOrder
PROPERTIES
    TornDown
