SPECIFICATION FairSpec
CONSTANTS
    MaxFeedback = 1
    MaxCancels = 2
    MaxFaults = 1
    MayRuntimeCancel = TRUE
    MayClose = TRUE
CHECK_DEADLOCK FALSE
INVARIANTS
    CompleteAtMostOnce
    ResultReflectedOnce
    FeedbackAccounted
    ContextFollowsGoal
    CancelAcceptedByRos
PROPERTIES
    RequestsAnswered
    ResultDelivered
