SPECIFICATION FairSpec
CONSTANTS
    RosGoals = {r1}
    HakGoals = {h1}
    Actions = {navigate}
    ActionOf <- OneAction
    NoGoal = NoGoal
    MaxFeedback = 1
    MaxCancels = 2
    MaxFaults = 1
    MayClose = TRUE
CHECK_DEADLOCK FALSE
INVARIANTS
    TypeOK
    FeedbackAccounted
PROPERTIES
    CancelReturns
    AwaitedResultDelivered
