SPECIFICATION FairSpec
CONSTANTS
    RosGoals = {r1}
    HakGoals = {h1}
    Actions = {navigate}
    ActionOf <- OneAction
    NoGoal = NoGoal
    MaxFeedback = 0
    MaxCancels = 0
    MaxFaults = 0
    MayClose = FALSE
CHECK_DEADLOCK FALSE
PROPERTIES
    ResultEventually
