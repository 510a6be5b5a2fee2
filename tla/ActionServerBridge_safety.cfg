SPECIFICATION Spec
CONSTANTS
    RosGoals = {r1, r2}
    HakGoals = {h1, h2}
    Actions = {navigate}
    ActionOf <- OneAction
    NoGoal = NoGoal
    MaxFeedback = 0
    MaxCancels = 1
    MaxFaults = 1
    MayClose = TRUE
SYMMETRY Symmetry
CHECK_DEADLOCK FALSE
INVARIANTS
    Correlated
    PairingInv
    DecisionsAwaited
    CancelAnswersAgree
PROPERTIES
    ContextOutlivesGoal
    RelaySpec
