SPECIFICATION Spec
CONSTANTS
    MaxFeedback = 0
    MaxCancels = 2
    MaxFaults = 0
    MayRuntimeCancel = FALSE
    MayClose = FALSE
CHECK_DEADLOCK FALSE
INVARIANTS
    ResultReflected
