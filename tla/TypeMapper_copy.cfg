SPECIFICATION Spec
CONSTANTS
    Messages <- MCMessages
    Values <- MCValues
    Foreign <- MCForeign
    Targets <- MCTargets
CHECK_DEADLOCK FALSE
INVARIANTS
    RoundTrip
    NoForeignObject
    OctetsAreBytes
