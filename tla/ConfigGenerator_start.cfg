SPECIFICATION Spec
CONSTANTS
    NoType = NoType
    RosInstalled <- MCRosInstalled
    PduInstalled <- MCPduInstalled
    OffsetFiles <- MCOffsetFiles
    Nodes = {p1, p2}
    Initials <- MCInitials
    Sources <- MCSources
    NoFile = NoFile
    Torn = Torn
    MaxEdits = 1
    MaxGens = 3
    MaxFaults = 1
SYMMETRY MCSymmetry
CHECK_DEADLOCK FALSE
INVARIANTS
    ManifestWhole
    ManifestUsable
    NoStaleFiles
    UndisturbedStartServes
