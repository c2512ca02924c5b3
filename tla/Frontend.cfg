SPECIFICATION FrontSpec
CONSTANTS
    Depth = 3
    InitialCells = 8
    Sources <- MCSources
INVARIANTS
    Delivered
    Accepted
    AllFreed
PROPERTIES
    Termination
CHECK_DEADLOCK FALSE
