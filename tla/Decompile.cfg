SPECIFICATION Spec
CONSTANTS
    Depth = 6
    InitialCells = 40
    Garbage = {0, 9}
    NULL = NULL
    Sources <- MCSources
INVARIANTS
    Drawn
    FlowDrawn
PROPERTIES
    Returns
CHECK_DEADLOCK FALSE
