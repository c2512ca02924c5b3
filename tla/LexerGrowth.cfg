SPECIFICATION Spec
CONSTANTS
    MaxLen = 3
    InitialCells = 2
    Texts <- MCTexts
INVARIANTS
    NewCellsInitialised
CHECK_DEADLOCK FALSE
