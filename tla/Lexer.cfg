SPECIFICATION Spec
CONSTANTS
    MaxLen = 5
    InitialCells = 2
    Texts <- MCTexts
INVARIANTS
    TypeOK
    CellsCounted
    TokensKept
    OneOwner
CHECK_DEADLOCK FALSE
