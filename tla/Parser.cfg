SPECIFICATION Spec
CONSTANTS
    Depth = 3
    MaxCount = 3
    TokenLists <- MCLists
INVARIANTS
    TypeOK
    PrintsBack
    StopsAtEnd
CHECK_DEADLOCK FALSE
