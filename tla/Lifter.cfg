SPECIFICATION Spec
CONSTANTS
    MaxLen = 3
    Asms <- MCAsms
INVARIANTS
    TypeOK
    OffsetsDense
CHECK_DEADLOCK FALSE
