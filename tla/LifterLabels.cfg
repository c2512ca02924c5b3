SPECIFICATION Spec
CONSTANTS
    MaxLen = 3
    Asms <- MCAsms
INVARIANTS
    LabelsKept
CHECK_DEADLOCK FALSE
