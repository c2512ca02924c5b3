SPECIFICATION Spec
CONSTANTS
    MaxNodes = 3
    Cfgs <- MCPlainCfgs
    NULL = NULL
    WILD = WILD
INVARIANTS
    ListComplete
CHECK_DEADLOCK FALSE
