SPECIFICATION Spec
CONSTANTS
    MaxNodes = 4
    Cfgs <- MCCfgs
    NULL = NULL
    WILD = WILD
INVARIANTS
    TypeOK
    RpoOrder
    ChainsHoldDominators
    IdomExact
PROPERTIES
    DominatorsClimb
    Termination
CHECK_DEADLOCK FALSE
