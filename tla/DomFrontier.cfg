SPECIFICATION Spec
CONSTANTS
    MaxNodes = 4
    Cfgs <- MCCfgs
    NULL = NULL
INVARIANTS
    TypeOK
    RunnerBelowGoal
    FrontierSound
    FrontierComplete
PROPERTIES
    Termination
CHECK_DEADLOCK FALSE
