SPECIFICATION Spec
CONSTANTS
    MaxLen = 4
    Programs <- MCPrograms
    NULL = NULL
INVARIANTS
    TypeOK
    NoAbort
    EdgeLedger
    CfgExact
    EdgesSpan
    FlowPreserved
PROPERTIES
    Termination
    Implements
CHECK_DEADLOCK FALSE
