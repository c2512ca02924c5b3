SPECIFICATION Spec
CONSTANTS
    MaxLen = 4
    Programs <- MCPrograms
INVARIANTS
    TypeOK
    ListFits
    CompactionLosesNoLeader
    StartsExact
PROPERTIES
    Implements
CHECK_DEADLOCK FALSE
