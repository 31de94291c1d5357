CONSTANTS
    MaxCalls = 3
    IdHalf = 8
    Faults <- NoFaults
SPECIFICATION Spec
CHECK_DEADLOCK FALSE
INVARIANTS
    AnswerFindsCall
