CONSTANTS
    MaxCalls = 5
    IdHalf = 4
    Faults <- AllFaults
SPECIFICATION FairSpec
CHECK_DEADLOCK FALSE
INVARIANTS
    ResponseMeetsCall
PROPERTIES
    AnsweredIsCalled
