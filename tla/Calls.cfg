CONSTANTS
    UIntMod = 16
    Faults = {"alloc", "thread", "new", "connection"}
SPECIFICATION FairSpec
CHECK_DEADLOCK FALSE
INVARIANTS
    ContextOwned
    AnswerIsHandlers
    CallAccounted
PROPERTIES
    CallEnds
