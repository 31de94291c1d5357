CONSTANTS
    NetMax = 2
    Tables <- SomeTables
    CpuMod = 2
    Memory = {1, 2}
    MemTotal = 3
    MemMod = 8
    Undef = undef
SPECIFICATION FairSpec
CHECK_DEADLOCK FALSE
INVARIANTS
    CpuOfInterval
    TrafficOfInterval
    AnswerWithinTotal
PROPERTIES
    MemoryCatchesUp
