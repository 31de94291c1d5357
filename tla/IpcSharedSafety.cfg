CONSTANTS
    Child = {c1, c2}
    Daemon = daemon
    DogLimit = 2
    DogMod = 4
    NumberMod = 3
    MaxStreams = 1
    MaxRestarts = 1
    SemUndo = TRUE
    Faults <- CrashFaults
SPECIFICATION Spec
CHECK_DEADLOCK FALSE
SYMMETRY ChildSymmetry
INVARIANTS
    TypeOK
    MutualExclusion
    AtMostOneChild
    StreamCount
    UndoFreesLock
