CONSTANTS
    Child = {c1, c2}
    Daemon = daemon
    DogLimit = 2
    DogMod = 4
    NumberMod = 2
    MaxStreams = 1
    MaxRestarts = 0
    SemUndo = TRUE
    Faults <- OpenFaults
SPECIFICATION FairSpec
CHECK_DEADLOCK FALSE
PROPERTIES
    ChildRecovers
    HungChildIsKilled
    StopReturns
    CountIsReported
