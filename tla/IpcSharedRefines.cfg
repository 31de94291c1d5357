CONSTANTS
    Child = {c1, c2}
    Daemon = daemon
    DogLimit = 3
    DogMod = 4
    NumberMod = 4
    MaxStreams = 2
    MaxRestarts = 0
    SemUndo = FALSE
    Faults <- RunFaults
SPECIFICATION Spec
CHECK_DEADLOCK FALSE
PROPERTIES
    ImplementsWatchdog
