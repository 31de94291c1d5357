CONSTANTS
    Sessions <- SomeSessions
    MaxErr = 1
    KeySets <- KeysPressed
    MaxTyped = 3
    Disks = {0, 1}
    Mount = {root, home}
    Listed = {1, 2, 3}
    MAX_SNAPS = 2
    ARGSMAX = 2
    IntBits = 4
    Lines <- SomeLines
    DISKMAX = 3
    Groups <- SomeGroups
    Nmon = 0
    Pids = {1, 2}
    Growth = 1
    MaxSnap = 3
    MaxLoops = 3
    LoopCap = 4
    MaxSecs = 1
SPECIFICATION AllSpec
CHECK_DEADLOCK FALSE
INVARIANTS
    RateIsOfInterval
    
    KeysTables
    DisksCompared
    ProcsInBounds
    SnapKilled
PROPERTIES
    ErrorsFade
    KeysAreRead
    UsrStops
