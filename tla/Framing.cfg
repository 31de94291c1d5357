CONSTANTS
    Hdr = 2
    MaxBody = 2
    MaxMsgs = 4
    Faults <- AllFaults
SPECIFICATION FairSpec
CHECK_DEADLOCK FALSE
INVARIANTS
    NoOverrun
PROPERTIES
    ImplementsQueue
    EveryMessageTaken
