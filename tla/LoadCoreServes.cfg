CONSTANTS
    demo = demo
    vmon = vmon
    node_state = node_state
    registry = registry
    TaskOrder <- LoadOrder
    Methods <- LoadMethods
    Nil = nil
    Prompt = FALSE
    Faults <- AllFaults
SPECIFICATION FairSpec
CHECK_DEADLOCK FALSE
INVARIANTS
    RegistrationKept
    KnownIsServed
PROPERTIES
    RequestIsAnswered
    TasksRegister
