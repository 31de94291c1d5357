CONSTANTS
    demo = demo
    vmon = vmon
    node_state = node_state
    registry = registry
    TaskOrder <- LoadOrder
    Methods <- LoadMethods
    Nil = nil
    Prompt = TRUE
    Faults <- BindFaults
SPECIFICATION Spec
CHECK_DEADLOCK FALSE
INVARIANTS
    SvcIsSet
