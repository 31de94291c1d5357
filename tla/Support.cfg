CONSTANTS
    Thread = {t1, t2}
    MaxDepth = 2
    Pid = {c1, c2, c3}
    Heads = {"h1", "h2"}
    Elems <- Elements
    Key <- KeyOf
SPECIFICATION AllSpec
CHECK_DEADLOCK FALSE
INVARIANTS
    LinksAreLists
    ZombiesAreMergedSignals
    OneChildUnlessExecLate
PROPERTIES
    TimedWaitReturns
