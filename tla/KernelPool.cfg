SPECIFICATION FairSpec

CONSTANTS
    c1 = c1
    c2 = c2
    c3 = c3
    a = a
    b = b
    c = c
    None = None
    Calls = {c1, c2, c3}
    Sessions = {a, b, c}
    Asks <- MCAsks
    MaxKernels = 2

    Resets = 1
    Cancels = 1
    Hangs = 1
    Errors = 1
    Deaths = 1
    Unready = 1
    Lives = 2
    MaxMix = 1
    Limit <- MCLimit

INVARIANTS
    KernelAccounted
    OneNamespace
    CapHolds
    StrayThreadHasCause

PROPERTIES
    CallEnds

CHECK_DEADLOCK FALSE
