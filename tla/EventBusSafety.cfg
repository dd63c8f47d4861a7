SPECIFICATION Spec

SYMMETRY Symmetry

CONSTANTS
    c1 = c1
    c2 = c2
    d1 = d1
    t1 = t1
    b1 = b1
    chunk = chunk
    thinking = thinking
    Low = Low
    Bulk = Bulk
    Maint = Maint
    None = None
    Publishers = {p, q}
    Events = {c1, d1, t1}
    Kinds = {chunk, thinking}
    Subs = {s}
    KindOf <- MCKindOf

    Crashes = 1
    Failures = 1
    Cancels = 1
    Maintenances = 1
    Closes = 1
    MaxMix = 2
    Limit <- MCLimit

INVARIANTS
    SeenIsDurable
    RiskHasCause
    BufferedIsScheduled
    OnePlace
    ChunkAccounted
    LockOwned

PROPERTIES
    LogSpec
