SPECIFICATION FairSpec

CONSTANTS
    c1 = c1
    c2 = c2
    d1 = d1
    t1 = t1
    b1 = b1
    chunk = chunk
    thinking = thinking
    Low = Low
    Bulk = Bulk
    Maint = Maint
    None = None
    Publishers = {p}
    Events = {c1, c2, t1, b1}
    Kinds = {chunk}
    Subs = {s}
    KindOf <- MCKindOf

    Crashes = 0
    Failures = 1
    Cancels = 1
    Maintenances = 0
    Closes = 0
    MaxMix = 1
    Limit <- MCLimit

INVARIANTS
    HandledOnce
    PublisherOrder

PROPERTIES
    ChunkSettles
    PublishEnds
