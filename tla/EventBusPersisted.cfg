SPECIFICATION Spec

CONSTANTS
    c1 = c1
    c2 = c2
    d1 = d1
    t1 = t1
    b1 = b1
    chunk = chunk
    thinking = thinking
    Low = Low
    Bulk = Bulk
    Maint = Maint
    None = None
    Publishers = {p}
    Events = {t1, c1}
    Kinds = {chunk}
    Subs = {s}
    KindOf <- MCKindOf

    Crashes = 0
    Failures = 0
    Cancels = 0
    Maintenances = 1
    Closes = 0
    MaxMix = 1
    Limit <- MCLimit

INVARIANTS
    SubscribersSeeOnlyPersisted
