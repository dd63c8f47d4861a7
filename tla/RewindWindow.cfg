SPECIFICATION Spec

CONSTANTS
    w1 = w1
    w2 = w2
    d1 = d1
    doc = doc
    s1 = s1
    s2 = s2
    Nobody = Nobody
    Start = Start
    Absent = Absent
    Torn = Torn
    Outside = Outside
    Calls = {w1, d1}
    Edits = {w1, d1}
    Deletes = {d1}
    Risky = {}
    Paths = {doc}
    Existing = {doc}
    Sessions = {s1}
    PathOf <- MCPathOf
    SessionOf <- MCSessionOf
    MaxRequests = 1
    MaxPending = 1
    MaxCompleted = 1
    MaxRows = 3

    Faults = 0
    Ages = 1
    Expiries = 0
    Undos = 0
    Outsides = 0
    Checkpoints = 1
    MaxMix = 1
    Limit <- MCLimit

INVARIANTS
    RewindReverts

CHECK_DEADLOCK FALSE
