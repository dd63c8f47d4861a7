SPECIFICATION Spec

CONSTANTS
    w1 = w1
    w2 = w2
    d1 = d1
    doc = doc
    s1 = s1
    s2 = s2
    Nobody = Nobody
    Start = Start
    Absent = Absent
    Torn = Torn
    Outside = Outside
    Calls = {w1, w2, d1}
    Edits = {w1, w2, d1}
    Deletes = {d1}
    Risky = {d1}
    Paths = {doc}
    Existing = {doc}
    Sessions = {s1, s2}
    PathOf <- MCPathOf
    SessionOf <- MCSessionOf
    MaxRequests = 2
    MaxPending = 1
    MaxCompleted = 1
    MaxRows = 3

    Faults = 1
    Ages = 1
    Expiries = 1
    Undos = 1
    Outsides = 1
    Checkpoints = 1
    MaxMix = 1
    Limit <- MCLimit

INVARIANTS
    TypeOK
    
    
    RewindRestores
    CopyUntilBack

CHECK_DEADLOCK FALSE
