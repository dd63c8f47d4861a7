SPECIFICATION Spec

SYMMETRY Symmetry

CONSTANTS
    Conns = {c1, c2}
    Msgs = {m1, m2, m3}
    MaxTurns = 2
    MaxHops = 1
    Bye = Bye
    None = None

    Stops = 1
    Ties = 0
    Failures = 0
    Crashes = 1
    Rewinds = 1
    Clears = 1
    Closes = 1
    Overlaps = 1
    Outages = 0
    MaxMix = 1
    Limit <- MCLimit

CONSTRAINT OneGoesOn

INVARIANTS
    TypeOK
    TakenOnce
    IdleIsClean

CHECK_DEADLOCK FALSE
