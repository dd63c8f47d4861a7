SPECIFICATION Spec

CONSTANTS
    Conns = {c1}
    Msgs = {m1, m2}
    MaxTurns = 2
    MaxHops = 1
    Bye = Bye
    None = None

    Stops = 0
    Ties = 0
    Failures = 1
    Crashes = 1
    Rewinds = 0
    Clears = 0
    Closes = 0
    Overlaps = 0
    Outages = 0
    MaxMix = 2
    Limit <- MCLimit

INVARIANTS
    FinishedKept

CHECK_DEADLOCK FALSE
