SPECIFICATION Spec

SYMMETRY Symmetry

CONSTANTS
    Conns = {c1}
    Msgs = {m1, m2}
    MaxTurns = 2
    MaxHops = 2
    Bye = Bye
    None = None

    Stops = 2
    Ties = 1
    Failures = 1
    Crashes = 1
    Rewinds = 1
    Clears = 0
    Closes = 0
    Overlaps = 0
    Outages = 1
    MaxMix = 2
    Limit <- MCLimit

INVARIANTS
    HistoryPaired
    StopReported
    MessageKept
    IdleIsStored
    FinishedStored

CHECK_DEADLOCK FALSE
