SPECIFICATION FairSpec

CONSTANTS
    Conns = {c1}
    Msgs = {m1, m2}
    MaxTurns = 2
    MaxHops = 1
    Bye = Bye
    None = None

    Stops = 2
    Ties = 1
    Failures = 1
    Crashes = 0
    Rewinds = 0
    Clears = 1
    Closes = 1
    Overlaps = 0
    Outages = 0
    MaxMix = 2
    Limit <- MCLimit

PROPERTIES
    StoppedEnds

CHECK_DEADLOCK FALSE
