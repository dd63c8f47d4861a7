SPECIFICATION FairSpec

CONSTANTS
    j1 = j1
    j2 = j2
    None = None
    Jobs = {j1, j2}

    Creates = 3
    Edits = 1
    Elapses = 3
    Raises = 1
    Saves = 1
    Unread = 1
    Crashes = 1
    Stops = 1
    MaxMix = 2
    Limit <- MCLimit

INVARIANTS
    EditsStand
    OnceRunsOnce
    FileFollows

PROPERTIES
    DueGetsRun

CHECK_DEADLOCK FALSE
