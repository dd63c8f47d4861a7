SPECIFICATION FairSpec

CONSTANTS
    a = a
    b = b
    c = c
    Tasks = {a, b, c}
    Priority <- MCPriority
    MaxConcurrent = 2
    MaxRetries = 1

    Cancels = 2
    StoreErrors = 1
    Restarts = 1
    MaxMix = 1
    Limit <- MCLimit

INVARIANTS
    RunsAfterDeps
    BlockedHasReason
    CancelHolds
    SlotsCoverRuns
    EscalatedAfterRetries

PROPERTIES
    ReadySettles
