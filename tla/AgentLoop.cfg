SPECIFICATION FairSpec
CONSTANTS
    MaxTurns = 2
    RaisedTurns = 3
    MaxCalls = 2
    MaxStalls = 1
    MaxEmpty = 2
    HintAt = 1
    StopAt = 1
    MaxRework = 0
    MaxNudges = 1
    PreserveLast = 2
    PruneKeep = 0
    Protect = 1
    MinReclaim = 1
    Bodies = {"large"}
    Gated = TRUE
    Cancels = TRUE
INVARIANT RequestsReplay
INVARIANT TextShownOnce
INVARIANT BatchRunsAsTold
PROPERTY FreshResultsAreKept
PROPERTY RunEnds
CHECK_DEADLOCK FALSE
