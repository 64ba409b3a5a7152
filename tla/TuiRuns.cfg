SPECIFICATION Spec
CONSTANTS
    MaxRuns = 2
    MaxSessions = 2
INVARIANT NothingWaitsInVain
INVARIANT EventsReachTheirSession
INVARIANT ContextIsTheLog
PROPERTY ExitCompletes
CHECK_DEADLOCK FALSE
