SPECIFICATION FairSpec
CONSTANTS
    Tasks = {t1, t2}
    Killers = {k1, k2}
    NoTask = NoTask
    KillMayFail = TRUE
    DiskMayFail = TRUE
    MaxLoads = 1
INVARIANT RecordsAreTrue
PROPERTY FinalsAreNotRevived
PROPERTY KillsComplete
CHECK_DEADLOCK FALSE
