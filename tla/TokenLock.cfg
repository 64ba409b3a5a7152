SPECIFICATION FairSpec
CONSTANTS
    Procs = {p1, p2, p3}
    MaxAcquires = 2
    MaxCrashes = 1
    DiskMayFail = TRUE
 
PROPERTY CrashedHolderIsReplaced
CHECK_DEADLOCK FALSE
