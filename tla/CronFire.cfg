SPECIFICATION FairSpec
CONSTANTS
    Jobs = {j1}
    Forever = {s1}
    Once = {s2}
    Commands = {c1}
    Kinds = {"pause", "resume", "remove"}
    Crashes = TRUE
    MaxTime = 3
INVARIANT NoSlotFiresTwice
 
PROPERTY DueJobsFire
CHECK_DEADLOCK FALSE
