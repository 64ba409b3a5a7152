SPECIFICATION Spec
CONSTANTS
    Files = {f1}
    Contents = {c1}
    Absent = Absent
    NoProc = NoProc
    Procs = {tui, exec}
    Agents = {tui, exec}
    Batchers = {tui}
    Rewinders = {tui}
    Others = {tui, exec}
    Forkers = {exec}
    Titles = {"a"}
    ShortWrites = TRUE
    MaxLines = 3
    MaxFaults = 2
INVARIANT EventsAreKept
INVARIANT WritersAreSerialised
INVARIANT BlobsAreKept
 
CHECK_DEADLOCK FALSE
