SPECIFICATION Spec
CONSTANTS
    MaxStarts = 2
    Ttys = {1}
    Callers = {c1, c2}
    MaxProcesses = 1
    EvictAbove = 0
    Cap = 1
PROPERTY OutputIsComplete
INVARIANT LiveProcessesAreListed
CHECK_DEADLOCK FALSE
