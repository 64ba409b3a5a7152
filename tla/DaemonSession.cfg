SPECIFICATION Spec
CONSTANTS
    Clients = {c1, c2}
    MaxBuffer = 1
    ChanCap = 2
    MaxLines = 4
INVARIANT ClientsSeeTheStream
PROPERTY ReadersReachTheEnd
CHECK_DEADLOCK FALSE
