SPECIFICATION Spec
CONSTANTS
    Ids = {i1, i2, i3}
    MaxSessions = 1
    Clients = {c1}
    MaxStarts = 4
INVARIANT RetentionIsSound
SYMMETRY IdSymmetry
CHECK_DEADLOCK FALSE
