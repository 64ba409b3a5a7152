SPECIFICATION FairSpec
CONSTANTS
    Requests = {r1, r2, r3}
    Size = 1
    MaxAttempts = 2
INVARIANT RunsAreHonest
PROPERTY PoolIsALease
PROPERTY StopEmptiesThePool
PROPERTY EveryRunReturns
CHECK_DEADLOCK FALSE
