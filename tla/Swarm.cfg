SPECIFICATION FairSpec
CONSTANTS
    Teams = {t1}
    MaxTeamSize = 1
    MaxMemberRestarts = 1
    LaunchMayFail = TRUE
    MaxIds = 3
    Callers = {c1}
    Waiters = {w1}
INVARIANT TypeOK
INVARIANT SlotsAreSound
INVARIANT OpenTasksHaveACustodian
INVARIANT NoMissedSettle
PROPERTY TerminalIsFinal
PROPERTY TeamsAreLeases
PROPERTY CloseSettlesEveryTask
