SPECIFICATION FairSpec
CONSTANTS
    Thread = {t1, t2, t3}
    Seconds = 2
    Second = 2
    Margin = 1
    USleeps = {1, 2}
    Sleeps = {1}
    Deadlines <- Ahead
    LateIrq = TRUE
    Horizon = 9
CHECK_DEADLOCK FALSE
INVARIANT TypeOK
INVARIANT MatchCoversSleepers
PROPERTY NoEarlyWake
PROPERTY SleepersWake
