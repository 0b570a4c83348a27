SPECIFICATION Spec
CONSTANTS
    TaskTotal = 4
    HighestPriority = 1
    MaxBirths = 3
    MaxSignals = 1
    SleepKinds = {"future"}
CONSTRAINT Bound
CHECK_DEADLOCK FALSE
INVARIANT TypeOK
INVARIANT ExecIsTopReady
INVARIANT RunningIsTop
INVARIANT JoinReturnsStatus
INVARIANT NoLostJoin
