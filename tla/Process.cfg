SPECIFICATION Spec
CONSTANTS
    TaskTotal = 4
    HighestPriority = 1
    MaxPids = 2
    MaxThreads = 1
    MaxSignals = 2
CONSTRAINT Bound
CHECK_DEADLOCK FALSE
INVARIANT NoMissedChild
INVARIANT ReapedOnce
INVARIANT RightTasksRun
