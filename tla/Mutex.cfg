SPECIFICATION Spec
CONSTANTS
    TaskTotal = 4
    HighestPriority = 1
    Mutexes <- OneMutex
    Conds <- OneCond
    Ceiling <- TopCeiling
    Recursive = {1}
    MaxLocks = 2
    BasePriority <- Mixed
    TimeoutKinds = {"future", "past"}
    MaxSignals = 1
    MaxWaits = 2
CONSTRAINT Bound
CHECK_DEADLOCK FALSE
INVARIANT TypeOK
INVARIANT HolderOwnsUndisturbed
INVARIANT NoWaitOnFree
INVARIANT NoOrphan
INVARIANT PriorityProtocol
INVARIANT WorkConserving
PROPERTY IsHandOffLock
