SPECIFICATION Spec
CONSTANTS
    TaskTotal = 3
    HighestPriority = 1
    BasePriority <- TwoPriorities
    Sizes = {1, 2}
    RxFifo = 2
    TxFifo = 1
    MaxBytes = 2
    MaxCalls = 3
    MaxSignals = 1
CHECK_DEADLOCK FALSE
INVARIANT SleeperServed
INVARIANT TrueCount
INVARIANT WorkConserving
PROPERTY WriteEnds
