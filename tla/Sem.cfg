SPECIFICATION Spec
CONSTANTS
    TaskTotal = 5
    HighestPriority = 1
    Posters = {1, 2}
    InitialValue = 1
    BasePriority <- OnePosterHigh
    TimeoutKinds = {"future", "past"}
    MaxPosts = 2
    MaxTimed = 1
    MaxSignals = 1
CONSTRAINT OneMishap
CHECK_DEADLOCK FALSE
INVARIANT NoDoubleGrant
INVARIANT NoLostPost
