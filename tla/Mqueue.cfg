SPECIFICATION Spec
CONSTANTS
    TaskTotal = 4
    HighestPriority = 0
    Senders = {1, 2}
    Slots = 2
    NonBlocking = {2}
    BasePriority <- OnePriority
    Policies = {"fifo", "rr"}
    MsgPrio = {0, 1}
    Lengths = {0, 1}
    TimeoutKinds = {"future"}
    MaxSends = 3
    MaxTimed = 1
CONSTRAINT OneOverlap
CHECK_DEADLOCK FALSE
INVARIANT CountMatches
INVARIANT NoForgotten
PROPERTY IsPrioQueue
