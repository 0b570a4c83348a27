SPECIFICATION FileSpec
CONSTANTS
    Segs = {0, 1}
    Blocks = {1,2,3}
    MaxItems = 3
    MaxCrashes = 2
    MaxBad = 2
CHECK_DEADLOCK FALSE
INVARIANT OldOrNew
INVARIANT OneVersion
INVARIANT NoLeak
INVARIANT Mountable
