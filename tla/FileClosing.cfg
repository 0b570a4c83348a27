SPECIFICATION FileSpec
CONSTANTS
    Segs = {0, 1}
    Blocks = {1,2,3}
    MaxItems = 2
    MaxCrashes = 1
    MaxBad = 4
CHECK_DEADLOCK FALSE
INVARIANT AlwaysOldOrNew
