SPECIFICATION FlashSpec
CONSTANTS
    Sections = 2
    E = 4
    ScratchEntries = 2
    Files = {1, 2}
    MaxWrites = 7
    MaxCrashes = 2
CONSTRAINT Bound
CHECK_DEADLOCK FALSE
INVARIANT Durable
INVARIANT Mountable
INVARIANT NothingInRam
