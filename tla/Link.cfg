SPECIFICATION LinkSpec
CONSTANTS
    MaxTries = 3
    MaxCalls = 3
    MaxFaults = 2
    MaxTimeouts = 1
    MaxAborts = 1
CHECK_DEADLOCK FALSE
INVARIANT InStep
INVARIANT Truthful
PROPERTY CallEnds
