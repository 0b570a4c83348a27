SPECIFICATION Spec
CONSTANTS
    TaskTotal = 4
    Slice = 2
    Fifo = {}
    MaxNew = 2
CHECK_DEADLOCK FALSE
PROPERTY NoStarvation
