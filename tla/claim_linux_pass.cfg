CONSTANTS
    Sources = 2
    BufMax = 4
    BufKept = 2
    MaxAsks = 2
    MaxTyped = 1
SPECIFICATION LinuxSpec
INVARIANTS
    PassMeansFlag
CHECK_DEADLOCK FALSE
