CONSTANTS
    Submitters = {c1}
    Waiters = {w1}
    Resetters = {}
    SharedHandles = FALSE
    Modes = {"fence"}
    Faults = {"fence"}
    Slots = {s1, s2, s3}
    NULL = NULL
    MaxOpen = 1
    MaxHandle = 3
SPECIFICATION FairSpec
INVARIANTS
    HardwareRunsListed
    ChainIsList
PROPERTIES
    WaitAllMeansDone
    JobsComplete
    WaitAllReturns
CHECK_DEADLOCK FALSE
