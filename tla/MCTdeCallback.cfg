CONSTANTS
    Submitters = {c1}
    Waiters = {w1}
    Resetters = {}
    SharedHandles = FALSE
    Modes = {"callback"}
    Faults = {"scarce"}
    Slots = {s1, s2}
    NULL = NULL
    MaxOpen = 2
    MaxHandle = 2
SPECIFICATION FairSpec
PROPERTY WaitAllReturns
CHECK_DEADLOCK FALSE
