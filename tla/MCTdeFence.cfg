CONSTANTS
    Submitters = {c1, c2}
    Waiters = {}
    Resetters = {}
    SharedHandles = FALSE
    Modes = {"fence"}
    Faults = {}
    Slots = {s1, s2}
    NULL = NULL
    MaxOpen = 2
    MaxHandle = 2
SPECIFICATION Spec
INVARIANT FenceAfterJob
CHECK_DEADLOCK FALSE
