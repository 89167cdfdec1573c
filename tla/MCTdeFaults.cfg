CONSTANTS
    Submitters = {c1}
    Waiters = {w1, w2}
    Resetters = {w1}
    SharedHandles = FALSE
    Modes = {"callback", "fence"}
    Faults = {"scarce", "dump"}
    Slots = {s1, s2}
    NULL = NULL
    MaxOpen = 2
    MaxHandle = 2
SPECIFICATION Spec
SYMMETRY Symmetry
INVARIANTS
    TypeOK
    WaitedJobIsKept
    SubmittedIsOwned
CHECK_DEADLOCK FALSE
