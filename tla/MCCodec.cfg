CONSTANTS
    InBufs = {i1}
    OutBufs = {o1, o2}
    NULL = NULL
    MaxResize = 1
    MaxFlush = 1
    MaxEvents = 1
    MaxSession = 2
SPECIFICATION Spec
INVARIANTS
    TypeOK
    CallsAccepted
    ChecksHold
    OnePlace
    HeadsMatch
    FlagsOneWriter
CHECK_DEADLOCK FALSE
