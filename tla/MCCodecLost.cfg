CONSTANTS
    InBufs = {i1}
    OutBufs = {o1}
    NULL = NULL
    MaxResize = 1
    MaxFlush = 0
    MaxEvents = 1
    MaxSession = 1
SPECIFICATION Spec
INVARIANT NoBufferLost
CHECK_DEADLOCK FALSE
