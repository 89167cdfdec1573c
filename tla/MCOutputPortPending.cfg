CONSTANTS
    Bufs = {b1}
    HI_NULL = HI_NULL
    MaxResize = 0
    CanPause = TRUE
SPECIFICATION Spec
INVARIANT PendingFlushHasFrame
CHECK_DEADLOCK FALSE
