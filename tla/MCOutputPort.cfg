CONSTANTS
    Bufs = {b1, b2}
    HI_NULL = HI_NULL
    MaxResize = 1
    CanPause = TRUE
SPECIFICATION Spec
SYMMETRY Symmetry
INVARIANTS
    TypeOK
    FrameCount
    OneFrameOwner
    FramesLinkedOnce
    FrameFlushDrains
PROPERTY ImplementsPort
CHECK_DEADLOCK FALSE
