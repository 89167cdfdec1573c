CONSTANTS
    Bufs = {b1, b2, b3}
    LastFrame = LastFrame
    HI_NULL = HI_NULL
SPECIFICATION FairSpec
INVARIANTS
    TypeOK
    UseCount
    PendingFlushHasStream
    OneOwner
    QueueLinkedOnce
    DecodeOrder
    FlushDrains
    LinkedLastFrameIsFlagged
PROPERTIES
    FlushAnswered
    ImplementsPort
CHECK_DEADLOCK TRUE
