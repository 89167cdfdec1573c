CONSTANTS
    InBufs = {i1}
    OutBufs = {o1}
    NULL = NULL
    MaxResize = 2
    MaxFlush = 1
    MaxEvents = 2
    MaxSession = 1
SPECIFICATION FairSpec
PROPERTIES
    RequestsAnswered
    ReconfigCompletes
    OutputFlows
CHECK_DEADLOCK FALSE
