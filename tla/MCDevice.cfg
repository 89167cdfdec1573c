CONSTANTS
    Fds = {f1, f2}
    Ctxs = {c1, c2}
    HI_NULL = HI_NULL
    MAX_OPEN_COUNT = 2
    CountMod = 4
    LowDelayStatistics = TRUE
SPECIFICATION Spec
SYMMETRY Symmetry
INVARIANTS
    TypeOK
    UniqueIds
    CallbackSafe
    
CHECK_DEADLOCK FALSE
