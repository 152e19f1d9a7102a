SPECIFICATION Spec
CONSTANTS
    MaxMore = 1
    LagMax = 2
    Notices = {}
    Faults = {}
    LatePoke = TRUE
    EarlyVBlank = TRUE
INVARIANT
    EndIsLast
PROPERTY
    UnansweredIsFatal
CHECK_DEADLOCK FALSE
