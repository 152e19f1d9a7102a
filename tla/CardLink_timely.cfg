SPECIFICATION Spec
CONSTANTS
    MaxMore = 1
    LagMax = 1
    Notices = {"AUDIO_STATUS"}
    Faults = {"EXCEPTION", "ASSERT"}
    LatePoke = FALSE
    EarlyVBlank = FALSE
INVARIANTS
    TypeOK
    AskedOnce
    EveryCommandAnswered
    LinkInv
PROPERTIES
    ImplementsSendQueue
    GetsThrough
    FaultReported
CHECK_DEADLOCK FALSE
