SPECIFICATION Spec
CONSTANTS
    FullScreen = 2
    Compress = TRUE
    Patient = FALSE
INVARIANTS
    TypeOK
    OneEntryPerScreen
    SourceIsBusy
    FlipsAreSafe
CHECK_DEADLOCK FALSE
