SPECIFICATION Spec
CONSTANTS
    Screens = {Lower}
    Steady = TRUE
    MaxIpc = 2
INVARIANTS
    TypeOK
    SleepsDark
    LightsAsAsked
PROPERTIES
    RequestsTakeEffect
    EndsAsAsked
CHECK_DEADLOCK FALSE
