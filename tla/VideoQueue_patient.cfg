SPECIFICATION Spec
CONSTANTS
    FullScreen = 2
    Compress = FALSE
    Patient = TRUE
PROPERTIES
    DrawnInOrder
    ScreensSettle
