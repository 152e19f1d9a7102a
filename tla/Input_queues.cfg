SPECIFICATION Spec
CONSTANTS
    Touch = Touch
    Buttons = {A, Touch}
    MaxSpot = 1
INVARIANTS
    EdgesAreQueued
    NextReadingShowsIt
PROPERTIES
    InputSettles
