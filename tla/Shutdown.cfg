SPECIFICATION Spec
CONSTANTS
    Capacity = 1
    MaxFrames = 2
PROPERTY ShutdownEnds
CHECK_DEADLOCK FALSE
