SPECIFICATION MCSpec
CONSTANTS
    Capacity = 1
    MaxFrames = 2
    RailModes = {TRUE, FALSE}
    MinKeyframes = 2
    Spacing = 1
    Interval = 2
    MaxKeyframes = 2
    MaxActive = 1
    MaxIds = 4
    MaxBoundaries = 1
INVARIANTS FlushIsLast 
PROPERTIES CleanConverges ResultsAreTaken DetectionIsServed
CHECK_DEADLOCK FALSE
