SPECIFICATION Spec
CONSTANTS
    MinObservations = 2
    MinDuration = 1
    MaxGap = 1
    Stamps = {1, 2, 4}
    MaxBuilds = 4
    MaxEpochs = 2
INVARIANT SavedIndexLoads
CHECK_DEADLOCK FALSE
