SPECIFICATION MCSpec
CONSTANTS
    RailModes = {TRUE, FALSE}
    Capacity = 2
    MaxActive = 2
    MaxFrames = 3
    MaxLoops = 2
    MaxActives = 2
    MaxBoundaries = 1
    Roles = {"REQUIRED", "AUXILIARY"}
    Modes = {"V6", "LEGACY"}
    FilterFrames <- MCFilterFrames
    MinObservations = 2
    MinDuration = 1
    MaxGap = 1
    Stamps = {1, 2, 4}
    MaxBuilds = 4
    MaxEpochs = 2
    MaxRevision = 4
    MaxLines = 2
    Persistent = {TRUE, FALSE}
    SessionActive = 1
    MaxChanges = 3
CONSTRAINT FourChanges
INVARIANTS
    LoadedCargoStaysOut CellsAreEarned
     SessionIsConsistent
PROPERTIES
    CommitsAreKept
CHECK_DEADLOCK FALSE
