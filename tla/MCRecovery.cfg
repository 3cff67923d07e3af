SPECIFICATION MCSpec
CONSTANTS
    Registration = {"r1"}
    Others = {"o1"}
    Keyframes = {"k1", "k2"}
    DiskLow = {TRUE, FALSE}
    Roles = {"REQUIRED", "AUXILIARY"}
    Places = {1, 2}
    Detections <- LockDetections
    Progress = 2
    Absolute = 2
    Hold = 1
    Clear = 1
    Rearm = 1
    Soft = 1
    Suspension = 2
    Switch = 2
    Gaps = 1
    Reacquire = 2
    TriggerFrames = 2
    GlobalTriggerFrames = 3
    RequiredConfirmations = 2
    RequestInterval = 2
    CooldownFrames = 2
    LocalMaxAge = 1
    GlobalMaxAge = 2
    Corrections = {"a", "b"}
INVARIANTS NoPoseWithoutEvidence
PROPERTIES
    LockIsMeasured RearmEnds ForcedSearchStarts
    TilesKeepKeyframes ImplementsStore
