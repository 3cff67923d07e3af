SPECIFICATION MCSpec
CONSTANTS
    a = a
    b = b
    near = near
    far = far
    Authorities = {a, b}
    NoAuthority = NoAuthority
    Places = {near, far}
    HazardConfirmFrames = 3
    ClearConfirmFrames = 2
    MaxGap = 1
    MaxStamp = 4
    Frames <- MCFrames
    LoadFrames <- MCLoadFrames
    Roles = {"REQUIRED"}
    Window = 2
    FrameGap = 3
    MaxActive = 1
    Cooldown = 2
    MaxTracks = 2
    MaxEpochs = 2
    SwingInputs <- MCSwingInputs
    SwingGap = 1
    EvidenceHold = 1
    MinHold = 2
    EndConfirm = 3
    SkewConfirm = 1
    MinHistory = 1
    SkewMature = 2
    Cap = 4
    Messages <- MCMessages
    Hold = 2
    MaxLost = 1
    SwitchConfirm = 3
    MinConfirm = 2
    KeepSuspended = 2
INVARIANTS StatusReachesAlarm  ReviewEnds
PROPERTIES
    PublishedIffBacked  GreenBoxIsBacked
CHECK_DEADLOCK FALSE
