SPECIFICATION MCSpec
CONSTANTS
    Warmup = 2
    EnterFrames = 2
    RecoveryFrames = 2
    MaxSinceGood = 2
    MaxRejects = 1
    Roles = {"REQUIRED"}
    IdentityInputs <- MCIdentityInputs
    EdgeGap = 1
    TTL = 1
    LiftFrames = 2
    Places = {0, 1, 2}
    MaxStep = 1
    HoldFrames = 2
    ExitFrames = 2
    Window = 2
    ExitMotion = 2
    ForceDrift = 2
    ConfirmFrames = 3
    CatchUpStep = 1
    CatchUpFrames = 2
    PayloadFrames <- MCPayloadFrames
    MotionFrames = 2
    Suspend = 3
    MaxMissed = 1
    Gone = 2
    Forget = 1
    Ttl = 2
    BoxHold = 3
    Jumps = 2
    JumpLimit = 2
    Rejects = 1
    MaxActive = 1
    Merge = 1
    Stop = 1
    Rest = 2
    Cap = 3
INVARIANTS GrantsAreEarned OnlyTrustedFramesWrite
PROPERTIES TrackerFollowsEvidence
CHECK_DEADLOCK FALSE
