SPECIFICATION MCSpec
CONSTANTS
    Low = 2
    High = 6
    Hysteresis = 1
    VMin = 0
    VMax = 8
    ConfirmSamples = 2
    MinDuration = 2
    Stale = 1
    NaN = NaN
    Voltages = {NaN, 0, 3, 6, 7, 8}
    MaxSource = 5
    MaxWall = 2
    ObstacleFrames <- MCObstacleFrames
    WarnFrames = 2
    FarFrames = 2
    TrackGap = 2
    TrackStale = 2
    RequireStatic = FALSE
    BottomFrames <- MCBottomFrames
    Speed = 1
    TopGap = 2
    PointWindow = 1
    Enough = 2
    Hold = 2
    ResetAfter = 2
    Soft = 1
    JumpFrames = 2
    Settle = 5
    Bottoms <- MCBottoms
    GeometryInputs <- MCGeometryInputs
    ShapeWindow = 3
    ShapeFrames = 3
    Positive = 2
    Shrink = 2
    Expand = 2
    Disagreement = 1
    Mad = 1
    Roles = {"REQUIRED", "AUXILIARY"}
    Needed = 2
    MaxSamples = 2
    MaxAge = 2
    Timeout = 3
    MaxLag = 1
    MaxPhases = 2
    LiftFrames <- MCLiftFrames
    Places = {1, 2, 3}
    Approved = {3}
    Reach = 1
    Baseline = 2
    LiftConfirm = 2
    ThicknessConfirm = 2
INVARIANTS
    ValidIsFresh DecisiveIsRecognised WarningIsEarned 
PROPERTIES
    TransitionIsConfirmed ChatterIsRejected GeometryIsEarned
    
