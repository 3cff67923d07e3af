--------------------------- MODULE MCMeasurement ---------------------------
(* The filters between the sensors and what is decided from them: the      *)
(* gravity signal, obstacle tracks, the bottom and the geometry of the     *)
(* cargo, and what a load is compared with. Each behaviour is one          *)
(* component's: comp is chosen once and the variables of the others stay at*)
(* their initial values, so that the state spaces add up instead of        *)
(* multiplying.                                                            *)
EXTENDS HookLoadFilter, FiniteSets

CONSTANTS
    ObstacleFrames, WarnFrames, FarFrames, TrackGap,      \* ObstacleTracker
    TrackStale, RequireStatic,
    BottomFrames, Speed, TopGap, PointWindow, Enough, Hold,    \* CargoBottom
    ResetAfter, Soft, JumpFrames, Settle, Bottoms,
    GeometryInputs, ShapeWindow, ShapeFrames, Positive,   \* CargoGeometry
    Shrink, Expand, Disagreement, Mad,
    Roles, Needed, MaxSamples, MaxAge, Timeout,           \* OriginHeight
    MaxLag, MaxPhases,
    LiftFrames, Places, Approved, Reach, Baseline,        \* LiftOrigin
    LiftConfirm, ThicknessConfirm

\* The observations of one frame: an obstacle at place p, seen under pose
\* authority a, far, near, or so close that it touches the cargo.
Seen(p, a, r) ==
    [place |-> p, auth |-> a, range |-> r, valid |-> TRUE,
     eligible |-> r # "far", sparse |-> FALSE, certified |-> FALSE,
     external |-> FALSE]
MCObstacleFrames ==
    {<<>>, <<Seen(1, 1, "far")>>, <<Seen(1, 1, "near")>>,
     <<Seen(2, 1, "near")>>, <<Seen(1, 2, "near")>>,
     <<Seen(1, 1, "embedded")>>,
     <<[Seen(1, 1, "near") EXCEPT !.sparse = TRUE]>>,
     <<[Seen(1, 1, "near") EXCEPT !.valid = FALSE]>>,
     <<[Seen(2, 2, "near") EXCEPT !.certified = TRUE, !.external = TRUE]>>,
     <<Seen(1, 1, "near"), Seen(2, 1, "near")>>,
     <<Seen(1, 1, "near"), Seen(3, 1, "near")>>}

\* What a frame says of the cargo's bottom.  -9 is CargoBottom's None.
Frozen == [source |-> "FROZEN", thick |-> 0]
MapDiff == [source |-> "MAP_DIFF", thick |-> 1]
Bottom(dt, top, sup, pts, low, pri) ==
    [dt |-> dt, track |-> 1, auth |-> 1, top |-> top, support |-> sup,
     points |-> pts, low |-> low, priors |-> pri, pose |-> low]
Unseen(dt) == Bottom(dt, -9, FALSE, "none", 0, {Frozen})
Top(z) == Bottom(1, z, TRUE, "strong", z, {Frozen})
MCBottomFrames ==
    {Unseen(1), Unseen(3), Top(0), Top(3),
     Bottom(1, 0, FALSE, "weak", 0, {Frozen}),
     [Top(3) EXCEPT !.dt = 2], [Top(3) EXCEPT !.dt = 0],
     [Top(0) EXCEPT !.auth = 2], [Top(3) EXCEPT !.track = 2],
     [Top(0) EXCEPT !.track = 0], Bottom(1, 3, FALSE, "weak", 3, {Frozen}),
     Bottom(1, 3, TRUE, "none", 3, {Frozen, MapDiff})}

\* Frames of the geometry: plain, with a lock, and with a static pair.
Plain ==
    [lock |-> "keep", newLen |-> 0, newHeight |-> 0, gap |-> FALSE,
     life |-> FALSE, pose |-> "live", len |-> 2, quality |-> 2, floor |-> 0,
     static |-> 0, live |-> 2, side |-> FALSE, formal |-> TRUE,
     current |-> TRUE, stable |-> TRUE, sure |-> TRUE]
Locked(i) == [i EXCEPT !.lock = "new", !.newLen = 2, !.newHeight = 2]
Pair == [Plain EXCEPT !.static = 2, !.side = TRUE]
MCGeometryInputs ==
    {Plain, Locked(Plain), Locked(Pair), Pair,
     [Plain EXCEPT !.lock = "lost", !.pose = "associated", !.quality = 1],
     [Plain EXCEPT !.life = TRUE, !.lock = "lost", !.pose = "none"],
     [Pair EXCEPT !.gap = TRUE], [Pair EXCEPT !.live = 3],
     [Pair EXCEPT !.sure = FALSE], [Pair EXCEPT !.pose = "none"],
     [Pair EXCEPT !.live = 0], [Pair EXCEPT !.static = 1, !.live = 4],
     [Pair EXCEPT !.stable = FALSE, !.static = 0],
     [Plain EXCEPT !.len = 4, !.quality = 3],
     [Plain EXCEPT !.len = 3, !.quality = 3], [Plain EXCEPT !.len = 4],
     [Plain EXCEPT !.len = 1],
     [Plain EXCEPT !.len = 1, !.formal = FALSE, !.quality = 1],
     [Plain EXCEPT !.len = 1, !.floor = 3],
     [Plain EXCEPT !.len = 0, !.current = FALSE, !.live = 0]}

\* The bottoms that are followed.
MCBottoms == -4 .. 4

\* Frames of the lift binder.  0 is LiftOrigin's None.
MCLiftFrames ==
    {f \in [gravity : {"EMPTY", "LOADED", "UNKNOWN"}, at : 0 .. 3,
            gap : BOOLEAN, localized : BOOLEAN, top : {"rest", "lifted"},
            revealed : BOOLEAN, retired : BOOLEAN] :
        /\ f.gravity = "LOADED" =>
              f.localized /\ (f.gap => f.top = "lifted" /\ ~f.retired)
        /\ f.gravity # "LOADED" => f.top = "rest" /\ ~f.revealed /\ ~f.retired
        /\ f.gravity = "UNKNOWN" => ~f.gap /\ f.localized
        /\ ~f.localized => ~f.gap}

\* What a frame of the obstacle tracker brings.
Observations ==
    [place : Int, auth : Nat, range : {"far", "near", "embedded"},
     valid : BOOLEAN, eligible : BOOLEAN, sparse : BOOLEAN,
     certified : BOOLEAN, external : BOOLEAN]

ASSUME ObstacleAssumption ==
    /\ ObstacleFrames \subseteq Seq(Observations)
    /\ WarnFrames \in Nat \ {0} /\ FarFrames \in Nat \ {0}

\* The samples an origin needs, and times.
ASSUME HeightAssumption ==
    /\ Needed \in Nat \ {0}
    /\ MaxAge \in Nat /\ Timeout \in Nat /\ MaxLag \in Nat

\* What a frame says of the cargo's bottom: at most one height prior of each
\* source (CargoBottomObservation has one member for each).
Priors == [source : {"FROZEN", "MAP_DIFF", "MAP_STATIC", "ORIGIN"}, thick : Int]
BottomObservations ==
    [dt : Nat, track : Nat, auth : Nat, top : Int, support : BOOLEAN,
     points : {"none", "weak", "strong"}, low : Int, priors : SUBSET Priors,
     pose : Int]

\* One tick is no gap that resets the fusion; Settle, the frames after which
\* a rest must show, covers both gates.
ASSUME BottomAssumption ==
    /\ BottomFrames \subseteq BottomObservations
    /\ \A o \in BottomFrames : \A p, q \in o.priors :
         p.source = q.source => p = q
    /\ Speed \in Nat /\ TopGap \in Nat /\ Soft \in Nat
    /\ JumpFrames \in Nat \ {0} /\ ResetAfter \in Nat \ {0}
    /\ Settle \in Nat /\ TopGap + JumpFrames <= Settle

\* A frame of the geometry.
GeometryFrames ==
    [lock : {"keep", "lost", "new"}, newLen : Nat, newHeight : Nat,
     gap : BOOLEAN, life : BOOLEAN, pose : {"live", "associated", "none"},
     len : Nat, quality : 0 .. 3, floor : Nat, static : Nat, live : Nat,
     side : BOOLEAN, formal : BOOLEAN, current : BOOLEAN, stable : BOOLEAN,
     sure : BOOLEAN]

ASSUME GeometryAssumption ==
    /\ GeometryInputs \subseteq GeometryFrames
    /\ ShapeWindow \in Nat \ {0} /\ ShapeFrames \in Nat \ {0}
    /\ Shrink \in Nat \ {0} /\ Expand \in Nat \ {0}

VARIABLES comp,
    tracks, verdict, seen, origins,
    formal, bottomFusion, bottomOut, log,
    lock, geometryFusion, pairs, recent,
    role, gravity, heightSamples, heightPending, frame, track,
    known, node, binder, load

obstacleVars == <<tracks, verdict, seen, origins>>
bottomVars == <<formal, bottomFusion, bottomOut, log>>
geometryVars == <<lock, geometryFusion, pairs, recent>>
heightVars == <<role, gravity, heightSamples, heightPending, frame, track>>
liftVars == <<known, node, binder, load>>

O == INSTANCE ObstacleTracker WITH
        Frames <- ObstacleFrames, Confirm <- WarnFrames, Far <- FarFrames,
        Gap <- TrackGap, Stale <- TrackStale
B == INSTANCE CargoBottom WITH
        Frames <- BottomFrames, Gap <- TopGap, Window <- PointWindow,
        Stale <- ResetAfter, Confirm <- JumpFrames, Range <- Bottoms,
        fusion <- bottomFusion, out <- bottomOut
G == INSTANCE CargoGeometry WITH
        Inputs <- GeometryInputs, Window <- ShapeWindow,
        Confirm <- ShapeFrames, fusion <- geometryFusion
H == INSTANCE OriginHeight WITH
        samples <- heightSamples, pending <- heightPending
L == INSTANCE LiftOrigin WITH
        Frames <- LiftFrames, Lift <- LiftConfirm,
        Thickness <- ThicknessConfirm

MCInit ==
    /\ Init
    /\ O!Init /\ B!Init /\ G!Init /\ H!Init /\ L!Init
    /\ comp \in {"hook", "obstacle", "bottom", "geometry", "height", "lift"}
    /\ comp # "height" => role = "REQUIRED"
    /\ comp # "lift" => known = {}

MCNext ==
    \/ /\ comp = "hook" /\ Next
       /\ UNCHANGED <<comp, obstacleVars, bottomVars,
                      geometryVars, heightVars, liftVars>>
    \/ /\ comp = "obstacle" /\ O!Next
       /\ UNCHANGED <<comp, vars, bottomVars, geometryVars,
                      heightVars, liftVars>>
    \/ /\ comp = "bottom" /\ B!Next
       /\ UNCHANGED <<comp, vars, obstacleVars,
                      geometryVars, heightVars, liftVars>>
    \/ /\ comp = "geometry" /\ G!Next
       /\ UNCHANGED <<comp, vars, obstacleVars, bottomVars,
                      heightVars, liftVars>>
    \/ /\ comp = "height" /\ H!Next
       /\ UNCHANGED <<comp, vars, obstacleVars, bottomVars,
                      geometryVars, liftVars>>
    \/ /\ comp = "lift" /\ L!Next
       /\ UNCHANGED <<comp, vars, obstacleVars, bottomVars,
                      geometryVars, heightVars>>

MCSpec ==
    /\ MCInit
    /\ [][MCNext]_<<comp, vars, obstacleVars, bottomVars, geometryVars,
                    heightVars, liftVars>>

-----------------------------------------------------------------------------
\* A formal warning names an obstacle seen and validated in each of the last
\* frames under the present pose authority (CargoObstacleTracker).
WarningIsEarned == O!WarningIsEarned

\* The bottom neither jumps up on too little evidence nor stays wrong
\* (CargoBottomFusion behind the formal vertical gate).
BottomIsSound == B!BottomIsSound

\* Neither the authority of a geometry nor its frozen size runs ahead of the
\* measurements of this cargo (CargoGeometryFusion).
GeometryIsEarned == G!GeometryIsEarned

\* What a load is compared with to measure it and to prove its lift is older
\* than the load: the hook height of its own EMPTY phase, and components of
\* the map that were mature before its lifecycle began.
OriginsPredateTheLoad == H!OriginOfThisLoad /\ L!OriginPredatesLifecycle
=============================================================================
