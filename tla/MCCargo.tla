------------------------------ MODULE MCCargo ------------------------------
(* The safety decision and what the operator sees of it: the temporal      *)
(* filter, the decision pipeline, the swing monitor and the forbidden zone.*)
(* Each behaviour is one component's: comp is chosen once and the variables*)
(* of the others stay at their initial values, so that the state spaces add*)
(* up instead of multiplying.                                              *)
EXTENDS SafetyTemporalFilter

CONSTANTS
    LoadFrames, Roles, Window, FrameGap, MaxActive, Cooldown,  \* SafetyPipeline
    MaxTracks, MaxEpochs,
    SwingInputs, SwingGap, EvidenceHold, MinHold, EndConfirm,  \* CargoSwing
    SkewConfirm, MinHistory, SkewMature, Cap,
    Messages, Hold, MaxLost, SwitchConfirm, MinConfirm,        \* ForbiddenZone
    KeepSuspended,
    a, b, near, far

\* A robust frame of one authority, and one frame per outcome of update().
Frame(t, code, auth, p) ==
    [stamp |-> t, raw |-> TRUE, code |-> code, robust |-> TRUE, place |-> p,
     cargo |-> auth, obstacle |-> auth]
MCFrames ==
    UNION {{Frame(t, Clear, a, near), Frame(t, Clear, b, far),
            Frame(t, Level1, a, near), Frame(t, Level1, a, far),
            Frame(t, Level1, b, near), Frame(t, Level2, a, near),
            [Frame(t, Level1, a, near) EXCEPT !.robust = FALSE],
            [Frame(t, Level1, a, near) EXCEPT !.raw = FALSE],
            Frame(t, Fault, a, near),
            [Frame(t, Level1, a, near) EXCEPT !.obstacle = b],
            [Frame(t, Clear, a, near) EXCEPT !.cargo = NoAuthority]}
           : t \in 1 .. MaxStamp}

\* What a frame of the pipeline brings: the live obstacle (at a distance of
\* 1 to 6), the hazard of the map, and how well the load is known.
Live(raw, tracked, any, embedded, d) ==
    [raw |-> raw, tracked |-> tracked, seen |-> any, embedded |-> embedded,
     dist |-> d]
NoLive == Live("clear", "none", FALSE, FALSE, 6)
FarLive == Live("clear", "none", TRUE, FALSE, 6)
Hazardous(tracked, d) == Live("hazard", tracked, TRUE, FALSE, d)
NoMap == [hazard |-> FALSE, dist |-> 6, contract |-> TRUE, reliable |-> TRUE]
Map(d) == [NoMap EXCEPT !.hazard = TRUE, !.dist = d]
NoLoad ==
    [localized |-> TRUE, matched |-> TRUE, outcome |-> "empty",
     visual |-> FALSE, locked |-> FALSE, freeze |-> "none",
     envelope |-> "none", fit |-> "none", height |-> FALSE, live |-> NoLive,
     static |-> NoMap]
Cargo == [NoLoad EXCEPT !.outcome = "cargo", !.visual = TRUE]
Candidate(l, m) ==
    [Cargo EXCEPT !.envelope = "identity", !.live = l, !.static = m]
Formal(l, m) ==
    [Cargo EXCEPT !.locked = TRUE, !.freeze = "formal", !.fit = "removal",
        !.height = TRUE, !.live = l, !.static = m]
MCLoadFrames ==
    {NoLoad, [NoLoad EXCEPT !.localized = FALSE],
     Cargo, [Cargo EXCEPT !.envelope = "revoked"],
     Candidate(Hazardous("formal", 3), NoMap),
     Candidate(Hazardous("review", 1), Map(5)),
     Formal(NoLive, NoMap), Formal(FarLive, NoMap), Formal(FarLive, Map(3)),
     Formal(Hazardous("formal", 5), NoMap),
     Formal(Hazardous("formal", 1), NoMap),
     Formal(Hazardous("none", 3), NoMap),
     Formal(Live("unresolved", "none", TRUE, TRUE, 3), NoMap),
     [Formal(FarLive, NoMap) EXCEPT !.freeze = "live"],
     [Formal(FarLive, NoMap) EXCEPT !.height = FALSE],
     [Formal(FarLive, NoMap) EXCEPT !.matched = FALSE],
     [Formal(Hazardous("formal", 3), NoMap) EXCEPT !.fit = "safety"]}

\* Frames of the swing monitor, by what is watched in a behaviour.
Hangs ==
    [dt |-> 1, loaded |-> TRUE, anchor |-> "same", segment |-> FALSE,
     motion |-> "MOVING", seen |-> "good", auth |-> TRUE, off |-> "calm",
     pull |-> "none", hoist |-> "UNKNOWN", yaw |-> "none"]
Common ==
    {[Hangs EXCEPT !.loaded = FALSE], [Hangs EXCEPT !.anchor = "stale"],
     [Hangs EXCEPT !.anchor = "changed"], [Hangs EXCEPT !.segment = TRUE],
     [Hangs EXCEPT !.seen = "none"], [Hangs EXCEPT !.seen = "none", !.dt = 3],
     [Hangs EXCEPT !.seen = "none", !.motion = "STATIONARY"],
     [Hangs EXCEPT !.seen = "poor"]}
MCSwingInputs ==
    [sway |->
        Common \union {[Hangs EXCEPT !.auth = FALSE]} \union
        {[Hangs EXCEPT !.off = o, !.motion = m] :
            o \in {"calm", "small", "warn", "alarm", "immediate"},
            m \in {"MOVING", "STATIONARY"}},
     skew |->
        Common \union
        {[Hangs EXCEPT !.auth = FALSE, !.pull = "free", !.hoist = "STOPPED"]}
        \union {[Hangs EXCEPT !.pull = p, !.hoist = u] :
            p \in {"pulled", "free"}, u \in {"UP", "STOPPED", "UNKNOWN"}},
     torsion |->
        Common \union
        {[Hangs EXCEPT !.yaw = y] : y \in {"none", "small", "warn", "alarm"}}]

\* Messages on /payload_track_info: track t at place p, measured or not.
Message(t, p, real) ==
    [valid |-> TRUE, track |-> t, precise |-> TRUE, sane |-> TRUE,
     place |-> p, real |-> real, score |-> "lock", moves |-> FALSE,
     hangs |-> TRUE]
MCMessages ==
    {[Message(1, 0, TRUE) EXCEPT !.valid = FALSE],
     [Message(1, 0, TRUE) EXCEPT !.precise = FALSE],
     Message(1, 2, TRUE), Message(1, 3, TRUE), Message(2, 3, TRUE),
     Message(2, 8, TRUE), Message(1, 2, FALSE),
     [Message(1, 2, TRUE) EXCEPT !.sane = FALSE],
     [Message(1, 2, TRUE) EXCEPT !.hangs = FALSE],
     [Message(1, 2, TRUE) EXCEPT !.score = "low"],
     [Message(2, 3, TRUE) EXCEPT !.score = "keep"]}

\* What a frame of the pipeline brings.
PipelineFrames ==
    [localized : BOOLEAN, matched : BOOLEAN,
     outcome : {"empty", "cargo", "unknown"},
     visual : BOOLEAN, locked : BOOLEAN,
     freeze : {"none", "live", "formal"},
     envelope : {"none", "identity", "revoked"},
     fit : {"none", "removal", "safety"}, height : BOOLEAN,
     live : [raw : {"clear", "hazard", "unresolved", "fault"},
             tracked : {"none", "review", "formal"},
             seen : BOOLEAN, embedded : BOOLEAN, dist : Nat],
     static : [hazard : BOOLEAN, dist : Nat, contract : BOOLEAN,
               reliable : BOOLEAN]]

\* What a frame of the swing monitor brings.
SwingFrames ==
    [dt : Nat, loaded : BOOLEAN, anchor : {"same", "stale", "changed"},
     segment : BOOLEAN, motion : {"UNKNOWN", "MOVING", "STATIONARY"},
     seen : {"good", "poor", "none"}, auth : BOOLEAN,
     off : {"calm", "small", "warn", "alarm", "immediate"},
     pull : {"none", "pulled", "free"}, hoist : {"UP", "STOPPED", "UNKNOWN"},
     yaw : {"none", "small", "warn", "alarm"}]

\* Cap is above every limit, so that capping an age hides nothing.
ASSUME SwingAssumption ==
    /\ \A ch \in DOMAIN SwingInputs : SwingInputs[ch] \subseteq SwingFrames
    /\ SwingGap \in Nat /\ MinHold \in Nat /\ EndConfirm \in Nat
    /\ Cap \in Nat
    /\ SwingGap < Cap

ASSUME PipelineAssumption ==
    /\ LoadFrames \subseteq PipelineFrames
    /\ Roles \subseteq {"DISABLED", "REQUIRED", "AUXILIARY"}
    /\ Window \in Nat \ {0} /\ FrameGap \in Nat /\ MaxActive \in Nat

VARIABLES comp,
    hook, seen, frame, c, status, h,
    channel, swing, quiet, danger,
    cargo, machine, geometry, display, out, cleared

pipelineVars == <<hook, seen, frame, c, status, h>>
swingVars == <<channel, swing, quiet, danger>>
zoneVars == <<cargo, machine, geometry, display, out, cleared>>

P == INSTANCE SafetyPipeline WITH Frames <- LoadFrames, Gap <- FrameGap
S == INSTANCE CargoSwing WITH Inputs <- SwingInputs, Gap <- SwingGap,
                             Mature <- MinHistory
Z == INSTANCE ForbiddenZone

MCInit ==
    /\ Init
    /\ P!Init /\ S!Init /\ Z!Init
    /\ comp \in {"temporal", "pipeline", "swing", "zone"}
    /\ comp # "swing" => channel = "sway"

MCNext ==
    \/ /\ comp = "temporal" /\ Next
       /\ UNCHANGED <<comp, pipelineVars, swingVars,
                      zoneVars>>
    \/ /\ comp = "pipeline" /\ P!Next
       /\ UNCHANGED <<comp, vars, swingVars, zoneVars>>
    \/ /\ comp = "swing" /\ S!Next
       /\ UNCHANGED <<comp, vars, pipelineVars, zoneVars>>
    \/ /\ comp = "zone" /\ Z!Next
       /\ UNCHANGED <<comp, vars, pipelineVars, swingVars>>

MCSpec ==
    /\ MCInit
    /\ [][MCNext]_<<comp, vars, pipelineVars, swingVars, zoneVars>>

-----------------------------------------------------------------------------
\* A published status satisfies the contract of the alarm heartbeat, so its
\* code reaches the crane (handleFrame and the cargo-free publishers).
StatusReachesAlarm == P!StatusReachesAlarm

\* No authority of an earlier load, nor of the map frame before a correction,
\* clears the way of this one or removes its points.
AuthorityOfThisLoad == P!AuthorityOfThisLoad

\* An operator is asked to review an obstacle for a bounded time in a row.
ReviewEnds == P!ReviewEnds

\* A swing alarm is neither dropped early nor released on what was not seen
\* (CargoSwingMonitor).
SwingAlarmIsKept == S!SwingAlarmIsKept

\* A green box is only drawn for a box that was measured, and not after a
\* message that took it away (cargo_forbidden_zone_node).
GreenBoxIsBacked == Z!GreenBoxIsBacked

\* A hazard of the map that its tracker confirmed is a warning, whatever the
\* live sensor reports.
StaticHazardWarns == P!StaticHazardWarns
=============================================================================
