---------------------------- MODULE SafetyPipeline ----------------------------
(***************************************************************************)
(* updateAndPublishCargoSafetyPipeline: from the hook signal and what was  *)
(* recognised in a frame to the published CargoSafetyStatus, and the       *)
(* evidence that is carried from one frame to the next.                    *)
(*                                                                         *)
(* A frame is taken in two steps.  BeginFrame reads the hook signal, and   *)
(* an edge of it drops all the evidence of the load before; FinishFrame    *)
(* reads the hook signal again, possibly changed by the callback, decides  *)
(* and publishes.  Recognition is what the frame says it is, but cannot    *)
(* survive a reset or do without the hook.  The legacy product path is     *)
(* modelled; V6_AUTHORITY is not.                                          *)
(***************************************************************************)
EXTENDS AvoidanceDecision, Sequences

CONSTANTS
    Roles,        \* hook_load_signal_role_
    Frames,       \* what a frame may bring
    Window,       \* clear_confirm_frames, minimum_confirmations
    Gap,          \* the longest evidence gap, in frames
    MaxActive,    \* maximum_active_sec of a review episode
    Cooldown,     \* reentry_cooldown_sec
    MaxTracks,    \* bound: locked tracks
    MaxEpochs     \* bound: lifecycles and pose generations together

VARIABLES hook,   \* the state of the hook signal; "UNKNOWN" is invalid
          seen,   \* the state was processed since it changed last
          frame,  \* the frame in progress
          c,      \* the evidence
          status, \* the status the frame before this one published
          h       \* history of the published statuses

vars == <<hook, seen, frame, c, status, h>>

Idle == [stage |-> "idle"]
NoKey == <<0, 0, 0, 0>>
NoClear == [n |-> 0, pose |-> 0, age |-> 0]
NoStatic == [n |-> 0, far |-> 0, pose |-> 0, age |-> 0]
NoReview == [pending |-> 0, key |-> NoKey, active |-> FALSE, since |-> 0,
             cooling |-> 0, cooled |-> NoKey]

Less(a, b) == IF a < b THEN a ELSE b

NoEvidence(role) ==
    [role |-> role, life |-> 0, sequence |-> 0, initialized |-> FALSE,
     prevLoaded |-> FALSE, latched |-> FALSE, clearAllowed |-> FALSE,
     gravity |-> FALSE, locked |-> FALSE, active |-> FALSE, track |-> 0,
     removal |-> 0, hygiene |-> FALSE, last |-> "UNKNOWN", pose |-> 1,
     empty |-> 0, clear |-> NoClear, static |-> NoStatic, review |-> NoReview,
     context |-> 0, frozenFor |-> 0]

NoStatusYet ==
    [schema_valid |-> TRUE, hook_role |-> "REQUIRED", hook_valid |-> FALSE,
     hook_load |-> "UNKNOWN", localization_valid |-> FALSE,
     no_cargo_confirmed |-> FALSE, cargo_valid |-> FALSE,
     obstacle_valid |-> FALSE, evidence |-> "UNKNOWN", obstacle_count |-> 0,
     finite_geometry |-> TRUE, distance |-> "L1", clearance |-> "LOW",
     track_contract |-> FALSE, requested |-> 0, warning |-> 0,
     warning_valid |-> FALSE, valid |-> FALSE, fault |-> 0, fault_mask |-> {}]

NoHistory == [clears |-> 0, life |-> 0, pose |-> 0, age |-> 0, run |-> 0,
              key |-> NoKey, owner |-> 0, said |-> {}]

Init ==
    /\ hook = "UNKNOWN" /\ seen = TRUE /\ frame = Idle
    /\ c \in {NoEvidence(r) : r \in Roles}
    /\ status = NoStatusYet /\ h = NoHistory

-----------------------------------------------------------------------------
(* Resets.                                                                 *)

\* mutant: the removal of the load's points stays authorised
ResetKeepsRemoval(e) ==
    [NoEvidence(e.role) EXCEPT !.sequence = e.sequence, !.track = e.track,
         !.last = e.last, !.pose = e.pose, !.removal = e.removal]

\* resetCargoForHookState: all but the counters of lifecycles and tracks.
ResetCargo(e) ==
    [NoEvidence(e.role) EXCEPT !.sequence = e.sequence, !.track = e.track,
         !.last = e.last, !.pose = e.pose]

\* resetCargoAfterPoseDiscontinuity: a retained track keeps its shape and its
\* lifecycle and loses what was measured in the old map frame.
PoseDiscontinuity(e) ==
    LET moved == [e EXCEPT !.pose = @ + 1]
    IN IF e.locked
       THEN [moved EXCEPT !.review = NoReview, !.clear = NoClear,
                 !.static = NoStatic, !.context = 0, !.removal = 0, !.active = TRUE]
       ELSE [ResetCargo(moved) EXCEPT !.track = 0]

-----------------------------------------------------------------------------
(* The first half of a frame.                                              *)

\* A valid loaded state is a new load even after a dropout of the signal; an
\* empty one ends the load only where gravity is required.
HookEdge(e) ==
    IF e.role = "DISABLED" \/ hook = e.last THEN e
    ELSE [(IF hook = "LOADED" \/ (hook = "EMPTY" /\ e.role = "REQUIRED")
           THEN ResetCargo(e) ELSE e) EXCEPT !.last = hook]

TrackingAllowed(e) ==
    \/ e.role # "REQUIRED"
    \/ hook = "LOADED"
    \/ hook = "UNKNOWN" /\ (e.latched \/ e.prevLoaded)

\* LidarNoCargoEvidenceTracker::update
NoCargoCount(e, f) ==
    IF f.localized /\ f.outcome = "empty" /\ ~f.locked
    THEN Less(e.empty + 1, Window) ELSE 0

\* What recognition can see: a track that survived, or one locked anew.
Recognisable(e, f) ==
    /\ f.locked => TrackingAllowed(e)
    /\ f.locked /\ ~e.locked => hook = e.last \/ e.role = "DISABLED"
    /\ f.outcome = "cargo" => f.visual
    /\ f.freeze # "none" => f.locked /\ e.frozenFor = e.life /\ e.life # 0

BeginFrame(f) ==
    /\ frame = Idle
    /\ \E e \in {HookEdge(c)} :
         /\ Recognisable(IF e.last = c.last THEN c ELSE e, f)
         /\ c' = [e EXCEPT !.empty = NoCargoCount(e, f), !.locked = f.locked]
    /\ frame' = [stage |-> "begun", f |-> f]
    /\ seen' = TRUE
    /\ status' = NoStatusYet
    /\ h' = [h EXCEPT !.said = {}]
    /\ UNCHANGED hook

-----------------------------------------------------------------------------
(* Presence and lifecycle.                                                 *)

\* CargoPresenceStateMachine::update: gravity owns the presence of the load;
\* without a valid signal it is held.
Presence(e, f) ==
    IF e.role = "DISABLED"
    THEN LET p == f.locked \/ f.visual
         IN [e EXCEPT !.latched = p, !.clearAllowed = ~p, !.gravity = FALSE]
    ELSE [e EXCEPT !.latched = CASE hook = "LOADED" -> TRUE
                                 [] hook = "EMPTY" -> FALSE
                                 [] OTHER -> @,
                   !.clearAllowed = hook = "EMPTY",
                   !.gravity = hook # "UNKNOWN"]

\* The load is gone: what was recognised of it goes with it.
Cleared(e) ==
    IF ~e.clearAllowed THEN e
    ELSE [(IF ~e.initialized \/ e.prevLoaded
           THEN [e EXCEPT !.static = NoStatic, !.context = 0, !.frozenFor = 0] ELSE e)
          EXCEPT !.initialized = TRUE, !.prevLoaded = FALSE]

\* updateCargoLiftAndGeometryFusion: a new presence is a new lifecycle; its
\* geometry can be frozen from the next frame on.
Lifecycle(e) ==
    LET present == e.latched
        rises == present /\ (~e.initialized \/ ~e.prevLoaded)
        born == IF rises
                THEN [e EXCEPT !.sequence = @ + 1, !.life = e.sequence + 1,
                          !.static = NoStatic, !.context = 0, !.frozenFor = 0]
                ELSE IF present THEN [e EXCEPT !.frozenFor = e.life] ELSE e
    IN [born EXCEPT !.initialized = TRUE, !.prevLoaded = present]

TrackEdge(e, f) ==
    IF f.locked /\ ~e.active THEN [e EXCEPT !.track = @ + 1]
    ELSE IF ~f.locked /\ e.active THEN [e EXCEPT !.removal = 0] ELSE e

-----------------------------------------------------------------------------
(* Evidence over several frames.                                           *)

\* PendingStaticHazardTracker::update
TrackStatic(e, f, authority) ==
    IF ~(authority /\ f.static.reliable /\ f.static.hazard) \/ e.life = 0
    THEN NoStatic
    ELSE LET same == e.static.n > 0 /\ e.static.pose = e.pose /\ e.static.age <= Gap
             n == IF same THEN Less(e.static.n + 1, Window) ELSE 1
             distant == (IF same THEN e.static.far ELSE 0)
                        + (IF WarningCode(f.static.dist) = Level2Warning THEN 1 ELSE 0)
         IN [n |-> n, far |-> Less(distant, Window), pose |-> e.pose, age |-> 0]

StaticConfirmed(s) == s.n >= Window
StaticHistory(s) == s.far >= Window

\* CargoSafetyTemporalFilter::update with a clear frame.
CountClear(e) ==
    LET same == e.clear.n > 0 /\ e.clear.pose = e.pose /\ e.clear.age <= Gap
    IN [n |-> IF same THEN Less(e.clear.n + 1, Window) ELSE 1,
        pose |-> e.pose, age |-> 0]

\* mutant: the time of a review is counted from its last frame
EpisodeFromLastFrame(r, key, code) ==
    LET over == [r EXCEPT !.pending = 0, !.active = FALSE]
        waiting == r.key = key /\ (r.pending > 0 \/ r.active)
        n == IF waiting THEN Less(r.pending + 1, Window) ELSE 1
    IN IF code # AnomalyReview THEN [r |-> over, out |-> code]
       ELSE IF n < Window
       THEN [r |-> [over EXCEPT !.pending = n, !.key = key], out |-> ObstacleInvalid]
       ELSE [r |-> [r EXCEPT !.pending = n, !.active = TRUE, !.since = 0],
             out |-> AnomalyReview]

\* AnomalyReviewEpisodeTracker::update: a review is entered after Window
\* frames of one key, lasts MaxActive from its first frame, and may not come
\* back for Cooldown.  A standard warning ends all of that.
Episode(r, key, code) ==
    LET over == [r EXCEPT !.pending = 0, !.active = FALSE]
        mine == r.active /\ r.key = key
        waiting == r.pending > 0 /\ r.key = key
        n == IF waiting THEN r.pending + 1 ELSE 1
        since == IF waiting THEN r.since ELSE 0
    IN IF code \in StandardCodes THEN [r |-> [over EXCEPT !.cooling = 0], out |-> code]
       ELSE IF code # AnomalyReview THEN [r |-> over, out |-> code]
       ELSE IF r.cooling > 0 /\ r.cooled = key THEN [r |-> r, out |-> ObstacleInvalid]
       ELSE IF mine /\ r.since <= MaxActive THEN [r |-> r, out |-> AnomalyReview]
       ELSE IF mine
       THEN [r |-> [over EXCEPT !.cooling = Cooldown, !.cooled = key],
             out |-> ObstacleInvalid]
       ELSE IF n < Window
       THEN [r |-> [over EXCEPT !.pending = n, !.key = key, !.since = since],
             out |-> ObstacleInvalid]
       ELSE [r |-> [over EXCEPT !.active = TRUE, !.key = key, !.since = since],
             out |-> AnomalyReview]

\* The time from one frame to the next.
Aged(e) ==
    [e EXCEPT !.clear.age = IF e.clear.n = 0 THEN 0 ELSE Less(@ + 1, Gap + 1),
              !.static.age = IF e.static.n = 0 THEN 0 ELSE Less(@ + 1, Gap + 1),
              !.review.since = IF e.review.active \/ e.review.pending > 0
                               THEN Less(@ + 1, MaxActive + 1) ELSE 0,
              !.review.cooling = IF @ > 0 THEN @ - 1 ELSE 0]

-----------------------------------------------------------------------------
(* Publication.                                                            *)

\* mutant: the state of the hook signal is the one the frame began with
BaseStatusOfBegin(e, f) ==
    [NoStatusYet EXCEPT !.hook_role = e.role, !.hook_valid = GravityValid(hook),
         !.hook_load = e.last, !.localization_valid = f.localized]

BaseStatus(e, f) ==
    [NoStatusYet EXCEPT !.hook_role = e.role, !.hook_valid = GravityValid(hook),
         !.hook_load = hook, !.localization_valid = f.localized]

NoWarning == [visual |-> FALSE, fault |-> "NONE", code |-> 0, valid |-> FALSE,
              initialized |-> TRUE, provisional |-> FALSE, clearAuthorized |-> FALSE]

\* The status with the review episode it advances.
Published(e, s, w, oid) ==
    LET key == <<e.life, e.track, oid, e.pose>>
        step == Episode(e.review, key, Phase(DecisionInput(s, w)))
    IN [e |-> [e EXCEPT !.review = step.r], status |-> Compose(s, w, step.out),
        key |-> key]

\* publishRelocalizationSafetyInvalid
LocalizationLost(e, f) == Published(e, BaseStatus(e, f), NoWarning, 0)

\* publishHookOnlySafetyStatus, with the hazard of a pending load if any.
HookOnly(e, f, initialized, p) ==
    LET safe == IF e.role = "REQUIRED" THEN hook = "EMPTY" /\ ~f.visual
                ELSE e.empty >= Window /\ ~f.visual
        s == [BaseStatus(e, f) EXCEPT
                 !.no_cargo_confirmed = safe,
                 !.evidence = IF safe THEN "CLEAR" ELSE "HARD_FAULT",
                 !.obstacle_valid = p.code # 0,
                 !.obstacle_count = IF p.code # 0 THEN 1 ELSE 0,
                 !.distance = Band(p.dist), !.track_contract = p.contract]
    IN Published(e, s,
                 [NoWarning EXCEPT !.visual = f.visual, !.initialized = initialized,
                      !.valid = safe \/ p.code # 0, !.provisional = p.code # 0,
                      !.code = IF p.code # 0 THEN p.code
                               ELSE IF safe THEN Clear ELSE 0],
                 p.oid)

NoProvisional == [code |-> 0, dist |-> 0, contract |-> FALSE, oid |-> 0]

-----------------------------------------------------------------------------
(* A load that is expected but not yet recognised: runPendingCargoAvoidance. *)

Tracked(f) == f.live.tracked # "none"
Resolved(f) == f.live.seen /\ ~f.live.embedded
RawHazard(f) == f.live.raw = "hazard"
Mature(f) == f.live.tracked \in {"review", "formal"}
Identity(f) == f.envelope = "identity"

\* certified_static_provenance keeps its default: nothing sets it.
Certified == FALSE

StaticSource(f) == [reliable |-> f.static.reliable, hazard |-> f.static.hazard,
                    dist |-> f.static.dist, certified |-> Certified]

ReviewStatic(f, s, proven) ==
    /\ StaticConfirmed(s) /\ f.static.hazard
    /\ \/ f.static.dist <= Immediate
       \/ f.static.dist <= 3 /\ ~StaticHistory(s) /\ ~proven
ReviewLive(f) ==
    /\ Mature(f)
    /\ f.live.dist <= Immediate \/ (f.live.dist <= 3 /\ f.live.tracked # "formal")
ReviewDist(f, live, static) ==
    IF live /\ static THEN Less(f.live.dist, f.static.dist)
    ELSE IF live THEN f.live.dist ELSE IF static THEN f.static.dist ELSE Beyond

PendingInput(f, s) ==
    LET live == Tracked(f) /\ RawHazard(f)
        rl == live /\ ReviewLive(f)
        rs == ReviewStatic(f, s, f.static.contract)
    IN [localized |-> f.localized, formal |-> FALSE, clearAuthorized |-> FALSE,
        live |-> [reliable |-> live, hazard |-> live, dist |-> f.live.dist],
        static |-> StaticSource(f), contract |-> f.static.contract,
        resolved |-> Resolved(f), covered |-> TRUE, candidate |-> RawHazard(f),
        liveHistory |-> f.live.tracked = "formal", staticHistory |-> StaticHistory(s),
        staticConfirmed |-> StaticConfirmed(s),
        reviewLive |-> rl, reviewStatic |-> rs, reviewDist |-> ReviewDist(f, rl, rs),
        pending |-> [valid |-> TRUE, state |-> f.envelope # "revoked",
                     plausible |-> TRUE, query |-> Identity(f),
                     identity |-> Identity(f),
                     separated |-> Identity(f) /\ f.live.seen,
                     external |-> live /\ Mature(f), static |-> StaticConfirmed(s)]]

\* A change of the load's identity drops the hazard of the map.
PendingContext(e, f) ==
    IF e.context # e.life \/ f.envelope = "revoked"
    THEN [e EXCEPT !.static = NoStatic,
              !.context = IF f.envelope = "revoked" THEN 0 ELSE e.life]
    ELSE e

ObstacleId(fused) == CASE fused.hazard.from = "LIVE" -> 1
                       [] fused.hazard.from = "STATIC" -> 2
                       [] OTHER -> 0

\* The geometry of a hazard from the map is never that of a large cluster.
Provisional(fused, f) ==
    IF fused.code \in PositiveCodes
    THEN [code |-> fused.code, dist |-> fused.hazard.dist,
          contract |-> fused.hazard.from = "LIVE", oid |-> ObstacleId(fused)]
    ELSE NoProvisional

PendingAvoidance(e0, f) ==
    LET e1 == PendingContext(e0, f)
        s == TrackStatic(e1, f, f.static.contract /\ Identity(f))
        e == [e1 EXCEPT !.static = s]
        fused == Fuse(PendingInput(f, s))
        kept == Committed(fused, Identity(f), e.life, 1, ObstacleId(fused))
    IN IF ~f.matched THEN LocalizationLost(e, f)
       ELSE HookOnly(e, f, TRUE, IF kept THEN Provisional(fused, f) ELSE NoProvisional)

-----------------------------------------------------------------------------
(* A recognised load with frozen geometry.                                 *)

\* Hazards and faults end the confirmation of the clearance.
ClearEvidence(e, f) == IF f.live.raw = "clear" THEN CountClear(e) ELSE NoClear

\* A result of the evaluator: its code when it is usable, or its fault.
Usable(code, dist, count) ==
    [input |-> TRUE, fault |-> "NONE", code |-> code, dist |-> dist,
     count |-> count, evidence |-> "UNKNOWN"]
Pending(evidence) ==
    [input |-> FALSE, fault |-> "OBSTACLE", code |-> 0, dist |-> Beyond,
     count |-> 0, evidence |-> evidence]

\* CargoSafetyEvaluator with the tracker and the temporal filter.
LiveResult(e, f) ==
    CASE ~f.height -> [Pending("HARD_FAULT") EXCEPT !.fault = "HEIGHT"]
      [] f.height /\ f.live.raw = "fault" -> Pending("SPARSE_PENDING")
      [] f.height /\ f.live.raw = "unresolved" -> Pending("SOURCE_UNRESOLVED")
      [] f.height /\ RawHazard(f) ->
           IF Tracked(f)
           THEN [Usable(WarningCode(f.live.dist), f.live.dist, 1)
                 EXCEPT !.evidence = "HAZARD_CONFIRMED"]
           ELSE Pending("TRACK_CONFIRMATION_PENDING")
      [] OTHER ->
           IF e.clear.n >= Window
           THEN [Usable(Clear, f.live.dist, IF f.live.seen THEN 1 ELSE 0)
                 EXCEPT !.evidence = "CLEAR"]
           ELSE Pending("TRACK_CONFIRMATION_PENDING")

\* can_authorize_clear of the effective envelope, once it is resolved from the
\* frozen geometry.
CanAuthorizeClear(e, f) == e.gravity /\ f.freeze = "formal" /\ f.fit # "none"
ClearAuthorized(e, f) == CanAuthorizeClear(e, f) /\ f.fit = "removal"

\* The removal of the load's points: the product path, and the registration
\* hygiene, which is decided before the envelope has its frozen geometry.
RemovalAuthorized(e, f) == ClearAuthorized(e, f) /\ f.height
EnvelopeBeforeGeometry == FALSE
HygieneAuthorized(e, f) ==
    /\ f.freeze = "formal" /\ EnvelopeBeforeGeometry
    /\ f.height /\ f.fit = "removal"

FormalInput(e, f, r, s) ==
    LET usable == r.input /\ r.fault = "NONE"
        rl == RawHazard(f) /\ ReviewLive(f)
        rs == ReviewStatic(f, s, f.static.contract)
    IN [localized |-> f.localized, formal |-> f.fit # "none" /\ f.height,
        clearAuthorized |-> ClearAuthorized(e, f),
        live |-> [reliable |-> usable, hazard |-> usable /\ r.code \in StandardCodes,
                  dist |-> f.live.dist],
        static |-> StaticSource(f), contract |-> f.static.contract,
        resolved |-> Resolved(f), covered |-> TRUE, candidate |-> RawHazard(f),
        liveHistory |-> f.live.tracked = "formal", staticHistory |-> StaticHistory(s),
        staticConfirmed |-> StaticConfirmed(s),
        reviewLive |-> rl, reviewStatic |-> rs, reviewDist |-> ReviewDist(f, rl, rs),
        pending |-> [valid |-> FALSE]]

\* The result rewritten by the fused decision.
Rewritten(r, fused, kept, formal) ==
    IF ~kept THEN [Pending("HARD_FAULT") EXCEPT !.fault = "INTERNAL"]
    ELSE IF fused.code = AnomalyReview
    THEN [Usable(AnomalyReview, fused.hazard.dist, 1)
          EXCEPT !.evidence = "REVIEW_REQUIRED"]
    ELSE IF fused.code \in StandardCodes /\ fused.hazard.from = "STATIC"
    THEN [Usable(fused.code, fused.hazard.dist, r.count)
          EXCEPT !.evidence = "HAZARD_CONFIRMED"]
    ELSE IF fused.code = ObstacleInvalid /\ formal THEN Pending("SOURCE_UNRESOLVED")
    ELSE r

FormalAvoidance(e0, f) ==
    LET e1 == [e0 EXCEPT !.clear = ClearEvidence(e0, f),
                   !.removal = IF RemovalAuthorized(e0, f) THEN e0.track ELSE 0,
                   !.hygiene = HygieneAuthorized(e0, f)]
        r == LiveResult(e1, f)
        s == TrackStatic(e1, f, f.static.contract)
        e == [e1 EXCEPT !.static = s]
        i == FormalInput(e, f, r, s)
        fused == Fuse(i)
        kept == Committed(fused, TRUE, e.life, e.track, ObstacleId(fused))
        out == Rewritten(r, fused, kept, i.formal)
        m == [BaseStatus(e, f) EXCEPT
                 !.cargo_valid = f.height, !.evidence = out.evidence,
                 !.obstacle_valid = out.input /\ out.fault = "NONE",
                 !.obstacle_count = out.count, !.distance = Band(out.dist),
                 !.clearance = IF out.code = Clear THEN "OK" ELSE "LOW",
                 !.track_contract = Tracked(f)]
    IN IF ~f.matched THEN LocalizationLost(e, f)
       ELSE Published(e, m,
                 [NoWarning EXCEPT !.fault = out.fault, !.code = out.code,
                      !.valid = out.code # 0, !.clearAuthorized = ClearAuthorized(e, f)],
                 ObstacleId(fused))

-----------------------------------------------------------------------------
(* The second half of a frame.                                             *)

FrozenReady(f) == f.freeze # "none"

Recognised(e0, f) ==
    LET e == [Lifecycle(TrackEdge(e0, f)) EXCEPT !.active = f.locked]
    IN IF e.latched /\ ~FrozenReady(f) /\ f.envelope # "none"
       THEN PendingAvoidance([e EXCEPT !.removal = 0], f)
       ELSE IF ~f.locked THEN HookOnly(e, f, FALSE, NoProvisional)
       ELSE IF ~FrozenReady(f)
       THEN HookOnly([e EXCEPT !.removal = 0], f, FALSE, NoProvisional)
       ELSE FormalAvoidance(e, f)

Pipeline(f) ==
    IF ~f.localized THEN LocalizationLost(c, f)
    ELSE LET e == Cleared(Presence(c, f))
         IN IF e.role = "REQUIRED" /\ ~e.latched /\ hook = "UNKNOWN"
            THEN HookOnly(e, f, TRUE, NoProvisional)
            ELSE IF e.role = "REQUIRED" /\ e.clearAllowed
            THEN HookOnly(Lifecycle(e), f, TRUE, NoProvisional)
            ELSE IF e.role # "REQUIRED" /\ ~e.latched /\ e.empty >= Window /\ ~f.visual
            THEN HookOnly(e, f, TRUE, NoProvisional)
            ELSE Recognised(e, f)

\* What the frames behind the published statuses were: the clear ones of this
\* load and map frame, the reviews in a row, the load that authorised the
\* removal, and what the code's comments expect of this frame.
ClearsSeen(p, f) ==
    LET formal == FrozenReady(f) /\ f.localized
        same == h.clears > 0 /\ h.life = p.e.life /\ h.pose = p.e.pose /\ h.age <= Gap
    IN IF ~formal THEN h.clears
       ELSE IF f.live.raw # "clear" THEN 0
       ELSE IF same THEN Less(h.clears + 1, Window) ELSE 1

Facts(p, f) ==
    LET formal == /\ f.localized /\ f.matched /\ FrozenReady(f)
                  /\ hook = "LOADED" /\ ClearAuthorized(p.e, f) /\ f.height
    IN {x \in {"map_hazard", "nothing_around", "removal"} :
          /\ formal
          /\ CASE x = "map_hazard" ->
                    f.static.hazard /\ f.static.contract /\ StaticConfirmed(p.e.static)
               [] x = "nothing_around" ->
                    /\ f.live.raw = "clear" /\ ~f.live.seen /\ ~f.static.hazard
                    /\ p.e.clear.n >= Window
               [] x = "removal" -> p.e.removal # 0}

Remember(p, f) ==
    LET n == ClearsSeen(p, f)
        current == FrozenReady(f) /\ f.localized
    IN [clears |-> n,
        life |-> IF n = 0 THEN 0 ELSE IF current THEN p.e.life ELSE h.life,
        pose |-> IF n = 0 THEN 0 ELSE IF current THEN p.e.pose ELSE h.pose,
        age |-> IF n = 0 THEN 0 ELSE IF current THEN 1 ELSE Less(h.age + 1, Gap + 1),
        run |-> IF p.status.requested # AnomalyReview THEN 0
                ELSE IF h.key = p.key THEN Less(h.run + 1, MaxActive + 2) ELSE 1,
        key |-> IF p.status.requested = AnomalyReview THEN p.key ELSE NoKey,
        owner |-> IF p.e.removal = 0 THEN 0
                  ELSE IF c.removal = 0 THEN p.e.life ELSE h.owner,
        said |-> Facts(p, f)]

FinishFrame ==
    /\ frame.stage = "begun"
    /\ \E p \in {Pipeline(frame.f)} :
         /\ p.e.sequence + p.e.pose <= MaxEpochs /\ p.e.track <= MaxTracks
         /\ c' = Aged(p.e)
         /\ status' = p.status
         /\ h' = Remember(p, frame.f)
    /\ frame' = Idle
    /\ UNCHANGED <<hook, seen>>

\* hookLoadStateCallback or its timer: the filter confirms a state for longer
\* than a frame takes, so each state is processed before it changes again.
HookChanges ==
    /\ seen
    /\ \E s \in {"EMPTY", "LOADED", "UNKNOWN"} \ {hook} : hook' = s
    /\ seen' = FALSE
    /\ UNCHANGED <<frame, c, status, h>>

\* A relocalized or corrected pose, between two frames.
PoseJump ==
    /\ frame = Idle /\ c.sequence + c.pose < MaxEpochs
    /\ c' = PoseDiscontinuity(c)
    /\ UNCHANGED <<hook, seen, frame, status, h>>

Next ==
    \/ \E f \in Frames : BeginFrame(f)
    \/ FinishFrame
    \/ HookChanges
    \/ PoseJump

Spec == Init /\ [][Next]_vars

-----------------------------------------------------------------------------
(* Properties.                                                             *)

\* Whatever the frame, the hook signal and their order, a published status
\* satisfies the contract of the alarm heartbeat: its code reaches the crane
\* and is not replaced by an internal error.
StatusReachesAlarm ==
    status.requested # 0 => ValidateStatusContract(status) = status.requested

\* The way of a load is reported clear only after Window frames that saw it
\* clear, all of this load and in this map frame, with no hazard and no fault
\* in between: a new load, or a corrected pose, starts over.
ClearIsEarned ==
    status.requested = Clear /\ status.cargo_valid => h.clears >= Window

\* Points are removed from the map only for the load whose formal geometry
\* authorised it.
RemovalOfThisLoad ==
    c.removal # 0 /\ c.removal = c.track /\ hook = "LOADED" =>
        c.life # 0 /\ h.owner = c.life

\* No authority of an earlier load, nor of the map frame before a correction,
\* clears the way of this one or removes its points.
AuthorityOfThisLoad == ClearIsEarned /\ RemovalOfThisLoad

\* An operator is asked to review the same obstacle for at most MaxActive in a
\* row; after that the cycle falls back to 34 until the cooldown is over.
ReviewEnds == h.run <= MaxActive + 1

\* The hazard of the map that its tracker confirmed is a warning, whatever
\* the live sensor reports.
StaticHazardWarns == "map_hazard" \in h.said => status.requested \in PositiveCodes

\* A formally recognised load with nothing around it, seen clear for Window
\* frames, is reported clear.
EmptySurroundingIsClear ==
    "nothing_around" \in h.said => status.requested = Clear

\* Where the load's points may be removed from the map, they are removed from
\* the registration input too.
HygieneFollowsRemoval == "removal" \in h.said => c.hygiene
=============================================================================
