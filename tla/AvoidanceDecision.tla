-------------------------- MODULE AvoidanceDecision --------------------------
(***************************************************************************)
(* The decisions of one frame: fuseCargoAvoidanceRisk, the commit of its   *)
(* hazard, the evidence of the hook signal, and composeCargoSafetyStatus,  *)
(* which turn what was recognised, tracked and looked up in the map into   *)
(* the one code that is published.                                         *)
(*                                                                         *)
(* A distance is one of the values the thresholds tell apart: 0 is inside  *)
(* the footprint, 1 within immediate_near_field_m, 3 within the first, 5   *)
(* within the second warning distance and 6 beyond it.  A source is a      *)
(* hazard when its clearance is low and its distance calls for 17 or 18.   *)
(***************************************************************************)
EXTENDS StatusContract

Immediate == 1
Beyond == 6
PositiveCodes == {Level1Warning, Level2Warning, AnomalyReview}
StandardCodes == {Level1Warning, Level2Warning}

WarningCode(d) == IF d <= 3 THEN Level1Warning
                  ELSE IF d <= 5 THEN Level2Warning ELSE 0
Band(d) == IF d <= 3 THEN "L1" ELSE IF d <= 5 THEN "L2" ELSE "FAR"

-----------------------------------------------------------------------------
(* Fusion of the live obstacles with the static map.                       *)

NoHazard == [from |-> "NONE", dist |-> Beyond]

\* selectHazard and selectReviewHazard: the nearer of the allowed sources,
\* the live one when they are as near.  A source at distance zero is refused.
Select(live, static, i) ==
    LET l == live /\ i.live.hazard /\ i.live.dist > 0
        s == static /\ i.static.hazard /\ i.static.dist > 0
    IN IF l /\ (~s \/ i.live.dist <= i.static.dist)
       THEN [from |-> "LIVE", dist |-> i.live.dist]
       ELSE IF s THEN [from |-> "STATIC", dist |-> i.static.dist] ELSE NoHazard

Fused(code, hazard) == [code |-> code, hazard |-> hazard]
Refused(code) == Fused(code, NoHazard)

\* applySelectedHazard: without a hazard there is nothing to warn of.
Standard(h) ==
    IF h = NoHazard THEN Refused(ObstacleInvalid) ELSE Fused(WarningCode(h.dist), h)
Review(h) ==
    IF h = NoHazard THEN Refused(ObstacleInvalid) ELSE Fused(AnomalyReview, h)

PendingQuery(p) == p.state /\ p.plausible /\ p.query

\* authorizePendingWarning: the load and the obstacle are both known.
PendingLiveAuthorized(i) ==
    PendingQuery(i.pending) /\ i.pending.identity /\ i.pending.separated
        /\ i.pending.external

\* authorizePendingStaticWarning: the load is known and the map is confirmed.
PendingStaticAuthorized(i) ==
    PendingQuery(i.pending) /\ i.pending.identity /\ i.pending.static

\* A source of the static map counts only with its session verified and its
\* provenance certified.
StaticReliable(i) == i.contract /\ i.static.reliable /\ i.static.certified
RiskLive(i) == i.live.reliable /\ i.resolved /\ i.live.hazard
StaticSeen(i) == StaticReliable(i) /\ i.static.hazard
RiskStatic(i) == StaticSeen(i) /\ i.staticConfirmed
OriginUnresolved(i) == i.live.reliable /\ i.live.hazard /\ ~i.resolved

StaticProven(i) == i.formal \/ PendingStaticAuthorized(i)
LiveStandard(i) == RiskLive(i) /\ i.liveHistory /\ ~i.reviewLive
StaticStandard(i) == RiskStatic(i) /\ (i.staticHistory \/ StaticProven(i))
LiveWithoutHistory(i) == RiskLive(i) /\ ~i.liveHistory
StaticWithoutHistory(i) ==
    RiskStatic(i) /\ ~i.staticHistory /\ ~StaticProven(i)
WithoutHistory(i) == LiveWithoutHistory(i) \/ StaticWithoutHistory(i)
HistoryReview(i) == Review(Select(LiveWithoutHistory(i), StaticWithoutHistory(i), i))

\* An envelope that is not yet the load's geometry may warn, never clear.
FusePending(i) ==
    LET live == LiveStandard(i) /\ PendingLiveAuthorized(i)
        static == StaticStandard(i) /\ PendingStaticAuthorized(i)
    IN IF ~i.pending.valid \/ ~PendingQuery(i.pending) THEN Refused(CargoInvalid)
       ELSE IF OriginUnresolved(i) /\ ~RiskStatic(i) THEN Refused(CargoInvalid)
       ELSE IF LiveStandard(i) \/ StaticStandard(i)
       THEN IF live \/ static THEN Standard(Select(live, static, i))
            ELSE Refused(CargoInvalid)
       ELSE IF WithoutHistory(i) THEN HistoryReview(i)
       ELSE Refused(CargoInvalid)

LiveClear(i) == i.live.reliable /\ i.resolved /\ ~RiskLive(i) /\ i.covered

\* A hazard the map reports and nothing authorised blocks the clearance.
StaticUnresolved(i) == i.static.reliable /\ i.static.hazard /\ ~RiskStatic(i)

FuseFormal(i) ==
    IF LiveStandard(i) \/ StaticStandard(i)
    THEN Standard(Select(LiveStandard(i), StaticStandard(i), i))
    ELSE IF WithoutHistory(i) THEN HistoryReview(i)
    ELSE IF (i.reviewLive \/ i.reviewStatic) /\ i.reviewDist <= 5
    THEN Review(Select(i.reviewLive, i.reviewStatic, i))
    ELSE IF OriginUnresolved(i) \/ i.candidate THEN Refused(ObstacleInvalid)
    ELSE IF ~i.clearAuthorized THEN Refused(CargoInvalid)
    ELSE IF ~LiveClear(i) \/ StaticUnresolved(i) THEN Refused(ObstacleInvalid)
    ELSE Refused(Clear)

Fuse(i) ==
    IF ~i.localized THEN Refused(LocalizationInvalid)
    ELSE IF StaticSeen(i) /\ ~i.staticConfirmed /\ ~RiskLive(i) /\ ~i.candidate
    THEN Refused(ObstacleInvalid)
    ELSE IF i.formal THEN FuseFormal(i) ELSE FusePending(i)

\* commitCargoFrameDecision: a positive code is committed for a known load
\* and a known obstacle, in the frame that saw both.
Committed(fused, identity, life, track, obstacle) ==
    fused.code \in PositiveCodes =>
        identity /\ life # 0 /\ track # 0 /\ fused.hazard # NoHazard /\ obstacle # 0

-----------------------------------------------------------------------------
(* The hook signal as evidence: evaluateHookLoadEvidence.                  *)

GravityValid(hook) == hook \in {"EMPTY", "LOADED"}

CargoAccepted(role, hook, cargo) == cargo /\ (role = "REQUIRED" => hook = "LOADED")
EmptyAccepted(role, hook, cargo, empty) ==
    empty /\ ~cargo /\ (role = "REQUIRED" => hook = "EMPTY")
GravityConflict(role, hook, cargo, empty) ==
    /\ role # "DISABLED"
    /\ \/ hook = "EMPTY" /\ cargo
       \/ hook = "LOADED" /\ empty /\ ~cargo

-----------------------------------------------------------------------------
(* The code of a status: deriveCargoSafetyDecisionPhase.                   *)

PositiveWarning(d) ==
    /\ d.code \in PositiveCodes /\ d.ready
    /\ d.provisional \/ d.cargo
    /\ ~d.cargoFault /\ ~d.obstacleFault

Phase(d) ==
    IF d.internal THEN InternalError
    ELSE IF ~d.system THEN SystemNotReady
    ELSE IF ~d.localized THEN LocalizationInvalid
    ELSE IF d.role = "REQUIRED" /\ ~GravityValid(d.hook) THEN GravityInvalid
    ELSE IF PositiveWarning(d) THEN d.code
    ELSE IF d.conflict THEN CargoInvalid
    ELSE IF d.empty /\ ((d.role # "DISABLED" /\ d.hook = "LOADED") \/ d.cargo
                          \/ d.cargoFault \/ d.obstacleFault)
    THEN InternalError
    ELSE IF d.cargo
    THEN IF d.code = Clear /\ d.clearAuthorized /\ d.ready
                /\ ~d.cargoFault /\ ~d.obstacleFault
         THEN Clear
         ELSE IF d.cargoFault THEN CargoInvalid ELSE ObstacleInvalid
    ELSE IF d.empty THEN Clear
    ELSE CargoInvalid

-----------------------------------------------------------------------------
(* composeCargoSafetyStatus.                                               *)

\* What the frame brings: the fields of the status that do not depend on the
\* code, and w, the warning with the fault of the evaluator.
DecisionInput(s, w) ==
    LET empty == s.no_cargo_confirmed /\ ~w.visual
        cargo == CargoAccepted(s.hook_role, s.hook_load, s.cargo_valid)
        safe == EmptyAccepted(s.hook_role, s.hook_load, s.cargo_valid, empty)
        internal == w.fault = "INTERNAL" \/ (w.valid /\ w.code \notin WarningCodes)
        provisional == /\ w.provisional /\ s.localization_valid
                       /\ s.hook_load = "LOADED" /\ ~internal
                       /\ w.valid /\ w.code \in PositiveCodes
    IN [internal |-> internal, system |-> w.initialized,
        localized |-> s.localization_valid, role |-> s.hook_role,
        hook |-> s.hook_load, code |-> IF w.valid THEN w.code ELSE 0,
        ready |-> w.valid /\ w.code \in WarningCodes
                      /\ (s.obstacle_valid \/ provisional),
        provisional |-> provisional, cargo |-> cargo, empty |-> safe,
        conflict |-> GravityConflict(s.hook_role, s.hook_load, s.cargo_valid, empty),
        cargoFault |-> \/ s.hook_role = "REQUIRED" /\ s.hook_load = "EMPTY" /\ w.visual
                       \/ ~safe /\ w.fault = "HEIGHT",
        obstacleFault |-> cargo /\ (~s.obstacle_valid \/ w.fault = "OBSTACLE"),
        clearAuthorized |-> w.clearAuthorized]

\* The evidence state that goes with the code.
Evidence(s, d, code, suppressed) ==
    LET given == IF d.provisional
                 THEN IF d.code = AnomalyReview THEN "REVIEW_REQUIRED"
                      ELSE "HAZARD_CANDIDATE"
                 ELSE s.evidence
    IN IF suppressed \/ (code >= SystemNotReady /\ code # ObstacleInvalid)
       THEN "HARD_FAULT"
       ELSE IF given # "UNKNOWN" THEN given
       ELSE CASE code = Clear -> "CLEAR"
              [] code \in StandardCodes -> "HAZARD_CONFIRMED"
              [] code = AnomalyReview -> "REVIEW_REQUIRED"
              [] OTHER -> "HARD_FAULT"

\* AvoidanceDecisionOwner::decide: a review the episode does not carry is 34.
Decide(code, episode) ==
    IF code = AnomalyReview /\ episode # AnomalyReview THEN ObstacleInvalid ELSE code

\* composeCargoSafetyDecision: the fields of a decision follow from its code.
Compose(s, w, episode) ==
    LET d == DecisionInput(s, w)
        preview == Phase(d)
        code == Decide(preview, episode)
        fault == code \in FaultCodes
    IN [s EXCEPT
          !.valid = ~fault, !.warning_valid = ~fault, !.requested = code,
          !.warning = IF fault THEN 0 ELSE code,
          !.fault = IF fault THEN code ELSE 0,
          !.fault_mask = IF fault THEN {code} ELSE {},
          !.evidence = Evidence(s, d, code, code # preview)]
=============================================================================
