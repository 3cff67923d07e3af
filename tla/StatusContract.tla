--------------------------- MODULE StatusContract ---------------------------
(***************************************************************************)
(* The typed safety contract of cargo_alarm_heartbeat_node: the codes of   *)
(* CargoSafetyStatus (schema v7) and validateStatusContract, the check     *)
(* every status passes before its code may reach the main controller.      *)
(*                                                                         *)
(* Metric fields are abstracted to the bands the thresholds tell apart:    *)
(*   distance   "L1"  : d <= level1_distance_m                             *)
(*              "L2"  : level1_distance_m < d <= level2_distance_m         *)
(*              "FAR" : d > level2_distance_m                              *)
(*   clearance  "LOW" / "OK" against minimum_vertical_clearance_m          *)
(* and the fields that are only tested together are one flag each:         *)
(*   finite_geometry   distance, top, uncertainty and clearance are finite *)
(*                     and non-negative where required                     *)
(*   track_contract    both track ids, the streak, large geometry,         *)
(*                     provenance and a positive confidence                *)
(* fault_mask is the set of fault codes whose bit is set.                  *)
(***************************************************************************)
EXTENDS Integers, FiniteSets

Clear               == 14
Level1Warning       == 17
Level2Warning       == 18
AnomalyReview       == 29
SystemNotReady      == 30
LocalizationInvalid == 31
GravityInvalid      == 32
CargoInvalid        == 33
ObstacleInvalid     == 34
InternalError       == 35

WarningCodes == {Clear, Level1Warning, Level2Warning, AnomalyReview}
FaultCodes   == SystemNotReady .. InternalError

\* AlarmStateMachine::isAllowedCode
AllowedCodes == WarningCodes \cup FaultCodes

HookRoles      == {"DISABLED", "REQUIRED", "AUXILIARY"}
HookLoadStates == {"UNKNOWN", "INHIBIT", "EMPTY", "LOADED"}

PendingEvidence ==
    {"HAZARD_CANDIDATE", "TRACK_CONFIRMATION_PENDING",
     "SPARSE_PENDING", "SOURCE_UNRESOLVED"}
EvidenceStates ==
    PendingEvidence \cup
    {"UNKNOWN", "CLEAR", "HAZARD_CONFIRMED", "HARD_FAULT", "REVIEW_REQUIRED"}

-----------------------------------------------------------------------------

GravityRequired(m) == m.hook_role = "REQUIRED"

HookSupports(m, load) ==
    GravityRequired(m) => m.hook_valid /\ m.hook_load = load

SafeEmpty(m) ==
    /\ m.localization_valid
    /\ HookSupports(m, "EMPTY")
    /\ m.no_cargo_confirmed
    /\ ~m.cargo_valid

ValidLoaded(m) ==
    /\ m.localization_valid
    /\ HookSupports(m, "LOADED")
    /\ ~m.no_cargo_confirmed
    /\ m.cargo_valid
    /\ m.obstacle_valid

ProvisionalPositiveLoaded(m) ==
    /\ m.localization_valid
    /\ HookSupports(m, "LOADED")
    /\ ~m.no_cargo_confirmed
    /\ ~m.cargo_valid
    /\ m.obstacle_valid
    /\ m.evidence \in {"HAZARD_CANDIDATE", "REVIEW_REQUIRED"}

ClusterGeometryValid(m) == m.obstacle_count > 0 /\ m.finite_geometry

\* The fault half of the contract: a fault status names one code, carries
\* its mask bit and no warning; 32 is reserved for a REQUIRED gravity role.
FaultContract(m) ==
    /\ m.requested = m.fault
    /\ ~m.warning_valid
    /\ m.warning = 0
    /\ m.fault \in m.fault_mask
    /\ m.fault = GravityInvalid => GravityRequired(m)

WarningContract(m) ==
    /\ m.fault_mask = {}
    /\ m.warning_valid
    /\ m.valid
    /\ m.requested = m.warning
    /\ m.warning # 0

ClearContract(m) ==
    \/ SafeEmpty(m)
    \/ /\ ValidLoaded(m)
       /\ \/ m.obstacle_count = 0
          \/ /\ ClusterGeometryValid(m)
             /\ m.clearance = "OK" \/ m.distance = "FAR"

ReviewContract(m) ==
    /\ ValidLoaded(m) \/ ProvisionalPositiveLoaded(m)
    /\ ClusterGeometryValid(m)

HazardContract(m, band) ==
    /\ ValidLoaded(m) \/ (ProvisionalPositiveLoaded(m) /\ m.track_contract)
    /\ ClusterGeometryValid(m)
    /\ m.distance = band
    /\ m.clearance = "LOW"

\* Whether validateStatusContract returns valid = true.
StatusAccepted(m) ==
    /\ m.schema_valid
    /\ m.hook_role \in HookRoles
    /\ m.warning \in {0} \cup WarningCodes
    /\ m.fault \in {0} \cup FaultCodes
    /\ m.requested \in AllowedCodes
    /\ IF m.fault # 0
       THEN FaultContract(m)
       ELSE /\ WarningContract(m)
            /\ CASE m.warning = Clear         -> ClearContract(m)
                 [] m.warning = AnomalyReview -> ReviewContract(m)
                 [] m.warning = Level1Warning -> HazardContract(m, "L1")
                 [] m.warning = Level2Warning -> HazardContract(m, "L2")

\* StatusContractResult::code
ValidateStatusContract(m) ==
    IF StatusAccepted(m) THEN m.requested ELSE InternalError
=============================================================================
