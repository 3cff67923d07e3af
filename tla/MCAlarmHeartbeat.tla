------------------------- MODULE MCAlarmHeartbeat -------------------------
(* Small instance of AlarmHeartbeat: one message per kind of outcome.      *)
EXTENDS AlarmHeartbeat

\* A loaded status without an obstacle.
BaseStatus ==
    [schema_valid |-> TRUE, valid |-> TRUE, warning_valid |-> TRUE,
     requested |-> Clear, warning |-> Clear, fault |-> 0, fault_mask |-> {},
     localization_valid |-> TRUE, hook_role |-> "AUXILIARY",
     hook_valid |-> FALSE, hook_load |-> "UNKNOWN",
     no_cargo_confirmed |-> FALSE, cargo_valid |-> TRUE, cargo_track |-> 1,
     evidence |-> "CLEAR", obstacle_valid |-> TRUE, obstacle_count |-> 0,
     track_contract |-> TRUE, finite_geometry |-> TRUE,
     distance |-> "FAR", clearance |-> "OK"]

ClearStatus == BaseStatus

HazardStatus ==
    [BaseStatus EXCEPT !.requested = Level1Warning, !.warning = Level1Warning,
        !.evidence = "HAZARD_CONFIRMED", !.obstacle_count = 1,
        !.distance = "L1", !.clearance = "LOW"]

PendingStatus ==
    [BaseStatus EXCEPT !.requested = ObstacleInvalid, !.warning = 0,
        !.warning_valid = FALSE, !.fault = ObstacleInvalid,
        !.fault_mask = {ObstacleInvalid}, !.evidence = "SPARSE_PENDING"]

HardObstacleFault == [PendingStatus EXCEPT !.evidence = "HARD_FAULT"]

\* A CLEAR request over hazard geometry: rejected by the contract.
InconsistentStatus == [HazardStatus EXCEPT !.requested = Clear, !.warning = Clear]

MCMessages ==
    {ClearStatus, HazardStatus, PendingStatus, HardObstacleFault,
     InconsistentStatus}
=============================================================================
