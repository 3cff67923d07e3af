-------------------------- MODULE StationaryMotion --------------------------
(***************************************************************************)
(* The zero-drift hold: StationaryMotionPolicy, and the frame thread that  *)
(* feeds it and pins the motion EKF to its anchor                          *)
(* (updateStationaryMotionState), while relocalization and loop closures   *)
(* move the pose between frames.                                           *)
(*                                                                         *)
(* Positions are points of a short rail, in units of the smallest movement *)
(* the policy tells from noise; the crane moves at most one per frame.  A  *)
(* frame in which NDT sees the crane measures its true position.  The EKF  *)
(* follows the measurement or lags behind it (its gain is small after a    *)
(* hold), and refuses one further away than the physical step limit.       *)
(***************************************************************************)
EXTENDS Integers, Sequences, SequencesExt

CONSTANTS
    Places,        \* 0..n: the rail
    MaxStep,       \* computeMaxOutputStep: the physical step limit
    EnterFrames,   \* enter_confirm_frames
    ExitFrames,    \* exit_confirm_frames
    Window,        \* exit_evidence_window_sec, in samples
    ExitMotion,    \* exit_cumulative_motion_m
    ForceDrift,    \* exit_force_anchor_drift_m
    ConfirmFrames, \* moving_confirm_timeout_sec, in frames
    CatchUpStep,   \* catch_up_max_step_m
    CatchUpFrames  \* catch_up_confirm_frames

VARIABLES
    crane,    \* where the crane is
    pose,     \* current_pose_ and the EKF position, as published
    raw,      \* diag_previous_raw_ndt_pose: the last NDT position, or None
    motion,   \* the policy's members, see Moving
    allow,    \* allow_persistent_map_commit_ of the last frame
    jump,     \* history: where a relocalization or loop closure put the
              \* pose since the last frame, or None
    settled   \* history: how many frames in a row the pose has been at the
              \* measurement since the last hold

vars == <<crane, pose, raw, motion, allow, jump, settled>>

None == -1
Gap(a, b) == IF a > b THEN a - b ELSE b - a
Toward(a, b, step) ==
    IF Gap(a, b) <= step THEN b ELSE IF b > a THEN a + step ELSE a - step

\* reset(): a policy that has seen nothing.  Members that the next state
\* does not read are cleared when a state is left.
Moving ==
    [state |-> "MOVING", enter |-> 0, anchor |-> None, rawAnchor |-> None,
     samples |-> <<>>, age |-> 0, complete |-> 0, last |-> None]

Init ==
    /\ crane \in Places /\ pose = crane
    /\ raw = None /\ motion = Moving
    /\ allow = FALSE /\ jump = None /\ settled = CatchUpFrames

-----------------------------------------------------------------------------
(***************************************************************************)
(* StationaryMotionPolicy::update on one frame: "reliable" is              *)
(* isReliableMeasurement, z the raw NDT position, f the filtered one.      *)
(***************************************************************************)
Hold(z, f) ==
    [motion EXCEPT !.state = "STATIONARY_HOLD", !.anchor = f,
                   !.rawAnchor = z, !.samples = <<[at |-> z, age |-> 0]>>, !.age = 0,
                   !.complete = 0]

WhileMoving(reliable, z, f) ==
    LET still == reliable /\ raw = z /\ f = pose
        n == IF still THEN motion.enter + 1 ELSE 0
    IN  IF n >= EnterFrames THEN [Hold(z, f) EXCEPT !.enter = 0]
        ELSE [motion EXCEPT !.enter = n]

WhileCatchUp(reliable, z, f) ==
    LET n == IF reliable /\ Gap(f, z) <= CatchUpStep
             THEN motion.complete + 1 ELSE 0
    IN  IF n >= CatchUpFrames
        THEN [Moving EXCEPT !.last = motion.last]
        ELSE [motion EXCEPT !.complete = n]

Plausible(reliable, z) ==
    reliable /\ motion.last # None /\ Gap(z, motion.last) <= MaxStep

\* The evidence window: samples of plausible movement with their age in
\* frames.  pruneMotionSamples keeps two however old they are.
Older(s) == [i \in DOMAIN s |-> [s[i] EXCEPT !.age = IF @ > Window THEN @
                                                     ELSE @ + 1]]
Pruned(s) ==
    LET old == {i \in 2..(Len(s) - 1) : s[i].age > Window}
    IN  IF old = {} THEN s ELSE SubSeq(s, Max(old), Len(s))
Samples(reliable, z) ==
    LET s == Older(motion.samples)
    IN  Pruned(IF Plausible(reliable, z) THEN Append(s, [at |-> z, age |-> 0])
               ELSE s)

Path(s) ==
    FoldLeft(+, 0, [i \in 1..(Len(s) - 1) |-> Gap(s[i].at, s[i + 1].at)])
Net(s) == IF s = <<>> THEN 0 ELSE Gap(Head(s).at, Last(s).at)
\* exit_direction_cosine_min, 0.8
Coherent(s) == Path(s) > 0 /\ 10 * Net(s) >= 8 * Path(s)

WhileHeld(reliable, z, f) ==
    LET s == Samples(reliable, z)
        starts == /\ motion.state = "STATIONARY_HOLD"
                  /\ Plausible(reliable, z) /\ Path(s) >= 1
        m == [motion EXCEPT
                !.samples = s,
                !.state = IF starts THEN "MOVING_CONFIRM" ELSE @,
                !.age = IF starts THEN 0
                        ELSE IF motion.state = "MOVING_CONFIRM"
                             THEN (IF @ > ConfirmFrames THEN @ ELSE @ + 1)
                        ELSE @,
                !.complete = IF starts THEN 0 ELSE @]
        enough == Len(s) - 1 >= ExitFrames
        drift == Gap(z, motion.rawAnchor)
        confirmed == enough /\ Net(s) >= ExitMotion /\ Coherent(s)
        forced == enough /\ drift >= ForceDrift
    IN  IF confirmed \/ forced
        THEN [Moving EXCEPT !.state = "CATCH_UP", !.last = motion.last]
        ELSE IF /\ m.state = "MOVING_CONFIRM" /\ m.age > ConfirmFrames
                /\ drift < ExitMotion /\ ~Coherent(s)
        THEN Hold(z, f)
        ELSE m

Policy(reliable, z, f) ==
    LET m == CASE motion.state = "MOVING" -> WhileMoving(reliable, z, f)
               [] motion.state = "CATCH_UP" -> WhileCatchUp(reliable, z, f)
               [] OTHER -> WhileHeld(reliable, z, f)
    IN  [m EXCEPT !.last = IF reliable THEN z ELSE @]

\* baseDecision and the CATCH_UP branch: where the frame's pose is put.
Constrained(m, reliable, z, f) ==
    CASE m.state = "STATIONARY_HOLD" -> m.anchor
      [] motion.state = "CATCH_UP" /\ m.state = "CATCH_UP" /\ reliable ->
            Toward(f, z, CatchUpStep)
      [] OTHER -> f

\* Map writes: a reliable frame of a crane that moves, and not the frame
\* that releases the hold.
Allowed(m, reliable) ==
    m.state = "MOVING" /\ motion.state # "CATCH_UP" /\ reliable

-----------------------------------------------------------------------------
(***************************************************************************)
(* One frame: registration, EKF, policy, constraint, publication.          *)
(***************************************************************************)
Frame ==
    \E there \in Places, sees, lags \in BOOLEAN :
        LET accepted == sees /\ Gap(there, pose) <= MaxStep
            f == IF accepted /\ ~lags THEN there ELSE pose
            \* without convergence the frame's raw pose is the current one
            z == IF sees THEN there ELSE pose
            reliable == accepted /\ (raw = None \/ Gap(there, raw) <= MaxStep)
            m == Policy(reliable, z, f)
        IN  /\ Gap(there, crane) <= 1
            /\ crane' = there
            /\ motion' = m
            /\ pose' = Constrained(m, reliable, z, f)
            /\ raw' = IF sees THEN there ELSE raw
            /\ allow' = Allowed(m, reliable)
            /\ jump' = None
            /\ settled' =
                IF m.state \in {"STATIONARY_HOLD", "MOVING_CONFIRM"} THEN 0
                ELSE IF settled = CatchUpFrames THEN settled
                ELSE IF reliable /\ Gap(f, z) <= CatchUpStep THEN settled + 1
                ELSE 0

\* applyRelocalizedPose: the EKF restarts at the pose the search found.
Relocalize ==
    /\ pose' = crane
    /\ jump' = crane
    /\ UNCHANGED <<crane, raw, motion, allow, settled>>

\* resetService, installLoadedRuntimeMap, handleLidarTimeRollback.
ResetStationaryState ==
    /\ motion' = Moving /\ raw' = None
    /\ allow' = FALSE /\ settled' = CatchUpFrames
    /\ UNCHANGED <<crane, pose, jump>>

Next == Frame \/ Relocalize \/ ResetStationaryState
Spec == Init /\ [][Next]_vars

-----------------------------------------------------------------------------
\* After a hold the published pose trails the crane by design.  A frame may
\* feed the maps again only when the pose has been at the measurement for
\* catch_up_confirm_frames frames in a row: one unreliable or lagging frame
\* starts the count again, however the hold was left.
NoWriteBeforeCaughtUp == allow => settled = CatchUpFrames

\* A recovered pose is not "pulled backwards to a stale absolute pose": the
\* frame after a relocalization publishes a pose within one physical step of
\* where the search, or the loop closure, put it.
RecoveredPoseStays ==
    [][jump # None /\ jump' = None => Gap(pose', jump) <= MaxStep]_vars
=============================================================================
