-------------------------- MODULE RegistrationGate --------------------------
(***************************************************************************)
(* What one registration may do: the part of processCloudThread between    *)
(* the alignment of a cloud and the map writes, with                       *)
(* NdtFitnessCircuitBreaker, the accept/reject control of CraneMotionEKF   *)
(* and evaluateRailLocalizationHealth.                                     *)
(*                                                                         *)
(* A fitness score is abstracted to how it compares with the breaker's     *)
(* thresholds of that moment:                                              *)
(*   "good"  at most the recovery threshold     "fair"  below the adaptive *)
(*   "high"  at least the adaptive threshold    "hard"  at least the hard  *)
(*   "nan"   not a finite non-negative number           limit              *)
(* While the baseline warms up the adaptive threshold is the hard limit,   *)
(* so "high" does not occur.  Scores up to "fair" pass                     *)
(* map_commit_max_fitness_.  Only the breaker that has authority is kept:  *)
(* the NDT one in LEGACY mode, the rail one in RAIL_AUTHORITY mode, whose  *)
(* fitness is that of the fixed-yaw solution.                              *)
(***************************************************************************)
EXTENDS Integers

CONSTANTS
    Warmup,           \* warmup_samples
    EnterFrames,      \* enter_confirmations
    RecoveryFrames,   \* recovery_confirmations
    MaxSinceGood,     \* max_frames_since_good_ndt
    MaxRejects        \* max_reject_innovation_frames

\* validConfig asks for two confirmations of either kind and more.
ASSUME RegistrationConstants ==
    /\ Warmup \in Nat /\ MaxSinceGood \in Nat /\ MaxRejects \in Nat
    /\ EnterFrames \in Nat \ {0} /\ RecoveryFrames \in Nat \ {0}

VARIABLES
    rail,      \* yaw_authority_mode_ = RAIL_AUTHORITY
    boot,      \* bootstrap_local_map_complete_
    breaker,   \* the members of the circuit breaker in authority
    ekf,       \* CraneMotionEKF: initialized_ and its status counters
    fitness,   \* last_ndt_fitness_, which outlives the frame
    converged, \* last_ndt_converged_, which outlives the frame
    trust,     \* history: good matches since the breaker last opened
    out        \* what the last frame did, see NoFrame

vars == <<rail, boot, breaker, ekf, fitness, converged, trust, out>>

Fitness == {"good", "fair", "high", "hard", "nan"}
CommitFitness == {"good", "fair"}

ClosedBreaker == [open |-> FALSE, bad |-> 0, recovery |-> 0, baseline |-> 0]
NewEkf == [init |-> FALSE, accepted |-> FALSE, since |-> 0, rejects |-> 0]
InitializedEkf == [NewEkf EXCEPT !.init = TRUE, !.accepted = TRUE]
NoFrame == [measured |-> FALSE, success |-> FALSE, health |-> "none",
            local |-> FALSE, commit |-> FALSE, safety |-> FALSE]

Init ==
    /\ rail \in BOOLEAN
    /\ boot = FALSE
    /\ breaker = ClosedBreaker /\ ekf = NewEkf
    /\ fitness = "nan" /\ converged = FALSE
    /\ trust = RecoveryFrames
    /\ out = NoFrame

-----------------------------------------------------------------------------
(***************************************************************************)
(* NdtFitnessCircuitBreaker::update.                                       *)
(***************************************************************************)
Ready(b) == b.baseline >= Warmup
Appended(b) == [b EXCEPT !.baseline = IF @ < Warmup THEN @ + 1 ELSE @]
Opened(b) == [b EXCEPT !.open = TRUE, !.bad = EnterFrames, !.recovery = 0]

\* Mutant: a match that is merely fair does not restart the recovery count.
BreakerForgetsStreak(b, f) ==
    CASE f \in {"hard", "nan"} -> Opened(b)
      [] f \notin {"hard", "nan"} /\ b.open ->
            LET n == IF f = "good" THEN b.recovery + 1 ELSE b.recovery
            IN  IF n >= RecoveryFrames
                THEN Appended([b EXCEPT !.open = FALSE, !.bad = 0,
                                        !.recovery = 0])
                ELSE [b EXCEPT !.recovery = n]
      [] f = "high" /\ ~b.open ->
            IF b.bad + 1 >= EnterFrames THEN Opened(b)
            ELSE [b EXCEPT !.bad = @ + 1, !.recovery = 0]
      [] OTHER -> Appended([b EXCEPT !.bad = 0, !.recovery = 0])

BreakerUpdate(b, f) ==
    CASE f \in {"hard", "nan"} -> Opened(b)
      [] f \notin {"hard", "nan"} /\ b.open ->
            LET n == IF f = "good" THEN b.recovery + 1 ELSE 0
            IN  IF n >= RecoveryFrames
                THEN Appended([b EXCEPT !.open = FALSE, !.bad = 0,
                                        !.recovery = 0])
                ELSE [b EXCEPT !.recovery = n]
      [] f = "high" /\ ~b.open ->
            IF b.bad + 1 >= EnterFrames THEN Opened(b)
            ELSE [b EXCEPT !.bad = @ + 1, !.recovery = 0]
      [] OTHER -> Appended([b EXCEPT !.bad = 0, !.recovery = 0])

\* allow_measurement of a decision is that the breaker ends up closed.
Possible(b, f) == f = "high" => Ready(b)

\* The history: matches counted good since the last opening.
Trusted(b, f) ==
    LET n == BreakerUpdate(b, f)
    IN  IF n.open THEN (IF f = "good" /\ b.open THEN trust + 1 ELSE 0)
        ELSE IF b.open THEN trust + 1 ELSE trust

-----------------------------------------------------------------------------
(***************************************************************************)
(* CraneMotionEKF: which measurements it takes.                            *)
(***************************************************************************)
\* maybeRecover resets the counters (and the covariance) past their limits.
MaybeRecover(e) ==
    IF e.since <= MaxSinceGood /\ e.rejects <= MaxRejects THEN e
    ELSE [e EXCEPT !.since = 0, !.rejects = 0]

PredictWithoutMeasurement(e) ==
    IF ~e.init THEN [e EXCEPT !.accepted = FALSE]
    ELSE MaybeRecover([e EXCEPT !.accepted = FALSE, !.since = @ + 1])

\* An innovation outlier with degraded fitness, or an output step beyond
\* the physical limit, is not accepted.
UpdateWithNDT(e, plausible) ==
    IF plausible THEN [e EXCEPT !.accepted = TRUE, !.since = 0, !.rejects = 0]
    ELSE MaybeRecover([e EXCEPT !.accepted = FALSE, !.since = @ + 1,
                                !.rejects = @ + 1])

-----------------------------------------------------------------------------
(***************************************************************************)
(* After the registration: health, motion permission, map writes.          *)
(***************************************************************************)
\* evaluateRailLocalizationHealth for a rail frame.  "unusable" are the
\* failures that a search cannot mend: yaw reference, map identity, target.
RailHealth(usable, fixedXy, allowed, baselineReady, accepted) ==
    IF ~usable THEN "unusable"
    ELSE IF ~fixedXy \/ ~allowed THEN "bad"
    ELSE IF ~accepted \/ ~baselineReady THEN "neutral"
    ELSE "healthy"

\* frame_ndt_healthy of LEGACY mode.
LegacyHealth(isConverged, measured, allowed, f, accepted) ==
    IF isConverged /\ measured /\ allowed /\ f # "nan" /\ accepted
    THEN "healthy" ELSE "bad"

\* What the frame reports and writes.  success: a pose is published;
\* allowed: the frame's fitness decision; measured: NDT converged to a safe
\* transform in this very frame; quality: structure and observability;
\* still: the stationary policy's veto; reliable: the pose is not lost.
Report(success, attempted, allowed, measured, usable, fixedXy, quality, still, reliable, isConverged, e, b, f) ==
    LET accepted == allowed /\ e.accepted
        frameAccepted == measured /\ accepted
        health == IF rail THEN RailHealth(usable, fixedXy, allowed,
                                          fixedXy /\ Ready(b), e.accepted)
                  ELSE LegacyHealth(isConverged, measured, allowed, f,
                                    e.accepted)
        mapAuthority == rail => health = "healthy"
        moving == frameAccepted /\ f \in CommitFitness /\ quality /\ ~still
    IN  [measured |-> measured, success |-> success,
         health |-> IF attempted THEN health ELSE "none",
         local |-> success /\ moving /\ mapAuthority /\ reliable,
         commit |-> success /\ accepted /\ f \in CommitFitness
                    /\ moving /\ mapAuthority /\ reliable,
         safety |-> success /\ reliable /\ mapAuthority]

\* A cloud with too little structure or observability: no alignment.
SkipFrame ==
    \E still, reliable, usable \in BOOLEAN :
        /\ ekf' = PredictWithoutMeasurement(ekf)
        /\ fitness' = "nan" /\ converged' = FALSE
        /\ out' = Report(ekf.init, FALSE, TRUE, FALSE, usable, FALSE, FALSE,
                         still, reliable, converged', ekf', breaker, "nan")
        /\ UNCHANGED <<rail, boot, breaker, trust>>

\* The first clouds build the local map without registration; their pose is
\* published as it stands.
BootstrapFrame ==
    \E last, usable, still, reliable \in BOOLEAN :
        /\ ~boot /\ boot' = last
        /\ fitness' = "nan" /\ converged' = FALSE
        /\ out' = Report(TRUE, FALSE, TRUE, FALSE, usable, FALSE, TRUE, still,
                         reliable, converged', ekf, breaker, "nan")
        /\ UNCHANGED <<rail, breaker, ekf, trust>>

\* align() throws: the members of the previous frame stay as they are, and
\* no pose is published.
ExceptionFrame ==
    \E usable, still, reliable \in BOOLEAN :
        /\ boot
        /\ UNCHANGED <<rail, boot, breaker, ekf, fitness, converged, trust>>
        /\ out' = Report(FALSE, TRUE, TRUE, FALSE, usable, FALSE, TRUE, still,
                         reliable, converged', ekf, breaker, fitness)

\* NDT does not converge, or not to a rigid transform: predict.  In LEGACY
\* mode the breaker has seen the score of a transform that is unusable.
UnusableFrame ==
    \E usable, still, reliable \in BOOLEAN :
    \E f \in Fitness \union {"unconverged"} :
        /\ boot /\ f # "unconverged" => Possible(breaker, f)
        /\ converged' = (f # "unconverged")
        /\ fitness' = IF f = "unconverged" THEN "nan" ELSE f
        /\ breaker' = IF rail \/ f = "unconverged" THEN breaker
                      ELSE BreakerUpdate(breaker, f)
        /\ trust' = IF rail \/ f = "unconverged" THEN trust
                    ELSE Trusted(breaker, f)
        /\ ekf' = IF ekf.init THEN PredictWithoutMeasurement(ekf) ELSE ekf
        /\ out' = Report(ekf.init, TRUE, ~breaker'.open, FALSE, usable, FALSE,
                         TRUE, still, reliable, converged', ekf', breaker',
                         fitness')
        /\ UNCHANGED <<rail, boot>>

\* NDT converged to a rigid transform.  In RAIL_AUTHORITY mode the fixed-yaw
\* solution must confirm it, and its fitness is the one that counts.
RegisteredFrame ==
    \E plausible, near, usable, fixedYaw, quality, still, reliable \in BOOLEAN :
    \E f \in Fitness :
        LET evaluated == rail => usable /\ fixedYaw
            b == IF evaluated THEN BreakerUpdate(breaker, f) ELSE breaker
            allowed == evaluated /\ ~b.open
            predicts == ~allowed \/ (ekf.init /\ ~near)
            e == IF ~ekf.init THEN (IF predicts THEN ekf ELSE InitializedEkf)
                 ELSE IF predicts THEN PredictWithoutMeasurement(ekf)
                 ELSE UpdateWithNDT(ekf, plausible)
        IN  /\ boot /\ Possible(breaker, f)
            /\ converged' = TRUE /\ fitness' = f
            /\ breaker' = b
            /\ trust' = IF evaluated THEN Trusted(breaker, f) ELSE trust
            /\ ekf' = e
            /\ out' = Report(e.init, TRUE, allowed, TRUE, usable,
                             usable /\ fixedYaw, quality, still, reliable,
                             converged', e, b, f)
            /\ UNCHANGED <<rail, boot>>

-----------------------------------------------------------------------------
\* applyRelocalizedPose restarts the EKF at the recovered pose and both
\* breakers.
Relocalized ==
    /\ ekf' = InitializedEkf /\ breaker' = ClosedBreaker
    /\ trust' = RecoveryFrames
    /\ UNCHANGED <<rail, boot, fitness, converged, out>>

\* updatePoseFromLoopClosure restarts the EKF only.
LoopCorrected ==
    /\ ekf' = InitializedEkf
    /\ UNCHANGED <<rail, boot, breaker, fitness, converged, trust, out>>

\* handleLidarTimeRollback forgets the EKF and the rail breaker; the NDT
\* breaker keeps its baseline and its state.
TimeRollback ==
    /\ ekf' = NewEkf
    /\ breaker' = IF rail THEN ClosedBreaker ELSE breaker
    /\ trust' = IF rail THEN RecoveryFrames ELSE trust
    /\ UNCHANGED <<rail, boot, fitness, converged, out>>

Next ==
    \/ SkipFrame \/ BootstrapFrame \/ ExceptionFrame
    \/ UnusableFrame \/ RegisteredFrame
    \/ Relocalized \/ LoopCorrected \/ TimeRollback

Spec == Init /\ [][Next]_vars

-----------------------------------------------------------------------------
\* The members of the breaker and of the EKF stay within their limits.
BreakerOK ==
    /\ breaker \in [open : BOOLEAN, bad : 0 .. EnterFrames,
                    recovery : 0 .. RecoveryFrames, baseline : 0 .. Warmup]
    /\ trust \in 0 .. RecoveryFrames
EkfOK == ekf \in [init : BOOLEAN, accepted : BOOLEAN,
                  since : 0 .. MaxSinceGood, rejects : 0 .. MaxRejects]
FrameOK ==
    /\ rail \in BOOLEAN /\ boot \in BOOLEAN
    /\ fitness \in Fitness /\ converged \in BOOLEAN
    /\ out \in [measured : BOOLEAN, success : BOOLEAN,
                health : {"none", "healthy", "neutral", "bad", "unusable"},
                local : BOOLEAN, commit : BOOLEAN, safety : BOOLEAN]
TypeOK == BreakerOK /\ EkfOK /\ FrameOK

\* The fitness decision of a frame starts out as "allowed", and the EKF's
\* ndt_accepted, last_ndt_fitness_ and last_ndt_converged_ survive from
\* earlier frames.  Whatever combination of them a frame meets, only a
\* measurement made in this very frame feeds a map or counts as healthy for
\* the recovery of a lost pose.
OnlyMeasurementsCount ==
    out.local \/ out.commit \/ out.health = "healthy" => out.measured

\* Once the breaker opened, the maps stay untouched until it has seen
\* recovery_confirmations good matches with no worse match among them, or
\* the pose was relocalized.
NoWriteUnderOpenBreaker ==
    out.local \/ out.commit => trust >= RecoveryFrames /\ ~breaker.open

\* Only a trusted measurement of this frame feeds the maps.
OnlyTrustedFramesWrite == OnlyMeasurementsCount /\ NoWriteUnderOpenBreaker
=============================================================================
