------------------------------ MODULE CargoLock ------------------------------
(***************************************************************************)
(* updateHookCargoLock: how a cluster under the hook becomes the formal    *)
(* cargo track, how the track is held when it is not seen, retired and     *)
(* recognised again.  A frame reads the gravity snapshot once to find the  *)
(* load edges and to admit tracking (Begin), and again, under the mutex of *)
(* the gravity callback, inside the lock (Update): the callback may run in *)
(* between (Gravity).                                                      *)
(*                                                                         *)
(* A detection is reduced to what the lock asks of it: how strong it is,   *)
(* which of the places in Places it is at (same place: within the gates),  *)
(* whether it hangs clear of the ground or rose from where it was first    *)
(* seen, whether its height was measured, its score margin and the         *)
(* LiDAR-empty verdict.  A frame lasts one unit of time.                   *)
(***************************************************************************)
EXTENDS Naturals

CONSTANTS Roles,       \* hook_load_signal_role_: "REQUIRED", "AUXILIARY"
          Places, Detections,
          Progress,    \* candidate_progress_timeout_sec
          Absolute,    \* candidate_absolute_timeout_sec
          Hold, Clear, \* lost_hold_sec, lost_clear_sec
          Rearm,       \* rearm_empty_confirm_sec
          Soft,        \* direct_bottom_soft_stale_sec
          Suspension,  \* suspension_confirm_frames
          Switch,      \* candidate_switch_confirm_frames
          Gaps,        \* candidate_max_gap_frames
          Reacquire    \* loaded_reacquire_confirm_frames

VARIABLES role, gravity, frame, lock, retired, streak

vars == <<role, gravity, frame, lock, retired, streak>>

GravityStates == {"LOADED", "EMPTY", "INHIBIT", "UNKNOWN"}

\* The identity authority's decision of the frame: no production owner, an
\* owner without a measurement of its own this frame, or with one.
Owners == {"none", "held", "fresh"}

LockStates == {"EMPTY", "CANDIDATE", "GEOMETRY_CONFIRMING", "LOCKED",
               "LOST_HOLD", "CLEAR_WAIT_REARM", "LOADED_REACQUIRE"}

NoLock == [state |-> "EMPTY", place |-> 0, progress |-> 0, confirm |-> 0,
           suspended |-> 0, raised |-> 0, challenger |-> 0, age |-> 0,
           idle |-> 0, seen |-> 0, weak |-> 0, owner |-> FALSE,
           authority |-> "none", vertical |-> "none", measured |-> 0,
           physical |-> 0, trusted |-> 0, rearm |-> 0,
           rearmGravity |-> "UNKNOWN"]

Least(a, b) == IF a < b THEN a ELSE b

\* An age in whole frames; beyond every threshold it is the same old age.
Old(a) == Least(a + 1, Absolute + 1)

Retained(l) == l.state \in {"LOCKED", "LOST_HOLD"}

Valid(det) == det.size # "none"

\* isStrongDetection counts points only.
Strong(det) == det.size \in {"strong", "formal"}

\* isLockStrongDetection or the compact profile, with a footprint and bottom.
Formal(det) == det.size = "formal"

-----------------------------------------------------------------------------
\* evaluateSuspendedCargoLock.
AllowCandidate(g) == role = "REQUIRED" => g = "LOADED"

AllowLock(g, det) ==
    CASE role = "REQUIRED" -> g = "LOADED"
      [] role = "AUXILIARY" -> g = "EMPTY" => det.hangs # "ground"

\* evaluateCargoPhysicalLockAuthority: gravity, or enough frames of a load
\* that rose or hangs.
Authority(g, l) ==
    CASE g = "LOADED" -> "gravity"
      [] g # "LOADED" /\ role = "REQUIRED" -> "none"
      [] g # "LOADED" /\ role # "REQUIRED" /\ l.raised >= Suspension -> "raised"
      [] g # "LOADED" /\ role # "REQUIRED" /\ l.raised < Suspension
            /\ l.suspended >= Suspension -> "suspended"
      [] OTHER -> "none"

\* load_evidence_requires_retention.
RetentionRequired(g) == g = "LOADED" \/ (role = "REQUIRED" /\ g # "EMPTY")

\* mutant: an empty hook alone does not end the wait
RearmOnLidarOnly(l, g, det) ==
    \/ det.empty /\ l.rearm >= Rearm
    \/ g = "LOADED" /\ l.rearmGravity # "LOADED"
    \/ Valid(det) /\ det.hangs = "suspended" /\ det.margin /\ ~det.identity

\* evaluateCargoRearm.
RearmAllowed(l, g, det) ==
    \/ det.empty /\ l.rearm >= Rearm
    \/ g = "EMPTY" /\ l.rearm >= Rearm
    \/ g = "LOADED" /\ l.rearmGravity # "LOADED"
    \/ Valid(det) /\ det.hangs = "suspended" /\ det.margin /\ ~det.identity

\* isDetectionConsistentWithLockedBox: enough points, the centre within the
\* gate of the held or predicted pose, the frozen box supported.
Associates(l, det) == Strong(det) /\ det.place = l.place

-----------------------------------------------------------------------------
\* rememberTrustedCargoPose: the age of the last pose with a Z authority.
Remember(l) ==
    IF l.vertical \in {"direct", "median"} THEN [l EXCEPT !.trusted = 0] ELSE l

\* updateLiveCargoPose, then rememberTrustedCargoPose: only a physical
\* measurement advances the formal Z authority; the median of the lock window
\* keeps its name while fresh and its stamp is not advanced.
LivePose(l, det) ==
    Remember(
      IF det.height
      THEN [l EXCEPT !.vertical = "direct", !.measured = 0, !.physical = 0]
      ELSE IF l.vertical = "median" /\ l.measured <= Soft THEN l
      ELSE [l EXCEPT !.vertical = "prediction"])

\* The lock transition: the owner's geometry, its median as Z authority when
\* the frame has no direct measurement of its own.
Locks(l, det, a) ==
    LET posed == LivePose([NoLock EXCEPT !.state = "LOCKED", !.authority = a,
                                         !.owner = TRUE, !.place = det.place],
                          det)
    IN  IF posed.vertical = "direct" THEN posed
        ELSE Remember([posed EXCEPT !.vertical = "median"])

\* mutant: the stalled window keeps its counts
WindowBridged(l, det) ==
    [l EXCEPT !.state = "GEOMETRY_CONFIRMING", !.confirm = 1, !.idle = 0,
              !.challenger = 0, !.place = det.place]

\* A new window of the robust confirmation, begun by this observation.
Window(l, det) ==
    [l EXCEPT !.state = "GEOMETRY_CONFIRMING", !.confirm = 1, !.idle = 0,
              !.suspended = IF det.hangs = "suspended" THEN 1 ELSE 0,
              !.raised = 0, !.challenger = 0, !.place = det.place]

\* clearHookLock.
ClearLock(l) == NoLock

-----------------------------------------------------------------------------
\* The states of updateHookCargoLock: l is the lock a frame later, g the
\* gravity state read under the mutex.

FromEmpty(l, g, det) ==
    IF AllowCandidate(g) /\ Strong(det)
    THEN [NoLock EXCEPT !.state = "CANDIDATE", !.progress = 1,
                        !.place = det.place]
    ELSE l

\* Two consistent observations begin the window; weak points keep the
\* candidate present but do not refresh its progress.
FromCandidate(l, g, det) ==
    LET consistent == Formal(det) /\ det.place = l.place
        n == IF consistent
             THEN [l EXCEPT !.progress = Least(2, @ + 1), !.idle = 0] ELSE l
    IN  CASE ~AllowCandidate(g) -> ClearLock(l)
          [] AllowCandidate(g) /\ consistent /\ n.progress >= 2 ->
                Window(n, det)
          [] AllowCandidate(g) /\ ~(consistent /\ n.progress >= 2) ->
                IF n.age >= Absolute THEN ClearLock(l)
                ELSE IF n.idle < Progress THEN n
                ELSE IF Formal(det)
                     THEN [n EXCEPT !.progress = 1, !.idle = 0,
                                    !.place = det.place]
                ELSE ClearLock(l)

\* Another identity than the window's: it takes over after Switch frames.
Challenged(l, det) ==
    LET n == [l EXCEPT !.challenger = Least(Switch, @ + 1)]
    IN  IF det.margin /\ n.challenger >= Switch
        THEN [Window(n, det) EXCEPT !.suspended = 0] ELSE n

\* The same identity: counted, and locked once the identity authority has an
\* owner with a measurement of this frame, and gravity or the lift allows it.
Confirmed(l, g, det, owner) ==
    LET n == [l EXCEPT
                !.challenger = 0, !.confirm = Least(Suspension, @ + 1),
                !.idle = 0,
                !.suspended = IF det.hangs = "suspended"
                              THEN Least(Suspension, @ + 1) ELSE 0,
                !.raised = IF det.hangs = "raised"
                           THEN Least(Suspension, @ + 1) ELSE 0]
        a == Authority(g, n)
    IN  IF /\ owner = "fresh" /\ det.shape
           /\ AllowLock(g, det) /\ a # "none"
        THEN Locks(n, det, a) ELSE n

\* A stalled window is left, or begun anew by the observation that ends it.
FromConfirming(l, g, det, owner) ==
    CASE ~AllowCandidate(g) -> [l EXCEPT !.state = "CANDIDATE", !.confirm = 0]
      [] AllowCandidate(g) /\ ~Formal(det) ->
            IF l.idle >= Progress
            THEN [NoLock EXCEPT !.state = "CANDIDATE", !.place = l.place]
            ELSE l
      [] AllowCandidate(g) /\ Formal(det) /\ l.idle >= Progress ->
            [Window(l, det) EXCEPT !.age = 0, !.progress = 1]
      [] AllowCandidate(g) /\ Formal(det) /\ l.idle < Progress ->
            IF det.place # l.place THEN Challenged(l, det)
            ELSE Confirmed(l, g, det, owner)

\* With a bound owner only the owner's own measurement refreshes the track.
FromLocked(l, g, det, owner) ==
    IF Associates(l, det) /\ (l.owner => owner = "fresh")
    THEN LivePose([l EXCEPT !.seen = 0], det)
    ELSE IF l.seen >= Hold
         THEN [l EXCEPT !.state = "LOST_HOLD", !.confirm = 0] ELSE l

FromLostHold(l, g, det) ==
    IF Associates(l, det)
    THEN LET n == LivePose([l EXCEPT !.seen = 0, !.confirm = @ + 1], det)
         IN  IF n.confirm >= Reacquire
             THEN [n EXCEPT !.state = "LOCKED", !.confirm = 0] ELSE n
    ELSE IF l.seen > Clear /\ ~RetentionRequired(g)
         THEN [ClearLock(l) EXCEPT !.state = "CLEAR_WAIT_REARM",
                                   !.rearmGravity = g]
    ELSE [l EXCEPT !.confirm = 0]

\* Still loaded and still there: the retired shape is looked for again.
Reacquirable(g, det) ==
    g = "LOADED" /\ retired /\ Formal(det) /\ det.identity

FromClear(l, g, det) ==
    CASE Reacquirable(g, det) ->
            [l EXCEPT !.state = "LOADED_REACQUIRE", !.confirm = 1, !.weak = 0,
                      !.place = det.place, !.rearm = 0]
      [] ~Reacquirable(g, det) ->
            IF RearmAllowed(l, g, det) THEN NoLock ELSE l

\* The locked shape comes back from the retired one.
FromReacquire(l, g, det) ==
    LET wait == [l EXCEPT !.state = "CLEAR_WAIT_REARM", !.confirm = 0,
                          !.rearm = 0]
        same == Formal(det) /\ det.identity /\ det.place = l.place
    IN  CASE g # "LOADED" \/ ~retired -> wait
          [] g = "LOADED" /\ retired /\ ~same ->
                IF l.weak + 1 > Gaps THEN [wait EXCEPT !.weak = 0]
                ELSE [l EXCEPT !.weak = @ + 1, !.confirm = 0]
          [] g = "LOADED" /\ retired /\ same ->
                IF l.confirm + 1 < Reacquire
                THEN [l EXCEPT !.weak = 0, !.confirm = @ + 1]
                ELSE LivePose([NoLock EXCEPT
                                 !.state = "LOCKED", !.place = l.place,
                                 !.confirm = l.confirm + 1,
                                 !.measured = Absolute + 1,
                                 !.physical = Absolute + 1,
                                 !.trusted = Absolute + 1], det)

\* One frame of time for every stamp the state compares.
Aged(l) ==
    CASE l.state \in {"CANDIDATE", "GEOMETRY_CONFIRMING"} ->
            [l EXCEPT !.age = Old(@), !.idle = Old(@)]
      [] Retained(l) -> [l EXCEPT !.seen = Old(@), !.measured = Old(@),
                                  !.physical = Old(@), !.trusted = Old(@)]
      [] l.state = "CLEAR_WAIT_REARM" -> [l EXCEPT !.rearm = Old(@)]
      [] OTHER -> l

UpdateLock(g, det, owner) ==
    LET l == Aged(lock)
    IN  CASE l.state = "EMPTY" -> FromEmpty(l, g, det)
          [] l.state = "CANDIDATE" -> FromCandidate(l, g, det)
          [] l.state = "GEOMETRY_CONFIRMING" -> FromConfirming(l, g, det, owner)
          [] l.state = "LOCKED" -> FromLocked(l, g, det, owner)
          [] l.state = "LOST_HOLD" -> FromLostHold(l, g, det)
          [] l.state = "CLEAR_WAIT_REARM" -> FromClear(l, g, det)
          [] l.state = "LOADED_REACQUIRE" -> FromReacquire(l, g, det)

-----------------------------------------------------------------------------
\* How often in a row each place was seen hanging, or raised: a look at it
\* on the ground, or no formal look for Progress frames, ends the row.
NoStreak == [n |-> 0, idle |-> 0]

Unseen(s) == IF s.idle + 1 >= Progress THEN NoStreak
             ELSE [s EXCEPT !.idle = @ + 1]

Streak(s, det, p) ==
    IF Formal(det) /\ det.place = p
    THEN [n |-> IF det.hangs = "ground" THEN 0
                ELSE IF s.idle + 1 >= Progress THEN 1
                ELSE Least(Suspension, s.n + 1),
          idle |-> 0]
    ELSE Unseen(s)

Init ==
    /\ role \in Roles
    /\ gravity = "UNKNOWN"
    /\ frame = [step |-> "begin", processed |-> "UNKNOWN", present |-> FALSE,
                refreshed |-> FALSE]
    /\ lock = NoLock
    /\ retired = FALSE
    /\ streak = [p \in Places |-> NoStreak]

\* hookLoadStateCallback, or the snapshot growing stale.
Gravity ==
    /\ gravity' \in GravityStates \ {gravity}
    /\ UNCHANGED <<role, frame, lock, retired, streak>>

\* resetCargoForHookState on a load edge: the lock is cleared and only its
\* retired signature is kept.
EdgeResets ==
    /\ gravity # frame.processed
    /\ gravity = "LOADED" \/ (gravity = "EMPTY" /\ role = "REQUIRED")

Admits ==
    \/ role # "REQUIRED"
    \/ gravity = "LOADED"
    \/ gravity = "UNKNOWN" /\ frame.present

\* The frame reads the gravity snapshot, resets the lock on an edge and
\* decides whether the lock may be updated.  A gravity-gated frame ends here.
Begin ==
    /\ frame.step = "begin"
    /\ frame' = [frame EXCEPT !.processed = gravity,
                              !.refreshed = FALSE,
                              !.present = gravity = "LOADED" \/ (gravity # "EMPTY" /\ @),
                              !.step = IF Admits THEN "update" ELSE "begin"]
    /\ lock' = IF EdgeResets THEN ClearLock(lock)
               ELSE IF Admits THEN lock ELSE Aged(lock)
    /\ retired' = (retired \/ (EdgeResets /\ Retained(lock)))
    /\ streak' = [p \in Places |->
                     IF EdgeResets THEN NoStreak
                     ELSE IF Admits THEN streak[p] ELSE Unseen(streak[p])]
    /\ UNCHANGED <<role, gravity>>

\* updateHookCargoLock on the frame's detection.
Update ==
    /\ frame.step = "update"
    /\ \E det \in Detections, owner \in Owners :
         \E l \in {UpdateLock(gravity, det, owner)} :
            /\ lock' = l
            /\ retired' = IF lock.state = "CLEAR_WAIT_REARM" /\ l.state = "EMPTY"
                          THEN FALSE
                          ELSE retired \/ (Retained(lock) /\ ~Retained(l))
            /\ streak' = [p \in Places |->
                             IF Retained(lock) THEN NoStreak
                             ELSE Streak(streak[p], det, p)]
            /\ frame' = [frame EXCEPT !.step = "begin",
                   !.refreshed = Retained(l) /\ l.owner /\ l.seen = 0
                                   /\ owner # "fresh"]
    /\ UNCHANGED <<role, gravity>>

Next == Gravity \/ Begin \/ Update

\* Clouds keep arriving and the frame loop runs each to its end.
Fairness == WF_vars(Begin) /\ WF_vars(Update)

Spec == Init /\ [][Next]_vars /\ Fairness

-----------------------------------------------------------------------------
\* A lock that rests on the lift instead of on gravity saw its load off the
\* ground Suspension times in a row: no stalled window, no other cluster and
\* no earlier load lends it a frame ("a stalled window must never become
\* consecutive by bridging the gap", GEOMETRY_CONFIRMING).
LiftIsConsecutive ==
    [][lock.state = "GEOMETRY_CONFIRMING" /\ lock'.state = "LOCKED"
          /\ lock'.authority \in {"raised", "suspended"}
       => streak'[lock'.place].n >= Suspension]_vars

\* The pose kept for a lost load is at most Soft frames younger than the last
\* measurement of its height: display and prediction frames cannot turn one
\* physical observation into a lasting Z authority (updateLiveCargoPose).
TrustIsBounded ==
    Retained(lock) => lock.trusted + Soft >= lock.physical

\* Neither the lock nor the pose kept for a lost load outlives what was
\* measured of it.
LockIsMeasured == LiftIsConsecutive /\ []TrustIsBounded

\* An EMPTY hook ends the wait for a new load: CLEAR_WAIT_REARM is not for
\* ever, whatever LiDAR keeps seeing (evaluateCargoRearm).
RearmEnds ==
    <>[](gravity = "EMPTY") => []<>(lock.state # "CLEAR_WAIT_REARM")

\* "Once REQUIRED gravity has established cargo presence, loss of LiDAR
\* geometry (or a stale gravity stream) cannot erase the retained cargo.
\* Only a fresh authoritative EMPTY may retire the track."
OnlyEmptyRetires ==
    [][role = "REQUIRED" /\ Retained(lock) /\ ~Retained(lock')
       => gravity = "EMPTY"]_vars

\* "with a latched production owner, the Bottom vertical authority is the
\* SAME owner's current fresh physical measurement": no refresh of a bound
\* track without one.
OwnerMeasuresTheTrack == ~frame.refreshed

\* "after G, LOCKED always carries a latched owner".
LockedHasOwner == lock.state = "LOCKED" => lock.owner
=============================================================================
