--------------------------- MODULE Relocalization ---------------------------
(***************************************************************************)
(* Loss and recovery of the map pose in NdtSlamNode.                       *)
(*                                                                         *)
(*   frame thread   consumeRelocalizationResult at the start of a frame,   *)
(*                  updateRelocalization after its registration, then the  *)
(*                  gate that runs the cargo pipeline or reports that      *)
(*                  localization is invalid; all under                     *)
(*                  runtime_state_mutex_.                                  *)
(*   worker         NdtRelocalizer: one queued job, one result slot.       *)
(*   services       load_map and reset, under the same mutex; relocalize   *)
(*                  takes no lock, so it may fall between the two halves   *)
(*                  of a frame.                                            *)
(*                                                                         *)
(* Only differences of frame numbers matter, so a job carries its age and  *)
(* the intervals count down; the map generation and the pose version of a  *)
(* job matter only as equal to the present ones or not ("current").  A job *)
(* is submitted at most once per frame and its result is taken once, in    *)
(* submission order: the policy's DISCARD_DUPLICATE cannot be reached from *)
(* this caller and has no branch here.                                     *)
(***************************************************************************)
EXTENDS Integers

CONSTANTS
    TriggerFrames,          \* relocalization_trigger_frames_
    GlobalTriggerFrames,    \* relocalization_global_trigger_frames_
    RequiredConfirmations,  \* relocalization_confirm_frames_
    RequestInterval,        \* relocalization_request_interval_frames_
    CooldownFrames,         \* relocalization_cooldown_frames_
    LocalMaxAge,            \* relocalization_result_max_age_frames_
    GlobalMaxAge,           \* relocalization_global_result_max_age_frames_
    Corrections             \* classes of mutually consistent corrections

VARIABLES
    pc,          \* the frame thread: "between" frames or in one ("register")
    loc,         \* the relocalization_* fields, see Init
    queued,      \* the relocalizer's job slot
    running,     \* the job its worker is searching (busy_)
    result,      \* the relocalizer's result slot
    safety,      \* the last cargo safety status: "pipeline" or "invalid"
    reported,    \* relocalization_invalid_safety_published_
    owed         \* history: whether a loaded map awaits its relocalization:
                 \* "no", "yes", or "rolled" once a time rollback intervened

vars == <<pc, loc, queued, running, result, safety, reported, owed>>

None == [mode |-> "none"]
Searching == {"SEARCHING_LOCAL", "SEARCHING_GLOBAL"}
NaturalRecovery == 3
Least(a, b) == IF a < b THEN a ELSE b
Down(n) == IF n = 0 THEN 0 ELSE n - 1
MaxAge(mode) == IF mode = "GLOBAL" THEN GlobalMaxAge ELSE LocalMaxAge

\* A job, with the frames since it was submitted and whether the map
\* generation and the pose version are still the ones it was stamped with.
NewJob(mode) == [mode |-> mode, age |-> 0, current |-> TRUE]
Aged(j) ==
    IF j = None THEN None
    ELSE [j EXCEPT !.age = Least(@ + 1, MaxAge(j.mode) + 1)]
Stale(j) == IF j = None THEN None ELSE [j EXCEPT !.current = FALSE]

\* bad and good are only compared with the triggers: they stop there.
Init ==
    /\ pc = "between"
    /\ loc = [state |-> "IDLE", reliable |-> TRUE, bad |-> 0, good |-> 0,
              count |-> 0, correction |-> "none", force |-> FALSE,
              wait |-> 0, cooldown |-> 0]
    /\ queued = None /\ running = None /\ result = None
    /\ safety = "none" /\ reported = FALSE /\ owed = "no"

-----------------------------------------------------------------------------
(***************************************************************************)
(* The worker.                                                             *)
(***************************************************************************)
\* workerLoop takes the queued job and raises busy_.
StartSearch ==
    /\ running = None /\ queued # None
    /\ running' = queued
    /\ queued' = None
    /\ UNCHANGED <<pc, loc, result, safety, reported, owed>>

\* Mutant: the worker forgets to lower busy_.
FinishSearchBusy ==
    /\ running # None
    /\ \E found \in Corrections \union {"none"} :
        result' = [mode |-> running.mode, age |-> running.age,
                   current |-> running.current, found |-> found]
    /\ UNCHANGED <<pc, loc, queued, running, safety, reported, owed>>

\* The search ends, with a correction or without one: its result supersedes
\* a result that nobody took, and busy_ falls.
FinishSearch ==
    /\ running # None
    /\ \E found \in Corrections \union {"none"} :
        result' = [mode |-> running.mode, age |-> running.age,
                   current |-> running.current, found |-> found]
    /\ running' = None
    /\ UNCHANGED <<pc, loc, queued, safety, reported, owed>>

-----------------------------------------------------------------------------
(***************************************************************************)
(* The first half of a frame: consumeRelocalizationResult.                 *)
(***************************************************************************)
\* A result is one more confirmation when it agrees with the last one.
Confirmations(r) ==
    IF loc.count > 0 /\ r.found = loc.correction THEN loc.count + 1 ELSE 1

\* evaluateRelocalizationConfirmation and its rail-mode twin.
Outcome(r) ==
    IF ~r.current THEN "DISCARD_IDENTITY"
    ELSE IF r.age > MaxAge(r.mode) THEN "DISCARD_STALE"
    ELSE IF r.found = "none" THEN "DISCARD_INVALID"
    ELSE IF Confirmations(r) >= RequiredConfirmations THEN "CONFIRMED"
    ELSE "CONFIRMING"

\* Nobody is waiting for a result.
Unwanted == loc.state = "IDLE" /\ loc.reliable /\ ~loc.force

\* The fields after result r was evaluated.
Consumed(r, outcome) ==
    CASE outcome = "CONFIRMED" ->
            [loc EXCEPT !.count = 0, !.correction = r.found, !.bad = 0,
                        !.good = 0, !.force = FALSE, !.reliable = TRUE,
                        !.state = "COOLDOWN"]
      [] outcome = "CONFIRMING" ->
            [loc EXCEPT !.count = Confirmations(r), !.correction = r.found,
                        !.state = "CONFIRMING"]
      [] OTHER ->
            [loc EXCEPT !.count = 0, !.correction = "none",
                        !.state = "DEGRADED"]

\* The frame number advances by one, and a result that is there is taken.
\* A confirmed result moves the pose (applyRelocalizedPose), which advances
\* the pose version under the jobs still under way.
BeginFrame ==
    LET r == Aged(result)
        ignored == r = None \/ Unwanted
        jumps == ~ignored /\ Outcome(r) = "CONFIRMED"
        next == IF ignored THEN loc ELSE Consumed(r, Outcome(r))
    IN  /\ pc = "between" /\ pc' = "register"
        /\ result' = None
        /\ queued' = IF jumps THEN Stale(Aged(queued)) ELSE Aged(queued)
        /\ running' = IF jumps THEN Stale(Aged(running)) ELSE Aged(running)
        /\ loc' = [next EXCEPT
                    !.wait = Down(@),
                    !.cooldown = IF jumps THEN CooldownFrames ELSE Down(@)]
        /\ owed' = IF jumps THEN "no" ELSE owed
        /\ UNCHANGED <<safety, reported>>

-----------------------------------------------------------------------------
(***************************************************************************)
(* The second half: updateRelocalization, then the gate of the cargo       *)
(* pipeline.                                                               *)
(***************************************************************************)
\* A good frame while the pose cools down.
CoolingDown(healthy) ==
    healthy /\ loc.reliable /\ loc.state = "COOLDOWN"

\* The counters after this frame's registration.  A healthy frame that
\* arrives while a search is forced counts as a bad one.
Counted(healthy) ==
    IF healthy /\ ~loc.force
    THEN [loc EXCEPT !.good = Least(@ + 1, NaturalRecovery)]
    ELSE [loc EXCEPT !.good = 0, !.bad = Least(@ + 1, GlobalTriggerFrames)]

NaturallyRecovered(healthy) ==
    /\ healthy /\ ~loc.force /\ loc.state # "IDLE"
    /\ Counted(healthy).good >= NaturalRecovery

MustSearch(c) == c.force \/ c.bad >= TriggerFrames

\* The pose is given up; a search is submitted unless the worker is busy,
\* the last request is too recent or there is no map to search in.
Lost(c, mapAvailable) ==
    LET mode == IF c.force \/ c.bad >= GlobalTriggerFrames
                THEN "GLOBAL" ELSE "LOCAL"
        submits == running = None /\ c.wait = 0 /\ mapAvailable
    IN  /\ queued' = IF submits THEN NewJob(mode) ELSE queued
        /\ loc' = [c EXCEPT
                    !.reliable = FALSE,
                    !.wait = IF submits THEN RequestInterval ELSE @,
                    !.state = IF ~submits THEN "DEGRADED"
                              ELSE IF mode = "GLOBAL" THEN "SEARCHING_GLOBAL"
                              ELSE "SEARCHING_LOCAL"]

UpdateRelocalization(healthy, mapAvailable) ==
    LET c == Counted(healthy) IN
    IF CoolingDown(healthy)
    THEN /\ loc' = [loc EXCEPT !.bad = 0, !.good = 0,
                        !.state = IF loc.cooldown = 0 THEN "IDLE" ELSE @]
         /\ UNCHANGED queued
    ELSE IF healthy /\ ~loc.force /\ loc.state = "IDLE"
    THEN /\ loc' = [c EXCEPT !.bad = 0]
         /\ UNCHANGED queued
    ELSE IF NaturallyRecovered(healthy)
    THEN /\ loc' = [c EXCEPT !.bad = 0, !.count = 0, !.reliable = TRUE,
                             !.state = "COOLDOWN", !.good = 0,
                             !.cooldown = CooldownFrames]
         /\ UNCHANGED queued
    ELSE IF ~MustSearch(c)
    THEN loc' = c /\ UNCHANGED queued
    ELSE Lost(c, mapAvailable)

\* A frame with a published pose runs the cargo pipeline if that pose is
\* reliable and authorized; otherwise the localization fault is published,
\* once.  updateRelocalization publishes it itself when it gives the pose up.
SafetyGate(success, authorized) ==
    LET lostNow == loc.reliable /\ ~loc'.reliable
        told == reported \/ lostNow
        runs == success /\ loc'.reliable /\ authorized
    IN  /\ safety' = IF runs THEN "pipeline"
                     ELSE IF lostNow \/ (success /\ ~told) THEN "invalid"
                     ELSE safety
        /\ reported' = (~runs /\ (told \/ success))

\* Rail mode does not report a frame that is neither healthy nor bad, and
\* a frame without an NDT attempt is not reported in either mode.
EndFrame(health, mapAvailable) ==
    /\ pc = "register" /\ pc' = "between"
    /\ IF health = "neutral" THEN UNCHANGED <<loc, queued>>
       ELSE UpdateRelocalization(health = "healthy", mapAvailable)
    /\ \E success, authorized \in BOOLEAN : SafetyGate(success, authorized)
    /\ UNCHANGED <<running, result, owed>>

-----------------------------------------------------------------------------
(***************************************************************************)
(* Everything else that changes these fields.                              *)
(***************************************************************************)
\* The boundaries that advance map_rebuild_generation_ or
\* keyframe_pose_version_ reach the jobs already under way.
IdentityChanges ==
    /\ queued' = Stale(queued)
    /\ running' = Stale(running)
    /\ result' = Stale(result)

\* relocalizeService, without a lock.
Relocalize ==
    /\ loc' = [loc EXCEPT !.count = 0, !.correction = "none", !.wait = 0,
                          !.force = TRUE]
    /\ UNCHANGED <<pc, queued, running, result, safety, reported, owed>>

\* updatePoseFromLoopClosure: the frame is corrected under the pose.
LoopClosure ==
    /\ pc = "between"
    /\ IdentityChanges
    /\ loc' = [loc EXCEPT !.reliable = FALSE, !.good = 0, !.bad = 0,
                          !.state = "DEGRADED"]
    /\ safety' = "invalid" /\ reported' = TRUE
    /\ UNCHANGED <<pc, owed>>

\* rebuildMapService advances both identities and leaves the rest alone.
RebuildMap ==
    /\ pc = "between"
    /\ IdentityChanges
    /\ UNCHANGED <<pc, loc, safety, reported, owed>>

\* The fields as resetService and handleLidarTimeRollback leave them.
Restarted ==
    [state |-> "IDLE", reliable |-> TRUE, bad |-> 0, good |-> 0,
     count |-> 0, correction |-> "none", force |-> FALSE, wait |-> 0,
     cooldown |-> 0]

Reset ==
    /\ pc = "between"
    /\ IdentityChanges
    /\ loc' = Restarted
    /\ reported' = FALSE /\ owed' = "no"
    /\ UNCHANGED <<pc, safety>>

\* handleLidarTimeRollback, at the start of a frame.  The map stays.
TimeRollback ==
    /\ pc = "between"
    /\ IdentityChanges
    /\ loc' = Restarted
    /\ reported' = FALSE
    /\ owed' = IF owed = "no" THEN "no" ELSE "rolled"
    /\ UNCHANGED <<pc, safety>>

\* Mutant: the load asks for a search without forcing it.
LoadMapUnforced ==
    /\ pc = "between"
    /\ IdentityChanges
    /\ loc' = [Restarted EXCEPT !.bad = GlobalTriggerFrames,
                                !.reliable = FALSE, !.state = "DEGRADED"]
    /\ safety' = "invalid" /\ reported' = TRUE /\ owed' = "yes"
    /\ UNCHANGED pc

\* installLoadedRuntimeMap: another map; the pose in it is unknown.
LoadMap ==
    /\ pc = "between"
    /\ IdentityChanges
    /\ loc' = [Restarted EXCEPT !.bad = GlobalTriggerFrames, !.force = TRUE,
                                !.reliable = FALSE, !.state = "DEGRADED"]
    /\ safety' = "invalid" /\ reported' = TRUE /\ owed' = "yes"
    /\ UNCHANGED pc

\* A frame whose registration was attempted, with a map to search in.
UsableFrame == \E health \in {"healthy", "bad"} : EndFrame(health, TRUE)

Next ==
    \/ StartSearch \/ FinishSearch
    \/ BeginFrame
    \/ \E health \in {"healthy", "bad", "neutral"},
          mapAvailable \in BOOLEAN : EndFrame(health, mapAvailable)
    \/ Relocalize \/ LoopClosure \/ RebuildMap
    \/ Reset \/ TimeRollback \/ LoadMap

\* Clouds keep coming and usable ones among them; the worker's search ends
\* (it is bounded by its candidate limit and by the iterations of each NDT).
Fairness ==
    /\ WF_vars(BeginFrame) /\ SF_vars(UsableFrame)
    /\ WF_vars(StartSearch) /\ WF_vars(FinishSearch)

Spec == Init /\ [][Next]_vars /\ Fairness

-----------------------------------------------------------------------------
TypeOK ==
    /\ pc \in {"between", "register"}
    /\ loc.state \in {"IDLE", "DEGRADED", "CONFIRMING", "COOLDOWN"}
                        \union Searching
    /\ loc.bad \in 0..GlobalTriggerFrames /\ loc.good \in 0..NaturalRecovery
    /\ loc.count \in 0..(RequiredConfirmations - 1)
    /\ safety \in {"none", "pipeline", "invalid"}

\* Between frames the cargo safety status that downstream nodes hold is a
\* pipeline result only while the map pose is reliable: whoever gives the
\* pose up (the frame thread, a loop closure, a map load) also replaces the
\* status, and no repeated-publication flag suppresses that replacement.
StatusNeverOutlivesPose ==
    pc = "between" /\ safety = "pipeline" => loc.reliable

\* After load_map the registration may look healthy against the new map by
\* accident: healthy frames alone never bring the pose back, whatever loop
\* closures, rebuilds and discarded results happen meanwhile; only a
\* confirmed search in the loaded map does, or a reset.
LoadedMapIsSearched == owed = "yes" => ~loc.reliable

\* Neither the status that others hold nor the node itself believes a pose
\* that was given up.
NoPoseWithoutEvidence == StatusNeverOutlivesPose /\ LoadedMapIsSearched

\* What load_map answers: "global relocalization required".
LoadedMapNeedsRelocalization == owed # "no" => ~loc.reliable

\* A forced search starts: relocalizeService promises that the next usable
\* cloud launches it.  It is launched, or the force flag falls because the
\* pose was recovered or the session was restarted.
ForcedSearchStarts ==
    loc.force ~> (loc.state = "SEARCHING_GLOBAL" \/ ~loc.force)
=============================================================================
