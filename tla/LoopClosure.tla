----------------------------- MODULE LoopClosure -----------------------------
(***************************************************************************)
(* Loop closing in NdtSlamNode: the keyframe database of                   *)
(* LoopClosureDetector and KeyFrameManager, the detection request, the     *)
(* worker thread of processLoopClosure, the slot its result waits in and   *)
(* the turn in which the owner thread applies it.                          *)
(*                                                                         *)
(* A pose is abstracted to the frame it is expressed in: a pair of the     *)
(* database's epoch and the number of corrections.  The optimiser gives    *)
(* absolute poses to the keyframes of its snapshot and one correction to   *)
(* everything newer, so a result of another frame would mix two.  Which    *)
(* pair of keyframes closes a loop, and whether ICP and optimiser succeed, *)
(* is free.  A keyframe is committed with the pose of the moment; jobs     *)
(* that wait in the queue meanwhile are MapCommit's.                       *)
(***************************************************************************)
EXTENDS Naturals, Sequences, FiniteSets, SequencesExt

CONSTANTS
    RailModes,      \* the values of RAIL_AUTHORITY mode to consider
    MinKeyframes,   \* 30 in the code
    Spacing,        \* min_keyframe_gap, 25 in the code
    Interval,       \* loop_detection_interval_
    MaxKeyframes,   \* keyframe.max_keyframes
    MaxActive,      \* max_active_keyframes_
    MaxIds,         \* bound on keyframe ids
    MaxBoundaries   \* bound on resets, loads, rebuilds, relocalizations

VARIABLES
    rail,           \* yaw_authority_mode_ is RAIL_AUTHORITY
    keyframes,      \* the database, oldest first
    counters,       \* last_keyframe_id_, keyframe_count_
    version,        \* keyframe_pose_version_
    epoch,          \* map_rebuild_generation_, the yaw reference with it
    pose,           \* the frame of current_pose_
    pending,        \* loop_closure_pending_
    maintenance,    \* map_maintenance_pending_
    running,        \* loop_closure_running_
    worker,         \* loop_closure_thread_
    slot,           \* loop_closure_result_
    ready,          \* loop_closure_result_ready_
    processed,      \* processed_loops_
    owner,          \* the owner thread: "idle", or in the middle of a turn
    wanted,         \* history: a request no snapshot has answered yet
    boundaries      \* bound only

database == <<keyframes, counters>>
flags == <<pending, maintenance>>
thread == <<running, worker, slot>>
vars == <<rail, database, version, epoch, pose, flags, thread, ready, processed,
          owner, wanted, boundaries>>

NoResult == [valid |-> FALSE]
Idle == [pc |-> "idle"]

Init ==
    /\ rail \in RailModes
    /\ keyframes = <<>> /\ counters = [last |-> 0, count |-> 0]
    /\ version = 1 /\ epoch = 1 /\ pose = <<1, 0>>
    /\ pending = FALSE /\ maintenance = FALSE
    /\ running = FALSE /\ worker = Idle /\ slot = NoResult
    /\ ready = FALSE /\ processed = {} /\ owner = "idle"
    /\ wanted = FALSE /\ boundaries = 0

-----------------------------------------------------------------------------
(* The commit thread.                                                      *)

\* KeyFrameManager::addKeyFrame.
Added(db, k) ==
    Append(IF Len(db) >= MaxKeyframes THEN Tail(db) ELSE db, k)

\* The database takes the keyframe and a commit always asks for maintenance;
\* every Interval-th asks for a detection.
CommitKeyframe ==
    /\ counters.last < MaxIds
    /\ keyframes' = Added(keyframes, [id |-> counters.last + 1, frame |-> pose, cloud |-> TRUE])
    /\ counters' = [last |-> counters.last + 1, count |-> counters.count + 1]
    /\ maintenance' = TRUE
    /\ pending' = (pending \/ counters'.count % Interval = 0)
    /\ wanted' = (wanted \/ counters'.count % Interval = 0)
    /\ UNCHANGED <<rail, version, epoch, pose, thread, ready, processed, owner, boundaries>>

-----------------------------------------------------------------------------
(* The worker.                                                             *)

Work(next) ==
    /\ worker' = next
    /\ UNCHANGED <<rail, database, version, epoch, pose, flags, processed, owner,
                   wanted, boundaries>>

Ids(s) == {s[i].id : i \in DOMAIN s}

\* The pairs detectLoop may find: the last keyframe and one far enough
\* before it, both with their clouds.
Pairs(s) ==
    {<<s[i].id, Last(s).id>> : i \in {j \in 1..Len(s) - Spacing : Last(s).cloud /\ s[j].cloud}}

\* The result of a snapshot: nothing, a pair that failed to verify or to
\* optimise, or optimised keyframes one correction further.
Results(w) ==
    {NoResult} \union
    {[valid |-> TRUE, version |-> w.version, epoch |-> w.epoch, rail |-> rail, pair |-> p,
      last |-> Last(w.snapshot).id,
      optimized |-> [i \in Ids(w.snapshot) |->
                        LET k == CHOOSE x \in Range(w.snapshot) : x.id = i
                        IN <<k.frame[1], k.frame[2] + 1>>]] : p \in Pairs(w.snapshot)}

\* detectLoop and the optimisation, on the snapshot, without a lock; the
\* result enters its slot.
WorkerOptimizes ==
    /\ worker.pc = "works"
    /\ \E r \in Results(worker) : slot' = r
    /\ Work([worker EXCEPT !.pc = "stored"])
    /\ UNCHANGED <<running, ready>>

WorkerRaisesReady ==
    /\ worker.pc = "stored"
    /\ ready' = TRUE
    /\ Work([worker EXCEPT !.pc = "ready"])
    /\ UNCHANGED <<running, slot>>

WorkerEnds ==
    /\ worker.pc = "ready"
    /\ running' = FALSE
    /\ Work(Idle)
    /\ UNCHANGED <<slot, ready>>

-----------------------------------------------------------------------------
(* The owner thread: every turn takes a result first.                      *)

\* Mutant: a result of an older pose version is applied.
OfThisVersionAlways(r) == TRUE

OfThisVersion(r) == r.version = version /\ (r.rail => r.epoch = epoch)

\* applyOptimizedPoses, applyRailOptimizedTranslations
ApplyOptimizedPoses(r) ==
    [i \in DOMAIN keyframes |->
        LET k == keyframes[i] IN
        IF k.id \in DOMAIN r.optimized THEN [k EXCEPT !.frame = r.optimized[k.id]]
        ELSE IF k.id > r.last THEN [k EXCEPT !.frame = <<@[1], @[2] + 1>>]
        ELSE k]

\* The pair is new: database and runtime pose move together.
Applied(r) ==
    /\ processed' = processed \union {r.pair}
    /\ keyframes' = ApplyOptimizedPoses(r)
    /\ pose' = <<pose[1], pose[2] + 1>>
    /\ version' = version + 1
    /\ maintenance' = TRUE
    /\ UNCHANGED pending

\* consumeLoopClosureResult
Consume ==
    IF ~ready THEN UNCHANGED <<ready, processed, keyframes, pose, version, flags>>
    ELSE /\ ready' = FALSE
         /\ \/ /\ slot.valid /\ OfThisVersion(slot) /\ slot.pair \notin processed
               /\ Applied(slot)
            \/ /\ slot.valid /\ ~OfThisVersion(slot)
               /\ pending' = TRUE /\ maintenance' = TRUE
               /\ UNCHANGED <<processed, keyframes, pose, version>>
            \/ /\ slot.valid /\ OfThisVersion(slot) /\ slot.pair \in processed
               /\ UNCHANGED <<processed, keyframes, pose, version, flags>>
            \/ /\ ~slot.valid
               /\ UNCHANGED <<processed, keyframes, pose, version, flags>>

\* A frame is processed.  A confirmed relocalization moves the runtime pose
\* within the frame of the database.
FrameTurn ==
    /\ owner = "idle"
    /\ Consume
    /\ owner' \in {"idle", "relocalizes"}
    /\ UNCHANGED <<rail, counters, epoch, thread, wanted, boundaries>>

\* applyRelocalizedPose
Relocalized ==
    /\ owner = "relocalizes"
    /\ owner' = "idle"
    /\ boundaries < MaxBoundaries /\ boundaries' = boundaries + 1
    /\ version' = version + 1
    /\ UNCHANGED <<rail, database, epoch, pose, flags, thread, ready, processed, wanted>>

NotRelocalized ==
    /\ owner = "relocalizes"
    /\ owner' = "idle"
    /\ UNCHANGED <<rail, database, version, epoch, pose, flags, thread, ready, processed,
                   wanted, boundaries>>

MaintenanceTurn ==
    /\ owner = "idle" /\ (maintenance \/ ready)
    /\ Consume
    /\ owner' = "maintains"
    /\ UNCHANGED <<rail, counters, epoch, thread, wanted, boundaries>>

\* runMapMaintenanceIfIdle: nothing asked for maintenance, or input waits and
\* an earlier phase used the time slice up.
MaintenanceYields ==
    /\ owner = "maintains"
    /\ owner' = "idle"
    /\ maintenance' = (maintenance \/ pending)
    /\ ~maintenance \/ pending
    /\ UNCHANGED <<rail, database, version, epoch, pose, pending, thread, ready, processed,
                   wanted, boundaries>>

\* mutant: a request that meets a running worker is dropped.
RequestWhileRunningLost == pending' = FALSE /\ UNCHANGED <<thread, wanted>>

\* processLoopClosure meets a running worker: the request stays.
RequestWhileRunning == pending' = TRUE /\ UNCHANGED <<thread, wanted>>

\* The finished worker is joined and a new one gets a snapshot.
StartWorker ==
    /\ worker = Idle
    /\ pending' = FALSE /\ wanted' = FALSE
    /\ IF Len(keyframes) < MinKeyframes
       THEN UNCHANGED thread
       ELSE /\ running' = TRUE
            /\ worker' = [pc |-> "works", snapshot |-> keyframes, version |-> version,
                          epoch |-> epoch]
            /\ UNCHANGED slot

MaintenanceRuns ==
    /\ owner = "maintains" /\ maintenance
    /\ owner' = "idle"
    /\ maintenance' = FALSE
    /\ IF ~pending THEN UNCHANGED <<pending, thread, wanted>>
       ELSE IF running THEN RequestWhileRunning
       ELSE StartWorker
    /\ UNCHANGED <<rail, database, version, epoch, pose, ready, processed, boundaries>>

\* releaseOldKeyframeClouds, in a maintenance turn.
ReleaseClouds ==
    /\ owner = "maintains" /\ maintenance /\ ~pending
    /\ owner' = "idle" /\ maintenance' = FALSE
    /\ keyframes' = [i \in DOMAIN keyframes |->
                        [keyframes[i] EXCEPT !.cloud = @ /\ i > Len(keyframes) - MaxActive]]
    /\ UNCHANGED <<rail, counters, version, epoch, pose, pending, thread, ready, processed,
                   wanted, boundaries>>

\* The periodic checks of a running node ask for maintenance again and again.
PeriodicRequest ==
    /\ ~maintenance
    /\ maintenance' = TRUE
    /\ UNCHANGED <<rail, database, version, epoch, pose, pending, thread, ready, processed,
                   owner, wanted, boundaries>>

-----------------------------------------------------------------------------
(* The services, which hold the runtime lock: between two turns.           *)

\* Pose version and epoch move on, the result is no longer ready, the pairs
\* are forgotten.
Boundary ==
    /\ owner = "idle"
    /\ boundaries < MaxBoundaries /\ boundaries' = boundaries + 1
    /\ version' = version + 1 /\ epoch' = epoch + 1
    /\ ready' = FALSE /\ processed' = {}
    /\ UNCHANGED <<rail, thread, owner>>

\* resetService
Reset ==
    /\ Boundary
    /\ keyframes' = <<>> /\ counters' = [last |-> 0, count |-> 0]
    /\ pose' = <<epoch + 1, 0>>
    /\ pending' = FALSE /\ maintenance' = FALSE /\ wanted' = FALSE

\* replaceKeyFrames: the ids of the session, and the next id after them.
Load ==
    /\ Boundary
    /\ \E n \in 0..MaxKeyframes :
          /\ keyframes' = [i \in 1..n |-> [id |-> i, frame |-> <<epoch + 1, 0>>, cloud |-> TRUE]]
          /\ counters' = [last |-> n, count |-> n]
    /\ pose' = <<epoch + 1, 0>>
    /\ pending' = FALSE /\ maintenance' = FALSE /\ wanted' = FALSE

\* rebuildMapService: the database stays.
RebuildMap ==
    /\ Boundary
    /\ UNCHANGED <<database, pose, flags, wanted>>

Next ==
    \/ CommitKeyframe
    \/ WorkerOptimizes \/ WorkerRaisesReady \/ WorkerEnds
    \/ FrameTurn \/ Relocalized \/ NotRelocalized
    \/ MaintenanceTurn \/ MaintenanceYields \/ MaintenanceRuns \/ ReleaseClouds
    \/ PeriodicRequest
    \/ Reset \/ Load \/ RebuildMap

\* Threads run; the forced time slice bounds how often maintenance yields.
Fairness ==
    /\ WF_vars(WorkerOptimizes) /\ WF_vars(WorkerRaisesReady) /\ WF_vars(WorkerEnds)
    /\ WF_vars(NotRelocalized)
    /\ SF_vars(MaintenanceTurn) /\ SF_vars(MaintenanceRuns)
    /\ WF_vars(PeriodicRequest)

Spec == Init /\ [][Next]_vars /\ Fairness

-----------------------------------------------------------------------------
\* Every keyframe of the database and the runtime pose are in one frame: a
\* correction computed on a snapshot reaches the keyframes of that database
\* and no other, once, and the keyframes committed since, although resets,
\* loads, relocalizations and another correction happen while it is computed.
OneFrame == \A i \in DOMAIN keyframes : keyframes[i].frame = pose

\* A detection that was asked for is started on a snapshot that has the
\* keyframe, or a reset or load ended it: also when it met a running worker
\* or a stale result.
DetectionIsServed == wanted ~> ~wanted

\* A loop that was found on the present database is applied.  Not what the
\* code does: the owner takes results only at the start of a turn, so a worker
\* started later in that turn may overwrite the slot.
FoundLoopIsApplied ==
    [][slot.valid /\ ready /\ OfThisVersion(slot) /\ slot' # slot => ~ready']_vars

=============================================================================
