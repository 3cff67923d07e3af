--------------------------- MODULE CleanMapWorker ---------------------------
(***************************************************************************)
(* The clean-map rebuild of NdtSlamNode and everyone it shares state with. *)
(*                                                                         *)
(*   owner      processCloudThread.  It holds runtime_state_mutex_ for a   *)
(*              whole turn: it consumes a finished build, installs or      *)
(*              publishes it, and starts the next one.                     *)
(*   worker     the thread started by startCleanMapRebuildJob.             *)
(*   committer  mapCommitThread, inside map_commit_lifecycle_mutex_.       *)
(*   rebuilder  the full-map / active-map thread that swaps the raw layers.*)
(*   publisher  mapPublicationThread.                                      *)
(*   services   reset, load_map and rebuild_map, which take both the       *)
(*              runtime and the lifecycle mutex, hence run between turns   *)
(*              and between commits.                                       *)
(*                                                                         *)
(* The content of a map layer is abstracted to objects_map_content_version_*)
(* (a version is never reused, so it identifies the content); an           *)
(* observation batch of a commit is one token carrying the static-evidence *)
(* epoch in which its keyframe was accepted.                               *)
(***************************************************************************)
EXTENDS Integers, FiniteSets

CONSTANTS
    Boundaries,     \* lifecycle boundaries that may happen, a subset of
                    \* {"reset", "load", "rebuild", "rollback", "loop"}
    BuildMayFail,   \* the worker may end in an exception / an invalid build
    CommitInterval, \* map_maintenance_interval_commits_
    MaxDeferral,    \* map_maintenance_max_deferral_frames_
    MaxCommits,     \* bound: keyframes committed
    MaxBoundaries,  \* bound: lifecycle boundaries
    MaxRebuilds     \* bound: raw-layer swaps by the rebuilder

AllBoundaries == {"reset", "load", "rebuild", "rollback", "loop"}

ASSUME CleanConstants ==
    /\ Boundaries \subseteq AllBoundaries
    /\ BuildMayFail \in BOOLEAN
    /\ CommitInterval \in Nat \ {0}
    /\ MaxDeferral \in Nat
    /\ MaxCommits \in Nat /\ MaxBoundaries \in Nat /\ MaxRebuilds \in Nat

VARIABLES
    epoch,          \* map_rebuild_generation_
    sepoch,         \* static_evidence_epoch_
    rawVersion,     \* objects_map_content_version_
    cleanVersion,   \* raw version objects_clean_map_ was derived from
    generation,     \* map_layer_generation_
    bundle,         \* latest_completed_map_bundle_
    pendingObs,     \* pending_static_{observed,observable,free}_cells_
    evidence,       \* tokens observeCleanBuildCells credited, with the epoch
    maintPending,   \* map_maintenance_pending_
    cleanPending,   \* clean_map_rebuild_pending_
    cleanRequested, \* clean_rebuild_requested_from_worker_
    commitCount,    \* map_maintenance_commit_count_
    hasRun,         \* map_maintenance_has_run_
    framePending,   \* cloud_queue_ is not empty
    deferral,       \* map_maintenance_deferral_frames_
    owner,          \* program counter of the owner thread
    forced,         \* force_map_maintenance_timeslice
    maintTurn,      \* run_map_maintenance
    passes,         \* consumeCleanMapRebuildResult calls left in this turn
    taken,          \* the result being consumed
    resume,         \* where startCleanMapRebuildJob returns to
    swapped,        \* source_*_cells of the job being started
    worker,         \* program counter of the clean worker
    running,        \* clean_map_rebuild_running_
    ready,          \* clean_map_rebuild_result_ready_
    slot,           \* clean_map_worker_result_
    job,            \* the immutable input captured by the worker
    committer,      \* "idle", or "written" between map write and observation
    commitObs,      \* the token of the commit in progress
    commits,        \* keyframes committed so far
    rebuilder,      \* "idle", or "swapped" before it raises cleanRequested
    rebuilds, boundaries,
    pubPending,     \* map_publication_requested_version_ > completed version
    publisher,      \* "wait", "capture" or "publish"
    pubSnapshot,    \* the captured MapPublicationSnapshot
    published,      \* last bundle sent on the map topics
    orphaned        \* history: the last build was dropped without a retry

mapVars   == <<epoch, sepoch, rawVersion, cleanVersion, generation, bundle>>
obsVars   == <<pendingObs, evidence>>
flagVars  == <<maintPending, cleanPending, cleanRequested, commitCount, hasRun>>
queueVars == <<framePending, deferral>>
ownerVars == <<owner, forced, maintTurn, passes, taken, resume, swapped>>
workVars  == <<worker, running, ready, slot, job>>
commVars  == <<committer, commitObs, commits>>
rebVars   == <<rebuilder, rebuilds>>
pubVars   == <<publisher, pubSnapshot, published>>
vars == <<mapVars, obsVars, flagVars, queueVars, ownerVars, workVars, commVars,
          rebVars, boundaries, pubPending, pubVars, orphaned>>

-----------------------------------------------------------------------------

\* A CleanMapWorkerResult.  "complete" is whether its clouds and cell sets are
\* still there; a moved-from result keeps its scalars and loses those.
EmptyResult ==
    [valid |-> FALSE, version |-> 0, epoch |-> 0, sepoch |-> 0,
     obs |-> {}, complete |-> FALSE]

MovedFrom(r) == [r EXCEPT !.obs = {}, !.complete = FALSE]

Bundle(gen, ep, raw, clean, complete) ==
    [generation |-> gen, epoch |-> ep, raw |-> raw, clean |-> clean,
     complete |-> complete]

\* The publisher holds nothing.
NoSnapshot == Bundle(1, 1, 1, 1, FALSE)

Init ==
    /\ epoch = 1 /\ sepoch = 1 /\ rawVersion = 1 /\ cleanVersion = 1
    /\ generation = 1
    /\ bundle = Bundle(1, 1, 1, 1, TRUE)
    /\ pendingObs = {} /\ evidence = {}
    /\ maintPending = FALSE /\ cleanPending = FALSE /\ cleanRequested = FALSE
    /\ commitCount = 0 /\ hasRun = FALSE
    /\ framePending = FALSE /\ deferral = 0
    /\ owner = "wait" /\ forced = FALSE /\ maintTurn = FALSE /\ passes = 0
    /\ taken = EmptyResult /\ resume = "wait" /\ swapped = {}
    /\ worker = "none" /\ running = FALSE /\ ready = FALSE
    /\ slot = EmptyResult /\ job = EmptyResult
    /\ committer = "idle" /\ commitObs = {} /\ commits = 0
    /\ rebuilder = "idle" /\ rebuilds = 0 /\ boundaries = 0
    /\ pubPending = FALSE /\ publisher = "wait"
    /\ pubSnapshot = NoSnapshot
    /\ published = Bundle(1, 1, 1, 1, TRUE)
    /\ orphaned = FALSE

-----------------------------------------------------------------------------
(* Owner thread: the loop head of processCloudThread.                      *)

OwnerTaskPending == maintPending \/ cleanRequested \/ ready

ForceTimeslice ==
    OwnerTaskPending /\ framePending /\ deferral >= MaxDeferral

FrameArrives ==
    /\ ~framePending
    /\ framePending' = TRUE
    /\ UNCHANGED <<mapVars, obsVars, flagVars, deferral, ownerVars, workVars,
                   commVars, rebVars, boundaries, pubPending, pubVars,
                   orphaned>>

BeginMaintenanceTurn ==
    /\ owner = "wait"
    /\ OwnerTaskPending
    /\ ~framePending \/ ForceTimeslice
    /\ forced' = ForceTimeslice
    /\ deferral' = 0
    /\ maintTurn' = TRUE /\ passes' = 2
    /\ owner' = "loop"
    /\ UNCHANGED <<mapVars, obsVars, flagVars, framePending, taken, resume,
                   swapped, workVars, commVars, rebVars, boundaries,
                   pubPending, pubVars, orphaned>>

BeginFrameTurn ==
    /\ owner = "wait"
    /\ framePending /\ ~ForceTimeslice
    /\ framePending' = FALSE
    /\ deferral' = IF OwnerTaskPending THEN deferral + 1 ELSE 0
    /\ forced' = FALSE /\ maintTurn' = FALSE /\ passes' = 1
    /\ owner' = "loop"
    /\ UNCHANGED <<mapVars, obsVars, flagVars, taken, resume, swapped, workVars,
                   commVars, rebVars, boundaries, pubPending, pubVars,
                   orphaned>>

\* consumeLoopClosureResult: nothing to apply.
NoLoopClosure ==
    /\ owner = "loop"
    /\ owner' = "exchange"
    /\ UNCHANGED <<mapVars, obsVars, flagVars, queueVars, forced, maintTurn,
                   passes, taken, resume, swapped, workVars, commVars, rebVars,
                   boundaries, pubPending, pubVars, orphaned>>

\* consumeLoopClosureResult + updatePoseFromLoopClosure: the static evidence
\* starts a new epoch, the map lifecycle epoch does not; the lifecycle mutex
\* is not taken, so a commit may be in progress.
ApplyLoopClosure ==
    /\ owner = "loop"
    /\ "loop" \in Boundaries /\ boundaries < MaxBoundaries
    /\ boundaries' = boundaries + 1
    /\ sepoch' = sepoch + 1
    /\ evidence' = {} /\ pendingObs' = {}
    /\ cleanPending' = TRUE /\ maintPending' = TRUE
    /\ owner' = "exchange"
    /\ UNCHANGED <<epoch, rawVersion, cleanVersion, generation, bundle,
                   cleanRequested, commitCount, hasRun, queueVars, forced,
                   maintTurn, passes, taken, resume, swapped, workVars,
                   commVars, rebVars, pubPending, pubVars, orphaned>>

-----------------------------------------------------------------------------
(* Owner thread: consumeCleanMapRebuildResult.                             *)

\* Where the owner goes when a call of consumeCleanMapRebuildResult returns.
AfterConsume ==
    IF passes > 1 THEN "exchange" ELSE IF maintTurn THEN "maintain" ELSE "frame"

ExchangeReady ==
    /\ owner = "exchange"
    /\ ready' = FALSE
    /\ IF ready THEN owner' = "take" /\ UNCHANGED passes
                ELSE owner' = AfterConsume /\ passes' = passes - 1
    /\ UNCHANGED <<mapVars, obsVars, flagVars, queueVars, forced, maintTurn,
                   taken, resume, swapped, worker, running, slot, job, commVars,
                   rebVars, boundaries, pubPending, pubVars, orphaned>>

\* Under clean_map_rebuild_result_mutex_: result = std::move(slot).
TakeResult ==
    /\ owner = "take"
    /\ taken' = slot
    /\ slot' = MovedFrom(slot)
    /\ owner' = "judge"
    /\ UNCHANGED <<mapVars, obsVars, flagVars, queueVars, forced, maintTurn,
                   passes, resume, swapped, worker, running, ready, job,
                   commVars, rebVars, boundaries, pubPending, pubVars,
                   orphaned>>

Discarded(r) == r.epoch # epoch \/ ~r.valid

\* restore_observations: the batch of a dropped build goes back to the
\* accumulators, whichever map it was taken from.
Discard ==
    /\ owner = "judge"
    /\ Discarded(taken)
    /\ pendingObs' = pendingObs \cup taken.obs
    /\ orphaned' = (orphaned \/ taken.version = rawVersion)
    /\ passes' = passes - 1
    /\ taken' = EmptyResult
    /\ owner' = AfterConsume
    /\ UNCHANGED <<mapVars, evidence, flagVars, queueVars, forced, maintTurn,
                   resume, swapped, workVars, commVars, rebVars, boundaries,
                   pubPending, pubVars>>

\* evaluateCleanMapBuildAction of a valid build.
InstallAction(r) ==
    IF r.version = rawVersion THEN "APPLY" ELSE "PUBLISH_SNAPSHOT_ONLY"

SealedGeneration_Kept == generation   \* mutant: a result reuses the old number

\* advanceMapLayerGenerationLocked, for the bundle about to be sealed.
SealedGeneration == generation + 1

\* The section under map_mutex_: install the clean layer when it belongs to
\* the current raw layer, seal the bundle in either case.
Install ==
    /\ owner = "judge"
    /\ ~Discarded(taken)
    /\ LET apply == InstallAction(taken) = "APPLY"
       IN  /\ cleanVersion' = IF apply /\ taken.complete
                              THEN taken.version ELSE cleanVersion
           /\ generation' = SealedGeneration
           /\ bundle' = Bundle(generation', taken.epoch, taken.version,
                               taken.version, taken.complete)
           /\ orphaned' = (orphaned /\ ~(apply /\ taken.complete))
           /\ IF apply
              THEN owner' = "credit" /\ UNCHANGED <<cleanPending, resume>>
              ELSE /\ owner' = "start" /\ resume' = "credit"
                   /\ cleanPending' = FALSE
           /\ maintPending' = (maintPending \/ ~apply)
    /\ UNCHANGED <<epoch, sepoch, rawVersion, obsVars, cleanRequested,
                   commitCount, hasRun, queueVars, forced, maintTurn, passes,
                   taken, swapped, workVars, commVars, rebVars, boundaries,
                   pubPending, pubVars>>

CreditEpoch_Unchecked(r) == TRUE   \* mutant: the epoch comparison is dropped

CreditEpoch(r) == r.sepoch = sepoch

\* observeCleanBuildCells + confirmCleanCells when the static epoch is still
\* the one the job was started in; then request publication.
Credit ==
    /\ owner = "credit"
    /\ evidence' = IF CreditEpoch(taken)
                   THEN evidence \cup
                        {[obs |-> o, job |-> taken.sepoch, epoch |-> sepoch] :
                            o \in taken.obs}
                   ELSE evidence
    /\ hasRun' = TRUE /\ maintPending' = TRUE /\ pubPending' = TRUE
    /\ passes' = passes - 1
    /\ taken' = EmptyResult /\ resume' = "wait"
    /\ owner' = AfterConsume
    /\ UNCHANGED <<mapVars, pendingObs, cleanPending, cleanRequested,
                   commitCount, queueVars, forced, maintTurn, swapped, workVars,
                   commVars, rebVars, boundaries, pubVars, orphaned>>

-----------------------------------------------------------------------------
(* Owner thread: runMapMaintenanceIfIdle and startCleanMapRebuildJob.      *)

RunMapMaintenance ==
    /\ owner = "maintain"
    /\ cleanRequested' = FALSE
    /\ forced' = FALSE /\ maintTurn' = FALSE
    /\ LET maint == maintPending \/ cleanRequested
           clean == cleanPending \/ cleanRequested
       IN  IF ~maint \/ (~forced /\ framePending)
           THEN /\ maintPending' = maint /\ cleanPending' = clean
                /\ owner' = "wait" /\ UNCHANGED resume
           ELSE /\ maintPending' = FALSE /\ cleanPending' = FALSE
                /\ IF clean THEN owner' = "start" /\ resume' = "wait"
                            ELSE owner' = "wait" /\ UNCHANGED resume
    /\ UNCHANGED <<mapVars, obsVars, commitCount, hasRun, queueVars, passes,
                   taken, swapped, workVars, commVars, rebVars, boundaries,
                   pubPending, pubVars, orphaned>>

StartRefused_Forgets == UNCHANGED cleanPending   \* mutant

\* A job is running: remember the request.
StartRefused == cleanPending' = TRUE

StartWhileRunning ==
    /\ owner = "start" /\ running
    /\ StartRefused
    /\ owner' = resume
    /\ UNCHANGED <<mapVars, obsVars, maintPending, cleanRequested, commitCount,
                   hasRun, queueVars, forced, maintTurn, passes, taken, resume,
                   swapped, workVars, commVars, rebVars, boundaries, pubPending,
                   pubVars, orphaned>>

\* join() returns once the old thread is gone.
JoinReturned == ~running /\ worker = "none"

\* The accumulators are swapped out under static_observation_mutex_.
StartSwapObservations ==
    /\ owner = "start" /\ JoinReturned
    /\ swapped' = pendingObs /\ pendingObs' = {}
    /\ owner' = "snapshot"
    /\ UNCHANGED <<mapVars, evidence, flagVars, queueVars, forced, maintTurn,
                   passes, taken, resume, workVars, commVars, rebVars,
                   boundaries, pubPending, pubVars, orphaned>>

\* Under map_mutex_: copy the layers and the identities, launch the thread.
StartSnapshotAndLaunch ==
    /\ owner = "snapshot"
    /\ job' = [valid |-> TRUE, version |-> rawVersion, epoch |-> epoch,
               sepoch |-> sepoch, obs |-> swapped, complete |-> TRUE]
    /\ swapped' = {}
    /\ running' = TRUE /\ worker' = "build"
    /\ owner' = resume
    /\ UNCHANGED <<mapVars, obsVars, flagVars, queueVars, forced, maintTurn,
                   passes, taken, resume, ready, slot, commVars, rebVars,
                   boundaries, pubPending, pubVars, orphaned>>

\* The frame itself: localization and cargo processing, outside this module,
\* except for handleLidarTimeRollback, which opens a new lifecycle epoch but
\* keeps the maps and rebinds the bundle.
FinishFrame ==
    /\ owner = "frame"
    /\ owner' = "wait"
    /\ UNCHANGED <<mapVars, obsVars, flagVars, queueVars, forced, maintTurn,
                   passes, taken, resume, swapped, workVars, commVars, rebVars,
                   boundaries, pubPending, pubVars, orphaned>>

TimeRollback ==
    /\ owner = "frame" /\ committer = "idle"
    /\ "rollback" \in Boundaries /\ boundaries < MaxBoundaries
    /\ boundaries' = boundaries + 1
    /\ epoch' = epoch + 1
    /\ bundle' = [bundle EXCEPT !.epoch = epoch']
    /\ maintPending' = TRUE
    /\ owner' = "wait"
    /\ UNCHANGED <<sepoch, rawVersion, cleanVersion, generation, obsVars,
                   cleanPending, cleanRequested, commitCount, hasRun, queueVars,
                   forced, maintTurn, passes, taken, resume, swapped, workVars,
                   commVars, rebVars, pubPending, pubVars, orphaned>>

-----------------------------------------------------------------------------
(* Clean worker thread.                                                    *)

\* Build outside every lock, then store the result under the result mutex.
WorkerStore ==
    /\ worker = "build"
    /\ \E ok \in IF BuildMayFail THEN BOOLEAN ELSE {TRUE} :
          slot' = [job EXCEPT !.valid = ok]
    /\ job' = EmptyResult
    /\ worker' = "stored"
    /\ UNCHANGED <<mapVars, obsVars, flagVars, queueVars, ownerVars, running,
                   ready, commVars, rebVars, boundaries, pubPending,
                   pubVars, orphaned>>

WorkerStopRunning ==
    /\ worker = "stored"
    /\ running' = FALSE
    /\ worker' = "stopped"
    /\ UNCHANGED <<mapVars, obsVars, flagVars, queueVars, ownerVars, ready,
                   slot, job, commVars, rebVars, boundaries, pubPending,
                   pubVars, orphaned>>

WorkerSetReady ==
    /\ worker = "stopped"
    /\ ready' = TRUE
    /\ worker' = "none"
    /\ UNCHANGED <<mapVars, obsVars, flagVars, queueVars, ownerVars, running,
                   slot, job, commVars, rebVars, boundaries, pubPending,
                   pubVars, orphaned>>

-----------------------------------------------------------------------------
(* Map commit worker: the map half of commitKeyFrameWithDynamicFiltering.  *)

CommitMapWrite ==
    /\ committer = "idle" /\ commits < MaxCommits
    /\ commits' = commits + 1
    /\ rawVersion' = rawVersion + 1
    /\ generation' = generation + 1
    /\ commitObs' = {[frame |-> commits', sepoch |-> sepoch]}
    /\ committer' = "written"
    /\ UNCHANGED <<epoch, sepoch, cleanVersion, bundle, obsVars, flagVars,
                   queueVars, ownerVars, workVars, rebVars, boundaries,
                   pubPending, pubVars, orphaned>>

\* Accumulate the observations, then requestMapMaintenance; the thread raises
\* map_maintenance_pending_ once more when the commit is complete.
CommitObserve ==
    /\ committer = "written"
    /\ pendingObs' = pendingObs \cup commitObs
    /\ commitObs' = {} /\ committer' = "idle"
    /\ IF ~hasRun \/ commitCount + 1 >= CommitInterval
       THEN commitCount' = 0 /\ cleanPending' = TRUE
       ELSE commitCount' = commitCount + 1 /\ UNCHANGED cleanPending
    /\ maintPending' = TRUE
    /\ UNCHANGED <<mapVars, evidence, cleanRequested, hasRun, queueVars,
                   ownerVars, workVars, commits, rebVars, boundaries,
                   pubPending, pubVars, orphaned>>

(* Full-map or active-map rebuild thread: swap the raw layers under        *)
(* map_mutex_, then ask the owner for a clean rebuild.                     *)

RebuildSwap ==
    /\ rebuilder = "idle" /\ rebuilds < MaxRebuilds
    /\ rebuilds' = rebuilds + 1
    /\ rawVersion' = rawVersion + 1
    /\ generation' = generation + 1
    /\ rebuilder' = "swapped"
    /\ UNCHANGED <<epoch, sepoch, cleanVersion, bundle, obsVars, flagVars,
                   queueVars, ownerVars, workVars, commVars, boundaries,
                   pubPending, pubVars, orphaned>>

RebuildRequestClean ==
    /\ rebuilder = "swapped"
    /\ cleanRequested' = TRUE
    /\ rebuilder' = "idle"
    /\ UNCHANGED <<mapVars, obsVars, maintPending, cleanPending, commitCount,
                   hasRun, queueVars, ownerVars, workVars, commVars, rebuilds,
                   boundaries, pubPending, pubVars, orphaned>>

-----------------------------------------------------------------------------
(* Services.                                                               *)

ServiceMayRun(b) ==
    /\ owner = "wait" /\ committer = "idle"
    /\ b \in Boundaries /\ boundaries < MaxBoundaries

\* resetService and installLoadedRuntimeMap: replace every layer, seal a new
\* bundle, start new epochs, drop what was accumulated or scheduled.  A
\* finished clean result is left in its slot.
ReplaceMap(b) ==
    /\ ServiceMayRun(b)
    /\ boundaries' = boundaries + 1
    /\ epoch' = epoch + 1 /\ sepoch' = sepoch + 1
    /\ rawVersion' = rawVersion + 1 /\ cleanVersion' = rawVersion'
    /\ generation' = generation + 1
    /\ bundle' = Bundle(generation', epoch', rawVersion', rawVersion', TRUE)
    /\ evidence' = {} /\ pendingObs' = {}
    /\ maintPending' = FALSE /\ cleanPending' = FALSE /\ cleanRequested' = FALSE
    /\ framePending' = FALSE
    /\ pubPending' = TRUE
    /\ orphaned' = FALSE
    /\ UNCHANGED <<commitCount, hasRun, deferral, ownerVars, workVars, commVars,
                   rebVars, pubVars>>

\* rebuildMapService: new epochs, the raw layers are rebuilt from the
\* keyframes, and a clean rebuild is requested.
RebuildMapService ==
    /\ ServiceMayRun("rebuild")
    /\ boundaries' = boundaries + 1
    /\ epoch' = epoch + 1 /\ sepoch' = sepoch + 1
    /\ rawVersion' = rawVersion + 1
    /\ generation' = generation + 1
    /\ evidence' = {} /\ pendingObs' = {}
    /\ maintPending' = TRUE /\ cleanRequested' = TRUE
    /\ UNCHANGED <<cleanVersion, bundle, cleanPending, commitCount, hasRun,
                   queueVars, ownerVars, workVars, commVars, rebVars,
                   pubPending, pubVars, orphaned>>

\* timerCallback: keeps the owner's maintenance alive without any input.
Timer ==
    /\ ~maintPending
    /\ maintPending' = TRUE
    /\ UNCHANGED <<mapVars, obsVars, cleanPending, cleanRequested, commitCount,
                   hasRun, queueVars, ownerVars, workVars, commVars, rebVars,
                   boundaries, pubPending, pubVars, orphaned>>

-----------------------------------------------------------------------------
(* Publication thread.                                                     *)

PublisherWake ==
    /\ publisher = "wait" /\ pubPending
    /\ pubPending' = FALSE
    /\ publisher' = "capture"
    /\ UNCHANGED <<mapVars, obsVars, flagVars, queueVars, ownerVars, workVars,
                   commVars, rebVars, boundaries, pubSnapshot, published,
                   orphaned>>

\* captureMapPublicationSnapshot: one sealed bundle, under map_mutex_.
CapturedBundle == bundle

PublisherCapture ==
    /\ publisher = "capture"
    /\ pubSnapshot' = CapturedBundle
    /\ publisher' = "publish"
    /\ UNCHANGED <<mapVars, obsVars, flagVars, queueVars, ownerVars, workVars,
                   commVars, rebVars, boundaries, pubPending, published,
                   orphaned>>

\* publishMapPublicationSnapshot refuses an incomplete bundle.  The snapshot is
\* a local of the loop body and gone afterwards.
PublisherPublish ==
    /\ publisher = "publish"
    /\ published' = IF pubSnapshot.complete THEN pubSnapshot ELSE published
    /\ publisher' = "wait" /\ pubSnapshot' = NoSnapshot
    /\ UNCHANGED <<mapVars, obsVars, flagVars, queueVars, ownerVars, workVars,
                   commVars, rebVars, boundaries, pubPending, orphaned>>

-----------------------------------------------------------------------------

Owner ==
    \/ BeginMaintenanceTurn \/ BeginFrameTurn \/ NoLoopClosure
    \/ ExchangeReady \/ TakeResult \/ Discard \/ Install \/ Credit
    \/ RunMapMaintenance \/ StartWhileRunning \/ StartSwapObservations
    \/ StartSnapshotAndLaunch \/ FinishFrame
Worker    == WorkerStore \/ WorkerStopRunning \/ WorkerSetReady
Committer == CommitMapWrite \/ CommitObserve
Rebuilder == RebuildSwap \/ RebuildRequestClean
Publisher == PublisherWake \/ PublisherCapture \/ PublisherPublish
Services  == (\E b \in {"reset", "load"} : ReplaceMap(b)) \/ RebuildMapService

Next ==
    \/ Owner \/ ApplyLoopClosure \/ TimeRollback \/ Worker \/ Committer
    \/ Rebuilder \/ Publisher \/ Services \/ FrameArrives \/ Timer

Spec == Init /\ [][Next]_vars

\* Every thread that can run keeps running, and the wall timer fires; nothing
\* obliges frames, commits, rebuilds or services to happen.
Fairness ==
    /\ WF_vars(Owner) /\ WF_vars(Worker) /\ WF_vars(Publisher)
    /\ WF_vars(CommitObserve) /\ WF_vars(RebuildRequestClean)
    /\ WF_vars(Timer)

FairSpec == Spec /\ Fairness

\* An unforced maintenance turn gives up when a frame arrived after the loop
\* head saw the queue empty.  The window is microseconds long against a frame
\* period of 100 ms: not every turn loses that race.
WindowSometimesFree ==
    []<><<RunMapMaintenance>>_vars
        => []<><<RunMapMaintenance /\ (forced \/ ~framePending)>>_vars

-----------------------------------------------------------------------------
(* Properties.                                                             *)

Versions == 0 .. (1 + MaxCommits + MaxRebuilds + MaxBoundaries)
Epochs   == 0 .. (1 + MaxBoundaries)
Tokens   == [frame : 1 .. MaxCommits, sepoch : Epochs]
Results  == [valid : BOOLEAN, version : Versions, epoch : Epochs,
             sepoch : Epochs, obs : SUBSET Tokens, complete : BOOLEAN]
Bundles  == [generation : Nat, epoch : Epochs, raw : Versions,
             clean : Versions, complete : BOOLEAN]

MapOK ==
    /\ epoch \in Epochs /\ sepoch \in Epochs
    /\ rawVersion \in Versions /\ cleanVersion \in Versions
    /\ generation \in Nat /\ bundle \in Bundles
ObsOK ==
    /\ pendingObs \subseteq Tokens
    /\ evidence \subseteq [obs : Tokens, job : Epochs, epoch : Epochs]
FlagOK ==
    /\ maintPending \in BOOLEAN /\ cleanPending \in BOOLEAN
    /\ cleanRequested \in BOOLEAN /\ hasRun \in BOOLEAN
    /\ commitCount \in 0 .. (CommitInterval - 1)
QueueOK == framePending \in BOOLEAN /\ deferral \in 0 .. MaxDeferral
OwnerOK ==
    /\ owner \in {"wait", "loop", "exchange", "take", "judge", "credit",
                  "start", "snapshot", "maintain", "frame"}
    /\ forced \in BOOLEAN /\ maintTurn \in BOOLEAN /\ passes \in 0 .. 2
    /\ taken \in Results /\ resume \in {"wait", "credit"}
    /\ swapped \subseteq Tokens
WorkOK ==
    /\ worker \in {"none", "build", "stored", "stopped"}
    /\ running \in BOOLEAN /\ ready \in BOOLEAN
    /\ slot \in Results /\ job \in Results
CommitOK ==
    /\ committer \in {"idle", "written"} /\ commitObs \subseteq Tokens
    /\ commits \in 0 .. MaxCommits
RebuildOK ==
    /\ rebuilder \in {"idle", "swapped"} /\ rebuilds \in 0 .. MaxRebuilds
    /\ boundaries \in 0 .. MaxBoundaries
PublishOK ==
    /\ pubPending \in BOOLEAN /\ orphaned \in BOOLEAN
    /\ publisher \in {"wait", "capture", "publish"}
    /\ pubSnapshot \in Bundles /\ published \in Bundles

\* The state shared by the six threads is always well formed: a version or an
\* epoch is never ahead of what was issued, and a queue or deferral counter
\* stays inside the bound that the loop head of processCloudThread imposes.
TypeOK ==
    /\ MapOK /\ ObsOK /\ FlagOK /\ QueueOK /\ OwnerOK /\ WorkOK /\ CommitOK
    /\ RebuildOK /\ PublishOK

\* consumeCleanMapRebuildResult never installs a clean layer that was derived
\* from another raw layer than the one in place, although the worker builds
\* outside every lock while commits and rebuilds replace the raw layers.
NoStaleInstall ==
    [][cleanVersion' # cleanVersion => cleanVersion' = rawVersion']_vars

\* The layers sent together on the map topics come from one snapshot: the
\* publisher never combines the working raw layer with an older clean layer.
PublishedIsOneSnapshot == published.raw = published.clean

\* header.seq identifies the content that was published, seq never goes back,
\* and after the map of a lifecycle epoch was published no map of an older
\* epoch is.  A repeated seq carries the same layers.
PublishedNeverGoesBack ==
    [][published' # published =>
          /\ published'.epoch >= published.epoch
          /\ \/ published'.generation > published.generation
             \/ published' = [published EXCEPT !.epoch = published'.epoch]]_vars

\* What is installed and what is published only moves forward.
LayersMoveForward == NoStaleInstall /\ PublishedNeverGoesBack

\* Static evidence was only credited by a build that started in the static
\* epoch that is current, whatever reset, load, rebuild or loop closure
\* happened while the build was running.
EvidenceFromCurrentBuild ==
    \A e \in evidence : e.job = sepoch /\ e.epoch = sepoch

\* Two builds never run at once: startCleanMapRebuildJob joins the previous
\* thread before it reuses the thread object (assigning to a joinable
\* std::thread terminates the process), and running only covers a build whose
\* result is not yet lost.
OneBuildAtATime ==
    /\ running => worker \in {"build", "stored"}
    /\ owner = "snapshot" => worker = "none"

\* Published layers and credited evidence are each of one build, and builds
\* do not overlap.
LayersAreOfOneBuild ==
    PublishedIsOneSnapshot /\ EvidenceFromCurrentBuild /\ OneBuildAtATime

\* Once commits and rebuilds stop, the clean layer catches up with the raw
\* layer and is published, even if localization frames never stop arriving.
\* Exempt are commits that have not reached the maintenance interval, a build
\* dropped (failed, or of another lifecycle epoch) that nobody schedules again,
\* and for the publication a completed bundle without layers.
CleanConverges ==
    <>[](\/ /\ cleanVersion = rawVersion
            /\ published.clean = rawVersion \/ ~bundle.complete
         \/ commitCount > 0
         \/ orphaned)

-----------------------------------------------------------------------------
(* What the documents promise and the code does not keep.                  *)

\* map_lifecycle.md: results of an old epoch are dropped.  Here: no observation
\* accumulated before a boundary is credited as evidence after it.
NoObservationCrossesEpoch == \A e \in evidence : e.obs.sepoch = sepoch

\* map_lifecycle.md: a complete N is still published.  Here: a finished valid
\* build of the current epoch leaves its slot only by being taken.
FinishedBuildIsTaken ==
    [][slot' # slot /\ slot.valid /\ slot.complete /\ slot.epoch = epoch
          => owner = "take"]_vars
=============================================================================
