------------------------------ MODULE MapCommit ------------------------------
(***************************************************************************)
(* Keyframes on their way into the raw map layers of NdtSlamNode.          *)
(*                                                                         *)
(*   owner      processCloudThread: accepts frames into the bounded        *)
(*              map-commit queue, consumes completions, applies loop       *)
(*              closures and starts rebuilds.                              *)
(*   committer  mapCommitThread: one job at a time, inside                 *)
(*              map_commit_lifecycle_mutex_.                               *)
(*   rebuilders "full" (asyncRebuildGlobalMap) and "active"                *)
(*              (rebuildActiveMapFromRecentKeyframes), serialised by       *)
(*              map_rebuild_execution_mutex_: project a snapshot of the    *)
(*              keyframes outside every lock, swap the layers in.          *)
(*   services   reset / load_map, between turns and between commits.       *)
(*                                                                         *)
(* A pose is abstracted to the number of loop corrections it includes; the *)
(* points of a keyframe in the raw layers are the pair of the keyframe and *)
(* the pose they were projected with.  The identities that a rail job is   *)
(* checked against (pose version, yaw generation, reference, target        *)
(* snapshot) are one counter, "authority".                                 *)
(***************************************************************************)
EXTENDS Integers, Sequences, FiniteSets

CONSTANTS
    RailModes,      \* whether yaw_authority_mode_ may be RAIL_AUTHORITY
    Capacity,       \* map_commit_queue_capacity_
    MaxActive,      \* max_active_keyframes_
    MaxFrames,      \* bound: frames accepted for commit
    MaxLoops,       \* bound: loop closures applied
    MaxActives,     \* bound: active-map rebuilds requested
    MaxBoundaries   \* bound: resets, loads and time rollbacks

ASSUME CommitConstants ==
    /\ RailModes \subseteq BOOLEAN
    /\ Capacity \in Nat \ {0} /\ MaxActive \in Nat \ {0}
    /\ MaxFrames \in Nat /\ MaxLoops \in Nat
    /\ MaxActives \in Nat /\ MaxBoundaries \in Nat

Workers == {"full", "active"}

VARIABLES
    rail,        \* yaw_authority_mode_ = RAIL_AUTHORITY, fixed at start-up
    epoch,       \* map_rebuild_generation_
    authority,   \* keyframe_pose_version_ and the other rail identities
    frame,       \* loop corrections applied to the keyframe database
    nextSeq,     \* map_commit_next_sequence_
    queue,       \* map_commit_queue_
    owner,       \* "turn", or inside consumeLoopClosureResult
    committer,   \* program counter of mapCommitThread
    job,         \* the job it works on
    keyframes,   \* the keyframe database: [id, frame]
    raw,         \* points in the raw layers: [id, frame]
    written,     \* history: keyframes whose map write is complete
    completion,  \* map_commit_completion_
    gate,        \* last_commit_*_pose_: the reference of the commit gate
    running,     \* rebuild_running_, active_map_rebuild_running_
    dirty,       \* rebuild_pending_, active_map_rebuild_dirty_
    pc,          \* program counters of the rebuild threads
    gen,         \* the generation a rebuild was started for
    snap,        \* the keyframes a rebuild projects
    exec,        \* holder of map_rebuild_execution_mutex_
    loops, actives, boundaries

lifeVars   == <<rail, epoch, authority, frame>>
queueVars  == <<nextSeq, queue>>
commitVars == <<committer, job>>
mapVars    == <<keyframes, raw, written>>
gateVars   == <<completion, gate>>
workVars   == <<running, dirty, pc, gen, snap, exec>>
bounds     == <<loops, actives, boundaries>>
vars == <<lifeVars, queueVars, owner, commitVars, mapVars, gateVars, workVars,
          bounds>>

NoJob == [seq |-> 0, epoch |-> 0, authority |-> 0, frame |-> 0]
NoCompletion == [pending |-> FALSE, seq |-> 0, epoch |-> 0, authority |-> 0]

Init ==
    /\ rail \in RailModes
    /\ epoch = 1 /\ authority = 1 /\ frame = 0
    /\ nextSeq = 1 /\ queue = <<>>
    /\ owner = "turn"
    /\ committer = "wait" /\ job = NoJob
    /\ keyframes = {} /\ raw = {} /\ written = {}
    /\ completion = NoCompletion /\ gate = NoCompletion
    /\ running = [w \in Workers |-> FALSE] /\ dirty = [w \in Workers |-> FALSE]
    /\ pc = [w \in Workers |-> "none"] /\ gen = [w \in Workers |-> 0]
    /\ snap = [w \in Workers |-> {}] /\ exec = "free"
    /\ loops = 0 /\ actives = 0 /\ boundaries = 0

-----------------------------------------------------------------------------
(* Owner thread.                                                           *)

\* A full queue replaces its newest job by the newer one.
Enqueued(j) ==
    IF Len(queue) >= Capacity
    THEN [queue EXCEPT ![Len(queue)] = j]
    ELSE Append(queue, j)

EnqueueMapCommitJob ==
    /\ owner = "turn" /\ nextSeq <= MaxFrames
    /\ queue' = Enqueued([seq |-> nextSeq, epoch |-> epoch,
                          authority |-> authority, frame |-> frame])
    /\ nextSeq' = nextSeq + 1
    /\ UNCHANGED <<lifeVars, owner, commitVars, mapVars, gateVars, workVars,
                   bounds>>

\* isMapCommitAuthorityCurrent, of a job or of a completion.
IsCurrent(j) == j.epoch = epoch /\ (rail => j.authority = authority)

\* The checks of consumeMapCommitCompletion.
GateAccepts(c) == IsCurrent(c)

ConsumeMapCommitCompletion ==
    /\ owner = "turn" /\ completion.pending
    /\ completion' = [completion EXCEPT !.pending = FALSE]
    /\ gate' = IF GateAccepts(completion) THEN completion ELSE gate
    /\ UNCHANGED <<lifeVars, queueVars, owner, commitVars, mapVars, workVars,
                   bounds>>

\* A new registration target or yaw reference ends the authority of rail jobs.
RailAuthorityChange ==
    /\ rail /\ owner = "turn" /\ loops < MaxLoops
    /\ loops' = loops + 1
    /\ authority' = authority + 1
    /\ UNCHANGED <<rail, epoch, frame, queueVars, owner, commitVars, mapVars,
                   gateVars, workVars, actives, boundaries>>

\* consumeLoopClosureResult, first half: the poses of every keyframe in the
\* database are corrected under keyframes_mutex_ only.
ApplyOptimizedPoses ==
    /\ owner = "turn" /\ loops < MaxLoops /\ keyframes # {}
    /\ loops' = loops + 1
    /\ frame' = frame + 1
    /\ keyframes' = {[k EXCEPT !.frame = @ + 1] : k \in keyframes}
    /\ owner' = "corrected"
    /\ UNCHANGED <<rail, epoch, authority, queueVars, commitVars, raw,
                   written, gateVars, workVars, actives, boundaries>>

\* Second half: keyframe_pose_version_ and the runtime pose follow.
UpdatePoseFromLoopClosure ==
    /\ owner = "corrected"
    /\ authority' = authority + 1
    /\ owner' = "rebuild"
    /\ UNCHANGED <<rail, epoch, frame, queueVars, commitVars, mapVars,
                   gateVars, workVars, bounds>>

Launch(w) ==
    /\ running' = [running EXCEPT ![w] = TRUE]
    /\ gen' = [gen EXCEPT ![w] = epoch]
    /\ pc' = [pc EXCEPT ![w] = "lock"]

\* asyncRebuildGlobalMap: a running worker is only flagged.
AsyncRebuildGlobalMap ==
    /\ owner = "rebuild"
    /\ IF running["full"]
       THEN /\ dirty' = [dirty EXCEPT !["full"] = TRUE]
            /\ UNCHANGED <<running, pc, gen>>
       ELSE /\ dirty' = [dirty EXCEPT !["full"] = FALSE]
            /\ Launch("full")
    /\ owner' = "turn"
    /\ UNCHANGED <<lifeVars, queueVars, commitVars, mapVars, gateVars, snap,
                   exec, bounds>>

\* rebuildActiveMapFromRecentKeyframes: a running worker is left alone.
RebuildActiveMap ==
    /\ owner = "turn" /\ actives < MaxActives
    /\ actives' = actives + 1
    /\ IF running["active"] THEN UNCHANGED <<running, pc, gen>>
                            ELSE Launch("active")
    /\ UNCHANGED <<lifeVars, queueVars, owner, commitVars, mapVars, gateVars,
                   dirty, snap, exec, loops, boundaries>>

-----------------------------------------------------------------------------
(* Map commit thread.                                                      *)

LifecycleLocked == committer \in {"commit", "added", "flagged"}

\* Pop the oldest job and check it before any work is done on it.
PopAndPrecheck ==
    /\ committer = "wait" /\ queue # <<>>
    /\ queue' = Tail(queue)
    /\ IF IsCurrent(Head(queue))
       THEN committer' = "lock" /\ job' = Head(queue)
       ELSE UNCHANGED commitVars
    /\ UNCHANGED <<lifeVars, nextSeq, owner, mapVars, gateVars, workVars,
                   bounds>>

Recheck_Skipped(j) == TRUE   \* mutant: the precheck is thought sufficient

\* The check repeated under map_commit_lifecycle_mutex_.
Recheck(j) == IsCurrent(j)

LockLifecycle ==
    /\ committer = "lock"
    /\ IF Recheck(job) THEN committer' = "commit" /\ UNCHANGED job
                       ELSE committer' = "wait" /\ job' = NoJob
    /\ UNCHANGED <<lifeVars, queueVars, owner, mapVars, gateVars, workVars,
                   bounds>>

\* commitKeyFrameWithDynamicFiltering gives up before the keyframe is added.
CommitRefused ==
    /\ committer = "commit"
    /\ committer' = "wait" /\ job' = NoJob
    /\ UNCHANGED <<lifeVars, queueVars, owner, mapVars, gateVars, workVars,
                   bounds>>

AddKeyFrame ==
    /\ committer = "commit"
    /\ keyframes' = keyframes \cup {[id |-> job.seq, frame |-> job.frame]}
    /\ committer' = "added"
    /\ UNCHANGED <<lifeVars, queueVars, owner, job, raw, written, gateVars,
                   workVars, bounds>>

\* A rebuild that is running must not swap in a snapshot without this keyframe.
FlaggedByCommit == [w \in Workers |-> dirty[w] \/ running[w]]

FlagRebuilds ==
    /\ committer = "added"
    /\ dirty' = FlaggedByCommit
    /\ committer' = "flagged"
    /\ UNCHANGED <<lifeVars, queueVars, owner, job, mapVars, gateVars, running,
                   pc, gen, snap, exec, bounds>>

\* Append the keyframe's points under map_mutex_; the lifecycle mutex ends.
WriteMap ==
    /\ committer = "flagged"
    /\ raw' = raw \cup {[id |-> job.seq, frame |-> job.frame]}
    /\ written' = written \cup {job.seq}
    /\ committer' = "complete"
    /\ UNCHANGED <<lifeVars, queueVars, owner, job, keyframes, gateVars,
                   workVars, bounds>>

\* Under map_commit_completion_mutex_, outside the lifecycle mutex.
PostCompletion ==
    /\ committer = "complete"
    /\ completion' = IF IsCurrent(job)
                     THEN [pending |-> TRUE, seq |-> job.seq,
                           epoch |-> job.epoch, authority |-> job.authority]
                     ELSE completion
    /\ committer' = "wait" /\ job' = NoJob
    /\ UNCHANGED <<lifeVars, queueVars, owner, mapVars, gate, workVars, bounds>>

-----------------------------------------------------------------------------
(* Rebuild threads.                                                        *)

\* The newest MaxActive keyframes.
Recent(K) == {k \in K : Cardinality({l \in K : l.id > k.id}) < MaxActive}

\* The thread gives up map_rebuild_execution_mutex_ and only then "running".
Leave(w) ==
    /\ exec' = "free"
    /\ pc' = [pc EXCEPT ![w] = "leaving"]
    /\ snap' = [snap EXCEPT ![w] = {}]

LockExecution(w) ==
    /\ pc[w] = "lock" /\ exec = "free"
    /\ IF w = "full" /\ gen[w] # epoch
       THEN pc' = [pc EXCEPT ![w] = "leaving"] /\ UNCHANGED exec
       ELSE pc' = [pc EXCEPT ![w] = "clear"] /\ exec' = w
    /\ UNCHANGED <<lifeVars, queueVars, owner, commitVars, mapVars, gateVars,
                   running, dirty, gen, snap, bounds>>

\* The flag is cleared before the snapshot is taken.  Only the active worker
\* looks at the generation again here.
ClearFlag(w) ==
    /\ pc[w] = "clear"
    /\ IF w = "active" /\ gen[w] # epoch
       THEN Leave(w) /\ UNCHANGED dirty
       ELSE /\ dirty' = [dirty EXCEPT ![w] = FALSE]
            /\ pc' = [pc EXCEPT ![w] = "snapshot"]
            /\ UNCHANGED <<snap, exec>>
    /\ UNCHANGED <<lifeVars, queueVars, owner, commitVars, mapVars, gateVars,
                   running, gen, bounds>>

TakeSnapshot(w) ==
    /\ pc[w] = "snapshot"
    /\ LET s == IF w = "full" THEN keyframes ELSE Recent(keyframes)
       IN  IF w = "active" /\ s = {}
           THEN Leave(w)
           ELSE /\ snap' = [snap EXCEPT ![w] = s]
                /\ pc' = [pc EXCEPT ![w] = "swap"]
                /\ UNCHANGED exec
    /\ UNCHANGED <<lifeVars, queueVars, owner, commitVars, mapVars, gateVars,
                   running, dirty, gen, bounds>>

MustRetry(w) == dirty[w]

\* Under map_mutex_: drop a stale generation, retry when a keyframe was
\* committed since the snapshot, otherwise replace the layers.
SwapLayers(w) ==
    /\ pc[w] = "swap"
    /\ IF gen[w] # epoch
       THEN Leave(w) /\ UNCHANGED <<raw, dirty>>
       ELSE /\ dirty' = [dirty EXCEPT ![w] = FALSE]
            /\ IF MustRetry(w)
               THEN /\ pc' = [pc EXCEPT ![w] = "clear"]
                    /\ UNCHANGED <<raw, exec, snap>>
               ELSE raw' = snap[w] /\ Leave(w)
    /\ UNCHANGED <<lifeVars, queueVars, owner, commitVars, keyframes, written,
                   gateVars, running, gen, bounds>>

FinishRebuild(w) ==
    /\ pc[w] = "leaving"
    /\ running' = [running EXCEPT ![w] = FALSE]
    /\ pc' = [pc EXCEPT ![w] = "none"]
    /\ UNCHANGED <<lifeVars, queueVars, owner, commitVars, mapVars, gateVars,
                   dirty, gen, snap, exec, bounds>>

-----------------------------------------------------------------------------
(* Lifecycle boundaries.                                                   *)

MayOpenEpoch ==
    /\ owner = "turn" /\ ~LifecycleLocked
    /\ boundaries < MaxBoundaries

\* resetService and installLoadedRuntimeMap, with an empty keyframe database.
ReplaceMap ==
    /\ MayOpenEpoch
    /\ boundaries' = boundaries + 1
    /\ epoch' = epoch + 1 /\ authority' = authority + 1
    /\ queue' = <<>>
    /\ keyframes' = {} /\ raw' = {} /\ written' = {}
    /\ completion' = [completion EXCEPT !.pending = FALSE]
    /\ gate' = NoCompletion
    /\ dirty' = [dirty EXCEPT !["full"] = FALSE]
    /\ UNCHANGED <<rail, frame, nextSeq, owner, commitVars, running, pc, gen,
                   snap, exec, loops, actives>>

\* handleLidarTimeRollback: the map stays, what was scheduled for it does not.
TimeRollback ==
    /\ MayOpenEpoch
    /\ boundaries' = boundaries + 1
    /\ epoch' = epoch + 1
    /\ queue' = <<>>
    /\ completion' = [completion EXCEPT !.pending = FALSE]
    /\ gate' = NoCompletion
    /\ UNCHANGED <<rail, authority, frame, nextSeq, owner, commitVars, mapVars,
                   workVars, loops, actives>>

-----------------------------------------------------------------------------

Owner ==
    \/ EnqueueMapCommitJob \/ ConsumeMapCommitCompletion \/ RailAuthorityChange
    \/ ApplyOptimizedPoses \/ UpdatePoseFromLoopClosure
    \/ AsyncRebuildGlobalMap \/ RebuildActiveMap
Committer ==
    \/ PopAndPrecheck \/ LockLifecycle \/ CommitRefused \/ AddKeyFrame
    \/ FlagRebuilds \/ WriteMap \/ PostCompletion
Rebuilder(w) ==
    \/ LockExecution(w) \/ ClearFlag(w) \/ TakeSnapshot(w) \/ SwapLayers(w)
    \/ FinishRebuild(w)

\* Everybody waits for input and the bound on frames is used up.
Quiescent ==
    /\ nextSeq > MaxFrames /\ queue = <<>>
    /\ owner = "turn" /\ committer = "wait" /\ pc = [w \in Workers |-> "none"]
    /\ UNCHANGED vars

Next ==
    \/ Owner \/ Committer \/ \E w \in Workers : Rebuilder(w)
    \/ ReplaceMap \/ TimeRollback \/ Quiescent

Spec == Init /\ [][Next]_vars

\* The threads keep running; frames, loops and boundaries need not happen.
Fairness ==
    /\ WF_vars(UpdatePoseFromLoopClosure) /\ WF_vars(AsyncRebuildGlobalMap)
    /\ WF_vars(ConsumeMapCommitCompletion)
    /\ WF_vars(Committer)
    /\ \A w \in Workers : WF_vars(Rebuilder(w))

FairSpec == Spec /\ Fairness

-----------------------------------------------------------------------------
(* Properties.                                                             *)

Frames == 0 .. MaxLoops
Keys   == [id : 1 .. MaxFrames, frame : Frames]
Jobs   == [seq : 0 .. MaxFrames, epoch : Nat, authority : Nat, frame : Frames]
Completions == [pending : BOOLEAN, seq : 0 .. MaxFrames, epoch : Nat,
                authority : Nat]

LifeOK == /\ rail \in BOOLEAN /\ epoch \in Nat /\ authority \in Nat
          /\ frame \in Frames
QueueOK ==
    /\ nextSeq \in 1 .. (MaxFrames + 1)
    /\ queue \in Seq(Jobs) /\ Len(queue) <= Capacity
    /\ owner \in {"turn", "corrected", "rebuild"}
CommitOK ==
    /\ committer \in {"wait", "lock", "commit", "added", "flagged", "complete"}
    /\ job \in Jobs
MapOK ==
    /\ keyframes \subseteq Keys /\ raw \subseteq Keys
    /\ written \subseteq 1 .. MaxFrames
GateOK == completion \in Completions /\ gate \in Completions
WorkOK ==
    /\ running \in [Workers -> BOOLEAN] /\ dirty \in [Workers -> BOOLEAN]
    /\ pc \in [Workers -> {"none", "lock", "clear", "snapshot", "swap",
                           "leaving"}]
    /\ gen \in [Workers -> Nat] /\ snap \in [Workers -> SUBSET Keys]
    /\ exec \in Workers \cup {"free"}
BoundsOK ==
    /\ loops \in 0 .. MaxLoops /\ actives \in 0 .. MaxActives
    /\ boundaries \in 0 .. MaxBoundaries

\* The state is well formed; in particular the queue never exceeds its
\* capacity and no database entry is ahead of the corrections applied.
TypeOK ==
    LifeOK /\ QueueOK /\ CommitOK /\ MapOK /\ GateOK /\ WorkOK /\ BoundsOK

\* A keyframe that was committed while a rebuild was projecting an older
\* snapshot is not overwritten by the swap: the points of every recent
\* keyframe whose write is complete are in the raw layers.
NoKeyframeOverwritten ==
    \A k \in Recent(keyframes) :
        k.id \in written => \E p \in raw : p.id = k.id

\* A keyframe only enters the database of the lifecycle epoch in which its
\* frame was accepted, although reset, load or rollback may come between the
\* check of the job and the lock.
CommitsOfThisEpoch ==
    [][\A k \in keyframes' :
          (\A l \in keyframes : l.id # k.id) => job.epoch = epoch]_vars

\* The reference of the commit gate only moves to a commit of the current
\* epoch (and, for a rail job, of the current authority), although the
\* completion is posted and consumed outside the lifecycle mutex.
GateIsCurrent ==
    [][gate' # gate => gate' = NoCompletion \/ IsCurrent(gate')]_vars

\* Jobs reach the committer in the order their frames were accepted, and
\* coalescing at a full queue never loses the newest frame.
QueueKeepsOrder ==
    /\ \A i \in 1 .. (Len(queue) - 1) : queue[i].seq < queue[i + 1].seq
    /\ queue # <<>> => /\ queue[Len(queue)].seq = nextSeq - 1
                       /\ job.seq < Head(queue).seq

\* A committed keyframe is of this epoch, in the order of its frame, moves the
\* gate only in this epoch, and stays in the raw layers.
CommitsAreKept ==
    /\ CommitsOfThisEpoch /\ GateIsCurrent
    /\ [](NoKeyframeOverwritten /\ QueueKeepsOrder)

-----------------------------------------------------------------------------
(* What the documents promise and the code does not keep.                  *)

\* map_lifecycle.md: a loop closure opens a new lifecycle epoch, and what
\* belongs to an old one is dropped.  Here: after a loop closure no keyframe
\* with an uncorrected pose enters the database.
KeyframesInOneFrame == \A k \in keyframes : k.frame = frame

\* asyncRebuildGlobalMap: a request met by a running rebuild is queued for the
\* next one.  Here: the corrected keyframes eventually are in the raw layers.
CorrectionReachesMap == <>[](keyframes \subseteq raw)
=============================================================================
