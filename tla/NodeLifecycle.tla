---------------------------- MODULE NodeLifecycle ----------------------------
(***************************************************************************)
(* How the threads of NdtSlamNode wait for each other, and how ~NdtSlamNode *)
(* stops them: the owner thread (processCloudThread), the commit and the   *)
(* publication thread, the background threads the owner starts, the wall   *)
(* timers, and the destructor, which runs after ros::spin returned.        *)
(*                                                                         *)
(* A condition variable keeps no notification: one that finds nobody       *)
(* waiting is lost.  The owner evaluates its predicate and blocks under    *)
(* queue_mutex_; what is written under that mutex cannot fall in between,  *)
(* but shutdown_, the flags of the timers and those of the background      *)
(* threads are written without it.                                         *)
(***************************************************************************)
EXTENDS Naturals

CONSTANTS Capacity,   \* map_commit_queue_capacity_
          MaxFrames   \* bound: clouds received

ASSUME LifecycleConstants == Capacity \in Nat \ {0} /\ MaxFrames \in Nat

VARIABLES main,    \* where ros::spin and then the destructor are
          owner,   \* the owner thread
          commit, publish, worker,   \* the other threads
          q        \* what they share

vars == <<main, owner, commit, publish, worker, q>>

Init ==
    /\ main = "spin" /\ owner = "loop"
    /\ commit = "idle" /\ publish = "idle" /\ worker = "none"
    /\ q = [clouds |-> 0, received |-> 0, maintenance |-> FALSE, result |-> FALSE,
            jobs |-> 0, requested |-> FALSE, dirty |-> FALSE,
            down |-> FALSE, commitDown |-> FALSE, publishDown |-> FALSE]

Spinning == main = "spin"

\* queue_mutex_ is held by the owner from its predicate until it blocks.
QueueMutexFree == owner # "blocking"

\* queue_cv_.notify: only a thread that already waits is woken.
NotifyOwner == owner' = IF owner = "waiting" THEN "woken" ELSE owner

-----------------------------------------------------------------------------
(* What wakes the owner.                                                   *)

\* pointCloudCallback
CloudArrives ==
    /\ Spinning /\ QueueMutexFree /\ q.received < MaxFrames
    /\ q' = [q EXCEPT !.clouds = @ + 1, !.received = @ + 1]
    /\ NotifyOwner
    /\ UNCHANGED <<main, commit, publish, worker>>

\* mutant: the timer raises its flag and leaves the wake-up to the next cloud
TimerFiresSilently ==
    /\ Spinning
    /\ q' = [q EXCEPT !.maintenance = TRUE]
    /\ UNCHANGED <<main, owner, commit, publish, worker>>

\* timerCallback, memoryGuardTimerCallback: without queue_mutex_.
TimerFires ==
    /\ Spinning
    /\ q' = [q EXCEPT !.maintenance = TRUE]
    /\ NotifyOwner
    /\ UNCHANGED <<main, commit, publish, worker>>

\* A background thread ends with its result ready: without queue_mutex_.
WorkerEnds ==
    /\ worker = "running"
    /\ worker' = "finished"
    /\ q' = [q EXCEPT !.result = TRUE]
    /\ NotifyOwner
    /\ UNCHANGED <<main, commit, publish>>

-----------------------------------------------------------------------------
(* The owner thread.                                                       *)

Pending == q.clouds > 0 \/ q.maintenance \/ q.result

\* The head of the loop.  The predicate of the wait does not look at ros::ok.
OwnerLoops ==
    /\ owner = "loop"
    /\ owner' = IF Spinning /\ ~q.down THEN "woken" ELSE "ended"
    /\ UNCHANGED <<main, commit, publish, worker, q>>

OwnerLooks ==
    /\ owner = "woken"
    /\ owner' = CASE q.down -> "ended"
                  [] ~q.down /\ Pending -> "turn"
                  [] OTHER -> "blocking"
    /\ UNCHANGED <<main, commit, publish, worker, q>>

OwnerBlocks ==
    /\ owner = "blocking"
    /\ owner' = "waiting"
    /\ UNCHANGED <<main, commit, publish, worker, q>>

\* enqueueMapCommitJob: coalesced when the queue is full, dropped on shutdown.
Enqueued(jobs) ==
    IF q.commitDown \/ jobs = Capacity THEN jobs ELSE jobs + 1

\* A frame may or may not yield a keyframe.
OwnerFrame ==
    /\ owner = "turn" /\ q.clouds > 0
    /\ \E n \in {q.jobs, Enqueued(q.jobs)} :
         q' = [q EXCEPT !.clouds = @ - 1, !.jobs = n]
    /\ owner' = "loop"
    /\ UNCHANGED <<main, commit, publish, worker>>

\* runMapMaintenanceIfIdle: a result is taken and its thread joined, a new
\* thread may be started and a publication requested.
OwnerMaintains ==
    /\ owner = "turn" /\ (q.maintenance \/ q.result)
    /\ \E publication \in BOOLEAN, start \in BOOLEAN :
         /\ q' = [q EXCEPT !.maintenance = FALSE, !.result = FALSE,
                           !.requested = @ \/ publication]
         /\ worker' = IF start /\ worker # "running" THEN "running"
                      ELSE IF worker = "finished" THEN "none" ELSE worker
    /\ owner' = "loop"
    /\ UNCHANGED <<main, commit, publish>>

-----------------------------------------------------------------------------
(* The commit and the publication thread hold their mutex from the         *)
(* predicate on, and so does everyone who changes it.                      *)

CommitTakes ==
    /\ commit = "idle" /\ q.jobs > 0
    /\ commit' = "busy"
    /\ q' = [q EXCEPT !.jobs = @ - 1]
    /\ UNCHANGED <<main, owner, publish, worker>>

\* The keyframe reaches the dirty tiles; the owner is asked to maintain.
CommitDone ==
    /\ commit = "busy" /\ QueueMutexFree
    /\ commit' = "idle"
    /\ q' = [q EXCEPT !.dirty = TRUE, !.maintenance = TRUE]
    /\ NotifyOwner
    /\ UNCHANGED <<main, publish, worker>>

CommitEnds ==
    /\ commit = "idle" /\ q.commitDown /\ q.jobs = 0
    /\ commit' = "ended"
    /\ UNCHANGED <<main, owner, publish, worker, q>>

\* mapPublicationThread
PublishTakes ==
    /\ publish = "idle" /\ q.requested /\ ~q.publishDown
    /\ publish' = "busy"
    /\ q' = [q EXCEPT !.requested = FALSE]
    /\ UNCHANGED <<main, owner, commit, worker>>

PublishDone ==
    /\ publish = "busy"
    /\ publish' = "idle"
    /\ UNCHANGED <<main, owner, commit, worker, q>>

PublishEnds ==
    /\ publish = "idle" /\ q.publishDown
    /\ publish' = "ended"
    /\ UNCHANGED <<main, owner, commit, worker, q>>

-----------------------------------------------------------------------------
(* The destructor.                                                         *)

\* ros::spin returns: subscribers and timers are stopped.
RosStops ==
    /\ Spinning
    /\ main' = "stopping"
    /\ UNCHANGED <<owner, commit, publish, worker, q>>

\* shutdown_ is atomic and set without queue_mutex_.
SetShutdown ==
    /\ main = "stopping" /\ ~q.down
    /\ q' = [q EXCEPT !.down = TRUE]
    /\ UNCHANGED <<main, owner, commit, publish, worker>>

NotifyAll ==
    /\ main = "stopping" /\ q.down /\ ~q.commitDown
    /\ NotifyOwner
    /\ q' = [q EXCEPT !.publishDown = TRUE, !.commitDown = TRUE]
    /\ main' = "joining"
    /\ UNCHANGED <<commit, publish, worker>>

\* mutant: the background threads are joined while the owner may start one
JoinsWorkerFirst ==
    /\ main = "joining" /\ worker # "running" /\ commit = "ended"
    /\ main' = "flushing"
    /\ UNCHANGED <<owner, commit, publish, worker, q>>

\* The owner first: it starts the threads that are joined after it.
Joins ==
    /\ main = "joining"
    /\ owner = "ended" /\ commit = "ended" /\ publish = "ended"
    /\ worker # "running"
    /\ main' = "flushing"
    /\ UNCHANGED <<owner, commit, publish, worker, q>>

FinalFlush ==
    /\ main = "flushing"
    /\ q' = [q EXCEPT !.dirty = FALSE]
    /\ main' = "ended"
    /\ UNCHANGED <<owner, commit, publish, worker>>

-----------------------------------------------------------------------------
Owner == OwnerLoops \/ OwnerLooks \/ OwnerBlocks \/ OwnerFrame \/ OwnerMaintains
Commit == CommitTakes \/ CommitDone \/ CommitEnds
Publish == PublishTakes \/ PublishDone \/ PublishEnds
Main == RosStops \/ SetShutdown \/ NotifyAll \/ Joins \/ FinalFlush

Next == CloudArrives \/ TimerFires \/ WorkerEnds \/ Owner \/ Commit \/ Publish \/ Main

\* Threads run when they can, the timers fire while ROS spins, and a
\* destructor that was entered goes on.  Clouds and the end of the process
\* are up to the outside.
Fairness ==
    /\ WF_vars(Owner) /\ WF_vars(Commit) /\ WF_vars(Publish) /\ WF_vars(WorkerEnds)
    /\ WF_vars(TimerFires)
    /\ WF_vars(SetShutdown \/ NotifyAll \/ Joins \/ FinalFlush)

Spec == Init /\ [][Next]_vars /\ Fairness

-----------------------------------------------------------------------------
(* Properties.                                                             *)

\* The threads are where the code can be, and no queue outgrows its limit.
TypeOK ==
    /\ main \in {"spin", "stopping", "joining", "flushing", "ended"}
    /\ owner \in {"loop", "woken", "blocking", "waiting", "turn", "ended"}
    /\ commit \in {"idle", "busy", "ended"}
    /\ publish \in {"idle", "busy", "ended"}
    /\ worker \in {"none", "running", "finished"}
    /\ q \in [clouds : 0 .. MaxFrames, received : 0 .. MaxFrames,
              maintenance : BOOLEAN, result : BOOLEAN, jobs : 0 .. Capacity,
              requested : BOOLEAN, dirty : BOOLEAN, down : BOOLEAN,
              commitDown : BOOLEAN, publishDown : BOOLEAN]

\* A result is taken by the owner although the notification of the thread
\* that made it may be lost: the wall timers repeat it.  (Until ROS stops.)
ResultsAreTaken == q.result ~> (~q.result \/ ~Spinning)

\* When the destructor flushes the tiles no thread is left that could still
\* write them, and every keyframe the commit queue accepted is in them.
FlushIsLast ==
    main \in {"flushing", "ended"} =>
        /\ owner = "ended" /\ commit = "ended" /\ publish = "ended"
        /\ worker # "running" /\ q.jobs = 0

\* A destructor that was entered ends.
ShutdownEnds == main = "stopping" ~> main = "ended"
=============================================================================
