---------------------------- MODULE ThreadsProofs ---------------------------
(***************************************************************************)
(* Theorems about the threads of the node, for every value of the          *)
(* constants.  The node itself: when its destructor flushes the tiles,     *)
(* nobody is left who could still write them.  Loop closing: however       *)
(* commits, the worker, the owner and the boundaries interleave,           *)
(* keyframes and runtime pose stay in one frame.                           *)
(***************************************************************************)
EXTENDS MCThreads, Sequences, TLAPS

-----------------------------------------------------------------------------
(* NodeLifecycle: the inductive invariant.                                 *)

\* A cloud that waits was received.
CloudsWereReceived == q.clouds <= q.received

\* The commit thread only ends when it was told to and has no job left, and
\* enqueueMapCommitJob gives it none after that.
CommitEndedEmpty == commit = "ended" => q.commitDown /\ q.jobs = 0

\* The destructor raises commitDown and starts to join in one step.
DownIsJoining ==
    q.commitDown <=> main \in {"joining", "flushing", "ended"}

IInv ==
    /\ TypeOK /\ CloudsWereReceived /\ CommitEndedEmpty /\ DownIsJoining
    /\ FlushIsLast

-----------------------------------------------------------------------------
(* Init and the steps.                                                     *)

\* Nothing is under way when the node starts.
LEMMA InitIInv == Init => IInv
BY LifecycleConstants
DEF Init, IInv, TypeOK, CloudsWereReceived, CommitEndedEmpty, DownIsJoining,
    FlushIsLast

\* The callback only counts a cloud and wakes the owner.
LEMMA CloudArrivesKeeps == ASSUME IInv, CloudArrives PROVE IInv'
<1> USE LifecycleConstants DEF IInv, CloudArrives, Spinning,
       QueueMutexFree, NotifyOwner
<1>1. TypeOK' /\ CloudsWereReceived'
  <2>1. q.clouds + 1 \in 0 .. MaxFrames /\ q.received + 1 \in 0 .. MaxFrames
    BY DEF TypeOK, CloudsWereReceived
  <2>2. q.clouds + 1 <= q.received + 1
    BY DEF TypeOK, CloudsWereReceived
  <2> QED  BY <2>1, <2>2 DEF TypeOK, CloudsWereReceived
<1>2. CommitEndedEmpty'
  BY DEF CommitEndedEmpty
<1>3. DownIsJoining'
  BY DEF DownIsJoining
<1>4. FlushIsLast'
  BY DEF FlushIsLast
<1> QED  BY <1>1, <1>2, <1>3, <1>4

\* A timer raises its flag and wakes the owner.
LEMMA TimerFiresKeeps == ASSUME IInv, TimerFires PROVE IInv'
<1> USE LifecycleConstants DEF IInv, TimerFires, Spinning, NotifyOwner
<1>1. TypeOK' /\ CloudsWereReceived'
  BY DEF TypeOK, CloudsWereReceived
<1>2. CommitEndedEmpty'
  BY DEF CommitEndedEmpty
<1>3. DownIsJoining'
  BY DEF DownIsJoining
<1>4. FlushIsLast'
  BY DEF FlushIsLast
<1> QED  BY <1>1, <1>2, <1>3, <1>4

\* A background thread ends; it never starts one.
LEMMA WorkerEndsKeeps == ASSUME IInv, WorkerEnds PROVE IInv'
<1> USE LifecycleConstants DEF IInv, WorkerEnds, NotifyOwner
<1>1. TypeOK' /\ CloudsWereReceived'
  BY DEF TypeOK, CloudsWereReceived
<1>2. CommitEndedEmpty'
  BY DEF CommitEndedEmpty
<1>3. DownIsJoining'
  BY DEF DownIsJoining
<1>4. FlushIsLast'
  BY DEF FlushIsLast
<1> QED  BY <1>1, <1>2, <1>3, <1>4

\* The owner starts a turn or ends.
LEMMA OwnerLoopsKeeps == ASSUME IInv, OwnerLoops PROVE IInv'
<1> USE LifecycleConstants DEF IInv, OwnerLoops, Spinning
<1>1. TypeOK' /\ CloudsWereReceived'
  BY DEF TypeOK, CloudsWereReceived
<1>2. CommitEndedEmpty'
  BY DEF CommitEndedEmpty
<1>3. DownIsJoining'
  BY DEF DownIsJoining
<1>4. FlushIsLast'
  BY DEF FlushIsLast
<1> QED  BY <1>1, <1>2, <1>3, <1>4

\* The predicate of the wait.
LEMMA OwnerLooksKeeps == ASSUME IInv, OwnerLooks PROVE IInv'
<1> USE LifecycleConstants DEF IInv, OwnerLooks, Pending
<1>1. TypeOK' /\ CloudsWereReceived'
  BY DEF TypeOK, CloudsWereReceived
<1>2. CommitEndedEmpty'
  BY DEF CommitEndedEmpty
<1>3. DownIsJoining'
  BY DEF DownIsJoining
<1>4. FlushIsLast'
  BY DEF FlushIsLast
<1> QED  BY <1>1, <1>2, <1>3, <1>4

\* The owner goes to sleep.
LEMMA OwnerBlocksKeeps == ASSUME IInv, OwnerBlocks PROVE IInv'
<1> USE LifecycleConstants DEF IInv, OwnerBlocks
<1>1. TypeOK' /\ CloudsWereReceived'
  BY DEF TypeOK, CloudsWereReceived
<1>2. CommitEndedEmpty'
  BY DEF CommitEndedEmpty
<1>3. DownIsJoining'
  BY DEF DownIsJoining
<1>4. FlushIsLast'
  BY DEF FlushIsLast
<1> QED  BY <1>1, <1>2, <1>3, <1>4

\* A frame may leave a job, but none after the commit thread was told to end.
LEMMA OwnerFrameKeeps == ASSUME IInv, OwnerFrame PROVE IInv'
<1> USE LifecycleConstants DEF IInv, OwnerFrame, Enqueued
<1>1. TypeOK' /\ CloudsWereReceived'
  <2>1. PICK n \in {q.jobs, Enqueued(q.jobs)} :
          q' = [q EXCEPT !.clouds = @ - 1, !.jobs = n]
    OBVIOUS
  <2>2. n \in 0 .. Capacity
    BY DEF TypeOK
  <2>3. q.clouds - 1 \in 0 .. MaxFrames /\ q.clouds - 1 <= q.received
    BY DEF TypeOK, CloudsWereReceived
  <2> HIDE DEF Enqueued
  <2> QED  BY <2>1, <2>2, <2>3 DEF TypeOK, CloudsWereReceived
<1>2. CommitEndedEmpty'
  BY DEF CommitEndedEmpty
<1>3. DownIsJoining'
  BY DEF DownIsJoining
<1>4. FlushIsLast'
  BY DEF FlushIsLast
<1> QED  BY <1>1, <1>2, <1>3, <1>4

\* The owner may start a thread; the destructor does not flush meanwhile.
LEMMA OwnerMaintainsKeeps == ASSUME IInv, OwnerMaintains PROVE IInv'
<1> USE LifecycleConstants DEF IInv, OwnerMaintains
<1>1. TypeOK' /\ CloudsWereReceived'
  <2>1. PICK publication \in BOOLEAN :
          q' = [q EXCEPT !.maintenance = FALSE, !.result = FALSE,
                         !.requested = @ \/ publication]
    OBVIOUS
  <2>2. PICK requested \in BOOLEAN : requested = (q.requested \/ publication)
    OBVIOUS
  <2>3. q' = [q EXCEPT !.maintenance = FALSE, !.result = FALSE,
                       !.requested = requested]
    BY <2>1, <2>2, Zenon
  <2>4. worker' \in {"none", "running", "finished"}
    BY DEF TypeOK
  <2>5. TypeOK'
    BY <2>3, <2>4 DEF TypeOK
  <2>6. CloudsWereReceived'
    BY DEF CloudsWereReceived
  <2> QED  BY <2>5, <2>6
<1>2. CommitEndedEmpty'
  BY DEF CommitEndedEmpty
<1>3. DownIsJoining'
  BY DEF DownIsJoining
<1>4. FlushIsLast'
  BY DEF FlushIsLast
<1> QED  BY <1>1, <1>2, <1>3, <1>4

\* A job is taken before the commit thread can end.
LEMMA CommitTakesKeeps == ASSUME IInv, CommitTakes PROVE IInv'
<1> USE LifecycleConstants DEF IInv, CommitTakes
<1>1. TypeOK' /\ CloudsWereReceived'
  BY DEF TypeOK, CloudsWereReceived
<1>2. CommitEndedEmpty'
  BY DEF CommitEndedEmpty
<1>3. DownIsJoining'
  BY DEF DownIsJoining
<1>4. FlushIsLast'
  BY DEF FlushIsLast
<1> QED  BY <1>1, <1>2, <1>3, <1>4

\* The keyframe reaches the tiles.
LEMMA CommitDoneKeeps == ASSUME IInv, CommitDone PROVE IInv'
<1> USE LifecycleConstants DEF IInv, CommitDone,
       QueueMutexFree, NotifyOwner
<1>1. TypeOK' /\ CloudsWereReceived'
  BY DEF TypeOK, CloudsWereReceived
<1>2. CommitEndedEmpty'
  BY DEF CommitEndedEmpty
<1>3. DownIsJoining'
  BY DEF DownIsJoining
<1>4. FlushIsLast'
  BY DEF FlushIsLast
<1> QED  BY <1>1, <1>2, <1>3, <1>4

\* The commit thread ends with an empty queue.
LEMMA CommitEndsKeeps == ASSUME IInv, CommitEnds PROVE IInv'
<1> USE LifecycleConstants DEF IInv, CommitEnds
<1>1. TypeOK' /\ CloudsWereReceived'
  BY DEF TypeOK, CloudsWereReceived
<1>2. CommitEndedEmpty'
  BY DEF CommitEndedEmpty
<1>3. DownIsJoining'
  BY DEF DownIsJoining
<1>4. FlushIsLast'
  BY DEF FlushIsLast
<1> QED  BY <1>1, <1>2, <1>3, <1>4

\* The publication thread takes a request.
LEMMA PublishTakesKeeps == ASSUME IInv, PublishTakes PROVE IInv'
<1> USE LifecycleConstants DEF IInv, PublishTakes
<1>1. TypeOK' /\ CloudsWereReceived'
  BY DEF TypeOK, CloudsWereReceived
<1>2. CommitEndedEmpty'
  BY DEF CommitEndedEmpty
<1>3. DownIsJoining'
  BY DEF DownIsJoining
<1>4. FlushIsLast'
  BY DEF FlushIsLast
<1> QED  BY <1>1, <1>2, <1>3, <1>4

\* The publication is done.
LEMMA PublishDoneKeeps == ASSUME IInv, PublishDone PROVE IInv'
<1> USE LifecycleConstants DEF IInv, PublishDone
<1>1. TypeOK' /\ CloudsWereReceived'
  BY DEF TypeOK, CloudsWereReceived
<1>2. CommitEndedEmpty'
  BY DEF CommitEndedEmpty
<1>3. DownIsJoining'
  BY DEF DownIsJoining
<1>4. FlushIsLast'
  BY DEF FlushIsLast
<1> QED  BY <1>1, <1>2, <1>3, <1>4

\* The publication thread ends.
LEMMA PublishEndsKeeps == ASSUME IInv, PublishEnds PROVE IInv'
<1> USE LifecycleConstants DEF IInv, PublishEnds
<1>1. TypeOK' /\ CloudsWereReceived'
  BY DEF TypeOK, CloudsWereReceived
<1>2. CommitEndedEmpty'
  BY DEF CommitEndedEmpty
<1>3. DownIsJoining'
  BY DEF DownIsJoining
<1>4. FlushIsLast'
  BY DEF FlushIsLast
<1> QED  BY <1>1, <1>2, <1>3, <1>4

\* The destructor is entered.
LEMMA RosStopsKeeps == ASSUME IInv, RosStops PROVE IInv'
<1> USE LifecycleConstants DEF IInv, RosStops, Spinning
<1>1. TypeOK' /\ CloudsWereReceived'
  BY DEF TypeOK, CloudsWereReceived
<1>2. CommitEndedEmpty'
  BY DEF CommitEndedEmpty
<1>3. DownIsJoining'
  BY DEF DownIsJoining
<1>4. FlushIsLast'
  BY DEF FlushIsLast
<1> QED  BY <1>1, <1>2, <1>3, <1>4

\* The flag the owner looks at.
LEMMA SetShutdownKeeps == ASSUME IInv, SetShutdown PROVE IInv'
<1> USE LifecycleConstants DEF IInv, SetShutdown
<1>1. TypeOK' /\ CloudsWereReceived'
  BY DEF TypeOK, CloudsWereReceived
<1>2. CommitEndedEmpty'
  BY DEF CommitEndedEmpty
<1>3. DownIsJoining'
  BY DEF DownIsJoining
<1>4. FlushIsLast'
  BY DEF FlushIsLast
<1> QED  BY <1>1, <1>2, <1>3, <1>4

\* Both threads are told to end as the joining starts.
LEMMA NotifyAllKeeps == ASSUME IInv, NotifyAll PROVE IInv'
<1> USE LifecycleConstants DEF IInv, NotifyAll, NotifyOwner
<1>1. TypeOK' /\ CloudsWereReceived'
  BY DEF TypeOK, CloudsWereReceived
<1>2. CommitEndedEmpty'
  BY DEF CommitEndedEmpty
<1>3. DownIsJoining'
  BY DEF DownIsJoining
<1>4. FlushIsLast'
  BY DEF FlushIsLast
<1> QED  BY <1>1, <1>2, <1>3, <1>4

\* What the destructor waits for is what the flush needs.
LEMMA JoinsKeeps == ASSUME IInv, Joins PROVE IInv'
<1> USE LifecycleConstants DEF IInv, Joins
<1>1. TypeOK' /\ CloudsWereReceived'
  BY DEF TypeOK, CloudsWereReceived
<1>2. CommitEndedEmpty'
  BY DEF CommitEndedEmpty
<1>3. DownIsJoining'
  BY DEF DownIsJoining
<1>4. FlushIsLast'
  BY DEF FlushIsLast, CommitEndedEmpty
<1> QED  BY <1>1, <1>2, <1>3, <1>4

\* The tiles are flushed, and nobody is left.
LEMMA FinalFlushKeeps == ASSUME IInv, FinalFlush PROVE IInv'
<1> USE LifecycleConstants DEF IInv, FinalFlush
<1>1. TypeOK' /\ CloudsWereReceived'
  BY DEF TypeOK, CloudsWereReceived
<1>2. CommitEndedEmpty'
  BY DEF CommitEndedEmpty
<1>3. DownIsJoining'
  BY DEF DownIsJoining
<1>4. FlushIsLast'
  BY DEF FlushIsLast
<1> QED  BY <1>1, <1>2, <1>3, <1>4

\* A step that changes nothing.
LEMMA StutterKeeps == ASSUME IInv, UNCHANGED vars PROVE IInv'
BY DEF IInv, TypeOK, CloudsWereReceived, CommitEndedEmpty, DownIsJoining,
       FlushIsLast, vars

LEMMA StepKeeps == ASSUME IInv, [Next]_vars PROVE IInv'
<1>1. CASE CloudArrives
  BY <1>1, CloudArrivesKeeps
<1>2. CASE TimerFires
  BY <1>2, TimerFiresKeeps
<1>3. CASE WorkerEnds
  BY <1>3, WorkerEndsKeeps
<1>4. CASE OwnerLoops
  BY <1>4, OwnerLoopsKeeps
<1>5. CASE OwnerLooks
  BY <1>5, OwnerLooksKeeps
<1>6. CASE OwnerBlocks
  BY <1>6, OwnerBlocksKeeps
<1>7. CASE OwnerFrame
  BY <1>7, OwnerFrameKeeps
<1>8. CASE OwnerMaintains
  BY <1>8, OwnerMaintainsKeeps
<1>9. CASE CommitTakes
  BY <1>9, CommitTakesKeeps
<1>10. CASE CommitDone
  BY <1>10, CommitDoneKeeps
<1>11. CASE CommitEnds
  BY <1>11, CommitEndsKeeps
<1>12. CASE PublishTakes
  BY <1>12, PublishTakesKeeps
<1>13. CASE PublishDone
  BY <1>13, PublishDoneKeeps
<1>14. CASE PublishEnds
  BY <1>14, PublishEndsKeeps
<1>15. CASE RosStops
  BY <1>15, RosStopsKeeps
<1>16. CASE SetShutdown
  BY <1>16, SetShutdownKeeps
<1>17. CASE NotifyAll
  BY <1>17, NotifyAllKeeps
<1>18. CASE Joins
  BY <1>18, JoinsKeeps
<1>19. CASE FinalFlush
  BY <1>19, FinalFlushKeeps
<1>20. CASE UNCHANGED vars
  BY <1>20, StutterKeeps
<1> QED
  BY <1>1, <1>2, <1>3, <1>4, <1>5, <1>6, <1>7, <1>8, <1>9, <1>10, <1>11, <1>12,
     <1>13, <1>14, <1>15, <1>16, <1>17, <1>18, <1>19, <1>20
  DEF Next, Owner, Commit, Publish, Main

-----------------------------------------------------------------------------
(* The theorems.                                                           *)

THEOREM Invariance == Spec => []IInv
BY InitIInv, StepKeeps, PTL DEF Spec

\* TypeOK: every thread is at a place the code has, the commit queue stays
\* within its capacity and no cloud is processed that was not received.
THEOREM TypeCorrect == Spec => []TypeOK
<1>1. IInv => TypeOK
  BY DEF IInv
<1> QED  BY <1>1, Invariance, PTL

\* FlushIsLast: the flush of ~NdtSlamNode comes after every thread that
\* writes tiles, and after every job the commit queue accepted.
THEOREM FlushLast == Spec => []FlushIsLast
<1>1. IInv => FlushIsLast
  BY DEF IInv
<1> QED  BY <1>1, Invariance, PTL

-----------------------------------------------------------------------------
(* LoopClosure: a result of a snapshot, and the database it is applied to. *)

Records == [id : Nat, frame : Nat \X Nat, cloud : BOOLEAN]

LoopTyped ==
    /\ keyframes \in Seq(Records)
    /\ counters \in [last : Nat, count : Nat]
    /\ version \in Nat /\ loopEpoch \in Nat /\ pose \in Nat \X Nat
    /\ loopWorker.pc # "idle" =>
          loopWorker \in [pc : {"works", "stored", "ready"},
                          snapshot : Seq(Records), version : Nat, epoch : Nat]
    /\ loopSlot.valid \in BOOLEAN
    /\ loopSlot.valid => loopSlot.version \in Nat /\ loopSlot.last \in Nat

\* Ids are given out in order.
IdsGiven(db) == \A i \in 1 .. Len(db) : db[i].id <= counters.last

\* A snapshot of this pose version is in the frame of the pose, and whatever
\* keyframe it has not was added since.
SnapshotIsCurrent ==
    loopWorker.pc # "idle" =>
        /\ loopWorker.version <= version
        /\ loopWorker.version = version =>
              /\ IdsGiven(loopWorker.snapshot)
              /\ \A i \in 1 .. Len(loopWorker.snapshot) :
                    loopWorker.snapshot[i].frame = pose
              /\ Len(loopWorker.snapshot) > 0 =>
                    \A i \in 1 .. Len(keyframes) :
                       \/ \E j \in 1 .. Len(loopWorker.snapshot) :
                             loopWorker.snapshot[j].id = keyframes[i].id
                       \/ keyframes[i].id >
                            loopWorker.snapshot[Len(loopWorker.snapshot)].id

\* A result of this pose version corrects the frame of the pose, for the
\* keyframes of its snapshot and for those that were added since.
ResultIsCurrent ==
    loopSlot.valid =>
        /\ loopSlot.version <= version
        /\ loopSlot.version = version =>
              /\ loopSlot.last <= counters.last
              /\ \A i \in DOMAIN loopSlot.optimized :
                    loopSlot.optimized[i] = <<pose[1], pose[2] + 1>>
              /\ \A i \in 1 .. Len(keyframes) :
                    \/ keyframes[i].id \in DOMAIN loopSlot.optimized
                    \/ keyframes[i].id > loopSlot.last

InFrame == \A i \in 1 .. Len(keyframes) : keyframes[i].frame = pose

LoopIInv ==
    /\ LoopTyped /\ IdsGiven(keyframes) /\ InFrame
    /\ SnapshotIsCurrent /\ ResultIsCurrent

LEMMA LoopInit == K!Init => LoopIInv
<1> SUFFICES ASSUME K!Init PROVE LoopIInv
  OBVIOUS
<1>1. /\ keyframes = << >> /\ counters = [last |-> 0, count |-> 0]
      /\ version = 1 /\ loopEpoch = 1 /\ pose = <<1, 0>>
      /\ loopWorker.pc = "idle" /\ loopSlot.valid = FALSE
  BY DEF K!Init, K!Idle, K!NoResult
<1>2. Len(keyframes) = 0 /\ keyframes \in Seq(Records)
  BY <1>1
<1>3. counters \in [last : Nat, count : Nat] /\ pose \in Nat \X Nat
  BY <1>1
<1>4. LoopTyped
  BY <1>1, <1>2, <1>3 DEF LoopTyped
<1> QED
  BY <1>1, <1>2, <1>4 DEF LoopIInv, IdsGiven, InFrame, SnapshotIsCurrent,
       ResultIsCurrent

LEMMA RecordFields ==
    ASSUME NEW s \in Seq(Records)
    PROVE  /\ Len(s) \in Nat
           /\ \A i \in 1 .. Len(s) :
                 s[i].id \in Nat /\ s[i].frame \in Nat \X Nat
<1>1. \A i \in 1 .. Len(s) : s[i] \in Records
  OBVIOUS
<1>2. \A x \in Records : x.id \in Nat /\ x.frame \in Nat \X Nat
  BY DEF Records
<1> QED  BY <1>1, <1>2

\* A boundary, or a result that is applied, leaves the snapshots behind.
LEMMA VersionMoves ==
    ASSUME LoopIInv, version' = version + 1,
           UNCHANGED <<loopWorker, loopSlot>>
    PROVE  SnapshotIsCurrent' /\ ResultIsCurrent'
<1>1. version \in Nat
  BY DEF LoopIInv, LoopTyped
<1>2. SnapshotIsCurrent'
  <2>1. loopWorker.pc # "idle" =>
          loopWorker.version \in Nat /\ loopWorker.version <= version
    BY DEF LoopIInv, LoopTyped, SnapshotIsCurrent
  <2>2. loopWorker.pc # "idle" =>
          loopWorker.version <= version' /\ loopWorker.version # version'
    BY <1>1, <2>1
  <2> QED  BY <2>2 DEF SnapshotIsCurrent
<1>3. ResultIsCurrent'
  <2>1. loopSlot.valid =>
          loopSlot.version \in Nat /\ loopSlot.version <= version
    BY DEF LoopIInv, LoopTyped, ResultIsCurrent
  <2>2. loopSlot.valid =>
          loopSlot.version <= version' /\ loopSlot.version # version'
    BY <1>1, <2>1
  <2> QED  BY <2>2 DEF ResultIsCurrent
<1> QED  BY <1>2, <1>3

LEMMA AddedEffect ==
    ASSUME NEW db \in Seq(Records), NEW k \in Records
    PROVE  LET a == K!Added(db, k) IN
           /\ a \in Seq(Records)
           /\ \A i \in 1 .. Len(a) :
                 a[i] = k \/ \E j \in 1 .. Len(db) : a[i] = db[j]
<1> DEFINE rest == IF Len(db) >= MaxKeyframes THEN Tail(db) ELSE db
<1>1. /\ rest \in Seq(Records)
      /\ \A i \in 1 .. Len(rest) : \E j \in 1 .. Len(db) : rest[i] = db[j]
  <2>1. CASE Len(db) >= MaxKeyframes
    <3>1. db # << >>
      BY <2>1, LoopAssumption
    <3>2. /\ Tail(db) \in Seq(Records) /\ Len(Tail(db)) = Len(db) - 1
          /\ \A i \in 1 .. Len(Tail(db)) : Tail(db)[i] = db[i + 1]
      BY <3>1
    <3> QED  BY <2>1, <3>2
  <2>2. CASE ~(Len(db) >= MaxKeyframes)
    BY <2>2
  <2> QED  BY <2>1, <2>2
<1>2. K!Added(db, k) = Append(rest, k)
  BY DEF K!Added
<1> HIDE DEF rest
<1>3. /\ Append(rest, k) \in Seq(Records)
      /\ Len(Append(rest, k)) = Len(rest) + 1
      /\ \A i \in 1 .. Len(rest) : Append(rest, k)[i] = rest[i]
      /\ Append(rest, k)[Len(rest) + 1] = k
  BY <1>1
<1>4. ASSUME NEW i \in 1 .. Len(Append(rest, k))
      PROVE  \/ Append(rest, k)[i] = k
             \/ \E j \in 1 .. Len(db) : Append(rest, k)[i] = db[j]
  <2>1. Len(rest) \in Nat
    BY <1>1
  <2>2. CASE i = Len(rest) + 1
    BY <1>3, <2>2
  <2>3. CASE i \in 1 .. Len(rest)
    BY <1>1, <1>3, <2>3
  <2> QED  BY <1>3, <2>1, <2>2, <2>3
<1> QED  BY <1>2, <1>3, <1>4

\* A keyframe is added in the frame of the pose, with an id no snapshot has.
LEMMA CommitKeeps == ASSUME LoopIInv, K!CommitKeyframe PROVE LoopIInv'
<1> DEFINE k == [id |-> counters.last + 1, frame |-> pose, cloud |-> TRUE]
<1>1. /\ keyframes \in Seq(Records) /\ counters.last \in Nat
      /\ counters.count \in Nat /\ pose \in Nat \X Nat
  BY DEF LoopIInv, LoopTyped
<1>2. k \in Records /\ k.id = counters.last + 1 /\ k.frame = pose
  BY <1>1 DEF Records
<1>3. /\ keyframes' = K!Added(keyframes, k)
      /\ counters' = [last |-> counters.last + 1, count |-> counters.count + 1]
      /\ UNCHANGED <<version, loopEpoch, pose, loopWorker, loopSlot>>
  BY DEF K!CommitKeyframe, K!thread
<1> HIDE DEF k
<1>4. /\ keyframes' \in Seq(Records)
      /\ \A i \in 1 .. Len(keyframes') :
            \/ keyframes'[i] = k
            \/ \E j \in 1 .. Len(keyframes) : keyframes'[i] = keyframes[j]
  BY <1>1, <1>2, <1>3, AddedEffect
<1>5. counters'.last = counters.last + 1 /\ counters'.last \in Nat
      /\ counters' \in [last : Nat, count : Nat]
  <2>1. counters.last + 1 \in Nat /\ counters.count + 1 \in Nat
    BY <1>1
  <2> QED  BY <1>3, <2>1
<1>6. LoopTyped'
  BY <1>3, <1>4, <1>5 DEF LoopIInv, LoopTyped
<1>7. IdsGiven(keyframes)'
  <2>1. \A j \in 1 .. Len(keyframes) :
           keyframes[j].id \in Nat /\ keyframes[j].id <= counters.last
    BY <1>1, RecordFields DEF LoopIInv, IdsGiven
  <2>2. ASSUME NEW i \in 1 .. Len(keyframes')
        PROVE  keyframes'[i].id <= counters'.last
    <3>1. CASE keyframes'[i] = k
      BY <1>1, <1>2, <1>5, <3>1
    <3>2. CASE \E j \in 1 .. Len(keyframes) : keyframes'[i] = keyframes[j]
      BY <1>1, <1>5, <2>1, <3>2
    <3> QED  BY <1>4, <3>1, <3>2
  <2> QED  BY <2>2 DEF IdsGiven
<1>8. InFrame'
  BY <1>2, <1>3, <1>4 DEF LoopIInv, InFrame
<1>9. SnapshotIsCurrent'
  <2>1. SUFFICES ASSUME loopWorker.pc # "idle"
                 PROVE  SnapshotIsCurrent'
    BY <1>3 DEF SnapshotIsCurrent
  <2>2. /\ loopWorker.snapshot \in Seq(Records)
        /\ loopWorker.version <= version
    BY <2>1 DEF LoopIInv, LoopTyped, SnapshotIsCurrent
  <2>3. CASE loopWorker.version # version
    BY <1>3, <2>2, <2>3 DEF SnapshotIsCurrent
  <2>4. CASE loopWorker.version = version
    <3> DEFINE s == loopWorker.snapshot
    <3>1. /\ s \in Seq(Records) /\ Len(s) \in Nat
          /\ \A i \in 1 .. Len(s) : s[i].id \in Nat
      BY <2>2, RecordFields
    <3>2. /\ \A i \in 1 .. Len(s) : s[i].id <= counters.last
          /\ \A i \in 1 .. Len(s) : s[i].frame = pose
          /\ Len(s) > 0 => \A i \in 1 .. Len(keyframes) :
                \/ \E j \in 1 .. Len(s) : s[j].id = keyframes[i].id
                \/ keyframes[i].id > s[Len(s)].id
      BY <2>1, <2>4 DEF LoopIInv, SnapshotIsCurrent, IdsGiven
    <3>3. s' = s
      BY <1>3
    <3> HIDE DEF s
    <3>4. \A i \in 1 .. Len(s) : s[i].id <= counters'.last
      BY <1>1, <1>5, <3>1, <3>2
    <3>5. ASSUME Len(s) > 0, NEW i \in 1 .. Len(keyframes')
          PROVE  \/ \E j \in 1 .. Len(s) : s[j].id = keyframes'[i].id
                 \/ keyframes'[i].id > s[Len(s)].id
      <4>1. CASE keyframes'[i] = k
        <5>1. Len(s) \in 1 .. Len(s)
          BY <3>1, <3>5
        <5>2. s[Len(s)].id \in Nat /\ s[Len(s)].id <= counters.last
          BY <3>1, <3>2, <5>1
        <5>3. k.id > s[Len(s)].id
          BY <1>1, <1>2, <5>2
        <5> QED  BY <4>1, <5>3
      <4>2. CASE \E j \in 1 .. Len(keyframes) : keyframes'[i] = keyframes[j]
        BY <3>2, <3>5, <4>2
      <4> QED  BY <1>4, <4>1, <4>2
    <3>6. IdsGiven(s)'
      BY <3>3, <3>4 DEF IdsGiven
    <3> QED
      BY <1>3, <2>2, <3>2, <3>5, <3>6 DEF SnapshotIsCurrent, IdsGiven, s
  <2> QED  BY <2>3, <2>4
<1>10. ResultIsCurrent'
  <2>1. SUFFICES ASSUME loopSlot.valid, loopSlot.version = version
                 PROVE  ResultIsCurrent'
    BY <1>3 DEF LoopIInv, ResultIsCurrent
  <2> DEFINE r == loopSlot
  <2>2. /\ r.version <= version /\ r.last \in Nat /\ r.last <= counters.last
        /\ \A i \in DOMAIN r.optimized :
              r.optimized[i] = <<pose[1], pose[2] + 1>>
        /\ \A i \in 1 .. Len(keyframes) :
              \/ keyframes[i].id \in DOMAIN r.optimized
              \/ keyframes[i].id > r.last
    BY <2>1 DEF LoopIInv, LoopTyped, ResultIsCurrent
  <2>3. r' = r
    BY <1>3
  <2>4. r.valid
    BY <2>1
  <2> HIDE DEF r
  <2>5. ASSUME NEW i \in 1 .. Len(keyframes')
        PROVE  \/ keyframes'[i].id \in DOMAIN r.optimized
               \/ keyframes'[i].id > r.last
    <3>1. CASE keyframes'[i] = k
      BY <1>1, <1>2, <2>2, <3>1
    <3>2. CASE \E j \in 1 .. Len(keyframes) : keyframes'[i] = keyframes[j]
      BY <2>2, <3>2
    <3> QED  BY <1>4, <3>1, <3>2
  <2>6. r.last <= counters'.last
    BY <1>1, <1>5, <2>2
  <2> QED  BY <1>3, <2>2, <2>3, <2>5, <2>6 DEF ResultIsCurrent, r
<1> QED  BY <1>6, <1>7, <1>8, <1>9, <1>10 DEF LoopIInv

\* What a worker puts into the slot corrects the frame of its snapshot.
LEMMA ResultEffect ==
    ASSUME NEW s \in Seq(Records), NEW w, w.snapshot = s,
           NEW r \in K!Results(w), r.valid
    PROVE  /\ Len(s) > 0 /\ r.version = w.version
           /\ r.last = s[Len(s)].id
           /\ DOMAIN r.optimized = {s[i].id : i \in 1 .. Len(s)}
           /\ \A i \in DOMAIN r.optimized : \E j \in 1 .. Len(s) :
                 r.optimized[i] = <<s[j].frame[1], s[j].frame[2] + 1>>
<1>1. PICK p \in K!Pairs(s) :
        r = [valid |-> TRUE, version |-> w.version, epoch |-> w.epoch,
             rail |-> rail, pair |-> p, last |-> K!Last(s).id,
             optimized |-> [i \in K!Ids(s) |->
                LET k == CHOOSE x \in K!Range(s) : x.id = i
                IN <<k.frame[1], k.frame[2] + 1>>]]
  BY DEF K!Results, K!NoResult
<1>2. Len(s) > 0
  BY LoopAssumption DEF K!Pairs
<1>3. DOMAIN s = 1 .. Len(s) /\ K!Range(s) = {s[i] : i \in 1 .. Len(s)}
  BY DEF K!Range
<1>4. /\ r.version = w.version /\ r.last = s[Len(s)].id
      /\ r.optimized = [i \in K!Ids(s) |->
            LET k == CHOOSE x \in K!Range(s) : x.id = i
            IN <<k.frame[1], k.frame[2] + 1>>]
  BY <1>1 DEF K!Last
<1>5. K!Ids(s) = {s[i].id : i \in 1 .. Len(s)}
  BY <1>3 DEF K!Ids
<1>6. ASSUME NEW i \in DOMAIN r.optimized
      PROVE  \E j \in 1 .. Len(s) :
                r.optimized[i] = <<s[j].frame[1], s[j].frame[2] + 1>>
  <2> DEFINE k == CHOOSE x \in K!Range(s) : x.id = i
  <2>1. \E x \in K!Range(s) : x.id = i
    BY <1>3, <1>4, <1>5
  <2>2. k \in K!Range(s)
    BY <2>1
  <2>3. r.optimized[i] = <<k.frame[1], k.frame[2] + 1>>
    BY <1>4
  <2> HIDE DEF k
  <2> QED  BY <1>3, <2>2, <2>3
<1> QED  BY <1>2, <1>4, <1>5, <1>6

\* The worker leaves the database alone; its result is as current as its
\* snapshot.
LEMMA WorkerKeeps ==
    ASSUME LoopIInv, K!WorkerOptimizes \/ K!WorkerRaisesReady \/ K!WorkerEnds
    PROVE  LoopIInv'
<1>1. UNCHANGED <<keyframes, counters, version, loopEpoch, pose>>
  BY DEF K!WorkerOptimizes, K!WorkerRaisesReady, K!WorkerEnds, K!Work,
         K!database
<1>2. ASSUME LoopTyped', SnapshotIsCurrent', ResultIsCurrent' PROVE LoopIInv'
  BY <1>1, <1>2 DEF LoopIInv, IdsGiven, InFrame
<1>3. CASE K!WorkerOptimizes
  <2>1. /\ loopWorker.pc = "works"
        /\ loopWorker' = [loopWorker EXCEPT !.pc = "stored"]
    BY <1>3 DEF K!WorkerOptimizes, K!Work
  <2>2. loopWorker \in [pc : {"works", "stored", "ready"},
                        snapshot : Seq(Records), version : Nat, epoch : Nat]
    BY <2>1 DEF LoopIInv, LoopTyped
  <2>3. /\ loopWorker' \in [pc : {"works", "stored", "ready"},
                        snapshot : Seq(Records), version : Nat, epoch : Nat]
        /\ loopWorker'.snapshot = loopWorker.snapshot
        /\ loopWorker'.version = loopWorker.version
    BY <2>1, <2>2
  <2>4. SnapshotIsCurrent'
    BY <1>1, <2>1, <2>3 DEF LoopIInv, SnapshotIsCurrent, IdsGiven
  <2>5. PICK r \in K!Results(loopWorker) : loopSlot' = r
    BY <1>3 DEF K!WorkerOptimizes
  <2>6. r.valid \in BOOLEAN
    <3>1. CASE r = K!NoResult
      BY <3>1 DEF K!NoResult
    <3>2. CASE r # K!NoResult
      <4>1. \E p : r = [valid |-> TRUE, version |-> loopWorker.version,
                epoch |-> loopWorker.epoch, rail |-> rail, pair |-> p,
                last |-> K!Last(loopWorker.snapshot).id,
                optimized |-> r.optimized]
        BY <3>2 DEF K!Results
      <4>2. r.valid = TRUE
        BY <4>1
      <4> QED  BY <4>2
    <3> QED  BY <3>1, <3>2
  <2>7. CASE ~r.valid
    <3>1. ~loopSlot'.valid /\ loopSlot'.valid \in BOOLEAN
      BY <2>5, <2>6, <2>7
    <3>2. LoopTyped'
      BY <1>1, <2>3, <3>1 DEF LoopIInv, LoopTyped
    <3>3. ResultIsCurrent'
      BY <3>1 DEF ResultIsCurrent
    <3> QED  BY <1>2, <2>4, <3>2, <3>3
  <2>8. CASE r.valid
    <3> DEFINE s == loopWorker.snapshot
    <3>1. s \in Seq(Records) /\ loopWorker.version \in Nat
      BY <2>2
    <3>2. /\ Len(s) > 0 /\ r.version = loopWorker.version
          /\ r.last = s[Len(s)].id
          /\ DOMAIN r.optimized = {s[i].id : i \in 1 .. Len(s)}
          /\ \A i \in DOMAIN r.optimized : \E j \in 1 .. Len(s) :
                r.optimized[i] = <<s[j].frame[1], s[j].frame[2] + 1>>
      BY <2>8, <3>1, ResultEffect
    <3>3. /\ loopWorker.version <= version
          /\ loopWorker.version = version =>
                /\ \A i \in 1 .. Len(s) : s[i].id <= counters.last
                /\ \A i \in 1 .. Len(s) : s[i].frame = pose
                /\ Len(s) > 0 => \A i \in 1 .. Len(keyframes) :
                      \/ \E j \in 1 .. Len(s) : s[j].id = keyframes[i].id
                      \/ keyframes[i].id > s[Len(s)].id
      BY <2>1 DEF LoopIInv, SnapshotIsCurrent, IdsGiven
    <3> HIDE DEF s
    <3>4. Len(s) \in 1 .. Len(s) /\ r.last \in Nat
      BY <3>1, <3>2, RecordFields
    <3>5. LoopTyped'
      <4>1. /\ loopSlot'.valid \in BOOLEAN /\ loopSlot'.version \in Nat
            /\ loopSlot'.last \in Nat
        BY <2>5, <2>6, <3>1, <3>2, <3>4
      <4> QED  BY <1>1, <2>3, <4>1 DEF LoopIInv, LoopTyped
    <3>6. ASSUME loopWorker.version = version
          PROVE  /\ r.last <= counters.last
                 /\ \A i \in DOMAIN r.optimized :
                       r.optimized[i] = <<pose[1], pose[2] + 1>>
                 /\ \A i \in 1 .. Len(keyframes) :
                       \/ keyframes[i].id \in DOMAIN r.optimized
                       \/ keyframes[i].id > r.last
      <4>1. r.last <= counters.last
        BY <3>2, <3>3, <3>4, <3>6
      <4>2. \A i \in DOMAIN r.optimized :
               r.optimized[i] = <<pose[1], pose[2] + 1>>
        BY <3>2, <3>3, <3>6
      <4>3. \A i \in 1 .. Len(keyframes) :
               \/ keyframes[i].id \in DOMAIN r.optimized
               \/ keyframes[i].id > r.last
        BY <3>2, <3>3, <3>6
      <4> QED  BY <4>1, <4>2, <4>3
    <3>7. ResultIsCurrent'
      BY <1>1, <2>5, <3>2, <3>3, <3>6 DEF ResultIsCurrent
    <3> QED  BY <1>2, <2>4, <3>5, <3>7
  <2> QED  BY <2>6, <2>7, <2>8
<1>4. CASE K!WorkerRaisesReady
  <2>1. /\ loopWorker.pc = "stored" /\ loopSlot' = loopSlot
        /\ loopWorker' = [loopWorker EXCEPT !.pc = "ready"]
    BY <1>4 DEF K!WorkerRaisesReady, K!Work
  <2>2. loopWorker \in [pc : {"works", "stored", "ready"},
                        snapshot : Seq(Records), version : Nat, epoch : Nat]
    BY <2>1 DEF LoopIInv, LoopTyped
  <2>3. /\ loopWorker' \in [pc : {"works", "stored", "ready"},
                        snapshot : Seq(Records), version : Nat, epoch : Nat]
        /\ loopWorker'.snapshot = loopWorker.snapshot
        /\ loopWorker'.version = loopWorker.version
    BY <2>1, <2>2
  <2>4. SnapshotIsCurrent'
    BY <1>1, <2>1, <2>3 DEF LoopIInv, SnapshotIsCurrent, IdsGiven
  <2>5. ResultIsCurrent' /\ LoopTyped'
    BY <1>1, <2>1, <2>3 DEF LoopIInv, ResultIsCurrent, LoopTyped
  <2> QED  BY <1>2, <2>4, <2>5
<1>5. CASE K!WorkerEnds
  <2>1. loopWorker'.pc = "idle" /\ loopSlot' = loopSlot
    BY <1>5 DEF K!WorkerEnds, K!Work, K!Idle
  <2>2. SnapshotIsCurrent'
    BY <2>1 DEF SnapshotIsCurrent
  <2>3. ResultIsCurrent' /\ LoopTyped'
    BY <1>1, <2>1 DEF LoopIInv, ResultIsCurrent, LoopTyped
  <2> QED  BY <1>2, <2>2, <2>3
<1> QED  BY <1>3, <1>4, <1>5

\* Whatever leaves database, pose and worker alone keeps the invariant.
LEMMA RestKeeps ==
    ASSUME LoopIInv, UNCHANGED <<keyframes, counters, version, loopEpoch, pose,
                                 loopWorker, loopSlot>>
    PROVE  LoopIInv'
BY DEF LoopIInv, LoopTyped, IdsGiven, InFrame, SnapshotIsCurrent,
       ResultIsCurrent

\* A result that is applied moves every keyframe and the pose one correction on.
LEMMA AppliedKeeps ==
    ASSUME LoopIInv, loopSlot.valid, loopSlot.version = version,
           K!Applied(loopSlot),
           UNCHANGED <<counters, loopEpoch, loopWorker, loopSlot>>
    PROVE  LoopIInv'
<1> DEFINE r == loopSlot
           moved == <<pose[1], pose[2] + 1>>
<1>1. /\ keyframes \in Seq(Records) /\ pose \in Nat \X Nat /\ version \in Nat
      /\ \A i \in 1 .. Len(keyframes) : keyframes[i].frame = pose
      /\ r.last \in Nat
  BY DEF LoopIInv, LoopTyped, InFrame
<1>2. /\ \A i \in DOMAIN r.optimized : r.optimized[i] = moved
      /\ \A i \in 1 .. Len(keyframes) :
            \/ keyframes[i].id \in DOMAIN r.optimized
            \/ keyframes[i].id > r.last
  BY DEF LoopIInv, ResultIsCurrent
<1>3. /\ keyframes' = K!ApplyOptimizedPoses(r) /\ pose' = moved
      /\ version' = version + 1
  BY DEF K!Applied
<1>4. moved \in Nat \X Nat
  <2>1. pose[1] \in Nat /\ pose[2] \in Nat
    BY <1>1
  <2>2. pose[2] + 1 \in Nat
    BY <2>1
  <2> QED  BY <2>1, <2>2
<1> HIDE DEF r, moved
<1>5. ASSUME NEW i \in 1 .. Len(keyframes)
      PROVE  LET k == keyframes[i] IN
             (IF k.id \in DOMAIN r.optimized
              THEN [k EXCEPT !.frame = r.optimized[k.id]]
              ELSE IF k.id > r.last
                   THEN [k EXCEPT !.frame = <<@[1], @[2] + 1>>]
                   ELSE k)
             = [id |-> k.id, frame |-> moved, cloud |-> k.cloud]
  <2>1. keyframes[i] \in Records /\ keyframes[i].frame = pose
    BY <1>1
  <2>2. \A x : [keyframes[i] EXCEPT !.frame = x] =
              [id |-> keyframes[i].id, frame |-> x,
               cloud |-> keyframes[i].cloud]
    BY <2>1 DEF Records
  <2>3. CASE keyframes[i].id \in DOMAIN r.optimized
    BY <1>2, <2>2, <2>3
  <2>4. CASE keyframes[i].id \notin DOMAIN r.optimized
    <3>1. keyframes[i].id > r.last
      BY <1>2, <2>4
    <3>2. [keyframes[i] EXCEPT !.frame = <<@[1], @[2] + 1>>] =
             [id |-> keyframes[i].id, frame |-> moved,
              cloud |-> keyframes[i].cloud]
      BY <2>1, <2>2 DEF moved
    <3> QED  BY <2>4, <3>1, <3>2
  <2> QED  BY <2>3, <2>4
<1>6. DOMAIN keyframes = 1 .. Len(keyframes) /\ Len(keyframes) \in Nat
  BY <1>1
<1>7. keyframes' = [i \in 1 .. Len(keyframes) |->
         [id |-> keyframes[i].id, frame |-> moved,
          cloud |-> keyframes[i].cloud]]
  BY <1>3, <1>5, <1>6 DEF K!ApplyOptimizedPoses
<1>8. \A i \in 1 .. Len(keyframes) :
        [id |-> keyframes[i].id, frame |-> moved, cloud |-> keyframes[i].cloud]
           \in Records
  <2>1. \A i \in 1 .. Len(keyframes) : keyframes[i] \in Records
    BY <1>1
  <2>2. \A x \in Records :
          [id |-> x.id, frame |-> moved, cloud |-> x.cloud] \in Records
    BY <1>4 DEF Records
  <2> QED  BY <2>1, <2>2
<1>9. /\ keyframes' \in Seq(Records) /\ Len(keyframes') = Len(keyframes)
      /\ \A i \in 1 .. Len(keyframes) : keyframes'[i].frame = moved
      /\ \A i \in 1 .. Len(keyframes) : keyframes'[i].id = keyframes[i].id
  BY <1>6, <1>7, <1>8
<1>10. LoopTyped'
  <2>1. version' \in Nat
    BY <1>1, <1>3
  <2> QED  BY <1>3, <1>4, <1>9, <2>1 DEF LoopIInv, LoopTyped
<1>11. IdsGiven(keyframes)' /\ InFrame'
  BY <1>3, <1>9 DEF LoopIInv, IdsGiven, InFrame
<1>12. SnapshotIsCurrent' /\ ResultIsCurrent'
  BY <1>3, VersionMoves
<1> QED  BY <1>10, <1>11, <1>12 DEF LoopIInv

LEMMA ConsumeKeeps ==
    ASSUME LoopIInv, K!Consume,
           UNCHANGED <<counters, loopEpoch, loopWorker, loopSlot>>
    PROVE  LoopIInv'
<1>1. CASE UNCHANGED <<keyframes, pose, version>>
  BY <1>1, RestKeeps
<1>2. CASE loopSlot.valid /\ K!OfThisVersion(loopSlot) /\ K!Applied(loopSlot)
  BY <1>2, AppliedKeeps DEF K!OfThisVersion
<1> QED  BY <1>1, <1>2 DEF K!Consume

\* Boundaries and relocalizations leave what is computed behind.
LEMMA BoundaryKeeps ==
    ASSUME LoopIInv,
           K!Relocalized \/ K!Reset \/ K!Load \/ K!RebuildMap
    PROVE  LoopIInv'
<1>1. version' = version + 1 /\ UNCHANGED <<loopWorker, loopSlot>>
  BY DEF K!Relocalized, K!Reset, K!Load, K!RebuildMap, K!Boundary, K!thread
<1>2. SnapshotIsCurrent' /\ ResultIsCurrent'
  BY <1>1, VersionMoves
<1>3. version \in Nat /\ loopEpoch \in Nat /\ version' \in Nat
      /\ loopEpoch + 1 \in Nat
  BY <1>1 DEF LoopIInv, LoopTyped
<1>4. ASSUME LoopTyped', IdsGiven(keyframes)', InFrame' PROVE LoopIInv'
  BY <1>2, <1>4 DEF LoopIInv
<1>5. CASE K!Relocalized \/ K!RebuildMap
  <2>1. /\ UNCHANGED <<keyframes, counters, pose>>
        /\ loopEpoch' \in {loopEpoch, loopEpoch + 1}
    BY <1>5 DEF K!Relocalized, K!RebuildMap, K!Boundary, K!database
  <2>2. LoopTyped'
    BY <1>1, <1>3, <2>1 DEF LoopIInv, LoopTyped
  <2> QED  BY <1>4, <2>1, <2>2 DEF LoopIInv, IdsGiven, InFrame
<1>6. CASE K!Reset
  <2>1. /\ keyframes' = << >> /\ counters' = [last |-> 0, count |-> 0]
        /\ pose' = <<loopEpoch + 1, 0>> /\ loopEpoch' = loopEpoch + 1
    BY <1>6 DEF K!Reset, K!Boundary
  <2>2. keyframes' \in Seq(Records) /\ Len(keyframes') = 0
    BY <2>1
  <2>3. pose' \in Nat \X Nat /\ counters' \in [last : Nat, count : Nat]
    BY <1>3, <2>1
  <2>4. LoopTyped'
    BY <1>1, <1>3, <2>1, <2>2, <2>3 DEF LoopIInv, LoopTyped
  <2>5. IdsGiven(keyframes)' /\ InFrame'
    BY <2>2 DEF IdsGiven, InFrame
  <2> QED  BY <1>4, <2>4, <2>5
<1>7. CASE K!Load
  <2> DEFINE f == <<loopEpoch + 1, 0>>
  <2>1. PICK n \in 0 .. MaxKeyframes :
          /\ keyframes' = [i \in 1 .. n |->
                              [id |-> i, frame |-> f, cloud |-> TRUE]]
          /\ counters' = [last |-> n, count |-> n]
    BY <1>7 DEF K!Load
  <2>2. pose' = f /\ loopEpoch' = loopEpoch + 1 /\ f \in Nat \X Nat
    BY <1>3, <1>7 DEF K!Load, K!Boundary
  <2> HIDE DEF f
  <2>3. n \in Nat
    BY LoopAssumption
  <2>4. \A i \in 1 .. n : [id |-> i, frame |-> f, cloud |-> TRUE] \in Records
    BY <2>2, <2>3 DEF Records
  <2>5. /\ keyframes' \in Seq(Records) /\ Len(keyframes') = n
        /\ \A i \in 1 .. n : keyframes'[i].id = i /\ keyframes'[i].frame = f
    BY <2>1, <2>3, <2>4
  <2>6. counters' \in [last : Nat, count : Nat] /\ counters'.last = n
    BY <2>1, <2>3
  <2>7. LoopTyped'
    BY <1>1, <1>3, <2>2, <2>5, <2>6 DEF LoopIInv, LoopTyped
  <2>8. IdsGiven(keyframes)' /\ InFrame'
    BY <2>2, <2>3, <2>5, <2>6 DEF IdsGiven, InFrame
  <2> QED  BY <1>4, <2>7, <2>8
<1> QED  BY <1>5, <1>6, <1>7

\* A worker is started on the database as it is.
LEMMA MaintenanceKeeps == ASSUME LoopIInv, K!MaintenanceRuns PROVE LoopIInv'
<1>1. UNCHANGED <<keyframes, counters, version, loopEpoch, pose>>
  BY DEF K!MaintenanceRuns, K!database
<1>2. CASE UNCHANGED <<loopWorker, loopSlot>>
  BY <1>1, <1>2, RestKeeps
<1>3. CASE /\ loopWorker' = [pc |-> "works", snapshot |-> keyframes,
                            version |-> version, epoch |-> loopEpoch]
           /\ UNCHANGED loopSlot
  <2>1. /\ loopWorker'.snapshot = keyframes /\ loopWorker'.version = version
        /\ loopWorker'.pc = "works"
    BY <1>3
  <2>2. /\ keyframes \in Seq(Records) /\ version \in Nat
        /\ loopEpoch \in Nat
    BY DEF LoopIInv, LoopTyped
  <2>3. loopWorker' \in [pc : {"works", "stored", "ready"},
                        snapshot : Seq(Records), version : Nat, epoch : Nat]
    BY <1>3, <2>2
  <2>4. LoopTyped' /\ ResultIsCurrent'
    BY <1>1, <1>3, <2>3 DEF LoopIInv, LoopTyped, ResultIsCurrent
  <2>5. IdsGiven(keyframes) /\ InFrame
    BY DEF LoopIInv
  <2>6. IdsGiven(keyframes)' /\ InFrame'
    BY <1>1, <2>5 DEF IdsGiven, InFrame
  <2>7. SnapshotIsCurrent'
    BY <1>1, <2>1, <2>2, <2>5 DEF IdsGiven, InFrame, SnapshotIsCurrent
  <2> QED  BY <2>4, <2>6, <2>7 DEF LoopIInv
<1> QED
  BY <1>2, <1>3 DEF K!MaintenanceRuns, K!RequestWhileRunning, K!StartWorker,
       K!thread

\* The released clouds leave ids and frames alone.
LEMMA ReleaseKeeps == ASSUME LoopIInv, K!ReleaseClouds PROVE LoopIInv'
<1> DEFINE Kept(i) == keyframes[i].cloud /\ i > Len(keyframes) - MaxActive
<1>1. /\ keyframes \in Seq(Records) /\ DOMAIN keyframes = 1 .. Len(keyframes)
      /\ Len(keyframes) \in Nat
  BY DEF LoopIInv, LoopTyped
<1>2. /\ keyframes' = [i \in DOMAIN keyframes |->
             [keyframes[i] EXCEPT
                !.cloud = @ /\ i > Len(keyframes) - MaxActive]]
      /\ UNCHANGED <<counters, version, loopEpoch, pose, loopWorker, loopSlot>>
  BY DEF K!ReleaseClouds, K!thread
<1>3. ASSUME NEW i \in 1 .. Len(keyframes), NEW c \in BOOLEAN
      PROVE  /\ [keyframes[i] EXCEPT !.cloud = c] \in Records
             /\ [keyframes[i] EXCEPT !.cloud = c].id = keyframes[i].id
             /\ [keyframes[i] EXCEPT !.cloud = c].frame = keyframes[i].frame
  <2>1. keyframes[i] \in Records
    BY <1>1
  <2> QED  BY <2>1 DEF Records
<1>4. ASSUME NEW i \in 1 .. Len(keyframes)
      PROVE  /\ keyframes'[i] \in Records
             /\ keyframes'[i].id = keyframes[i].id
             /\ keyframes'[i].frame = keyframes[i].frame
  <2>1. keyframes'[i] = [keyframes[i] EXCEPT !.cloud = Kept(i)]
    BY <1>1, <1>2
  <2>2. Kept(i) \in BOOLEAN
    OBVIOUS
  <2> HIDE DEF Kept
  <2> QED  BY <1>3, <2>1, <2>2
<1>5. keyframes' \in Seq(Records) /\ Len(keyframes') = Len(keyframes)
  <2>1. DOMAIN keyframes' = 1 .. Len(keyframes)
    BY <1>1, <1>2
  <2>2. keyframes' = [i \in 1 .. Len(keyframes) |-> keyframes'[i]]
    BY <1>1, <1>2, <2>1
  <2> QED  BY <1>1, <1>4, <2>1, <2>2
<1>6. LoopTyped'
  BY <1>2, <1>5 DEF LoopIInv, LoopTyped
<1>7. IdsGiven(keyframes)' /\ InFrame'
  BY <1>2, <1>4, <1>5 DEF LoopIInv, IdsGiven, InFrame
<1>8. SnapshotIsCurrent' /\ ResultIsCurrent'
  BY <1>2, <1>4, <1>5 DEF LoopIInv, SnapshotIsCurrent, ResultIsCurrent, IdsGiven
<1> QED  BY <1>6, <1>7, <1>8 DEF LoopIInv

LEMMA LoopStep == LoopIInv /\ [K!Next]_(K!vars) => LoopIInv'
<1> SUFFICES ASSUME LoopIInv, [K!Next]_(K!vars) PROVE LoopIInv'
  OBVIOUS
<1>1. CASE K!CommitKeyframe
  BY <1>1, CommitKeeps
<1>2. CASE K!WorkerOptimizes \/ K!WorkerRaisesReady \/ K!WorkerEnds
  BY <1>2, WorkerKeeps
<1>3. CASE K!FrameTurn \/ K!MaintenanceTurn
  BY <1>3, ConsumeKeeps DEF K!FrameTurn, K!MaintenanceTurn, K!thread
<1>4. CASE K!Relocalized \/ K!Reset \/ K!Load \/ K!RebuildMap
  BY <1>4, BoundaryKeeps
<1>5. CASE K!NotRelocalized \/ K!MaintenanceYields \/ K!PeriodicRequest
  BY <1>5, RestKeeps DEF K!NotRelocalized, K!MaintenanceYields,
       K!PeriodicRequest, K!database, K!thread
<1>6. CASE K!MaintenanceRuns
  BY <1>6, MaintenanceKeeps
<1>7. CASE K!ReleaseClouds
  BY <1>7, ReleaseKeeps
<1>8. CASE UNCHANGED K!vars
  BY <1>8, RestKeeps DEF K!vars, K!database, K!thread
<1> QED
  BY <1>1, <1>2, <1>3, <1>4, <1>5, <1>6, <1>7, <1>8 DEF K!Next

\* Keyframes and runtime pose stay in one frame, however the worker, the
\* commits and the boundaries interleave (consumeLoopClosureResult).
THEOREM FramesAreOne == K!Spec => []OneFrame
<1>1. LoopIInv => OneFrame
  <2>1. keyframes \in Seq(Records) => DOMAIN keyframes = 1 .. Len(keyframes)
    OBVIOUS
  <2> QED  BY <2>1 DEF LoopIInv, LoopTyped, InFrame, OneFrame, K!OneFrame
<1> QED  BY <1>1, LoopInit, LoopStep, PTL DEF K!Spec
=============================================================================
