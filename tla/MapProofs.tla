------------------------------ MODULE MapProofs ------------------------------
(***************************************************************************)
(* Theorems about what is written into the map and how it survives, for    *)
(* every value of the constants.  The commit queue: jobs keep their order, *)
(* a commit belongs to its epoch, and no rebuild overwrites a committed    *)
(* keyframe.  The filters: no job writes the load it saw.  The evidence    *)
(* index: confirmations yield to newer denials and maturity is earned.     *)
(* The evidence on disk: a manifest names a file that is there.  The       *)
(* sessions: what is saved is of one moment.                               *)
(***************************************************************************)
EXTENDS MCMap, FiniteSetTheorems, TLAPS

-----------------------------------------------------------------------------
(* MapCommit: the inductive invariant.                                     *)

\* No pose includes more corrections than were applied.
FramesApplied ==
    /\ frame <= loops
    /\ \A k \in keyframes : k.frame <= frame
    /\ \A i \in 1 .. Len(queue) : queue[i].frame <= frame
    /\ job.frame <= frame

\* Sequence numbers are given out in order, and whatever left the queue is
\* older than what is in it.
QueueIsNewer ==
    /\ job.seq < nextSeq
    /\ \A s \in written : s < nextSeq
    /\ \A k \in keyframes : k.id < nextSeq
    /\ \A i \in 1 .. Len(queue) :
          /\ 1 <= queue[i].seq /\ queue[i].seq < nextSeq
          /\ job.seq < queue[i].seq
          /\ \A s \in written : s < queue[i].seq
          /\ \A k \in keyframes : k.id < queue[i].seq
          /\ \A j \in 1 .. Len(queue) : i < j => queue[i].seq < queue[j].seq
    /\ queue # <<>> => queue[Len(queue)].seq = nextSeq - 1

\* The job is newer than every keyframe before it is added, and the newest
\* keyframe, not written yet, after that.
JobIsNewest ==
    /\ committer \in {"lock", "commit", "added", "flagged", "complete"} =>
          1 <= job.seq
    /\ committer \in {"lock", "commit", "added", "flagged"} =>
          \A s \in written : s < job.seq
    /\ committer \in {"lock", "commit"} =>
          \A k \in keyframes : k.id < job.seq
    /\ committer \in {"added", "flagged"} =>
          /\ \E k \in keyframes : k.id = job.seq
          /\ \A k \in keyframes : k.id <= job.seq

\* Under the lifecycle mutex the job is of the current epoch.
LockedIsCurrent == LifecycleLocked => job.epoch = epoch

\* A rebuild thread that is not gone is "running", of this epoch or an old one.
WorkersRun ==
    \A w \in Workers : (pc[w] # "none" => running[w]) /\ gen[w] <= epoch

\* Keyframe id has points in S.
Projected(id, S) == \E p \in S : p.id = id

\* A snapshot that may be swapped in has every recent keyframe that is
\* written, and the one that is about to be.
SwapIsComplete ==
    \A w \in Workers :
        pc[w] = "swap" /\ gen[w] = epoch /\ ~dirty[w] =>
            /\ \A k \in Recent(keyframes) :
                  k.id \in written => Projected(k.id, snap[w])
            /\ committer = "flagged" => Projected(job.seq, snap[w])

IInv ==
    /\ TypeOK /\ IsFiniteSet(keyframes)
    /\ FramesApplied /\ QueueIsNewer /\ JobIsNewest /\ LockedIsCurrent
    /\ WorkersRun /\ SwapIsComplete /\ NoKeyframeOverwritten
-----------------------------------------------------------------------------
(* The newest keyframes.                                                   *)

LEMMA Positive ==
    /\ Capacity \in Nat /\ Capacity >= 1
    /\ MaxActive \in Nat /\ MaxActive >= 1
BY CommitConstants

\* A keyframe newer than all others is recent.
LEMMA NewestIsRecent ==
    ASSUME NEW K \in SUBSET Keys, NEW n \in K, \A k \in K : k.id <= n.id
    PROVE  n \in Recent(K)
<1>1. {l \in K : l.id > n.id} = {}
  BY DEF Keys
<1> QED  BY <1>1, FS_EmptySet, Positive DEF Recent

\* A newer keyframe only pushes others out.
LEMMA RecentAfterAdd ==
    ASSUME NEW K \in SUBSET Keys, IsFiniteSet(K), NEW n \in Keys
    PROVE  Recent(K \cup {n}) \subseteq Recent(K) \cup {n}
<1> SUFFICES ASSUME NEW k \in Recent(K \cup {n}), k # n
             PROVE  k \in Recent(K)
  OBVIOUS
<1> DEFINE A == {l \in K : l.id > k.id}
           B == {l \in K \cup {n} : l.id > k.id}
<1>1. k \in K /\ Cardinality(B) < MaxActive
  BY DEF Recent
<1>2. IsFiniteSet(K \cup {n})
  BY FS_AddElement
<1>3. IsFiniteSet(B)
  BY <1>2, FS_Subset
<1>4. /\ Cardinality(A) \in Nat /\ Cardinality(B) \in Nat
      /\ Cardinality(A) <= Cardinality(B)
  BY <1>3, FS_Subset, FS_CardinalityType
<1>5. Cardinality(A) < MaxActive
  BY <1>1, <1>4, Positive
<1> QED  BY <1>5 DEF Recent

\* The correction of every pose by one loop closure.
Corrected(K) == {[k EXCEPT !.frame = @ + 1] : k \in K}

\* It leaves the number of newer keyframes, and so what is recent.
LEMMA RecentAfterCorrection ==
    ASSUME NEW K \in SUBSET Keys, IsFiniteSet(K)
    PROVE  /\ IsFiniteSet(Corrected(K))
           /\ \A c \in Recent(Corrected(K)) : \E k \in Recent(K) : k.id = c.id
<1> DEFINE Next1(k) == [k EXCEPT !.frame = @ + 1]
<1>1. \A k \in Keys : Next1(k).id = k.id
  OBVIOUS
<1>2. \A k, l \in Keys : Next1(k) = Next1(l) => k = l
  BY DEF Keys, Frames
<1>3. ASSUME NEW S \in SUBSET K, NEW T, T = {Next1(k) : k \in S}, IsFiniteSet(S)
      PROVE  IsFiniteSet(T) /\ Cardinality(T) = Cardinality(S)
  <2> DEFINE f == [k \in S |-> Next1(k)]
  <2>1. f \in Bijection(S, T)
    BY <1>2, <1>3 DEF Bijection, Injection, Surjection, IsInjective
  <2> QED  BY <1>3, <2>1, FS_Bijection DEF ExistsBijection
<1>4. IsFiniteSet(Corrected(K))
  BY <1>3 DEF Corrected
<1>5. ASSUME NEW c \in Recent(Corrected(K))
      PROVE  \E k \in Recent(K) : k.id = c.id
  <2>1. PICK k \in K : c = Next1(k)
    BY DEF Recent, Corrected
  <2> DEFINE A == {l \in K : l.id > k.id}
             B == {l \in Corrected(K) : l.id > c.id}
  <2>2. A \in SUBSET K /\ IsFiniteSet(A)
    BY FS_Subset
  <2>3. B = {Next1(l) : l \in A}
    BY <1>1, <2>1 DEF Corrected
  <2>4. Cardinality(A) = Cardinality(B)
    BY <1>3, <2>2, <2>3
  <2>5. k \in Recent(K)
    BY <2>4 DEF Recent
  <2> QED  BY <2>1, <2>5
<1> QED  BY <1>4, <1>5

-----------------------------------------------------------------------------
(* The queue.                                                              *)

\* What is compared with < is a number.
Numbers ==
    /\ nextSeq \in Nat /\ frame \in Nat /\ loops \in Nat /\ Len(queue) \in Nat
    /\ job.seq \in Nat /\ job.frame \in Nat
    /\ \A k \in keyframes : k.id \in Nat /\ k.frame \in Nat
    /\ \A s \in written : s \in Nat
    /\ \A i \in 1 .. Len(queue) : queue[i].seq \in Nat /\ queue[i].frame \in Nat

LEMMA NumbersTyped == TypeOK => Numbers
<1> SUFFICES ASSUME TypeOK PROVE Numbers
  OBVIOUS
<1>1. nextSeq \in Nat /\ frame \in Nat /\ loops \in Nat /\ Len(queue) \in Nat
  BY DEF TypeOK, LifeOK, QueueOK, BoundsOK, Frames
<1>2. job.seq \in Nat /\ job.frame \in Nat
  BY DEF TypeOK, CommitOK, Jobs, Frames
<1>3. /\ \A k \in keyframes : k.id \in Nat /\ k.frame \in Nat
      /\ \A s \in written : s \in Nat
  BY DEF TypeOK, MapOK, Keys, Frames
<1>4. \A i \in 1 .. Len(queue) : queue[i] \in Jobs
  BY DEF TypeOK, QueueOK
<1>5. \A i \in 1 .. Len(queue) : queue[i].seq \in Nat /\ queue[i].frame \in Nat
  BY <1>4 DEF Jobs, Frames
<1> QED  BY <1>1, <1>2, <1>3, <1>5 DEF Numbers

LEMMA DefaultsTyped == NoJob \in Jobs /\ NoCompletion \in Completions
BY CommitConstants DEF NoJob, Jobs, NoCompletion, Completions, Frames

LEMMA EnqueuedEffect ==
    ASSUME queue \in Seq(Jobs), Len(queue) <= Capacity, NEW j \in Jobs
    PROVE  LET q == Enqueued(j)
               n == Len(queue)
               m == Len(q)
           IN  /\ q \in Seq(Jobs) /\ m \in Nat /\ n \in Nat
               /\ 1 <= m /\ m <= Capacity /\ m <= n + 1
               /\ q[m] = j
               /\ \A i \in 1 .. m - 1 : q[i] = queue[i]
<1>1. CASE Len(queue) >= Capacity
  BY Positive DEF Enqueued
<1>2. CASE ~(Len(queue) >= Capacity)
  BY Positive DEF Enqueued
<1> QED  BY <1>1, <1>2

LEMMA TailEffect ==
    ASSUME queue \in Seq(Jobs), queue # <<>>
    PROVE  LET n == Len(queue) IN
           /\ n \in Nat /\ n >= 1 /\ Head(queue) = queue[1] /\ queue[1] \in Jobs
           /\ Tail(queue) \in Seq(Jobs) /\ Len(Tail(queue)) = n - 1
           /\ \A i \in 1 .. n - 1 : Tail(queue)[i] = queue[i + 1]
OBVIOUS


(* The rebuild threads.                                                    *)
LEMMA LaunchTyped ==
    ASSUME NEW w \in Workers, TypeOK, Launch(w)
    PROVE  /\ running' \in [Workers -> BOOLEAN] /\ gen' \in [Workers -> Nat]
           /\ pc' \in [Workers -> {"none", "lock", "clear", "snapshot", "swap",
                                   "leaving"}]
BY DEF TypeOK, LifeOK, WorkOK, Launch

-----------------------------------------------------------------------------
(* Every step preserves the invariant.                                     *)

LEMMA EnqueueMapCommitJobKeeps ==
    ASSUME IInv, EnqueueMapCommitJob
    PROVE  IInv'
<1> USE DEF IInv
<1>t. Numbers
  BY NumbersTyped
<1> DEFINE j == [seq |-> nextSeq, epoch |-> epoch, authority |-> authority,
                frame |-> frame]
<1>a. j \in Jobs
  BY DEF EnqueueMapCommitJob, TypeOK, LifeOK, QueueOK, Jobs
<1>b. queue \in Seq(Jobs) /\ Len(queue) <= Capacity /\ queue' = Enqueued(j)
  BY DEF EnqueueMapCommitJob, TypeOK, QueueOK
<1>c. /\ queue' \in Seq(Jobs) /\ Len(queue') \in Nat /\ Len(queue) \in Nat
      /\ 1 <= Len(queue') /\ Len(queue') <= Capacity
      /\ Len(queue') <= Len(queue) + 1
      /\ queue'[Len(queue')] = j
      /\ \A i \in 1 .. Len(queue') - 1 : queue'[i] = queue[i]
  BY <1>a, <1>b, EnqueuedEffect
<1>d. j.seq = nextSeq /\ j.frame = frame
  OBVIOUS
<1>e. /\ nextSeq' = nextSeq + 1
      /\ UNCHANGED <<lifeVars, commitVars, mapVars, bounds>>
  BY DEF EnqueueMapCommitJob
<1>f. \A i \in 1 .. Len(queue') :
         \/ i = Len(queue')
         \/ i < Len(queue') /\ i \in 1 .. Len(queue) /\ queue'[i] = queue[i]
  BY <1>c
<1> HIDE DEF j
<1>1. LifeOK' /\ CommitOK' /\ MapOK' /\ GateOK' /\ WorkOK' /\ BoundsOK'
  BY DEF TypeOK, EnqueueMapCommitJob, lifeVars, commitVars, mapVars, gateVars,
         workVars, bounds, LifeOK, CommitOK, MapOK, GateOK, WorkOK, BoundsOK
<1>2. QueueOK'
  BY CommitConstants, <1>c DEF TypeOK, QueueOK, EnqueueMapCommitJob
<1>3. /\ JobIsNewest' /\ LockedIsCurrent' /\ WorkersRun' /\ SwapIsComplete'
      /\ NoKeyframeOverwritten' /\ IsFiniteSet(keyframes)'
  BY DEF JobIsNewest, LockedIsCurrent, WorkersRun, SwapIsComplete,
         NoKeyframeOverwritten, EnqueueMapCommitJob, commitVars, lifeVars,
         mapVars, workVars, LifecycleLocked
<1>4. FramesApplied'
  <2>1. /\ frame' = frame /\ loops' = loops /\ job' = job
        /\ keyframes' = keyframes
    BY <1>e DEF lifeVars, bounds, commitVars, mapVars
  <2>2. frame <= frame
    BY <1>t DEF Numbers
  <2>3. \A i \in 1 .. Len(queue') : queue'[i].frame <= frame
    BY <1>d, <1>f, <1>c, <2>2 DEF FramesApplied
  <2> QED  BY <2>1, <2>3 DEF FramesApplied
<1>5. QueueIsNewer'
  <2>1. /\ job' = job /\ written' = written /\ keyframes' = keyframes
        /\ nextSeq' = nextSeq + 1
    BY <1>e DEF commitVars, mapVars
  <2>2. /\ job.seq < nextSeq /\ \A s \in written : s < nextSeq
        /\ \A k \in keyframes : k.id < nextSeq
        /\ \A i \in 1 .. Len(queue) :
              1 <= queue[i].seq /\ queue[i].seq < nextSeq
    BY DEF QueueIsNewer
  <2>3. nextSeq >= 1
    BY DEF TypeOK, QueueOK
  <2>4. \A i \in 1 .. Len(queue') :
          /\ 1 <= queue'[i].seq /\ queue'[i].seq < nextSeq + 1
          /\ job.seq < queue'[i].seq
          /\ \A s \in written : s < queue'[i].seq
          /\ \A k \in keyframes : k.id < queue'[i].seq
    BY <1>t, <1>c, <1>d, <1>f, <2>2, <2>3 DEF QueueIsNewer, Numbers
  <2>5. \A i, m \in 1 .. Len(queue') : i < m => queue'[i].seq < queue'[m].seq
    BY <1>c, <1>d DEF QueueIsNewer
  <2>6. queue'[Len(queue')].seq = nextSeq' - 1
    BY <1>t, <1>c, <1>d, <2>1 DEF Numbers
  <2> QED  BY <1>t, <2>1, <2>4, <2>5, <2>6 DEF QueueIsNewer, Numbers
<1> QED  BY <1>1, <1>2, <1>3, <1>4, <1>5 DEF TypeOK

LEMMA ConsumeMapCommitCompletionKeeps ==
    ASSUME IInv, ConsumeMapCommitCompletion
    PROVE  IInv'
<1> USE DEF IInv
<1>t. Numbers
  BY NumbersTyped
<1>1. LifeOK' /\ QueueOK' /\ CommitOK' /\ MapOK' /\ WorkOK' /\ BoundsOK'
  BY DEF TypeOK, ConsumeMapCommitCompletion, lifeVars, queueVars, commitVars,
         mapVars, workVars, bounds, LifeOK, QueueOK, CommitOK, MapOK, WorkOK,
         BoundsOK
<1>2. GateOK'
  BY DEF TypeOK, GateOK, ConsumeMapCommitCompletion, Completions
<1>3. /\ FramesApplied' /\ QueueIsNewer' /\ JobIsNewest' /\ LockedIsCurrent'
      /\ WorkersRun' /\ SwapIsComplete' /\ NoKeyframeOverwritten'
      /\ IsFiniteSet(keyframes)'
  BY DEF FramesApplied, QueueIsNewer, JobIsNewest, LockedIsCurrent, WorkersRun,
         SwapIsComplete, NoKeyframeOverwritten, ConsumeMapCommitCompletion,
         bounds, commitVars, lifeVars, mapVars, queueVars, workVars,
         LifecycleLocked
<1> QED  BY <1>1, <1>2, <1>3 DEF TypeOK

LEMMA RailAuthorityChangeKeeps ==
    ASSUME IInv, RailAuthorityChange
    PROVE  IInv'
<1> USE DEF IInv
<1>t. Numbers
  BY NumbersTyped
<1>1. QueueOK' /\ CommitOK' /\ MapOK' /\ GateOK' /\ WorkOK'
  BY DEF TypeOK, RailAuthorityChange, queueVars, commitVars, mapVars, gateVars,
         workVars, QueueOK, CommitOK, MapOK, GateOK, WorkOK
<1>2. LifeOK'
  BY DEF TypeOK, LifeOK, RailAuthorityChange
<1>3. BoundsOK'
  BY CommitConstants DEF TypeOK, BoundsOK, RailAuthorityChange
<1>4. /\ QueueIsNewer' /\ JobIsNewest' /\ LockedIsCurrent' /\ WorkersRun'
      /\ SwapIsComplete' /\ NoKeyframeOverwritten'
      /\ IsFiniteSet(keyframes)'
  BY DEF QueueIsNewer, JobIsNewest, LockedIsCurrent, WorkersRun,
         SwapIsComplete, NoKeyframeOverwritten, RailAuthorityChange,
         commitVars, mapVars, queueVars, workVars, LifecycleLocked
<1>5. FramesApplied'
  BY <1>t
  DEF FramesApplied, Numbers, RailAuthorityChange, queueVars, commitVars,
      mapVars
<1> QED  BY <1>1, <1>2, <1>3, <1>4, <1>5 DEF TypeOK

LEMMA ApplyOptimizedPosesKeeps ==
    ASSUME IInv, ApplyOptimizedPoses
    PROVE  IInv'
<1> USE DEF IInv
<1>t. Numbers
  BY NumbersTyped
<1>c. keyframes' = Corrected(keyframes) /\ keyframes \in SUBSET Keys
  BY DEF ApplyOptimizedPoses, TypeOK, MapOK, Corrected
<1>d. /\ IsFiniteSet(keyframes')
      /\ \A c \in Recent(keyframes') : \E k \in Recent(keyframes) : k.id = c.id
  BY <1>c, RecentAfterCorrection
<1>e. \A c \in keyframes' :
         \E k \in keyframes : c.id = k.id /\ c.frame = k.frame + 1
  BY <1>c DEF Corrected, Keys
<1>f. \A k \in keyframes : \E c \in keyframes' : c.id = k.id
  <2> SUFFICES ASSUME NEW k \in keyframes
               PROVE  \E c \in keyframes' : c.id = k.id
    OBVIOUS
  <2>1. [k EXCEPT !.frame = @ + 1] \in keyframes'
    BY <1>c DEF Corrected
  <2> QED  BY <1>c, <2>1 DEF Keys
<1>g. keyframes' \subseteq [id : 1 .. MaxFrames, frame : Nat]
  BY <1>c DEF Corrected, Keys, Frames
<1>k. loops < MaxLoops
  BY DEF ApplyOptimizedPoses
<1>h. frame + 1 \in Frames /\ \A k \in keyframes : k.frame + 1 \in Frames
  BY <1>t, <1>k, CommitConstants DEF Frames, FramesApplied, Numbers
<1>i. keyframes' \subseteq Keys
  BY <1>e, <1>g, <1>h DEF Keys
<1>j. /\ frame' = frame + 1 /\ loops' = loops + 1
      /\ UNCHANGED <<queue, job, written, raw>>
  BY DEF ApplyOptimizedPoses, queueVars, commitVars
<1>1. CommitOK' /\ GateOK' /\ WorkOK'
  BY DEF TypeOK, ApplyOptimizedPoses, commitVars, gateVars, workVars, CommitOK,
         GateOK, WorkOK
<1>2. LifeOK'
  BY <1>h DEF TypeOK, LifeOK, ApplyOptimizedPoses
<1>3. QueueOK'
  BY DEF TypeOK, QueueOK, ApplyOptimizedPoses, queueVars
<1>4. MapOK'
  BY <1>i DEF TypeOK, MapOK, ApplyOptimizedPoses
<1>5. BoundsOK'
  BY CommitConstants DEF TypeOK, BoundsOK, ApplyOptimizedPoses
<1>6. LockedIsCurrent' /\ WorkersRun'
  BY DEF LockedIsCurrent, WorkersRun, ApplyOptimizedPoses, commitVars,
         workVars, LifecycleLocked
<1>7. FramesApplied'
  BY <1>t, <1>e, <1>j DEF FramesApplied, Numbers
<1>8. QueueIsNewer'
  BY <1>e DEF QueueIsNewer, ApplyOptimizedPoses, queueVars, commitVars
<1>9. JobIsNewest'
  BY <1>t, <1>e, <1>f
  DEF JobIsNewest, QueueIsNewer, Numbers, ApplyOptimizedPoses, commitVars
<1>10. SwapIsComplete'
  BY <1>d DEF SwapIsComplete, ApplyOptimizedPoses, workVars, commitVars
<1>11. NoKeyframeOverwritten'
  <2> SUFFICES ASSUME NEW c \in Recent(keyframes'), c.id \in written
               PROVE  \E p \in raw : p.id = c.id
    BY <1>j DEF NoKeyframeOverwritten
  <2> QED  BY <1>d DEF NoKeyframeOverwritten
<1>12. IsFiniteSet(keyframes)'
  BY <1>d
<1> QED
  BY <1>1, <1>2, <1>3, <1>4, <1>5, <1>6, <1>7, <1>8, <1>9, <1>10, <1>11, <1>12
  DEF TypeOK

LEMMA UpdatePoseFromLoopClosureKeeps ==
    ASSUME IInv, UpdatePoseFromLoopClosure
    PROVE  IInv'
<1> USE DEF IInv
<1>t. Numbers
  BY NumbersTyped
<1>1. CommitOK' /\ MapOK' /\ GateOK' /\ WorkOK' /\ BoundsOK'
  BY DEF TypeOK, UpdatePoseFromLoopClosure, commitVars, mapVars, gateVars,
         workVars, bounds, CommitOK, MapOK, GateOK, WorkOK, BoundsOK
<1>2. LifeOK'
  BY DEF TypeOK, LifeOK, UpdatePoseFromLoopClosure
<1>3. QueueOK'
  BY DEF TypeOK, QueueOK, UpdatePoseFromLoopClosure, queueVars
<1>4. /\ FramesApplied' /\ QueueIsNewer' /\ JobIsNewest' /\ LockedIsCurrent'
      /\ WorkersRun' /\ SwapIsComplete' /\ NoKeyframeOverwritten'
      /\ IsFiniteSet(keyframes)'
  BY DEF FramesApplied, QueueIsNewer, JobIsNewest, LockedIsCurrent, WorkersRun,
         SwapIsComplete, NoKeyframeOverwritten, UpdatePoseFromLoopClosure,
         bounds, commitVars, mapVars, queueVars, workVars, LifecycleLocked
<1> QED  BY <1>1, <1>2, <1>3, <1>4 DEF TypeOK

LEMMA AsyncRebuildGlobalMapKeeps ==
    ASSUME IInv, AsyncRebuildGlobalMap
    PROVE  IInv'
<1> USE DEF IInv
<1>t. Numbers
  BY NumbersTyped
<1>c. "full" \in Workers /\ "active" \in Workers
  BY DEF Workers
<1>1. LifeOK' /\ CommitOK' /\ MapOK' /\ GateOK' /\ BoundsOK'
  BY DEF TypeOK, AsyncRebuildGlobalMap, lifeVars, commitVars, mapVars,
         gateVars, bounds, LifeOK, CommitOK, MapOK, GateOK, BoundsOK
<1>2. QueueOK'
  BY DEF TypeOK, QueueOK, AsyncRebuildGlobalMap, queueVars
<1>3. WorkOK'
  BY <1>c, LaunchTyped DEF TypeOK, WorkOK, AsyncRebuildGlobalMap
<1>4. /\ FramesApplied' /\ QueueIsNewer' /\ JobIsNewest' /\ LockedIsCurrent'
      /\ NoKeyframeOverwritten' /\ IsFiniteSet(keyframes)'
  BY DEF FramesApplied, QueueIsNewer, JobIsNewest, LockedIsCurrent,
         NoKeyframeOverwritten, AsyncRebuildGlobalMap, bounds, commitVars,
         lifeVars, mapVars, queueVars, LifecycleLocked
<1>5. WorkersRun'
  BY DEF WorkersRun, TypeOK, WorkOK, LifeOK, AsyncRebuildGlobalMap, Launch,
         lifeVars
<1>6. SwapIsComplete'
  BY DEF SwapIsComplete, TypeOK, WorkOK, AsyncRebuildGlobalMap, Launch,
         lifeVars, commitVars, mapVars
<1> QED  BY <1>1, <1>2, <1>3, <1>4, <1>5, <1>6 DEF TypeOK

LEMMA RebuildActiveMapKeeps ==
    ASSUME IInv, RebuildActiveMap
    PROVE  IInv'
<1> USE DEF IInv
<1>t. Numbers
  BY NumbersTyped
<1>c. "full" \in Workers /\ "active" \in Workers
  BY DEF Workers
<1>1. LifeOK' /\ QueueOK' /\ CommitOK' /\ MapOK' /\ GateOK'
  BY DEF TypeOK, RebuildActiveMap, lifeVars, queueVars, commitVars, mapVars,
         gateVars, LifeOK, QueueOK, CommitOK, MapOK, GateOK
<1>2. WorkOK'
  BY <1>c, LaunchTyped DEF TypeOK, WorkOK, RebuildActiveMap
<1>3. BoundsOK'
  BY CommitConstants DEF TypeOK, BoundsOK, RebuildActiveMap
<1>4. /\ FramesApplied' /\ QueueIsNewer' /\ JobIsNewest' /\ LockedIsCurrent'
      /\ NoKeyframeOverwritten' /\ IsFiniteSet(keyframes)'
  BY DEF FramesApplied, QueueIsNewer, JobIsNewest, LockedIsCurrent,
         NoKeyframeOverwritten, RebuildActiveMap, commitVars, lifeVars,
         mapVars, queueVars, LifecycleLocked
<1>5. WorkersRun'
  BY DEF WorkersRun, TypeOK, WorkOK, LifeOK, RebuildActiveMap, Launch, lifeVars
<1>6. SwapIsComplete'
  BY DEF SwapIsComplete, TypeOK, WorkOK, RebuildActiveMap, Launch, lifeVars,
         commitVars, mapVars
<1> QED  BY <1>1, <1>2, <1>3, <1>4, <1>5, <1>6 DEF TypeOK

LEMMA PopAndPrecheckKeeps ==
    ASSUME IInv, PopAndPrecheck
    PROVE  IInv'
<1> USE DEF IInv
<1>t. Numbers
  BY NumbersTyped
<1>c. LET n == Len(queue) IN
      /\ n \in Nat /\ n >= 1 /\ Head(queue) = queue[1] /\ queue[1] \in Jobs
      /\ queue' \in Seq(Jobs) /\ Len(queue') = n - 1
      /\ \A i \in 1 .. n - 1 : queue'[i] = queue[i + 1]
  BY DEF PopAndPrecheck, TypeOK, QueueOK
<1>1. LifeOK' /\ MapOK' /\ GateOK' /\ WorkOK' /\ BoundsOK'
  BY DEF TypeOK, PopAndPrecheck, lifeVars, mapVars, gateVars, workVars, bounds,
         LifeOK, MapOK, GateOK, WorkOK, BoundsOK
<1>2. QueueOK'
  BY CommitConstants DEF TypeOK, QueueOK, PopAndPrecheck
<1>3. CommitOK'
  BY <1>c DEF TypeOK, CommitOK, PopAndPrecheck, commitVars
<1>4. WorkersRun' /\ NoKeyframeOverwritten' /\ IsFiniteSet(keyframes)'
  BY DEF WorkersRun, NoKeyframeOverwritten, PopAndPrecheck, lifeVars, mapVars,
         workVars
<1>5. FramesApplied'
  BY DEF FramesApplied, PopAndPrecheck, lifeVars, bounds, commitVars, mapVars
<1>6. QueueIsNewer'
  BY DEF QueueIsNewer, PopAndPrecheck, commitVars, mapVars
<1>7. JobIsNewest'
  BY DEF JobIsNewest, QueueIsNewer, PopAndPrecheck, commitVars, mapVars
<1>8. LockedIsCurrent'
  BY DEF LockedIsCurrent, LifecycleLocked, PopAndPrecheck, commitVars
<1>9. SwapIsComplete'
  BY DEF SwapIsComplete, PopAndPrecheck, lifeVars, workVars, commitVars,
         mapVars
<1> QED  BY <1>1, <1>2, <1>3, <1>4, <1>5, <1>6, <1>7, <1>8, <1>9 DEF TypeOK

LEMMA LockLifecycleKeeps ==
    ASSUME IInv, LockLifecycle
    PROVE  IInv'
<1> USE DEF IInv
<1>t. Numbers
  BY NumbersTyped
<1>1. LifeOK' /\ QueueOK' /\ MapOK' /\ GateOK' /\ WorkOK' /\ BoundsOK'
  BY DEF TypeOK, LockLifecycle, lifeVars, queueVars, mapVars, gateVars,
         workVars, bounds, LifeOK, QueueOK, MapOK, GateOK, WorkOK, BoundsOK
<1>2. CommitOK'
  BY DefaultsTyped DEF TypeOK, CommitOK, LockLifecycle
<1>3. WorkersRun' /\ NoKeyframeOverwritten' /\ IsFiniteSet(keyframes)'
  BY DEF WorkersRun, NoKeyframeOverwritten, LockLifecycle, lifeVars, mapVars,
         workVars
<1>4. FramesApplied'
  BY <1>t
  DEF FramesApplied, NoJob, Numbers, LockLifecycle, lifeVars, bounds,
      queueVars, mapVars
<1>5. QueueIsNewer'
  BY <1>t DEF QueueIsNewer, NoJob, Numbers, LockLifecycle, queueVars, mapVars
<1>6. JobIsNewest'
  BY DEF JobIsNewest, LockLifecycle, mapVars
<1>7. LockedIsCurrent'
  BY DEF LockedIsCurrent, LifecycleLocked, LockLifecycle, Recheck, IsCurrent,
         lifeVars
<1>8. SwapIsComplete'
  BY DEF SwapIsComplete, LockLifecycle, lifeVars, workVars, mapVars
<1> QED  BY <1>1, <1>2, <1>3, <1>4, <1>5, <1>6, <1>7, <1>8 DEF TypeOK

LEMMA CommitRefusedKeeps ==
    ASSUME IInv, CommitRefused
    PROVE  IInv'
<1> USE DEF IInv
<1>t. Numbers
  BY NumbersTyped
<1>1. LifeOK' /\ QueueOK' /\ MapOK' /\ GateOK' /\ WorkOK' /\ BoundsOK'
  BY DEF TypeOK, CommitRefused, lifeVars, queueVars, mapVars, gateVars,
         workVars, bounds, LifeOK, QueueOK, MapOK, GateOK, WorkOK, BoundsOK
<1>2. CommitOK'
  BY DefaultsTyped DEF CommitOK, CommitRefused
<1>3. WorkersRun' /\ NoKeyframeOverwritten' /\ IsFiniteSet(keyframes)'
  BY DEF WorkersRun, NoKeyframeOverwritten, CommitRefused, lifeVars, mapVars,
         workVars
<1>4. FramesApplied'
  BY <1>t
  DEF FramesApplied, NoJob, Numbers, CommitRefused, lifeVars, bounds,
      queueVars, mapVars
<1>5. QueueIsNewer'
  BY <1>t DEF QueueIsNewer, NoJob, Numbers, CommitRefused, queueVars, mapVars
<1>6. JobIsNewest'
  BY DEF JobIsNewest, CommitRefused
<1>7. LockedIsCurrent'
  BY DEF LockedIsCurrent, LifecycleLocked, CommitRefused
<1>8. SwapIsComplete'
  BY DEF SwapIsComplete, CommitRefused, lifeVars, workVars, mapVars
<1> QED  BY <1>1, <1>2, <1>3, <1>4, <1>5, <1>6, <1>7, <1>8 DEF TypeOK

LEMMA AddKeyFrameKeeps ==
    ASSUME IInv, AddKeyFrame
    PROVE  IInv'
<1> USE DEF IInv
<1>t. Numbers
  BY NumbersTyped
<1>c. keyframes' = keyframes \cup {[id |-> job.seq, frame |-> job.frame]}
  BY DEF AddKeyFrame
<1>d. [id |-> job.seq, frame |-> job.frame] \in Keys
  BY DEF AddKeyFrame, TypeOK, CommitOK, JobIsNewest, Keys, Jobs
<1>e. Recent(keyframes') \subseteq
          Recent(keyframes) \cup {[id |-> job.seq, frame |-> job.frame]}
  BY <1>c, <1>d, RecentAfterAdd DEF TypeOK, MapOK
<1>f. \A k \in Recent(keyframes') : k.id \in written => k \in Recent(keyframes)
  BY <1>e, <1>t DEF AddKeyFrame, JobIsNewest, Numbers
<1>1. LifeOK' /\ QueueOK' /\ GateOK' /\ WorkOK' /\ BoundsOK'
  BY DEF TypeOK, AddKeyFrame, lifeVars, queueVars, gateVars, workVars, bounds,
         LifeOK, QueueOK, GateOK, WorkOK, BoundsOK
<1>2. MapOK'
  BY <1>d DEF TypeOK, MapOK, AddKeyFrame
<1>3. CommitOK'
  BY DEF TypeOK, CommitOK, AddKeyFrame
<1>4. WorkersRun'
  BY DEF WorkersRun, AddKeyFrame, lifeVars, workVars
<1>5. FramesApplied'
  BY DEF FramesApplied, AddKeyFrame, lifeVars, bounds, queueVars
<1>6. QueueIsNewer'
  BY DEF QueueIsNewer, AddKeyFrame, queueVars
<1>7. JobIsNewest'
  BY <1>t, <1>d DEF JobIsNewest, Numbers, AddKeyFrame
<1>8. LockedIsCurrent'
  BY DEF LockedIsCurrent, LifecycleLocked, AddKeyFrame, lifeVars
<1>9. SwapIsComplete'
  BY <1>f DEF SwapIsComplete, AddKeyFrame, lifeVars, workVars
<1>10. NoKeyframeOverwritten'
  BY <1>f DEF NoKeyframeOverwritten, AddKeyFrame
<1>11. IsFiniteSet(keyframes)'
  BY <1>c, FS_AddElement
<1> QED
  BY <1>1, <1>2, <1>3, <1>4, <1>5, <1>6, <1>7, <1>8, <1>9, <1>10, <1>11
  DEF TypeOK

LEMMA FlagRebuildsKeeps ==
    ASSUME IInv, FlagRebuilds
    PROVE  IInv'
<1> USE DEF IInv
<1>t. Numbers
  BY NumbersTyped
<1>1. LifeOK' /\ QueueOK' /\ MapOK' /\ GateOK' /\ BoundsOK'
  BY DEF TypeOK, FlagRebuilds, lifeVars, queueVars, mapVars, gateVars, bounds,
         LifeOK, QueueOK, MapOK, GateOK, BoundsOK
<1>2. WorkOK'
  BY DEF TypeOK, WorkOK, FlagRebuilds, FlaggedByCommit
<1>3. CommitOK'
  BY DEF TypeOK, CommitOK, FlagRebuilds
<1>4. /\ FramesApplied' /\ QueueIsNewer' /\ WorkersRun'
      /\ NoKeyframeOverwritten' /\ IsFiniteSet(keyframes)'
  BY DEF FramesApplied, QueueIsNewer, WorkersRun, NoKeyframeOverwritten,
         FlagRebuilds, bounds, lifeVars, mapVars, queueVars
<1>5. JobIsNewest'
  BY DEF JobIsNewest, FlagRebuilds, mapVars
<1>6. LockedIsCurrent'
  BY DEF LockedIsCurrent, LifecycleLocked, FlagRebuilds, lifeVars
<1>7. SwapIsComplete'
  BY DEF SwapIsComplete, FlagRebuilds, FlaggedByCommit, WorkersRun
<1> QED  BY <1>1, <1>2, <1>3, <1>4, <1>5, <1>6, <1>7 DEF TypeOK

LEMMA WriteMapKeeps ==
    ASSUME IInv, WriteMap
    PROVE  IInv'
<1> USE DEF IInv
<1>t. Numbers
  BY NumbersTyped
<1>c. /\ job.seq \in 1 .. MaxFrames
      /\ [id |-> job.seq, frame |-> job.frame] \in Keys
  BY DEF WriteMap, TypeOK, CommitOK, JobIsNewest, Keys, Jobs
<1>1. LifeOK' /\ QueueOK' /\ GateOK' /\ WorkOK' /\ BoundsOK'
  BY DEF TypeOK, WriteMap, lifeVars, queueVars, gateVars, workVars, bounds,
         LifeOK, QueueOK, GateOK, WorkOK, BoundsOK
<1>2. MapOK'
  BY <1>c DEF TypeOK, MapOK, WriteMap
<1>3. CommitOK'
  BY DEF TypeOK, CommitOK, WriteMap
<1>4. FramesApplied' /\ WorkersRun' /\ IsFiniteSet(keyframes)'
  BY DEF FramesApplied, WorkersRun, WriteMap, bounds, lifeVars, queueVars,
         workVars
<1>5. QueueIsNewer'
  BY DEF QueueIsNewer, WriteMap, queueVars
<1>6. JobIsNewest'
  BY DEF JobIsNewest, WriteMap
<1>7. LockedIsCurrent'
  BY DEF LockedIsCurrent, LifecycleLocked, WriteMap
<1>8. SwapIsComplete'
  BY DEF SwapIsComplete, WriteMap, lifeVars, workVars
<1>9. NoKeyframeOverwritten'
  <2> SUFFICES ASSUME NEW k \in Recent(keyframes), k.id \in written'
               PROVE  \E p \in raw' : p.id = k.id
    BY DEF NoKeyframeOverwritten, WriteMap
  <2>1. CASE k.id \in written
    BY <2>1 DEF NoKeyframeOverwritten, WriteMap
  <2>2. CASE k.id = job.seq
    <3>1. [id |-> job.seq, frame |-> job.frame] \in raw'
      BY DEF WriteMap
    <3> QED  BY <2>2, <3>1
  <2> QED  BY <2>1, <2>2 DEF WriteMap
<1> QED  BY <1>1, <1>2, <1>3, <1>4, <1>5, <1>6, <1>7, <1>8, <1>9 DEF TypeOK

LEMMA PostCompletionKeeps ==
    ASSUME IInv, PostCompletion
    PROVE  IInv'
<1> USE DEF IInv
<1>t. Numbers
  BY NumbersTyped
<1>1. LifeOK' /\ QueueOK' /\ MapOK' /\ WorkOK' /\ BoundsOK'
  BY DEF TypeOK, PostCompletion, lifeVars, queueVars, mapVars, workVars,
         bounds, LifeOK, QueueOK, MapOK, WorkOK, BoundsOK
<1>2. GateOK'
  BY DEF TypeOK, GateOK, PostCompletion, Completions, CommitOK, Jobs
<1>3. CommitOK'
  BY DefaultsTyped DEF CommitOK, PostCompletion
<1>4. WorkersRun' /\ NoKeyframeOverwritten' /\ IsFiniteSet(keyframes)'
  BY DEF WorkersRun, NoKeyframeOverwritten, PostCompletion, lifeVars, mapVars,
         workVars
<1>5. FramesApplied'
  BY <1>t
  DEF FramesApplied, NoJob, Numbers, PostCompletion, lifeVars, bounds,
      queueVars, mapVars
<1>6. QueueIsNewer'
  BY <1>t DEF QueueIsNewer, NoJob, Numbers, PostCompletion, queueVars, mapVars
<1>7. JobIsNewest'
  BY DEF JobIsNewest, PostCompletion
<1>8. LockedIsCurrent'
  BY DEF LockedIsCurrent, LifecycleLocked, PostCompletion
<1>9. SwapIsComplete'
  BY DEF SwapIsComplete, PostCompletion, lifeVars, workVars, mapVars
<1> QED  BY <1>1, <1>2, <1>3, <1>4, <1>5, <1>6, <1>7, <1>8, <1>9 DEF TypeOK

LEMMA LockExecutionKeeps ==
    ASSUME IInv, NEW w \in Workers, LockExecution(w)
    PROVE  IInv'
<1> USE DEF IInv
<1>t. Numbers
  BY NumbersTyped
<1>1. LifeOK' /\ QueueOK' /\ CommitOK' /\ MapOK' /\ GateOK' /\ BoundsOK'
  BY DEF TypeOK, LockExecution, lifeVars, queueVars, commitVars, mapVars,
         gateVars, bounds, LifeOK, QueueOK, CommitOK, MapOK, GateOK, BoundsOK
<1>2. WorkOK'
  BY DEF TypeOK, WorkOK, LockExecution
<1>3. /\ FramesApplied' /\ QueueIsNewer' /\ JobIsNewest' /\ LockedIsCurrent'
      /\ NoKeyframeOverwritten' /\ IsFiniteSet(keyframes)'
  BY DEF FramesApplied, QueueIsNewer, JobIsNewest, LockedIsCurrent,
         NoKeyframeOverwritten, LockExecution, bounds, commitVars, lifeVars,
         mapVars, queueVars, LifecycleLocked
<1>4. WorkersRun'
  BY DEF WorkersRun, TypeOK, WorkOK, LockExecution, lifeVars
<1>5. SwapIsComplete'
  BY DEF SwapIsComplete, TypeOK, WorkOK, LockExecution, lifeVars, commitVars,
         mapVars
<1> QED  BY <1>1, <1>2, <1>3, <1>4, <1>5 DEF TypeOK

LEMMA ClearFlagKeeps ==
    ASSUME IInv, NEW w \in Workers, ClearFlag(w)
    PROVE  IInv'
<1> USE DEF IInv
<1>t. Numbers
  BY NumbersTyped
<1>1. LifeOK' /\ QueueOK' /\ CommitOK' /\ MapOK' /\ GateOK' /\ BoundsOK'
  BY DEF TypeOK, ClearFlag, lifeVars, queueVars, commitVars, mapVars, gateVars,
         bounds, LifeOK, QueueOK, CommitOK, MapOK, GateOK, BoundsOK
<1>2. WorkOK'
  BY DEF TypeOK, WorkOK, ClearFlag, Leave
<1>3. /\ FramesApplied' /\ QueueIsNewer' /\ JobIsNewest' /\ LockedIsCurrent'
      /\ NoKeyframeOverwritten' /\ IsFiniteSet(keyframes)'
  BY DEF FramesApplied, QueueIsNewer, JobIsNewest, LockedIsCurrent,
         NoKeyframeOverwritten, ClearFlag, bounds, commitVars, lifeVars,
         mapVars, queueVars, LifecycleLocked
<1>4. WorkersRun'
  BY DEF WorkersRun, TypeOK, WorkOK, ClearFlag, Leave, lifeVars
<1>5. SwapIsComplete'
  BY DEF SwapIsComplete, TypeOK, WorkOK, ClearFlag, Leave, lifeVars,
         commitVars, mapVars
<1> QED  BY <1>1, <1>2, <1>3, <1>4, <1>5 DEF TypeOK

LEMMA TakeSnapshotKeeps ==
    ASSUME IInv, NEW w \in Workers, TakeSnapshot(w)
    PROVE  IInv'
<1> USE DEF IInv
<1>t. Numbers
  BY NumbersTyped
<1>c. ASSUME committer = "flagged"
      PROVE  \E k \in Recent(keyframes) : k \in keyframes /\ k.id = job.seq
  <2>1. PICK n \in keyframes :
          n.id = job.seq /\ \A k \in keyframes : k.id <= n.id
    BY <1>c DEF JobIsNewest
  <2> QED  BY <2>1, NewestIsRecent DEF TypeOK, MapOK
<1>d. Recent(keyframes) \subseteq keyframes
  BY DEF Recent
<1>e. keyframes \in SUBSET Keys
  BY DEF TypeOK, MapOK
<1>1. LifeOK' /\ QueueOK' /\ CommitOK' /\ MapOK' /\ GateOK' /\ BoundsOK'
  BY DEF TypeOK, TakeSnapshot, lifeVars, queueVars, commitVars, mapVars,
         gateVars, bounds, LifeOK, QueueOK, CommitOK, MapOK, GateOK, BoundsOK
<1>2. WorkOK'
  BY <1>d, <1>e DEF TypeOK, WorkOK, TakeSnapshot, Leave
<1>3. /\ FramesApplied' /\ QueueIsNewer' /\ JobIsNewest' /\ LockedIsCurrent'
      /\ NoKeyframeOverwritten' /\ IsFiniteSet(keyframes)'
  BY DEF FramesApplied, QueueIsNewer, JobIsNewest, LockedIsCurrent,
         NoKeyframeOverwritten, TakeSnapshot, bounds, commitVars, lifeVars,
         mapVars, queueVars, LifecycleLocked
<1>4. WorkersRun'
  BY DEF WorkersRun, TypeOK, WorkOK, TakeSnapshot, Leave, lifeVars
<1>5. SwapIsComplete'
  BY <1>d, <1>c
  DEF SwapIsComplete, TypeOK, WorkOK, TakeSnapshot, lifeVars, commitVars,
      mapVars, Projected
<1> QED  BY <1>1, <1>2, <1>3, <1>4, <1>5 DEF TypeOK

LEMMA SwapLayersKeeps ==
    ASSUME IInv, NEW w \in Workers, SwapLayers(w)
    PROVE  IInv'
<1> USE DEF IInv
<1>t. Numbers
  BY NumbersTyped
<1>1. LifeOK' /\ QueueOK' /\ CommitOK' /\ GateOK' /\ BoundsOK'
  BY DEF TypeOK, SwapLayers, lifeVars, queueVars, commitVars, gateVars, bounds,
         LifeOK, QueueOK, CommitOK, GateOK, BoundsOK
<1>2. MapOK'
  BY DEF TypeOK, MapOK, SwapLayers, WorkOK
<1>3. WorkOK'
  BY DEF TypeOK, WorkOK, SwapLayers, Leave
<1>4. /\ FramesApplied' /\ QueueIsNewer' /\ JobIsNewest' /\ LockedIsCurrent'
      /\ IsFiniteSet(keyframes)'
  BY DEF FramesApplied, QueueIsNewer, JobIsNewest, LockedIsCurrent, SwapLayers,
         bounds, commitVars, lifeVars, queueVars, LifecycleLocked
<1>5. WorkersRun'
  BY DEF WorkersRun, TypeOK, WorkOK, SwapLayers, Leave, lifeVars
<1>6. SwapIsComplete'
  BY DEF SwapIsComplete, TypeOK, WorkOK, SwapLayers, Leave, lifeVars,
         commitVars
<1>7. NoKeyframeOverwritten'
  BY DEF NoKeyframeOverwritten, SwapLayers, MustRetry, SwapIsComplete,
         Projected
<1> QED  BY <1>1, <1>2, <1>3, <1>4, <1>5, <1>6, <1>7 DEF TypeOK

LEMMA FinishRebuildKeeps ==
    ASSUME IInv, NEW w \in Workers, FinishRebuild(w)
    PROVE  IInv'
<1> USE DEF IInv
<1>t. Numbers
  BY NumbersTyped
<1>1. LifeOK' /\ QueueOK' /\ CommitOK' /\ MapOK' /\ GateOK' /\ BoundsOK'
  BY DEF TypeOK, FinishRebuild, lifeVars, queueVars, commitVars, mapVars,
         gateVars, bounds, LifeOK, QueueOK, CommitOK, MapOK, GateOK, BoundsOK
<1>2. WorkOK'
  BY DEF TypeOK, WorkOK, FinishRebuild
<1>3. /\ FramesApplied' /\ QueueIsNewer' /\ JobIsNewest' /\ LockedIsCurrent'
      /\ NoKeyframeOverwritten' /\ IsFiniteSet(keyframes)'
  BY DEF FramesApplied, QueueIsNewer, JobIsNewest, LockedIsCurrent,
         NoKeyframeOverwritten, FinishRebuild, bounds, commitVars, lifeVars,
         mapVars, queueVars, LifecycleLocked
<1>4. WorkersRun'
  BY DEF WorkersRun, TypeOK, WorkOK, FinishRebuild, lifeVars
<1>5. SwapIsComplete'
  BY DEF SwapIsComplete, FinishRebuild, lifeVars, commitVars, mapVars
<1> QED  BY <1>1, <1>2, <1>3, <1>4, <1>5 DEF TypeOK

LEMMA ReplaceMapKeeps ==
    ASSUME IInv, ReplaceMap
    PROVE  IInv'
<1> USE DEF IInv
<1>t. Numbers
  BY NumbersTyped
<1>e. IsFiniteSet({})
  BY FS_EmptySet
<1>1. CommitOK'
  BY DEF TypeOK, ReplaceMap, commitVars, CommitOK
<1>2. LifeOK'
  BY DEF TypeOK, LifeOK, ReplaceMap
<1>3. QueueOK'
  BY CommitConstants DEF TypeOK, QueueOK, ReplaceMap
<1>4. MapOK'
  BY DEF MapOK, ReplaceMap
<1>5. GateOK'
  BY DefaultsTyped DEF TypeOK, GateOK, ReplaceMap, Completions
<1>6. WorkOK'
  BY DEF TypeOK, WorkOK, ReplaceMap
<1>7. BoundsOK'
  BY CommitConstants DEF TypeOK, BoundsOK, ReplaceMap, MayOpenEpoch
<1>8. FramesApplied'
  BY DEF FramesApplied, ReplaceMap, commitVars
<1>9. QueueIsNewer'
  BY DEF QueueIsNewer, ReplaceMap, commitVars
<1>10. JobIsNewest'
  BY DEF JobIsNewest, ReplaceMap, MayOpenEpoch, commitVars, LifecycleLocked
<1>11. LockedIsCurrent'
  BY DEF LockedIsCurrent, LifecycleLocked, ReplaceMap, MayOpenEpoch, commitVars
<1>12. WorkersRun'
  BY DEF WorkersRun, TypeOK, WorkOK, LifeOK, ReplaceMap
<1>13. SwapIsComplete'
  BY DEF SwapIsComplete, TypeOK, ReplaceMap, WorkersRun, LifeOK
<1>14. NoKeyframeOverwritten'
  BY DEF NoKeyframeOverwritten, ReplaceMap
<1>15. IsFiniteSet(keyframes)'
  BY <1>e DEF ReplaceMap
<1> QED
  BY <1>1, <1>2, <1>3, <1>4, <1>5, <1>6, <1>7, <1>8, <1>9, <1>10, <1>11, <1>12,
     <1>13, <1>14, <1>15
  DEF TypeOK

LEMMA TimeRollbackKeeps ==
    ASSUME IInv, TimeRollback
    PROVE  IInv'
<1> USE DEF IInv
<1>t. Numbers
  BY NumbersTyped
<1>1. CommitOK' /\ MapOK' /\ WorkOK'
  BY DEF TypeOK, TimeRollback, commitVars, mapVars, workVars, CommitOK, MapOK,
         WorkOK
<1>2. LifeOK'
  BY DEF TypeOK, LifeOK, TimeRollback
<1>3. QueueOK'
  BY CommitConstants DEF TypeOK, QueueOK, TimeRollback
<1>4. GateOK'
  BY DefaultsTyped DEF TypeOK, GateOK, TimeRollback, Completions
<1>5. BoundsOK'
  BY CommitConstants DEF TypeOK, BoundsOK, TimeRollback, MayOpenEpoch
<1>6. NoKeyframeOverwritten' /\ IsFiniteSet(keyframes)'
  BY DEF NoKeyframeOverwritten, TimeRollback, mapVars
<1>7. FramesApplied'
  BY DEF FramesApplied, TimeRollback, commitVars, mapVars
<1>8. QueueIsNewer'
  BY DEF QueueIsNewer, TimeRollback, commitVars, mapVars
<1>9. JobIsNewest'
  BY DEF JobIsNewest, TimeRollback, commitVars, mapVars
<1>10. LockedIsCurrent'
  BY DEF LockedIsCurrent, LifecycleLocked, TimeRollback, MayOpenEpoch,
         commitVars
<1>11. WorkersRun'
  BY DEF WorkersRun, TypeOK, WorkOK, LifeOK, TimeRollback, workVars
<1>12. SwapIsComplete'
  BY DEF SwapIsComplete, TypeOK, TimeRollback, workVars, WorkersRun, LifeOK
<1> QED
  BY <1>1, <1>2, <1>3, <1>4, <1>5, <1>6, <1>7, <1>8, <1>9, <1>10, <1>11, <1>12
  DEF TypeOK

LEMMA InitIInv == Init => IInv
<1> SUFFICES ASSUME Init PROVE IInv
  OBVIOUS
<1>1. TypeOK
  BY CommitConstants, DefaultsTyped
  DEF Init, TypeOK, LifeOK, QueueOK, CommitOK, MapOK, GateOK, WorkOK, BoundsOK,
      Frames
<1>2. IsFiniteSet(keyframes)
  BY FS_EmptySet DEF Init
<1>3. FramesApplied /\ QueueIsNewer /\ JobIsNewest /\ LockedIsCurrent
  BY DEF Init, FramesApplied, QueueIsNewer, JobIsNewest, LockedIsCurrent,
         LifecycleLocked, NoJob
<1>4. WorkersRun /\ SwapIsComplete /\ NoKeyframeOverwritten
  BY DEF Init, WorkersRun, SwapIsComplete, NoKeyframeOverwritten
<1> QED  BY <1>1, <1>2, <1>3, <1>4 DEF IInv

LEMMA StutterIInv ==
    ASSUME IInv, UNCHANGED vars
    PROVE  IInv'
<1>1. TypeOK'
  BY DEF IInv, vars, lifeVars, queueVars, commitVars, mapVars, gateVars,
         workVars, bounds, TypeOK, LifeOK, QueueOK, CommitOK, MapOK, GateOK,
         WorkOK, BoundsOK
<1>2. FramesApplied' /\ QueueIsNewer' /\ JobIsNewest' /\ IsFiniteSet(keyframes)'
  BY DEF IInv, vars, lifeVars, queueVars, commitVars, mapVars, bounds,
         FramesApplied, QueueIsNewer, JobIsNewest
<1>3. /\ LockedIsCurrent' /\ WorkersRun'
      /\ SwapIsComplete' /\ NoKeyframeOverwritten'
  BY DEF IInv, vars, lifeVars, commitVars, mapVars, workVars, LockedIsCurrent,
         LifecycleLocked, WorkersRun, SwapIsComplete, NoKeyframeOverwritten
<1> QED  BY <1>1, <1>2, <1>3 DEF IInv

LEMMA StepIInv ==
    ASSUME IInv, [Next]_vars
    PROVE  IInv'
<1>1. CASE Owner
  BY <1>1, EnqueueMapCommitJobKeeps, ConsumeMapCommitCompletionKeeps,
     RailAuthorityChangeKeeps, ApplyOptimizedPosesKeeps,
     UpdatePoseFromLoopClosureKeeps, AsyncRebuildGlobalMapKeeps,
     RebuildActiveMapKeeps
  DEF Owner
<1>2. CASE Committer
  BY <1>2, PopAndPrecheckKeeps, LockLifecycleKeeps, CommitRefusedKeeps,
     AddKeyFrameKeeps, FlagRebuildsKeeps, WriteMapKeeps, PostCompletionKeeps
  DEF Committer
<1>3. ASSUME NEW w \in Workers, Rebuilder(w)
      PROVE  IInv'
  BY <1>3, LockExecutionKeeps, ClearFlagKeeps, TakeSnapshotKeeps,
     SwapLayersKeeps, FinishRebuildKeeps
  DEF Rebuilder
<1>4. CASE ReplaceMap
  BY <1>4, ReplaceMapKeeps
<1>5. CASE TimeRollback
  BY <1>5, TimeRollbackKeeps
<1>6. CASE Quiescent \/ UNCHANGED vars
  BY <1>6, StutterIInv DEF Quiescent
<1> QED  BY <1>1, <1>2, <1>3, <1>4, <1>5, <1>6 DEF Next

LEMMA Invariance == Spec => []IInv
BY InitIInv, StepIInv, PTL DEF Spec

-----------------------------------------------------------------------------
(* The theorems.                                                           *)

\* The state is well formed; in particular the queue of frames never exceeds
\* map_commit_queue_capacity_, whatever the committer does.
THEOREM TypeCorrect == Spec => []TypeOK
<1>1. IInv => TypeOK
  BY DEF IInv
<1> QED  BY <1>1, Invariance, PTL

\* While a rebuild projects an older snapshot, no committed keyframe is lost
\* from the raw layers, and no frame overtakes another in the queue.
LEMMA StateParts == IInv => NoKeyframeOverwritten /\ QueueKeepsOrder
<1> SUFFICES ASSUME IInv PROVE QueueKeepsOrder
  BY DEF IInv
<1>1. Numbers /\ QueueIsNewer
  BY NumbersTyped DEF IInv
<1> QED  BY <1>1 DEF QueueIsNewer, QueueKeepsOrder

\* A keyframe is only added under the lifecycle mutex, where the job is of the
\* current epoch; the correction of poses adds none.
LEMMA CommitStep ==
    ASSUME IInv, [Next]_vars
    PROVE  [\A k \in keyframes' :
               (\A l \in keyframes : l.id # k.id) => job.epoch = epoch]_vars
<1> SUFFICES ASSUME Next, NEW k \in keyframes', \A l \in keyframes : l.id # k.id
             PROVE  job.epoch = epoch
  OBVIOUS
<1>1. CASE AddKeyFrame
  BY <1>1 DEF AddKeyFrame, IInv, LockedIsCurrent, LifecycleLocked
<1>2. CASE ApplyOptimizedPoses
  <2>1. PICK l \in keyframes : k = [l EXCEPT !.frame = @ + 1]
    BY <1>2 DEF ApplyOptimizedPoses
  <2>2. l.id = k.id
    BY <2>1
  <2> QED  BY <2>2
<1>3. CASE ReplaceMap
  BY <1>3 DEF ReplaceMap
<1>4. CASE keyframes' = keyframes
  BY <1>4
<1>5. (Owner /\ ~ApplyOptimizedPoses) => keyframes' = keyframes
  BY DEF Owner, EnqueueMapCommitJob, ConsumeMapCommitCompletion,
         RailAuthorityChange, UpdatePoseFromLoopClosure, AsyncRebuildGlobalMap,
         RebuildActiveMap, mapVars
<1>6. (Committer /\ ~AddKeyFrame) => keyframes' = keyframes
  BY DEF Committer, PopAndPrecheck, LockLifecycle, CommitRefused, FlagRebuilds,
         WriteMap, PostCompletion, mapVars
<1>7. \A w \in Workers : Rebuilder(w) => keyframes' = keyframes
  BY DEF Rebuilder, LockExecution, ClearFlag, TakeSnapshot, SwapLayers,
         FinishRebuild, mapVars
<1>8. TimeRollback \/ Quiescent => keyframes' = keyframes
  BY DEF TimeRollback, Quiescent, vars, mapVars
<1> QED  BY <1>1, <1>2, <1>3, <1>5, <1>6, <1>7, <1>8 DEF Next

\* The gate only takes a completion that isMapCommitAuthorityCurrent accepts,
\* and a boundary empties it.
LEMMA GateStep ==
    ASSUME [Next]_vars
    PROVE  [gate' # gate => gate' = NoCompletion \/ IsCurrent(gate')]_vars
<1> SUFFICES ASSUME Next, gate' # gate
             PROVE  gate' = NoCompletion \/ IsCurrent(gate')
  OBVIOUS
<1>1. CASE ConsumeMapCommitCompletion
  BY <1>1 DEF ConsumeMapCommitCompletion, GateAccepts
<1>2. CASE ReplaceMap \/ TimeRollback
  BY <1>2 DEF ReplaceMap, TimeRollback
<1>3. (Owner /\ ~ConsumeMapCommitCompletion) => gate' = gate
  BY DEF Owner, EnqueueMapCommitJob, RailAuthorityChange, ApplyOptimizedPoses,
         UpdatePoseFromLoopClosure, AsyncRebuildGlobalMap, RebuildActiveMap,
         gateVars
<1>4. Committer => gate' = gate
  BY DEF Committer, PopAndPrecheck, LockLifecycle, CommitRefused, AddKeyFrame,
         FlagRebuilds, WriteMap, PostCompletion, gateVars
<1>5. \A w \in Workers : Rebuilder(w) => gate' = gate
  BY DEF Rebuilder, LockExecution, ClearFlag, TakeSnapshot, SwapLayers,
         FinishRebuild, gateVars
<1>6. Quiescent => gate' = gate
  BY DEF Quiescent, vars, gateVars
<1> QED  BY <1>1, <1>2, <1>3, <1>4, <1>5, <1>6 DEF Next

\* A committed keyframe is of the epoch its frame was accepted in, moves the
\* commit gate only in that epoch, comes in the order of its frame, and stays
\* in the raw layers through every rebuild.
THEOREM CommitsKept == Spec => CommitsAreKept
<1>1. Spec => CommitsOfThisEpoch
  BY Invariance, CommitStep, PTL DEF Spec, CommitsOfThisEpoch
<1>2. Spec => GateIsCurrent
  BY GateStep, PTL DEF Spec, GateIsCurrent
<1>3. Spec => [](NoKeyframeOverwritten /\ QueueKeepsOrder)
  BY Invariance, StateParts, PTL
<1> QED  BY <1>1, <1>2, <1>3 DEF CommitsAreKept

-----------------------------------------------------------------------------
(* CommitFilter: what is written of the load on the hook.                  *)

FilterJobs == [hook : {"EMPTY", "LOADED", "INVALID"}, removal : BOOLEAN,
         candidateQuarantine : BOOLEAN, quarantine : BOOLEAN]

FilterTyped ==
    /\ mode \in {"V6", "LEGACY"} /\ hook \in F!HookStates
    /\ filterFrame \in FilterFrames /\ fresh \in BOOLEAN
    /\ filterJob \in FilterJobs

\* A job that waits for the worker has an authority, or the quarantine, for
\* the load it saw.
LoadIsOwned ==
    filterPc = "queued" /\ filterJob.hook = "LOADED" =>
        IF mode = "V6" THEN F!RemovedByV6 ELSE F!RemovedByLegacy

WrittenWithoutLoad ==
    filterWritten.by.hook = "LOADED" => "load" \notin filterWritten.objects

FilterIInv == FilterTyped /\ LoadIsOwned /\ WrittenWithoutLoad

LEMMA FilterInit == F!Init => FilterIInv
BY FilterAssumption
DEF F!Init, FilterIInv, FilterTyped, FilterJobs, F!HookStates, F!NoJob,
    LoadIsOwned, WrittenWithoutLoad

\* Whichever way the hook and the removal authority went since the job took
\* its snapshot, the job that is queued owns the load, or it is dropped.
LEMMA AuthoriseKeeps == ASSUME FilterIInv, F!AuthoriseJob PROVE FilterIInv'
<1>1. UNCHANGED <<role, mode, hook, filterFrame, filterWritten>>
  BY DEF F!AuthoriseJob
<1>2. CASE F!DropsUnowned(filterJob.hook)
  BY <1>1, <1>2 DEF F!AuthoriseJob, FilterIInv, FilterTyped, LoadIsOwned,
       WrittenWithoutLoad
<1>3. CASE ~F!DropsUnowned(filterJob.hook)
  <2>1. filterJob' = [filterJob EXCEPT !.removal = F!Removal,
           !.candidateQuarantine =
               mode = "V6" /\ filterJob.hook = "LOADED" /\ ~filterFrame.exact
               /\ ~filterFrame.safety /\ filterFrame.candidate,
           !.quarantine = F!Quarantines(filterJob.hook, F!Removal)]
    BY <1>3 DEF F!AuthoriseJob
  <2> DEFINE removal == F!Removal
             candidates == mode = "V6" /\ filterJob.hook = "LOADED"
                 /\ ~filterFrame.exact /\ ~filterFrame.safety
                 /\ filterFrame.candidate
             quarantined == mode = "LEGACY" /\ filterJob.hook = "LOADED"
                 /\ ~removal
  <2>2. filterJob' = [filterJob EXCEPT !.removal = removal,
           !.candidateQuarantine = candidates, !.quarantine = quarantined]
    BY <2>1 DEF F!Quarantines
  <2>3. removal \in BOOLEAN /\ candidates \in BOOLEAN
        /\ quarantined \in BOOLEAN
    BY FilterAssumption
    DEF FilterIInv, FilterTyped, F!Removal, F!ShouldRemove
  <2>4. filterJob \in FilterJobs /\ mode \in {"V6", "LEGACY"}
    BY DEF FilterIInv, FilterTyped
  <2>5. mode = "V6" /\ filterJob.hook = "LOADED" =>
          filterFrame.exact \/ (candidates /\ filterFrame.candidate)
    BY <1>3 DEF F!DropsUnowned
  <2>6. mode = "LEGACY" /\ filterJob.hook = "LOADED" =>
          removal \/ quarantined
    OBVIOUS
  <2> HIDE DEF removal, candidates, quarantined
  <2>7. /\ filterJob' \in FilterJobs /\ filterJob'.hook = filterJob.hook
        /\ filterJob'.removal = removal
        /\ filterJob'.candidateQuarantine = candidates
        /\ filterJob'.quarantine = quarantined
    BY <2>2, <2>3, <2>4 DEF FilterJobs
  <2>8. LoadIsOwned'
    <3>1. CASE mode = "V6"
      BY <1>1, <2>5, <2>7, <3>1 DEF LoadIsOwned, F!RemovedByV6
    <3>2. CASE mode = "LEGACY"
      BY <1>1, <2>6, <2>7, <3>2
      DEF LoadIsOwned, F!RemovedByLegacy, F!UsesFormalBox, F!Allows
    <3> QED  BY <2>4, <3>1, <3>2
  <2> QED
    BY <1>1, <2>4, <2>7, <2>8
    DEF FilterIInv, FilterTyped, WrittenWithoutLoad, F!AuthoriseJob
<1> QED  BY <1>2, <1>3

LEMMA CommitKeeps == ASSUME FilterIInv, F!CommitFrame PROVE FilterIInv'
<1>1. filterWritten' = [objects |-> F!Objects, by |-> filterJob]
      /\ filterPc = "queued" /\ filterPc' = "idle"
      /\ UNCHANGED <<role, mode, hook, filterFrame, fresh, filterJob>>
  BY DEF F!CommitFrame
<1>2. filterJob.hook = "LOADED" => "load" \notin F!Objects
  BY <1>1 DEF FilterIInv, LoadIsOwned, F!Objects
<1> QED
  BY <1>1, <1>2 DEF FilterIInv, FilterTyped, LoadIsOwned, WrittenWithoutLoad

LEMMA FilterStep == FilterIInv /\ [F!Next]_F!vars => FilterIInv'
<1> SUFFICES ASSUME FilterIInv, [F!Next]_F!vars PROVE FilterIInv'
  OBVIOUS
<1> USE DEF FilterIInv, FilterTyped, LoadIsOwned, WrittenWithoutLoad
<1>1. CASE F!HookChanges
  <2>1. hook' \in F!HookStates
        /\ UNCHANGED <<role, mode, filterFrame, fresh, filterPc, filterJob,
                       filterWritten>>
    BY <1>1 DEF F!HookChanges
  <2> QED  BY <2>1 DEF F!RemovedByV6, F!RemovedByLegacy, F!ExcludesCandidates,
      F!UsesFormalBox, F!Allows
<1>2. CASE F!RemovalExpires
  BY <1>2 DEF F!RemovalExpires, F!RemovedByV6, F!RemovedByLegacy,
       F!ExcludesCandidates, F!UsesFormalBox, F!Allows
<1>3. CASE F!StartFrame
  BY <1>3 DEF F!StartFrame
<1>4. CASE F!ReadGate
  BY <1>4 DEF F!ReadGate
<1>5. CASE F!DecideGate
  BY <1>5 DEF F!DecideGate
<1>6. CASE F!ReadJobHook
  BY <1>6 DEF F!ReadJobHook, F!NoJob, FilterJobs, F!HookStates
<1>7. CASE F!AuthoriseJob
  BY <1>7, AuthoriseKeeps
<1>8. CASE F!CommitFrame
  BY <1>8, CommitKeeps
<1>9. CASE F!RefuseFrame
  BY <1>9 DEF F!RefuseFrame
<1>10. CASE UNCHANGED F!vars
  BY <1>10 DEF F!vars, F!RemovedByV6, F!RemovedByLegacy,
       F!ExcludesCandidates, F!UsesFormalBox, F!Allows
<1> QED
  BY <1>1, <1>2, <1>3, <1>4, <1>5, <1>6, <1>7, <1>8, <1>9, <1>10 DEF F!Next

\* Whatever the frames hold and however the hook and the removal authority
\* change between the owner's reads, a job that saw the hook loaded writes
\* none of the load's points (enqueueMapCommitJob, the exact-ownership filters
\* and the bounded quarantine).
THEOREM LoadStaysOut == F!Spec => []LoadedCargoStaysOut
<1>1. FilterIInv => LoadedCargoStaysOut
  BY DEF FilterIInv, WrittenWithoutLoad, LoadedCargoStaysOut,
       F!LoadedCargoStaysOut
<1> QED  BY FilterInit, FilterStep, <1>1, PTL DEF F!Spec

-----------------------------------------------------------------------------
(* StaticEvidenceIndex: what the builds said of a cell.                    *)

Cells == [present : BOOLEAN, count : Nat, duration : Nat, seen : Nat,
          seq : Nat, confirmed : BOOLEAN, version : Nat, mature : BOOLEAN]

\* A cell that is not there says nothing.
AbsentIsEmpty(cell) == ~cell.present => cell = I!NoCell

IndexTyped ==
    /\ indexIndex \in [epoch : Nat, last : Nat, seq : Nat, cell : Cells,
                       tombstone : Nat, free : BOOLEAN]
    /\ builds \in [next : Nat,
                   running : [version : Nat, epoch : Nat, denied : BOOLEAN],
                   ready : [version : Nat, epoch : Nat, denied : BOOLEAN]]
    /\ file \in [saved : BOOLEAN, cell : Cells, seq : Nat]
    /\ h \in [seen : Nat, denied : Nat]

\* The index remembers the newest denial, and counts no more than was seen.
CountIsSeen == indexIndex.cell.count <= h.seen
DenialIsRemembered == h.denied <= indexIndex.tombstone

IndexIInv ==
    /\ IndexTyped /\ CountIsSeen /\ DenialIsRemembered
    /\ AbsentIsEmpty(indexIndex.cell) /\ AbsentIsEmpty(file.cell)
    /\ I!DenialWins /\ I!MatureIsEarned

LEMMA IndexInit == I!Init => IndexIInv
BY IndexAssumption DEF I!Init, IndexIInv, IndexTyped, Cells, CountIsSeen,
       DenialIsRemembered, AbsentIsEmpty, I!DenialWins, I!MatureIsEarned,
       I!NoCell, I!NoBuild, I!NoFile, I!Nothing, I!Empty

Working == [epoch : Nat, last : Nat, seq : Nat, cell : Cells,
            tombstone : Nat, free : BOOLEAN]

LEMMA CappedIsBounded ==
    ASSUME NEW n \in Nat, NEW bound \in Nat
    PROVE  /\ I!Capped(n, bound) \in Nat
           /\ I!Capped(n, bound) <= n /\ I!Capped(n, bound) <= bound
BY DEF I!Capped

LEMMA GreatestIsUpper ==
    ASSUME NEW a \in Nat, NEW b \in Nat
    PROVE  /\ I!Greatest(a, b) \in Nat
           /\ a <= I!Greatest(a, b) /\ b <= I!Greatest(a, b)
           /\ I!Greatest(a, b) \in {a, b}
BY DEF I!Greatest

LEMMA GreatestIsMonotone ==
    ASSUME NEW a \in Nat, NEW b \in Nat, NEW c \in Nat, a <= b
    PROVE  I!Greatest(a, c) <= I!Greatest(b, c)
BY DEF I!Greatest

\* A cell that gains an observation.
Gains(new, old) ==
    /\ new.count <= old.count + 1
    /\ new.count <= MinObservations
    /\ new.confirmed => old.confirmed /\ new.version = old.version
    /\ new.mature => old.mature \/ new.count >= MinObservations

\* Seen again, a cell keeps its count or starts over.
LEMMA SeenAgainEffect ==
    ASSUME NEW c \in Cells, NEW stamp \in Nat, NEW seq \in Nat
    PROVE  LET s == I!SeenAgain(c, stamp, seq) IN
           /\ s \in Cells /\ s.present = c.present /\ s.count <= c.count
           /\ s.confirmed = c.confirmed /\ s.version = c.version
           /\ s.mature = c.mature
<1> DEFINE gained == I!Capped(c.duration + (stamp - c.seen), MinDuration)
           longer == [c EXCEPT !.duration = gained]
           anew == [c EXCEPT !.count = 0, !.duration = 0]
           s == I!SeenAgain(c, stamp, seq)
<1>1. \/ stamp > c.seen /\ s = longer
      \/ s = anew
      \/ s = c
  BY DEF I!SeenAgain
<1>2. stamp > c.seen => gained \in Nat
  <2> SUFFICES ASSUME stamp > c.seen PROVE gained \in Nat
    OBVIOUS
  <2>1. c.duration + (stamp - c.seen) \in Nat
    BY DEF Cells
  <2> QED  BY <2>1, CappedIsBounded, IndexAssumption
<1> HIDE DEF gained, s
<1>3. stamp > c.seen => /\ longer \in Cells /\ longer.present = c.present
                        /\ longer.count = c.count
                        /\ longer.confirmed = c.confirmed
                        /\ longer.version = c.version
                        /\ longer.mature = c.mature
  BY <1>2 DEF Cells
<1>4. /\ anew \in Cells /\ anew.present = c.present /\ anew.count = 0
      /\ anew.confirmed = c.confirmed /\ anew.version = c.version
      /\ anew.mature = c.mature
  BY DEF Cells
<1>5. c.count \in Nat
  BY DEF Cells
<1> HIDE DEF longer, anew
<1>6. CASE stamp > c.seen /\ s = longer
  BY <1>3, <1>5, <1>6 DEF s
<1>7. CASE s = anew
  BY <1>4, <1>5, <1>7 DEF s
<1>8. CASE s = c
  BY <1>5, <1>8 DEF s
<1> QED  BY <1>1, <1>6, <1>7, <1>8

\* An observation is counted, and may make the cell mature.
LEMMA CountedEffect ==
    ASSUME NEW c \in Cells, c.present, NEW stamp \in Nat, NEW seq \in Nat
    PROVE  LET d == I!Matured([c EXCEPT
                       !.count = I!Capped(@ + 1, MinObservations),
                       !.seen = stamp, !.seq = seq])
           IN d \in Cells /\ d.present /\ Gains(d, c)
<1> DEFINE n == I!Capped(c.count + 1, MinObservations)
           counted == [c EXCEPT !.count = n, !.seen = stamp, !.seq = seq]
           d == I!Matured(counted)
<1>1. c.count \in Nat /\ n \in Nat /\ n <= c.count + 1 /\ n <= MinObservations
  <2>1. c.count \in Nat
    BY DEF Cells
  <2> QED  BY <2>1, CappedIsBounded, IndexAssumption
<1> HIDE DEF n
<1>2. /\ counted \in Cells /\ counted.present /\ counted.count = n
      /\ counted.confirmed = c.confirmed /\ counted.version = c.version
      /\ counted.mature = c.mature
  BY <1>1 DEF Cells
<1> HIDE DEF counted
<1>3. /\ d \in Cells /\ d.present = counted.present
      /\ d.count = counted.count /\ d.confirmed = counted.confirmed
      /\ d.version = counted.version
      /\ d.mature = (counted.mature \/ I!IsTemporallyMature(counted))
  BY <1>2 DEF Cells, I!Matured, I!IsTemporallyMature
<1>4. I!IsTemporallyMature(counted) => counted.count >= MinObservations
  BY DEF I!IsTemporallyMature
<1> HIDE DEF d
<1>5. d \in Cells /\ d.present /\ Gains(d, c)
  BY <1>1, <1>2, <1>3, <1>4 DEF Gains
<1> QED  BY <1>5 DEF d, counted, n

\* An observation of an occupied cell.
LEMMA OccupiedEffect ==
    ASSUME NEW i \in Working, AbsentIsEmpty(i.cell), NEW stamp \in Nat
    PROVE  LET j == I!Occupied(i, stamp) IN
           /\ j \in Working /\ j.cell.present
           /\ j.tombstone = i.tombstone
           /\ Gains(j.cell, i.cell)
<1> DEFINE old == IF i.cell.present THEN I!SeenAgain(i.cell, stamp, i.seq)
                  ELSE [I!NoCell EXCEPT !.present = TRUE]
           d == I!Matured([old EXCEPT
                   !.count = I!Capped(@ + 1, MinObservations),
                   !.seen = stamp, !.seq = i.seq])
           j == I!Occupied(i, stamp)
<1>0. i.cell \in Cells /\ i.seq \in Nat /\ i.cell.count \in Nat
  BY DEF Working, Cells
<1>1. i.cell.present => old = I!SeenAgain(i.cell, stamp, i.seq)
  OBVIOUS
<1>2. ~i.cell.present => old = [I!NoCell EXCEPT !.present = TRUE]
  OBVIOUS
<1>3. j = [i EXCEPT !.free = FALSE, !.cell = d]
  BY DEF I!Occupied
<1> HIDE DEF old
<1>4. /\ old \in Cells /\ old.present /\ old.count <= i.cell.count
      /\ old.confirmed => i.cell.confirmed /\ old.version = i.cell.version
      /\ old.mature => i.cell.mature
  <2>1. CASE i.cell.present
    <3> DEFINE s == I!SeenAgain(i.cell, stamp, i.seq)
    <3>1. /\ s \in Cells /\ s.present = i.cell.present
          /\ s.count <= i.cell.count /\ s.confirmed = i.cell.confirmed
          /\ s.version = i.cell.version /\ s.mature = i.cell.mature
      BY <1>0, SeenAgainEffect
    <3>2. old = s
      BY <1>1, <2>1
    <3> HIDE DEF s
    <3> QED  BY <2>1, <3>1, <3>2
  <2>2. CASE ~i.cell.present
    <3>1. old = [present |-> TRUE, count |-> 0, duration |-> 0, seen |-> 0,
                 seq |-> 0, confirmed |-> FALSE, version |-> 0,
                 mature |-> FALSE]
      BY <1>2, <2>2 DEF I!NoCell
    <3> QED  BY <1>0, <3>1 DEF Cells
  <2> QED  BY <2>1, <2>2
<1>5. d \in Cells /\ d.present /\ Gains(d, old)
  BY <1>0, <1>4, CountedEffect
<1> HIDE DEF d, j
<1>6. d.count \in Nat /\ old.count \in Nat
  BY <1>4, <1>5 DEF Cells
<1>7. Gains(d, i.cell)
  BY <1>0, <1>4, <1>5, <1>6 DEF Gains
<1>8. j \in Working /\ j.cell = d /\ j.tombstone = i.tombstone
  BY <1>3, <1>5 DEF Working
<1> QED  BY <1>5, <1>7, <1>8 DEF j

\* observeCleanBuildCells adds at most one observation, and only of an
\* occupied cell under an advancing stamp.
LEMMA ObserveEffect ==
    ASSUME IndexIInv, NEW view, NEW stamp \in Nat
    PROVE  LET j == I!Observe(indexIndex, view, stamp) IN
           /\ j \in Working /\ AbsentIsEmpty(j.cell)
           /\ j.tombstone = indexIndex.tombstone
           /\ \/ /\ ~(view = "occupied" /\ I!Advances(indexIndex, stamp))
                 /\ j.cell = indexIndex.cell
              \/ j.cell = I!NoCell
              \/ /\ view = "occupied" /\ I!Advances(indexIndex, stamp)
                 /\ Gains(j.cell, indexIndex.cell)
<1> DEFINE next == [indexIndex EXCEPT !.last = stamp, !.seq = @ + 1]
<1>0. indexIndex \in Working /\ AbsentIsEmpty(indexIndex.cell)
  BY DEF IndexIInv, IndexTyped, Working
<1>1. next \in Working /\ next.cell = indexIndex.cell
      /\ next.tombstone = indexIndex.tombstone
  <2>1. indexIndex.seq \in Nat
    BY <1>0 DEF Working
  <2>2. indexIndex.seq + 1 \in Nat
    BY <2>1
  <2> QED  BY <1>0, <2>2 DEF Working
<1>2. AbsentIsEmpty(next.cell)
  BY <1>0, <1>1
<1> HIDE DEF next
<1>3. CASE ~I!Advances(indexIndex, stamp)
  BY <1>0, <1>3 DEF I!Observe, Working
<1>4. CASE I!Advances(indexIndex, stamp) /\ view = "occupied"
  <2>1. I!Observe(indexIndex, view, stamp) = I!Occupied(next, stamp)
    BY <1>4 DEF I!Observe, next
  <2> QED  BY <1>1, <1>2, <1>4, <2>1, OccupiedEffect DEF AbsentIsEmpty
<1>5. CASE I!Advances(indexIndex, stamp) /\ view = "free"
  <2>1. I!Observe(indexIndex, view, stamp) = I!Free(next)
    BY <1>5 DEF I!Observe, next
  <2>2. I!NoCell \in Cells
    BY DEF I!NoCell, Cells
  <2> QED
    BY <1>1, <1>2, <2>1, <2>2 DEF I!Free, Working, AbsentIsEmpty
<1>6. CASE /\ I!Advances(indexIndex, stamp)
           /\ view # "occupied" /\ view # "free"
  <2>1. I!Observe(indexIndex, view, stamp) = next
    BY <1>6 DEF I!Observe, next
  <2> QED  BY <1>1, <1>2, <1>6, <2>1
<1> QED  BY <1>3, <1>4, <1>5, <1>6

\* A consumed build confirms, denies or leaves the cell, and its history says
\* the same.
LEMMA ConsumeKeeps == ASSUME IndexIInv, I!ConsumeBuild PROVE IndexIInv'
<1> DEFINE b == builds.ready
<1>0. /\ b \in [version : Nat, epoch : Nat, denied : BOOLEAN]
      /\ builds' \in [next : Nat,
                      running : [version : Nat, epoch : Nat, denied : BOOLEAN],
                      ready : [version : Nat, epoch : Nat, denied : BOOLEAN]]
      /\ file' = file
  BY DEF I!ConsumeBuild, IndexIInv, IndexTyped, I!NoBuild
<1>1. CASE UNCHANGED <<indexIndex, h>>
  BY <1>0, <1>1 DEF IndexIInv, IndexTyped, CountIsSeen, DenialIsRemembered,
       I!DenialWins, I!MatureIsEarned
<1>2. CASE \E view, clean, stamp :
             /\ stamp \in Stamps
             /\ indexIndex' =
                   I!Confirmed(I!Observe(indexIndex, view, stamp), clean,
                               b.denied \/ view = "free", b.version, stamp)
             /\ h' = I!Told(b, view, stamp)
  <2>0. PICK view, clean, stamp :
               /\ stamp \in Stamps
               /\ indexIndex' =
                     I!Confirmed(I!Observe(indexIndex, view, stamp), clean,
                                 b.denied \/ view = "free", b.version, stamp)
               /\ h' = I!Told(b, view, stamp)
    BY <1>2
  <2> DEFINE i == I!Observe(indexIndex, view, stamp)
             denied == b.denied \/ view = "free"
  <2>1. stamp \in Nat /\ b.version \in Nat
    BY <1>0, <2>0, IndexAssumption
  <2>2. /\ i \in Working /\ AbsentIsEmpty(i.cell)
        /\ i.tombstone = indexIndex.tombstone
        /\ \/ /\ ~(view = "occupied" /\ I!Advances(indexIndex, stamp))
              /\ i.cell = indexIndex.cell
           \/ i.cell = I!NoCell
           \/ /\ view = "occupied" /\ I!Advances(indexIndex, stamp)
              /\ Gains(i.cell, indexIndex.cell)
    BY <2>1, ObserveEffect
  <2>3. h \in [seen : Nat, denied : Nat] /\ indexIndex \in Working
    BY DEF IndexIInv, IndexTyped, Working
  <2> HIDE DEF i, b
  <2>4. /\ indexIndex.cell \in Cells /\ i.cell \in Cells
        /\ indexIndex.cell.count \in Nat /\ i.cell.count \in Nat
        /\ indexIndex.tombstone \in Nat /\ h.seen \in Nat /\ h.denied \in Nat
    BY <2>2, <2>3 DEF Working, Cells
  <2>5. /\ indexIndex.cell.count <= h.seen
        /\ h.denied <= indexIndex.tombstone
        /\ indexIndex.cell.mature => h.seen >= MinObservations
        /\ indexIndex.cell.confirmed =>
              indexIndex.cell.version > h.denied \/ h.denied = 0
        /\ AbsentIsEmpty(indexIndex.cell)
    BY DEF IndexIInv, CountIsSeen, DenialIsRemembered, I!MatureIsEarned,
           I!DenialWins
  <2>6. CASE denied
    <3>1. indexIndex' = I!Invalidate(i, b.version)
      BY <2>0, <2>6 DEF I!Confirmed, i
    <3>2. h' = [seen |-> 0, denied |-> I!Greatest(h.denied, b.version)]
      BY <2>0, <2>6 DEF I!Told
    <3>3. I!NoCell \in Cells /\ I!NoCell.count = 0 /\ ~I!NoCell.confirmed
          /\ ~I!NoCell.mature
      BY DEF I!NoCell, Cells
    <3>4. /\ I!Greatest(h.denied, b.version) \in Nat
          /\ I!Greatest(indexIndex.tombstone, b.version) \in Nat
          /\ I!Greatest(h.denied, b.version)
                <= I!Greatest(indexIndex.tombstone, b.version)
      BY <2>1, <2>4, <2>5, GreatestIsUpper, GreatestIsMonotone
    <3>5. /\ indexIndex' \in Working /\ indexIndex'.cell = I!NoCell
          /\ indexIndex'.tombstone
               = I!Greatest(indexIndex.tombstone, b.version)
      BY <2>2, <3>1, <3>3, <3>4 DEF I!Invalidate, Working
    <3>6. h' \in [seen : Nat, denied : Nat] /\ h'.seen = 0
          /\ h'.denied = I!Greatest(h.denied, b.version)
      BY <3>2, <3>4
    <3>7. I!DenialWins' /\ I!MatureIsEarned' /\ CountIsSeen'
          /\ DenialIsRemembered' /\ AbsentIsEmpty(indexIndex.cell)'
      BY <3>3, <3>4, <3>5, <3>6
      DEF CountIsSeen, DenialIsRemembered, AbsentIsEmpty, I!DenialWins,
          I!MatureIsEarned
    <3> QED
      BY <1>0, <3>5, <3>6, <3>7 DEF IndexIInv, IndexTyped, Working
  <2>7. CASE ~denied
    <3>1. /\ h' \in [seen : Nat, denied : Nat] /\ h'.denied = h.denied
          /\ h'.seen = IF view = "occupied" /\ I!Advances(indexIndex, stamp)
                       THEN I!Capped(h.seen + 1, MinObservations) ELSE h.seen
      <4>1. I!Capped(h.seen + 1, MinObservations) \in Nat
        <5>1. h.seen + 1 \in Nat
          BY <2>4
        <5> QED  BY <5>1, CappedIsBounded, IndexAssumption
      <4> QED  BY <2>0, <2>3, <2>7, <4>1 DEF I!Told
    <3>2. /\ i.cell.count <= h'.seen
          /\ i.cell.mature => h'.seen >= MinObservations
          /\ i.cell.confirmed => i.cell.version > h.denied \/ h.denied = 0
      <4>1. CASE view = "occupied" /\ I!Advances(indexIndex, stamp)
                 /\ Gains(i.cell, indexIndex.cell)
        BY <2>4, <2>5, <3>1, <4>1, IndexAssumption DEF Gains, I!Capped
      <4>2. CASE i.cell = I!NoCell
        <5>1. h'.seen \in Nat /\ i.cell.count = 0 /\ ~i.cell.mature
              /\ ~i.cell.confirmed
          BY <3>1, <4>2 DEF I!NoCell
        <5> QED  BY <5>1
      <4>3. CASE /\ ~(view = "occupied" /\ I!Advances(indexIndex, stamp))
                 /\ i.cell = indexIndex.cell
        BY <2>5, <3>1, <4>3
      <4> QED  BY <2>2, <4>1, <4>2, <4>3
    <3>3. h'.seen \in Nat /\ i.tombstone = indexIndex.tombstone
      BY <2>2, <3>1
    <3>4. CASE indexIndex' = i
      <4>1. /\ I!DenialWins' /\ I!MatureIsEarned' /\ CountIsSeen'
            /\ DenialIsRemembered' /\ AbsentIsEmpty(indexIndex.cell)'
        BY <2>2, <2>5, <3>1, <3>2, <3>3, <3>4
        DEF CountIsSeen, DenialIsRemembered, AbsentIsEmpty, I!DenialWins,
            I!MatureIsEarned
      <4> QED
        BY <1>0, <2>2, <3>1, <3>4, <4>1 DEF IndexIInv, IndexTyped, Working
    <3>5. CASE ~(indexIndex' = i)
      <4> DEFINE cell == IF i.cell.present THEN i.cell
                         ELSE [I!NoCell EXCEPT !.present = TRUE,
                                   !.seen = stamp, !.seq = i.seq]
                 v == I!Greatest(cell.version, b.version)
                 given == [cell EXCEPT !.confirmed = TRUE, !.version = v]
                 d == I!Matured(given)
      <4>1. /\ indexIndex' = [i EXCEPT !.cell = I!Matured(
                   [cell EXCEPT !.confirmed = TRUE,
                                !.version = I!Greatest(@, b.version)])]
            /\ ~(i.tombstone >= b.version)
        BY <2>0, <2>7, <3>5 DEF I!Confirmed, i
      <4>2. [cell EXCEPT !.confirmed = TRUE,
                         !.version = I!Greatest(@, b.version)] = given
        OBVIOUS
      <4>3. i.cell.present => cell = i.cell
        OBVIOUS
      <4>4. ~i.cell.present => cell = [present |-> TRUE, count |-> 0,
                duration |-> 0, seen |-> stamp, seq |-> i.seq,
                confirmed |-> FALSE, version |-> 0, mature |-> FALSE]
        BY DEF I!NoCell
      <4> HIDE DEF cell
      <4>5. /\ cell \in Cells /\ cell.present /\ cell.count <= h'.seen
            /\ cell.mature => h'.seen >= MinObservations
        <5>1. CASE i.cell.present
          BY <2>4, <3>2, <4>3, <5>1
        <5>2. CASE ~i.cell.present
          <6>1. i.seq \in Nat
            BY <2>2 DEF Working
          <6>2. [present |-> TRUE, count |-> 0, duration |-> 0,
                 seen |-> stamp, seq |-> i.seq, confirmed |-> FALSE,
                 version |-> 0, mature |-> FALSE] \in Cells
            BY <2>1, <6>1 DEF Cells
          <6>3. cell.present /\ cell.count = 0 /\ ~cell.mature
            BY <4>4, <5>2
          <6>4. cell \in Cells
            BY <4>4, <5>2, <6>2, Zenon
          <6> QED  BY <3>3, <6>3, <6>4
        <5> QED  BY <5>1, <5>2
      <4>6. cell.version \in Nat /\ cell.count \in Nat
        BY <4>5 DEF Cells
      <4>7. v \in Nat /\ v >= b.version
        BY <2>1, <4>6, GreatestIsUpper
      <4> HIDE DEF v
      <4>8. /\ given \in Cells /\ given.present /\ given.version = v
            /\ given.count = cell.count /\ given.mature = cell.mature
        BY <4>5, <4>7 DEF Cells
      <4> HIDE DEF given
      <4>9. /\ d \in Cells /\ d.present /\ d.version = v
            /\ d.count = cell.count
            /\ d.mature => cell.mature \/ cell.count >= MinObservations
        BY <4>8 DEF I!Matured, I!IsTemporallyMature, Cells
      <4> HIDE DEF d
      <4>10. /\ indexIndex' \in Working /\ indexIndex'.cell = d
             /\ indexIndex'.tombstone = indexIndex.tombstone
        BY <2>2, <4>1, <4>2, <4>9 DEF Working, d
      <4>11. v > h.denied
        BY <2>1, <2>4, <2>5, <3>3, <4>1, <4>7
      <4>12. d.mature => h'.seen >= MinObservations
        BY <3>3, <4>5, <4>6, <4>9, IndexAssumption
      <4>13. /\ I!DenialWins' /\ I!MatureIsEarned' /\ CountIsSeen'
             /\ DenialIsRemembered' /\ AbsentIsEmpty(indexIndex.cell)'
        BY <2>5, <3>1, <4>5, <4>9, <4>10, <4>11, <4>12
        DEF CountIsSeen, DenialIsRemembered, AbsentIsEmpty, I!DenialWins,
            I!MatureIsEarned
      <4> QED
        BY <1>0, <3>1, <4>10, <4>13 DEF IndexIInv, IndexTyped, Working
    <3> QED  BY <3>4, <3>5
  <2> QED  BY <2>6, <2>7
<1> QED  BY <1>1, <1>2 DEF I!ConsumeBuild

\* A build starts and denies, or only starts.
LEMMA StartKeeps == ASSUME IndexIInv, I!StartBuild PROVE IndexIInv'
<1>1. /\ builds.next \in Nat /\ indexIndex \in Working
      /\ indexIndex.epoch \in Nat /\ indexIndex.tombstone \in Nat
      /\ file \in [saved : BOOLEAN, cell : Cells, seq : Nat]
      /\ AbsentIsEmpty(file.cell) /\ file' = file
  BY DEF IndexIInv, IndexTyped, I!StartBuild, Working
<1>2. PICK denied \in BOOLEAN :
         /\ builds' = [builds EXCEPT !.next = @ + 1,
                         !.running = [version |-> builds.next,
                                      epoch |-> indexIndex.epoch,
                                      denied |-> denied]]
         /\ indexIndex' = IF denied THEN I!Invalidate(indexIndex, builds.next)
                          ELSE indexIndex
         /\ h' = IF denied THEN [seen |-> 0, denied |-> builds.next] ELSE h
  BY DEF I!StartBuild
<1>3. builds' \in [next : Nat,
                   running : [version : Nat, epoch : Nat, denied : BOOLEAN],
                   ready : [version : Nat, epoch : Nat, denied : BOOLEAN]]
  <2>1. builds.next + 1 \in Nat
    BY <1>1
  <2> QED  BY <1>1, <1>2, <2>1 DEF IndexIInv, IndexTyped
<1>4. CASE denied
  <2>1. I!NoCell \in Cells /\ I!NoCell.count = 0 /\ ~I!NoCell.confirmed
        /\ ~I!NoCell.mature
    BY DEF I!NoCell, Cells
  <2>2. /\ I!Greatest(indexIndex.tombstone, builds.next) \in Nat
        /\ builds.next <= I!Greatest(indexIndex.tombstone, builds.next)
    BY <1>1, GreatestIsUpper
  <2>3. /\ indexIndex' \in Working /\ indexIndex'.cell = I!NoCell
        /\ indexIndex'.tombstone
             = I!Greatest(indexIndex.tombstone, builds.next)
    BY <1>1, <1>2, <1>4, <2>1, <2>2 DEF I!Invalidate, Working
  <2>4. h' \in [seen : Nat, denied : Nat] /\ h'.seen = 0
        /\ h'.denied = builds.next
    BY <1>1, <1>2, <1>4
  <2>5. I!DenialWins' /\ I!MatureIsEarned' /\ CountIsSeen'
        /\ DenialIsRemembered' /\ AbsentIsEmpty(indexIndex.cell)'
    BY <2>1, <2>2, <2>3, <2>4
    DEF CountIsSeen, DenialIsRemembered, AbsentIsEmpty, I!DenialWins,
        I!MatureIsEarned
  <2> QED  BY <1>1, <1>3, <2>3, <2>4, <2>5 DEF IndexIInv, IndexTyped, Working
<1>5. CASE ~denied
  <2>1. indexIndex' = indexIndex /\ h' = h
    BY <1>2, <1>5
  <2> QED
    BY <1>1, <1>3, <2>1
    DEF IndexIInv, IndexTyped, CountIsSeen, DenialIsRemembered, AbsentIsEmpty,
        I!DenialWins, I!MatureIsEarned
<1> QED  BY <1>2, <1>4, <1>5

\* A file that can be loaded vouches for the cell it holds.
LEMMA LoadKeeps == ASSUME IndexIInv, I!Load PROVE IndexIInv'
<1> DEFINE anew == [epoch |-> indexIndex.epoch + 1, last |-> 0,
                    seq |-> file.seq, cell |-> file.cell, tombstone |-> 0,
                    free |-> FALSE]
<1>1. /\ file \in [saved : BOOLEAN, cell : Cells, seq : Nat]
      /\ file.cell.count \in Nat /\ indexIndex.epoch \in Nat
      /\ AbsentIsEmpty(file.cell)
  BY DEF IndexIInv, IndexTyped, Cells
<1>2. indexIndex' = anew /\ h' = [seen |-> file.cell.count, denied |-> 0]
      /\ UNCHANGED <<builds, file>>
  BY DEF I!Load, I!Empty
<1>3. file.cell.mature => file.cell.count >= MinObservations
  <2>1. CASE file.cell.present
    BY <2>1 DEF I!Load, I!Loadable
  <2>2. CASE ~file.cell.present
    BY <1>1, <2>2 DEF AbsentIsEmpty, I!NoCell
  <2> QED  BY <2>1, <2>2
<1>4. anew \in Working
  BY <1>1 DEF Working
<1>5. I!DenialWins' /\ I!MatureIsEarned' /\ CountIsSeen'
      /\ DenialIsRemembered' /\ AbsentIsEmpty(indexIndex.cell)'
  BY <1>1, <1>2, <1>3
  DEF CountIsSeen, DenialIsRemembered, AbsentIsEmpty, I!DenialWins,
      I!MatureIsEarned
<1> QED
  BY <1>1, <1>2, <1>4, <1>5 DEF IndexIInv, IndexTyped, Working

LEMMA IndexStep == IndexIInv /\ [I!Next]_I!vars => IndexIInv'
<1> SUFFICES ASSUME IndexIInv, [I!Next]_I!vars PROVE IndexIInv'
  OBVIOUS
<1>1. CASE I!StartBuild
  BY <1>1, StartKeeps
<1>2. CASE I!FinishBuild
  BY <1>2 DEF I!FinishBuild, IndexIInv, IndexTyped, CountIsSeen,
       DenialIsRemembered, AbsentIsEmpty, I!DenialWins, I!MatureIsEarned,
       I!NoBuild
<1>3. CASE I!ConsumeBuild
  BY <1>3, ConsumeKeeps
<1>4. CASE I!Reset
  BY <1>4, IndexAssumption DEF I!Reset, I!Empty, I!Nothing, I!NoCell, IndexIInv,
       IndexTyped, Cells, CountIsSeen, DenialIsRemembered, AbsentIsEmpty,
       I!DenialWins, I!MatureIsEarned
<1>5. CASE I!Save
  <2>1. /\ indexIndex.cell \in Cells /\ indexIndex.seq \in Nat
        /\ I!NoCell \in Cells /\ AbsentIsEmpty(indexIndex.cell)
    BY DEF IndexIInv, IndexTyped, I!NoCell, Cells
  <2>2. /\ file' \in [saved : BOOLEAN, cell : Cells, seq : Nat]
        /\ AbsentIsEmpty(file'.cell)
    BY <1>5, <2>1 DEF I!Save, AbsentIsEmpty
  <2> QED
    BY <1>5, <2>2 DEF I!Save, IndexIInv, IndexTyped, CountIsSeen,
         DenialIsRemembered, AbsentIsEmpty, I!DenialWins, I!MatureIsEarned
<1>6. CASE I!Load
  BY <1>6, LoadKeeps
<1>7. CASE UNCHANGED I!vars
  BY <1>7 DEF I!vars, IndexIInv, IndexTyped, CountIsSeen, DenialIsRemembered,
       AbsentIsEmpty, I!DenialWins, I!MatureIsEarned
<1> QED  BY <1>1, <1>2, <1>3, <1>4, <1>5, <1>6, <1>7 DEF I!Next

\* Whatever the versions and epochs of the builds in flight, a cell of the
\* index is confirmed by a build newer than every denial of the epoch, and
\* mature on MinObservations observations since the last denial
\* (confirmCleanCells, invalidateCells, loadSnapshotCandidate).
THEOREM CellsEarned == I!Spec => []CellsAreEarned
<1>1. IndexIInv => CellsAreEarned
  BY DEF IndexIInv, CellsAreEarned, I!CellsAreEarned
<1> QED  BY IndexInit, IndexStep, <1>1, PTL DEF I!Spec

-----------------------------------------------------------------------------
(* EvidenceManifest: the index file, its manifest and the marker.          *)

\* What the writer is about to name, or has named, is on disk; nothing else
\* replaces the manifest meanwhile.
WriterNamesItsFile ==
    /\ manifest # E!NoManifest => E!Name(manifest) \in files
    /\ writer.pc \in {"index", "manifest", "marker"} =>
          E!Name(writer.snapshot) \in files
    /\ writer.pc \in {"manifest", "marker"} => manifest = writer.snapshot

\* A change that is not in the writer's snapshot has raised the flag again.
LaterChangeIsFlagged ==
    /\ writer.pc \in {"index", "manifest", "marker"} =>
          (up /\ mutated /\ manifestIndex.revision > writer.snapshot.revision
              => flag)
    /\ writer.pc = "marker" => last = writer.snapshot.revision

\* A node that is down writes nothing.
DownWritesNothing == ~up => writer.pc = "none"

\* Between the suspension and the new epoch no cell changes.
SuspendedIsUnchanged == suspended => ~mutated

RevisionsTyped ==
    /\ manifestIndex.revision \in Nat /\ last \in Nat
    /\ manifest.revision \in Nat /\ writer.snapshot.revision \in Nat

EvidenceIInv ==
    /\ RevisionsTyped /\ WriterNamesItsFile /\ LaterChangeIsFlagged
    /\ DownWritesNothing /\ SuspendedIsUnchanged /\ E!NewEvidenceIsPending

LEMMA EvidenceInit == E!Init => EvidenceIInv
<1> SUFFICES ASSUME E!Init PROVE EvidenceIInv
  OBVIOUS
<1> USE DEF E!Init, E!Resting, E!Snapshot
<1>1. RevisionsTyped
  BY DEF RevisionsTyped, E!NoManifest
<1>2. WriterNamesItsFile
  BY DEF WriterNamesItsFile
<1>3. LaterChangeIsFlagged
  BY DEF LaterChangeIsFlagged
<1>4. DownWritesNothing
  BY DEF DownWritesNothing
<1>5. SuspendedIsUnchanged
  BY DEF SuspendedIsUnchanged
<1>6. E!NewEvidenceIsPending
  BY DEF E!NewEvidenceIsPending
<1> QED
  BY <1>1, <1>2, <1>3, <1>4, <1>5, <1>6 DEF EvidenceIInv

LEMMA EvidenceStep == EvidenceIInv /\ [E!Next]_E!vars => EvidenceIInv'
<1> SUFFICES ASSUME EvidenceIInv, [E!Next]_E!vars PROVE EvidenceIInv'
  OBVIOUS
<1> USE DEF EvidenceIInv, RevisionsTyped, E!NoManifest, E!Snapshot,
            WriterNamesItsFile, LaterChangeIsFlagged, DownWritesNothing,
            SuspendedIsUnchanged, E!NewEvidenceIsPending, E!memory, E!media
<1>1. CASE E!Mutate
  BY <1>1 DEF E!Mutate
<1>2. CASE E!Suspend
  BY <1>2 DEF E!Suspend
<1>3. CASE E!OpenEpoch
  BY <1>3 DEF E!OpenEpoch
<1>4. CASE E!Flush
  BY <1>4 DEF E!Flush, E!At
<1>5. CASE E!EvidenceNotWritten
  BY <1>5 DEF E!EvidenceNotWritten, E!TryLater, E!Resting
<1>6. CASE E!EvidenceUpToDate
  BY <1>6 DEF E!EvidenceUpToDate, E!Resting
<1>7. CASE E!WriteIndex
  BY <1>7 DEF E!WriteIndex, E!At
<1>8. CASE E!RenameManifest
  BY <1>8 DEF E!RenameManifest, E!At
<1>9. CASE E!ClearMarker
  BY <1>9 DEF E!ClearMarker, E!At
<1>10. CASE E!RemoveSuperseded
  BY <1>10 DEF E!RemoveSuperseded, E!Superseded, E!Resting
<1>11. CASE E!WriteFails
  BY <1>11 DEF E!WriteFails, E!TryLater, E!Resting
<1>12. CASE E!Crash
  BY <1>12 DEF E!Crash, E!Resting
<1>13. CASE E!LoadEvidence
  BY <1>13 DEF E!LoadEvidence
<1>14. CASE E!StartWithout
  BY <1>14 DEF E!StartWithout, E!Fresh
<1>15. CASE UNCHANGED E!vars
  BY <1>15 DEF E!vars
<1> QED
  BY <1>1, <1>2, <1>3, <1>4, <1>5, <1>6, <1>7, <1>8, <1>9, <1>10, <1>11,
     <1>12, <1>13, <1>14, <1>15 DEF E!Next

\* Wherever the node is interrupted, a manifest that a start would use names an
\* index file that is there, and evidence newer than the manifest is on its way
\* to disk (writePersistentStaticEvidence).
THEOREM EvidenceDurable == E!Spec => []EvidenceIsDurable
<1>1. EvidenceIInv => EvidenceIsDurable
  BY DEF EvidenceIInv, WriterNamesItsFile, EvidenceIsDurable,
         E!EvidenceIsDurable, E!ManifestNamesItsIndex, E!Loadable
<1> QED  BY <1>1, EvidenceInit, EvidenceStep, PTL DEF E!Spec

-----------------------------------------------------------------------------
(* MapSession: what a save takes piece by piece, and what a load stamps.   *)

Stamped == [epoch : Nat, rev : Nat]

\* Evidence stamps only grow while the process lives: by epoch, and within an
\* epoch by revision, although a load brings any revision with it.
Older(e, f) == e.epoch < f.epoch \/ (e.epoch = f.epoch /\ e.rev < f.rev)

SessionTyped ==
    /\ evidence \in Stamped /\ save.evidence \in Stamped
    /\ visible # M!Nothing => visible.evidence \in Stamped
    /\ staged # M!Nothing => staged.session.evidence \in Stamped

\* The evidence a save works with is the present one, or was before it.
SavedIsPast ==
    save.pc \in {"bundle", "recheck", "recheck_evidence"} =>
        save.evidence = evidence \/ Older(save.evidence, evidence)

\* What was taken was current at one moment, or the evidence has changed since
\* it was taken, which the second comparison finds.
TakenTogether ==
    /\ persistent /\ save.pc \in {"recheck", "recheck_evidence"} =>
          \/ <<save.bundle, save.evidence>> \in instants
          \/ Older(save.evidence, evidence)
    /\ persistent
       /\ save.pc \in {"count", "write", "extras", "manifest", "rename"} =>
          <<save.bundle, save.evidence>> \in instants

SessionIInv ==
    /\ SessionTyped /\ SavedIsPast /\ TakenTogether
    /\ <<bundle, evidence>> \in instants
    /\ M!SessionIsOneInstant /\ M!EvidenceOfThisEpoch

LEMMA SessionInit == M!Init => SessionIInv
BY DEF M!Init, M!NoSave, M!Nothing, SessionIInv, SessionTyped, Stamped,
       SavedIsPast, TakenTogether, M!SessionIsOneInstant, M!EvidenceOfThisEpoch

\* The map changes: its evidence is the same or newer.
LEMMA RuntimeStep ==
    ASSUME SessionIInv, M!Changed, evidence' \in Stamped,
           evidence'.epoch = sessionEpoch',
           evidence' = evidence \/ Older(evidence, evidence')
    PROVE  SessionIInv'
<1> USE DEF SessionIInv, M!Changed
<1>1. SessionTyped'
  BY DEF SessionTyped
<1>2. SavedIsPast'
  BY DEF SavedIsPast, SessionTyped, Stamped, Older
<1>3. TakenTogether'
  BY DEF TakenTogether, SessionTyped, Stamped, Older
<1>4. <<bundle, evidence>>' \in instants'
  OBVIOUS
<1>5. M!SessionIsOneInstant' /\ M!EvidenceOfThisEpoch'
  BY DEF M!SessionIsOneInstant, M!EvidenceOfThisEpoch
<1> QED  BY <1>1, <1>2, <1>3, <1>4, <1>5

LEMMA SessionStep == SessionIInv /\ [M!Next]_M!vars => SessionIInv'
<1> SUFFICES ASSUME SessionIInv, [M!Next]_M!vars PROVE SessionIInv'
  OBVIOUS
<1>1. CASE M!CommitKeyframe \/ M!ReleaseClouds \/ M!CompleteBundle
  BY <1>1, RuntimeStep
  DEF M!CommitKeyframe, M!ReleaseClouds, M!CompleteBundle, SessionIInv,
      SessionTyped, M!EvidenceOfThisEpoch
<1>2. CASE M!MutateEvidence
  <2>1. evidence' \in Stamped /\ Older(evidence, evidence')
        /\ evidence'.epoch = sessionEpoch'
    BY <1>2 DEF M!MutateEvidence, SessionIInv, SessionTyped, Stamped, Older,
                M!EvidenceOfThisEpoch
  <2> QED  BY <1>2, <2>1, RuntimeStep DEF M!MutateEvidence
<1>3. CASE M!Reset
  <2>1. evidence' \in Stamped /\ Older(evidence, evidence')
        /\ evidence'.epoch = sessionEpoch'
    BY <1>3 DEF M!Reset, SessionIInv, SessionTyped, Stamped, Older,
                M!EvidenceOfThisEpoch
  <2> QED  BY <1>3, <2>1, RuntimeStep DEF M!Reset
<1> USE DEF SessionIInv, SessionTyped, SavedIsPast, TakenTogether, M!Keep,
        M!runtime, M!SessionIsOneInstant, M!EvidenceOfThisEpoch
<1>4. CASE M!TakeEvidence
  BY <1>4 DEF M!TakeEvidence
<1>5. CASE M!TakeBundle
  BY <1>5 DEF M!TakeBundle
<1>6. CASE M!RecheckBundle
  BY <1>6 DEF M!RecheckBundle, M!NoSave, Stamped
<1>7. CASE M!RecheckEvidence
  BY <1>7 DEF M!RecheckEvidence, M!NoSave, Stamped, Older
<1>8. CASE M!CountKeyframes
  BY <1>8 DEF M!CountKeyframes
<1>9. CASE M!WriteLayers
  BY <1>9 DEF M!WriteLayers
<1>10. CASE M!WriteExtras
  BY <1>10 DEF M!WriteExtras
<1>11. CASE M!WriteManifest
  BY <1>11 DEF M!WriteManifest
<1>12. CASE M!Rename
  BY <1>12 DEF M!Rename, M!NoSave, Stamped
<1>13. CASE M!SaveFails
  BY <1>13 DEF M!SaveFails, M!NoSave, Stamped
<1>14. CASE M!CrashAndRestart
  BY <1>14 DEF M!CrashAndRestart, M!NoSave, Stamped
<1>15. CASE M!Stage
  BY <1>15 DEF M!Stage, M!Loads
<1>16. CASE M!Install
  BY <1>16 DEF M!Install, M!StampInstalled, Stamped, Older
<1>17. CASE M!InstallRefused
  BY <1>17 DEF M!InstallRefused
<1>18. CASE UNCHANGED M!vars
  BY <1>18 DEF M!vars
<1> QED
  BY <1>1, <1>2, <1>3, <1>4, <1>5, <1>6, <1>7, <1>8, <1>9, <1>10, <1>11,
     <1>12, <1>13, <1>14, <1>15, <1>16, <1>17, <1>18 DEF M!Next

\* Whatever changes between the steps of a save or of a load, a session that
\* is visible was the map at one moment, and the evidence in use belongs to the
\* present epoch (saveMapSessionAtomic, loadMapService).
THEOREM SessionConsistent == M!Spec => []SessionIsConsistent
<1>1. SessionIInv => SessionIsConsistent
  BY DEF SessionIInv, SessionIsConsistent, M!SessionIsConsistent
<1> QED  BY <1>1, SessionInit, SessionStep, PTL DEF M!Spec
=============================================================================
