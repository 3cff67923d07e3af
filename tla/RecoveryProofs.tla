--------------------------- MODULE RecoveryProofs ---------------------------
(***************************************************************************)
(* Theorems about what is lost and found again, for every value of the     *)
(* constants.  The tile map: the tiles, their catalogue and the start      *)
(* implement DurableMap, no point of a keyframe is lost, and a flush       *)
(* commits a keyframe in all of its layers.  Relocalization: no status     *)
(* outlives the pose it was computed with.  The cargo lock: what it rests  *)
(* on was measured.                                                        *)
(***************************************************************************)
EXTENDS MCRecovery, TLAPS

-----------------------------------------------------------------------------
(* PersistentTiles: the inductive invariant.                               *)

Contents == [Files -> SUBSET Keyframes]

Batches == [pc : {"none", "start", "write"}, batch : Contents,
            todo : SUBSET Files, bad : SUBSET Files]

TypeOK ==
    /\ node \in {"up", "final", "down", "refused"}
    /\ dirty \in Contents /\ failed \in Contents
    /\ worker \in Batches
    /\ saver \in {"idle", "join", "check", "assemble"}
    /\ disk \in Contents /\ catalog \in Contents
    /\ served \in Contents /\ session \in Contents
    /\ stray \in SUBSET Files
    /\ foot \in [Keyframes -> SUBSET Files]

Running == node \in {"up", "final"}

\* Threads only exist while the node runs, and only a node that is up saves.
ThreadsOfLife ==
    /\ worker.pc # "none" => Running
    /\ saver # "idle" => node = "up"

\* Files only grow, and the catalogue was once what the files are.
CatalogOnDisk == \A f \in Files : catalog[f] \subseteq disk[f]

\* A batch that is not written yet is complete, and nothing waits for a retry
\* while a batch is under way: the flush that began it took the retry with it.
BatchIsAll ==
    /\ worker.pc = "none" => worker = Idle
    /\ worker.pc # "none" => failed = Nothing
    /\ worker.pc = "start" =>
          worker.todo = Holding(worker.batch) /\ worker.bad = {}

\* While the batch is written, a file of it is still to do, has failed, or
\* holds its part of the batch.
BatchProgress ==
    worker.pc = "write" =>
        \A f \in Files : \/ f \in worker.todo \union worker.bad
                         \/ worker.batch[f] \subseteq disk[f]

\* Points in memory are of keyframes that were appended in this life.
MemoryIsTracked ==
    \A k \in Keyframes, f \in Files :
        k \in dirty[f] \union failed[f] \union worker.batch[f] => f \in foot[k]

\* What a running node is not told of is on disk already.
DownIsOnDisk ==
    ~Running => \A k \in Keyframes, f \in Files : f \in foot[k] => k \in disk[f]

\* A keyframe that a batch or the disk knows of is in them with every layer:
\* a retry and newer points never travel in separate batches.
BatchIsWhole ==
    worker.pc # "none" =>
        \A k \in Keyframes, f, g \in Files :
            k \in disk[f] \union worker.batch[f] /\ g \in foot[k]
                => k \in disk[g] \union worker.batch[g]

IInv ==
    /\ TypeOK /\ ThreadsOfLife /\ CatalogOnDisk /\ BatchIsAll /\ BatchProgress
    /\ MemoryIsTracked /\ DownIsOnDisk /\ PointsKept /\ BatchIsWhole

-----------------------------------------------------------------------------
(* Contents of files.                                                      *)

\* Merging two contents keeps what either holds, file by file.
LEMMA JoinedIsUnion ==
    ASSUME NEW a \in Contents, NEW b \in Contents
    PROVE  /\ Joined(a, b) \in Contents
           /\ \A f \in Files : Joined(a, b)[f] = a[f] \union b[f]
BY DEF Joined, Contents

LEMMA NothingIsEmpty ==
    /\ Nothing \in Contents
    /\ \A f \in Files : Nothing[f] = {}
    /\ Idle \in Batches
    /\ Idle.pc = "none" /\ Idle.batch = Nothing
BY DEF Nothing, Idle, Contents, Batches

\* A content that holds no file is empty.
LEMMA HoldsNothing ==
    ASSUME NEW a \in Contents, Holding(a) = {}
    PROVE  a = Nothing
BY DEF Holding, Contents, Nothing

-----------------------------------------------------------------------------
(* What a flush may do, whoever asks for it.                               *)

\* Either everything stays in the dirty tiles, or all of it becomes the batch
\* of an idle worker.
LEMMA FlushEffect ==
    ASSUME TypeOK, NEW low \in DiskLow, FlushDirtyTiles(low)
    PROVE  /\ failed' = Nothing
           /\ \/ /\ dirty' = Joined(dirty, failed)
                 /\ UNCHANGED worker
              \/ /\ worker.pc = "none" /\ dirty' = Nothing
                 /\ worker' \in Batches
                 /\ worker'.pc = "start" /\ worker'.bad = {}
                 /\ worker'.batch = Joined(dirty, failed)
                 /\ worker'.todo = Holding(worker'.batch)
<1> DEFINE all == Joined(dirty, failed)
<1>1. all \in Contents /\ RetryMerged = all
  BY JoinedIsUnion DEF TypeOK, RetryMerged
<1>2. Holding(all) \in SUBSET Files
  BY DEF Holding
<1>3. CASE worker.pc # "none" \/ low \/ Holding(RetryMerged) = {}
  BY <1>1, <1>3 DEF FlushDirtyTiles
<1>4. CASE ~(worker.pc # "none" \/ low \/ Holding(RetryMerged) = {})
  <2>1. /\ failed' = Nothing /\ dirty' = Nothing /\ worker.pc = "none"
        /\ worker' = [pc |-> "start", batch |-> all, todo |-> Holding(all),
                       bad |-> {}]
    BY <1>1, <1>4 DEF FlushDirtyTiles
  <2> QED  BY <1>1, <1>2, <2>1 DEF Batches
<1> QED  BY <1>3, <1>4

-----------------------------------------------------------------------------
(* The initial state.                                                      *)

LEMMA InitIInv == Init => IInv
<1> SUFFICES ASSUME Init PROVE IInv
  OBVIOUS
<1>1. TypeOK
  BY NothingIsEmpty DEF Init, TypeOK
<1>2. ThreadsOfLife /\ CatalogOnDisk /\ BatchIsAll /\ BatchProgress
  BY NothingIsEmpty
  DEF Init, ThreadsOfLife, CatalogOnDisk, BatchIsAll, BatchProgress
<1>3. MemoryIsTracked /\ DownIsOnDisk /\ PointsKept /\ BatchIsWhole
  BY NothingIsEmpty
  DEF Init, MemoryIsTracked, DownIsOnDisk, PointsKept, BatchIsWhole
<1> QED  BY <1>1, <1>2, <1>3 DEF IInv

-----------------------------------------------------------------------------
(* The steps.                                                              *)

LEMMA StepIInv == IInv /\ [Next]_vars => IInv'
<1> SUFFICES ASSUME IInv, [Next]_vars PROVE IInv'
  OBVIOUS
<1> USE DEF IInv
<1>1. CASE AppendPersistentTileLayers
  <2>1. TypeOK'
    BY <1>1 DEF AppendPersistentTileLayers, TypeOK, Contents
  <2>2. ThreadsOfLife'
    BY <1>1 DEF AppendPersistentTileLayers, ThreadsOfLife, Running
  <2>3. CatalogOnDisk'
    BY <1>1 DEF AppendPersistentTileLayers, CatalogOnDisk
  <2>4. BatchIsAll'
    BY <1>1 DEF AppendPersistentTileLayers, BatchIsAll
  <2>5. BatchProgress'
    BY <1>1 DEF AppendPersistentTileLayers, BatchProgress
  <2>6. MemoryIsTracked'
    BY <1>1 DEF AppendPersistentTileLayers, MemoryIsTracked, TypeOK
  <2>7. DownIsOnDisk'
    BY <1>1 DEF AppendPersistentTileLayers, DownIsOnDisk, Running
  <2>8. PointsKept'
    BY <1>1 DEF AppendPersistentTileLayers, PointsKept, TypeOK
  <2>9. BatchIsWhole'
    BY <1>1 DEF AppendPersistentTileLayers, BatchIsWhole, MemoryIsTracked
  <2> QED  BY <2>1, <2>2, <2>3, <2>4, <2>5, <2>6, <2>7, <2>8, <2>9
<1>2. CASE FlushByOwner
  <2>0. PICK low \in DiskLow : FlushDirtyTiles(low)
    BY <1>2 DEF FlushByOwner
  <2> DEFINE all == Joined(dirty, failed)
  <2>a. /\ failed' = Nothing
        /\ \/ /\ dirty' = all
              /\ UNCHANGED worker
           \/ /\ worker.pc = "none" /\ dirty' = Nothing
              /\ worker' \in Batches
              /\ worker'.pc = "start" /\ worker'.bad = {}
              /\ worker'.batch = all
              /\ worker'.todo = Holding(worker'.batch)
    BY <2>0, FlushEffect
  <2>b. all \in Contents /\ \A f \in Files : all[f] = dirty[f] \union failed[f]
    BY JoinedIsUnion DEF TypeOK
  <2> HIDE DEF all
  <2>1. TypeOK'
    BY <1>2, <2>a, <2>b, NothingIsEmpty DEF FlushByOwner, TypeOK
  <2>2. ThreadsOfLife'
    BY <1>2 DEF FlushByOwner, ThreadsOfLife, Running
  <2>3. CatalogOnDisk'
    BY <1>2 DEF FlushByOwner, CatalogOnDisk
  <2>4. BatchIsAll'
    BY <2>a DEF BatchIsAll
  <2>5. BatchProgress'
    BY <1>2, <2>a DEF FlushByOwner, BatchProgress
  <2>6. MemoryIsTracked'
    BY <1>2, <2>a, <2>b, NothingIsEmpty DEF FlushByOwner, MemoryIsTracked
  <2>7. DownIsOnDisk'
    BY <1>2 DEF FlushByOwner, DownIsOnDisk, Running
  <2>8. PointsKept'
    BY <1>2, <2>a, <2>b DEF FlushByOwner, PointsKept, TypeOK
  <2>9. BatchIsWhole'
    BY <1>2, <2>a, <2>b DEF FlushByOwner, BatchIsWhole, PointsKept
  <2> QED  BY <2>1, <2>2, <2>3, <2>4, <2>5, <2>6, <2>7, <2>8, <2>9
<1>3. CASE WorkerLocks
  <2>1. TypeOK'
    BY <1>3 DEF WorkerLocks, TypeOK, Batches
  <2>2. ThreadsOfLife'
    BY <1>3 DEF WorkerLocks, ThreadsOfLife, Running
  <2>3. CatalogOnDisk'
    BY <1>3 DEF WorkerLocks, CatalogOnDisk
  <2>4. BatchIsAll'
    BY <1>3 DEF WorkerLocks, BatchIsAll
  <2>5. BatchProgress'
    BY <1>3 DEF WorkerLocks, BatchProgress, BatchIsAll, Holding
  <2>6. MemoryIsTracked'
    BY <1>3 DEF WorkerLocks, MemoryIsTracked
  <2>7. DownIsOnDisk'
    BY <1>3 DEF WorkerLocks, DownIsOnDisk, Running
  <2>8. PointsKept'
    BY <1>3 DEF WorkerLocks, PointsKept
  <2>9. BatchIsWhole'
    BY <1>3 DEF WorkerLocks, BatchIsWhole
  <2> QED  BY <2>1, <2>2, <2>3, <2>4, <2>5, <2>6, <2>7, <2>8, <2>9
<1>4. CASE FlushEnds
  <2>1. TypeOK'
    BY <1>4, NothingIsEmpty DEF FlushEnds, TypeOK, Contents, Batches, Retried
  <2>2. ThreadsOfLife'
    BY <1>4, NothingIsEmpty DEF FlushEnds, ThreadsOfLife
  <2>3. CatalogOnDisk'
    BY <1>4 DEF FlushEnds, CatalogOnDisk
  <2>4. BatchIsAll'
    BY <1>4, NothingIsEmpty DEF FlushEnds, BatchIsAll
  <2>5. BatchProgress'
    BY <1>4, NothingIsEmpty DEF FlushEnds, BatchProgress
  <2>6. MemoryIsTracked'
    BY <1>4, NothingIsEmpty DEF FlushEnds, MemoryIsTracked, Running, Retried
  <2>7. DownIsOnDisk'
    BY <1>4 DEF FlushEnds, DownIsOnDisk, Running
  <2>8. PointsKept'
    BY <1>4, NothingIsEmpty
    DEF FlushEnds, PointsKept, TypeOK, BatchIsAll, BatchProgress, Retried,
        Idle, Holding
  <2>9. BatchIsWhole'
    BY <1>4, NothingIsEmpty DEF FlushEnds, BatchIsWhole
  <2> QED  BY <2>1, <2>2, <2>3, <2>4, <2>5, <2>6, <2>7, <2>8, <2>9
<1>5. CASE WorkerThrows
  <2>1. TypeOK'
    BY <1>5, NothingIsEmpty
    DEF WorkerThrows, TypeOK, Contents, Batches, Retried
  <2>2. ThreadsOfLife'
    BY <1>5, NothingIsEmpty DEF WorkerThrows, ThreadsOfLife
  <2>3. CatalogOnDisk'
    BY <1>5 DEF WorkerThrows, CatalogOnDisk
  <2>4. BatchIsAll'
    BY <1>5, NothingIsEmpty DEF WorkerThrows, BatchIsAll
  <2>5. BatchProgress'
    BY <1>5, NothingIsEmpty DEF WorkerThrows, BatchProgress
  <2>6. MemoryIsTracked'
    BY <1>5, NothingIsEmpty DEF WorkerThrows, MemoryIsTracked, Retried
  <2>7. DownIsOnDisk'
    BY <1>5 DEF WorkerThrows, DownIsOnDisk, Running
  <2>8. PointsKept'
    BY <1>5, NothingIsEmpty
    DEF WorkerThrows, PointsKept, TypeOK, BatchIsAll, BatchProgress, Retried
  <2>9. BatchIsWhole'
    BY <1>5, NothingIsEmpty DEF WorkerThrows, BatchIsWhole
  <2> QED  BY <2>1, <2>2, <2>3, <2>4, <2>5, <2>6, <2>7, <2>8, <2>9
<1>6. ASSUME NEW f \in Files, WriteTile(f) PROVE IInv'
  <2>1. TypeOK'
    BY <1>6 DEF WriteTile, TypeOK, Contents, Batches
  <2>2. ThreadsOfLife'
    BY <1>6 DEF WriteTile, ThreadsOfLife, Running
  <2>3. CatalogOnDisk'
    BY <1>6 DEF WriteTile, CatalogOnDisk
  <2>4. BatchIsAll'
    BY <1>6 DEF WriteTile, BatchIsAll
  <2>5. BatchProgress'
    BY <1>6 DEF WriteTile, BatchProgress, TypeOK, Contents
  <2>6. MemoryIsTracked'
    BY <1>6 DEF WriteTile, MemoryIsTracked
  <2>7. DownIsOnDisk'
    BY <1>6 DEF WriteTile, DownIsOnDisk, Running
  <2>8. PointsKept'
    BY <1>6 DEF WriteTile, PointsKept
  <2>9. BatchIsWhole'
    BY <1>6 DEF WriteTile, BatchIsWhole
  <2> QED  BY <2>1, <2>2, <2>3, <2>4, <2>5, <2>6, <2>7, <2>8, <2>9
<1>7. ASSUME NEW f \in Files, WriteTileFails(f) PROVE IInv'
  <2>1. TypeOK'
    BY <1>7 DEF WriteTileFails, TypeOK, Batches
  <2>2. ThreadsOfLife'
    BY <1>7 DEF WriteTileFails, ThreadsOfLife, Running
  <2>3. CatalogOnDisk'
    BY <1>7 DEF WriteTileFails, CatalogOnDisk
  <2>4. BatchIsAll'
    BY <1>7 DEF WriteTileFails, BatchIsAll
  <2>5. BatchProgress'
    BY <1>7 DEF WriteTileFails, BatchProgress
  <2>6. MemoryIsTracked'
    BY <1>7 DEF WriteTileFails, MemoryIsTracked
  <2>7. DownIsOnDisk'
    BY <1>7 DEF WriteTileFails, DownIsOnDisk, Running
  <2>8. PointsKept'
    BY <1>7 DEF WriteTileFails, PointsKept
  <2>9. BatchIsWhole'
    BY <1>7 DEF WriteTileFails, BatchIsWhole
  <2> QED  BY <2>1, <2>2, <2>3, <2>4, <2>5, <2>6, <2>7, <2>8, <2>9
<1>8. CASE SaveFlushes
  <2>0. PICK low \in DiskLow : FlushDirtyTiles(low)
    BY <1>8 DEF SaveFlushes
  <2> DEFINE all == Joined(dirty, failed)
  <2>a. /\ failed' = Nothing
        /\ \/ /\ dirty' = all
              /\ UNCHANGED worker
           \/ /\ worker.pc = "none" /\ dirty' = Nothing
              /\ worker' \in Batches
              /\ worker'.pc = "start" /\ worker'.bad = {}
              /\ worker'.batch = all
              /\ worker'.todo = Holding(worker'.batch)
    BY <2>0, FlushEffect
  <2>b. all \in Contents /\ \A f \in Files : all[f] = dirty[f] \union failed[f]
    BY JoinedIsUnion DEF TypeOK
  <2> HIDE DEF all
  <2>1. TypeOK'
    BY <1>8, <2>a, <2>b, NothingIsEmpty DEF SaveFlushes, TypeOK
  <2>2. ThreadsOfLife'
    BY <1>8 DEF SaveFlushes, ThreadsOfLife, Running
  <2>3. CatalogOnDisk'
    BY <1>8 DEF SaveFlushes, CatalogOnDisk
  <2>4. BatchIsAll'
    BY <2>a DEF BatchIsAll
  <2>5. BatchProgress'
    BY <1>8, <2>a DEF SaveFlushes, BatchProgress
  <2>6. MemoryIsTracked'
    BY <1>8, <2>a, <2>b, NothingIsEmpty DEF SaveFlushes, MemoryIsTracked
  <2>7. DownIsOnDisk'
    BY <1>8 DEF SaveFlushes, DownIsOnDisk, Running
  <2>8. PointsKept'
    BY <1>8, <2>a, <2>b DEF SaveFlushes, PointsKept, TypeOK
  <2>9. BatchIsWhole'
    BY <1>8, <2>a, <2>b DEF SaveFlushes, BatchIsWhole, PointsKept
  <2> QED  BY <2>1, <2>2, <2>3, <2>4, <2>5, <2>6, <2>7, <2>8, <2>9
<1>9. CASE SaveJoins
  <2>1. TypeOK'
    BY <1>9 DEF SaveJoins, TypeOK
  <2>2. ThreadsOfLife'
    BY <1>9 DEF SaveJoins, ThreadsOfLife
  <2>3. CatalogOnDisk'
    BY <1>9 DEF SaveJoins, CatalogOnDisk
  <2>4. BatchIsAll'
    BY <1>9 DEF SaveJoins, BatchIsAll
  <2>5. BatchProgress'
    BY <1>9 DEF SaveJoins, BatchProgress
  <2>6. MemoryIsTracked'
    BY <1>9 DEF SaveJoins, MemoryIsTracked
  <2>7. DownIsOnDisk'
    BY <1>9 DEF SaveJoins, DownIsOnDisk, Running
  <2>8. PointsKept'
    BY <1>9 DEF SaveJoins, PointsKept
  <2>9. BatchIsWhole'
    BY <1>9 DEF SaveJoins, BatchIsWhole
  <2> QED  BY <2>1, <2>2, <2>3, <2>4, <2>5, <2>6, <2>7, <2>8, <2>9
<1>10. CASE SaveChecks
  <2>1. TypeOK'
    BY <1>10 DEF SaveChecks, TypeOK
  <2>2. ThreadsOfLife'
    BY <1>10 DEF SaveChecks, ThreadsOfLife, Running
  <2>3. CatalogOnDisk'
    BY <1>10 DEF SaveChecks, CatalogOnDisk
  <2>4. BatchIsAll'
    BY <1>10 DEF SaveChecks, BatchIsAll
  <2>5. BatchProgress'
    BY <1>10 DEF SaveChecks, BatchProgress
  <2>6. MemoryIsTracked'
    BY <1>10 DEF SaveChecks, MemoryIsTracked
  <2>7. DownIsOnDisk'
    BY <1>10 DEF SaveChecks, DownIsOnDisk, Running
  <2>8. PointsKept'
    BY <1>10 DEF SaveChecks, PointsKept
  <2>9. BatchIsWhole'
    BY <1>10 DEF SaveChecks, BatchIsWhole
  <2> QED  BY <2>1, <2>2, <2>3, <2>4, <2>5, <2>6, <2>7, <2>8, <2>9
<1>11. CASE SaveAssembles
  <2>1. TypeOK'
    BY <1>11 DEF SaveAssembles, TypeOK
  <2>2. ThreadsOfLife'
    BY <1>11 DEF SaveAssembles, ThreadsOfLife, Running
  <2>3. CatalogOnDisk'
    BY <1>11 DEF SaveAssembles, CatalogOnDisk
  <2>4. BatchIsAll'
    BY <1>11 DEF SaveAssembles, BatchIsAll
  <2>5. BatchProgress'
    BY <1>11 DEF SaveAssembles, BatchProgress
  <2>6. MemoryIsTracked'
    BY <1>11 DEF SaveAssembles, MemoryIsTracked
  <2>7. DownIsOnDisk'
    BY <1>11 DEF SaveAssembles, DownIsOnDisk, Running
  <2>8. PointsKept'
    BY <1>11 DEF SaveAssembles, PointsKept
  <2>9. BatchIsWhole'
    BY <1>11 DEF SaveAssembles, BatchIsWhole
  <2> QED  BY <2>1, <2>2, <2>3, <2>4, <2>5, <2>6, <2>7, <2>8, <2>9
<1>12. CASE ShutdownFlushes
  <2>0. PICK low \in DiskLow : FlushDirtyTiles(low)
    BY <1>12 DEF ShutdownFlushes
  <2> DEFINE all == Joined(dirty, failed)
  <2>a. /\ failed' = Nothing
        /\ \/ /\ dirty' = all
              /\ UNCHANGED worker
           \/ /\ worker.pc = "none" /\ dirty' = Nothing
              /\ worker' \in Batches
              /\ worker'.pc = "start" /\ worker'.bad = {}
              /\ worker'.batch = all
              /\ worker'.todo = Holding(worker'.batch)
    BY <2>0, FlushEffect
  <2>b. all \in Contents /\ \A f \in Files : all[f] = dirty[f] \union failed[f]
    BY JoinedIsUnion DEF TypeOK
  <2> HIDE DEF all
  <2>1. TypeOK'
    BY <1>12, <2>a, <2>b, NothingIsEmpty DEF ShutdownFlushes, TypeOK
  <2>2. ThreadsOfLife'
    BY <1>12 DEF ShutdownFlushes, ThreadsOfLife, Running
  <2>3. CatalogOnDisk'
    BY <1>12 DEF ShutdownFlushes, CatalogOnDisk
  <2>4. BatchIsAll'
    BY <2>a DEF BatchIsAll
  <2>5. BatchProgress'
    BY <1>12, <2>a DEF ShutdownFlushes, BatchProgress
  <2>6. MemoryIsTracked'
    BY <1>12, <2>a, <2>b, NothingIsEmpty DEF ShutdownFlushes, MemoryIsTracked
  <2>7. DownIsOnDisk'
    BY <1>12 DEF ShutdownFlushes, DownIsOnDisk, Running
  <2>8. PointsKept'
    BY <1>12, <2>a, <2>b DEF ShutdownFlushes, PointsKept, TypeOK
  <2>9. BatchIsWhole'
    BY <1>12, <2>a, <2>b DEF ShutdownFlushes, BatchIsWhole, PointsKept
  <2> QED  BY <2>1, <2>2, <2>3, <2>4, <2>5, <2>6, <2>7, <2>8, <2>9
<1>13. CASE ShutdownEnds
  <2>1. TypeOK'
    BY <1>13, NothingIsEmpty DEF ShutdownEnds, TypeOK, LifeEnds
  <2>2. ThreadsOfLife'
    BY <1>13, NothingIsEmpty DEF ShutdownEnds, ThreadsOfLife, LifeEnds
  <2>3. CatalogOnDisk'
    BY <1>13 DEF ShutdownEnds, CatalogOnDisk, LifeEnds
  <2>4. BatchIsAll'
    BY <1>13 DEF ShutdownEnds, BatchIsAll, LifeEnds
  <2>5. BatchProgress'
    BY <1>13, NothingIsEmpty DEF ShutdownEnds, BatchProgress, LifeEnds
  <2>6. MemoryIsTracked'
    BY <1>13, NothingIsEmpty DEF ShutdownEnds, MemoryIsTracked, LifeEnds
  <2>7. DownIsOnDisk'
    BY <1>13 DEF ShutdownEnds, DownIsOnDisk, LifeEnds
  <2>8. PointsKept'
    BY <1>13 DEF ShutdownEnds, PointsKept, LifeEnds
  <2>9. BatchIsWhole'
    BY <1>13 DEF ShutdownEnds, BatchIsWhole, LifeEnds
  <2> QED  BY <2>1, <2>2, <2>3, <2>4, <2>5, <2>6, <2>7, <2>8, <2>9
<1>14. CASE Crash
  <2>1. TypeOK'
    BY <1>14, NothingIsEmpty DEF Crash, TypeOK, Batches, LifeEnds
  <2>2. ThreadsOfLife'
    BY <1>14, NothingIsEmpty DEF Crash, ThreadsOfLife, LifeEnds
  <2>3. CatalogOnDisk'
    BY <1>14 DEF Crash, CatalogOnDisk, LifeEnds
  <2>4. BatchIsAll'
    BY <1>14, NothingIsEmpty DEF Crash, BatchIsAll, LifeEnds
  <2>5. BatchProgress'
    BY <1>14, NothingIsEmpty DEF Crash, BatchProgress, LifeEnds
  <2>6. MemoryIsTracked'
    BY <1>14, NothingIsEmpty DEF Crash, MemoryIsTracked, LifeEnds
  <2>7. DownIsOnDisk'
    BY <1>14 DEF Crash, DownIsOnDisk, LifeEnds
  <2>8. PointsKept'
    BY <1>14 DEF Crash, PointsKept, LifeEnds
  <2>9. BatchIsWhole'
    BY <1>14 DEF Crash, BatchIsWhole, LifeEnds
  <2> QED  BY <2>1, <2>2, <2>3, <2>4, <2>5, <2>6, <2>7, <2>8, <2>9
<1>15. CASE Start
  <2>1. TypeOK'
    BY <1>15 DEF Start, TypeOK
  <2>2. ThreadsOfLife'
    BY <1>15 DEF Start, ThreadsOfLife, Running
  <2>3. CatalogOnDisk'
    BY <1>15 DEF Start, CatalogOnDisk
  <2>4. BatchIsAll'
    BY <1>15 DEF Start, BatchIsAll
  <2>5. BatchProgress'
    BY <1>15 DEF Start, BatchProgress
  <2>6. MemoryIsTracked'
    BY <1>15 DEF Start, MemoryIsTracked
  <2>7. DownIsOnDisk'
    BY <1>15 DEF Start, DownIsOnDisk, Running
  <2>8. PointsKept'
    BY <1>15 DEF Start, PointsKept, TypeOK, DownIsOnDisk, Running
  <2>9. BatchIsWhole'
    BY <1>15 DEF Start, BatchIsWhole
  <2> QED  BY <2>1, <2>2, <2>3, <2>4, <2>5, <2>6, <2>7, <2>8, <2>9
<1>16. CASE UNCHANGED vars
  BY <1>16
  DEF vars, TypeOK, ThreadsOfLife, CatalogOnDisk, BatchIsAll, BatchProgress,
      MemoryIsTracked, DownIsOnDisk, PointsKept, BatchIsWhole, Running
<1> QED
  BY <1>1, <1>2, <1>3, <1>4, <1>5, <1>6, <1>7, <1>8, <1>9, <1>10, <1>11, <1>12,
     <1>13, <1>14, <1>15, <1>16
  DEF Next
-----------------------------------------------------------------------------
(* The theorems.                                                           *)

LEMMA Invariance == Spec => []IInv
BY InitIInv, StepIInv, PTL DEF Spec

\* Every reachable state of the tile map is well formed, with the worker's
\* batch and the files it names.
THEOREM TypeCorrect == Spec => []TypeOK
BY Invariance, PTL DEF IInv

\* Only the end of a batch without a failed file changes the catalogue while
\* the worker writes, and it catalogues the disk.
LEMMA FlushStep ==
    ASSUME IInv, [Next]_vars, worker.pc = "write", catalog' # catalog
    PROVE  FlushEnds /\ worker.bad = {} /\ catalog' = disk
<1>1. Next
  BY DEF vars
<1> QED
  BY <1>1
  DEF Next, AppendPersistentTileLayers, FlushByOwner, WorkerLocks, FlushEnds,
      WorkerThrows, WriteTile, WriteTileFails, SaveFlushes, SaveJoins,
      SaveChecks, SaveAssembles, ShutdownFlushes, ShutdownEnds, LifeEnds,
      Crash, Start

\* flushDirtyTiles: no point of a keyframe that was handed over is lost while
\* the node runs, and a flush catalogues a keyframe in all of its layers.
THEOREM KeepsKeyframes == Spec => TilesKeepKeyframes
<1>1. ASSUME IInv, [Next]_vars
      PROVE  [worker.pc = "write" /\ catalog' # catalog => Whole(catalog')]_vars
  <2> SUFFICES ASSUME worker.pc = "write", catalog' # catalog
               PROVE  Whole(catalog')
    OBVIOUS
  <2>1. FlushEnds /\ worker.bad = {} /\ catalog' = disk
    BY <1>1, FlushStep
  <2>2. \A f \in Files : worker.batch[f] \subseteq disk[f]
    BY <1>1, <2>1 DEF FlushEnds, IInv, BatchProgress
  <2>3. Whole(disk)
    BY <1>1, <2>2 DEF Whole, IInv, BatchIsWhole
  <2> QED  BY <2>1, <2>3
<1> QED
  BY <1>1, Invariance, PTL
  DEF Spec, TilesKeepKeyframes, FlushCommitsWhole, IInv

-----------------------------------------------------------------------------
(* The refinement.                                                         *)

LEMMA InitImplements == Init => Store!Init
BY DEF Init, Store!Init, Store!Empty, Nothing

\* A step of the store: the catalogue moves on, or a life begins or ends.
LEMMA StepImplements ==
    ASSUME IInv, IInv', [Next]_vars
    PROVE  [Store!Next]_(Store!vars)
<1> USE DEF IInv
<1>1. CASE \/ AppendPersistentTileLayers \/ FlushByOwner \/ WorkerLocks
           \/ WorkerThrows \/ SaveFlushes \/ SaveJoins \/ SaveChecks
           \/ \E f \in Files : WriteTile(f) \/ WriteTileFails(f)
  BY <1>1
  DEF Store!vars, AppendPersistentTileLayers, FlushByOwner, WorkerLocks,
      WorkerThrows, SaveFlushes, SaveJoins, SaveChecks, WriteTile,
      WriteTileFails
<1>2. CASE FlushEnds \/ SaveAssembles
  <2>1. Running /\ UNCHANGED <<node, served>>
    BY <1>2 DEF FlushEnds, SaveAssembles, ThreadsOfLife, Running
  <2>2. catalog' = catalog \/ catalog' = disk
    BY <1>2 DEF FlushEnds, SaveAssembles
  <2>3. \A f \in Files : catalog[f] \subseteq catalog'[f]
    BY <2>2 DEF CatalogOnDisk
  <2>4. catalog' \in [Files -> SUBSET Keyframes]
    BY DEF TypeOK, Contents
  <2> QED  BY <2>1, <2>3, <2>4 DEF Running, Store!Next, Store!Commit
<1>3. CASE ShutdownFlushes
  BY <1>3 DEF ShutdownFlushes, Store!vars
<1>4. CASE ShutdownEnds \/ Crash
  BY <1>4
  DEF ShutdownEnds, Crash, LifeEnds, Store!Next, Store!Stop, Store!Empty,
      Nothing
<1>5. CASE Start
  <2>1. CASE node' = "refused" /\ UNCHANGED served
    BY <1>5, <2>1 DEF Start, Store!Next, Store!Refuse
  <2>2. CASE (CatalogVerifies \/ NewMap) /\ node' = "up" /\ served' = disk
    <3>1. disk = catalog
      BY <2>2, HoldsNothing DEF CatalogVerifies, NewMap, TypeOK, Contents
    <3> QED  BY <1>5, <2>2, <3>1 DEF Start, Store!Next, Store!Serve
  <2> QED  BY <1>5, <2>1, <2>2 DEF Start
<1>6. CASE UNCHANGED vars
  BY <1>6 DEF vars, Store!vars
<1> QED  BY <1>1, <1>2, <1>3, <1>4, <1>5, <1>6 DEF Next

\* The tiles, their catalogue and the start are an append-only store: crashes
\* and failed writes never change what is committed, and a node that starts
\* serves exactly that.
THEOREM Implements == Spec => ImplementsStore
BY Invariance, InitImplements, StepImplements, PTL
  DEF Spec, ImplementsStore, Store!Spec

-----------------------------------------------------------------------------
(* Relocalization: who believes the pose, and when.                        *)

Fields == [state : {"IDLE", "DEGRADED", "CONFIRMING", "COOLDOWN",
                    "SEARCHING_LOCAL", "SEARCHING_GLOBAL"},
           reliable : BOOLEAN, bad : Nat, good : Nat, count : Nat,
           correction : Corrections \cup {"none"}, force : BOOLEAN,
           wait : Nat, cooldown : Nat]

Results == [mode : {"LOCAL", "GLOBAL"}, age : Nat, current : BOOLEAN,
            found : Corrections \cup {"none"}]
Searches == [mode : {"LOCAL", "GLOBAL"}, age : Nat, current : BOOLEAN]

PoseTyped ==
    /\ loc \in Fields
    /\ queued \in Searches \cup {R!None}
    /\ running \in Searches \cup {R!None}
    /\ result \in Results \cup {R!None}

\* Inside a frame too: nobody gives the pose up and leaves the status.
StatusHasPose == safety = "pipeline" => loc.reliable

\* Until a loaded map was searched, the search stays forced.
LoadedMapIsForced == owed = "yes" => ~loc.reliable /\ loc.force

PoseIInv == PoseTyped /\ StatusHasPose /\ LoadedMapIsForced

LEMMA PoseInit == R!Init => PoseIInv
BY DEF R!Init, PoseIInv, PoseTyped, Fields, R!None, StatusHasPose,
       LoadedMapIsForced

LEMMA AgedSearch ==
    ASSUME NEW j \in Searches \cup {R!None}
    PROVE  /\ R!Aged(j) \in Searches \cup {R!None}
           /\ R!Stale(j) \in Searches \cup {R!None}
<1>1. CASE j = R!None
  BY <1>1 DEF R!Aged, R!Stale
<1>2. CASE j \in Searches
  <2>1. R!Stale(j) \in Searches \cup {R!None}
    BY <1>2 DEF R!Stale, Searches
  <2> DEFINE a == R!Least(j.age + 1, R!MaxAge(j.mode) + 1)
  <2>2. j.age \in Nat /\ R!MaxAge(j.mode) \in Nat
    BY <1>2, RelocalizationAssumption DEF Searches, R!MaxAge
  <2>3. a \in Nat
    BY <2>2 DEF R!Least
  <2>4. R!Aged(j) = R!None \/ R!Aged(j) = [j EXCEPT !.age = a]
    BY DEF R!Aged
  <2> HIDE DEF a
  <2> QED  BY <1>2, <2>1, <2>3, <2>4 DEF Searches
<1> QED  BY <1>1, <1>2

LEMMA AgedResult ==
    ASSUME NEW j \in Results \cup {R!None}
    PROVE  /\ R!Aged(j) \in Results \cup {R!None}
           /\ R!Stale(j) \in Results \cup {R!None}
<1>1. CASE j = R!None
  BY <1>1 DEF R!Aged, R!Stale
<1>2. CASE j \in Results
  <2>1. R!Stale(j) \in Results \cup {R!None}
    BY <1>2 DEF R!Stale, Results
  <2> DEFINE a == R!Least(j.age + 1, R!MaxAge(j.mode) + 1)
  <2>2. j.age \in Nat /\ R!MaxAge(j.mode) \in Nat
    BY <1>2, RelocalizationAssumption DEF Results, R!MaxAge
  <2>3. a \in Nat
    BY <2>2 DEF R!Least
  <2>4. R!Aged(j) = R!None \/ R!Aged(j) = [j EXCEPT !.age = a]
    BY DEF R!Aged
  <2> HIDE DEF a
  <2> QED  BY <1>2, <2>1, <2>3, <2>4 DEF Results
<1> QED  BY <1>1, <1>2

\* A result that is not confirmed moves neither the pose nor the force.
LEMMA ConsumedEffect ==
    ASSUME loc \in Fields, NEW r \in Results, NEW outcome
    PROVE  LET n == R!Consumed(r, outcome) IN
           /\ n \in Fields
           /\ outcome = "CONFIRMED" => n.reliable
           /\ outcome # "CONFIRMED" =>
                 n.reliable = loc.reliable /\ n.force = loc.force
<1>1. R!Confirmations(r) \in Nat /\ r.found \in Corrections \cup {"none"}
  BY DEF R!Confirmations, Fields, Results
<1>2. CASE outcome = "CONFIRMED"
  BY <1>1, <1>2 DEF R!Consumed, Fields
<1>3. CASE outcome = "CONFIRMING"
  BY <1>1, <1>3 DEF R!Consumed, Fields
<1>4. CASE outcome # "CONFIRMED" /\ outcome # "CONFIRMING"
  BY <1>1, <1>4 DEF R!Consumed, Fields
<1> QED  BY <1>2, <1>3, <1>4

LEMMA BeginFrameKeeps == ASSUME PoseIInv, R!BeginFrame PROVE PoseIInv'
<1> DEFINE r == R!Aged(result)
           ignored == r = R!None \/ R!Unwanted
           jumps == ~ignored /\ R!Outcome(r) = "CONFIRMED"
           next == IF ignored THEN loc ELSE R!Consumed(r, R!Outcome(r))
           w == R!Down(next.wait)
           c == IF jumps THEN CooldownFrames ELSE R!Down(next.cooldown)
<1>1. /\ result' = R!None
      /\ queued' = IF jumps THEN R!Stale(R!Aged(queued)) ELSE R!Aged(queued)
      /\ running' = IF jumps THEN R!Stale(R!Aged(running)) ELSE R!Aged(running)
      /\ loc' = [next EXCEPT !.wait = w, !.cooldown = c]
      /\ owed' = IF jumps THEN "no" ELSE owed
      /\ safety' = safety
  BY DEF R!BeginFrame
<1>2. /\ loc \in Fields /\ queued \in Searches \cup {R!None}
      /\ running \in Searches \cup {R!None} /\ r \in Results \cup {R!None}
  BY AgedResult DEF PoseIInv, PoseTyped
<1>3. /\ queued' \in Searches \cup {R!None}
      /\ running' \in Searches \cup {R!None}
  <2> HIDE DEF jumps
  <2> QED  BY <1>1, <1>2, AgedSearch
<1>4. /\ next \in Fields
      /\ jumps => next.reliable
      /\ ~jumps => next.reliable = loc.reliable /\ next.force = loc.force
  <2>1. CASE ignored
    BY <1>2, <2>1
  <2>2. CASE ~ignored
    <3>1. next = R!Consumed(r, R!Outcome(r)) /\ r \in Results
      BY <1>2, <2>2
    <3>2. jumps <=> R!Outcome(r) = "CONFIRMED"
      BY <2>2
    <3> HIDE DEF jumps, next
    <3> QED  BY <1>2, <3>1, <3>2, ConsumedEffect
  <2> QED  BY <2>1, <2>2
<1> HIDE DEF next, jumps
<1>5. w \in Nat /\ c \in Nat
  BY <1>4, RelocalizationAssumption DEF R!Down, Fields
<1> HIDE DEF w, c
<1>6. loc' \in Fields /\ loc'.reliable = next.reliable
      /\ loc'.force = next.force
  BY <1>1, <1>4, <1>5 DEF Fields
<1>7. StatusHasPose' /\ LoadedMapIsForced'
  BY <1>1, <1>4, <1>6 DEF PoseIInv, StatusHasPose, LoadedMapIsForced
<1> QED  BY <1>1, <1>3, <1>6, <1>7 DEF PoseIInv, PoseTyped

\* The pose is given up only together with the status, and a forced search
\* lets no healthy frame bring it back.
LEMMA UpdateRelocalizationEffect ==
    ASSUME loc \in Fields, queued \in Searches \cup {R!None},
           NEW healthy \in BOOLEAN, NEW available \in BOOLEAN,
           R!UpdateRelocalization(healthy, available)
    PROVE  /\ loc' \in Fields /\ queued' \in Searches \cup {R!None}
           /\ loc'.force = loc.force
           /\ loc.force /\ ~loc.reliable => ~loc'.reliable
<1> DEFINE c == R!Counted(healthy)
<1>1. c \in Fields /\ c.force = loc.force /\ c.reliable = loc.reliable
  <2>1. R!Least(loc.good + 1, R!NaturalRecovery) \in Nat
        /\ R!Least(loc.bad + 1, GlobalTriggerFrames) \in Nat
    BY RelocalizationAssumption DEF R!Least, R!NaturalRecovery, Fields
  <2> QED  BY <2>1 DEF R!Counted, Fields
<1>2. CASE R!CoolingDown(healthy)
  <2>1. /\ loc' = [loc EXCEPT !.bad = 0, !.good = 0,
                       !.state = IF loc.cooldown = 0 THEN "IDLE" ELSE @]
        /\ queued' = queued /\ loc.reliable
    BY <1>2 DEF R!UpdateRelocalization, R!CoolingDown
  <2> QED  BY <2>1 DEF Fields
<1>3. CASE ~R!CoolingDown(healthy) /\ healthy /\ ~loc.force
           /\ loc.state = "IDLE"
  <2>1. loc' = [c EXCEPT !.bad = 0] /\ queued' = queued
    BY <1>3 DEF R!UpdateRelocalization
  <2> HIDE DEF c
  <2> QED  BY <1>1, <1>3, <2>1 DEF Fields
<1>4. CASE ~R!CoolingDown(healthy)
           /\ ~(healthy /\ ~loc.force /\ loc.state = "IDLE")
  <2>1. CASE R!NaturallyRecovered(healthy)
    <3>1. /\ loc' = [c EXCEPT !.bad = 0, !.count = 0, !.reliable = TRUE,
                              !.state = "COOLDOWN", !.good = 0,
                              !.cooldown = CooldownFrames]
          /\ queued' = queued /\ ~loc.force
      BY <1>4, <2>1 DEF R!UpdateRelocalization, R!NaturallyRecovered
    <3> HIDE DEF c
    <3> QED  BY <1>1, <3>1, RelocalizationAssumption DEF Fields
  <2>2. CASE ~R!NaturallyRecovered(healthy) /\ ~R!MustSearch(c)
    <3>1. loc' = c /\ queued' = queued
      BY <1>4, <2>2 DEF R!UpdateRelocalization
    <3> HIDE DEF c
    <3> QED  BY <1>1, <3>1
  <2>3. CASE ~R!NaturallyRecovered(healthy) /\ R!MustSearch(c)
    <3>1. R!Lost(c, available)
      BY <1>4, <2>3 DEF R!UpdateRelocalization
    <3> HIDE DEF c
    <3> DEFINE mode == IF c.force \/ c.bad >= GlobalTriggerFrames
                       THEN "GLOBAL" ELSE "LOCAL"
               submits == running = R!None /\ c.wait = 0 /\ available
    <3>2. /\ queued' = IF submits THEN R!NewJob(mode) ELSE queued
          /\ loc' = [c EXCEPT
                       !.reliable = FALSE,
                       !.wait = IF submits THEN RequestInterval ELSE @,
                       !.state = IF ~submits THEN "DEGRADED"
                                 ELSE IF mode = "GLOBAL"
                                      THEN "SEARCHING_GLOBAL"
                                 ELSE "SEARCHING_LOCAL"]
      BY <3>1 DEF R!Lost
    <3>3. R!NewJob(mode) \in Searches
      BY DEF R!NewJob, Searches
    <3> HIDE DEF mode, submits
    <3>4. queued' \in Searches \cup {R!None}
      BY <3>2, <3>3
    <3> QED  BY <1>1, <3>2, <3>4, RelocalizationAssumption DEF Fields
  <2> QED  BY <2>1, <2>2, <2>3
<1> QED  BY <1>2, <1>3, <1>4

LEMMA EndFrameKeeps ==
    ASSUME PoseIInv, NEW health \in {"healthy", "bad", "neutral"},
           NEW available \in BOOLEAN, R!EndFrame(health, available)
    PROVE  PoseIInv'
<1>1. /\ loc' \in Fields /\ queued' \in Searches \cup {R!None}
      /\ loc'.force = loc.force
      /\ loc.force /\ ~loc.reliable => ~loc'.reliable
  <2>1. CASE health = "neutral"
    BY <2>1 DEF R!EndFrame, PoseIInv, PoseTyped
  <2>2. CASE health # "neutral"
    BY <2>2, UpdateRelocalizationEffect DEF R!EndFrame, PoseIInv, PoseTyped
  <2> QED  BY <2>1, <2>2
<1>2. UNCHANGED <<running, result, owed>>
  BY DEF R!EndFrame
<1>3. StatusHasPose'
  BY <1>1 DEF R!EndFrame, R!SafetyGate, PoseIInv, StatusHasPose
<1> QED  BY <1>1, <1>2, <1>3 DEF PoseIInv, PoseTyped, LoadedMapIsForced

LEMMA PoseStep == PoseIInv /\ [R!Next]_R!vars => PoseIInv'
<1> SUFFICES ASSUME PoseIInv, [R!Next]_R!vars PROVE PoseIInv'
  OBVIOUS
<1> USE DEF PoseIInv, StatusHasPose, LoadedMapIsForced
<1>1. ASSUME R!IdentityChanges
      PROVE  /\ queued' \in Searches \cup {R!None}
             /\ running' \in Searches \cup {R!None}
             /\ result' \in Results \cup {R!None}
  BY <1>1, AgedSearch, AgedResult DEF R!IdentityChanges, PoseTyped
<1>2. CASE R!StartSearch
  BY <1>2 DEF R!StartSearch, PoseTyped
<1>3. CASE R!FinishSearch
  <2>1. PICK found \in Corrections \cup {"none"} :
           result' = [mode |-> running.mode, age |-> running.age,
                      current |-> running.current, found |-> found]
    BY <1>3 DEF R!FinishSearch
  <2>2. running \in Searches
    BY <1>3 DEF R!FinishSearch, PoseTyped
  <2>3. result' \in Results
    BY <2>1, <2>2 DEF Results, Searches
  <2> QED  BY <1>3, <2>3 DEF R!FinishSearch, PoseTyped
<1>4. CASE R!BeginFrame
  BY <1>4, BeginFrameKeeps
<1>5. CASE \E health \in {"healthy", "bad", "neutral"},
              available \in BOOLEAN : R!EndFrame(health, available)
  BY <1>5, EndFrameKeeps
<1>6. CASE R!Relocalize
  BY <1>6 DEF R!Relocalize, PoseTyped, Fields
<1>7. CASE R!LoopClosure
  BY <1>1, <1>7 DEF R!LoopClosure, PoseTyped, Fields
<1>8. CASE R!RebuildMap
  BY <1>1, <1>8 DEF R!RebuildMap, PoseTyped
<1>9. CASE R!Reset
  BY <1>1, <1>9 DEF R!Reset, R!Restarted, PoseTyped, Fields
<1>10. CASE R!TimeRollback
  BY <1>1, <1>10 DEF R!TimeRollback, R!Restarted, PoseTyped, Fields
<1>11. CASE R!LoadMap
  BY <1>1, <1>11, RelocalizationAssumption
  DEF R!LoadMap, R!Restarted, PoseTyped, Fields
<1>12. CASE UNCHANGED R!vars
  BY <1>12 DEF R!vars, PoseTyped
<1> QED
  BY <1>2, <1>3, <1>4, <1>5, <1>6, <1>7, <1>8, <1>9, <1>10, <1>11, <1>12
  DEF R!Next

\* Whatever the trigger counts and the ages, no status of the pipeline outlives
\* the pose it was computed with, and a loaded map is not believed before a
\* search in it was confirmed (updateRelocalizationState, loadMapService).
THEOREM PoseHasEvidence == R!Spec => []NoPoseWithoutEvidence
<1>1. PoseIInv => NoPoseWithoutEvidence
  BY DEF PoseIInv, StatusHasPose, LoadedMapIsForced, NoPoseWithoutEvidence,
         R!NoPoseWithoutEvidence, R!StatusNeverOutlivesPose,
         R!LoadedMapIsSearched
<1> QED  BY PoseInit, PoseStep, <1>1, PTL DEF R!Spec

-----------------------------------------------------------------------------
(* CargoLock: what was measured of the load that is locked.                *)

Locked == [state : L!LockStates, place : Places \cup {0}, progress : Nat,
           confirm : Nat, suspended : Nat, raised : Nat, challenger : Nat,
           age : Nat, idle : Nat, seen : Nat, weak : Nat, owner : BOOLEAN,
           authority : {"none", "gravity", "raised", "suspended"},
           vertical : {"none", "direct", "median", "prediction"},
           measured : Nat, physical : Nat, trusted : Nat, rearm : Nat,
           rearmGravity : L!GravityStates]

LockTyped ==
    /\ lock \in Locked /\ gravity \in L!GravityStates
    /\ streak \in [Places -> [n : Nat, idle : Nat]]

\* A window that still runs counts no frame the row of its place has not.
InRow(l, s) ==
    l.state = "GEOMETRY_CONFIRMING" /\ l.idle < Progress =>
        /\ l.place \in Places /\ l.idle = s[l.place].idle
        /\ l.suspended <= s[l.place].n /\ l.raised <= s[l.place].n

\* A retained lock knows its height no longer than it was measured.
MeasuredAtOnce(l) ==
    L!Retained(l) =>
        l.measured = l.physical /\ l.trusted + Soft >= l.physical

LockIInv == LockTyped /\ InRow(lock, streak) /\ MeasuredAtOnce(lock)

LEMMA NoLockTyped == L!NoLock \in Locked
BY DEF L!NoLock, Locked, L!LockStates, L!GravityStates

LEMMA LockInit == L!Init => LockIInv
<1> SUFFICES ASSUME L!Init PROVE LockIInv
  OBVIOUS
<1>1. lock \in Locked /\ lock.state = "EMPTY"
  BY NoLockTyped DEF L!Init, L!NoLock
<1>2. gravity \in L!GravityStates
  BY DEF L!Init, L!GravityStates
<1>3. streak \in [Places -> [n : Nat, idle : Nat]]
  BY DEF L!Init, L!NoStreak
<1> QED
  BY <1>1, <1>2, <1>3 DEF LockIInv, LockTyped, InRow, MeasuredAtOnce,
       L!Retained

LEMMA OldIsBounded ==
    ASSUME NEW a \in Nat
    PROVE  /\ L!Old(a) \in Nat /\ L!Old(a) <= a + 1
           /\ L!Old(a) = a + 1 \/ L!Old(a) = Absolute + 1
           /\ L!Old(a) <= Absolute + 1
BY LockAssumption DEF L!Old, L!Least

\* A frame ages a lock and leaves the rest of it.
LEMMA AgedEffect ==
    ASSUME NEW l \in Locked
    PROVE  LET a == L!Aged(l) IN
           /\ a \in Locked /\ a.state = l.state /\ a.place = l.place
           /\ a.suspended = l.suspended /\ a.raised = l.raised
           /\ MeasuredAtOnce(l) => MeasuredAtOnce(a)
           /\ l.state = "GEOMETRY_CONFIRMING" => a.idle = L!Old(l.idle)
<1> DEFINE a == L!Aged(l)
<1>1. /\ l.age \in Nat /\ l.idle \in Nat /\ l.seen \in Nat
      /\ l.measured \in Nat /\ l.physical \in Nat /\ l.trusted \in Nat
      /\ l.rearm \in Nat /\ l.state \in L!LockStates
  BY DEF Locked
<1>2. /\ L!Old(l.age) \in Nat /\ L!Old(l.idle) \in Nat
      /\ L!Old(l.seen) \in Nat /\ L!Old(l.measured) \in Nat
      /\ L!Old(l.physical) \in Nat /\ L!Old(l.trusted) \in Nat
      /\ L!Old(l.rearm) \in Nat
  BY <1>1, OldIsBounded
<1>3. CASE l.state \in {"CANDIDATE", "GEOMETRY_CONFIRMING"}
  <2>1. a = [l EXCEPT !.age = L!Old(l.age), !.idle = L!Old(l.idle)]
    BY <1>3 DEF L!Aged, L!Retained
  <2> HIDE DEF a
  <2>2. /\ a \in Locked /\ a.state = l.state /\ a.place = l.place
        /\ a.suspended = l.suspended /\ a.raised = l.raised
        /\ a.idle = L!Old(l.idle)
    BY <1>2, <2>1 DEF Locked
  <2> QED  BY <1>3, <2>2 DEF MeasuredAtOnce, L!Retained, a
<1>4. CASE L!Retained(l)
  <2>1. a = [l EXCEPT !.seen = L!Old(l.seen), !.measured = L!Old(l.measured),
                      !.physical = L!Old(l.physical),
                      !.trusted = L!Old(l.trusted)]
    BY <1>4 DEF L!Aged, L!Retained
  <2> HIDE DEF a
  <2>2. /\ a \in Locked /\ a.state = l.state /\ a.place = l.place
        /\ a.suspended = l.suspended /\ a.raised = l.raised
        /\ a.measured = L!Old(l.measured) /\ a.physical = L!Old(l.physical)
        /\ a.trusted = L!Old(l.trusted)
    BY <1>2, <2>1 DEF Locked
  <2>3. MeasuredAtOnce(l) => MeasuredAtOnce(a)
    <3>1. l.trusted + Soft >= l.physical =>
            L!Old(l.trusted) + Soft >= L!Old(l.physical)
      BY <1>1, LockAssumption DEF L!Old, L!Least
    <3> QED  BY <1>4, <2>2, <3>1 DEF MeasuredAtOnce
  <2> QED  BY <1>4, <2>2, <2>3 DEF L!Retained, a
<1>5. CASE l.state = "CLEAR_WAIT_REARM"
  <2>1. a = [l EXCEPT !.rearm = L!Old(l.rearm)]
    BY <1>5 DEF L!Aged, L!Retained
  <2> HIDE DEF a
  <2>2. /\ a \in Locked /\ a.state = l.state /\ a.place = l.place
        /\ a.suspended = l.suspended /\ a.raised = l.raised
    BY <1>2, <2>1 DEF Locked
  <2> QED  BY <1>5, <2>2 DEF MeasuredAtOnce, L!Retained, a
<1>6. CASE /\ l.state \notin {"CANDIDATE", "GEOMETRY_CONFIRMING"}
           /\ ~L!Retained(l) /\ l.state # "CLEAR_WAIT_REARM"
  BY <1>6 DEF L!Aged
<1> QED  BY <1>3, <1>4, <1>5, <1>6

\* updateLiveCargoPose makes no height younger than it was measured.
LEMMA LivePoseEffect ==
    ASSUME NEW l \in Locked, NEW det
    PROVE  LET p == L!LivePose(l, det) IN
           /\ p \in Locked /\ p.state = l.state /\ p.place = l.place
           /\ p.authority = l.authority /\ p.confirm = l.confirm
           /\ p.physical \in {0, l.physical}
           /\ l.measured = l.physical /\ l.trusted + Soft >= l.physical =>
                 p.measured = p.physical /\ p.trusted + Soft >= p.physical
<1> DEFINE m == IF det.height
                THEN [l EXCEPT !.vertical = "direct", !.measured = 0,
                               !.physical = 0]
                ELSE IF l.vertical = "median" /\ l.measured <= Soft THEN l
                ELSE [l EXCEPT !.vertical = "prediction"]
           p == L!LivePose(l, det)
<1>1. /\ m \in Locked /\ m.state = l.state /\ m.place = l.place
      /\ m.authority = l.authority /\ m.confirm = l.confirm
      /\ m.trusted = l.trusted
      /\ \/ m.measured = 0 /\ m.physical = 0
         \/ m.vertical \in {"median", "prediction"}
            /\ m.measured = l.measured /\ m.physical = l.physical
      /\ m.vertical = "median" => m.measured <= Soft
  BY DEF Locked
<1>2. \/ p = m /\ m.vertical \notin {"direct", "median"}
      \/ p = [m EXCEPT !.trusted = 0] /\ m.vertical \in {"direct", "median"}
  BY DEF L!LivePose, L!Remember
<1> HIDE DEF m, p
<1>3. /\ p \in Locked /\ p.state = m.state /\ p.place = m.place
      /\ p.authority = m.authority /\ p.confirm = m.confirm
      /\ p.measured = m.measured /\ p.physical = m.physical
      /\ \/ p.trusted = m.trusted /\ m.vertical \notin {"direct", "median"}
         \/ p.trusted = 0 /\ m.vertical \in {"direct", "median"}
  BY <1>1, <1>2 DEF Locked
<1>4. l.physical \in Nat /\ p.trusted \in Nat
  BY <1>3 DEF Locked
<1> QED  BY <1>1, <1>3, <1>4, LockAssumption DEF p

-----------------------------------------------------------------------------
(* What an update makes of the lock.                                       *)

\* No window: whatever was counted no longer matters.
Neutral(n) ==
    n \in Locked /\ n.state # "GEOMETRY_CONFIRMING" /\ MeasuredAtOnce(n)

\* The detection is the first frame of a window.
Begun(n, det) ==
    /\ n \in Locked /\ n.state = "GEOMETRY_CONFIRMING" /\ L!Formal(det)
    /\ n.place = det.place /\ n.idle = 0 /\ n.raised = 0
    /\ n.suspended = 0 \/ (n.suspended = 1 /\ det.hangs # "ground")

\* The window goes on without this detection.
Kept(n, l, det) ==
    /\ n \in Locked /\ l.state = "GEOMETRY_CONFIRMING"
    /\ n.state = "GEOMETRY_CONFIRMING" /\ l.idle < Progress
    /\ ~(L!Formal(det) /\ det.place = l.place)
    /\ n.place = l.place /\ n.idle = l.idle
    /\ n.suspended = l.suspended /\ n.raised = l.raised

\* The detection is one more frame of a window that still runs.
More(k, old, det) ==
    k = 0 \/ (k <= old + 1 /\ k <= Suspension /\ det.hangs # "ground")
Counted(n, l, det) ==
    /\ n \in Locked /\ l.state = "GEOMETRY_CONFIRMING"
    /\ n.state = "GEOMETRY_CONFIRMING" /\ l.idle < Progress
    /\ L!Formal(det) /\ det.place = l.place /\ n.place = l.place /\ n.idle = 0
    /\ More(n.suspended, l.suspended, det) /\ More(n.raised, l.raised, det)

\* The lock is taken, by gravity or by what this window counted.
Taken(n, l, det) ==
    /\ Neutral(n) /\ l.state = "GEOMETRY_CONFIRMING" /\ l.idle < Progress
    /\ n.state = "LOCKED" /\ L!Formal(det)
    /\ det.place = l.place /\ n.place = l.place
    /\ n.authority \in {"raised", "suspended"} =>
          \E k \in Nat : /\ k >= Suspension
                        /\ \/ More(k, l.suspended, det)
                           \/ More(k, l.raised, det)

LEMMA WindowEffect ==
    ASSUME NEW l \in Locked, NEW det \in Detections, L!Formal(det)
    PROVE  Begun(L!Window(l, det), det)
<1> DEFINE k == IF det.hangs = "suspended" THEN 1 ELSE 0
           w == [l EXCEPT !.state = "GEOMETRY_CONFIRMING", !.confirm = 1,
                          !.idle = 0, !.suspended = k, !.raised = 0,
                          !.challenger = 0, !.place = det.place]
<1>1. L!Window(l, det) = w
  BY DEF L!Window
<1>2. det.place \in Places /\ "GEOMETRY_CONFIRMING" \in L!LockStates
  BY LockAssumption DEF L!LockStates
<1>3. k \in Nat /\ (k = 0 \/ (k = 1 /\ det.hangs # "ground"))
  OBVIOUS
<1> HIDE DEF k
<1>4. /\ w \in Locked /\ w.state = "GEOMETRY_CONFIRMING"
      /\ w.place = det.place /\ w.idle = 0 /\ w.raised = 0
      /\ w.suspended = k
  BY <1>2, <1>3 DEF Locked
<1> HIDE DEF w
<1> QED  BY <1>1, <1>3, <1>4 DEF Begun

LEMMA FromEmptyEffect ==
    ASSUME NEW l \in Locked, l.state = "EMPTY", NEW g, NEW det \in Detections
    PROVE  Neutral(L!FromEmpty(l, g, det))
<1> DEFINE n == [L!NoLock EXCEPT !.state = "CANDIDATE", !.progress = 1,
                                 !.place = det.place]
<1>1. det.place \in Places
  BY LockAssumption
<1>2. n \in Locked /\ n.state = "CANDIDATE"
  BY <1>1, NoLockTyped DEF Locked, L!LockStates
<1>3. L!FromEmpty(l, g, det) = n \/ L!FromEmpty(l, g, det) = l
  BY DEF L!FromEmpty
<1> HIDE DEF n
<1> QED  BY <1>2, <1>3 DEF Neutral, MeasuredAtOnce, L!Retained

LEMMA ClearedIsNeutral ==
    ASSUME NEW l PROVE Neutral(L!ClearLock(l))
BY NoLockTyped DEF L!ClearLock, Neutral, MeasuredAtOnce, L!Retained, L!NoLock

LEMMA FromCandidateEffect ==
    ASSUME NEW l \in Locked, l.state = "CANDIDATE", NEW g,
           NEW det \in Detections
    PROVE  LET n == L!FromCandidate(l, g, det) IN
           Neutral(n) \/ Begun(n, det)
<1> DEFINE consistent == L!Formal(det) /\ det.place = l.place
           more == L!Least(2, l.progress + 1)
           counted == IF consistent
                      THEN [l EXCEPT !.progress = more, !.idle = 0] ELSE l
           again == [counted EXCEPT !.progress = 1, !.idle = 0,
                                    !.place = det.place]
           n == L!FromCandidate(l, g, det)
<1>1. det.place \in Places /\ l.progress \in Nat
  BY LockAssumption DEF Locked
<1>2. more \in Nat
  BY <1>1 DEF L!Least
<1>3. \/ n = L!ClearLock(l) \/ n = L!ClearLock(counted)
      \/ consistent /\ n = L!Window(counted, det)
      \/ n = counted \/ n = again
  BY DEF L!FromCandidate, L!ClearLock
<1> HIDE DEF more
<1>4. counted \in Locked /\ counted.state = "CANDIDATE"
  BY <1>2 DEF Locked
<1> HIDE DEF counted, n
<1>5. again \in Locked /\ again.state = "CANDIDATE"
  BY <1>1, <1>4 DEF Locked
<1> HIDE DEF again
<1>6. CASE n = L!ClearLock(l) \/ n = L!ClearLock(counted)
  BY <1>6, ClearedIsNeutral DEF n
<1>7. CASE consistent /\ n = L!Window(counted, det)
  BY <1>4, <1>7, WindowEffect DEF n
<1>8. CASE n = counted \/ n = again
  <2>1. n \in Locked /\ n.state = "CANDIDATE"
    BY <1>4, <1>5, <1>8
  <2> QED  BY <2>1 DEF Neutral, MeasuredAtOnce, L!Retained, n
<1> QED  BY <1>3, <1>6, <1>7, <1>8

LEMMA LocksEffect ==
    ASSUME NEW l, NEW det \in Detections,
           NEW a \in {"gravity", "raised", "suspended"}
    PROVE  LET n == L!Locks(l, det, a) IN
           /\ Neutral(n) /\ n.state = "LOCKED" /\ n.authority = a
           /\ n.place = det.place
<1> DEFINE e == [L!NoLock EXCEPT !.state = "LOCKED", !.authority = a,
                                 !.owner = TRUE, !.place = det.place]
           posed == L!LivePose(e, det)
           n == L!Locks(l, det, a)
<1>1. det.place \in Places
  BY LockAssumption
<1>2. L!NoLock \in Locked /\ L!NoLock.measured = 0 /\ L!NoLock.physical = 0
      /\ L!NoLock.trusted = 0
  BY NoLockTyped DEF L!NoLock
<1>3. /\ e \in Locked /\ e.state = "LOCKED" /\ e.authority = a
      /\ e.place = det.place /\ e.measured = 0 /\ e.physical = 0
      /\ e.trusted = 0
  BY <1>1, <1>2 DEF Locked, L!LockStates
<1>4. \/ n = posed
      \/ n = [[posed EXCEPT !.vertical = "median"] EXCEPT !.trusted = 0]
  BY DEF L!Locks, L!Remember
<1> HIDE DEF e, n
<1>5. /\ posed \in Locked /\ posed.state = "LOCKED" /\ posed.authority = a
      /\ posed.place = det.place /\ posed.measured = 0
      /\ posed.physical = 0
  BY <1>3, LivePoseEffect, LockAssumption
<1> HIDE DEF posed
<1>6. /\ n \in Locked /\ n.state = "LOCKED" /\ n.authority = a
      /\ n.place = det.place /\ n.measured = 0 /\ n.physical = 0
  BY <1>4, <1>5 DEF Locked
<1>7. n.trusted \in Nat
  BY <1>6 DEF Locked
<1> QED
  BY <1>6, <1>7, LockAssumption DEF Neutral, MeasuredAtOnce, n

LEMMA ConfirmedEffect ==
    ASSUME NEW l \in Locked, l.state = "GEOMETRY_CONFIRMING",
           l.idle < Progress, NEW g \in L!GravityStates,
           NEW det \in Detections, L!Formal(det), det.place = l.place,
           NEW owner
    PROVE  LET n == L!Confirmed(l, g, det, owner) IN
           Counted(n, l, det) \/ Taken(n, l, det)
<1> DEFINE more == L!Least(Suspension, l.confirm + 1)
           s == IF det.hangs = "suspended"
                THEN L!Least(Suspension, l.suspended + 1) ELSE 0
           r == IF det.hangs = "raised"
                THEN L!Least(Suspension, l.raised + 1) ELSE 0
           c == [l EXCEPT !.challenger = 0, !.confirm = more, !.idle = 0,
                          !.suspended = s, !.raised = r]
           a == L!Authority(g, c)
           n == L!Confirmed(l, g, det, owner)
<1>1. l.confirm \in Nat /\ l.suspended \in Nat /\ l.raised \in Nat
  BY DEF Locked
<1>2. /\ more \in Nat /\ s \in Nat /\ r \in Nat
      /\ More(s, l.suspended, det) /\ More(r, l.raised, det)
  BY <1>1, LockAssumption DEF L!Least, More
<1>3. n = c \/ (a # "none" /\ n = L!Locks(c, det, a))
  BY DEF L!Confirmed
<1> HIDE DEF more, s, r
<1>4. /\ c \in Locked /\ c.state = "GEOMETRY_CONFIRMING" /\ c.idle = 0
      /\ c.place = l.place /\ c.suspended = s /\ c.raised = r
  BY <1>2 DEF Locked
<1>5. Counted(c, l, det)
  <2> HIDE DEF c
  <2> QED  BY <1>2, <1>4 DEF Counted
<1> HIDE DEF c
<1>6. /\ a \in {"none", "gravity", "raised", "suspended"}
      /\ a = "raised" => c.raised >= Suspension
      /\ a = "suspended" => c.suspended >= Suspension
  BY DEF L!Authority
<1> HIDE DEF a, n
<1>7. CASE n = c
  BY <1>5, <1>7 DEF n
<1>8. CASE a # "none" /\ n = L!Locks(c, det, a)
  <2>1. /\ Neutral(n) /\ n.state = "LOCKED" /\ n.authority = a
        /\ n.place = det.place
    BY <1>6, <1>8, LocksEffect
  <2>2. n.authority \in {"raised", "suspended"} =>
          \E k \in Nat : /\ k >= Suspension
                        /\ \/ More(k, l.suspended, det)
                           \/ More(k, l.raised, det)
    <3>1. CASE a = "raised"
      BY <1>2, <1>4, <1>6, <3>1
    <3>2. CASE a = "suspended"
      BY <1>2, <1>4, <1>6, <3>2
    <3> QED  BY <2>1, <3>1, <3>2
  <2> QED  BY <2>1, <2>2 DEF Taken, n
<1> QED  BY <1>3, <1>7, <1>8

LEMMA ChallengedEffect ==
    ASSUME NEW l \in Locked, l.state = "GEOMETRY_CONFIRMING",
           l.idle < Progress, NEW det \in Detections, L!Formal(det),
           det.place # l.place
    PROVE  LET n == L!Challenged(l, det) IN
           Kept(n, l, det) \/ Begun(n, det)
<1> DEFINE more == L!Least(Switch, l.challenger + 1)
           c == [l EXCEPT !.challenger = more]
           w == L!Window(c, det)
           n == L!Challenged(l, det)
<1>1. l.challenger \in Nat
  BY DEF Locked
<1>2. more \in Nat
  BY <1>1, LockAssumption DEF L!Least
<1>3. n = c \/ n = [w EXCEPT !.suspended = 0]
  BY DEF L!Challenged
<1> HIDE DEF more, n
<1>4. /\ c \in Locked /\ c.state = l.state /\ c.place = l.place
      /\ c.idle = l.idle /\ c.suspended = l.suspended
      /\ c.raised = l.raised
  BY <1>2 DEF Locked
<1> HIDE DEF c
<1>5. Begun(w, det)
  BY <1>4, WindowEffect
<1> HIDE DEF w
<1>6. CASE n = c
  BY <1>4, <1>6 DEF Kept, n
<1>7. CASE n = [w EXCEPT !.suspended = 0]
  BY <1>5, <1>7 DEF Begun, Locked, n
<1> QED  BY <1>3, <1>6, <1>7

LEMMA FromConfirmingEffect ==
    ASSUME NEW l \in Locked, l.state = "GEOMETRY_CONFIRMING",
           NEW g \in L!GravityStates, NEW det \in Detections, NEW owner
    PROVE  LET n == L!FromConfirming(l, g, det, owner) IN
           \/ Neutral(n) /\ n.state = "CANDIDATE"
           \/ Begun(n, det) \/ Kept(n, l, det)
           \/ Counted(n, l, det) \/ Taken(n, l, det)
<1> DEFINE n == L!FromConfirming(l, g, det, owner)
<1>0. l.place \in Places \cup {0} /\ l.idle \in Nat /\ Progress \in Nat
  BY LockAssumption DEF Locked
<1>1. CASE ~L!AllowCandidate(g)
  <2>1. n = [l EXCEPT !.state = "CANDIDATE", !.confirm = 0]
    BY <1>1 DEF L!FromConfirming
  <2> HIDE DEF n
  <2>2. n \in Locked /\ n.state = "CANDIDATE"
    BY <2>1 DEF Locked, L!LockStates
  <2> QED  BY <2>2 DEF Neutral, MeasuredAtOnce, L!Retained, n
<1>2. CASE L!AllowCandidate(g) /\ ~L!Formal(det)
  <2>1. CASE l.idle >= Progress
    <3>1. n = [L!NoLock EXCEPT !.state = "CANDIDATE", !.place = l.place]
      BY <1>2, <2>1 DEF L!FromConfirming
    <3> HIDE DEF n
    <3>2. n \in Locked /\ n.state = "CANDIDATE"
      BY <1>0, <3>1, NoLockTyped DEF Locked, L!LockStates
    <3> QED  BY <3>2 DEF Neutral, MeasuredAtOnce, L!Retained, n
  <2>2. CASE ~(l.idle >= Progress)
    <3>1. n = l
      BY <1>2, <2>2 DEF L!FromConfirming
    <3> HIDE DEF n
    <3>2. l.idle < Progress
      BY <1>0, <2>2
    <3> QED  BY <1>2, <3>1, <3>2 DEF Kept, n
  <2> QED  BY <2>1, <2>2
<1>3. CASE L!AllowCandidate(g) /\ L!Formal(det) /\ l.idle >= Progress
  <2> DEFINE w == L!Window(l, det)
  <2>1. n = [w EXCEPT !.age = 0, !.progress = 1]
    BY <1>0, <1>3 DEF L!FromConfirming
  <2>2. Begun(w, det)
    BY <1>3, WindowEffect
  <2> HIDE DEF n, w
  <2>3. /\ n \in Locked /\ n.state = w.state /\ n.place = w.place
        /\ n.idle = w.idle /\ n.raised = w.raised
        /\ n.suspended = w.suspended
    BY <2>1, <2>2 DEF Begun, Locked
  <2> QED  BY <2>2, <2>3 DEF Begun, n
<1>4. CASE L!AllowCandidate(g) /\ L!Formal(det) /\ ~(l.idle >= Progress)
  <2>1. l.idle < Progress
    BY <1>0, <1>4
  <2>2. n = IF det.place # l.place THEN L!Challenged(l, det)
            ELSE L!Confirmed(l, g, det, owner)
    BY <1>4, <2>1 DEF L!FromConfirming
  <2> HIDE DEF n
  <2> QED  BY <1>4, <2>1, <2>2, ChallengedEffect, ConfirmedEffect DEF n
<1> QED  BY <1>1, <1>2, <1>3, <1>4

LEMMA FromLockedEffect ==
    ASSUME NEW l \in Locked, l.state = "LOCKED", MeasuredAtOnce(l), NEW g,
           NEW det, NEW owner
    PROVE  Neutral(L!FromLocked(l, g, det, owner))
<1> DEFINE s == [l EXCEPT !.seen = 0]
           p == L!LivePose(s, det)
           lost == [l EXCEPT !.state = "LOST_HOLD", !.confirm = 0]
           n == L!FromLocked(l, g, det, owner)
<1>1. n = p \/ n = lost \/ n = l
  BY DEF L!FromLocked
<1>2. l.measured = l.physical /\ l.trusted + Soft >= l.physical
  BY DEF MeasuredAtOnce, L!Retained
<1>3. /\ s \in Locked /\ s.state = "LOCKED" /\ s.measured = l.measured
      /\ s.physical = l.physical /\ s.trusted = l.trusted
  BY DEF Locked
<1>4. /\ lost \in Locked /\ lost.state = "LOST_HOLD"
      /\ lost.measured = l.measured /\ lost.physical = l.physical
      /\ lost.trusted = l.trusted
  BY DEF Locked, L!LockStates
<1> HIDE DEF s, lost
<1>5. /\ p \in Locked /\ p.state = "LOCKED" /\ p.measured = p.physical
      /\ p.trusted + Soft >= p.physical
  BY <1>2, <1>3, LivePoseEffect
<1> HIDE DEF p, n
<1>6. /\ n \in Locked /\ n.state \in {"LOCKED", "LOST_HOLD"}
      /\ n.measured = n.physical /\ n.trusted + Soft >= n.physical
  BY <1>1, <1>2, <1>4, <1>5
<1> QED  BY <1>6 DEF Neutral, MeasuredAtOnce, n

LEMMA FromLostHoldEffect ==
    ASSUME NEW l \in Locked, l.state = "LOST_HOLD", MeasuredAtOnce(l),
           NEW g \in L!GravityStates, NEW det
    PROVE  Neutral(L!FromLostHold(l, g, det))
<1> DEFINE s == [l EXCEPT !.seen = 0, !.confirm = l.confirm + 1]
           p == L!LivePose(s, det)
           back == [p EXCEPT !.state = "LOCKED", !.confirm = 0]
           clear == [L!NoLock EXCEPT !.state = "CLEAR_WAIT_REARM",
                                     !.rearmGravity = g]
           stay == [l EXCEPT !.confirm = 0]
           n == L!FromLostHold(l, g, det)
<1>1. n = p \/ n = back \/ n = clear \/ n = stay
  BY DEF L!FromLostHold, L!ClearLock
<1>2. l.measured = l.physical /\ l.trusted + Soft >= l.physical
  BY DEF MeasuredAtOnce, L!Retained
<1>3. l.confirm + 1 \in Nat
  <2>1. l.confirm \in Nat
    BY DEF Locked
  <2> QED  BY <2>1
<1>4. /\ s \in Locked /\ s.state = "LOST_HOLD" /\ s.measured = l.measured
      /\ s.physical = l.physical /\ s.trusted = l.trusted
  BY <1>3 DEF Locked
<1>5. /\ stay \in Locked /\ stay.state = "LOST_HOLD"
      /\ stay.measured = l.measured /\ stay.physical = l.physical
      /\ stay.trusted = l.trusted
  BY DEF Locked
<1>6. clear \in Locked /\ clear.state = "CLEAR_WAIT_REARM"
  BY NoLockTyped DEF Locked, L!LockStates
<1> HIDE DEF s, stay, clear
<1>7. /\ p \in Locked /\ p.state = "LOST_HOLD" /\ p.measured = p.physical
      /\ p.trusted + Soft >= p.physical
  BY <1>2, <1>4, LivePoseEffect
<1> HIDE DEF p
<1>8. /\ back \in Locked /\ back.state = "LOCKED"
      /\ back.measured = p.measured /\ back.physical = p.physical
      /\ back.trusted = p.trusted
  BY <1>7 DEF Locked, L!LockStates
<1> HIDE DEF back, n
<1>9. CASE n = p \/ n = back \/ n = stay
  <2>1. /\ n \in Locked /\ n.state \in {"LOCKED", "LOST_HOLD"}
        /\ n.measured = n.physical /\ n.trusted + Soft >= n.physical
    BY <1>2, <1>5, <1>7, <1>8, <1>9
  <2> QED  BY <2>1 DEF Neutral, MeasuredAtOnce, n
<1>10. CASE n = clear
  BY <1>6, <1>10 DEF Neutral, MeasuredAtOnce, L!Retained, n
<1> QED  BY <1>1, <1>9, <1>10

LEMMA FromClearEffect ==
    ASSUME NEW l \in Locked, l.state = "CLEAR_WAIT_REARM", NEW g,
           NEW det \in Detections
    PROVE  Neutral(L!FromClear(l, g, det))
<1> DEFINE again == [l EXCEPT !.state = "LOADED_REACQUIRE", !.confirm = 1,
                              !.weak = 0, !.place = det.place, !.rearm = 0]
           n == L!FromClear(l, g, det)
<1>1. n = again \/ n = L!NoLock \/ n = l
  BY DEF L!FromClear
<1>2. det.place \in Places
  BY LockAssumption
<1>3. again \in Locked /\ again.state = "LOADED_REACQUIRE"
  BY <1>2 DEF Locked, L!LockStates
<1>4. L!NoLock \in Locked /\ L!NoLock.state = "EMPTY"
  BY NoLockTyped DEF L!NoLock
<1> HIDE DEF again, n
<1>5. n \in Locked /\ n.state \in {"LOADED_REACQUIRE", "EMPTY",
                                   "CLEAR_WAIT_REARM"}
  BY <1>1, <1>3, <1>4
<1> QED  BY <1>5 DEF Neutral, MeasuredAtOnce, L!Retained, n

LEMMA FromReacquireEffect ==
    ASSUME NEW l \in Locked, l.state = "LOADED_REACQUIRE", NEW g, NEW det
    PROVE  Neutral(L!FromReacquire(l, g, det))
<1> DEFINE wait == [l EXCEPT !.state = "CLEAR_WAIT_REARM", !.confirm = 0,
                             !.rearm = 0]
           weak == [l EXCEPT !.weak = l.weak + 1, !.confirm = 0]
           gone == [wait EXCEPT !.weak = 0]
           more == [l EXCEPT !.weak = 0, !.confirm = l.confirm + 1]
           base == [L!NoLock EXCEPT
                      !.state = "LOCKED", !.place = l.place,
                      !.confirm = l.confirm + 1, !.measured = Absolute + 1,
                      !.physical = Absolute + 1, !.trusted = Absolute + 1]
           p == L!LivePose(base, det)
           n == L!FromReacquire(l, g, det)
<1>1. n = wait \/ n = gone \/ n = weak \/ n = more \/ n = p
  BY DEF L!FromReacquire
<1>2. /\ l.confirm \in Nat /\ l.weak \in Nat
      /\ l.place \in Places \cup {0}
  BY DEF Locked
<1>3. l.confirm + 1 \in Nat /\ l.weak + 1 \in Nat /\ Absolute + 1 \in Nat
  BY <1>2, LockAssumption
<1>4. wait \in Locked /\ wait.state = "CLEAR_WAIT_REARM"
  BY DEF Locked, L!LockStates
<1>5. weak \in Locked /\ weak.state = "LOADED_REACQUIRE"
  BY <1>3 DEF Locked
<1>6. more \in Locked /\ more.state = "LOADED_REACQUIRE"
  BY <1>3 DEF Locked
<1>7. /\ base \in Locked /\ base.state = "LOCKED"
      /\ base.measured = Absolute + 1 /\ base.physical = Absolute + 1
      /\ base.trusted = Absolute + 1
  BY <1>2, <1>3, NoLockTyped DEF Locked, L!LockStates
<1> HIDE DEF wait, weak, more, base
<1>8. gone \in Locked /\ gone.state = "CLEAR_WAIT_REARM"
  BY <1>4 DEF Locked
<1>9. /\ p \in Locked /\ p.state = "LOCKED" /\ p.measured = p.physical
      /\ p.trusted + Soft >= p.physical
  BY <1>3, <1>7, LivePoseEffect, LockAssumption
<1> HIDE DEF gone, p, n
<1>10. CASE n = p
  BY <1>9, <1>10 DEF Neutral, MeasuredAtOnce, n
<1>11. CASE n # p
  <2>1. n \in Locked /\ n.state \in {"CLEAR_WAIT_REARM", "LOADED_REACQUIRE"}
    BY <1>1, <1>4, <1>5, <1>6, <1>8, <1>11
  <2> QED  BY <2>1 DEF Neutral, MeasuredAtOnce, L!Retained, n
<1> QED  BY <1>10, <1>11

\* The lock after an update, seen from the lock a frame older.
LEMMA UpdateLockEffect ==
    ASSUME LockIInv, NEW det \in Detections, NEW owner
    PROVE  LET l == L!Aged(lock)
               n == L!UpdateLock(gravity, det, owner)
           IN \/ Neutral(n) /\ ~(lock.state = "GEOMETRY_CONFIRMING"
                                 /\ n.state = "LOCKED")
              \/ Begun(n, det) /\ ~L!Retained(lock)
              \/ Kept(n, l, det) \/ Counted(n, l, det) \/ Taken(n, l, det)
<1> DEFINE l == L!Aged(lock)
           n == L!UpdateLock(gravity, det, owner)
<1>1. gravity \in L!GravityStates /\ lock \in Locked /\ MeasuredAtOnce(lock)
  BY DEF LockIInv, LockTyped
<1>2. l \in Locked /\ l.state = lock.state /\ MeasuredAtOnce(l)
  BY <1>1, AgedEffect
<1> HIDE DEF l
<1>3. CASE l.state = "EMPTY"
  <2>1. n = L!FromEmpty(l, gravity, det)
    BY <1>3 DEF L!UpdateLock, l
  <2> HIDE DEF n
  <2> QED  BY <1>2, <1>3, <2>1, FromEmptyEffect DEF n, l
<1>4. CASE l.state = "CANDIDATE"
  <2>1. n = L!FromCandidate(l, gravity, det)
    BY <1>4 DEF L!UpdateLock, l
  <2> HIDE DEF n
  <2> QED
    BY <1>2, <1>4, <2>1, FromCandidateEffect DEF n, l, L!Retained
<1>5. CASE l.state = "GEOMETRY_CONFIRMING"
  <2>1. n = L!FromConfirming(l, gravity, det, owner)
    BY <1>5 DEF L!UpdateLock, l
  <2> HIDE DEF n
  <2>2. \/ Neutral(n) /\ n.state = "CANDIDATE"
        \/ Begun(n, det) \/ Kept(n, l, det)
        \/ Counted(n, l, det) \/ Taken(n, l, det)
    BY <1>1, <1>2, <1>5, <2>1, FromConfirmingEffect
  <2>3. ~L!Retained(lock)
    BY <1>2, <1>5 DEF L!Retained
  <2>4. n.state = "CANDIDATE" => n.state # "LOCKED"
    OBVIOUS
  <2> QED  BY <2>2, <2>3, <2>4 DEF n, l
<1>6. CASE l.state = "LOCKED"
  <2>1. n = L!FromLocked(l, gravity, det, owner)
    BY <1>6 DEF L!UpdateLock, l
  <2> HIDE DEF n
  <2> QED  BY <1>2, <1>6, <2>1, FromLockedEffect DEF n, l
<1>7. CASE l.state = "LOST_HOLD"
  <2>1. n = L!FromLostHold(l, gravity, det)
    BY <1>7 DEF L!UpdateLock, l
  <2> HIDE DEF n
  <2> QED  BY <1>1, <1>2, <1>7, <2>1, FromLostHoldEffect DEF n, l
<1>8. CASE l.state = "CLEAR_WAIT_REARM"
  <2>1. n = L!FromClear(l, gravity, det)
    BY <1>8 DEF L!UpdateLock, l
  <2> HIDE DEF n
  <2> QED  BY <1>2, <1>8, <2>1, FromClearEffect DEF n, l
<1>9. CASE l.state = "LOADED_REACQUIRE"
  <2>1. n = L!FromReacquire(l, gravity, det)
    BY <1>9 DEF L!UpdateLock, l
  <2> HIDE DEF n
  <2> QED  BY <1>2, <1>9, <2>1, FromReacquireEffect DEF n, l
<1>10. l.state \in L!LockStates
  BY <1>2 DEF Locked
<1> QED
  BY <1>3, <1>4, <1>5, <1>6, <1>7, <1>8, <1>9, <1>10 DEF L!LockStates

-----------------------------------------------------------------------------
(* The rows of the places.                                                 *)

Rows == [n : Nat, idle : Nat]

LEMMA UnseenEffect ==
    ASSUME NEW s \in Rows
    PROVE  /\ L!Unseen(s) \in Rows
           /\ s.idle + 1 < Progress =>
                 L!Unseen(s).n = s.n /\ L!Unseen(s).idle = s.idle + 1
<1>1. s.idle \in Nat /\ s.idle + 1 \in Nat
  <2>1. s.idle \in Nat
    BY DEF Rows
  <2> QED  BY <2>1
<1> QED  BY <1>1, LockAssumption DEF L!Unseen, L!NoStreak, Rows

LEMMA StreakEffect ==
    ASSUME NEW s \in Rows, NEW det, NEW p
    PROVE  LET t == L!Streak(s, det, p) IN
           /\ t \in Rows
           /\ ~(L!Formal(det) /\ det.place = p) => t = L!Unseen(s)
           /\ L!Formal(det) /\ det.place = p =>
                 /\ t.idle = 0
                 /\ det.hangs # "ground" => t.n >= 1
                 /\ det.hangs # "ground" /\ s.idle + 1 < Progress =>
                       t.n = L!Least(Suspension, s.n + 1)
<1> DEFINE m == IF det.hangs = "ground" THEN 0
                ELSE IF s.idle + 1 >= Progress THEN 1
                ELSE L!Least(Suspension, s.n + 1)
           t == L!Streak(s, det, p)
<1>1. s.n \in Nat /\ s.idle \in Nat
  BY DEF Rows
<1>2. /\ m \in Nat
      /\ det.hangs # "ground" => m >= 1
      /\ det.hangs # "ground" /\ s.idle + 1 < Progress =>
            m = L!Least(Suspension, s.n + 1)
  BY <1>1, LockAssumption DEF L!Least
<1>3. CASE L!Formal(det) /\ det.place = p
  <2>1. t = [n |-> m, idle |-> 0]
    BY <1>3 DEF L!Streak
  <2> HIDE DEF m, t
  <2>2. t \in Rows /\ t.n = m /\ t.idle = 0
    BY <1>2, <2>1 DEF Rows
  <2> QED  BY <1>2, <1>3, <2>2 DEF t
<1>4. CASE ~(L!Formal(det) /\ det.place = p)
  <2>1. t = L!Unseen(s)
    BY <1>4 DEF L!Streak
  <2> HIDE DEF t
  <2> QED  BY <1>4, <2>1, UnseenEffect DEF t
<1> QED  BY <1>3, <1>4

\* What a frame more of a window counts, the row of its place counts too.
LEMMA RowKeepsUp ==
    ASSUME NEW s \in Rows, NEW det, NEW k \in Nat, NEW old \in Nat,
           old <= s.n, s.idle + 1 < Progress, More(k, old, det),
           L!Formal(det)
    PROVE  L!Streak(s, det, det.place).n >= k
<1>1. L!Streak(s, det, det.place) \in Rows
  BY StreakEffect
<1>2. L!Streak(s, det, det.place).n \in Nat /\ s.n \in Nat
  BY <1>1 DEF Rows
<1>3. CASE k = 0
  BY <1>2, <1>3
<1>4. CASE k <= old + 1 /\ k <= Suspension /\ det.hangs # "ground"
  <2>1. L!Streak(s, det, det.place).n = L!Least(Suspension, s.n + 1)
    BY <1>4, StreakEffect
  <2> QED  BY <1>2, <1>4, <2>1, LockAssumption DEF L!Least
<1> QED  BY <1>3, <1>4 DEF More

LEMMA UpdateKeeps ==
    ASSUME LockIInv, L!Update
    PROVE  /\ LockIInv'
           /\ lock.state = "GEOMETRY_CONFIRMING" /\ lock'.state = "LOCKED"
              /\ lock'.authority \in {"raised", "suspended"}
                 => streak'[lock'.place].n >= Suspension
<1>1. PICK det \in Detections, owner \in L!Owners :
        /\ lock' = L!UpdateLock(gravity, det, owner)
        /\ streak' = [p \in Places |->
                         IF L!Retained(lock) THEN L!NoStreak
                         ELSE L!Streak(streak[p], det, p)]
  BY DEF L!Update
<1> DEFINE l == L!Aged(lock)
<1>2. /\ lock \in Locked /\ streak \in [Places -> Rows]
      /\ InRow(lock, streak) /\ det.place \in Places
      /\ gravity' = gravity /\ gravity \in L!GravityStates
  BY LockAssumption DEF LockIInv, LockTyped, L!Update, Rows
<1>3. /\ l \in Locked /\ l.state = lock.state /\ l.place = lock.place
      /\ l.suspended = lock.suspended /\ l.raised = lock.raised
      /\ l.state = "GEOMETRY_CONFIRMING" => l.idle = L!Old(lock.idle)
  BY <1>2, AgedEffect
<1> HIDE DEF l
<1>4. streak' \in [Places -> Rows]
  <2>1. ASSUME NEW p \in Places
        PROVE  (IF L!Retained(lock) THEN L!NoStreak
                ELSE L!Streak(streak[p], det, p)) \in Rows
    <3>1. streak[p] \in Rows /\ L!NoStreak \in Rows
      BY <1>2 DEF L!NoStreak, Rows
    <3> QED  BY <3>1, StreakEffect
  <2> QED  BY <1>1, <2>1
<1>5. \/ Neutral(lock') /\ ~(lock.state = "GEOMETRY_CONFIRMING"
                            /\ lock'.state = "LOCKED")
      \/ Begun(lock', det) /\ ~L!Retained(lock)
      \/ Kept(lock', l, det) \/ Counted(lock', l, det)
      \/ Taken(lock', l, det)
  BY <1>1, UpdateLockEffect DEF l
<1>6. ASSUME l.state = "GEOMETRY_CONFIRMING", l.idle < Progress
      PROVE  /\ ~L!Retained(lock) /\ lock.place \in Places
             /\ l.idle = streak[lock.place].idle + 1
             /\ streak[lock.place].idle + 1 < Progress
             /\ lock.suspended <= streak[lock.place].n
             /\ lock.raised <= streak[lock.place].n
  <2>1. lock.idle \in Nat /\ lock.state = "GEOMETRY_CONFIRMING"
    BY <1>2, <1>3, <1>6 DEF Locked
  <2>2. l.idle = lock.idle + 1 /\ lock.idle < Progress
    BY <1>3, <1>6, <2>1, OldIsBounded, LockAssumption
  <2> QED
    BY <1>2, <1>6, <2>1, <2>2 DEF InRow, L!Retained
<1>7. CASE Neutral(lock') /\ ~(lock.state = "GEOMETRY_CONFIRMING"
                              /\ lock'.state = "LOCKED")
  BY <1>2, <1>4, <1>7 DEF Neutral, LockIInv, LockTyped, InRow, Rows
<1>8. CASE Begun(lock', det) /\ ~L!Retained(lock)
  <2> DEFINE t == L!Streak(streak[det.place], det, det.place)
  <2>1. streak'[det.place] = t /\ streak[det.place] \in Rows
    BY <1>1, <1>2, <1>8
  <2>2. t \in Rows /\ t.idle = 0 /\ (det.hangs # "ground" => t.n >= 1)
    BY <1>8, <2>1, StreakEffect DEF Begun
  <2>3. t.n \in Nat
    BY <2>2 DEF Rows
  <2> HIDE DEF t
  <2>4. InRow(lock', streak')
    BY <1>2, <1>8, <2>1, <2>2, <2>3 DEF Begun, InRow
  <2>5. MeasuredAtOnce(lock') /\ lock'.state # "LOCKED"
    BY <1>8 DEF Begun, MeasuredAtOnce, L!Retained
  <2> QED
    BY <1>2, <1>4, <1>8, <2>4, <2>5 DEF Begun, LockIInv, LockTyped, Rows
<1>9. CASE Kept(lock', l, det)
  <2> DEFINE s == streak[lock.place]
             t == L!Streak(s, det, lock.place)
  <2>1. /\ ~L!Retained(lock) /\ lock.place \in Places
        /\ l.idle = s.idle + 1 /\ s.idle + 1 < Progress
        /\ lock.suspended <= s.n /\ lock.raised <= s.n
    BY <1>6, <1>9 DEF Kept
  <2>2. s \in Rows /\ streak'[lock.place] = t
    BY <1>1, <1>2, <2>1
  <2>3. t = L!Unseen(s)
    BY <1>3, <1>9, <2>2, StreakEffect DEF Kept
  <2> HIDE DEF s, t
  <2>4. t.n = s.n /\ t.idle = s.idle + 1
    BY <2>1, <2>2, <2>3, UnseenEffect
  <2>5. InRow(lock', streak')
    BY <1>3, <1>9, <2>1, <2>2, <2>4 DEF Kept, InRow
  <2>6. MeasuredAtOnce(lock') /\ lock'.state # "LOCKED"
    BY <1>9 DEF Kept, MeasuredAtOnce, L!Retained
  <2> QED
    BY <1>2, <1>4, <1>9, <2>5, <2>6 DEF Kept, LockIInv, LockTyped, Rows
<1>10. CASE Counted(lock', l, det)
  <2> DEFINE s == streak[det.place]
             t == L!Streak(s, det, det.place)
  <2>1. det.place = lock.place /\ L!Formal(det)
    BY <1>3, <1>10 DEF Counted
  <2>2. /\ ~L!Retained(lock) /\ s.idle + 1 < Progress
        /\ lock.suspended <= s.n /\ lock.raised <= s.n
    BY <1>6, <1>10, <2>1 DEF Counted
  <2>3. s \in Rows /\ streak'[det.place] = t
    BY <1>1, <1>2, <2>2
  <2>4. /\ lock'.suspended \in Nat /\ lock'.raised \in Nat
        /\ lock.suspended \in Nat /\ lock.raised \in Nat
        /\ More(lock'.suspended, lock.suspended, det)
        /\ More(lock'.raised, lock.raised, det)
    BY <1>2, <1>3, <1>10 DEF Counted, Locked
  <2> HIDE DEF s
  <2>5. /\ t.idle = 0 /\ t.n >= lock'.suspended /\ t.n >= lock'.raised
        /\ t \in Rows
    BY <2>1, <2>2, <2>3, <2>4, StreakEffect, RowKeepsUp
  <2>6. t.n \in Nat
    BY <2>5 DEF Rows
  <2> HIDE DEF t
  <2>7. InRow(lock', streak')
    BY <1>2, <1>3, <1>10, <2>1, <2>3, <2>4, <2>5, <2>6 DEF Counted, InRow
  <2>8. MeasuredAtOnce(lock') /\ lock'.state # "LOCKED"
    BY <1>10 DEF Counted, MeasuredAtOnce, L!Retained
  <2> QED
    BY <1>2, <1>4, <1>10, <2>7, <2>8 DEF Counted, LockIInv, LockTyped, Rows
<1>11. CASE Taken(lock', l, det)
  <2> DEFINE s == streak[det.place]
             t == L!Streak(s, det, det.place)
  <2>1. det.place = lock.place /\ L!Formal(det) /\ lock'.place = det.place
    BY <1>3, <1>11 DEF Taken
  <2>2. /\ ~L!Retained(lock) /\ s.idle + 1 < Progress
        /\ lock.suspended <= s.n /\ lock.raised <= s.n
    BY <1>6, <1>11, <2>1 DEF Taken
  <2>3. s \in Rows /\ streak'[det.place] = t
    BY <1>1, <1>2, <2>2
  <2>4. t \in Rows
    BY <2>3, StreakEffect
  <2>5. ASSUME lock'.authority \in {"raised", "suspended"}
        PROVE  t.n >= Suspension
    <3>1. PICK k \in Nat : /\ k >= Suspension
                          /\ \/ More(k, lock.suspended, det)
                             \/ More(k, lock.raised, det)
      BY <1>3, <1>11, <2>5 DEF Taken
    <3>2. /\ lock.suspended \in Nat /\ lock.raised \in Nat /\ t.n \in Nat
      BY <1>2, <2>4 DEF Locked, Rows
    <3>3. t.n >= k
      BY <2>1, <2>2, <2>3, <3>1, <3>2, RowKeepsUp
    <3> HIDE DEF t
    <3> QED  BY <3>1, <3>2, <3>3, LockAssumption
  <2> HIDE DEF t
  <2>6. LockIInv'
    BY <1>2, <1>4, <1>11 DEF Taken, Neutral, LockIInv, LockTyped, InRow, Rows
  <2> QED  BY <2>1, <2>3, <2>5, <2>6
<1> QED  BY <1>5, <1>7, <1>8, <1>9, <1>10, <1>11

LEMMA BeginKeeps ==
    ASSUME LockIInv, L!Begin
    PROVE  /\ LockIInv'
           /\ ~(lock.state = "GEOMETRY_CONFIRMING" /\ lock'.state = "LOCKED")
<1> USE DEF LockIInv, LockTyped
<1>1. /\ gravity' = gravity
      /\ lock' = IF L!EdgeResets THEN L!ClearLock(lock)
                 ELSE IF L!Admits THEN lock ELSE L!Aged(lock)
      /\ streak' = [p \in Places |->
                      IF L!EdgeResets THEN L!NoStreak
                      ELSE IF L!Admits THEN streak[p]
                      ELSE L!Unseen(streak[p])]
  BY DEF L!Begin
<1>2. streak \in [Places -> Rows]
  BY DEF Rows
<1>3. CASE L!EdgeResets
  <2>1. lock' = L!NoLock /\ lock' \in Locked /\ lock'.state = "EMPTY"
    BY <1>1, <1>3, NoLockTyped DEF L!ClearLock, L!NoLock
  <2>2. streak' \in [Places -> Rows]
    BY <1>1, <1>3 DEF L!NoStreak, Rows
  <2> QED
    BY <1>1, <2>1, <2>2 DEF InRow, MeasuredAtOnce, L!Retained, Rows
<1>4. CASE ~L!EdgeResets /\ L!Admits
  <2>1. lock' = lock /\ streak' = streak
    BY <1>1, <1>2, <1>4
  <2> QED  BY <1>1, <2>1 DEF InRow, MeasuredAtOnce
<1>5. CASE ~L!EdgeResets /\ ~L!Admits
  <2>1. lock' = L!Aged(lock)
    BY <1>1, <1>5
  <2>2. streak' = [p \in Places |-> L!Unseen(streak[p])]
    BY <1>1, <1>5
  <2>3. streak' \in [Places -> Rows]
    BY <1>2, <2>2, UnseenEffect
  <2>4. /\ lock' \in Locked /\ lock'.state = lock.state
        /\ lock'.place = lock.place /\ lock'.suspended = lock.suspended
        /\ lock'.raised = lock.raised /\ MeasuredAtOnce(lock')
        /\ lock.state = "GEOMETRY_CONFIRMING" => lock'.idle = L!Old(lock.idle)
    BY <2>1, AgedEffect
  <2>5. InRow(lock', streak')
    <3> SUFFICES ASSUME lock'.state = "GEOMETRY_CONFIRMING",
                        lock'.idle < Progress
                 PROVE  /\ lock'.place \in Places
                        /\ lock'.idle = streak'[lock'.place].idle
                        /\ lock'.suspended <= streak'[lock'.place].n
                        /\ lock'.raised <= streak'[lock'.place].n
      BY DEF InRow
    <3>1. lock.idle \in Nat
      BY DEF Locked
    <3>2. lock'.idle = lock.idle + 1 /\ lock.idle < Progress
      BY <2>4, <3>1, OldIsBounded, LockAssumption
    <3>3. /\ lock.place \in Places /\ lock.idle = streak[lock.place].idle
          /\ lock.suspended <= streak[lock.place].n
          /\ lock.raised <= streak[lock.place].n
      BY <2>4, <3>2 DEF InRow
    <3>4. streak'[lock.place] = L!Unseen(streak[lock.place])
          /\ streak[lock.place] \in Rows
      BY <1>2, <2>2, <3>3
    <3> QED  BY <2>4, <3>2, <3>3, <3>4, UnseenEffect
  <2> QED  BY <1>1, <2>3, <2>4, <2>5 DEF Rows
<1> QED  BY <1>3, <1>4, <1>5

\* The action property, of one step.
LiftStep ==
    lock.state = "GEOMETRY_CONFIRMING" /\ lock'.state = "LOCKED"
    /\ lock'.authority \in {"raised", "suspended"}
       => streak'[lock'.place].n >= Suspension

LEMMA LockStep == LockIInv /\ [L!Next]_L!vars => LockIInv' /\ LiftStep
<1> SUFFICES ASSUME LockIInv, [L!Next]_L!vars PROVE LockIInv' /\ LiftStep
  OBVIOUS
<1>1. CASE L!Gravity
  BY <1>1 DEF L!Gravity, LockIInv, LockTyped, InRow, MeasuredAtOnce, LiftStep
<1>2. CASE L!Begin
  BY <1>2, BeginKeeps DEF LiftStep
<1>3. CASE L!Update
  BY <1>3, UpdateKeeps DEF LiftStep
<1>4. CASE UNCHANGED L!vars
  BY <1>4 DEF L!vars, LockIInv, LockTyped, InRow, MeasuredAtOnce, LiftStep
<1> QED  BY <1>1, <1>2, <1>3, <1>4 DEF L!Next

\* For every set of places and detections and every threshold: a lock that
\* rests on the lift saw its load off the ground Suspension times in a row, and
\* the pose kept for a lost load is no younger than Soft frames before its
\* height was measured (updateHookCargoLock, updateLiveCargoPose).
THEOREM LockMeasured == L!Spec => LockIsMeasured
<1>1. LockIInv => L!TrustIsBounded
  BY DEF LockIInv, MeasuredAtOnce, L!TrustIsBounded
<1>2. LockIInv /\ [L!Next]_L!vars =>
        [lock.state = "GEOMETRY_CONFIRMING" /\ lock'.state = "LOCKED"
            /\ lock'.authority \in {"raised", "suspended"}
         => streak'[lock'.place].n >= Suspension]_L!vars
  BY LockStep DEF LiftStep
<1> QED
  BY LockInit, LockStep, <1>1, <1>2, PTL
  DEF L!Spec, LockIsMeasured, L!LockIsMeasured, L!LiftIsConsecutive
=============================================================================
