--------------------------- MODULE PersistentTiles ---------------------------
(***************************************************************************)
(* The persistent tile map of NdtSlamNode across failures and restarts.    *)
(*                                                                         *)
(*   committer   appendPersistentTileLayers: a keyframe's points enter the *)
(*               dirty tiles of four layers at once.                       *)
(*   flusher     flushDirtyTiles, from the owner thread, the session save  *)
(*               or the destructor; it hands a batch to a worker thread.   *)
(*   worker      merges every file of the batch into the one on disk       *)
(*               (temporary file, then rename), keeps what failed for a    *)
(*               retry, and catalogues all files when nothing failed.      *)
(*   saver       saveMapSessionAtomic: flush, join, check, then read the   *)
(*               tiles back and catalogue them again.                      *)
(*   start       restorePersistentRegistrationTarget: the files must be    *)
(*               the catalogued ones, otherwise the constructor throws.    *)
(*                                                                         *)
(* A file's content is the set of keyframes with points in it; a hash and  *)
(* a size stand for that content.  A crash keeps what is on disk.  Files   *)
(* stay readable: mergeAndWrite's silent replacement of an unreadable tile *)
(* is not modelled.                                                        *)
(***************************************************************************)
EXTENDS Naturals

CONSTANTS
    Registration,   \* tile files of the registration layer
    Others,         \* tile files of the display, ground and objects layers
    Keyframes,      \* bound: the keyframes of all lives of the node
    DiskLow         \* the answers of the disk guard: a subset of BOOLEAN

Files == Registration \union Others
Nothing == [f \in Files |-> {}]
Joined(a, b) == [f \in Files |-> a[f] \union b[f]]
Holding(a) == {f \in Files : a[f] # {}}

VARIABLES
    node,      \* "up", "final" (destructor), "down", or "refused" by a start
    dirty,     \* dirty_tiles_
    failed,    \* failed_tile_flush_batch_
    worker,    \* tile_flush_thread_, see Idle
    saver,     \* the save service: "idle", "join", "check" or "assemble"
    disk,      \* the tile files
    stray,     \* the files with a temporary file beside them
    catalog,   \* what persistent_map_manifest.json lists
    served,    \* what the running node restored at its start
    session,   \* the layers of the last assembled session
    foot       \* history: the files each keyframe of this life has points in

vars == <<node, dirty, failed, worker, saver, disk, stray, catalog, served,
          session, foot>>

Idle == [pc |-> "none", batch |-> Nothing, todo |-> {}, bad |-> {}]

Init ==
    /\ node = "down" /\ served = Nothing
    /\ dirty = Nothing /\ failed = Nothing /\ worker = Idle /\ saver = "idle"
    /\ disk = Nothing /\ stray = {} /\ catalog = Nothing
    /\ session = Nothing
    /\ foot = [k \in Keyframes |-> {}]

-----------------------------------------------------------------------------
(* Memory.                                                                 *)

AppendPersistentTileLayers ==
    /\ node = "up"
    /\ \E k \in Keyframes, touched \in SUBSET Files :
        /\ foot[k] = {} /\ touched # {} /\ \A f \in Files : k \notin disk[f]
        /\ foot' = [foot EXCEPT ![k] = touched]
        /\ dirty' = [f \in Files |->
                        dirty[f] \union (IF f \in touched THEN {k} ELSE {})]
    /\ UNCHANGED <<node, failed, worker, saver, disk, stray, catalog, served,
                   session>>

\* What failed before is dirty again.
RetryMerged == Joined(dirty, failed)

\* flushDirtyTiles: nothing more while a worker runs or the disk is low.
FlushDirtyTiles(low) ==
    /\ failed' = Nothing
    /\ IF worker.pc # "none" \/ low \/ Holding(RetryMerged) = {}
       THEN dirty' = RetryMerged /\ UNCHANGED worker
       ELSE /\ dirty' = Nothing
            /\ worker' = [pc |-> "start", batch |-> RetryMerged,
                          todo |-> Holding(RetryMerged), bad |-> {}]

\* From the maintenance turn, the memory guard or its cache release.
FlushByOwner ==
    /\ node = "up"
    /\ \E low \in DiskLow : FlushDirtyTiles(low)
    /\ UNCHANGED <<node, saver, disk, stray, catalog, served, session, foot>>

-----------------------------------------------------------------------------
(* The worker, under persistent_tile_io_mutex_ from "write" on.            *)

WorkerLocks ==
    /\ worker.pc = "start"
    /\ worker' = [worker EXCEPT !.pc = "write"]
    /\ UNCHANGED <<node, dirty, failed, saver, disk, stray, catalog, served,
                   session, foot>>

\* mergeAndWrite: the rename replaces the file by the merged one.
WriteTile(f) ==
    /\ worker.pc = "write" /\ f \in worker.todo
    /\ disk' = [disk EXCEPT ![f] = @ \union worker.batch[f]]
    /\ stray' = stray \ {f}
    /\ worker' = [worker EXCEPT !.todo = @ \ {f}]
    /\ UNCHANGED <<node, dirty, failed, saver, catalog, served, session, foot>>

\* It throws, and may leave its temporary file behind.
WriteTileFails(f) ==
    /\ worker.pc = "write" /\ f \in worker.todo
    /\ stray' \in {stray, stray \union {f}}
    /\ worker' = [worker EXCEPT !.todo = @ \ {f}, !.bad = @ \union {f}]
    /\ UNCHANGED <<node, dirty, failed, saver, disk, catalog, served, session,
                   foot>>

Retried(files) ==
    [f \in Files |-> IF f \in files THEN worker.batch[f] ELSE failed[f]]

\* Mutant: the catalogue is written although a file failed.
FlushCommittedAnyway ==
    /\ worker.pc = "write" /\ worker.todo = {}
    /\ failed' = Retried(worker.bad)
    /\ catalog' \in {catalog, disk}
    /\ worker' = Idle
    /\ UNCHANGED <<node, dirty, saver, disk, stray, served, session, foot>>

\* The end of the batch: writePersistentTileManifest only when no file
\* failed, and it may fail itself.  If the display that is published next
\* throws, the whole batch is kept for a retry.
FlushEnds ==
    /\ worker.pc = "write" /\ worker.todo = {}
    /\ failed' \in {Retried(worker.bad), Retried(Holding(worker.batch))}
    /\ \/ catalog' = catalog
       \/ worker.bad = {} /\ catalog' = disk
    /\ worker' = Idle
    /\ UNCHANGED <<node, dirty, saver, disk, stray, served, session, foot>>

\* The tile directories cannot be made: nothing is written.
WorkerThrows ==
    /\ worker.pc = "write"
    /\ worker.todo = Holding(worker.batch) /\ worker.bad = {}
    /\ failed' = Retried(worker.todo)
    /\ worker' = Idle
    /\ UNCHANGED <<node, dirty, saver, disk, stray, catalog, served, session,
                   foot>>

-----------------------------------------------------------------------------
(* The session save, on the service thread and without runtime_state_mutex_. *)

SaveFlushes ==
    /\ node = "up" /\ saver = "idle"
    /\ \E low \in DiskLow : FlushDirtyTiles(low)
    /\ saver' = "join"
    /\ UNCHANGED <<node, disk, stray, catalog, served, session, foot>>

SaveJoins ==
    /\ saver = "join" /\ worker.pc = "none"
    /\ saver' = "check"
    /\ UNCHANGED <<node, dirty, failed, worker, disk, stray, catalog, served,
                   session, foot>>

\* A failed batch aborts the save.
SaveChecks ==
    /\ saver = "check"
    /\ saver' = IF Holding(failed) = {} THEN "assemble" ELSE "idle"
    /\ UNCHANGED <<node, dirty, failed, worker, disk, stray, catalog, served,
                   session, foot>>

\* assemblePersistentSessionLayers, under persistent_tile_io_mutex_: a
\* temporary file or an empty registration layer aborts it; so may a read or
\* the catalogue write, and a map that changed after the assembly.
SaveAssembles ==
    /\ saver = "assemble" /\ worker.pc # "write"
    /\ saver' = "idle"
    /\ \/ UNCHANGED <<catalog, session>>
       \/ stray = {} /\ catalog' = disk /\ UNCHANGED session
       \/ /\ stray = {} /\ \E f \in Registration : disk[f] # {}
          /\ catalog' = disk /\ session' = disk
    /\ UNCHANGED <<node, dirty, failed, worker, disk, stray, served, foot>>

-----------------------------------------------------------------------------
(* The end of a life and the next start.                                   *)

\* The destructor after its joins: the final flush.
ShutdownFlushes ==
    /\ node = "up" /\ worker.pc = "none" /\ saver = "idle"
    /\ \E low \in DiskLow : FlushDirtyTiles(low)
    /\ node' = "final"
    /\ UNCHANGED <<saver, disk, stray, catalog, served, session, foot>>

\* Whatever is in memory is gone.
LifeEnds ==
    /\ node' = "down" /\ served' = Nothing
    /\ dirty' = Nothing /\ failed' = Nothing /\ worker' = Idle
    /\ saver' = "idle" /\ session' = Nothing
    /\ foot' = [k \in Keyframes |-> {f \in Files : k \in disk[f]}]
    /\ UNCHANGED <<disk, catalog>>

ShutdownEnds ==
    /\ node = "final" /\ worker.pc = "none"
    /\ LifeEnds /\ UNCHANGED stray

\* The power fails; the file being written leaves its temporary file.
Crash ==
    /\ node \in {"up", "final"}
    /\ LifeEnds
    /\ \E f \in worker.todo \union {"none"} :
        stray' = IF worker.pc = "write" /\ f # "none" THEN stray \union {f}
                 ELSE stray

\* Mutant: only the registration layer is compared with the catalogue.
RegistrationVerifies ==
    /\ \A f \in Registration : disk[f] = catalog[f]
    /\ \E f \in Registration : catalog[f] # {}

\* loadPersistentRegistrationLayer: every layer's files are exactly the
\* catalogued ones, and the registration layer has some.
CatalogVerifies ==
    /\ \A f \in Files : disk[f] = catalog[f]
    /\ \E f \in Registration : catalog[f] # {}

\* NEW_MAP_BOOTSTRAP: neither the catalogue nor a directory has a file.
NewMap == Holding(disk) = {} /\ Holding(catalog) = {}

Start ==
    /\ node \in {"down", "refused"}
    /\ \/ /\ CatalogVerifies \/ NewMap
          /\ node' = "up" /\ served' = disk
       \/ /\ ~NewMap   \* or fewer points than a registration target needs
          /\ node' = "refused" /\ UNCHANGED served
    /\ UNCHANGED <<dirty, failed, worker, saver, disk, stray, catalog,
                   session, foot>>

Next ==
    \/ AppendPersistentTileLayers \/ FlushByOwner
    \/ WorkerLocks \/ FlushEnds \/ WorkerThrows
    \/ \E f \in Files : WriteTile(f) \/ WriteTileFails(f)
    \/ SaveFlushes \/ SaveJoins \/ SaveChecks \/ SaveAssembles
    \/ ShutdownFlushes \/ ShutdownEnds \/ Crash \/ Start

Spec == Init /\ [][Next]_vars

-----------------------------------------------------------------------------
Whole(content) ==
    \A k \in Keyframes, f, g \in Files :
        k \in content[f] /\ g \in foot[k] => k \in content[g]

\* No point of a keyframe that was handed over is lost while the node runs,
\* although files of its batch fail one by one, the worker throws, the flush
\* is asked for while a worker runs or the disk is low, and the retry meets
\* newer dirty tiles: it is dirty, in a batch, waiting for its retry, or on
\* disk.
PointsKept ==
    node \in {"up", "final"} =>
        \A k \in Keyframes : \A f \in foot[k] :
            \/ k \in dirty[f] \union failed[f] \union disk[f]
            \/ worker.pc # "none" /\ k \in worker.batch[f]

\* A flush catalogues a keyframe in all of its layers or in none, so that a
\* restart cannot restore a registration layer without its objects layer.
FlushCommitsWhole ==
    [][worker.pc = "write" /\ catalog' # catalog => Whole(catalog')]_vars

\* No point is lost on its way to the files, and none is committed without
\* the rest of its keyframe.
TilesKeepKeyframes == FlushCommitsWhole /\ []PointsKept

Store == INSTANCE DurableMap WITH
    Points <- Keyframes, stored <- catalog,
    mode <- IF node \in {"up", "final"} THEN "on"
            ELSE IF node = "down" THEN "off" ELSE node

\* The tiles, their catalogue and the start implement the append-only store:
\* crashes and failed writes never change what is committed, and a node that
\* starts serves exactly that.
ImplementsStore == Store!Spec

-----------------------------------------------------------------------------
\* saveMapSessionAtomic: "A failed tile remains in the retry batch and aborts
\* the session transaction."  Here: no session has a keyframe in one layer
\* and misses it in another.
SessionIsWhole == Whole(session)
=============================================================================
