-------------------------- MODULE EvidenceManifest --------------------------
(***************************************************************************)
(* The persisted static-obstacle evidence: an index file per revision, a   *)
(* manifest that names one of them, and a marker that suspends the         *)
(* manifest across restarts.                                               *)
(*                                                                         *)
(*   flush worker   writePersistentStaticEvidence after its tile batch,    *)
(*                  under static_evidence_persistence_mutex_.              *)
(*   owner          mutations of the index; the map boundaries (reset,     *)
(*                  load_map, rebuild_map, loop closure), which suspend    *)
(*                  the manifest and then open a new evidence epoch.       *)
(*   start          loadPersistentStaticEvidence.                          *)
(*                                                                         *)
(* A snapshot is its generation and revision, and whether enough cells are *)
(* mature to activate a manifest.  "line" counts boundaries over all lives *)
(* and is only a history.                                                  *)
(***************************************************************************)
EXTENDS Naturals

CONSTANTS
    MaxRevision,    \* bound on the revisions of all lives
    MaxLines        \* bound on the boundaries of all lives

VARIABLES
    up,         \* the node runs
    epoch,      \* static_evidence_epoch_
    index,      \* the in-memory snapshot: generation, revision, mature, line
    mutated,    \* history: cells changed since the last boundary
    flag,       \* static_evidence_persistence_dirty_
    active,     \* static_evidence_manifest_active_
    last,       \* static_evidence_last_committed_revision_
    writer,     \* the flush worker, see Resting
    suspended,  \* the owner is between the suspension and the new epoch
    files,      \* the index files, by generation and revision
    manifest,   \* what the manifest names, or NoManifest
    marker,     \* static_evidence_manifest.suspended exists
    line        \* history: boundaries so far

memory == <<epoch, index, mutated, flag, active, last, suspended>>
media == <<files, manifest, marker>>
vars == <<up, memory, writer, media, line>>

NoManifest == [generation |-> 0, revision |-> 0, mature |-> FALSE, line |-> 0]
Name(s) == <<s.generation, s.revision>>
Snapshot(g, r, m, l) ==
    [generation |-> g, revision |-> r, mature |-> m, line |-> l]
Resting == [pc |-> "none", snapshot |-> NoManifest]
At(pc, s) == [pc |-> pc, snapshot |-> s]

\* The fields of a node that found no evidence to load.
Fresh ==
    /\ up' = TRUE /\ epoch' = 1
    /\ index' = Snapshot(1, 1, FALSE, line)
    /\ flag' = FALSE /\ active' = FALSE /\ last' = 0 /\ suspended' = FALSE
    /\ mutated' = FALSE

Init ==
    /\ up = TRUE /\ epoch = 1 /\ index = Snapshot(1, 1, FALSE, 0)
    /\ flag = FALSE /\ active = FALSE /\ last = 0 /\ suspended = FALSE
    /\ mutated = FALSE /\ writer = Resting
    /\ files = {} /\ manifest = NoManifest /\ marker = FALSE /\ line = 0

-----------------------------------------------------------------------------
(* The owner thread.                                                       *)

\* A clean build confirmed or invalidated cells.
Mutate ==
    /\ up /\ ~suspended /\ index.revision < MaxRevision
    /\ \E m \in BOOLEAN :
        index' = [index EXCEPT !.revision = @ + 1, !.mature = m]
    /\ flag' = TRUE /\ mutated' = TRUE
    /\ UNCHANGED <<up, epoch, active, last, suspended, writer, media, line>>

\* suspendPersistentStaticEvidence, for every boundary: the marker, then the
\* manifest is archived.  Either may fail; load_map then gives up, the other
\* boundaries go on.
Suspend ==
    /\ up /\ ~suspended /\ line < MaxLines
    /\ writer.pc \in {"none", "tiles"}
    /\ flag' = FALSE /\ active' = FALSE /\ last' = 0 /\ mutated' = FALSE
    /\ \/ marker' = TRUE /\ manifest' \in {manifest, NoManifest}
       \/ UNCHANGED <<marker, manifest>>
    /\ suspended' \in IF marker' THEN {TRUE} ELSE BOOLEAN
    /\ UNCHANGED <<up, epoch, index, writer, files, line>>

\* advanceStaticEvidenceEpoch and the reset of the index.
OpenEpoch ==
    /\ up /\ suspended
    /\ suspended' = FALSE
    /\ epoch' = epoch + 1 /\ line' = line + 1
    /\ index' = Snapshot(epoch + 1, index.revision + 1, FALSE, line + 1)
    /\ UNCHANGED <<up, mutated, flag, active, last, writer, media>>

\* flushDirtyTiles takes the flag with the batch.
Flush ==
    /\ up /\ writer.pc = "none" /\ flag
    /\ flag' = FALSE
    /\ writer' = At("tiles", NoManifest)
    /\ UNCHANGED <<up, epoch, index, mutated, active, last, suspended, media, line>>

-----------------------------------------------------------------------------
(* The flush worker.                                                       *)

\* Whatever goes wrong raises the flag again.
TryLater ==
    /\ writer' = Resting
    /\ flag' = TRUE

\* The tile batch or its catalogue failed, the snapshot is of another epoch,
\* or a first manifest lacks mature cells.
EvidenceNotWritten ==
    /\ writer.pc = "tiles"
    /\ TryLater
    /\ UNCHANGED <<up, epoch, index, mutated, active, last, suspended, media,
                   line>>

EvidenceUpToDate ==
    /\ writer.pc = "tiles" /\ index.generation = epoch
    /\ active \/ index.mature
    /\ index.revision <= last
    /\ writer' = Resting
    /\ UNCHANGED <<up, memory, media, line>>

\* Mutant: the older index files are deleted before the manifest is replaced.
WriteIndexAlone ==
    /\ writer.pc = "tiles" /\ index.generation = epoch
    /\ active \/ index.mature
    /\ index.revision > last
    /\ files' = {Name(index)}
    /\ writer' = At("index", index)
    /\ UNCHANGED <<up, memory, manifest, marker, line>>

\* The snapshot is taken, checked and written under its own name.
WriteIndex ==
    /\ writer.pc = "tiles" /\ index.generation = epoch
    /\ active \/ index.mature
    /\ index.revision > last
    /\ files' = files \union {Name(index)}
    /\ writer' = At("index", index)
    /\ UNCHANGED <<up, memory, manifest, marker, line>>

\* The rename of the manifest is the commit point.
RenameManifest ==
    /\ writer.pc = "index"
    /\ manifest' = writer.snapshot
    /\ writer' = At("manifest", writer.snapshot)
    /\ UNCHANGED <<up, memory, files, marker, line>>

ClearMarker ==
    /\ writer.pc = "manifest"
    /\ marker' = FALSE
    /\ active' = TRUE /\ last' = writer.snapshot.revision
    /\ writer' = At("marker", writer.snapshot)
    /\ UNCHANGED <<up, epoch, index, mutated, flag, suspended, files, manifest,
                   line>>

\* The files that no manifest names any more.
Superseded(s) == {n \in files : n # Name(s)}

RemoveSuperseded ==
    /\ writer.pc = "marker"
    /\ files' = files \ Superseded(writer.snapshot)
    /\ writer' = Resting
    /\ UNCHANGED <<up, memory, manifest, marker, line>>

\* A file operation fails.  An index that is written stays; a marker that
\* cannot be removed leaves the manifest blocked.
WriteFails ==
    /\ writer.pc \in {"index", "manifest"}
    /\ active' = IF writer.pc = "manifest" THEN FALSE ELSE active
    /\ TryLater
    /\ UNCHANGED <<up, epoch, index, mutated, last, suspended, media, line>>

-----------------------------------------------------------------------------
Crash ==
    /\ up /\ up' = FALSE
    /\ writer' = Resting
    /\ UNCHANGED <<memory, media, line>>

\* The manifest is used unless a marker suspends it; its index file must be
\* there and its maturity enough.
Loadable == ~marker /\ manifest # NoManifest

LoadEvidence ==
    /\ ~up /\ Loadable /\ Name(manifest) \in files
    /\ up' = TRUE /\ epoch' = 1
    /\ index' = Snapshot(1, manifest.revision, TRUE, manifest.line)
    /\ flag' = FALSE /\ active' = TRUE /\ last' = manifest.revision
    /\ suspended' = FALSE /\ mutated' = FALSE
    /\ UNCHANGED <<writer, media, line>>

StartWithout ==
    /\ ~up /\ ~(Loadable /\ Name(manifest) \in files)
    /\ Fresh
    /\ UNCHANGED <<writer, media, line>>

Next ==
    \/ Mutate \/ Suspend \/ OpenEpoch \/ Flush
    \/ EvidenceNotWritten \/ EvidenceUpToDate \/ WriteIndex \/ RenameManifest
    \/ ClearMarker \/ RemoveSuperseded \/ WriteFails
    \/ Crash \/ LoadEvidence \/ StartWithout

Spec == Init /\ [][Next]_vars

-----------------------------------------------------------------------------
\* Wherever the node is interrupted, a manifest that a start would use names
\* an index file that is there: the file is written before the manifest and
\* deleted only after another one replaced it.
ManifestNamesItsIndex == Loadable => Name(manifest) \in files

\* Evidence that changed since the last boundary and is newer than what is
\* committed is never forgotten: the flag is up or a flush that took it is
\* under way, although tile batches fail and writes fail at every step.
NewEvidenceIsPending ==
    up /\ mutated /\ index.revision > last => flag \/ writer.pc # "none"

\* The evidence on disk can be found, and the rest is on its way.
EvidenceIsDurable == ManifestNamesItsIndex /\ NewEvidenceIsPending

-----------------------------------------------------------------------------
\* writePersistentStaticEvidence promises to leave a file "intentionally
\* blocked rather than resurrecting an old epoch".  Here: a start never loads
\* evidence from before the last boundary.
NoOldEpochLoaded == up /\ ~suspended => index.line = line
=============================================================================
