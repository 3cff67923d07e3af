----------------------------- MODULE MapSession -----------------------------
(***************************************************************************)
(* Map sessions of NdtSlamNode: saveMapSessionAtomic and                   *)
(* MapSessionSnapshot::saveAtomic on the save_map service thread, staging  *)
(* and installation on the load_map thread, while the map keeps growing.   *)
(*                                                                         *)
(* The save takes what it needs piece by piece under different locks: the  *)
(* evidence snapshot, the completed bundle, the number of keyframes and,   *)
(* when the layers are already written, the keyframe database itself.      *)
(* A persistent save checks bundle and evidence again after the assembly.  *)
(* Contents are abstracted to the identities that the manifest records.    *)
(***************************************************************************)
EXTENDS Naturals

CONSTANTS
    Persistent,     \* the values of persistent_map_enabled_ to consider
    MaxActive,      \* max_active_keyframes_
    MaxChanges      \* bound on the changes of the runtime map

VARIABLES
    persistent,     \* persistent_map_enabled_
    bundle,         \* generation of latest_completed_map_bundle_
    evidence,       \* the evidence index: epoch it is stamped with, revision
    keyframes,      \* keyframes in the database
    released,       \* how many of them have no cloud any more
    epoch,          \* static_evidence_epoch_
    save,           \* the save thread: step and request, see NoSave
    temporary,      \* the files of the temporary directory
    visible,        \* the session directory under its final name
    staged,         \* the load thread: nothing, or a prepared candidate
    changes,        \* bound only
    instants        \* history: bundle and evidence that were current together

runtime == <<bundle, evidence, keyframes, released, epoch>>
vars == <<persistent, runtime, save, temporary, visible, staged, changes,
          instants>>

Nothing == [is |-> "nothing"]
NoSave == [pc |-> "idle", bundle |-> 0, evidence |-> [epoch |-> 0, rev |-> 0],
           count |-> 0, database |-> 0]

Init ==
    /\ persistent \in Persistent
    /\ bundle = 1 /\ evidence = [epoch |-> 1, rev |-> 1] /\ keyframes = 1
    /\ released = 0 /\ epoch = 1
    /\ save = NoSave /\ temporary = {} /\ visible = Nothing
    /\ staged = Nothing /\ changes = 0
    /\ instants = {<<1, [epoch |-> 1, rev |-> 1]>>}

-----------------------------------------------------------------------------
(* The map grows; boundaries replace it.                                   *)

Changed ==
    /\ changes < MaxChanges /\ changes' = changes + 1
    /\ instants' = instants \union {<<bundle', evidence'>>}
    /\ UNCHANGED <<persistent, save, temporary, visible, staged>>

CommitKeyframe ==
    /\ keyframes' = keyframes + 1
    /\ UNCHANGED <<bundle, evidence, released, epoch>>
    /\ Changed

\* releaseOldKeyframeClouds: the keyframes before the active window lose
\* their clouds.
ReleaseClouds ==
    /\ keyframes > MaxActive + released
    /\ released' = keyframes - MaxActive
    /\ UNCHANGED <<bundle, evidence, keyframes, epoch>>
    /\ Changed

CompleteBundle ==
    /\ bundle' = bundle + 1
    /\ UNCHANGED <<evidence, keyframes, released, epoch>>
    /\ Changed

MutateEvidence ==
    /\ evidence' = [evidence EXCEPT !.rev = @ + 1]
    /\ UNCHANGED <<bundle, keyframes, released, epoch>>
    /\ Changed

\* resetService.
Reset ==
    /\ bundle' = bundle + 1 /\ keyframes' = 0 /\ released' = 0
    /\ epoch' = epoch + 1
    /\ evidence' = [epoch |-> epoch + 1, rev |-> evidence.rev + 1]
    /\ Changed

-----------------------------------------------------------------------------
(* save_map.                                                               *)

Keep == UNCHANGED <<persistent, runtime, staged, changes, instants>>

\* The evidence snapshot is taken first, without map_mutex_.
TakeEvidence ==
    /\ save.pc = "idle"
    /\ save' = [save EXCEPT !.pc = "bundle", !.evidence = evidence]
    /\ UNCHANGED <<temporary, visible>> /\ Keep

\* Under map_mutex_.
TakeBundle ==
    /\ save.pc = "bundle"
    /\ save' = [save EXCEPT !.pc = IF persistent THEN "recheck" ELSE "count",
                            !.bundle = bundle]
    /\ UNCHANGED <<temporary, visible>> /\ Keep

\* The tiles are assembled; then the generation of the bundle is compared.
RecheckBundle ==
    /\ save.pc = "recheck"
    /\ save' = IF bundle = save.bundle
               THEN [save EXCEPT !.pc = "recheck_evidence"] ELSE NoSave
    /\ UNCHANGED <<temporary, visible>> /\ Keep

\* Mutant: the evidence is not compared again.
EvidenceUnchecked ==
    /\ save.pc = "recheck_evidence"
    /\ save' = [save EXCEPT !.pc = "count"]
    /\ UNCHANGED <<temporary, visible>> /\ Keep

RecheckEvidence ==
    /\ save.pc = "recheck_evidence"
    /\ save' = IF evidence = save.evidence
               THEN [save EXCEPT !.pc = "count"] ELSE NoSave
    /\ UNCHANGED <<temporary, visible>> /\ Keep

CountKeyframes ==
    /\ save.pc = "count"
    /\ save' = [save EXCEPT !.pc = "write", !.count = keyframes]
    /\ UNCHANGED <<temporary, visible>> /\ Keep

\* saveAtomic: the layers and the evidence enter the temporary directory.
WriteLayers ==
    /\ save.pc = "write"
    /\ temporary' = {"layers"}
    /\ save' = [save EXCEPT !.pc = "extras"]
    /\ UNCHANGED visible /\ Keep

\* What loadKeyFrameDatabase will read back: saveKeyFrameDatabase writes the
\* pose of every keyframe, and a keyframe without its cloud is skipped.
Readable == keyframes - released

\* write_extras saves the keyframe database as it is now: its size replaces
\* nothing in the request.
WriteExtras ==
    /\ save.pc = "extras"
    /\ temporary' = temporary \union {"keyframes"}
    /\ save' = [save EXCEPT !.pc = "manifest", !.database = Readable]
    /\ UNCHANGED visible /\ Keep

\* The manifest, last, with the hash of every file.
WriteManifest ==
    /\ save.pc = "manifest"
    /\ temporary' = temporary \union {"manifest"}
    /\ save' = [save EXCEPT !.pc = "rename"]
    /\ UNCHANGED visible /\ Keep

\* The temporary directory is verified as a load would, then renamed.
Rename ==
    /\ save.pc = "rename" /\ temporary = {"layers", "keyframes", "manifest"}
    /\ visible' = [is |-> "session", files |-> temporary,
                   bundle |-> save.bundle, evidence |-> save.evidence,
                   count |-> save.count, database |-> save.database]
    /\ temporary' = {} /\ save' = NoSave
    /\ Keep

\* Anything throws: the temporary directory is removed.
SaveFails ==
    /\ save.pc \notin {"idle", "bundle"}
    /\ temporary' = {} /\ save' = NoSave
    /\ UNCHANGED visible /\ Keep

\* The process dies; the next one has a map of its own and a fresh epoch.
\* A temporary directory stays behind; no later save uses its name.
CrashAndRestart ==
    /\ changes < MaxChanges /\ changes' = changes + 1
    /\ save' = NoSave /\ staged' = Nothing /\ temporary' = {}
    /\ bundle' = 1 /\ keyframes' = 0 /\ released' = 0 /\ epoch' = 1
    /\ evidence' = [epoch |-> 1, rev |-> 1]
    /\ instants' = instants \union {<<1, [epoch |-> 1, rev |-> 1]>>}
    /\ UNCHANGED <<persistent, visible>>

-----------------------------------------------------------------------------
(* load_map.                                                               *)

\* loadVerified, and the keyframe database against the manifest's count.
Loads(s) == s # Nothing /\ s.files = {"layers", "keyframes", "manifest"}
                        /\ s.database = s.count

\* stageRuntimeMap, without a lock: the evidence is stamped in advance.
Stage ==
    /\ staged = Nothing /\ Loads(visible)
    /\ staged' = [is |-> "candidate", session |-> visible, stamp |-> epoch + 1]
    /\ UNCHANGED <<persistent, runtime, save, temporary, visible, changes,
                   instants>>

\* installPreparedSnapshot stamps the evidence again when the epoch moved on.
StampInstalled(c, e) == e

\* installLoadedRuntimeMap.
Install ==
    /\ staged # Nothing /\ changes < MaxChanges /\ changes' = changes + 1
    /\ staged' = Nothing
    /\ bundle' = bundle + 1 /\ keyframes' = staged.session.database
    /\ released' = 0
    /\ epoch' = epoch + 1
    /\ evidence' = [epoch |-> StampInstalled(staged, epoch + 1),
                    rev |-> staged.session.evidence.rev]
    /\ instants' = instants \union {<<bundle', evidence'>>}
    /\ UNCHANGED <<persistent, save, temporary, visible>>

\* The suspension of the persisted evidence fails: nothing is installed.
InstallRefused ==
    /\ staged # Nothing
    /\ staged' = Nothing
    /\ UNCHANGED <<persistent, runtime, save, temporary, visible, changes,
                   instants>>

Next ==
    \/ CommitKeyframe \/ ReleaseClouds \/ CompleteBundle \/ MutateEvidence \/ Reset
    \/ TakeEvidence \/ TakeBundle \/ RecheckBundle \/ RecheckEvidence
    \/ CountKeyframes \/ WriteLayers \/ WriteExtras \/ WriteManifest \/ Rename
    \/ SaveFails \/ CrashAndRestart \/ Stage \/ Install \/ InstallRefused

Spec == Init /\ [][Next]_vars

-----------------------------------------------------------------------------
\* A persistent session's bundle and evidence were current at one moment,
\* although they are taken one after the other while commits, builds, resets
\* and loads go on.
SessionIsOneInstant ==
    persistent /\ visible # Nothing =>
        <<visible.bundle, visible.evidence>> \in instants

\* The evidence the node works with is of the present epoch, although load_map
\* stamps it before it holds the lock and a reset may come between.
EvidenceOfThisEpoch == evidence.epoch = epoch

\* What is saved belongs to one moment, what is loaded to the present epoch.
SessionIsConsistent == SessionIsOneInstant /\ EvidenceOfThisEpoch

-----------------------------------------------------------------------------
\* saveAtomic: "A write that cannot be reloaded never becomes visible under
\* the requested session directory."
SavedSessionLoads == visible # Nothing => Loads(visible)
=============================================================================
