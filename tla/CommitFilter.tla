---------------------------- MODULE CommitFilter ----------------------------
(***************************************************************************)
(* What a keyframe writes of the load on the hook: the gate the owner      *)
(* thread asks before it enqueues a map-commit job, the authorities it     *)
(* puts into the job, and the filters the map-commit worker applies.       *)
(*                                                                         *)
(* The hook state is written by its subscriber and expires by wall time,   *)
(* and the removal authority expires by ROS time, so each of the five      *)
(* reads the owner makes for one frame may see another value.  The points  *)
(* of a frame are the load's, a person's and the structure's; the flags of *)
(* a frame say which of its regions and ownerships cover the load.         *)
(***************************************************************************)
CONSTANTS Roles,  \* hook_load_signal_role_
          Modes,  \* cargo_authority_mode_: "V6" or "LEGACY"
          Frames  \* the frames of the instance

VARIABLES role, mode,
          hook,    \* currentHookLoadSnapshot: "EMPTY", "LOADED" or "INVALID"
          frame,   \* the frame the owner thread processes
          fresh,   \* formal_cargo_removal_stamp_ is young enough
          pc,      \* where the owner and the worker are
          gate,    \* the snapshot hookAllowsMapCommit took
          job,     \* the MapCommitJob
          written  \* the object points the last commit wrote

vars == <<role, mode, hook, frame, fresh, pc, gate, job, written>>

Nothing == {}
HookStates == {"EMPTY", "LOADED", "INVALID"}

\* shouldRemoveHookCargo, with the hook as it is at this call.
ShouldRemove == frame.formal /\ fresh /\ (role = "REQUIRED" => hook = "LOADED")

\* evaluateHookLoadMapCommit
Allows(h, removal) == role = "REQUIRED" => h = "EMPTY" \/ (h = "LOADED" /\ removal)
UsesFormalBox(h, removal) == Allows(h, removal) /\ removal
ExcludesCandidates(h, removal, candidates) == Allows(h, removal) /\ candidates /\ ~ removal

NoJob == [hook |-> "INVALID", removal |-> FALSE, candidateQuarantine |-> FALSE, quarantine |-> FALSE]

Init ==
  /\ role \in Roles /\ mode \in Modes
  /\ hook = "INVALID" /\ frame \in Frames /\ fresh = TRUE
  /\ pc = "idle" /\ gate = "INVALID" /\ job = NoJob /\ written = [objects |-> Nothing, by |-> NoJob]

\* A gravity message, or the snapshot going stale.
HookChanges == \E h \in HookStates \ {hook} : hook' = h /\ UNCHANGED <<role, mode, frame, fresh, pc, gate, job, written>>

RemovalExpires == fresh /\ pc # "idle" /\ fresh' = FALSE /\ UNCHANGED <<role, mode, hook, frame, pc, gate, job, written>>

StartFrame ==
  /\ pc = "idle"
  /\ \E f \in Frames : frame' = f
  /\ fresh' = TRUE /\ pc' = "gate"
  /\ UNCHANGED <<role, mode, hook, gate, job, written>>

\* hookAllowsMapCommit reads the snapshot; V6 asks no more than that a
\* REQUIRED signal is there, LEGACY asks shouldRemoveHookCargo too.
ReadGate ==
  /\ pc = "gate"
  /\ gate' = hook /\ pc' = "decide"
  /\ UNCHANGED <<role, mode, hook, frame, fresh, job, written>>

GateOpen ==
  IF mode = "V6" THEN role = "REQUIRED" => gate # "INVALID" ELSE Allows(gate, ShouldRemove)

DecideGate ==
  /\ pc = "decide"
  /\ pc' = IF GateOpen THEN "enqueue" ELSE "idle"
  /\ UNCHANGED <<role, mode, hook, frame, fresh, gate, job, written>>

\* enqueueMapCommitJob takes its own snapshot of the hook ...
ReadJobHook ==
  /\ pc = "enqueue"
  /\ job' = [NoJob EXCEPT !.hook = hook]
  /\ pc' = "authorise"
  /\ UNCHANGED <<role, mode, hook, frame, fresh, gate, written>>

\* shouldDropV6MapCommitWithoutExactCargoOwnership
DropsUnowned(h) ==
  mode = "V6" /\ h = "LOADED" /\ ~ frame.exact /\ ~ (frame.candidate /\ ~ frame.safety)

Removal == IF mode = "V6" THEN frame.exact ELSE ShouldRemove

\* mutant: the quarantine looks at the hook again
QuarantinesLate(h, removal) == mode = "LEGACY" /\ hook = "LOADED" /\ ~ removal
\* The bounded quarantine of the odom-anchor region (odom_anchor enabled).
Quarantines(h, removal) == mode = "LEGACY" /\ h = "LOADED" /\ ~ removal

\* ... and shouldRemoveHookCargo, for the removal authority, another one.
AuthoriseJob ==
  /\ pc = "authorise"
  /\ IF DropsUnowned(job.hook)
       THEN pc' = "idle" /\ UNCHANGED job
       ELSE /\ pc' = "queued"
            /\ job' = [job EXCEPT !.removal = Removal,
                                  !.candidateQuarantine = mode = "V6" /\ job.hook = "LOADED" /\ ~ frame.exact
                                                          /\ ~ frame.safety /\ frame.candidate,
                                  !.quarantine = Quarantines(job.hook, Removal)]
  /\ UNCHANGED <<role, mode, hook, frame, fresh, gate, written>>

(***************************************************************************)
(* The worker: commitKeyFrameWithDynamicFiltering.  The load's points go   *)
(* by exact ownership in V6; in LEGACY by the channel the policy excludes, *)
(* a tracked box, the formal footprint or the quarantine, in that order.   *)
(***************************************************************************)
RemovedByV6 == frame.exact \/ (job.candidateQuarantine /\ frame.candidate)
RemovedByLegacy ==
  \/ ExcludesCandidates(job.hook, job.removal, frame.channel)
  \/ job.removal /\ frame.boxed
  \/ UsesFormalBox(job.hook, job.removal)
  \/ job.quarantine

Objects ==
  {"structure"} \union (IF frame.person THEN {} ELSE {"person"})
                \union (IF (IF mode = "V6" THEN RemovedByV6 ELSE RemovedByLegacy) THEN {} ELSE {"load"})

CommitFrame ==
  /\ pc = "queued"
  /\ written' = [objects |-> Objects, by |-> job]
  /\ pc' = "idle"
  /\ UNCHANGED <<role, mode, hook, frame, fresh, gate, job>>

\* An empty cloud, a duplicate frame or a full keyframe database: nothing
\* is written.
RefuseFrame ==
  /\ pc = "queued"
  /\ pc' = "idle"
  /\ UNCHANGED <<role, mode, hook, frame, fresh, gate, job, written>>

Next ==
  \/ HookChanges \/ RemovalExpires \/ StartFrame \/ ReadGate \/ DecideGate
  \/ ReadJobHook \/ AuthoriseJob \/ CommitFrame \/ RefuseFrame

Spec == Init /\ [][Next]_vars

(***************************************************************************)
(* Properties.                                                             *)
(***************************************************************************)
\* A job that saw the hook loaded writes none of the load's points, however
\* the hook and the removal authority change between the reads the owner
\* makes for it: some authority of the frame owns them, or the quarantine
\* takes them, or the keyframe is dropped (enqueueMapCommitJob, the bounded
\* quarantine and the exact-ownership filters).
LoadedCargoStaysOut ==
  pc = "idle" /\ written.objects # Nothing => (written.by.hook = "LOADED" => "load" \notin written.objects)

\* What the policy says and the worker does not keep: a keyframe is written
\* only when evaluateHookLoadMapCommit allows the job's own hook state.
HookPolicyHolds ==
  written.objects # Nothing => (mode = "V6" \/ Allows(written.by.hook, written.by.removal))
=============================================================================
