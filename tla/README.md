# A verification project for NDT-SLAM-Warehouse

NDT-SLAM-Warehouse localises an overhead crane in a warehouse with NDT
registration of LiDAR scans, keeps a multi-layer map while it does so, watches
the cargo on the hook, and tells the main controller whether the way is clear.
Its own code is the ROS package `src/src/ndt_slam`: one large node
(`ndt_slam.cpp`, 31,670 lines) with six long-lived threads and several
short-lived ones, and four small nodes. This directory holds TLA+ models of the
parts whose correctness depends on the *order of events* (threads, callbacks,
clocks, crashes, evidence gathered over several frames), the TLC runs that check
them on small instances, and TLAPS proofs of what matters most for every
instance. The numeric core (registration, filtering, geometry) is out of scope;
its outcomes are inputs of the models.

Paths are relative to `src/src/ndt_slam/src/` unless they say otherwise.

[1 The system](#1-the-system) · [2 The modules](#2-the-modules) ·
[3 The runs](#3-the-runs) · [4 Fairness](#4-fairness) ·
[5 The proofs](#5-the-proofs) ·
[6 Where code and documents disagree](#6-where-code-and-documents-disagree) ·
[7 What is not modelled](#7-what-is-not-modelled) · [8 Plan](#8-plan)

## 1 The system

### 1.1 Parts, state, operations

**From the sensors to what is known of the load**

| part | state it keeps | operations | correct when |
|---|---|---|---|
| Hook load filter and node (`hook_load_state_filter.cpp`, `hook_load_state_node.cpp`) | stable and pending state, count and start of the transition, two clocks | voltage callback, timer | the weighing state is fresh, confirmed, recognised when decisive, free of chatter |
| Obstacle tracker (`cargo_obstacle_tracker.cpp`) | tracks with five counters of evidence each | one update per frame | a warning names an obstacle seen in each of the last frames |
| Cargo bottom fusion (`cargo_bottom_fusion.cpp`) and the gate before it | last stable height, held height, pending jump | one update per frame | the bottom neither jumps on too little nor stays wrong |
| Cargo geometry fusion (`cargo_geometry_fusion.cpp`) | window of measurements, frozen size and its authority | one update per frame | size and authority follow measurements of this load |
| Origin of the load (binder, baseline, revealed support, empty-hook height) | history of the empty hook, pending origin, bound component, lift | gravity callback and frame | what a load is compared with is older than the load |
| Identity authority (`cargo_physical_identity_authority.cpp`) | histories, frozen reference, two boundary edges, locks, owner | one update per frame | a load is identified only against a height seen at rest before its boundary |
| Cargo lock (`updateHookCargoLock`) | candidate / locked / lost / retired track, held pose, rearm counters | gravity callback, frame | nothing kept for a lost load outlives what was measured of it |
| Payload tracker, dynamic events (legacy) | tracks, boxes, denied volumes, sessions | one update per commit | what is removed and protected follows what was seen |

**From there to the controller**

| part | state it keeps | operations | correct when |
|---|---|---|---|
| Safety pipeline (`updateAndPublishCargoSafetyPipeline`, fusion, composer) | clear authority, pending static hazard, review episode, removal authority | two reads of the hook per frame, decide, publish | a published status satisfies the contract of its reader and rests on this load |
| Safety temporal filter (`cargo_safety_temporal_filter.cpp`) | last stamp, candidate and count, confirmed code | `update` per frame | 14/17/18 are reported exactly when the last frames say so |
| Alarm heartbeat node (`cargo_alarm_heartbeat_node.cpp`) | code, four reference times, last status, latched topic | `statusCallback`, `heartbeatCallback` | a code that claims knowledge is fresh, explained, and what the topic carries |
| Swing monitor (`cargo_swing_monitor.cpp`) | three latched alarms with timers | one update per frame | no alarm ends early or on what was not seen |
| Forbidden zone node (`cargo_forbidden_zone_node.cpp`) | track, displayed box, state machine | message, timer, update | a green box was measured |

**Pose and map**

| part | state it keeps | operations | correct when |
|---|---|---|---|
| Registration gate (`processCloudThread`, circuit breaker, EKF) | breaker streaks, EKF counters, fitness of the last frame | one frame, restarts | only a trusted measurement of this frame feeds a map |
| Stationary motion (`stationary_motion_policy.cpp`) | hold, anchor, catch-up count | one frame | after a hold maps wait for the pose to catch up |
| Relocalization (`ndt_relocalizer.cpp` and the node) | state, counters, one job, one result | frame, worker, services | a pose that was given up is believed by nobody; a forced search starts |
| Loop closure (`loop_closure.cpp`) | keyframes, request, result slot | request, worker, application | keyframes and pose stay in one frame |
| Map commit (`mapCommitThread`, rebuild threads) | bounded queue, keyframe database, raw layers, completion slot, gate | enqueue, commit, complete, rebuild, swap, boundaries | no committed keyframe is lost, none crosses an epoch |
| Commit filters | job of one frame | five reads of the hook, filter | a loaded hook keeps its points out of the map |
| Clean-map worker and bundles | layers, generation, sealed bundle, two epochs, flags, result slot | owner turns, build, seal, publish, boundaries | published layers are of one build and never go back |
| Static evidence index (`static_obstacle_evidence_index.cpp`) | cells with counts, maturity, denials | observe, deny, confirm, save, load | a cell is mature only on observations since the last denial |
| Persistent tiles, persistent evidence, map sessions | files, catalogues, markers | flush, retry, start, save, load | a crash or failed write leaves what was committed |
| Threads and shutdown (`~NdtSlamNode`) | predicates, flags, condition variables | wait, notify, stop, join, flush | results are taken, the last flush is last |

`PROJECT.json` lists every part, with the ones not modelled and why, and every
hazard at its line with the properties that guard it.

### 1.2 Who talks to whom

```
 LiDAR --> pointCloudCallback --> cloud_queue_ --> processCloudThread (owner) ----+
 /gravity -> HookLoadState node --> hook snapshot ------^    |  ^                 |
                                                             |  |                 v
   services reset/load/rebuild --(runtime + lifecycle mutex)-+  |      CargoSafetyStatus
            relocalize (no lock) ----------------------------+  |         |       |
                      map_commit_queue_                      |  |         v       v
          owner ------------------------> mapCommitThread    |  |   forbidden   alarm
          owner --start--> clean worker --result slot--> owner  |     zone    heartbeat
          owner --start--> rebuild threads, loop worker --------+                 |
          owner --job----> NdtRelocalizer --result slot--> owner                  v
          owner --request--> mapPublicationThread --> map topics           controller
          commit, owner --dirty tiles--> flush worker --> files
```

- The owner holds `runtime_state_mutex_` for a whole turn. Services take it and
  `map_commit_lifecycle_mutex_`, so they run between turns and between commits;
  `relocalize` takes neither.
- Clean, rebuild, loop and relocalization workers compute on copies, outside
  every lock. What protects a result is a comparison of versions and epochs when
  it comes back.
- Flags (`*_running_`, `*_pending_`, `*_ready_`, `shutdown_`) are atomics written
  outside the mutexes; the order of two such stores matters, and a notification
  may fall between a predicate and its wait.
- The gravity callback runs beside the owner: a frame that reads the hook more
  than once may see two values.
- The safety path has two unrelated clocks: source stamps (which a replay sets
  back and a frozen driver repeats) and the wall clock (which may be stepped).

### 1.3 What is hard about it

1. **Late results.** A build, a rebuild, a search or a loop closure describes a map
   or a pose that may have been replaced since.
2. **Two stores that are not one.** `running = false; ready = true`; several files
   and two catalogues; index file and manifest.
3. **Two kinds of epoch**, advanced together on some boundaries and not on others.
4. **Evidence over several frames.** Windows and counters are updated on several
   paths, of which only some reset them; loads, tracks and pose authorities change
   in between.
5. **Two clocks**, either of which may stand still or step back.
6. **Crashes** between any two file operations, and writes that fail.
7. **Starvation and lost wake-ups.** The owner prefers frames; condition variables
   keep no notification.

## 2 The modules

Every component module follows one form: CONSTANTS with their named assumption,
one variable per member of the code (the comment of its declaration names the
member), one action per handler, thread section or step, and the properties at the
end. A comment at the head of the module says what is abstracted; the most
important abstractions are repeated here. `PROJECT.json` maps every definition to
the lines it stands for. Definitions whose comment begins with "Mutant" are
plausible slips used to test the properties and are not part of any `Next`.

### 2.1 Sensors and load

| module | actions and what they stand for | abstraction |
|---|---|---|
| `HookLoadFilter` | `Voltage` follows one of the six paths of `ingest`, `Tick` one of the three of `tick`; both clocks are read afresh and may go anywhere | voltages and times are whole steps |
| `ObstacleTracker` | `Update` associates, ages and decides; `Repeated`, `Rollback` | places on a line; cost is distance |
| `CargoBottom` | a frame through the formal vertical gate and `CargoBottomFusion::update`; `Reset` | heights are steps; the box moves with its bottom |
| `CargoGeometry` | a frame through `CargoGeometryFusion::update` and the write-back of the frozen size | width is treated as length is |
| `OriginHeight` | `Record` / `Recording` (owner), `HookEdge` (gravity callback), resets; the owner works on a copied snapshot | stamps are ages |
| `LiftOrigin` | baseline, binder and revealed support in one frame; components mature at any time | a component is the place it stands on |
| `IdentityAuthority` | `Frame`: histories, reference, the two edges of the boundary, locks, rescue, handoff, owner; `RepeatedFrame` | a group is the outcome of each geometric test |
| `CargoLock` | `Gravity` (callback) between `Begin` (edges, admission) and `Update` (the lock) | a detection is what the lock asks of it |
| `PayloadTracker` | `Commit`: clusters, tracks, boxes, removal, denial, sessions; resets | a cluster is place, motion class and size |

### 2.2 Safety

| module | actions and what they stand for | abstraction |
|---|---|---|
| `StatusContract` | `validateStatusContract` as one predicate | metric fields are the bands thresholds tell apart |
| `AlarmHeartbeat` | `StatusCallback`, `HeartbeatCallback` whole; a source that freezes, repeats, restarts, dies; a wall clock that steps back | whole ticks |
| `SafetyTemporalFilter` | one action per path of `update`; the history variable `log` | centroid, distance and clearance are one place |
| `AvoidanceDecision` | operators: fusion, commit of the hazard, hook evidence, composer | a distance is one of five bands |
| `SafetyPipeline` | `BeginFrame` and `FinishFrame` with `HookChanges` between them; `PoseJump`; the published status is judged by `StatusContract` | recognition is an input; legacy product path |
| `CargoSwing` | one update of one of the three alarms | the statistics of the history are classes |
| `ForbiddenZone` | payload message, marker timer, `Update` | a box is a place and two flags |

### 2.3 Pose and map

| module | actions and what they stand for | abstraction |
|---|---|---|
| `RegistrationGate` | five kinds of frame (skipped, bootstrap, exception, unusable, registered), relocalized, loop corrected, time rollback; `Report` is what the frame publishes and writes | a score is how it compares with the thresholds of the moment |
| `StationaryMotion` | `Frame`, `Relocalize`, reset | a short rail, at most one step per frame |
| `Relocalization` | two halves of a frame, worker start and finish, services between them | only differences of frame numbers matter |
| `LoopClosure` | request, detection, slot, owner's application, boundaries | a pose is the frame it is expressed in |
| `MapCommit` | owner, committer, two rebuild threads section by section, boundaries | a pose is the number of corrections it includes; the raw layers are pairs of keyframe and pose |
| `CommitFilter` | the five reads of the hook one by one, then the worker's filters | a frame's points are load, person, structure |
| `CleanMapWorker` | an owner turn as one action per section another thread can see; the worker's stores in the code's order; committer, rebuilder, publisher, five boundaries | layers are their version; an observation batch is a token with its epoch |
| `StaticEvidenceIndex` | one cell: observe, deny, confirm, save, load, epochs | cells do not influence each other |
| `EvidenceManifest` | index file, manifest, marker, each write, rename, failure and crash | a snapshot is its generation and revision |
| `PersistentTiles` | append, flush, write of each file, catalogue, save, final flush, crash, start | a file is the set of keyframes in it; hash and size stand for that content |
| `MapSession` | save piece by piece, verification, rename, staging, installation | contents are the identities the manifest records |
| `NodeLifecycle` | every wait split into predicate, block and wake-up; timers; the destructor | one background thread stands for all |

`DurableMap` is the abstract specification of the persistent map: an append-only
store whose crash leaves the last commit and whose start serves exactly that, or
refuses. `PersistentTiles` implements it; the mapping takes the catalogue as the
stored content.

### 2.4 How they fit together

`SafetyPipeline` composes the decision (`AvoidanceDecision`) with the contract of
its reader (`StatusContract`), which `AlarmHeartbeat` extends: a status that leaves
the first is one the second accepts (`StatusReachesAlarm`). `CleanMapWorker` and
`MapCommit` are two views of one node that share epochs and boundaries: the first
takes a commit as two steps and has the clean layer in detail, the second has
commits and rebuilds in detail and no clean layer; `CleanMapWorker` lets a commit
happen at any time outside a service, which is what `MapCommit` allows.
`CommitFilter` and `PayloadTracker` detail what happens inside one commit,
`LoopClosure` where the corrections of `MapCommit` come from, `NodeLifecycle` the
waiting of all threads with their work reduced to flags. `StaticEvidenceIndex` is
the cell behind the tokens of `CleanMapWorker`, `EvidenceManifest` and `MapSession`
its files.

The MC modules put components that do not share state into one run: `comp`
chooses one component at the start, the others keep their initial values, so the
state spaces add up instead of multiplying. Each MC module EXTENDS one component and
takes the others as instances (`O == INSTANCE ObstacleTracker WITH ...`); the proof
module that extends the MC module proves the theorems of all of them, `O!Spec => ...`
for an instance, under the very names and constants the run checks.

## 3 The runs

Twelve runs. Every property of a passing run has a mutant: a plausible slip in the
mapped code under which TLC finds the property violated with the run's own
configuration.

| run | distinct states | properties | shows |
|---|---|---|---|
| `alarm` | 94,876 | `FreshAuthority` `StatusExplainsCode` `LatchedIsCurrent` `ClearNeedsNewEvidence` `SilenceIsReported` | no combination of a frozen, repeated, restarted or dead source with a stepped wall clock keeps an old claim alive or restores CLEAR, and silence becomes 30 for good |
| `measurement` | 168,532 | `ValidIsFresh` `DecisiveIsRecognised` `TransitionIsConfirmed` `ChatterIsRejected` `WarningIsEarned` `BottomIsSound` `GeometryIsEarned` `OriginsPredateTheLoad` | what is concluded over several frames rests on consecutive evidence of this load, and is not withheld for good |
| `tracking` | 193,754 | `GrantsAreEarned` `OnlyTrustedFramesWrite` `TrackerFollowsEvidence` | a load is identified only against a height seen at rest before its boundary; a frame feeds a map only with a trusted measurement of its own, and after a hold only once the pose has caught up |
| `cargo` | 530,871 | `StatusReachesAlarm` `AuthorityOfThisLoad` `ReviewEnds` `PublishedIffBacked` `SwingAlarmIsKept` `GreenBoxIsBacked` | the status that is published satisfies its reader's contract, is backed by frames of this load, and alarms and boxes are neither dropped early nor kept for what was not seen |
| `clean` | 4,159,178 | `LayersAreOfOneBuild` `LayersMoveForward` | all five boundaries, commits and swaps around a running build |
| `map` | 564,026 | `CommitsAreKept` `LoadedCargoStaysOut` `CellsAreEarned` `EvidenceIsDurable` `SessionIsConsistent` | keyframes on their way into layers, evidence and sessions: none lost, overwritten or taken over an epoch; evidence and sessions survive crashes and failed writes as one |
| `threads` | 122,795 | `FlushIsLast` `OneFrame` `CleanConverges` `ResultsAreTaken` `DetectionIsServed` | under fair threads the clean layer converges, results are taken although notifications get lost, requested detections run, the final flush is last |
| `recovery` | 430,704 | `TilesKeepKeyframes` `ImplementsStore` `LockIsMeasured` `RearmEnds` `NoPoseWithoutEvidence` `ForcedSearchStarts` | a lost load, a lost pose, a lost process: nothing retained outlives its evidence, the waits end, and the tile map implements an append-only store |
| `session_reload` | | `SavedSessionLoads` violated | finding 1 |
| `index_reload` | | `SavedIndexLoads` violated | finding 2 |
| `static_hazard` | | `StaticHazardWarns` violated | finding 3 |
| `shutdown` | | `ShutdownEnds` violated, under fairness | finding 4 |

### 3.1 Bounds, and why they are enough

- **alarm**: `StaleTimeout = 2` separates fresh, one tick old and expired. Two
  positive stamps and 0 give new, repeated, older and unusable. One backward step
  of the wall clock at any time and to any time; a step resets the reference, so a
  second repeats the effect. The pipeline publishes before `Horizon = 3`;
  `MaxWall = 5` lets the last message expire. One message per outcome of the
  contract: clear, hazard, pending, hard fault, inconsistent.
- **measurement**. Hook: one voltage in or on the border of each band that classes
  and hysteresis distinguish, out of range and NaN; source times for two successive
  confirmations. Obstacle, bottom, geometry, lift: every window is the smallest that
  tells "one frame" from "in a row" (2 or 3), a frame longer than the gap, a change
  of track, of pose authority and of lifecycle. Height: two hook phases, so that a
  sample of the first may reach the second. Bottoms between -4 and 4, a frozen height
  and a `MAP_DIFF` prior of another thickness, so that the best prior changes;
  `Settle = 5` frames of rest hold the gate (2), the confirmation (2) and one more.
- **tracking**. Registration: warm-up, opening and recovery count 2 each, so that a
  streak can be broken in the middle; both yaw modes. Identity: gap and time to live
  1, confirmation 2, at most two groups in a frame. Stationary: a rail of three
  places, hold and confirmation windows 2 and 3. Payload: one more missed frame than
  allowed, one session slot.
- **cargo**. Temporal: hazards confirm after 3 frames and clears after 2, four
  stamps with `MaxGap = 1`, two places, two authorities. Pipeline: two tracks, two
  pose epochs, a review of at most one frame with a cooldown of two. Swing: timers of
  1 to 4 frames, each shorter than the next. Zone: switch after 3, hold 2, one lost.
- **clean**: two commits and one boundary of each of the five kinds at any point,
  one swap of the raw layers beside one other change (`SwapWithOneOther`);
  `MaxDeferral = 1` and `CommitInterval = 2` make both counters count.
- **map**. Commit: a queue of 2 and up to three frames fill and coalesce it,
  `MaxActive = 2` makes the active rebuild drop one, up to two loop closures and
  active rebuilds and one boundary, four changes together (`FourChanges`). Index:
  four builds, two epochs, stamps with and without a gap. Manifest: four revisions,
  two boundaries. Session: three changes while it is saved.
- **threads**: a commit queue of 1 and two clouds; one commit and one rebuild for
  the clean build, which may fail; two keyframes and one boundary for the loop.
- **recovery**: two tile files (one of the registration layer, one other), two
  keyframes, a disk that may be low; crashes and failed writes are not bounded. Lock:
  two places, every window 1 or 2. Relocalization: two corrections, two
  confirmations.

Deadlock is checked in `alarm`, `measurement` and `recovery`. The other
specifications may really stop: their frames, commits, boundaries and epochs are
bounded, and a node whose destructor has ended does nothing more.

## 4 Fairness

- `AlarmHeartbeat`: time passes, the wall timer fires, roscpp's spinner serves a
  queued message. Nothing obliges the pipeline to publish; that is what
  `SilenceIsReported` is about.
- `CleanMapWorker`: each thread that can run does (owner, worker, publisher; a
  commit or rebuild that has begun finishes), and the wall timer fires. Frames,
  commits, rebuilds and services need not happen. `CleanConverges` also assumes
  `WindowSometimesFree`: an *unforced* maintenance turn looks at the queue at the
  loop head (`ndt_slam.cpp:5457`) and again in `runMapMaintenanceIfIdle` (5335); if
  a frame arrives in between, the turn gives up, but the deferral counter was
  already reset (5488). A schedule in which a frame falls into this window every time
  defeats the bounded time slice that 30433 promises. The window is microseconds
  against a frame period of 100 ms; without this assumption `CleanConverges` is
  violated.
- `NodeLifecycle`: threads run when they can, the timers fire while ROS spins, a
  destructor that was entered goes on. Clouds and the end of the process need not
  come.
- `LoopClosure`: the worker runs; the forced time slice bounds how often maintenance
  yields to frames, which is strong fairness of the maintenance turn.
- `CargoLock`: clouds keep arriving. `Relocalization`: clouds keep arriving and
  usable ones among them (strong fairness, because a search that runs makes the
  frame's gate change in between); the search ends, as its candidates and iterations
  are bounded.

`CleanConverges` has three exemptions, each a behaviour of the code: commits that
have not reached the maintenance interval; a build that failed or belonged to
another lifecycle epoch, which `consumeCleanMapRebuildResult` drops without
scheduling another; and, for the publication, a bundle without layers
(observation 2 below).

## 5 The proofs

Eight modules prove 42 theorems about twenty-six components, for every value of
their constants. They state every safety property the runs check: all invariants and
all action properties, and the refinement of `DurableMap`. Each component has an
inductive invariant (`IInv`, or the name of the component before it) that TLC checked
before it was proved, one lemma per action or step of a handler, and a theorem
`Spec => []P` or `Spec => [][A]_vars`.

| module | theorems (property, when the names differ) |
|---|---|
| `AlarmHeartbeatProofs` | `TypeCorrect`, `Freshness` (`FreshAuthority`), `Explained` (`StatusExplainsCode`), `Latched` (`LatchedIsCurrent`), `ClearIsEarned` (`ClearNeedsNewEvidence`) |
| `MeasurementProofs` | hook filter: `TypeCorrect`, `Freshness` (`ValidIsFresh`), `NoChatter` (`ChatterIsRejected`), `DecisiveIsSeen` (`DecisiveIsRecognised`), `Confirmation` (`TransitionIsConfirmed`); obstacles: `WarningsEarned` (`WarningIsEarned`); origins: `OriginsPredate` (`OriginsPredateTheLoad`); `BottomSound` (`BottomIsSound`); `GeometryEarned` (`GeometryIsEarned`) |
| `TrackingProofs` | registration: `TypeCorrect`, `TrustedWrites` (`OnlyTrustedFramesWrite`); identity and stationary motion: `GrantsEarned` (`GrantsAreEarned`); payload: `TrackerFollows` (`TrackerFollowsEvidence`) |
| `CargoProofs` | temporal filter: `TypeCorrect`, `Published` (`PublishedIffBacked`); pipeline: `StatusReaches` (`StatusReachesAlarm`), `AuthorityIsOwn` (`AuthorityOfThisLoad`), `ReviewIsBounded` (`ReviewEnds`); zone: `GreenBoxBacked` (`GreenBoxIsBacked`); swing: `SwingAlarmKept` (`SwingAlarmIsKept`) |
| `MapProofs` | commit: `TypeCorrect`, `CommitsKept` (`CommitsAreKept`); filters: `LoadStaysOut` (`LoadedCargoStaysOut`); index: `CellsEarned` (`CellsAreEarned`); manifest: `EvidenceDurable` (`EvidenceIsDurable`); sessions: `SessionConsistent` (`SessionIsConsistent`) |
| `CleanMapWorkerProofs` | `TypeCorrect`, `OneBuild` (`LayersAreOfOneBuild`), `Forward` (`LayersMoveForward`) |
| `RecoveryProofs` | tiles: `TypeCorrect`, `KeepsKeyframes` (`TilesKeepKeyframes`), `Implements` (`ImplementsStore`); relocalization: `PoseHasEvidence` (`NoPoseWithoutEvidence`); lock: `LockMeasured` (`LockIsMeasured`) |
| `ThreadsProofs` | threads: `TypeCorrect`, `FlushLast` (`FlushIsLast`); loop closure: `FramesAreOne` (`OneFrame`) |

### 5.1 What is assumed

The assumptions on the constants are named in the module that declares them, and TLC
evaluates them in every run. Those that say more than "a number is a number" or "a
frame has these fields":

| assumption | why the code satisfies it |
|---|---|
| `HookConstants` | what `configValid` accepts |
| `TemporalConstants` | both confirmations at least 2, as the filter's `configValid` asks |
| `RegistrationConstants` | positive confirmations; `validConfig` asks for two |
| `ObstacleAssumption` | positive numbers of frames; the tracker refuses fewer than 2 (`cargo_obstacle_tracker.cpp:389`, 393) |
| `BottomAssumption` | a jump needs at least one frame (`cargo_bottom_fusion.cpp:122`); one prior for each source, since an observation has one member for each; one tick is shorter than `stale_reset_sec` (`cargo_bottom_fusion.hpp:85`). `TopGap + JumpFrames <= Settle` is about the model: the history of rest is long enough to ask the question |
| `GeometryAssumption` | positive windows and counts; `cargo_geometry_fusion.cpp:139`-184 refuses others |
| `LockAssumption` | the two timeouts are ordered and a suspension needs a frame (`ndt_slam.cpp:2576`, 2613) |
| `CommitConstants`, `LifecycleConstants`, `LoopAssumption` | queue, window and database hold something |
| `CleanConstants` | boundaries of the five kinds, a positive interval |
| `SwingAssumption` | ages saturate above the longest gap: `Cap` is a bound of the model, not of the code |

Nothing is assumed about the content of frames, messages, clusters or detections, of
which there may be any number of any kind. Two theorems have hypotheses of their own,
about the role the configuration gives the hook signal (shipped:
`role: "auxiliary"`, `config/live_longterm_mapping.yaml:681`):

- `StatusReaches` asks for `REQUIRED`, or that no frame whose recognition found no
  cargo carries an envelope of an identified load. In the other roles such a frame
  would be published with `no_cargo_confirmed` beside a positive code, which the
  reader refuses; recognition and identity come from the same frame, so the case is
  that of one contradicting the other. The frames of the `cargo` run have none, and
  it uses `REQUIRED`.
- `AuthorityIsOwn` excludes `DISABLED`: without a hook signal nothing separates two
  loads, and the evidence of a clear is not dropped between them.

### 5.2 The arguments

Why each invariant has to be stronger than the property it serves.

**AlarmHeartbeat.** `FreshAuthority` orders progress, receipt and the newest wall
reading (`lastProgress <= lastReceipt <= lastObserved`); that order, not just
"progress is recent", survives a backward step of the wall clock. Lemma
`CodeAfterIngest` says what a status callback may leave in the code; the other
theorems rest on it.

**HookLoadFilter.** Two invariants. `Inv` adds to types that a filter with nothing
pending repeats the stable state (`IdleIsStable`: otherwise a sample would continue
a transition that has no start), that a known state rests on the receipt time that
is compared with the timeout (`KnownIsHeard`), and that the voltage which confirmed
a state lies in its band (`SettledInBand`). The separation of states is a fact about
`classify` alone (`ClassifySeparates`). `Window` is about the history of samples:
stamps increase (`SamplesInOrder`), the pending transition *is* the run of the last
samples, started when it says (`PendingRun`), a run that would have confirmed is not
pending (`PendingUnconfirmed`, so the cap of the counter never acts), and a run of
decisive samples is always counted in full or already recognised
(`DecisiveRunIsCounted`). The last is the hard direction: it says that no path of
`ingest` forgets a sample.

**ObstacleTracker.** A track that was seen in this frame and counts `n` valid ones is
`Backed`: each of the last `n` frames showed, validated and under the track's pose
authority, an obstacle as many steps away as frames have passed. `Backed` must hold of
a track *before* it is known whether the frame matches it, so the step is proved for a
track that waits, then for the one that gets an observation, then for the loop over
observations. A far history or a certificate that excuses a track from being far has
its root in an observation of the same authority (`Rooted`), for a track may live on
while the authority changes.

**OriginHeight, LiftOrigin.** Every retained sample and the pending origin are of the
present phase of the hook, and an origin is pending only while the hook is not EMPTY
(`HeightIInv`): a late recording on a copied snapshot can add a sample but not of an
older phase. A component that is bound and static is approved or was mature at the
boundary (`Older`), which only a new lifecycle moves, together with the binding.

**CargoBottom.** Two histories. `Streak`: a pending jump that has counted `n` frames is
the last `n` measurements, all of the pending source. `Resting`: a supported top that
does not move is either still `Waiting` at the vertical gate, whose age grows with
every frame of rest and is at most its limit, or `Through` it; and then, for the best
prior, the published height is already near, or the frames that ask for it are being
counted, at least as many as have passed since the gate could last have held it. The
sum of both limits bounds the wait. The proof found that `JumpIsConfirmed` was false
for larger confirmations when a *held* bottom comes back: the frames that hold the
last good height count towards its return although nothing measured it
(`stable_hold_sec` is longer than three frames). The property now speaks of
measurements, and 6.2 records the behaviour.

**CargoGeometry.** What a counter or window says must be the end of a history that the
code does not keep. The formal thickness window and the promotion count hold no more
than the formal pairs seen (`FullPairs`); the run that would let the footprint grow
is made of the last frames, each of which supports the new length (`Growing`); what
the shrink window holds are the last frames, each smaller than the frozen size
(`Shrunk`). Windows slide (`Slid`, `Pushed`), and a median is one of the entries it is
taken from (`MiddleIn`), so a size that follows a median was measured. The property is
about one lifecycle: a configuration with one confirming frame freezes in the first.

**IdentityAuthority.** Everything that identifies a load, or lets another thing do so
(histories, both edges, the handoff, the lock, the remembered identity) goes back to a
height that was frozen or confirmed while the hook was EMPTY (`ReferenceIsGrounded`);
each of the seven places has to say so, because each is copied from the others on some
path. An edge that waits for its partner is not younger than the last edge seen
(`EdgeIsDated`), so two edges that meet lie within the gap.

**StationaryMotion.** `complete` never exceeds the settled frames since the hold, and
a moving pose has had all of them (`MotionIInv`).

**PayloadTracker.** A track's jumps are at most the estimates in a row that asked for
a larger box, a session's stable count at most the updates in a row that saw it at
rest. Histories belong to a track, so the proof needs that ids are unique
(`Distinct`), and that every track of a keyframe is new or descends from the one with
its id through association, update, and expiry.

**RegistrationGate.** The number of good matches since the breaker opened is the one
the breaker counts, below the required number while it is open and equal to it once
it is closed (`TrustIsCounted`). Without it, "closed" says nothing about how it was
closed. `TrustFollows` proves it for every branch of the breaker's `update`,
`ReportEffect` that whatever survives from earlier frames (convergence, fitness, EKF
acceptance) cannot write without a measurement of this one.

**SafetyTemporalFilter.** The candidate is a run of evidence at the end of the log
as long as its count (`CandidateIsRun`), and no run is longer (`CountIsLongest`).
Together they make the window of the code and the reference over frames the same.

**SafetyPipeline.** Four independent parts over one typing. `ClearsHold`: every clear
frame that is counted was published for this load, in this map frame and by this
authority (`Earned`), unless the next frame starts over because the hook was loaded
anew or emptied (`Renewed`, `Dropped`); the exceptions are needed because the hook may
change between the two reads of a frame. `OwnerHolds`: a removal authority belongs to
the lifecycle under the hook. `ReviewsHold`: the reviews asked for in a row are those
of the present episode, or of a load or a map frame that cannot come back, since
lifecycles and pose epochs only grow. `StatusHolds`: the composed status passes
`ValidateStatusContract`, split along the decision's outcomes, then the hook's role;
it is the composition of two modules written apart.

**CargoSwing.** Hold timers do not begin before the alarm does (`AlarmIsHeld`); a
release timer runs only while measurements show the end, or a gap that stopped it is
still to be noticed (`ReleaseIsSeen`); a monitor that knows no anchor holds nothing
(`UnknownIsEmpty`).

**ForbiddenZone.** A box that a message took away is not in the display again before
a message brings a new one (`ClearedStaysAway`), although display and machine advance
on a timer of their own.

**MapCommit.** `SwapIsComplete` is the heart: a rebuild whose snapshot may be swapped
in has every recent keyframe that is written and the one about to be written, or its
flag is raised and it starts over. It needs `JobIsNewest` (the job in hand is newer
than every keyframe until it is added, and the newest after), `QueueIsNewer` (so
numbers identify keyframes), `LockedIsCurrent` (under the lifecycle mutex the job is
of this epoch: this is what the second check is for), `WorkersRun` and
`FramesApplied`. The keyframes must be finite for "recent" (the newest `MaxActive`)
to mean anything; lemmas `RecentAfterAdd`, `RecentAfterCorrection` and
`NewestIsRecent` say how an addition and a correction change them.

**CommitFilter.** A job that waits for the worker and saw the hook loaded carries an
authority to remove the load, or the quarantine of its points (`LoadIsOwned`): the
five reads of the hook may disagree, but each order of them ends in one of both.

**StaticEvidenceIndex.** A cell counts no more than was observed since the last denial
(`CountIsSeen`) and the tombstone is not older than that denial
(`DenialIsRemembered`); a load opens an epoch and starts both from the file.

**EvidenceManifest.** Wherever the writer stands, the index file it will name or has
named is there (`WriterNamesItsFile`), and a change that came after its snapshot has
raised the dirty flag again (`LaterChangeIsFlagged`): a flush takes
the flag when it begins, not when it ends, and whatever fails raises it again.

**MapSession.** Stamps of evidence only grow, by epoch and then by revision (`Older`),
although a load installs any revision: it opens an epoch. So what a save took at the
beginning is the present evidence or older (`SavedIsPast`), and after the second
comparison bundle and evidence were current together at one instant
(`TakenTogether`).

**CleanMapWorker.** Versions and epochs are never ahead of the events that issue them
(`Issued`), so a fresh number is a new one. A call of `consumeCleanMapRebuildResult`
that has not returned is counted (`PassesLeft`); `running` covers exactly a build
and its result, and a job starts only when the previous thread is gone
(`BuildIsRunning`). `PublishedInOrder` chains three bundles: the sealed one is not
older than the snapshot being sent, nor that than what was published, where "not
older" means sealed later or the same one bound to a later epoch; the relation is
transitive, and each step moves one end of the chain.

**PersistentTiles.** A batch under way is everything there was (`BatchIsAll`: the
flush took the retry with it), each of its files is to do, failed or on disk
(`BatchProgress`), and a keyframe known to batch or disk is there with all its layers
(`BatchIsWhole`): hence a catalogue written when nothing failed is whole. Files only
grow and contain what is catalogued (`CatalogOnDisk`). `Implements` shows every step
of the detailed module to be a commit, a start, a refusal, a stop or a stutter of
`DurableMap`.

**Relocalization.** The pipeline has a status only while the pose is reliable, inside
a frame too (`StatusHasPose`), and a loaded map keeps its search forced until one was
confirmed (`LoadedMapIsForced`).

**CargoLock.** A confirmation window that still runs counts no frame that the streak
of its place has not (`InRow`); a retained lock has its height and its physical
measurement from one frame, and its trusted pose is at most the soft limit younger
(`MeasuredAtOnce`). Each state of the lock has a lemma that says what a frame makes
of it.

**LoopClosure.** A snapshot of the present pose version is in the frame of the pose,
and whatever keyframe it lacks was added since and has a larger id
(`SnapshotIsCurrent`); a result of the present version corrects exactly that frame,
for the snapshot's keyframes and the later ones (`ResultIsCurrent`). Any other result
is dropped.

**NodeLifecycle.** The commit thread ends only told to and with no job left, and
gets none after that (`CommitEndedEmpty`); the flag that tells it is raised in the
step that begins to join (`DownIsJoining`).

**Loops.** Frames bring any number of observations, clusters, groups and sessions,
and windows have any length, so the loops over them need induction. The library's
induction theorems cannot be instantiated here, but their set forms can: lemma `Least`
(a non-empty set of naturals has a least element, from `WFMin` and
`NatLessThanWellFounded`) gives lemma `Induction` for a set of naturals; a loop is a
recursive *function* over the number of elements handled, shown to satisfy its
equation, and "what holds after `n` elements" is the set. No module with a theorem
reaches a `RECURSIVE` operator.

### 5.3 Only model-checked

The six liveness properties (`SilenceIsReported`, `CleanConverges`, `ResultsAreTaken`,
`DetectionIsServed`, `RearmEnds`, `ForcedSearchStarts`), which need `ENABLED`, out of
the prover's reach; the absence of deadlock in `alarm`, `measurement` and `recovery`;
and the four violated promises, which are counterexamples. That the set-based median
of `CargoGeometry` is the element a sort would put in the middle was checked by TLC on
all windows of up to five entries from 0 to 4; the proof uses only that it is one of
the entries.

## 6 Where code and documents disagree

### 6.1 Findings, each with a run

1. **A saved session that cannot be loaded** (`session_reload`).
   `releaseOldKeyframeClouds` (`ndt_slam.cpp:12796`) frees the clouds of old
   keyframes; `saveKeyFrameDatabase` writes no PCD for them, while the manifest
   counts them. The save passes its own verification and becomes visible;
   `load_map` refuses it.
2. **A saved evidence file that cannot be loaded** (`index_reload`).
   `confirmCleanCells` inserts a cell with a count of 0
   (`static_obstacle_evidence_index.cpp:365`), `saveSnapshot` writes it, and
   `loadSnapshotCandidate` rejects a file with such a cell (804), and all of it.
3. **A hazard of the static map is never a warning of its own** (`static_hazard`).
   `fuseCargoAvoidanceRisk` asks for `certified_static_provenance`
   (`cargo_avoidance_fusion.cpp:334`), which no production code sets, while
   `ndt_slam.cpp:27449` says positive hazards may come from either source.
4. **A shutdown that may not end** (`shutdown`). `~NdtSlamNode` sets `shutdown_` and
   notifies (993–994) without `queue_mutex_`, after the wall timers were stopped. An
   owner between its predicate and its wait misses the notification and is joined
   for ever; the final flush is not reached.

### 6.2 Observations

Definitions that state what a comment or document promises and the code does not
keep are left in the modules under their names, for reuse in a run of their own:

| definition (module) | code |
|---|---|
| `FinishedBuildIsTaken`, `NoObservationCrossesEpoch` (`CleanMapWorker`) | `running` is lowered (5082) before `ready` is raised (5084), so a finished build may be overwritten; cells of a dropped build return to the accumulators of the new epoch (5132) |
| `KeyframesInOneFrame`, `CorrectionReachesMap` (`MapCommit`) | a job queued before a loop closure is committed with its old pose in LEGACY mode (10179); a rebuild requested while the thread ends is not run (9069, 8915, 8957) |
| `FoundLoopIsApplied` (`LoopClosure`) | a worker started later in the same turn may overwrite the result |
| `EmptySurroundingIsClear`, `HygieneFollowsRemoval` (`SafetyPipeline`) | `selected_embedded_authorized` is only set at `cargo_obstacle_tracker.cpp:1101`; removal of the load's points from the map is decided (25622–25627) before removal from the registration input (25768), which may not follow |
| `LowerBottomIsNotHidden`, `ReacquisitionIsConsecutive` (`CargoBottom`) | a held bottom hides a lower one (25483; `cargo_bottom_fusion.cpp:1129`); frames of a reacquisition need not be in a row (764) |
| `HookPolicyHolds` (`CommitFilter`) | `allow_commit` is not asked at 29858 |
| `FormalLiftNeedsBoundary` (`IdentityAuthority`) | the formal lift at 2188 does not ask for an authorised boundary |
| `OnlyEmptyRetires`, `OwnerMeasuresTheTrack`, `LockedHasOwner` (`CargoLock`) | LOADED, UNKNOWN, LOADED resets the lock (5710); an owner may be refreshed without a measurement (18731); a lock may be LOCKED without owner (18633) |
| `NewTrackIsConfirmed`, `JumpIsRejected`, `ExpiredBoxStaysAway` (`ForbiddenZone`) | 541 and 601; 803 and 907; 804 and 834 of `cargo_forbidden_zone_node.cpp` |
| `EdgeResetKeepsOrigin` (`OriginHeight`), `OriginPredatesLoad`, `LiftStaysConfirmed` (`LiftOrigin`) | the reset for an EMPTY edge works on a copy of the snapshot and may wipe the origin of the new load (4541–4547); a gravity stream that falls silent and comes back LOADED starts a new lifecycle, with a new boundary, under the same load (845, 20596); carrying a load of unmapped origin past a static component upgrades the origin and restarts the confirmation (binder 203–233) |
| `SwayReleaseIsObserved`, `TorsionReleaseIsObserved` (`CargoSwing`) | coming to rest between two measurements unsets the stamp that would reveal the gap (334–345); torsion ends on a timer (401–413) |
| `CurrentBoxIsCurrent`, `DenialIsFresh`, `SlotsAreReturned` (`PayloadTracker`) | a CURRENT_VALID box need not be a measurement of this keyframe (30644); a keyframe may deny map cells for a track neither seen in it nor within its missed frames; a session slot is not given back once its track is gone (`endPayloadSession`, `finalizeActiveEvents` and `cleanupExpiredEvents` have no caller) |
| `SessionIsWhole` (`PersistentTiles`) | a session may have a keyframe in one layer and miss it in another (comment at 11433) |
| `NoOldEpochLoaded` (`EvidenceManifest`) | a start may load evidence from before the last boundary, although `writePersistentStaticEvidence` promises to leave the file blocked |
| `RecoveredPoseStays` (`StationaryMotion`) | the frame after a relocalization may publish a pose further than one physical step from where the search put it (12059) |
| `LoadedMapNeedsRelocalization` (`Relocalization`) | a healthy registration against the new map ends a forced search (11008) |

Smaller ones, met while modelling:

1. The deferral counter is reset before a maintenance turn is known to work (4).
2. A moved-from build result keeps its scalars, passes the checks and is sealed as a
   bundle without layers (5098); the publisher refuses it (4684).
3. Near the *far* threshold the hook filter keeps the old state, so
   `DecisiveIsRecognised` speaks of voltages beyond the hysteresis. A confirmation
   window has no upper bound on the gap between its samples; only the timer's expiry
   ends it (the one hazard without a property).
4. A load edge is also recorded when gravity was INVALID before it; a load put down
   while gravity is INVALID is not an unload.
5. A fused code 33 is published as 34; a mismatch of the pending commit is published
   as 33 instead of 35; a mismatch of temporal authority as 33 instead of 31. A
   footprint distance of 0 is not selected as a hazard.
6. The temporal filter is not reset by frames that are pending or hook-only.
7. An unmatched competing observation silences the warning of a matched track in that
   cycle; `association_ambiguous` is never set.
8. A crash between the rename of a tile and that of the catalogue leaves a map the
   next start refuses; a stray temporary tile blocks session saves; `mergeAndWrite`
   replaces an unreadable tile silently.
9. `load_map` that fails its preflight drops persistence flags (comment at 10756);
   reset and load do not clear dirty tiles; a non-persistent save takes evidence and
   bundle under different locks.
10. The confirmation count of relocalization survives loop closures and rebuilds;
    "three consecutive healthy frames" (11849) are not consecutive in rail mode.
11. `shouldCommitKeyframe` moves `last_keyframe_pose_for_gate_` before the vetoes
    (12744, 7797). A time rollback restarts the rail breaker only, and is the only
    boundary that restarts `last_processed_stamp_`.
12. A review that flickers restarts its episode without a cooldown. A change of the
    hook-anchor source resets the swing alarms.
13. The clearing of the hook lock stamps the retired pose with the present on its
    untrusted path (comment at 17601).
14. The frames that hold the last good bottom confirm its own return
    (`RECENT_STABLE`, held for 0.50 s, confirmation 3), so that rise needs no
    measurement (`JumpIsConfirmed` excepts it). A held bottom relative to the centre
    drifts; the same frame may be counted twice by the gate;
    `formal_cargo_vertical_state_` is never reset.
15. The static origin and the map difference never occur together, so the pair
    "static and revealed" is unreachable; the frozen height written back serves as an
    independent bound (21905).
16. `PoseGraphOptimizer` fixes vertex 0 (`loop_closure.cpp:154`) but ids start at 1;
    `last_keyframe_pose_` is not corrected by a loop closure; the scan contexts are
    not removed with their keyframes. `addKeyFrameToLoopClosure`, the lost-count path
    of the forbidden zone and the 60 s of `shouldSuppressNewSession` are never reached.
17. `dynamic_deny_volume_map_` is read by the owner (4883) while the commit worker
    writes it (30764).

## 7 What is not modelled

- Numeric code: registration and its pre-processing, the arithmetic of the EKF,
  clustering, box estimation, scan contexts, ICP, pose graph. Its outcomes are
  inputs, and every outcome the control can tell apart is allowed.
- Rail authority (disabled in the production baseline) beyond its identities and its
  health verdict; the V6 adapter and `V6_AUTHORITY` path of the safety pipeline.
- Point selection for obstacles and people: a frame says what was selected.
- Diagnostics, log throttling, scripts, watchdog, vendored libraries.
- Data races of the C++ memory model: flags are sequentially consistent here, as the
  code's default atomics are.

`PROJECT.json` lists every part with its status and the reason.

## 8 Plan

The safety of every modelled component is proved; what is left makes the models
larger or changes the code.

1. **An abstract specification of publication**, one register of epoch, generation
   and layers that only moves forward, implemented by `CleanMapWorker`; the chain
   `PublishedInOrder` is its proof.
2. **Hook filter and lock composed**, so that the gravity snapshot the lock reads is
   one the filter publishes; likewise tracker, pipeline and temporal filter, so that
   the frames of the one are the verdicts of the other.
3. **The V6 path of the safety pipeline** and the rail authority, when a production
   configuration enables them.
4. **The definitions of 6.2 as runs**, when the code is to be changed there.
