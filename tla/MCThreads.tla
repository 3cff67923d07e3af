----------------------------- MODULE MCThreads -----------------------------
(* What must eventually happen in the node: the clean-map build, the loop  *)
(* closure worker and the node's own life, under the fairness of their     *)
(* threads. Each behaviour is one component's: comp is chosen once and the *)
(* variables of the others stay at their initial values, so that the state *)
(* spaces add up instead of multiplying.                                   *)
EXTENDS NodeLifecycle, Integers

CONSTANTS
    RailModes, MinKeyframes, Spacing, Interval,             \* LoopClosure
    MaxKeyframes, MaxActive, MaxIds, MaxBoundaries

ASSUME LoopAssumption ==
    /\ RailModes \subseteq BOOLEAN /\ Spacing \in Nat
    /\ MaxKeyframes \in Nat \ {0}

VARIABLES comp,
    cleanEpoch, sepoch, rawVersion, cleanVersion, generation, bundle,
    pendingObs, evidence, maintPending, cleanPending, cleanRequested,
    commitCount, hasRun, framePending, deferral, cleanOwner, forced,
    maintTurn, passes, taken, resume, swapped, cleanWorker, cleanRunning,
    cleanReady, cleanSlot, job, committer, commitObs, commits, rebuilder,
    rebuilds, cleanBoundaries, pubPending, publisher, pubSnapshot,
    published, orphaned,
    rail, keyframes, counters, version, loopEpoch, pose, pending,
    maintenance, loopRunning, loopWorker, loopSlot, loopReady, processed,
    loopOwner, wanted, loopBoundaries

cleanVars == <<cleanEpoch, sepoch, rawVersion, cleanVersion, generation,
               bundle, pendingObs, evidence, maintPending, cleanPending,
               cleanRequested, commitCount, hasRun, framePending, deferral,
               cleanOwner, forced, maintTurn, passes, taken, resume, swapped,
               cleanWorker, cleanRunning, cleanReady, cleanSlot, job,
               committer, commitObs, commits, rebuilder, rebuilds,
               cleanBoundaries, pubPending, publisher, pubSnapshot,
               published, orphaned>>
loopVars == <<rail, keyframes, counters, version, loopEpoch, pose, pending,
              maintenance, loopRunning, loopWorker, loopSlot, loopReady,
              processed, loopOwner, wanted, loopBoundaries>>

C == INSTANCE CleanMapWorker WITH
        Boundaries <- {}, BuildMayFail <- TRUE, CommitInterval <- 2,
        MaxDeferral <- 1, MaxCommits <- 1, MaxBoundaries <- 0,
        MaxRebuilds <- 1, epoch <- cleanEpoch, owner <- cleanOwner,
        worker <- cleanWorker, running <- cleanRunning, ready <- cleanReady,
        slot <- cleanSlot, boundaries <- cleanBoundaries
K == INSTANCE LoopClosure WITH
        epoch <- loopEpoch, running <- loopRunning, worker <- loopWorker,
        slot <- loopSlot, ready <- loopReady, owner <- loopOwner,
        boundaries <- loopBoundaries

MCInit ==
    /\ Init
    /\ C!Init /\ K!Init
    /\ comp \in {"life", "clean", "loop"}
    /\ comp # "loop" => ~rail

MCNext ==
    \/ /\ comp = "life" /\ Next
       /\ UNCHANGED <<comp, cleanVars, loopVars>>
    \/ /\ comp = "clean" /\ C!Next
       /\ UNCHANGED <<comp, vars, loopVars>>
    \/ /\ comp = "loop" /\ K!Next
       /\ UNCHANGED <<comp, vars, cleanVars>>

\* Each behaviour is one component's, under that component's fairness.
MCSpec ==
    /\ MCInit
    /\ [][MCNext]_<<comp, vars, cleanVars, loopVars>>
    /\ \/ comp = "clean" /\ C!Fairness /\ C!WindowSometimesFree
       \/ comp = "life" /\ Fairness
       \/ comp = "loop" /\ K!Fairness

-----------------------------------------------------------------------------
\* Once commits and rebuilds stop, the clean layer catches up with the raw
\* layer and is published (cleanMapRebuildWorker).
CleanConverges == comp = "clean" => C!CleanConverges

\* Keyframes and runtime pose stay in one frame (consumeLoopClosureResult).
OneFrame == K!OneFrame

\* A detection that was asked for is started (triggerAsyncLoopClosure).
DetectionIsServed == comp = "loop" => K!DetectionIsServed
=============================================================================
