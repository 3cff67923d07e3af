----------------------------- MODULE MCRecovery -----------------------------
(* What loses something and must find it again: the cargo lock its load,   *)
(* relocalization the pose, both under the fairness of their frames, and   *)
(* the tile map its memory, in a crash between any two file operations.    *)
(* Each behaviour is one component's: comp is chosen once and the variables*)
(* of the others stay at their initial values, so that the state spaces add*)
(* up instead of multiplying.                                              *)
EXTENDS PersistentTiles, Integers

CONSTANTS
    Roles, Places, Detections, Progress, Absolute, Hold,    \* CargoLock
    Clear, Rearm, Soft, Suspension, Switch, Gaps, Reacquire,
    TriggerFrames, GlobalTriggerFrames,                     \* Relocalization
    RequiredConfirmations, RequestInterval, CooldownFrames,
    LocalMaxAge, GlobalMaxAge, Corrections

\* Ages are counted up to Absolute, which no threshold exceeds.
ASSUME LockAssumption ==
    /\ Absolute \in Nat /\ Progress \in 1 .. Absolute
    /\ Soft \in Nat /\ Suspension \in Nat \ {0} /\ Switch \in Nat
    /\ \A det \in Detections : det.place \in Places
ASSUME RelocalizationAssumption ==
    /\ GlobalTriggerFrames \in Nat /\ RequestInterval \in Nat
    /\ CooldownFrames \in Nat /\ LocalMaxAge \in Nat /\ GlobalMaxAge \in Nat

\* What LiDAR sees under the hook: a cluster of a size, at a place, resting,
\* raised or suspended.
Detection(sz, p, hangs) ==
    [size |-> sz, place |-> p, hangs |-> hangs, height |-> FALSE,
     margin |-> TRUE, identity |-> TRUE, shape |-> TRUE, empty |-> FALSE]
NoDetection == [Detection("none", 1, "ground") EXCEPT !.margin = FALSE]
LockDetections ==
    {NoDetection, [NoDetection EXCEPT !.empty = TRUE],
     Detection("strong", 1, "ground"), Detection("formal", 1, "ground"),
     Detection("formal", 1, "suspended"),
     [Detection("formal", 1, "raised") EXCEPT !.height = TRUE],
     Detection("formal", 2, "suspended"),
     [Detection("formal", 2, "suspended") EXCEPT !.identity = FALSE]}

VARIABLES comp,
    role, gravity, frame, lock, retired, streak,
    pc, loc, queued, running, result, safety, reported, owed

lockVars == <<role, gravity, frame, lock, retired, streak>>
relocVars == <<pc, loc, queued, running, result, safety, reported, owed>>

L == INSTANCE CargoLock
R == INSTANCE Relocalization

MCInit ==
    /\ Init
    /\ L!Init /\ R!Init
    /\ comp \in {"tiles", "lock", "relocalization"}
    /\ comp # "lock" => role = "REQUIRED"

MCNext ==
    \/ /\ comp = "tiles" /\ Next
       /\ UNCHANGED <<comp, lockVars, relocVars>>
    \/ /\ comp = "lock" /\ L!Next
       /\ UNCHANGED <<comp, vars, relocVars>>
    \/ /\ comp = "relocalization" /\ R!Next
       /\ UNCHANGED <<comp, vars, lockVars>>

\* Each behaviour is one component's, under that component's fairness.
MCSpec ==
    /\ MCInit
    /\ [][MCNext]_<<comp, vars, lockVars, relocVars>>
    /\ \/ comp = "tiles"
       \/ comp = "lock" /\ L!Fairness
       \/ comp = "relocalization" /\ R!Fairness

-----------------------------------------------------------------------------
\* Neither the lock nor the pose kept for a lost load outlives what was
\* measured of it (the hook lock's candidate, locked and lost states).
LockIsMeasured == L!LockIsMeasured

\* An EMPTY hook ends the wait for a new load (evaluateCargoRearm).
RearmEnds == comp = "lock" => L!RearmEnds

\* Neither the status that others hold nor the node itself believes a pose
\* that was given up (updateRelocalizationState, loadMapService).
NoPoseWithoutEvidence == R!NoPoseWithoutEvidence

\* A forced search starts (relocalizeService).
ForcedSearchStarts == comp = "relocalization" => R!ForcedSearchStarts
=============================================================================
