----------------------------- MODULE MCTracking -----------------------------
(* What the node takes for the same thing from frame to frame: the identity*)
(* of the load, the pose of the crane, the trust in its registration, and  *)
(* the legacy payload tracks. Each behaviour is one component's: comp is   *)
(* chosen once and the variables of the others stay at their initial       *)
(* values, so that the state spaces add up instead of multiplying.         *)
EXTENDS RegistrationGate, Sequences

CONSTANTS
    Roles, IdentityInputs, EdgeGap, TTL, LiftFrames,      \* IdentityAuthority
    Places, MaxStep, HoldFrames, ExitFrames, Window,      \* StationaryMotion
    ExitMotion, ForceDrift, ConfirmFrames, CatchUpStep, CatchUpFrames,
    PayloadFrames, MotionFrames, Suspend, MaxMissed,      \* PayloadTracker
    Gone, Forget, Ttl, BoxHold, Jumps, JumpLimit, Rejects, MaxActive, Merge,
    Stop, Rest, Cap

\* Frames of the identity authority: a load at place 1, another at place 2.
Group(p, v, su, like) ==
    [place |-> p, fit |-> "yes", vertical |-> v, amb |-> FALSE,
     surface |-> su, like |-> like, rescue |-> FALSE]
Load(su) == Group(1, "supported", su, TRUE)
Sees(gravity, life, gs) ==
    [gravity |-> gravity, lifeEdge |-> life, rearm |-> FALSE,
     rolled |-> FALSE, started |-> FALSE, localized |-> TRUE, groups |-> gs,
     verdict |-> "stable", joined |-> TRUE,
     top |-> IF gs = <<>> THEN "none" ELSE gs[1].surface]
MCIdentityInputs ==
    {Sees(g, l, <<>>) : g \in {"EMPTY", "LOADED"}, l \in BOOLEAN} \union
    {Sees("EMPTY", FALSE, <<Load("base")>>),
     Sees("LOADED", FALSE, <<Load("lifted")>>),
     Sees("LOADED", TRUE, <<Load("lifted")>>),
     Sees("EMPTY", FALSE, <<Load("lifted")>>),
     Sees("LOADED", FALSE, <<Load("base")>>),
     Sees("INVALID", FALSE, <<>>),
     [Sees("EMPTY", FALSE, <<Load("base")>>) EXCEPT !.verdict = "departing"],
     [Sees("EMPTY", TRUE, <<>>) EXCEPT !.rearm = TRUE],
     [Sees("LOADED", FALSE, <<>>) EXCEPT !.rolled = TRUE],
     [Sees("LOADED", FALSE, <<>>) EXCEPT !.started = TRUE],
     Sees("LOADED", FALSE, <<Group(1, "invalid", "none", TRUE)>>),
     Sees("LOADED", FALSE,
          <<Load("lifted"), Group(2, "supported", "base", FALSE)>>)}

\* A keyframe of the payload tracker with one cluster, or none.
Cluster(p, m, g, sz) ==
    [place |-> p, fits |-> TRUE, motion |-> m, steady |-> TRUE, gap |-> g,
     cargo |-> TRUE, box |-> TRUE, size |-> sz, strong |-> TRUE]
Keyframe(cs) ==
    [clusters |-> cs, candidates |-> TRUE, remove |-> TRUE, structure |-> {1}]
MCPayloadFrames ==
    {Keyframe(<<Cluster(1, "moving", 0, 10)>>),
     Keyframe(<<Cluster(1, "fast", 2, 14)>>),
     Keyframe(<<Cluster(1, "moving", 0, 16)>>),
     Keyframe(<<[Cluster(1, "still", 1, 10) EXCEPT !.strong = FALSE]>>),
     Keyframe(<<>>),
     Keyframe(<<[Cluster(2, "still", 0, 10) EXCEPT !.box = FALSE,
                    !.cargo = FALSE]>>),
     [Keyframe(<<>>) EXCEPT !.candidates = FALSE]}

\* What a frame of the identity authority brings.
IdentityFrames ==
    [gravity : {"EMPTY", "LOADED", "INVALID"},
     lifeEdge : BOOLEAN, rearm : BOOLEAN, rolled : BOOLEAN,
     started : BOOLEAN, localized : BOOLEAN,
     groups : Seq([place : Nat \ {0}, fit : {"yes", "no", "z", "extent"},
                   vertical : {"supported", "stray", "invalid"},
                   amb : BOOLEAN,
                   surface : {"base", "lifted", "below", "none"},
                   like : BOOLEAN, rescue : BOOLEAN]),
     verdict : {"stable", "departing", "unstable"}, joined : BOOLEAN,
     top : {"base", "lifted", "below", "none"}]

ASSUME IdentityAssumption ==
    /\ IdentityInputs \subseteq IdentityFrames
    /\ EdgeGap \in Nat /\ TTL \in Nat

ASSUME MotionAssumption == CatchUpFrames \in Nat \ {0}

\* What extractClusters finds in a keyframe.
Clusters ==
    [place : Nat, fits : BOOLEAN, motion : {"still", "moving", "fast"},
     steady : BOOLEAN, gap : Nat, cargo : BOOLEAN, box : BOOLEAN, size : Nat,
     strong : BOOLEAN]

ASSUME PayloadAssumption ==
    /\ \A f \in PayloadFrames : f.clusters \in Seq(Clusters)
    /\ Jumps \in Nat /\ Rest \in Nat /\ Cap \in Nat

VARIABLES comp,
    role, hist, edge, lock, owner, mem, identityOut, ghost,
    crane, pose, raw, motion, allow, jump, settled,
    tracks, sessions, boxes, denied

identityVars == <<role, hist, edge, lock, owner, mem, identityOut, ghost>>
stillVars == <<crane, pose, raw, motion, allow, jump, settled>>
payloadVars == <<tracks, sessions, boxes, denied>>

I == INSTANCE IdentityAuthority WITH
        Inputs <- IdentityInputs, Confirm <- LiftFrames, Gap <- EdgeGap,
        out <- identityOut
S == INSTANCE StationaryMotion WITH EnterFrames <- HoldFrames
P == INSTANCE PayloadTracker WITH
        Frames <- PayloadFrames, Confirm <- MotionFrames, Hold <- BoxHold

MCInit ==
    /\ Init
    /\ I!Init /\ S!Init /\ P!Init
    /\ comp \in {"registration", "identity", "stationary", "payload"}
    /\ comp # "registration" => ~rail
    /\ comp # "stationary" => crane = 0

MCNext ==
    \/ /\ comp = "registration" /\ Next
       /\ UNCHANGED <<comp, identityVars, stillVars,
                      payloadVars>>
    \/ /\ comp = "identity" /\ I!Next
       /\ UNCHANGED <<comp, vars, stillVars, payloadVars>>
    \/ /\ comp = "stationary" /\ S!Next
       /\ UNCHANGED <<comp, vars, identityVars,
                      payloadVars>>
    \/ /\ comp = "payload" /\ P!Next
       /\ UNCHANGED <<comp, vars, identityVars, stillVars>>

MCSpec ==
    /\ MCInit
    /\ [][MCNext]_<<comp, vars, identityVars, stillVars, payloadVars>>

-----------------------------------------------------------------------------
\* Nothing is granted ahead of what it rests on: to a load its identity before
\* it was seen at rest, in the boundary it belongs to, and to a frame the maps
\* before the pose has caught up with the measurement after a hold
\* (CargoPhysicalIdentityAuthority, StationaryMotionPolicy).
GrantsAreEarned == I!IdentityIsEarned /\ S!NoWriteBeforeCaughtUp

\* What the legacy tracker removes and protects follows what it saw.
TrackerFollowsEvidence == P!TrackerFollowsEvidence
=============================================================================
