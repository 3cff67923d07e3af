-------------------------- MODULE IdentityAuthority --------------------------
(***************************************************************************)
(* CargoPhysicalIdentityAuthority: which of the groups the detector sees   *)
(* is the load on the hook.                                                *)
(*                                                                         *)
(* Histories follow groups from frame to frame.  While the hook is EMPTY a *)
(* history may freeze the height of the load at rest; the reference is     *)
(* carried over the load boundary, whose two edges (the gravity edge and   *)
(* the lifecycle edge) come from different publishers; after it, a history *)
(* that rises above the reference is the load, and is locked as owner.  A  *)
(* reference lock keeps its own lift count, so that the splitting of a     *)
(* history does not restart the proof.                                     *)
(*                                                                         *)
(* Frames come one time unit apart.  A group is reduced to the outcome of  *)
(* each geometric test: where it is, whether it fits a history there, how  *)
(* well its height is supported, and where its surface is relative to the  *)
(* frozen reference.                                                       *)
(***************************************************************************)
EXTENDS Integers, FiniteSets, Sequences

CONSTANTS
    Roles,      \* the hook roles to consider
    Inputs,     \* the inputs of a frame to consider
    Gap,        \* maximum_observation_gap_sec and maximum_source_age_sec
    TTL,        \* history_hold_ttl_sec
    Confirm     \* lift_confirm_frames

VARIABLES
    role,       \* input.hook_role
    hist,       \* histories_
    edge,       \* the load boundary: certificate, pending edge, handoff
    lock,       \* diagnostic_reference_lock_, the formal reference lock
    owner,      \* production_owner_lock_
    mem,        \* the remaining members
    out,        \* decision_
    ghost       \* history: what the references and edges really were

vars == <<role, hist, edge, lock, owner, mem, out, ghost>>

None == 0
Amb == -1
Old == TTL + 1
Never == TTL + 2
Ids == 1..6
Older(a) == IF a < Old THEN a + 1 ELSE a
Least(a, b) == IF a < b THEN a ELSE b

NoLock == [frozen |-> FALSE, phase |-> "NONE", count |-> 0,
           confirmed |-> FALSE, positive |-> Old]
NoOwner == [valid |-> FALSE, active |-> None, place |-> None]
NoEdge == [cert |-> None, phase |-> "NONE", age |-> 0, place |-> None,
           handoff |-> None, loadAge |-> 0, authorized |-> FALSE]
NoDecision == [identity |-> "UNKNOWN", exists |-> FALSE, captured |-> FALSE,
               formal |-> FALSE]

\* reset.
Init ==
    /\ role \in Roles
    /\ hist = {} /\ edge = NoEdge /\ lock = NoLock /\ owner = NoOwner
    /\ mem = [init |-> FALSE, existed |-> FALSE, gravity |-> "INVALID",
              validated |-> None, startedLoaded |-> FALSE, blocked |-> FALSE]
    /\ out = NoDecision
    /\ ghost = [last |-> Old, apart |-> Old, grounded |-> FALSE]

-----------------------------------------------------------------------------
(* The load boundary.                                                      *)

\* Mutant: an edge completes a pending boundary of any age.
CompletesLate(e, lifeEdge, loadEdge) ==
    \/ e.phase = "WAITING_FOR_LOAD" /\ loadEdge
    \/ e.phase = "WAITING_FOR_LIFECYCLE" /\ lifeEdge

\* The complementary edge, in time.
Completes(e, lifeEdge, loadEdge) ==
    /\ e.age <= Gap
    /\ \/ e.phase = "WAITING_FOR_LOAD" /\ loadEdge
       \/ e.phase = "WAITING_FOR_LIFECYCLE" /\ lifeEdge

Expires(e, lifeEdge, loadEdge, gravity) ==
    \/ e.age > Gap
    \/ e.phase = "WAITING_FOR_LOAD" /\ (lifeEdge \/ gravity = "INVALID")
    \/ e.phase = "WAITING_FOR_LIFECYCLE" /\ loadEdge

HandoffKept(e, gravity) ==
    IF e.handoff # None /\ (gravity # "LOADED" \/ e.loadAge > Gap)
    THEN [e EXCEPT !.handoff = None] ELSE e

Promote(e, lifeEdge, loadEdge, gravity) ==
    IF e.phase = "NONE" \/ e.handoff # None THEN e
    ELSE IF Completes(e, lifeEdge, loadEdge)
    THEN [e EXCEPT !.handoff = e.place, !.phase = "NONE", !.authorized = TRUE,
                   !.place = None,
                   !.loadAge = IF e.phase = "WAITING_FOR_LOAD" THEN 0
                               ELSE e.age]
    ELSE IF Expires(e, lifeEdge, loadEdge, gravity)
    THEN [e EXCEPT !.phase = "NONE", !.place = None] ELSE e

\* The certificate is spent whether one edge is seen or both.
Capture(e, lifeEdge, loadEdge, gravity) ==
    IF e.handoff # None \/ e.phase # "NONE" \/ ~(lifeEdge \/ loadEdge)
       \/ e.cert = None THEN e
    ELSE IF lifeEdge /\ loadEdge
    THEN [e EXCEPT !.handoff = e.cert, !.cert = None, !.authorized = TRUE,
                   !.loadAge = 0]
    ELSE [e EXCEPT !.phase = IF lifeEdge /\ gravity = "EMPTY"
                             THEN "WAITING_FOR_LOAD"
                             ELSE "WAITING_FOR_LIFECYCLE",
                   !.age = 0, !.place = e.cert, !.cert = None]

Boundary(e, lifeEdge, loadEdge, rearm, gravity, rolled) ==
    LET aged == [e EXCEPT !.age = IF e.phase = "NONE" THEN 0 ELSE Older(@),
                          !.loadAge = IF e.handoff = None THEN 0 ELSE Older(@)]
        kept == HandoffKept(aged, gravity)
    IN IF rearm
       THEN IF kept.handoff # None \/ kept.phase # "NONE"
            THEN [kept EXCEPT !.handoff = None, !.phase = "NONE",
                              !.place = None, !.cert = None,
                              !.authorized = FALSE]
            ELSE kept
       ELSE IF rolled THEN kept
       ELSE Capture(Promote(kept, lifeEdge, loadEdge, gravity),
                    lifeEdge, loadEdge, gravity)

-----------------------------------------------------------------------------
(* Association of groups with histories.                                   *)

Strong(g) == g.vertical # "invalid"
Exact(g) == g.vertical = "supported" /\ ~g.amb

\* The XY, Z and extent gates.
Feasible(H, g) ==
    {h.id : h \in {x \in H : ~g.amb /\ Strong(g) /\ g.fit = "yes"
                             /\ x.place = g.place /\ x.age <= Gap}}

\* Reciprocal best matches; competition within the cost margin is ambiguous.
Matches(H, gs) ==
    LET F(i) == Feasible(H, gs[i])
        contested(i) == \/ Cardinality(F(i)) > 1
                        \/ \E j \in DOMAIN gs \ {i} : F(i) \intersect F(j) # {}
    IN {f \in [DOMAIN gs -> Ids \union {None, Amb}] :
          /\ \A i \in DOMAIN gs :
               IF F(i) = {} THEN f[i] = None
               ELSE f[i] \in F(i) \union (IF contested(i) THEN {Amb} ELSE {})
          /\ \A i, j \in DOMAIN gs : i # j /\ f[i] \in Ids => f[i] # f[j]}

\* The histories that the component lineage of an unmatched group leads to,
\* unless an exact group may claim them.
Lineage(H, gs, f, i) ==
    IF f[i] = None /\ gs[i].rescue /\ ~gs[i].amb /\ Strong(gs[i])
       /\ gs[i].fit = "extent"
    THEN {h.id : h \in {x \in H : x.age <= Gap /\ x.place = gs[i].place
            /\ \A j \in DOMAIN gs : x.id \notin Feasible(H, gs[j])}}
    ELSE {}

\* It rescues the group to the one history that no other group claims.
Rescued(H, gs, f) ==
    LET source == [i \in DOMAIN gs |-> Lineage(H, gs, f, i)]
        claims(i) == Cardinality(source[i]) = 1
    IN [i \in DOMAIN gs |->
          IF ~claims(i) THEN f[i]
          ELSE IF \E j \in DOMAIN gs \ {i} : claims(j) /\ source[j] = source[i]
          THEN Amb
          ELSE CHOOSE x \in source[i] : TRUE]

\* A group that only continues a track completes its height gate afterwards.
HeightChecked(gs, f) ==
    [i \in DOMAIN gs |-> IF f[i] \in Ids /\ gs[i].vertical = "stray"
                         THEN None ELSE f[i]]

\* The one group that is the load of the handed-over reference.
HandoffGroup(e, gs, f) ==
    LET geometric == {i \in DOMAIN gs : Exact(gs[i]) /\ f[i] # Amb
                        /\ gs[i].place = e.handoff /\ gs[i].like}
        matching == {i \in geometric : gs[i].surface # "none"}
    IN IF e.handoff # None /\ Cardinality(geometric) = 1
          /\ Cardinality(matching) = 1
       THEN CHOOSE i \in matching : TRUE ELSE None

-----------------------------------------------------------------------------
(* The evidence of one group.                                              *)

NewHistory(id, g, blocked, handed) ==
    [id |-> id, place |-> g.place, age |-> 0, strong |-> 0,
     pre |-> IF blocked THEN "CLOSED" ELSE IF handed THEN "FROZEN" ELSE "UNSEEN",
     samples |-> 0, sampleAge |-> Old, foot |-> handed, frozen |-> handed,
     count |-> 0, confirmed |-> FALSE, supported |-> Old, lift |-> Never]

\* requiredFrames.
Required(gravity) ==
    IF role # "AUXILIARY" THEN Confirm
    ELSE CASE gravity = "EMPTY" -> Confirm + 2
           [] gravity = "INVALID" -> Confirm + 1
           [] OTHER -> Confirm

\* surface_reference_acquisition_phase.
Acquisition(gravity) ==
    /\ IF role = "REQUIRED" THEN gravity = "EMPTY" ELSE ~mem.startedLoaded
    /\ role = "DISABLED" \/ gravity # "LOADED"

\* The pre-lift window: verdict is what its last sample would decide.
PreLift(h, authorized, gravity, loadEdge, blocked, verdict) ==
    LET acquiring == ~h.frozen /\ Acquisition(gravity)
        begun == IF h.sampleAge > Gap THEN 0 ELSE h.samples
        sampled ==
            IF begun + 1 < Confirm
            THEN [h EXCEPT !.pre = "ACQUIRING", !.samples = begun + 1,
                           !.sampleAge = 0]
            ELSE CASE verdict = "stable" ->
                        [h EXCEPT !.pre = "FROZEN", !.frozen = TRUE,
                                  !.samples = 0, !.sampleAge = Old]
                   [] verdict = "departing" ->
                        [h EXCEPT !.pre = "CLOSED", !.samples = 0,
                                  !.sampleAge = Old]
                   [] OTHER -> [h EXCEPT !.pre = "ACQUIRING", !.samples = 0,
                                         !.sampleAge = Old]
        next == IF acquiring /\ h.pre # "CLOSED" /\ authorized /\ ~blocked
                THEN sampled
                ELSE IF acquiring /\ h.pre = "ACQUIRING" /\ ~authorized
                THEN [h EXCEPT !.pre = "PAUSED"]
                ELSE IF acquiring /\ h.pre = "PAUSED" /\ authorized
                THEN [h EXCEPT !.pre = "ACQUIRING"] ELSE h
    IN IF ~next.frozen /\ loadEdge /\ role = "REQUIRED"
       THEN [next EXCEPT !.pre = "CLOSED", !.samples = 0, !.sampleAge = Old]
       ELSE next

\* The history's own lift count.
Lift(h, authorized, surface, gravity) ==
    LET stale == h.lift # Never /\ h.lift > Gap
        kept == IF stale THEN [h EXCEPT !.count = 0, !.confirmed = FALSE] ELSE h
        up == [kept EXCEPT !.lift = 0, !.count = Least(@ + 1, Confirm + 2),
                  !.confirmed = @ \/ kept.count + 1 >= Required(gravity)]
    IN IF ~authorized \/ ~h.frozen THEN kept
       ELSE IF role = "AUXILIARY" /\ gravity = "EMPTY" /\ ~kept.confirmed
       THEN [kept EXCEPT !.lift = 0, !.count = 0]
       ELSE CASE surface = "lifted" -> up
              [] surface = "below" ->
                   [kept EXCEPT !.lift = 0, !.count = 0, !.confirmed = FALSE]
              [] surface = "base" /\ ~kept.confirmed ->
                   [kept EXCEPT !.lift = 0, !.count = 0]
              [] OTHER -> [kept EXCEPT !.lift = 0]

\* A matched or new history takes the group's evidence.
Observe(h, g, handed, frame) ==
    LET supported == g.vertical = "supported"
        evidence == frame.localized /\ supported
        foot == h.foot \/ (evidence /\ Acquisition(frame.gravity)
                           /\ ~frame.blocked)
        authorized == evidence /\ (handed \/ (foot /\ g.surface # "none"))
        seen == [h EXCEPT !.age = 0, !.strong = 0, !.foot = foot]
        rested == PreLift(seen, authorized, frame.gravity, frame.loadEdge,
                          frame.blocked, frame.verdict)
        timed == IF supported THEN [rested EXCEPT !.supported = 0] ELSE rested
    IN Lift(timed, authorized,
            IF rested.frozen /\ ~h.frozen THEN "base" ELSE g.surface,
            frame.gravity)

-----------------------------------------------------------------------------
(* One group after the other: matched, held, or a new history.             *)

\* POSTLOAD RECOVERY_HOLD.
Recoverable(H, g) ==
    {h \in H : /\ h.strong <= TTL /\ h.place = g.place
               /\ Strong(g) => h.age \in 1..Gap /\ g.fit # "z"}

FreshId(H, reserved) ==
    CHOOSE id \in Ids : id \notin reserved /\ \A h \in H : h.id # id

Associate(s, i, gs, f, handoffGroup, frame) ==
    LET g == gs[i]
        loaded == frame.gravity = "LOADED"
        found == {h \in s.hist : h.id = f[i]}
        recover == Recoverable(s.hist, g)
        handed == i = handoffGroup
        id == FreshId(s.hist, s.reserved)
        take(h, was, assoc) ==
            LET n == Observe(h, g, handed, frame)
                minted == n.frozen /\ ~h.frozen
            IN [s EXCEPT !.hist = (s.hist \ was) \union {n},
                         !.ids = Append(@, h.id), !.assoc = Append(@, assoc),
                         !.minted = @ \/ (minted /\ s.cert = None),
                         !.cert = IF minted /\ @ = None THEN g.place ELSE @]
        leave(assoc, x, amb) ==
            [s EXCEPT !.ids = Append(@, x), !.assoc = Append(@, assoc),
                      !.amb = @ \/ amb]
    IN IF g.amb \/ f[i] = Amb THEN leave("AMBIGUOUS", None, TRUE)
       ELSE IF ~Strong(g) /\ ~loaded THEN leave("NEW", None, FALSE)
       ELSE IF found # {}
       THEN take(CHOOSE h \in found : TRUE, found, "MATCHED")
       ELSE IF loaded /\ Cardinality(recover) > 1
       THEN leave("AMBIGUOUS", None, TRUE)
       ELSE IF loaded /\ recover # {}
       THEN LET h == CHOOSE x \in recover : TRUE
            IN [leave("HOLD", h.id, FALSE) EXCEPT
                  !.hist = (s.hist \ {h}) \union {[h EXCEPT !.age = 0]}]
       ELSE IF ~Strong(g) THEN leave("NEW", None, FALSE)
       ELSE [take(NewHistory(id, g, frame.blocked, handed), {}, "NEW")
               EXCEPT !.consumed = handed]

\* The reference is given up when another object lies at its place.
Contradicted(place, gs, f, gravity) ==
    /\ gravity = "EMPTY"
    /\ \E i \in DOMAIN gs : Exact(gs[i]) /\ f[i] # Amb
                            /\ gs[i].place = place /\ ~gs[i].like

-----------------------------------------------------------------------------
(* Identity, owner and formal lift.                                        *)

FreshConfirmed(H) ==
    {h \in H : h.confirmed /\ h.age <= Gap /\ h.supported <= Gap}

\* An ambiguous group in the gate of the protected history.
Conflict(before, after, gs, f, protected) ==
    \E i \in DOMAIN gs :
        /\ gs[i].amb \/ f[i] = Amb
        /\ \/ protected \in Feasible(before, gs[i])
           \/ gs[i].amb /\ gs[i].fit = "yes"
              /\ \E h \in after : h.id = protected /\ h.place = gs[i].place
                                  /\ h.age \in 1..Gap

\* OWNER_CONTINUATION_GATE: a matched fragment where the owner was last seen.
Successors(s, gs) ==
    {s.ids[i] : i \in {j \in DOMAIN gs :
        /\ s.assoc[j] = "MATCHED" /\ s.ids[j] # owner.active
        /\ gs[j].place = owner.place
        /\ \E h \in s.hist : h.id = owner.active /\ h.age <= TTL}}

OwnerAfter(s, gs, identity, validated, cleared) ==
    LET was == IF cleared THEN NoOwner ELSE owner
        latched == IF identity = "VALIDATED" /\ ~was.valid
                   THEN [valid |-> TRUE, active |-> validated, place |-> None]
                   ELSE was
        measured == {i \in DOMAIN gs : s.assoc[i] = "MATCHED"
                                       /\ s.ids[i] = latched.active}
        next == IF cleared \/ ~was.valid THEN {} ELSE Successors(s, gs)
    IN IF ~latched.valid THEN latched
       ELSE IF measured # {}
       THEN [latched EXCEPT !.place = gs[CHOOSE i \in measured : TRUE].place]
       ELSE IF Cardinality(next) = 1
       THEN [latched EXCEPT !.active = CHOOSE x \in next : TRUE] ELSE latched

\* reconstructLogicalCurrentCargo: fragments that form one clique.
LogicalOwner(gs, joined) ==
    LET eligible == {i \in DOMAIN gs : ~gs[i].amb /\ Strong(gs[i]) /\ gs[i].like}
    IN IF eligible = {} THEN None
       ELSE IF Cardinality(eligible) > 1 /\ ~joined THEN Amb
       ELSE CHOOSE i \in eligible : \A j \in eligible : i <= j

\* The lock's own three-valued evidence.
FormalLift(k, logical, top) ==
    LET aged == [k EXCEPT !.positive = Older(@)]
        surface == IF logical > 0 THEN top ELSE "none"
        counted ==
            IF surface = "lifted"
            THEN [aged EXCEPT !.count = Least(@ + 1, Confirm), !.positive = 0]
            ELSE IF logical = None \/ (logical > 0 /\ surface = "none")
            THEN IF aged.positive > Gap
                 THEN [aged EXCEPT !.count = 0] ELSE aged
            ELSE [aged EXCEPT !.count = 0, !.positive = Old]
    IN [counted EXCEPT !.confirmed = @ \/ counted.count >= Confirm]

\* The confirmed lift is projected on the history of the logical owner.
Projected(H, anchor) ==
    IF anchor = None THEN H
    ELSE {IF h.id = anchor THEN [h EXCEPT !.confirmed = TRUE, !.count = Confirm]
          ELSE IF h.confirmed THEN [h EXCEPT !.confirmed = FALSE, !.count = 0]
          ELSE h : h \in H}

-----------------------------------------------------------------------------
\* LiDAR alone proves a load only where gravity is not required.
Exists(gravity, fresh) ==
    gravity = "LOADED" \/ (role # "REQUIRED" /\ fresh # {})

\* validated_history_id_.
ValidatedAfter(gravity, exists, one, only, conflict, held) ==
    IF exists /\ one /\ ~conflict THEN only
    ELSE IF ~one \/ conflict \/ (gravity = "EMPTY" /\ role = "REQUIRED")
    THEN None ELSE held

\* decision_.identity.
Identity(s, started, fresh, conflict, validated, exists) ==
    IF started THEN "UNKNOWN"
    ELSE IF Cardinality(fresh) > 1 \/ conflict \/ (fresh = {} /\ s.amb)
    THEN "AMBIGUOUS"
    ELSE IF validated # None /\ exists /\ \E h \in s.hist : h.id = validated
    THEN "VALIDATED" ELSE "UNKNOWN"

\* update, for a source time that advances, goes back or starts a lifecycle,
\* in its three parts.  First the boundary, and the histories that outlive it;
\* one whose last observation is older than every gate is dropped.
Opened(in) ==
    LET loaded == in.gravity = "LOADED"
        isLife == mem.init /\ in.lifeEdge
        loadEdge == mem.init /\ mem.gravity = "EMPTY" /\ loaded
        newEpoch == in.rearm \/ isLife
        existed == mem.existed /\ ~newEpoch
        unload == in.gravity = "EMPTY" /\ existed /\ role = "REQUIRED"
        cleared == in.rolled \/ newEpoch \/ unload
        gravityEdge == loaded /\ ~existed
        closed == gravityEdge /\ role = "REQUIRED"
        e == Boundary(IF in.rolled THEN NoEdge ELSE edge, isLife, loadEdge,
                      in.rearm, in.gravity, in.rolled)
        aged == {[h EXCEPT !.age = Older(@), !.strong = Older(@),
                    !.sampleAge = Older(@), !.supported = Older(@),
                    !.lift = IF @ = Never THEN @ ELSE Older(@)] : h \in hist}
        begun == {IF ~closed THEN h
                  ELSE [h EXCEPT !.count = 0, !.confirmed = FALSE,
                          !.supported = Old,
                          !.pre = IF h.frozen THEN @ ELSE "CLOSED",
                          !.samples = IF h.frozen THEN @ ELSE 0] : h \in aged}
        kept == IF cleared THEN {} ELSE {h \in begun : h.age <= TTL}
    IN [hist |-> kept, isLife |-> isLife, loadEdge |-> loadEdge,
        cleared |-> cleared, gravityEdge |-> gravityEdge,
        blocked |-> (mem.blocked \/ in.rolled) /\ ~newEpoch /\ ~unload,
        edge |-> [e EXCEPT !.cert = IF newEpoch \/ unload THEN None ELSE @,
                           !.authorized = @ /\ ~unload],
        started |-> IF closed THEN in.started /\ \A h \in kept : ~h.frozen
                    ELSE mem.startedLoaded /\ ~newEpoch /\ ~unload]

\* Then the groups of the frame, one after the other.
Associated(in, b, f, handoffGroup) ==
    LET frame == [gravity |-> in.gravity, localized |-> in.localized,
                  blocked |-> b.blocked, verdict |-> in.verdict,
                  loadEdge |-> b.gravityEdge]
        after[i \in 0 .. Len(in.groups)] ==
            IF i = 0
            THEN [hist |-> b.hist, ids |-> <<>>, assoc |-> <<>>, amb |-> FALSE,
                  cert |-> b.edge.cert, minted |-> FALSE, consumed |-> FALSE,
                  reserved |-> {owner.active, mem.validated}]
            ELSE Associate(after[i - 1], i, in.groups, f, handoffGroup, frame)
    IN after[Len(in.groups)]

\* A handed-over reference that no group of a non-empty frame takes is lost.
Offered(e, handoffGroup, gs) ==
    IF e.handoff # None /\ handoffGroup = None /\ gs # <<>>
    THEN [e EXCEPT !.handoff = None] ELSE e

\* The formal lock: minted, handed over with the boundary, and counting.
Minted(s, rolled) ==
    IF s.minted THEN [NoLock EXCEPT !.frozen = TRUE, !.phase = "PRELOAD"]
    ELSE IF rolled THEN NoLock ELSE lock

Activated(k, authorized, loaded) ==
    IF k.phase = "PRELOAD" /\ authorized /\ loaded
    THEN [k EXCEPT !.phase = "POSTLOAD", !.count = 0, !.confirmed = FALSE,
                   !.positive = Old]
    ELSE k

FormalLock(k, logical, top) ==
    IF k.phase = "POSTLOAD" THEN FormalLift(k, logical, top) ELSE k

\* Then the identity of the load: who is validated, and in conflict with whom.
Concluded(in, b, f, s) ==
    LET fresh == FreshConfirmed(s.hist)
        one == Cardinality(fresh) = 1
        only == IF one THEN (CHOOSE h \in fresh : TRUE).id ELSE None
        held == IF b.cleared THEN None ELSE mem.validated
        protected == IF one THEN only ELSE held
        conflict == protected # None
                    /\ Conflict(b.hist, s.hist, in.groups, f, protected)
        exists == Exists(in.gravity, fresh)
        validated ==
            ValidatedAfter(in.gravity, exists, one, only, conflict, held)
    IN [exists |-> exists, validated |-> validated,
        identity |-> Identity(s, b.started, fresh, conflict, validated, exists)]

Ghost(in, b, s) ==
    LET edges == b.isLife \/ b.loadEdge
    IN [last |-> IF edges THEN 0 ELSE Older(ghost.last),
        apart |-> IF b.isLife /\ b.loadEdge THEN 0
                  ELSE IF edges THEN Older(ghost.last) ELSE Old,
        grounded |-> (ghost.grounded /\ ~in.rolled)
                     \/ (s.minted /\ in.gravity = "EMPTY")]

Update(in, b, f, e, s, d, k) ==
    LET logical == LogicalOwner(in.groups, in.joined)
        formal == k.phase = "POSTLOAD" /\ k.confirmed
    IN /\ hist' = Projected(s.hist, IF formal /\ logical > 0
                                    THEN s.ids[logical] ELSE None)
       /\ edge' = [e EXCEPT
                     !.cert = IF s.cert # None
                                 /\ Contradicted(s.cert, in.groups, f, in.gravity)
                              THEN None ELSE s.cert,
                     !.handoff = IF s.consumed THEN None ELSE @]
       /\ lock' = k
       /\ owner' = OwnerAfter(s, in.groups, d.identity, d.validated, b.cleared)
       /\ mem' = [init |-> TRUE, existed |-> in.gravity = "LOADED" \/ d.exists,
                  gravity |-> in.gravity, validated |-> d.validated,
                  startedLoaded |-> b.started, blocked |-> b.blocked]
       /\ out' = [identity |-> d.identity, exists |-> d.exists,
                  captured |-> b.edge.handoff # None
                               /\ (edge.handoff = None \/ in.rolled),
                  formal |-> formal]
       /\ ghost' = Ghost(in, b, s)
       /\ UNCHANGED role

\* One frame; the hook can be found loaded at the start only by the first.
Frame ==
    \E in \in Inputs :
        /\ in.rolled => mem.init
        /\ in.started => ~mem.init
        /\ \E b \in {Opened(in)} :
           \E f0 \in Matches({h \in b.hist : h.age <= Gap}, in.groups) :
           \E g \in {HandoffGroup(b.edge, in.groups, f0)} :
           \E f \in {HeightChecked(in.groups, Rescued(b.hist, in.groups, f0))} :
           \E e \in {Offered(b.edge, g, in.groups)} :
           \E s \in {Associated(in, b, f, g)} :
           \E d \in {Concluded(in, b, f, s)} :
           \E k \in {FormalLock(Activated(Minted(s, in.rolled), e.authorized,
                                          in.gravity = "LOADED"),
                                LogicalOwner(in.groups, in.joined), in.top)} :
               Update(in, b, f, e, s, d, k)

\* A source time that does not advance: only the decision is cleared.
RepeatedFrame ==
    /\ mem.init
    /\ out' = NoDecision
    /\ UNCHANGED <<role, hist, edge, lock, owner, mem, ghost>>

Next == Frame \/ RepeatedFrame
Spec == Init /\ [][Next]_vars

-----------------------------------------------------------------------------
\* No load is identified unless a reference was frozen while the hook was
\* EMPTY since the last start or time rollback: a height first seen under load
\* never proves a lift.
NoIdentityWithoutRest ==
    role = "REQUIRED" /\ out.identity = "VALIDATED" => ghost.grounded

\* A reference is handed over only when its two edges, which come from
\* different publishers, are within the observation gap of each other.
EdgesBelongTogether == out.captured => ghost.apart <= Gap

\* What identifies a load was seen at rest before it, and the two edges of its
\* boundary belong together.
IdentityIsEarned == NoIdentityWithoutRest /\ EdgesBelongTogether

-----------------------------------------------------------------------------
\* "The formal Reference Lock may enter POSTLOAD_ACTIVE and confirm lift only
\* when this is set."
FormalLiftNeedsBoundary == out.formal => edge.authorized
=============================================================================
