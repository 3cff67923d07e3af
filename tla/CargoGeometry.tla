---------------------------- MODULE CargoGeometry ----------------------------
(***************************************************************************)
(* The size of the cargo: CargoGeometryFusion::update with the frame that  *)
(* updateCargoLiftAndGeometryFusion builds for it and the write of the     *)
(* frozen size back into the lock.  Until it is frozen a geometry gathers  *)
(* k frames of a window; frozen it is POSITIVE_ONLY (it may warn) or       *)
(* FORMAL (it may also clear), and its footprint follows sustained         *)
(* measurements only.                                                      *)
(*                                                                         *)
(* Lengths and heights are small naturals, 0 is none; width is treated as  *)
(* length is.  A static thickness is the origin's before the revealed one  *)
(* is ready and the revealed one after, never both.  Shape confidence is   *)
(* 0 (incomplete), 1 (initial), 2 (shrink) or 3 (expand).  The weights of  *)
(* a formal pair put the fused height anywhere between the two; whether    *)
(* its uncertainty is within the limit is the frame's "sure".              *)
(***************************************************************************)
EXTENDS Naturals, Sequences, FiniteSets

CONSTANTS Inputs,       \* the frames of the instance
          Window,       \* shape_confirmation_window_frames
          Confirm,      \* minimum_confirm_frames
          Positive,     \* positive_only_confirm_frames
          Shrink,       \* conservative_shrink_confirm_frames
          Expand,       \* conservative_expand_confirm_frames
          Disagreement, \* maximum_source_disagreement_m
          Mad           \* maximum_initial_dimension_mad_m

VARIABLES lock,   \* hook_lock_: active, locked_shape
          fusion, \* CargoGeometryFusion
          pairs,  \* history: formal pairs of this lifecycle and segment
          recent  \* history: footprints of the last frames of one frozen run

vars == <<lock, fusion, pairs, recent>>

NoExpand == [count |-> 0, len |-> 0]
Fresh == [frozen |-> FALSE, auth |-> "PENDING", valid |-> FALSE, len |-> 0,
          height |-> 0, shape |-> <<>>, thick |-> <<>>, mode |-> "none",
          promo |-> 0, shrink |-> <<>>, expand |-> NoExpand]

Init ==
    /\ lock = [active |-> FALSE, len |-> 0, height |-> 0]
    /\ fusion = Fresh
    /\ pairs = 0
    /\ recent = <<>>

-----------------------------------------------------------------------------
(* Statistics of a window.                                                 *)

Max2(a, b) == IF a > b THEN a ELSE b
Min2(a, b) == IF a < b THEN a ELSE b
Diff(a, b) == IF a > b THEN a - b ELSE b - a
Slide(w, v, n) == LET u == Append(w, v) IN IF Len(u) > n THEN Tail(u) ELSE u
Push(w, v) == Slide(w, v, Window)

\* The entries of a window that hold a measurement, and how many they are.
Finite(w) == {k \in DOMAIN w : w[k] # 0}
Measured(w) == Cardinality(Finite(w))

\* The element in the middle of the sorted values f[k], k in K: the least one
\* that more than half of them do not exceed.
Middle(f, K) ==
    LET most(v) == Cardinality({k \in K : f[k] <= v}) > Cardinality(K) \div 2
    IN IF K = {} THEN 0
       ELSE CHOOSE v \in {f[k] : k \in K} :
                most(v) /\ \A u \in {f[k] : k \in K} : u < v => ~most(u)

FiniteMedian(w) == Middle(w, Finite(w))
FiniteMad(w) ==
    LET m == FiniteMedian(w)
    IN Middle([k \in Finite(w) |-> Diff(w[k], m)], Finite(w))

-----------------------------------------------------------------------------
(* The frame the node builds.                                              *)

\* The lock after the recognition of this frame.
Locked(i) ==
    CASE i.lock = "keep" -> lock
      [] i.lock = "lost" -> [active |-> FALSE, len |-> 0, height |-> 0]
      [] i.lock = "new"  -> IF lock.active THEN lock
                            ELSE [active |-> TRUE, len |-> i.newLen, height |-> i.newHeight]

\* A formally locked shape is complete evidence of the footprint, and its
\* height stands in as a lower bound when the frame shows none.
GeometryFrame(i, l) ==
    LET formal == l.active /\ i.formal
        held == formal /\ i.current /\ i.live = 0
        centre == IF l.active THEN i.pose # "none" ELSE i.pose = "associated" /\ i.len # 0
    IN [centre |-> centre,
        len |-> IF i.len # 0 THEN i.len ELSE l.len,
        quality |-> IF ~centre THEN 0
                    ELSE IF formal THEN Max2(2, i.quality)
                    ELSE IF i.len # 0 THEN i.quality ELSE 0,
        floor |-> i.floor, static |-> i.static, sure |-> i.sure, stable |-> i.stable,
        live |-> IF held THEN l.height ELSE i.live,
        full |-> i.live # 0 /\ i.side, locked |-> formal]

\* One size of the cargo is the locked size from now on.
WriteBack(l, g) ==
    IF l.active /\ g.valid /\ g.frozen
    THEN [l EXCEPT !.len = g.len, !.height = g.height] ELSE l

-----------------------------------------------------------------------------
(* Thickness.                                                              *)

Agree(f) == f.static # 0 /\ f.live # 0 /\ Diff(f.static, f.live) <= Disagreement
Pair(f) == f.locked /\ f.full /\ Agree(f)
Conflict(f) == f.static # 0 /\ f.live > f.static + Disagreement
PositiveOnly(f) ==
    /\ f.stable /\ f.live # 0
    /\ \/ f.static = 0
       \/ ~f.full /\ ~Conflict(f)
       \/ f.full /\ Agree(f)
       \/ Conflict(f)

Fused(f) ==
    IF Pair(f) THEN Min2(f.static, f.live)..Max2(f.static, f.live)
    ELSE {Max2(f.static, f.live)}

\* A change between a formal pair and a positive-only one starts the
\* thickness window again.
Mode(g, f) ==
    LET mode == IF Pair(f) THEN "formal" ELSE "positive" IN
    IF g.mode = mode THEN g ELSE [g EXCEPT !.mode = mode, !.thick = <<0>>]

-----------------------------------------------------------------------------
(* Before the freeze.                                                      *)

\* mutant: a new track segment keeps the windows of the last one.
SegmentKept(g, new) == g

Segment(g, new) ==
    IF ~new THEN g
    ELSE [g EXCEPT !.shape = <<>>, !.thick = <<>>, !.promo = 0, !.shrink = <<>>,
                   !.expand = NoExpand]

Observe(g, f) ==
    [g EXCEPT !.shape = Push(@, IF f.quality >= 1 THEN f.len ELSE 0),
              !.thick = Push(@, 0)]

\* The frame's height enters the window; k stable heights and k stable
\* footprints freeze the geometry.
Freeze(g, f, h) ==
    LET thick == [g.thick EXCEPT ![Len(g.thick)] = h]
        robust == FiniteMedian(thick)
        \* within half of the disagreement: equal, in these units
        near == {k \in Finite(thick) : h = robust /\ thick[k] = robust}
        need == IF Pair(f) THEN Confirm ELSE Positive
    IN IF /\ Cardinality(near) >= need
          /\ Measured(g.shape) >= need /\ FiniteMad(g.shape) <= Mad
       THEN [Fresh EXCEPT !.frozen = TRUE, !.valid = TRUE,
                          !.auth = IF Pair(f) THEN "FORMAL" ELSE "POSITIVE_ONLY",
                          !.len = Max2(FiniteMedian(g.shape), f.floor), !.height = robust]
       ELSE [g EXCEPT !.thick = thick, !.valid = FALSE]

Gathering(g, f) ==
    LET o == Observe(g, f) IN
    IF ~f.centre THEN {[o EXCEPT !.valid = FALSE]}
    ELSE LET m == Mode(o, f) IN
         CASE ~Pair(f) /\ ~PositiveOnly(f) -> {[m EXCEPT !.valid = FALSE]}
           [] Pair(f) /\ ~f.sure           -> {[m EXCEPT !.valid = FALSE]}
           [] OTHER                        -> {Freeze(m, f, h) : h \in Fused(f)}

-----------------------------------------------------------------------------
(* After the freeze.                                                       *)

\* A positive-only geometry is promoted by a run of formal pairs.
Promote(g, f) ==
    LET fits == f.centre /\ f.quality >= 2 /\ Pair(f) /\ f.sure
        n == IF fits THEN g.promo + 1 ELSE 0
    IN IF g.auth = "FORMAL" THEN {g}
       ELSE IF n >= Confirm
       THEN {[g EXCEPT !.auth = "FORMAL", !.promo = 0, !.height = h] : h \in Fused(f)}
       ELSE {[g EXCEPT !.promo = n]}

\* A larger footprint must last; the smallest of the run is taken.
Grow(g, f) ==
    LET n == g.expand.count + 1
        l == IF n = 1 THEN f.len ELSE Min2(g.expand.len, f.len)
    IN IF n >= Expand THEN [g EXCEPT !.len = l, !.expand = NoExpand, !.shrink = <<>>]
       ELSE [g EXCEPT !.expand = [count |-> n, len |-> l], !.shrink = <<>>]

\* A smaller one shrinks by one step, never below the floor.
Reduce(g, f) ==
    LET w == Push(g.shrink, f.len)
    IN IF Measured(w) >= Shrink /\ FiniteMad(w) <= Mad
       THEN [g EXCEPT !.len = Max2(f.floor, Max2(FiniteMedian(w), @ - 1)),
                      !.shrink = <<>>, !.expand = NoExpand]
       ELSE [g EXCEPT !.shrink = w, !.expand = NoExpand]

\* Weak larger frames and equal ones end both runs; incomplete ones occupy
\* the shrink window and end the growth.
Resize(g, f) ==
    CASE f.quality < 2 -> [g EXCEPT !.shrink = Push(@, 0), !.expand = NoExpand]
      [] f.quality = 3 /\ f.len > g.len -> Grow(g, f)
      [] f.quality >= 2 /\ f.len < g.len -> Reduce(g, f)
      [] OTHER -> [g EXCEPT !.shrink = <<>>, !.expand = NoExpand]

Frozen(g, f) == {[Resize(p, f) EXCEPT !.valid = f.centre] : p \in Promote(g, f)}

-----------------------------------------------------------------------------
(* A gap ends every window; a new lifecycle starts afresh.                 *)
Continued(g, i) ==
    IF i.life THEN Fresh
    ELSE IF i.gap THEN Segment(g, TRUE) ELSE g

\* What the history keeps of a frame.
Footprint(f) == [len |-> f.len, quality |-> f.quality, floor |-> f.floor]

Update(g, f) == IF g.frozen THEN Frozen(g, f) ELSE Gathering(g, f)

Frame(i) ==
    \E l \in {Locked(i)} : \E f \in {GeometryFrame(i, l)} :
        LET new == l.active /\ ~lock.active
            first == i.gap \/ new
        IN /\ fusion' \in Update(Segment(Continued(fusion, i), new), f)
           /\ lock' = WriteBack(l, fusion')
           /\ pairs' = LET n == IF i.life \/ new THEN 0 ELSE pairs
                       IN IF Pair(f) /\ f.sure /\ f.centre THEN Min2(n + 1, Confirm) ELSE n
           /\ recent' = IF ~fusion'.frozen \/ ~fusion.frozen \/ i.life THEN <<>>
                        ELSE Slide(IF first THEN <<>> ELSE recent, Footprint(f),
                                   Max2(Window, Expand))

Next == \E i \in Inputs : Frame(i)

Spec == Init /\ [][Next]_vars

-----------------------------------------------------------------------------
\* A geometry becomes FORMAL, and may clear, only on Confirm agreeing full
\* measurements of the locked cargo, all of this lifecycle and segment.
FormalIsEarned ==
    [][fusion.auth # "FORMAL" /\ fusion'.auth = "FORMAL" => pairs' >= Confirm]_vars

Supports(o, n) == o.quality = 3 /\ o.len >= n
Smaller(o, n) == o.quality >= 2 /\ o.len < n

\* Within a lifecycle a frozen footprint grows only to what every frame of an
\* unbroken run measured ("One contaminated large frame cannot dictate the
\* frozen dimensions") or to the floor of its origin, and shrinks only after
\* enough complete smaller measurements ("Partial sides, tiny clusters and weak
\* identities [...] never authorize shrinkage").
SizeFollowsEvidence ==
    [][LET n == Len(recent') IN
       fusion.frozen /\ fusion'.frozen /\ n > 0 =>
         /\ fusion'.len > fusion.len =>
              \/ n >= Expand /\ \A k \in (n - Expand + 1)..n : Supports(recent'[k], fusion'.len)
              \/ fusion'.len = recent'[n].floor
         /\ fusion'.len < fusion.len =>
              Cardinality({k \in 1 .. n : Smaller(recent'[k], fusion.len)}) >= Shrink]_vars

\* Neither the authority of a geometry nor its frozen size runs ahead of the
\* measurements of this cargo.
GeometryIsEarned == FormalIsEarned /\ SizeFollowsEvidence

=============================================================================
