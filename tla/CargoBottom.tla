---------------------------- MODULE CargoBottom ----------------------------
(***************************************************************************)
(* How high the cargo hangs: the gate of the frame pipeline that admits a  *)
(* measured top (ndt_slam.cpp, "formal vertical state") and behind it      *)
(* CargoBottomFusion::update (cargo_bottom_fusion.cpp), which chooses a    *)
(* source, holds the last good bottom for a while and lets a large jump    *)
(* through only when it is confirmed.                                      *)
(*                                                                         *)
(* Heights are whole steps.  The bottom stands for the box: its top and    *)
(* centre move with it.  A frame says how much time passed, what it sees   *)
(* and where; the moving average of a source is part of what it measures.  *)
(* The box is always constructible, because its footprint is the locked    *)
(* shape.  A rolled back stamp is not enumerated: handleLidarTimeRollback  *)
(* resets the cargo before the frame gets here.                            *)
(***************************************************************************)
EXTENDS Integers, FiniteSets, Sequences

CONSTANTS Frames,       \* what a frame may bring
          Speed,        \* live_pose_max_z_speed_mps, steps per tick
          Gap,          \* maximum_observation_gap_sec
          Window,       \* accumulation_window_sec
          Enough,       \* weak frames that together support a bottom
          Hold,         \* stable_hold_sec
          Stale,        \* stale_reset_sec
          Soft,         \* soft_update_max_jump; direct_update_max_jump is 0
          Confirm,      \* large_jump_confirm_frames
          Range,        \* bound: the bottoms that are followed
          Settle        \* history: frames after which a rest must show

VARIABLES formal,   \* formal_cargo_vertical_state_, vertical_reacquisition_pending_
          fusion,   \* the members of CargoBottomFusion
          out,      \* the last CargoBottomResult, with what it was judged against
          log       \* history: the last measurements, and how often the last repeated

vars == <<formal, fusion, out, log>>

None == -9
Abs(n) == IF n < 0 THEN -n ELSE n
Older(age, dt, limit) == IF age + dt > limit THEN limit ELSE age + dt

NoStable == [on |-> FALSE, rel |-> FALSE, v |-> 0, age |-> 0]
NoFinal == [on |-> FALSE, rel |-> FALSE, v |-> 0, source |-> "INVALID"]
NoPending == [source |-> "INVALID", v |-> 0, count |-> 0, age |-> Hold + 1]
NoResult == [valid |-> FALSE, source |-> "INVALID", bottom |-> None,
             from |-> None, by |-> "INVALID", seen |-> None, age |-> 0]

\* resetTemporalState; a track that is not yet known is track 0.
NewFusion(track, auth) ==
    [track |-> track, auth |-> auth, acc |-> {}, stable |-> NoStable,
     final |-> NoFinal, pending |-> NoPending, known |-> FALSE,
     last |-> NoResult]

NoFrame == [dt |-> 0, track |-> 0, auth |-> 0, top |-> None, support |-> FALSE,
            points |-> "none", low |-> 0, priors |-> {}, pose |-> 0]
NoLog == [samples |-> <<>>, rest |-> 0, frame |-> NoFrame, high |-> 0,
          rebased |-> FALSE]

Init ==
    /\ formal = [track |-> 0, z |-> 0, age |-> 0, count |-> 0, for |-> 0]
    /\ fusion = NewFusion(0, 0)
    /\ out = NoResult
    /\ log = NoLog

-----------------------------------------------------------------------------
(* The gate.  A frame with a supported top is compared with the last one   *)
(* that was admitted, unless that is too old or of another track.          *)

Supported(o) == /\ o.track # 0 /\ o.top # None /\ o.support
                /\ \E p \in o.priors : p.source = "FROZEN"
Step(o) == o.top - formal.z
Comparable(o) == formal.track = o.track /\ formal.age + o.dt <= Gap
Allowed(o) == Speed * (formal.age + o.dt)

TooLow(o) == Supported(o) /\ Comparable(o) /\ Step(o) < -Allowed(o)
TooHigh(o) == Supported(o) /\ Comparable(o) /\ Step(o) > Allowed(o)
HighCount(o) == IF formal.for = o.track THEN formal.count + 1 ELSE 1

Rejected(o) == TooLow(o) \/ (TooHigh(o) /\ HighCount(o) < Confirm)

\* What the gate leaves of the frame.
Admitted(o) == IF Rejected(o)
               THEN [o EXCEPT !.top = None, !.support = FALSE, !.points = "none"]
               ELSE o

\* mutant: a rejected top renews the stamp of the admitted one too.
AgedFormalRenewed(o) ==
    [formal EXCEPT !.age = IF Supported(o) THEN 0 ELSE Older(@, o.dt, Gap + 1)]

AgedFormal(o) == [formal EXCEPT !.age = Older(@, o.dt, Gap + 1)]

\* A rejected low top ends the count of high ones; a sample within the
\* bounds does not.
FormalNext(o) ==
    LET aged == AgedFormal(o) IN
    IF ~Supported(o) THEN aged
    ELSE IF TooLow(o) THEN [aged EXCEPT !.count = 0, !.for = 0]
    ELSE IF Rejected(o)
         THEN [aged EXCEPT !.count = HighCount(o), !.for = o.track]
    ELSE [aged EXCEPT !.track = o.track, !.z = o.top, !.age = 0,
              !.count = IF TooHigh(o) THEN 0 ELSE @,
              !.for = IF TooHigh(o) THEN 0 ELSE @]

\* The centre the fusion sees is the admitted one, else that of the pose.
Center(o) == IF FormalNext(o).track = o.track THEN FormalNext(o).z ELSE o.pose

-----------------------------------------------------------------------------
(* The sources of one frame, and the memory they fall back to.             *)

Priority(source) ==
    CASE source = "MAP_DIFF" -> 6
      [] source = "FROZEN" -> 5
      [] source = "ORIGIN" -> 4
      [] source = "POINTS" -> 3
      [] source = "MAP_STATIC" -> 2
      [] source = "RECENT_STABLE" -> 1
      [] OTHER -> 0

\* analyzeVertical: enough of the cargo is in view, now or together with
\* the frames of the window.
PointsSupport(f, o) ==
    \/ o.points = "strong"
    \/ o.points = "weak" /\ Cardinality(f.acc) >= Enough

\* Every height prior is subtracted from the current top.
FrameSources(f, o) ==
    (IF PointsSupport(f, o) THEN {[source |-> "POINTS", z |-> o.low]} ELSE {})
    \union {[source |-> p.source, z |-> o.top - p.thick] :
                p \in {q \in o.priors : o.top # None /\ 
                      (q.source = "FROZEN" => o.support)}}

Held(f, o) == [source |-> "RECENT_STABLE",
               z |-> f.stable.v + (IF f.stable.rel THEN Center(o) ELSE 0)]

NoSource == [source |-> "INVALID", z |-> None]

Selected(f, o) ==
    LET seen == FrameSources(f, o) IN
    IF seen # {}
    THEN CHOOSE s \in seen : \A t \in seen : Priority(t.source) <= Priority(s.source)
    ELSE IF f.stable.on /\ f.stable.age <= Hold THEN Held(f, o)
    ELSE NoSource

-----------------------------------------------------------------------------
(* The output gate: one for all sources.                                   *)

Absolute(s) == s.source = "FROZEN"

SamePending(f, s) ==
    /\ f.pending.count > 0 /\ f.pending.source = s.source
    /\ Absolute(s) \/ f.pending.v = s.z

\* A large jump counts; one that goes on counts up.
Counted(f, s) ==
    [source |-> s.source,
     v |-> IF SamePending(f, s) THEN f.pending.v ELSE s.z,
     count |-> IF SamePending(f, s) THEN f.pending.count + 1 ELSE 1,
     age |-> IF Absolute(s) THEN 0 ELSE f.pending.age]

\* The stamp of the last positive sample outlives the streak it belongs to.
Dropped(f) == [NoPending EXCEPT !.age = f.pending.age]
Unpended(f) == IF f.pending.age > Hold THEN Dropped(f) ELSE f.pending

\* A lower absolute bottom is taken at once: it shrinks the clearance.
Descends(s, previous) == Absolute(s) /\ s.z < previous

\* What a large jump leaves pending.
Pending(f, s) == Counted(f, s)

\* [what is published, what stays pending, whether the old value is held]
Judged(f, s, previous) ==
    LET jump == Abs(s.z - previous)
        pend == Pending(f, s)
    IN IF jump = 0
       THEN [z |-> s.z, held |-> FALSE,
             pending |-> IF s.source = "RECENT_STABLE" THEN Unpended(f) ELSE Dropped(f)]
       ELSE IF jump <= Soft
       THEN [z |-> (s.z + previous) \div 2, held |-> FALSE, pending |-> Dropped(f)]
       ELSE IF Descends(s, previous)
       THEN [z |-> s.z, held |-> FALSE, pending |-> Dropped(f)]
       ELSE IF pend.count < Confirm
       THEN [z |-> previous, held |-> TRUE, pending |-> pend]
       ELSE [z |-> IF Absolute(s) THEN s.z ELSE pend.v, held |-> FALSE,
             pending |-> [Dropped(f) EXCEPT !.age = pend.age]]

\* A supported frame: fold it into the state and publish.
Fused(f, o, s) ==
    LET previous == f.final.v + (IF f.final.rel THEN Center(o) ELSE 0)
        j == IF f.final.on THEN Judged(f, s, previous)
             ELSE [z |-> s.z, held |-> FALSE, pending |-> f.pending]
        rel == ~Absolute(s)
        source == IF j.held THEN f.final.source ELSE s.source
        base == IF rel THEN Center(o) ELSE 0
        fresh == source # "RECENT_STABLE" /\ ~j.held
        result == [valid |-> TRUE, source |-> source, bottom |-> j.z,
                   from |-> IF f.final.on THEN previous ELSE None,
                   by |-> s.source, seen |-> s.z,
                   age |-> IF fresh THEN 0 ELSE f.stable.age]
    IN [f EXCEPT !.pending = j.pending,
            !.final = [on |-> TRUE, rel |-> rel, v |-> j.z - base, source |-> source],
            !.stable = IF fresh THEN [on |-> TRUE, rel |-> rel, v |-> j.z - base, age |-> 0]
                       ELSE @,
            !.known = TRUE, !.last = result]

\* Nothing to go by: an old streak is forgotten, the rest is kept.
Unsupported(f) == [f EXCEPT !.pending = Unpended(f), !.known = TRUE, !.last = NoResult]

\* appendPoints and purgeAccumulation: frames of the window with points.
Accumulated(f, o) ==
    LET aged == {a + o.dt : a \in f.acc} IN
    {a \in aged : a <= Window} \union (IF o.points = "none" THEN {} ELSE {0})

Aged(f, o) ==
    [f EXCEPT !.stable.age = IF f.stable.on THEN Older(@, o.dt, Hold + 1) ELSE 0,
              !.pending.age = Older(@, o.dt, Hold + 1)]

Process(f, o) ==
    LET g == [Aged(f, o) EXCEPT !.acc = Accumulated(f, o)]
        s == Selected(g, o)
    IN IF s.source = "INVALID" THEN Unsupported(g) ELSE Fused(g, o, s)

\* CargoBottomFusion::update, in the order of its branches.  A change of
\* the pose authority drops the accumulated points and skips the others.
FusionNext(f, o) ==
    IF o.track = 0 THEN NewFusion(0, 0)
    ELSE IF f.track # o.track THEN Process(NewFusion(o.track, o.auth), o)
    ELSE IF f.auth # o.auth /\ (o.points # "none" \/ o.top # None)
    THEN Process([f EXCEPT !.auth = o.auth, !.acc = {}], o)
    ELSE IF o.dt > Stale THEN [NewFusion(f.track, f.auth) EXCEPT !.known = TRUE]
    ELSE IF o.dt = 0 /\ f.known THEN f
    ELSE Process(f, o)

-----------------------------------------------------------------------------
\* History: the measurements of this track since the last reset, how long
\* the same frame has been seen, and how many frames in a row were too high.
Logged(g, o) ==
    LET seen == IF g.track # 0 /\ g.track = fusion.track THEN log.samples ELSE <<>>
        recent == IF Len(seen) < Confirm THEN seen ELSE Tail(seen)
        same == log.frame = [o EXCEPT !.dt = 0] /\ o.dt = 1
        high == IF log.high < Confirm THEN log.high + 1 ELSE Confirm
    IN [samples |-> IF \/ g = fusion \/ g.track = 0
                       \/ g.last.by \in {"INVALID", "RECENT_STABLE"}
                    THEN seen ELSE Append(recent, g.last.by),
        frame |-> [o EXCEPT !.dt = 0],
        rest |-> IF ~same THEN 0 ELSE IF log.rest < Settle THEN log.rest + 1 ELSE Settle,
        high |-> IF TooHigh(o) THEN high ELSE 0,
        rebased |-> TooHigh(o) /\ ~Rejected(o)]

Frame(o) ==
    \E g \in {FusionNext(fusion, Admitted(o))} :
        /\ g.last.valid => g.last.bottom \in Range      \* bound
        /\ formal' = FormalNext(o)
        /\ fusion' = g
        /\ out' = g.last
        /\ log' = Logged(g, o)

\* resetCargoForHookState and resetCargoAfterPoseDiscontinuity: the fusion
\* is reset, the gate is not.
Reset ==
    /\ fusion' = NewFusion(0, 0)
    /\ out' = NoResult
    /\ log' = NoLog
    /\ UNCHANGED formal

Next == (\E o \in Frames : Frame(o)) \/ Reset

Spec == Init /\ [][Next]_vars

-----------------------------------------------------------------------------
\* The published bottom rises to a measurement by more than the soft step
\* only after as many measurements of that source as the configuration asks
\* for, whatever holds, losses and changes of the pose authority lie between
\* (LargeCrossSourceJumpRequiresConfirmation).  The rise back to the last
\* good bottom, of frames that measure nothing, has no such backing.
JumpIsConfirmed ==
    /\ out.valid /\ out.from # None /\ out.bottom - out.from > Soft
    /\ out.source # "RECENT_STABLE"
    => /\ Len(log.samples) = Confirm
       /\ \A i \in DOMAIN log.samples : log.samples[i] = out.source

\* A cargo whose supported top rests at one height is published where its
\* best prior puts it, up to the smoothing of a soft step: the two gates in
\* a row, each with its own memory and count, never keep a wrong bottom for
\* good.
Best(p, priors) == \A q \in priors : Priority(q.source) <= Priority(p.source)
RestIsPublished ==
    log.rest = Settle /\ Supported(log.frame) =>
        /\ out.valid
        /\ \A p \in log.frame.priors :
               Best(p, log.frame.priors) =>
                   Abs(out.bottom - (log.frame.top - p.thick)) <= Soft

\* The bottom neither jumps up on too little evidence nor stays wrong.
BottomIsSound == JumpIsConfirmed /\ RestIsPublished

\* A bottom that a supported top shows to be lower is not hidden behind the
\* older, higher one (comment at the downward branch of the output gate).
LowerBottomIsNotHidden ==
    out.valid /\ Supported(log.frame) =>
        \A p \in log.frame.priors :
            p.source = "FROZEN" => out.bottom <= log.frame.top - p.thick + Soft

\* A large upward step of the formal height needs consecutive samples that
\* agree on it (comment at the reacquisition of the gate).
ReacquisitionIsConsecutive == log.rebased => log.high = Confirm
=============================================================================
