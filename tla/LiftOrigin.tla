----------------------------- MODULE LiftOrigin -----------------------------
(***************************************************************************)
(* Where the cargo was lifted from.  While the hook is EMPTY the node      *)
(* watches the static component under the crane                            *)
(* (CargoPreloadBaselineTracker); once it is loaded CargoLiftOriginBinder  *)
(* binds one origin, confirms the lift against its top and then the        *)
(* thickness against the floor it uncovered (RevealedSupportObserver).     *)
(* updateCargoLiftAndGeometryFusion feeds the three and keeps the bound    *)
(* component.  Components become mature in the static evidence index at    *)
(* any time, the suspended cargo itself included.                          *)
(*                                                                         *)
(* A component is the place it stands on; a place is near the crane when   *)
(* it is within maximum_anchor_distance_m.  Overlap, distance and top      *)
(* error choose among near components of one authority class: any may win. *)
(* One generation of the height field; a detection that is current carries *)
(* the stamp of its frame, so evidence is never consumed twice.  The       *)
(* binder's previous_loaded_ is always behind an unbound result and is not *)
(* kept.  REQUIRED gravity role.                                           *)
(***************************************************************************)
EXTENDS Integers

CONSTANTS Places,    \* where mature components may stand
          Approved,  \* places of the operator-approved baseline
          Reach,     \* maximum_anchor_distance_m
          Baseline,  \* cargo_preload_baseline.minimum_confirm_frames
          Lift,      \* lift_confirm_frames
          Thickness, \* thickness_confirm_frames
          Frames     \* the frames of the instance

VARIABLES known,   \* mature components of the index
          node,    \* lifecycle bookkeeping and the copies of components
          binder,  \* CargoLiftOriginBinder::result_
          load     \* history: the components known when this load began

vars == <<known, node, binder, load>>

None == 0
Unbound == [valid |-> FALSE, source |-> "none", id |-> None, lift |-> 0,
            lifted |-> FALSE, thick |-> 0, ready |-> FALSE]
NoBaseline == [count |-> 0, of |-> None]

Init ==
    /\ known \in SUBSET Places
    /\ node = [last |-> "UNKNOWN", latched |-> FALSE, init |-> FALSE, prev |-> FALSE,
               boundary |-> {}, window |-> NoBaseline, preload |-> None, origin |-> None]
    /\ binder = Unbound
    /\ load = {}

\* The clean-map worker confirms a component.
Mature(p) ==
    /\ p \notin known
    /\ known' = known \union {p}
    /\ UNCHANGED <<node, binder, load>>

-----------------------------------------------------------------------------
(* The gravity edge and the presence latch, before the fusion.             *)

\* resetCargoForHookState: the baseline survives only the edge to LOADED.
ResetNode(n, keep) ==
    [n EXCEPT !.latched = FALSE, !.init = FALSE, !.prev = FALSE, !.boundary = {},
              !.origin = None,
              !.window = IF keep THEN @ ELSE NoBaseline,
              !.preload = IF keep THEN @ ELSE None]

Edge(n, gravity) ==
    LET m == [n EXCEPT !.last = gravity] IN
    CASE gravity = n.last -> n
      [] gravity = "EMPTY" /\ n.last # "EMPTY" -> ResetNode(m, FALSE)
      [] gravity = "LOADED" /\ n.last # "LOADED" -> ResetNode(m, TRUE)
      [] OTHER -> m

Presence(n, gravity) ==
    [n EXCEPT !.latched = gravity = "LOADED" \/ (@ /\ gravity # "EMPTY")]

\* clear_allowed: the first EMPTY frame forgets the load, then the baseline
\* is watched.
Cleared(n) ==
    IF n.init /\ ~n.prev THEN [n EXCEPT !.boundary = {}]
    ELSE [n EXCEPT !.boundary = {}, !.window = NoBaseline, !.preload = None,
                   !.origin = None, !.init = TRUE, !.prev = FALSE]

\* A load begins: the boundary of the static evidence is taken.
Begins(n) == n.latched /\ (~n.init \/ ~n.prev)

Lifecycle(n) ==
    [n EXCEPT !.boundary = IF Begins(n) THEN known ELSE IF ~n.latched THEN {} ELSE @,
              !.origin = IF Begins(n) THEN None ELSE @,
              !.init = TRUE, !.prev = n.latched]

-----------------------------------------------------------------------------
(* The components a frame sees.                                            *)

Near(p, at) == at # None /\ p - at <= Reach /\ at - p <= Reach
Seen(at) == {p \in known : Near(p, at)}

\* mutant: a component that matured under the load counts as older than it.
PredatesAnyMature(n, p) == p \in known

Predates(n, p) == p \in Approved \/ ~n.latched \/ p \in n.boundary

\* The baseline of the component under the crane; one that is not localized,
\* or out of range, or another one starts again.
Watch(n, f) ==
    IF n.latched \/ f.at = None THEN n
    ELSE LET same == n.window.of = f.at /\ ~f.gap
             seen == f.at \in known /\ f.localized
             count == IF ~same THEN 1 ELSE IF n.window.count < Baseline
                                           THEN n.window.count + 1 ELSE Baseline
         IN [n EXCEPT !.window = IF seen THEN [count |-> count, of |-> f.at] ELSE NoBaseline,
                      !.preload = IF seen /\ count >= Baseline THEN f.at ELSE @]

\* Static candidates of the frame: seen, or copied earlier.
Static(n, f) == (Seen(f.at) \union {n.preload, n.origin}) \ {None}
Formal(n, f) == {p \in Static(n, f) : Predates(n, p)}

\* The floor of the copied origin is seen where its own layer is gone.  Only
\* returns of this frame count; a cell out of view says nothing.
Revealed(n, f) == n.origin # None /\ n.latched /\ f.at # None /\ f.revealed

\* The copy of the bound component, before and after the binder.
Copy(n, f, b) ==
    IF ~b.valid THEN n.origin
    ELSE IF b.source = "static" /\ b.id \in Seen(f.at) \union {n.preload, n.origin} THEN b.id
    ELSE None

CopyBefore(n, f, b) ==
    IF b.valid /\ b.source = "static" /\ b.id \in Seen(f.at) \union {n.preload}
    THEN b.id ELSE n.origin

-----------------------------------------------------------------------------
(* The binder.                                                             *)

Bound(source, p) == [Unbound EXCEPT !.valid = TRUE, !.source = source, !.id = p]

Present(b, n, f) ==
    CASE b.source = "static"  -> b.id \in Formal(n, f)
      [] b.source = "retired" -> f.retired
      [] OTHER                -> f.at # None

\* What an unbound binder may bind: a formal component near the crane, else
\* the retired shape (it moves with the crane), else the configured envelope.
Choices(n, f) ==
    LET near == {p \in Formal(n, f) : Near(p, f.at)} IN
    IF near # {} THEN {Bound("static", p) : p \in near}
    ELSE {Bound(IF f.retired THEN "retired" ELSE "configured", None)}

\* A bound origin stays while its component is a candidate; a provisional one
\* is upgraded when a formal component is near the crane.
Binding(b, n, f) ==
    LET near == {p \in Formal(n, f) : Near(p, f.at)} IN
    CASE b.valid /\ Present(b, n, f) /\ (b.source = "static" \/ near = {}) -> {b}
      [] b.valid /\ Present(b, n, f) /\ ~(b.source = "static" \/ near = {}) ->
            {Bound("static", p) : p \in near}
      [] ~(b.valid /\ Present(b, n, f)) ->
            IF f.at = None THEN {Unbound} ELSE Choices(n, f)

\* A gap breaks a window that is not confirmed.
Gap(b, f) ==
    [b EXCEPT !.lift = IF f.gap /\ ~b.lifted THEN 0 ELSE @,
              !.thick = IF f.gap /\ ~b.ready THEN 0 ELSE @]

Confirm(b, f, revealed) ==
    LET lift == IF f.top = "lifted" THEN b.lift + 1 ELSE 0
        lifted == b.lifted \/ lift >= Lift
        thick == IF ~lifted \/ ~revealed THEN 0 ELSE b.thick + 1
    IN IF ~b.valid THEN b
       ELSE [b EXCEPT !.lift = IF b.lifted THEN @ ELSE lift, !.lifted = lifted,
                      !.thick = IF b.ready THEN @ ELSE thick,
                      !.ready = @ \/ thick >= Thickness]

\* The results the binder may return for the frame.
Update(b, n, f, valid, revealed) ==
    IF ~valid THEN {[Gap(b, f) EXCEPT !.valid = FALSE]}
    ELSE IF ~n.latched THEN {Unbound}
    ELSE {Confirm(c, f, revealed) : c \in Binding(Gap(b, f), n, f)}

-----------------------------------------------------------------------------
(* One frame of the pipeline.                                              *)

\* A frame: [gravity, at (the anchor, or None), gap, localized, top ("rest" or
\* "lifted"), revealed (the floor of the origin), retired (a retired shape)].
Prepared(f) ==
    LET n == Presence(Edge(node, f.gravity), f.gravity) IN
    IF f.gravity = "EMPTY" THEN Cleared(n) ELSE n

Frame(f) ==
    \E n \in {Prepared(f)} :
        LET reset == f.gravity # node.last /\ f.gravity # "UNKNOWN"
            b == IF reset \/ Begins(n) THEN Unbound ELSE binder
            w == Watch(Lifecycle(n), f)
            o == [w EXCEPT !.origin = IF f.at = None THEN @ ELSE CopyBefore(w, f, b)]
        IN IF f.gravity = "UNKNOWN" /\ ~n.latched
           THEN node' = n /\ UNCHANGED <<known, binder, load>>
           ELSE /\ binder' \in Update(b, o, f, f.gravity # "UNKNOWN", Revealed(o, f))
                /\ node' = [o EXCEPT !.origin = Copy(o, f, binder')]
                /\ load' = IF ~n.latched THEN {}
                           ELSE IF node.latched THEN load ELSE known
                /\ UNCHANGED known

Next == (\E p \in Places : Mature(p)) \/ (\E f \in Frames : Frame(f))

Spec == Init /\ [][Next]_vars

-----------------------------------------------------------------------------
\* No frame binds or keeps a static origin that is not older than the
\* lifecycle: what matured after the boundary was taken, the hovering cargo for
\* one, is never bound ("runtime origins must predate the active cargo
\* lifecycle").
OriginPredatesLifecycle ==
    [][binder'.valid /\ binder'.source = "static" =>
           binder'.id \in Approved \union node'.boundary]_vars

\* The same against the load that hangs on the hook.  Not what the code does:
\* a gravity stream that goes silent and returns LOADED starts a new lifecycle
\* with a new boundary under the same load.
OriginPredatesLoad ==
    binder.valid /\ binder.source = "static" => binder.id \in Approved \union load

\* A confirmed lift stays confirmed until the next lifecycle.  Not what the
\* code does: carrying a load of unmapped origin past a static component
\* upgrades the origin and starts the confirmation again.
LiftStaysConfirmed ==
    [][binder.valid /\ binder.lifted /\ node.latched /\ node'.latched
         /\ node'.last = node.last => binder'.lifted]_vars

=============================================================================
