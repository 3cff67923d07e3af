---------------------------- MODULE OriginHeight ----------------------------
(***************************************************************************)
(* The thickness of the cargo, measured while the hook is still EMPTY: the *)
(* frame thread records samples (recordEmptyHookOriginHeight), the         *)
(* callback of the gravity topic turns them into a pending origin on the   *)
(* EMPTY -> LOADED edge (hookLoadStateCallback), and the frame thread      *)
(* attaches the pending origin to its track.  The two threads share the    *)
(* snapshot, the history and the pending origin under                      *)
(* hook_load_state_mutex_; the frame thread acts on a copy of the snapshot *)
(* that it took when the frame began.                                      *)
(*                                                                         *)
(* Stamps are ages.  The spread, deviation and range limits of the history *)
(* are one fact of the message, "steady"; a sample that is out of range or *)
(* weak is not recorded.                                                   *)
(***************************************************************************)
EXTENDS Naturals, FiniteSets, Sequences

CONSTANTS Roles,      \* hook_load_signal_role_: "REQUIRED", "AUXILIARY"
          Needed,     \* samples for an origin: 3 in the code
          MaxSamples, \* empty_hook_height_history_max_samples_
          MaxAge,     \* origin_history_max_age_sec_
          Timeout,    \* hook_load_state_stale_timeout_sec_
          MaxLag,     \* bound: how far a frame lags behind the clock
          MaxPhases   \* bound: EMPTY phases

VARIABLES role,
          gravity,  \* hook_load_snapshot_ and its age; history: the phase
          samples,  \* empty_hook_height_history_: ages, with their phase
          pending,  \* pending_origin_*
          frame,    \* the frame thread: where it is, its snapshot and stamp
          track     \* the fusion track and the origin attached to it

vars == <<role, gravity, samples, pending, frame, track>>

NoPending == [on |-> FALSE, age |-> 0, phase |-> 0]
NoTrack == [on |-> FALSE, origin |-> 0]

Init ==
    /\ role \in Roles
    /\ gravity = [state |-> "UNKNOWN", age |-> Timeout + 1, phase |-> 0]
    /\ samples = <<>>
    /\ pending = NoPending
    /\ frame = [pc |-> "idle", snap |-> "UNKNOWN", last |-> "UNKNOWN", lag |-> 0]
    /\ track = NoTrack

-----------------------------------------------------------------------------
(* The callback of the gravity topic, whole under the mutex.               *)

\* Samples of the history that are recent enough for the edge.
Recent == {i \in DOMAIN samples : samples[i].age <= MaxAge}

Edge(steady) ==
    LET enough == Cardinality(Recent) >= Needed
        first == CHOOSE i \in Recent : \A j \in Recent : i <= j
    IN [on |-> enough /\ steady, age |-> 0,
        phase |-> IF enough THEN samples[first].phase ELSE 0]

EnterEmpty ==
    /\ samples' = <<>>
    /\ pending' = NoPending

\* A message that is invalid, or older than the last one, leaves UNKNOWN; an
\* older one also ends every origin of the previous source.
Message(state, rollback, steady) ==
    /\ state = "EMPTY" /\ gravity.state # "EMPTY" => gravity.phase < MaxPhases   \* bound
    /\ rollback => state = "UNKNOWN"
    /\ \/ /\ gravity.state = "EMPTY" /\ state = "LOADED"
          /\ pending' = Edge(steady)
          /\ samples' = <<>>
       \/ /\ state = "EMPTY" /\ gravity.state # "EMPTY"
          /\ EnterEmpty
       \/ /\ rollback
          /\ samples' = <<>>
          /\ pending' = NoPending
       \/ /\ ~rollback
          /\ ~(gravity.state = "EMPTY" /\ state = "LOADED")
          /\ ~(gravity.state # "EMPTY" /\ state = "EMPTY")
          /\ UNCHANGED <<samples, pending>>
    /\ gravity' = [state |-> state, age |-> 0,
                   phase |-> IF state = "EMPTY" /\ gravity.state # "EMPTY"
                             THEN gravity.phase + 1 ELSE gravity.phase]
    /\ UNCHANGED <<role, frame, track>>

-----------------------------------------------------------------------------
(* The frame thread.                                                       *)

\* currentHookLoadSnapshot: a silent topic reads UNKNOWN.
Snapshot == IF gravity.age > Timeout THEN "UNKNOWN" ELSE gravity.state

BeginFrame(lag) ==
    /\ frame.pc = "idle"
    /\ frame' = [frame EXCEPT !.pc = "edge", !.snap = Snapshot, !.lag = lag]
    /\ UNCHANGED <<role, gravity, samples, pending, track>>

\* resetCargoForHookState.
ResetCargo(preserve) ==
    /\ track' = NoTrack
    /\ pending' = IF preserve THEN pending ELSE NoPending

\* The frame compares its copy with the state of the frame before.
HookEdge ==
    /\ frame.pc = "edge"
    /\ frame' = [frame EXCEPT !.pc = "record", !.last = frame.snap]
    /\ \/ /\ frame.snap # frame.last
          /\ \/ frame.snap = "EMPTY" /\ role = "REQUIRED" /\ ResetCargo(FALSE)
             \/ frame.snap = "LOADED" /\ ResetCargo(TRUE)
       \/ /\ \/ frame.snap = frame.last \/ frame.snap = "UNKNOWN"
             \/ frame.snap = "EMPTY" /\ role # "REQUIRED"
          /\ UNCHANGED <<pending, track>>
    /\ UNCHANGED <<role, gravity, samples>>

Bounded(s) == IF Len(s) > MaxSamples THEN Tail(s) ELSE s

RecordAllowed == frame.snap = "EMPTY" /\ gravity.state = "EMPTY"

\* A stamp that does not grow starts the history anew.
Record ==
    /\ RecordAllowed
    /\ LET old == IF samples # <<>> /\ samples[Len(samples)].age <= frame.lag
                  THEN <<>> ELSE samples
       IN samples' = Bounded(Append(old, [age |-> frame.lag, phase |-> gravity.phase]))

Recording ==
    /\ frame.pc = "record"
    /\ frame' = [frame EXCEPT !.pc = "attach"]
    /\ Record \/ UNCHANGED samples
    /\ UNCHANGED <<role, gravity, pending, track>>

\* evaluatePendingOriginBinding, on the age of the origin at the frame.
Binding(near) ==
    IF ~pending.on THEN "none"
    ELSE IF pending.age < frame.lag THEN "wait"
    ELSE IF pending.age - frame.lag > MaxAge \/ ~near THEN "discard"
    ELSE "attach"

\* A track that begins or ends has no origin; an active one without an
\* origin takes the pending one.
Attach(active, near) ==
    /\ frame.pc = "attach"
    /\ frame' = [frame EXCEPT !.pc = "idle", !.lag = 0]
    /\ LET same == track.on = active
           origin == IF same THEN track.origin ELSE 0
           action == IF active /\ origin = 0 THEN Binding(near) ELSE "none"
       IN /\ track' = [on |-> active,
                       origin |-> IF action = "attach" THEN pending.phase ELSE origin]
          /\ pending' = IF action \in {"attach", "discard"} THEN NoPending ELSE pending
    /\ UNCHANGED <<role, gravity, samples>>

\* resetCargoAfterPoseDiscontinuity keeps the origin of a load that hangs; its
\* branch that keeps the whole cargo touches nothing here.
PoseReset ==
    /\ frame.pc = "idle"
    /\ ResetCargo(Snapshot = "LOADED")
    /\ UNCHANGED <<role, gravity, samples, frame>>

\* handleLidarTimeRollback.
LidarRollback ==
    /\ frame.pc = "idle"
    /\ samples' = <<>>
    /\ pending' = NoPending
    /\ track' = NoTrack
    /\ UNCHANGED <<role, gravity, frame>>

Older(age, limit) == IF age < limit THEN age + 1 ELSE limit

Tick ==
    /\ frame.pc # "idle" => frame.lag < MaxLag                      \* bound
    /\ gravity' = [gravity EXCEPT !.age = Older(@, Timeout + 1)]
    /\ samples' = [i \in DOMAIN samples |->
                      [samples[i] EXCEPT !.age = Older(@, MaxAge + 1)]]
    /\ pending' = IF pending.on THEN [pending EXCEPT !.age = Older(@, MaxAge + MaxLag + 1)]
                  ELSE pending
    /\ frame' = [frame EXCEPT !.lag = IF frame.pc = "idle" THEN 0 ELSE @ + 1]
    /\ UNCHANGED <<role, track>>

Next ==
    \/ \E state \in {"EMPTY", "LOADED", "UNKNOWN"}, rollback, steady \in BOOLEAN :
           Message(state, rollback, steady)
    \/ \E lag \in 0..MaxLag : BeginFrame(lag)
    \/ HookEdge \/ Recording
    \/ \E active, near \in BOOLEAN : Attach(active, near)
    \/ PoseReset \/ LidarRollback \/ Tick

Spec == Init /\ [][Next]_vars

-----------------------------------------------------------------------------
\* A thickness that is attached to a track was measured in the EMPTY phase
\* right before the load that hangs now, whatever edges the gravity topic
\* went through while frames were under way.
OriginOfThisLoad ==
    [][track'.origin # 0 /\ track.origin = 0 =>
           track'.origin = gravity.phase /\ gravity.state # "EMPTY"]_vars

\* The reset of the frame thread for an EMPTY edge works on a copy of the
\* snapshot, while the callback may have gone on to LOADED: it never wipes
\* the origin of the new load.  This does NOT hold: see the README.
EdgeResetKeepsOrigin ==
    [][frame.pc = "edge" /\ frame'.pc = "record" /\ pending.on => pending'.on]_vars
=============================================================================
