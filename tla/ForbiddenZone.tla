--------------------------- MODULE ForbiddenZone ---------------------------
(***************************************************************************)
(* The node that draws the cargo box (cargo_forbidden_zone_node.cpp).  One *)
(* thread: spinOnce serves the payload messages and the marker timer, then *)
(* update() moves the displayed box and publishes.                         *)
(*                                                                         *)
(* A box is a place on a line in units of CENTER_MAX_STEP_M, whether its   *)
(* size is the built-in default, and whether it has a height.  One update  *)
(* is one unit of time.  Colours, corners and texts are left out, and so   *)
(* is risk_level_, which nothing reads.                                    *)
(***************************************************************************)
EXTENDS Integers

CONSTANTS Messages,      \* what /payload_track_info may carry
          Hold,          \* DISPLAY_HOLD_TIME_SEC
          MaxLost,       \* the lost_count limit of the hold
          SwitchConfirm, \* SWITCH_CONFIRM_FRAMES
          MinConfirm,    \* min_confirm_frames_
          KeepSuspended  \* keep_suspended_timeout_sec_

VARIABLES cargo,     \* cargo_: the last message, as far as it was read
          machine,   \* cargo_state_, current_track_id_, confirm_count_, last_suspended_time_
          geometry,  \* has_precise_bbox_ and the stable_* box
          display,   \* display_state_
          out,       \* the core and the stable marker last published
          cleared    \* history: the last message read took the box away

vars == <<cargo, machine, geometry, display, out, cleared>>

NoTrack == 0
DefaultBox == [place |-> 0, real |-> FALSE, tall |-> FALSE]
NoBox == [place |-> -1, real |-> FALSE, tall |-> FALSE]
Distance(a, b) == IF a > b THEN a - b ELSE b - a
Capped(n, limit) == IF n < limit THEN n + 1 ELSE limit

Init ==
    /\ cargo = [valid |-> FALSE, track |-> NoTrack, precise |-> FALSE]
    /\ machine = [state |-> "UNKNOWN", track |-> NoTrack, confirm |-> 0,
                  age |-> KeepSuspended]
    /\ geometry = [precise |-> FALSE, box |-> DefaultBox]
    /\ display = [valid |-> FALSE, track |-> NoTrack, box |-> DefaultBox,
                  age |-> 0, lost |-> 0, candidate |-> NoTrack, count |-> 0,
                  sent |-> FALSE]
    /\ out = [core |-> NoBox, stable |-> NoBox]
    /\ cleared = FALSE

-----------------------------------------------------------------------------
(* A payload message.                                                      *)

Suspended(state) == state \in {"SUSPENDED_MOVING", "SUSPENDED_STATIC"}

\* A valid message of the track in force: suspended while its score lasts;
\* at rest it is suspended for a while, and later only if it hangs.
LockedTrack(mach, msg) ==
    LET resting == mach.age < KeepSuspended \/ msg.hangs IN
    IF msg.score = "low"
    THEN [mach EXCEPT !.state = "LOST", !.track = NoTrack, !.confirm = 0]
    ELSE [mach EXCEPT !.confirm = 0,
              !.state = IF msg.moves THEN "SUSPENDED_MOVING"
                        ELSE IF resting THEN "SUSPENDED_STATIC"
                        ELSE "GROUND_CARGO",
              !.age = IF msg.moves THEN 0 ELSE @]

\* A track that is not in force has to be confirmed by its score.
NewTrack(mach, msg) ==
    LET confirmed == mach.confirm + 1 >= MinConfirm IN
    CASE msg.score # "lock" -> [mach EXCEPT !.confirm = 0]
      [] msg.score = "lock" /\ ~confirmed -> [mach EXCEPT !.confirm = @ + 1]
      [] OTHER -> [mach EXCEPT !.track = msg.track, !.confirm = 0, !.age = 0,
                               !.state = "SUSPENDED_MOVING"]

\* updateCargoStateMachine, which is only reached with a valid message.
StateMachine(mach, msg) ==
    IF mach.track = NoTrack \/ mach.track # msg.track
    THEN NewTrack(mach, msg)
    ELSE LockedTrack(mach, msg)

\* A box that cannot be right leaves the stable box as it was.
PreciseGeometry(msg) ==
    IF msg.sane
    THEN [precise |-> TRUE,
          box |-> [place |-> msg.place, real |-> msg.real, tall |-> TRUE]]
    ELSE [geometry EXCEPT !.precise = FALSE]

\* payloadTrackCallback.  The callback adopts the track before the state
\* machine compares it.
PayloadInvalid(msg) ==
    /\ ~msg.valid
    /\ cargo' = [cargo EXCEPT !.valid = FALSE]
    /\ UNCHANGED <<machine, geometry, display, out, cleared>>

\* mutant: a source that is not precise leaves the geometry usable.
PayloadImpreciseKeepsGeometry(msg) ==
    /\ msg.valid /\ ~msg.precise
    /\ cargo' = [valid |-> TRUE, track |-> msg.track, precise |-> FALSE]
    /\ display' = [display EXCEPT !.valid = FALSE]
    /\ cleared' = TRUE
    /\ UNCHANGED <<geometry, machine, out>>

\* DELETEALL is throttled: it need not be sent, and what the viewer still
\* shows then ends with the marker's life time.
PayloadImprecise(msg) ==
    /\ msg.valid /\ ~msg.precise
    /\ cargo' = [valid |-> TRUE, track |-> msg.track, precise |-> FALSE]
    /\ display' = [display EXCEPT !.valid = FALSE]
    /\ geometry' = [geometry EXCEPT !.precise = FALSE]
    /\ cleared' = TRUE
    /\ UNCHANGED <<machine, out>>

PayloadPrecise(msg) ==
    /\ msg.valid /\ msg.precise
    /\ cargo' = [valid |-> TRUE, track |-> msg.track, precise |-> TRUE]
    /\ geometry' = PreciseGeometry(msg)
    /\ machine' = StateMachine([machine EXCEPT !.track = msg.track], msg)
    /\ cleared' = FALSE
    /\ UNCHANGED <<display, out>>

Payload(msg) == PayloadInvalid(msg) \/ PayloadImprecise(msg) \/ PayloadPrecise(msg)

-----------------------------------------------------------------------------
(* One update.                                                             *)

\* displayStateLooksPolluted
Polluted ==
    /\ display.valid
    /\ \/ Distance(display.box.place, geometry.box.place) > 1
       \/ ~display.box.tall /\ geometry.box.tall
       \/ ~display.box.real

\* resetDisplayStateFromPreciseBbox; the first lock and the confirmed switch
\* assign the same fields.
Adopted == [valid |-> TRUE, track |-> cargo.track, box |-> geometry.box,
            age |-> 0, lost |-> 0, candidate |-> NoTrack, count |-> 0,
            sent |-> FALSE]

\* No cargo: hold the box, then let it expire.
Holding ==
    LET held == [display EXCEPT !.lost = Capped(@, MaxLost + 1)] IN
    IF /\ display.valid
       /\ held.age > Hold /\ held.lost > MaxLost /\ ~held.sent
    THEN [held EXCEPT !.valid = FALSE, !.sent = TRUE]
    ELSE IF display.valid THEN held ELSE display

\* limitCenterStep and safeSizeUpdate, with the guard against a default
\* size that would otherwise never be left.
Toward(from, to) ==
    [place |-> IF from.place < to.place THEN from.place + 1
               ELSE IF from.place > to.place THEN from.place - 1 ELSE to.place,
     real |-> from.real \/ to.real,
     tall |-> to.tall]
SameTrack == [Adopted EXCEPT !.box = Toward(display.box, geometry.box)]

\* Another track: a far one is refused, a near one has to be seen often.
OtherTrack ==
    LET count == IF display.candidate = cargo.track THEN display.count + 1 ELSE 1
    IN IF Distance(display.box.place, geometry.box.place) > 4
       THEN [display EXCEPT !.candidate = NoTrack, !.count = 0]
       ELSE IF count < SwitchConfirm
       THEN [display EXCEPT !.candidate = cargo.track, !.count = count]
       ELSE Adopted

\* updateStableBboxStateMachine, in the order of its early returns.
DisplayNext ==
    IF geometry.precise /\ (~display.valid \/ Polluted) THEN Adopted
    ELSE IF cargo.valid /\ ~cargo.precise THEN display
    ELSE IF ~cargo.valid \/ machine.state \in {"UNKNOWN", "LOST"} THEN Holding
    ELSE IF ~display.valid THEN Adopted
    ELSE IF display.track = cargo.track THEN SameTrack
    ELSE OtherTrack

\* publishThreeLayerMarkers: the green box, from the display alone.
CoreMarker(d) == IF d.valid /\ d.box.tall THEN d.box ELSE NoBox

\* publishResults: the yellow box needs a suspended cargo.
StableMarker == IF cargo.valid /\ Suspended(machine.state)
                THEN geometry.box ELSE NoBox

\* One turn of spin().
Update ==
    \E d \in {DisplayNext} :
        /\ display' = [d EXCEPT !.age = Capped(@, Hold + 1)]
        /\ machine' = [machine EXCEPT !.age = Capped(@, KeepSuspended)]
        /\ out' = [core |-> CoreMarker(d), stable |-> StableMarker]
        /\ UNCHANGED <<cargo, geometry, cleared>>

\* markerTimerCallback
MarkerTimer ==
    /\ out' = [out EXCEPT !.core = CoreMarker(display)]
    /\ UNCHANGED <<cargo, machine, geometry, display, cleared>>

Next == (\E msg \in Messages : Payload(msg)) \/ Update \/ MarkerTimer

Spec == Init /\ [][Next]_vars

-----------------------------------------------------------------------------
\* A green box is only drawn for a box that was measured, and not after a
\* message that took it away: payloadTrackCallback says an invalid source
\* must clear the box, and update() and the timer draw it later.
GreenBoxIsBacked ==
    [][out'.core # out.core /\ out'.core # NoBox =>
            out'.core.tall /\ ~cleared]_vars

\* A new track is confirmed by its score before the cargo counts as
\* suspended (updateCargoStateMachine).
NewTrackIsConfirmed ==
    [][Suspended(machine'.state) /\ ~Suspended(machine.state)
            => machine.confirm + 1 >= MinConfirm]_vars

\* The box of another track is refused when it is too far away
\* (JUMP_REJECT_GATE_M).
JumpIsRejected ==
    [][display.valid /\ display'.valid /\ display'.track # display.track
            => Distance(display.box.place, display'.box.place) <= 4]_vars

\* Once the hold has expired the box is gone until a message brings it back.
ExpiredBoxStaysAway ==
    [][display.sent /\ ~display.valid /\ display'.valid => cargo.valid]_vars
=============================================================================
