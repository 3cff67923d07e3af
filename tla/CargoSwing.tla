----------------------------- MODULE CargoSwing -----------------------------
(***************************************************************************)
(* CargoSwingMonitor::update and the input updateAndPublishCargoSwing      *)
(* gives it: three alarms over one stream of measured cargo centres, each  *)
(* latched and released by timers of its own.                              *)
(*                                                                         *)
(* A stamp is an age, Off when it is unset, capped at Cap.  The offset of  *)
(* a measurement is a class ("calm" is below every end threshold, then     *)
(* "small", "warn", "alarm", "immediate"); the statistics of the history   *)
(* say whether the load is pulled to one side ("pulled") or hangs freely   *)
(* ("free", which one sample alone can never show); the yaw error is       *)
(* "none", "small", "warn" or "alarm".                                     *)
(***************************************************************************)
EXTENDS Integers

CONSTANTS Inputs,     \* the inputs of the instance, one set per channel
          Gap,        \* maximum_observation_gap_sec
          EvidenceHold, \* maximum_alarm_evidence_hold_sec
          MinHold,    \* minimum_alarm_hold_sec, skew_alarm_hold_sec
          EndConfirm, \* sway_end_confirm_sec, skew_clear_confirm_sec,
                      \* torsion_clear_confirm_sec
          SkewConfirm,\* skew_alarm_confirm_sec
          Mature,     \* minimum_valid_observation_sec
          SkewMature, \* skew_min_duration_sec
          Cap         \* bound on ages: above every limit

VARIABLES channel, \* the family of inputs this behaviour takes
          swing,   \* CargoSwingMonitor, result_ included
          quiet,   \* history: how long measurements have shown the end of
                   \* the alarm without a gap; Off when the last did not
          danger   \* history: age of the last immediate alarm, Off when none

vars == <<channel, swing, quiet, danger>>

Off == -1
Age(c, dt) == IF c = Off THEN Off ELSE IF c + dt > Cap THEN Cap ELSE c + dt
Past(c, limit) == c # Off /\ c >= limit

Fresh == [known |-> FALSE, motion |-> "UNKNOWN", meas |-> Off, hist |-> Off, valid |-> FALSE,
          latched |-> FALSE, hold |-> Off, below |-> Off, settling |-> FALSE, settle |-> Off,
          sway |-> "NOT_EVALUATED",
          skew |-> "NOT_EVALUATED", pulled |-> FALSE, pullHold |-> Off, pullCand |-> Off,
          pullClear |-> Off,
          torsion |-> "NOT_EVALUATED", twist |-> "NOT_EVALUATED", twistClear |-> Off,
          twistAge |-> Off]

Init ==
    /\ channel \in DOMAIN Inputs
    /\ swing = Fresh
    /\ quiet = Off
    /\ danger = Off

\* All stamps grow old together.
Aged(s, dt) ==
    [s EXCEPT !.meas = Age(@, dt), !.hist = Age(@, dt), !.hold = Age(@, dt),
              !.below = Age(@, dt), !.settle = Age(@, dt), !.pullHold = Age(@, dt),
              !.pullCand = Age(@, dt), !.pullClear = Age(@, dt),
              !.twistClear = Age(@, dt), !.twistAge = Age(@, dt)]

-----------------------------------------------------------------------------
(* What comes before the measurement.                                      *)

\* resetMeasurementHistoryPreserveSafetyLatches
NewSegment(s) ==
    [s EXCEPT !.hist = Off, !.meas = 0, !.below = Off, !.pullCand = Off,
              !.pullClear = Off, !.twistClear = Off]

\* Coming to rest starts the history of the oscillation afresh.
Motion(s, i) ==
    IF i.motion = s.motion THEN s
    ELSE IF i.motion = "STATIONARY"
    THEN [s EXCEPT !.motion = i.motion, !.hist = Off, !.meas = Off]
    ELSE [s EXCEPT !.motion = i.motion]

Severe(s) == s.sway \in {"SWAY_WARNING", "SWAY_ALARM", "SETTLING"}

\* Without a measurement everything is held, for a while as valid.
Held(s) ==
    LET alarm == s.latched \/ s.settling \/ s.pulled \/ s.twist = "TORSION_ALARM" \/ Severe(s)
        limit == IF alarm THEN EvidenceHold ELSE Gap
    IN [s EXCEPT !.valid = s.meas # Off /\ s.meas <= limit]

\* A gap ends the history and the sway timers; latches stay.
AfterGap(s) ==
    IF s.meas # Off /\ s.meas > Gap
    THEN [s EXCEPT !.hist = Off, !.below = Off, !.pullCand = Off] ELSE s

Measured(s) == [s EXCEPT !.meas = 0, !.hist = IF @ = Off THEN 0 ELSE @, !.valid = TRUE]

-----------------------------------------------------------------------------
(* Sway.                                                                   *)

Alarming(i) == i.auth /\ i.off \in {"alarm", "immediate"}
Calm(i) == i.auth /\ i.off = "calm"

Immediate(s, i) ==
    IF i.auth /\ i.off = "immediate"
    THEN [s EXCEPT !.latched = TRUE, !.settling = FALSE, !.hold = 0, !.below = Off] ELSE s

\* A latched alarm is released into SETTLING after its hold and a run of
\* calm measurements.
Latched(s, i) ==
    IF Past(s.hold, MinHold) /\ Calm(i)
    THEN LET below == IF s.below = Off THEN 0 ELSE s.below IN
         IF below >= EndConfirm
         THEN [s EXCEPT !.latched = FALSE, !.settling = TRUE, !.settle = 0,
                        !.below = below, !.sway = "SETTLING"]
         ELSE [s EXCEPT !.below = below, !.sway = "SWAY_ALARM"]
    ELSE [s EXCEPT !.below = Off, !.sway = "SWAY_ALARM"]

Settling(s, i) ==
    CASE Alarming(i) -> [s EXCEPT !.latched = TRUE, !.settling = FALSE, !.hold = 0,
                                  !.sway = "SWAY_ALARM"]
      [] ~Alarming(i) /\ ~Calm(i) -> [s EXCEPT !.settle = 0, !.sway = "SETTLING"]
      [] Calm(i) /\ s.settle >= EndConfirm -> [s EXCEPT !.settling = FALSE, !.sway = "NORMAL"]
      [] OTHER -> [s EXCEPT !.sway = "SETTLING"]

Graded(s, i) ==
    CASE s.hist >= Mature /\ i.auth ->
            [s EXCEPT !.sway = CASE Alarming(i)    -> "SWAY_ALARM"
                                 [] i.off = "warn" -> "SWAY_WARNING"
                                 [] i.off = "small" -> "SWAY_DETECTED"
                                 [] OTHER          -> "NORMAL"]
      [] ~(s.hist >= Mature /\ i.auth) /\ Severe(s) -> s
      [] OTHER -> [s EXCEPT !.sway = "NOT_EVALUATED"]

Sway(s, i) ==
    LET n == Immediate(s, i) IN
    CASE n.latched -> Latched(n, i)
      [] n.settling -> Settling(n, i)
      [] OTHER -> Graded(n, i)

-----------------------------------------------------------------------------
(* Skew pull.                                                              *)

Suspected(s, i) ==
    IF i.auth /\ i.off = "immediate" THEN "SKEW_PULL_SUSPECTED"
    ELSE IF s.hist < Mature \/ ~i.auth THEN "NOT_EVALUATED"
    ELSE IF s.hist >= SkewMature /\ i.pull = "pulled" THEN "SKEW_PULL_SUSPECTED"
    ELSE "NO_SKEW_PULL"

\* The candidate of an alarm: a pulled load under a fresh UP of the hoist.
Candidate(s, i) ==
    IF s.hist < Mature THEN s
    ELSE [s EXCEPT !.pullCand =
              IF i.auth /\ s.hist >= SkewMature /\ i.pull = "pulled" /\ i.hoist = "UP"
              THEN IF @ = Off THEN 0 ELSE @ ELSE Off]

\* mutant: a hoist that is not UP, stale or unknown, releases the alarm.
PullFreeAnyHoist(s, i) == i.hoist # "UP" /\ i.auth /\ i.pull = "free" /\ s.hist > 0

\* Only a fresh hoist that is known not to go up, with a measured recovery,
\* releases the alarm.
PullFree(s, i) == i.hoist = "STOPPED" /\ i.auth /\ i.pull = "free" /\ s.hist > 0

SkewPull(p, i) ==
    LET s == Candidate(p, i)
        alarm == s.hist >= Mature /\ Past(s.pullCand, SkewConfirm)
        clear == IF Past(s.pullHold, MinHold) /\ PullFree(s, i)
                 THEN IF s.pullClear = Off THEN 0 ELSE s.pullClear ELSE Off
    IN CASE alarm -> [s EXCEPT !.skew = "SKEW_PULL_ALARM", !.pulled = TRUE, !.pullClear = Off,
                               !.pullHold = IF s.pulled THEN @ ELSE 0]
         [] ~alarm /\ s.pulled /\ Past(clear, EndConfirm) ->
              [s EXCEPT !.pulled = FALSE, !.pullHold = Off, !.pullClear = Off,
                        !.skew = Suspected(s, i)]
         [] ~alarm /\ s.pulled /\ ~Past(clear, EndConfirm) ->
              [s EXCEPT !.pullClear = clear, !.skew = "SKEW_PULL_ALARM"]
         [] OTHER -> [s EXCEPT !.skew = Suspected(s, i)]

-----------------------------------------------------------------------------
(* Torsion.                                                                *)

\* A latch of a warning or an alarm is released by a run of small yaw errors
\* (a warning of an alarm's latch keeps the warning).
Latch(s, i) ==
    LET t == IF s.hist < Mature THEN "none" ELSE i.yaw IN
    CASE t = "alarm" -> [s EXCEPT !.twist = "TORSION_ALARM", !.twistClear = Off]
      [] t = "warn" /\ s.twist # "TORSION_ALARM" ->
            [s EXCEPT !.twist = "TORSION_WARNING", !.twistClear = Off]
      [] OTHER -> s

Release(s, i) ==
    LET clear == IF i.yaw # "small" THEN Off ELSE IF s.twistClear = Off THEN 0 ELSE s.twistClear
    IN IF s.twist = "NOT_EVALUATED" THEN s
       ELSE IF Past(clear, EndConfirm)
       THEN [s EXCEPT !.twist = "NOT_EVALUATED", !.twistClear = Off]
       ELSE [s EXCEPT !.twistClear = clear]

Torsion(s, i) ==
    IF i.yaw # "none"
    THEN LET n == Release(Latch([s EXCEPT !.twistAge = 0], i), i) IN
         [n EXCEPT !.torsion = IF n.twist # "NOT_EVALUATED" THEN n.twist
                               ELSE IF s.hist >= Mature THEN "NORMAL" ELSE "NOT_EVALUATED"]
    ELSE [s EXCEPT !.torsion = IF s.twist # "NOT_EVALUATED" /\ s.twistAge <= EvidenceHold
                               THEN s.twist ELSE "NOT_EVALUATED"]

-----------------------------------------------------------------------------
(* One input.                                                              *)

Update(s, i) ==
    CASE ~i.loaded -> Fresh
      [] i.loaded /\ i.anchor = "stale" -> [s EXCEPT !.valid = FALSE]
      [] i.loaded /\ i.anchor = "changed" /\ s.known -> [Fresh EXCEPT !.known = TRUE]
      [] i.loaded /\ i.anchor = "same" /\ i.segment /\ s.known -> NewSegment(s)
      [] OTHER ->
            LET m == Motion([s EXCEPT !.known = TRUE], i) IN
            CASE i.seen = "none" -> Held(m)
              [] i.seen = "poor" -> [m EXCEPT !.valid = FALSE]
              [] OTHER -> Torsion(SkewPull(Sway(Measured(AfterGap(m)), i), i), i)

Usable(i) == i.loaded /\ i.anchor = "same" /\ ~i.segment /\ i.seen = "good"

\* The end of the channel's alarm, as one measurement shows it.
Shows(i) ==
    CASE channel = "sway"    -> Calm(i)
      [] channel = "torsion" -> i.yaw = "small"
      [] OTHER               -> i.auth /\ i.pull = "free" /\ i.hoist = "STOPPED"

Frame(i) ==
    \E s \in {Aged(swing, i.dt)} :
        /\ swing' = Update(s, i)
        /\ quiet' = IF ~Usable(i) THEN (IF i.dt > Gap THEN Off ELSE Age(quiet, i.dt))
                    ELSE IF ~Shows(i) THEN Off
                    ELSE IF quiet = Off \/ s.meas = Off \/ s.meas > Gap THEN 0
                    ELSE Age(quiet, i.dt)
        /\ danger' = IF ~i.loaded \/ (i.anchor = "changed" /\ swing.known) THEN Off
                     ELSE IF Usable(i) /\ i.auth /\ i.off = "immediate" THEN 0
                     ELSE Age(danger, i.dt)
        /\ UNCHANGED channel

Next == \E i \in Inputs[channel] : Frame(i)

Spec == Init /\ [][Next]_vars

-----------------------------------------------------------------------------
\* After an offset beyond the immediate limit the monitor says SWAY_ALARM for
\* the whole hold, whatever gaps, poor frames, stale anchors and new track
\* segments follow; only an unload or another anchor ends it earlier.
AlarmHolds ==
    danger # Off /\ danger < MinHold => swing.latched /\ swing.sway = "SWAY_ALARM"

\* A latched skew alarm is released only when the hoist is fresh and known
\* not to go up ("stale/UNKNOWN hoist state must never serve as clear
\* evidence") and a run of measurements as long as the confirmation showed
\* it, all of one segment.
SkewReleaseIsObserved ==
    [][channel = "skew" /\ swing.pulled /\ ~swing'.pulled /\ swing'.valid
         => quiet' >= EndConfirm]_vars

\* An alarm is neither dropped early nor released on what was not seen.
SwingAlarmIsKept == SkewReleaseIsObserved /\ []AlarmHolds

\* The same of the sway alarm.  Not what the code does: coming to rest between
\* two measurements unsets the stamp that would reveal the gap.
SwayReleaseIsObserved ==
    [][channel = "sway" /\ swing.latched /\ swing'.settling => quiet' >= EndConfirm]_vars

\* The same of the torsion alarm.  Not what the code does: the timer of the
\* release runs on through a gap, though "a long observation gap [...] must
\* not silently clear a previously latched safety alarm".
TorsionReleaseIsObserved ==
    [][channel = "torsion" /\ swing.twist = "TORSION_ALARM" /\ swing'.valid
         /\ swing'.twist = "NOT_EVALUATED" => quiet' >= EndConfirm]_vars

=============================================================================
