--------------------------- MODULE HookLoadFilter ---------------------------
(***************************************************************************)
(* HookLoadStateFilter and its node: the weighing voltage on /gravity      *)
(* becomes UNKNOWN, INHIBIT, EMPTY or LOADED.  The source clock is         *)
(* ros::Time (it may stand still or go back under a replay), the wall      *)
(* clock is the machine's (it may be stepped).  Both are read afresh by    *)
(* every callback, so every callback takes them as inputs.                 *)
(*                                                                         *)
(* The configuration is valid and both clocks deliver finite times that    *)
(* are not negative, so the guards on them never fire in this node.        *)
(***************************************************************************)
EXTENDS Integers, Sequences

CONSTANTS
    Low, High,       \* low_threshold_v, high_threshold_v
    Hysteresis,      \* hysteresis_v
    VMin, VMax,      \* valid_voltage_min_v, valid_voltage_max_v
    ConfirmSamples,  \* confirm_samples
    MinDuration,     \* minimum_transition_duration_sec
    Stale,           \* stale_timeout_sec
    Voltages,        \* bound: the voltages received; NaN is one of them
    NaN,
    MaxSource,       \* bound: source times
    MaxWall          \* bound: wall times

ConfigValid ==
    /\ {Low, High, Hysteresis, VMin, VMax} \subseteq Int
    /\ Low < High /\ Hysteresis >= 0 /\ 2 * Hysteresis < High - Low
    /\ VMin < VMax
    /\ ConfirmSamples \in Nat \ {0} /\ Stale \in Nat \ {0}
    /\ MinDuration \in Nat

\* The configuration is valid, and voltages are numbers except NaN.
ASSUME HookConstants ==
    /\ ConfigValid
    /\ NaN \in Voltages /\ Voltages \ {NaN} \subseteq Int
    /\ MaxSource \in Nat /\ MaxWall \in Nat

Unknown == "UNKNOWN"
Inhibit == "INHIBIT"
Empty   == "EMPTY"
Loaded  == "LOADED"
States  == {Unknown, Inhibit, Empty, Loaded}

None == -1   \* a time that has not been set

VARIABLES
    stable,          \* stable_state_
    pending,         \* pending_state_
    pendingSamples,  \* pending_samples_
    since,           \* pending_since_source_time_sec_, None when not valid
    hasSample,       \* has_sample_
    lastSeen,        \* last_seen_source_time_sec_, None when not seen
    lastWall,        \* last_wall_time_sec_
    lastSampleWall,  \* last_sample_wall_time_sec_
    out,             \* the HookLoadState message published last
    now,             \* history: wall time of the last callback
    heard,           \* history: wall time of the last sample with a new stamp
    samples,         \* history: samples accepted since the last failure
    settled          \* history: the voltage that confirmed the stable state

state   == <<stable, pending, pendingSamples, since>>
clocks  == <<hasSample, lastSeen, lastWall, lastSampleWall>>
history == <<now, heard, samples, settled>>
vars    == <<state, clocks, out, history>>

\* Source times are integers, so this many samples span any window that the
\* count and the duration ask for.
WindowSize ==
    IF ConfirmSamples > MinDuration + 1 THEN ConfirmSamples ELSE MinDuration + 1

\* result(): what a callback publishes when it leaves state s behind.
Published(s, sample) == [state |-> s, fresh |-> sample /\ s # Unknown]

Init ==
    /\ stable = Unknown /\ pending = Unknown
    /\ pendingSamples = 0 /\ since = None
    /\ hasSample = FALSE /\ lastSeen = None
    /\ lastWall = 0 /\ lastSampleWall = 0
    /\ out = Published(Unknown, FALSE)
    /\ now = 0 /\ heard = 0 /\ samples = <<>> /\ settled = NaN

-----------------------------------------------------------------------------

Classify_NoHysteresis(v) ==   \* mutant: the plain thresholds for every state
    CASE v < Low  -> Inhibit
      [] v > High -> Loaded
      [] OTHER    -> Empty

\* classify(): the thresholds depend on the stable state.
Classify(v) ==
    CASE stable = Unknown ->
           (CASE v < Low -> Inhibit [] v > High -> Loaded [] OTHER -> Empty)
      [] stable = Inhibit ->
           (CASE v > High + Hysteresis -> Loaded
              [] v >= Low + Hysteresis /\ v <= High - Hysteresis -> Empty
              [] OTHER -> Inhibit)
      [] stable = Empty ->
           (CASE v > High + Hysteresis -> Loaded
              [] v < Low - Hysteresis -> Inhibit
              [] OTHER -> Empty)
      [] stable = Loaded ->
           (CASE v < Low - Hysteresis -> Inhibit
              [] v >= Low + Hysteresis /\ v < High - Hysteresis -> Empty
              [] OTHER -> Loaded)

\* fail(): everything that was confirmed or pending is forgotten.
Fail(sample) ==
    /\ stable' = Unknown /\ pending' = Unknown
    /\ pendingSamples' = 0 /\ since' = None
    /\ out' = Published(Unknown, sample)
    /\ samples' = <<>> /\ settled' = NaN

Expired(w) == w - lastSampleWall >= Stale

WallRolledBack(w) == hasSample /\ w < lastWall

IngestWallRollback(s, w) ==
    /\ WallRolledBack(w)
    /\ Fail(TRUE)
    /\ lastWall' = w /\ lastSampleWall' = w
    /\ UNCHANGED <<hasSample, lastSeen, heard>>

IngestSourceRollback(s, w) ==
    /\ ~WallRolledBack(w)
    /\ lastSeen # None /\ s < lastSeen
    /\ Fail(TRUE)
    /\ lastSeen' = s
    /\ lastWall' = w /\ lastSampleWall' = w /\ hasSample' = TRUE
    /\ heard' = w

IngestDuplicate_Refreshes(s, w) ==   \* mutant: a duplicate proves liveness
    /\ ~WallRolledBack(w)
    /\ lastSeen # None /\ s = lastSeen
    /\ lastSampleWall' = w
    /\ out' = Published(stable, hasSample)
    /\ UNCHANGED <<state, hasSample, samples, settled, lastSeen, lastWall, heard>>

\* A sample that repeats the source stamp is no evidence; it can only show
\* that the signal has become stale.
IngestDuplicate(s, w) ==
    /\ ~WallRolledBack(w)
    /\ lastSeen # None /\ s = lastSeen
    /\ \/ Expired(w) /\ Fail(FALSE) /\ hasSample' = FALSE
       \/ /\ ~Expired(w)
          /\ out' = Published(stable, hasSample)
          /\ UNCHANGED <<state, hasSample, samples, settled>>
    /\ UNCHANGED <<lastSeen, lastWall, lastSampleWall, heard>>

\* A new stamp: the clocks are taken over before the voltage is looked at.
NewStamp(s, w) ==
    /\ ~WallRolledBack(w)
    /\ lastSeen = None \/ s > lastSeen
    /\ hasSample' = TRUE /\ lastSeen' = s
    /\ lastWall' = w /\ lastSampleWall' = w
    /\ heard' = w

InRange(v) == v # NaN /\ v >= VMin /\ v <= VMax

BadVoltage(v, s, w) ==
    /\ NewStamp(s, w)
    /\ ~InRange(v)
    /\ Fail(TRUE)

LogSample(v, s) ==
    LET l == Append(samples, [v |-> v, src |-> s])
    IN  samples' = IF Len(l) > WindowSize THEN Tail(l) ELSE l

PendingDropped == pending' = stable /\ pendingSamples' = 0 /\ since' = None

\* The sample agrees with the stable state.
StableSample(v, s, w) ==
    /\ NewStamp(s, w)
    /\ InRange(v)
    /\ stable # Unknown /\ Classify(v) = stable
    /\ PendingDropped
    /\ out' = Published(stable, TRUE)
    /\ LogSample(v, s)
    /\ UNCHANGED <<stable, settled>>

Confirmed_OneLate(n, duration) ==   \* mutant: one sample more than asked for
    n > ConfirmSamples /\ duration >= MinDuration

Confirmed(n, duration) == n >= ConfirmSamples /\ duration >= MinDuration

Started_Keeps(s) ==   \* mutant: the start of an abandoned transition is kept
    IF since = None THEN s ELSE since

\* pending_since_source_time_sec_ of a transition that starts with this sample.
Started(s) == s

CappedSamples(n) == IF n > WindowSize THEN WindowSize ELSE n

\* The sample disagrees: start or continue a transition, and confirm it.
TransitionSample(v, s, w) ==
    /\ NewStamp(s, w)
    /\ InRange(v)
    /\ LET c     == Classify(v)
           n     == IF c = pending THEN pendingSamples + 1 ELSE 1
           start == IF c = pending THEN since ELSE Started(s)
           span  == IF start = None THEN 0 ELSE s - start
       IN  /\ stable = Unknown \/ c # stable
           /\ pending' = c
           /\ IF Confirmed(n, span)
              THEN /\ stable' = c /\ pendingSamples' = 0 /\ since' = None
                   /\ settled' = v
              ELSE /\ pendingSamples' = CappedSamples(n) /\ since' = start
                   /\ UNCHANGED <<stable, settled>>
    /\ out' = Published(stable', TRUE)
    /\ LogSample(v, s)

\* voltageCallback
Voltage(v, s, w) ==
    /\ now' = w
    /\ \/ IngestWallRollback(s, w)
       \/ IngestSourceRollback(s, w)
       \/ IngestDuplicate(s, w)
       \/ BadVoltage(v, s, w)
       \/ StableSample(v, s, w)
       \/ TransitionSample(v, s, w)

\* timerCallback
Tick(w) ==
    /\ now' = w
    /\ lastWall' = w
    /\ \/ WallRolledBack(w) /\ Fail(hasSample) /\ UNCHANGED hasSample
       \/ /\ ~WallRolledBack(w) /\ hasSample /\ Expired(w)
          /\ hasSample' = FALSE
          /\ Fail(FALSE)
       \/ /\ ~WallRolledBack(w) /\ ~(hasSample /\ Expired(w))
          /\ out' = Published(stable, hasSample)
          /\ UNCHANGED <<state, hasSample, samples, settled>>
    /\ UNCHANGED <<lastSeen, lastSampleWall, heard>>

Next ==
    \/ \E v \in Voltages, s \in 0 .. MaxSource, w \in 0 .. MaxWall :
          Voltage(v, s, w)
    \/ \E w \in 0 .. MaxWall : Tick(w)

Spec == Init /\ [][Next]_vars

-----------------------------------------------------------------------------
(* Properties.                                                             *)

\* Every field is well formed; a transition is pending exactly while its start
\* is known, and never towards the stable state.
TypeOK ==
    /\ stable \in States /\ pending \in States
    /\ pendingSamples \in 0 .. WindowSize
    /\ since \in 0 .. MaxSource \cup {None}
    /\ hasSample \in BOOLEAN
    /\ lastSeen \in 0 .. MaxSource \cup {None}
    /\ lastWall \in 0 .. MaxWall /\ lastSampleWall \in 0 .. MaxWall
    /\ out \in [state : States, fresh : BOOLEAN]
    /\ pendingSamples > 0 <=> since # None
    /\ pendingSamples > 0 => pending \notin {Unknown, stable}
    /\ since # None => since <= lastSeen

\* A valid state is never published on an old signal: a sample with a new
\* stamp was heard less than the stale timeout ago, whatever either clock did.
ValidIsFresh ==
    out.state # Unknown => /\ out.fresh
                           /\ now >= heard
                           /\ now - heard < Stale

\* The class of a voltage by the plain thresholds.
Nominal(v) == IF v < Low THEN Inhibit ELSE IF v > High THEN Loaded ELSE Empty

\* The last n samples.
LastSamples(n) == SubSeq(samples, Len(samples) - n + 1, Len(samples))

\* n samples with increasing stamps over at least the minimum duration.
LongEnough(n) ==
    /\ n >= ConfirmSamples
    /\ \A j \in 2 .. n : LastSamples(n)[j].src > LastSamples(n)[j - 1].src
    /\ LastSamples(n)[n].src - LastSamples(n)[1].src >= MinDuration

\* A state is entered only on consecutive samples, since the last failure, that
\* all lie in its nominal band, are ConfirmSamples or more and span the minimum
\* duration.  An interrupted transition lends nothing to a later one.
TransitionIsConfirmed ==
    [][(stable' # stable /\ stable' # Unknown) =>
          (\E n \in 1 .. Len(samples) :
              /\ LongEnough(n)
              /\ \A j \in 1 .. n : Nominal(LastSamples(n)[j].v) = stable)']_vars

\* The voltage is in the band of c by more than the hysteresis.
Decisive(c, v) ==
    CASE c = Inhibit -> v < Low - Hysteresis
      [] c = Loaded  -> v > High + Hysteresis
      [] OTHER       -> v >= Low + Hysteresis /\ v < High - Hysteresis

\* The other direction: a decisive window is always recognised, whatever state
\* was stable, pending or lost before it.
DecisiveIsRecognised ==
    \A c \in States \ {Unknown} : \A n \in 1 .. Len(samples) :
        (LongEnough(n) /\ \A j \in 1 .. n : Decisive(c, LastSamples(n)[j].v))
            => stable = c

\* Chatter around a threshold is rejected: two confirmed states that follow
\* each other were confirmed by voltages more than the hysteresis apart.
ChatterIsRejected ==
    [][(stable # Unknown /\ stable' \notin {Unknown, stable}) =>
          \/ settled' - settled > Hysteresis
          \/ settled - settled' > Hysteresis]_vars
=============================================================================
