-------------------------- MODULE MeasurementProofs -------------------------
(***************************************************************************)
(* Theorems about what is decided from measurements, for every value of    *)
(* the constants.  The gravity signal, for every valid configuration,      *)
(* every set of voltages and clocks that may be set to any time between    *)
(* callbacks.  The obstacle tracks: what a warning rests on.  The origins  *)
(* of a load: they are older than the load.  The bottom of a cargo: it     *)
(* was measured, and a cargo at rest is published.  Its size: it changes   *)
(* on measurements of this cargo.                                          *)
(***************************************************************************)
EXTENDS MCMeasurement, TLAPS, WellFoundedInduction, FiniteSetTheorems

-----------------------------------------------------------------------------
(* HookLoadFilter: the inductive invariant.                                *)

\* No transition is pending exactly when pending_state_ repeats the stable
\* state; otherwise the next sample of that class would start counting with
\* no start time.
IdleIsStable == pendingSamples = 0 => pending = stable

\* A known state rests on a sample whose receipt time is the one compared
\* with the timeout, and the newest wall reading is not older than it.
KnownIsHeard ==
    /\ now \in Nat /\ heard \in Nat
    /\ stable # Unknown => /\ hasSample
                           /\ heard = lastSampleWall
                           /\ lastSampleWall <= lastWall

\* The voltage that confirmed a state lies in its nominal band.
SettledInBand ==
    stable # Unknown => settled \in Int /\ Nominal(settled) = stable

Inv == TypeOK /\ IdleIsStable /\ KnownIsHeard /\ SettledInBand

-----------------------------------------------------------------------------

\* classify() always decides for one of the three known states.
LEMMA ClassifyKnown ==
    ASSUME NEW v, stable \in States
    PROVE  Classify(v) \in {Inhibit, Empty, Loaded}
BY DEF Classify, States, Unknown, Inhibit, Empty, Loaded

\* The confirmation window holds at least one sample.
LEMMA WindowPositive == WindowSize \in Nat \ {0}
BY HookConstants DEF WindowSize, ConfigValid

\* classify() decides against the stable state only for a voltage in the
\* nominal band of its answer, and further than the hysteresis from any voltage
\* of the stable state's own band.
LEMMA ClassifySeparates ==
    ASSUME NEW v \in Int, stable \in States, Classify(v) # stable
    PROVE  /\ Nominal(v) = Classify(v)
           /\ \A u \in Int : (stable # Unknown /\ Nominal(u) = stable) =>
                 v - u > Hysteresis \/ u - v > Hysteresis
<1>0. /\ Low \in Int /\ High \in Int /\ Hysteresis \in Int /\ Low < High
      /\ Hysteresis >= 0 /\ 2 * Hysteresis < High - Low
  BY HookConstants DEF ConfigValid
<1>1. CASE stable = Unknown
  BY <1>0, <1>1 DEF Classify, Nominal, Unknown, Inhibit, Empty, Loaded
<1>2. CASE stable = Inhibit
  BY <1>0, <1>2 DEF Classify, Nominal, Unknown, Inhibit, Empty, Loaded
<1>3. CASE stable = Empty
  BY <1>0, <1>3 DEF Classify, Nominal, Unknown, Inhibit, Empty, Loaded
<1>4. CASE stable = Loaded
  BY <1>0, <1>4 DEF Classify, Nominal, Unknown, Inhibit, Empty, Loaded
<1> QED  BY <1>1, <1>2, <1>3, <1>4 DEF States

\* fail() leaves a state in which nothing is known or pending.
LEMMA FailForgets ==
    ASSUME NEW b \in BOOLEAN, Fail(b)
    PROVE  /\ stable' = Unknown /\ pending' = Unknown
           /\ pendingSamples' = 0 /\ since' = None
           /\ out' = [state |-> Unknown, fresh |-> FALSE]
BY DEF Fail, Published

-----------------------------------------------------------------------------

\* A callback that fails publishes UNKNOWN.
LEMMA FailUnknown ==
    ASSUME NEW b, Fail(b)
    PROVE  out'.state = Unknown
BY DEF Fail, Published

\* What one sample with a new stamp and a voltage that disagrees may leave
\* behind: a confirmed state, or a transition one sample longer.
LEMMA TransitionOutcome ==
    ASSUME NEW v, NEW s \in 0 .. MaxSource, NEW w, Inv,
           TransitionSample(v, s, w)
    PROVE  LET c == Classify(v) IN
           /\ c \in {Inhibit, Empty, Loaded} /\ c # stable
           /\ pending' = c
           /\ \/ stable' = c /\ pendingSamples' = 0 /\ since' = None
                 /\ settled' = v
              \/ /\ stable' = stable /\ settled' = settled
                 /\ pendingSamples' \in 1 .. WindowSize
                 /\ since' \in 0 .. s
<1> DEFINE c     == Classify(v)
           n     == IF c = pending THEN pendingSamples + 1 ELSE 1
           start == IF c = pending THEN since ELSE Started(s)
           span  == IF start = None THEN 0 ELSE s - start
<1>1. c \in {Inhibit, Empty, Loaded}
  BY ClassifyKnown DEF Inv, TypeOK
<1>2. c # stable
  BY <1>1 DEF TransitionSample, Unknown, Inhibit, Empty, Loaded
<1>3. c = pending => pendingSamples > 0
  BY <1>2 DEF Inv, IdleIsStable, TypeOK
<1>4. lastSeen = None \/ s > lastSeen
  BY DEF TransitionSample, NewStamp
<1>5. start \in 0 .. s
  <2>1. CASE c = pending
    <3>1. since # None /\ since \in 0 .. MaxSource /\ since <= lastSeen
      BY <2>1, <1>3 DEF Inv, TypeOK
    <3>2. lastSeen # None /\ lastSeen \in 0 .. MaxSource
      BY <3>1, HookConstants DEF Inv, TypeOK, None
    <3> QED  BY <2>1, <3>1, <3>2, <1>4
  <2>2. CASE c # pending
    BY <2>2 DEF Started
  <2> QED  BY <2>1, <2>2
<1>6. CappedSamples(n) \in 1 .. WindowSize
  <2>1. n \in Nat /\ n >= 1
    BY DEF Inv, TypeOK
  <2> HIDE DEF n
  <2> QED  BY <2>1, WindowPositive DEF CappedSamples
<1>7. pending' = c
  BY DEF TransitionSample
<1>8. IF Confirmed(n, span)
      THEN /\ stable' = c /\ pendingSamples' = 0 /\ since' = None
           /\ settled' = v
      ELSE /\ pendingSamples' = CappedSamples(n) /\ since' = start
           /\ UNCHANGED <<stable, settled>>
  BY DEF TransitionSample
<1> HIDE DEF c, n, start, span
<1> QED  BY <1>1, <1>2, <1>5, <1>6, <1>7, <1>8 DEF c

-----------------------------------------------------------------------------

\* The filter starts (or is reset) in the invariant.
LEMMA InvInit == Init => Inv
<1> SUFFICES ASSUME Init PROVE Inv
  OBVIOUS
<1>1. TypeOK
  <2>1. out = [state |-> Unknown, fresh |-> FALSE] /\ hasSample \in BOOLEAN
    BY DEF Init, Published
  <2>2. out \in [state : States, fresh : BOOLEAN]
    BY <2>1 DEF States
  <2>3. pendingSamples = 0 /\ since = None /\ pending = Unknown
    BY DEF Init
  <2>4. pendingSamples \in 0 .. WindowSize
    BY <2>3, WindowPositive
  <2>5. lastWall \in 0 .. MaxWall /\ lastSampleWall \in 0 .. MaxWall
    BY HookConstants DEF Init
  <2>6. stable \in States /\ pending \in States
    BY DEF Init, States
  <2>7. /\ since \in 0 .. MaxSource \cup {None}
        /\ lastSeen \in 0 .. MaxSource \cup {None}
    BY DEF Init
  <2> QED  BY <2>1, <2>2, <2>3, <2>4, <2>5, <2>6, <2>7 DEF TypeOK
<1> QED  BY <1>1 DEF Init, Inv, IdleIsStable, KnownIsHeard, SettledInBand

\* A callback that fails, whichever clocks it takes over.
LEMMA FailKeepsInv ==
    ASSUME Inv, NEW b \in BOOLEAN, Fail(b),
           now' \in Nat, heard' \in Nat, hasSample' \in BOOLEAN,
           lastSeen' \in 0 .. MaxSource \cup {None},
           lastWall' \in 0 .. MaxWall, lastSampleWall' \in 0 .. MaxWall
    PROVE  Inv'
<1>1. /\ stable' = Unknown /\ pending' = Unknown
      /\ pendingSamples' = 0 /\ since' = None
      /\ out' = [state |-> Unknown, fresh |-> FALSE]
  BY FailForgets
<1>2. TypeOK'
  BY <1>1, WindowPositive DEF TypeOK, States, Unknown
<1> QED  BY <1>1, <1>2 DEF Inv, IdleIsStable, KnownIsHeard, SettledInBand

\* Every path of ingest() keeps the invariant.
LEMMA VoltageKeepsInv ==
    ASSUME Inv, NEW v \in Voltages, NEW s \in 0 .. MaxSource,
           NEW w \in 0 .. MaxWall, Voltage(v, s, w)
    PROVE  Inv'
<1>0. now' = w /\ w \in Nat /\ MaxWall \in Nat
  BY HookConstants DEF Voltage
<1>1. CASE IngestWallRollback(s, w)
  BY <1>0, <1>1, FailKeepsInv
     DEF IngestWallRollback, Inv, TypeOK, KnownIsHeard
<1>2. CASE IngestSourceRollback(s, w)
  BY <1>0, <1>2, FailKeepsInv DEF IngestSourceRollback, Inv, TypeOK
<1>3. CASE IngestDuplicate(s, w)
  <2>1. CASE Expired(w) /\ Fail(FALSE) /\ hasSample' = FALSE
    BY <1>0, <1>3, <2>1, FailKeepsInv
       DEF IngestDuplicate, Inv, TypeOK, KnownIsHeard
  <2>2. CASE /\ out' = Published(stable, hasSample)
             /\ UNCHANGED <<state, hasSample, samples, settled>>
    <3>1. /\ out' \in [state : States, fresh : BOOLEAN]
          /\ UNCHANGED <<stable, pending, pendingSamples, since, hasSample,
                         settled, lastSeen, lastWall, lastSampleWall, heard>>
      BY <1>3, <2>2 DEF IngestDuplicate, Inv, TypeOK, Published, state
    <3>2. TypeOK'
      BY <3>1 DEF Inv, TypeOK
    <3> QED
      BY <1>0, <3>1, <3>2
         DEF Inv, IdleIsStable, KnownIsHeard, SettledInBand, Nominal
  <2> QED  BY <1>3, <2>1, <2>2 DEF IngestDuplicate
<1>4. CASE BadVoltage(v, s, w)
  BY <1>0, <1>4, FailKeepsInv DEF BadVoltage, NewStamp, Inv, TypeOK
<1>5. CASE StableSample(v, s, w)
  <2>1. /\ hasSample' = TRUE /\ lastSeen' = s /\ lastWall' = w
        /\ lastSampleWall' = w /\ heard' = w
        /\ stable' = stable /\ settled' = settled
        /\ pending' = stable /\ pendingSamples' = 0 /\ since' = None
        /\ out' \in [state : States, fresh : BOOLEAN]
    BY <1>5 DEF StableSample, NewStamp, PendingDropped, Published, Inv, TypeOK
  <2>2. TypeOK'
    BY <2>1, WindowPositive DEF Inv, TypeOK
  <2> QED
    BY <1>0, <2>1, <2>2
       DEF Inv, IdleIsStable, KnownIsHeard, SettledInBand, Nominal
<1>6. CASE TransitionSample(v, s, w)
  <2> DEFINE c == Classify(v)
  <2>1. /\ hasSample' = TRUE /\ lastSeen' = s /\ lastWall' = w
        /\ lastSampleWall' = w /\ heard' = w
        /\ out' = Published(stable', TRUE)
    BY <1>6 DEF TransitionSample, NewStamp
  <2>2. /\ c \in {Inhibit, Empty, Loaded} /\ c # stable
        /\ pending' = c
        /\ \/ stable' = c /\ pendingSamples' = 0 /\ since' = None
              /\ settled' = v
           \/ /\ stable' = stable /\ settled' = settled
              /\ pendingSamples' \in 1 .. WindowSize
              /\ since' \in 0 .. s
    BY <1>6, TransitionOutcome
  <2>3. v \in Int /\ Nominal(v) = c
    <3>1. v \in Int
      BY <1>6, HookConstants DEF TransitionSample, InRange
    <3> QED  BY <3>1, <2>2, ClassifySeparates DEF Inv, TypeOK
  <2> HIDE DEF c
  <2>4. stable' \in States /\ pending' \in States
    BY <2>2 DEF Inv, TypeOK, States
  <2>5. out' \in [state : States, fresh : BOOLEAN]
    BY <2>1, <2>4 DEF Published
  <2>6. /\ pendingSamples' \in 0 .. WindowSize
        /\ since' \in 0 .. MaxSource \cup {None}
        /\ pendingSamples' > 0 <=> since' # None
        /\ since' # None => since' <= lastSeen'
    BY <2>1, <2>2, WindowPositive, HookConstants DEF None
  <2>7. pendingSamples' > 0 => pending' \notin {Unknown, stable'}
    BY <2>2, WindowPositive DEF Unknown, Inhibit, Empty, Loaded
  <2>8. TypeOK'
    BY <2>1, <2>4, <2>5, <2>6, <2>7 DEF TypeOK
  <2>9. IdleIsStable'
    BY <2>2, WindowPositive DEF IdleIsStable
  <2>10. KnownIsHeard'
    BY <1>0, <2>1 DEF KnownIsHeard
  <2>11. SettledInBand'
    <3>1. CASE stable' = c /\ settled' = v
      BY <3>1, <2>3 DEF SettledInBand, Nominal
    <3>2. CASE stable' = stable /\ settled' = settled
      BY <3>2 DEF Inv, SettledInBand, Nominal
    <3> QED  BY <2>2, <3>1, <3>2
  <2> QED  BY <2>8, <2>9, <2>10, <2>11 DEF Inv
<1> QED  BY <1>1, <1>2, <1>3, <1>4, <1>5, <1>6 DEF Voltage

\* Every path of tick() keeps the invariant.
LEMMA TickKeepsInv ==
    ASSUME Inv, NEW w \in 0 .. MaxWall, Tick(w)
    PROVE  Inv'
<1>0. now' = w /\ w \in Nat /\ MaxWall \in Nat /\ lastWall' = w
      /\ UNCHANGED <<lastSeen, lastSampleWall, heard>>
  BY HookConstants DEF Tick
<1>1. CASE Fail(hasSample) /\ UNCHANGED hasSample
  BY <1>0, <1>1, FailKeepsInv DEF Inv, TypeOK, KnownIsHeard
<1>2. CASE hasSample' = FALSE /\ Fail(FALSE)
  BY <1>0, <1>2, FailKeepsInv DEF Inv, TypeOK, KnownIsHeard
<1>3. CASE /\ ~WallRolledBack(w) /\ out' = Published(stable, hasSample)
           /\ UNCHANGED <<state, hasSample, samples, settled>>
  <2>1. /\ out' \in [state : States, fresh : BOOLEAN]
        /\ UNCHANGED <<stable, pending, pendingSamples, since, hasSample,
                       settled>>
    BY <1>3 DEF Inv, TypeOK, Published, state
  <2>2. TypeOK'
    BY <1>0, <2>1 DEF Inv, TypeOK
  <2>3. KnownIsHeard'
    BY <1>0, <1>3, <2>1 DEF Inv, TypeOK, KnownIsHeard, WallRolledBack
  <2> QED
    BY <2>1, <2>2, <2>3 DEF Inv, IdleIsStable, SettledInBand, Nominal
<1> QED  BY <1>1, <1>2, <1>3 DEF Tick

\* Every callback of the node keeps the invariant.
LEMMA InvNext == Inv /\ [Next]_vars => Inv'
<1>1. CASE Next
  BY <1>1, VoltageKeepsInv, TickKeepsInv DEF Next
<1>2. CASE UNCHANGED vars
  BY <1>2 DEF Inv, TypeOK, IdleIsStable, KnownIsHeard, SettledInBand, Nominal,
              vars, state, clocks, history
<1> QED  BY <1>1, <1>2

-----------------------------------------------------------------------------
(* The theorems.                                                           *)

\* The invariant holds in every behaviour of the filter.
THEOREM Invariance == Spec => []Inv
BY InvInit, InvNext, PTL DEF Spec

\* The fields of the filter stay well formed, and a transition is pending
\* exactly while its start is known (TypeOK).
THEOREM TypeCorrect == Spec => []TypeOK
<1>1. Inv => TypeOK
  BY DEF Inv
<1> QED  BY <1>1, Invariance, PTL

\* What a callback publishes is fresh when it finishes (ValidIsFresh).
LEMMA PublishedFresh ==
    ASSUME Inv, Next
    PROVE  ValidIsFresh'
<1> SUFFICES ASSUME out'.state # Unknown
             PROVE  out'.fresh /\ now' >= heard' /\ now' - heard' < Stale
  BY DEF ValidIsFresh
<1>0. Stale \in Nat \ {0} /\ MaxWall \in Nat
  BY HookConstants DEF ConfigValid
<1>1. ASSUME NEW v \in Voltages, NEW s \in 0 .. MaxSource,
             NEW w \in 0 .. MaxWall, Voltage(v, s, w)
      PROVE  out'.fresh /\ now' >= heard' /\ now' - heard' < Stale
  <2>0. now' = w
    BY <1>1 DEF Voltage
  <2>1. CASE IngestWallRollback(s, w)
    BY <2>1, FailUnknown DEF IngestWallRollback
  <2>2. CASE IngestSourceRollback(s, w)
    BY <2>2, FailUnknown DEF IngestSourceRollback
  <2>3. CASE IngestDuplicate(s, w)
    <3>1. CASE Fail(FALSE)
      BY <3>1, FailUnknown
    <3>2. CASE ~Expired(w) /\ out' = Published(stable, hasSample)
      <4>1. stable # Unknown /\ heard' = heard /\ ~WallRolledBack(w)
        BY <2>3, <3>2 DEF IngestDuplicate, Published
      <4>2. /\ hasSample /\ heard = lastSampleWall
            /\ lastSampleWall <= lastWall
        BY <4>1 DEF Inv, KnownIsHeard
      <4>3. w >= heard /\ w - heard < Stale
        BY <1>0, <3>2, <4>1, <4>2
           DEF Expired, WallRolledBack, Inv, TypeOK
      <4> QED  BY <2>0, <3>2, <4>1, <4>2, <4>3 DEF Published
    <3> QED  BY <2>3, <3>1, <3>2 DEF IngestDuplicate
  <2>4. CASE BadVoltage(v, s, w)
    BY <2>4, FailUnknown DEF BadVoltage
  <2>5. CASE StableSample(v, s, w)
    <3>1. heard' = w /\ out' = Published(stable, TRUE)
      BY <2>5 DEF StableSample, NewStamp
    <3>2. out'.fresh
      BY <3>1 DEF Published
    <3>3. now' >= heard' /\ now' - heard' < Stale
      BY <1>0, <2>0, <3>1
    <3> QED  BY <3>2, <3>3
  <2>6. CASE TransitionSample(v, s, w)
    <3>1. heard' = w /\ out' = Published(stable', TRUE)
      BY <2>6 DEF TransitionSample, NewStamp
    <3>2. out'.fresh
      BY <3>1 DEF Published
    <3>3. now' >= heard' /\ now' - heard' < Stale
      BY <1>0, <2>0, <3>1
    <3> QED  BY <3>2, <3>3
  <2> QED  BY <1>1, <2>1, <2>2, <2>3, <2>4, <2>5, <2>6 DEF Voltage
<1>2. ASSUME NEW w \in 0 .. MaxWall, Tick(w)
      PROVE  out'.fresh /\ now' >= heard' /\ now' - heard' < Stale
  <2>0. now' = w /\ heard' = heard
    BY <1>2 DEF Tick
  <2>1. CASE Fail(hasSample)
    BY <2>1, FailUnknown
  <2>2. CASE Fail(FALSE)
    BY <2>2, FailUnknown
  <2>3. CASE /\ ~WallRolledBack(w) /\ ~(hasSample /\ Expired(w))
             /\ out' = Published(stable, hasSample)
    <3>1. stable # Unknown
      BY <2>3 DEF Published
    <3>2. hasSample /\ heard = lastSampleWall /\ lastSampleWall <= lastWall
      BY <3>1 DEF Inv, KnownIsHeard
    <3>3. w >= heard /\ w - heard < Stale
      BY <1>0, <2>3, <3>2 DEF Expired, WallRolledBack, Inv, TypeOK
    <3> QED  BY <2>0, <2>3, <3>1, <3>2, <3>3 DEF Published
  <2> QED  BY <1>2, <2>1, <2>2, <2>3 DEF Tick
<1> QED  BY <1>1, <1>2 DEF Next

\* A known weighing state is never published on a signal older than the stale
\* timeout, whatever the two clocks did (ValidIsFresh).
THEOREM Freshness == Spec => []ValidIsFresh
<1>1. Init => ValidIsFresh
  BY DEF Init, ValidIsFresh, Published
<1>2. Inv /\ ValidIsFresh /\ [Next]_vars => ValidIsFresh'
  <2>1. ASSUME ValidIsFresh, UNCHANGED vars
        PROVE  ValidIsFresh'
    BY <2>1 DEF ValidIsFresh, vars, history
  <2> QED  BY <2>1, PublishedFresh
<1> QED  BY <1>1, <1>2, Invariance, PTL DEF Spec

\* A known state is entered only by a sample that disagrees with the last one.
LEMMA OnlyTransitionsSettle ==
    ASSUME Inv, [Next]_vars, stable' \notin {Unknown, stable}
    PROVE  \E v \in Voltages, s \in 0 .. MaxSource, w \in 0 .. MaxWall :
              TransitionSample(v, s, w)
<1>1. ASSUME NEW b, Fail(b) PROVE FALSE
  BY <1>1 DEF Fail
<1>2. ASSUME NEW w \in 0 .. MaxWall, Tick(w) PROVE FALSE
  BY <1>1, <1>2 DEF Tick, state
<1>3. ~UNCHANGED vars
  BY DEF vars, state
<1>4. PICK v \in Voltages, s \in 0 .. MaxSource, w \in 0 .. MaxWall :
          Voltage(v, s, w)
  BY <1>2, <1>3 DEF Next
<1>5. ~IngestWallRollback(s, w) /\ ~IngestSourceRollback(s, w)
      /\ ~BadVoltage(v, s, w)
  BY <1>1 DEF IngestWallRollback, IngestSourceRollback, BadVoltage
<1>6. ~IngestDuplicate(s, w)
  BY <1>1 DEF IngestDuplicate, state
<1>7. ~StableSample(v, s, w)
  BY DEF StableSample
<1> QED  BY <1>4, <1>5, <1>6, <1>7 DEF Voltage

\* Two confirmed states that follow each other were confirmed by voltages more
\* than the hysteresis apart (ChatterIsRejected).
THEOREM NoChatter == Spec => ChatterIsRejected
<1> DEFINE Apart ==
      (stable # Unknown /\ stable' \notin {Unknown, stable}) =>
          settled' - settled > Hysteresis \/ settled - settled' > Hysteresis
<1>1. Inv /\ [Next]_vars => Apart
  <2> SUFFICES ASSUME Inv, [Next]_vars, stable # Unknown,
                      stable' \notin {Unknown, stable}
               PROVE  \/ settled' - settled > Hysteresis
                      \/ settled - settled' > Hysteresis
    OBVIOUS
  <2>1. PICK v \in Voltages, s \in 0 .. MaxSource, w \in 0 .. MaxWall :
            TransitionSample(v, s, w)
    BY OnlyTransitionsSettle
  <2>2. stable' = Classify(v) /\ settled' = v /\ Classify(v) # stable
    BY <2>1, TransitionOutcome
  <2>3. v \in Int
    BY <2>1, HookConstants DEF TransitionSample, InRange
  <2>4. settled \in Int /\ Nominal(settled) = stable /\ stable \in States
    BY DEF Inv, SettledInBand, TypeOK
  <2> QED  BY <2>2, <2>3, <2>4, ClassifySeparates
<1>2. Inv /\ [Next]_vars => [Apart]_vars
  BY <1>1
<1> QED  BY <1>2, Invariance, PTL DEF Spec, ChatterIsRejected

-----------------------------------------------------------------------------
(* The window: what the filter remembers of a transition, said in terms of *)
(* the samples accepted since the last failure.                            *)

\* The sample accepted k samples ago.
Back(k) == samples[Len(samples) - k]

Sample == [v : Int, src : 0 .. MaxSource]

\* Source times are integers and increase from sample to sample.
SamplesInOrder ==
    /\ samples \in Seq(Sample)
    /\ \A i, j \in 0 .. Len(samples) - 1 :
          i <= j => Back(i).src - Back(j).src >= j - i
    /\ samples # <<>> => Back(0).src = lastSeen

\* A pending transition is a run of samples up to the last one, and started
\* with the first of them.
PendingRun ==
    /\ pendingSamples <= Len(samples)
    /\ pendingSamples > 0 =>
          /\ since = Back(pendingSamples - 1).src
          /\ \A k \in 0 .. pendingSamples - 1 : Nominal(Back(k).v) = pending

\* A transition does not stay pending once it could be confirmed.
PendingUnconfirmed ==
    pendingSamples > 0 => ~Confirmed(pendingSamples, lastSeen - since)

\* Whatever came before it, a run of decisive samples is counted in full.
DecisiveRunIsCounted ==
    \A c \in States \ {Unknown} : \A n \in 1 .. Len(samples) :
        (\A k \in 0 .. n - 1 : Decisive(c, Back(k).v))
            => stable = c \/ (pending = c /\ pendingSamples >= n)

Window ==
    SamplesInOrder /\ PendingRun /\ PendingUnconfirmed /\ DecisiveRunIsCounted

-----------------------------------------------------------------------------

\* The last n samples, counted from the front and from the back.
LEMMA LastSamplesAreBack ==
    ASSUME samples \in Seq(Sample), NEW n \in 1 .. Len(samples)
    PROVE  \A j \in 1 .. n : LastSamples(n)[j] = Back(n - j)
BY DEF LastSamples, Back

\* A new sample pushes the others back; the oldest may be dropped, but never
\* while the window is not full.
LEMMA LogPushes ==
    ASSUME samples \in Seq(Sample), NEW v \in Int, NEW s \in 0 .. MaxSource,
           LogSample(v, s)
    PROVE  /\ samples' \in Seq(Sample)
           /\ Len(samples') \in 1 .. Len(samples) + 1
           /\ Len(samples') = Len(samples) + 1 \/ Len(samples') >= WindowSize
           /\ Back(0)' = [v |-> v, src |-> s]
           /\ \A k \in 1 .. Len(samples') - 1 : Back(k)' = Back(k - 1)
<1> DEFINE x == [v |-> v, src |-> s]
           l == Append(samples, x)
<1>1. x \in Sample
  BY DEF Sample
<1> HIDE DEF x
<1>2. /\ l \in Seq(Sample) /\ Len(l) = Len(samples) + 1 /\ Len(samples) \in Nat
      /\ l[Len(l)] = x
      /\ \A i \in 1 .. Len(samples) : l[i] = samples[i]
  BY <1>1
<1>3. samples' = IF Len(l) > WindowSize THEN Tail(l) ELSE l
  BY DEF LogSample, x
<1> HIDE DEF l
<1>4. WindowSize \in Nat \ {0}
  BY WindowPositive
<1>5. CASE Len(l) > WindowSize
  <2>1. samples' = Tail(l) /\ l # <<>>
    BY <1>2, <1>3, <1>4, <1>5
  <2>2. /\ samples' \in Seq(Sample) /\ Len(samples') = Len(samples)
        /\ \A i \in 1 .. Len(samples) : samples'[i] = l[i + 1]
    BY <1>2, <2>1
  <2>3. Len(samples) >= WindowSize
    BY <1>2, <1>5, <1>4
  <2>4. Len(samples) >= 1
    BY <1>2, <1>4, <2>3
  <2>5. Back(0)' = x
    BY <1>2, <2>2, <2>4 DEF Back
  <2>6. ASSUME NEW k \in 1 .. Len(samples) - 1
        PROVE  Back(k)' = Back(k - 1)
    BY <1>2, <2>2 DEF Back
  <2> QED  BY <1>2, <2>2, <2>3, <2>4, <2>5, <2>6 DEF x
<1>6. CASE ~(Len(l) > WindowSize)
  BY <1>2, <1>3, <1>6 DEF Back, x
<1> QED  BY <1>5, <1>6

\* The new sample is younger than the others, so the order is kept.
LEMMA OrderKept ==
    ASSUME Inv, SamplesInOrder, NEW v \in Int, NEW s \in 0 .. MaxSource,
           LogSample(v, s), lastSeen' = s, lastSeen = None \/ s > lastSeen
    PROVE  SamplesInOrder'
<1>1. /\ samples \in Seq(Sample) /\ samples' \in Seq(Sample)
      /\ Len(samples) \in Nat
      /\ Len(samples') \in 1 .. Len(samples) + 1
      /\ Back(0)' = [v |-> v, src |-> s]
      /\ \A k \in 1 .. Len(samples') - 1 : Back(k)' = Back(k - 1)
  BY LogPushes DEF SamplesInOrder
<1>2. \A k \in 0 .. Len(samples) - 1 : Back(k).src \in 0 .. MaxSource
  <2> SUFFICES ASSUME NEW k \in 0 .. Len(samples) - 1
               PROVE  Back(k).src \in 0 .. MaxSource
    OBVIOUS
  <2>1. Len(samples) - k \in 1 .. Len(samples)
    BY <1>1
  <2>2. Back(k) \in Sample
    BY <1>1, <2>1 DEF Back
  <2> QED  BY <2>2 DEF Sample
<1>3. \A k \in 0 .. Len(samples) - 1 : s - Back(k).src >= k + 1
  <2> SUFFICES ASSUME NEW k \in 0 .. Len(samples) - 1
               PROVE  s - Back(k).src >= k + 1
    OBVIOUS
  <2>1. Back(0).src = lastSeen /\ Back(0).src - Back(k).src >= k
    BY <1>1 DEF SamplesInOrder
  <2>2. Back(0).src \in 0 .. MaxSource /\ Back(k).src \in 0 .. MaxSource
    BY <1>1, <1>2
  <2> QED  BY <2>1, <2>2, HookConstants DEF None
<1>4. ASSUME NEW i \in 0 .. Len(samples') - 1, NEW j \in 0 .. Len(samples') - 1,
             i <= j
      PROVE  Back(i)'.src - Back(j)'.src >= j - i
  <2>1. CASE j = 0
    BY <1>1, <1>4, <2>1
  <2>2. CASE i = 0 /\ j > 0
    <3>1. Back(i)'.src = s /\ Back(j)' = Back(j - 1)
      BY <1>1, <2>2
    <3>2. s - Back(j - 1).src >= (j - 1) + 1
      BY <1>1, <1>3, <2>2
    <3> QED  BY <2>2, <3>1, <3>2
  <2>3. CASE i > 0
    <3>1. Back(i)' = Back(i - 1) /\ Back(j)' = Back(j - 1)
      BY <1>1, <1>4, <2>3
    <3>2. Back(i - 1).src - Back(j - 1).src >= (j - 1) - (i - 1)
      BY <1>1, <1>4, <2>3 DEF SamplesInOrder
    <3> QED  BY <3>1, <3>2
  <2> QED  BY <2>1, <2>2, <2>3, <1>4
<1>5. Back(0)'.src = lastSeen'
  BY <1>1
<1> QED  BY <1>1, <1>4, <1>5 DEF SamplesInOrder

\* A run that is pending is shorter than the window: its stamps increase, so
\* a full window would have confirmed it.
LEMMA PendingIsShort ==
    ASSUME Inv, SamplesInOrder, PendingRun, PendingUnconfirmed
    PROVE  pendingSamples < WindowSize
<1>1. /\ ConfirmSamples \in Nat /\ MinDuration \in Nat
      /\ WindowSize \in Nat \ {0} /\ pendingSamples \in Nat
  BY HookConstants, WindowPositive DEF ConfigValid, Inv, TypeOK
<1>2. CASE pendingSamples = 0
  BY <1>1, <1>2
<1>3. CASE pendingSamples > 0
  <2>1. lastSeen - since >= pendingSamples - 1
    BY <1>1, <1>3 DEF SamplesInOrder, PendingRun
  <2>2. lastSeen \in Int /\ since \in Int
    BY HookConstants DEF Inv, TypeOK, None
  <2>3. ~(pendingSamples >= ConfirmSamples /\ lastSeen - since >= MinDuration)
    BY <1>3 DEF PendingUnconfirmed, Confirmed
  <2>4. WindowSize >= ConfirmSamples /\ WindowSize >= MinDuration + 1
    BY <1>1 DEF WindowSize
  <2> QED  BY <1>1, <2>1, <2>2, <2>3, <2>4
<1> QED  BY <1>1, <1>2, <1>3

\* classify() follows a decisive voltage whatever is stable.
LEMMA DecisiveIsFollowed ==
    ASSUME NEW v \in Int, NEW c \in States \ {Unknown}, Decisive(c, v),
           stable \in States
    PROVE  Classify(v) = c
<1>0. /\ Low \in Int /\ High \in Int /\ Hysteresis \in Int /\ Low < High
      /\ Hysteresis >= 0 /\ 2 * Hysteresis < High - Low
  BY HookConstants DEF ConfigValid
<1>1. CASE c = Inhibit
  BY <1>0, <1>1 DEF Classify, Decisive, States, Unknown, Inhibit, Empty, Loaded
<1>2. CASE c = Loaded
  BY <1>0, <1>2 DEF Classify, Decisive, States, Unknown, Inhibit, Empty, Loaded
<1>3. CASE c = Empty
  BY <1>0, <1>3 DEF Classify, Decisive, States, Unknown, Inhibit, Empty, Loaded
<1> QED  BY <1>1, <1>2, <1>3 DEF States

\* A sample that disagrees ends a run of n samples of one class, which starts
\* or continues a transition; it is confirmed when the run is long enough.
LEMMA TransitionRun ==
    ASSUME Inv, Window, NEW v \in Voltages, NEW s \in 0 .. MaxSource, NEW w,
           TransitionSample(v, s, w)
    PROVE  \E n \in 1 .. Len(samples'), start \in Int :
              /\ n = IF Classify(v) = pending THEN pendingSamples + 1 ELSE 1
              /\ start = Back(n - 1)'.src
              /\ \A k \in 0 .. n - 1 : Nominal(Back(k)'.v) = Classify(v)
              /\ pending' = Classify(v)
              /\ IF Confirmed(n, s - start)
                 THEN stable' = Classify(v) /\ pendingSamples' = 0
                 ELSE /\ pendingSamples' = n /\ since' = start
                      /\ stable' = stable
<1>c. PICK c : c = Classify(v)
  OBVIOUS
<1>n. PICK n : n = IF c = pending THEN pendingSamples + 1 ELSE 1
  OBVIOUS
<1>s. PICK start : start = IF c = pending THEN since ELSE s
  OBVIOUS
<1>1. /\ v \in Int /\ lastSeen' = s /\ LogSample(v, s)
      /\ lastSeen = None \/ s > lastSeen
  BY HookConstants DEF TransitionSample, InRange, NewStamp
<1>3. /\ Len(samples) \in Nat
      /\ Len(samples') \in 1 .. Len(samples) + 1
      /\ Len(samples') = Len(samples) + 1 \/ Len(samples') >= WindowSize
      /\ Back(0)' = [v |-> v, src |-> s]
      /\ \A k \in 1 .. Len(samples') - 1 : Back(k)' = Back(k - 1)
  BY <1>1, LogPushes DEF Window, SamplesInOrder
<1>4. c \in {Inhibit, Empty, Loaded} /\ c # stable /\ Nominal(v) = c
  BY <1>1, <1>c, TransitionOutcome, ClassifySeparates DEF Inv, TypeOK
<1>5. c = pending => pendingSamples > 0
  BY <1>4 DEF Inv, IdleIsStable, TypeOK
<1>6. pendingSamples < WindowSize /\ pendingSamples \in Nat
  BY PendingIsShort DEF Window, Inv, TypeOK
<1>7. n \in 1 .. WindowSize /\ n <= Len(samples') /\ WindowSize \in Nat
  BY <1>3, <1>6, <1>n, WindowPositive DEF Window, PendingRun
<1>8. start # None
  BY <1>5, <1>s DEF Inv, TypeOK, None
<1>9. /\ pending' = c
      /\ IF Confirmed(n, s - start)
         THEN stable' = c /\ pendingSamples' = 0
         ELSE pendingSamples' = n /\ since' = start /\ stable' = stable
  <2>1. CappedSamples(n) = n
    BY <1>7 DEF CappedSamples
  <2> QED  BY <1>8, <1>c, <1>n, <1>s, <2>1 DEF TransitionSample, Started
<1>10. /\ start = Back(n - 1)'.src
       /\ \A k \in 0 .. n - 1 : Nominal(Back(k)'.v) = c
  <2>1. CASE c # pending
    <3>1. n = 1 /\ start = s
      BY <1>n, <1>s, <2>1
    <3>2. Back(n - 1)' = [v |-> v, src |-> s]
      BY <1>3, <3>1
    <3>3. \A k \in 0 .. n - 1 : Back(k)' = [v |-> v, src |-> s]
      BY <1>3, <3>1
    <3> QED  BY <1>4, <3>1, <3>2, <3>3
  <2>2. CASE c = pending
    <3>1. /\ since = Back(pendingSamples - 1).src
          /\ \A k \in 0 .. pendingSamples - 1 : Nominal(Back(k).v) = pending
      BY <1>5, <2>2 DEF Window, PendingRun
    <3>2. Back(n - 1)' = Back(pendingSamples - 1)
      BY <1>3, <1>5, <1>6, <1>7, <1>n, <2>2
    <3>3. \A k \in 1 .. n - 1 : Back(k)' = Back(k - 1)
      BY <1>3, <1>7
    <3> QED  BY <1>3, <1>4, <1>6, <1>n, <1>s, <2>2, <3>1, <3>2, <3>3
  <2> QED  BY <2>1, <2>2
<1>11. start \in Int
  BY <1>5, <1>8, <1>s, HookConstants DEF Inv, TypeOK
<1> QED  BY <1>3, <1>7, <1>9, <1>10, <1>11, <1>c, <1>n

\* What a transition leaves of the window.
LEMMA TransitionKeepsWindow ==
    ASSUME Inv, Window, NEW v \in Voltages, NEW s \in 0 .. MaxSource, NEW w,
           TransitionSample(v, s, w)
    PROVE  Window'
<1>1. /\ v \in Int /\ lastSeen' = s /\ LogSample(v, s)
      /\ lastSeen = None \/ s > lastSeen
  BY HookConstants DEF TransitionSample, InRange, NewStamp
<1>2. SamplesInOrder'
  BY <1>1, OrderKept DEF Window
<1>3. /\ Len(samples) \in Nat
      /\ Len(samples') \in 1 .. Len(samples) + 1
      /\ Back(0)' = [v |-> v, src |-> s]
      /\ \A k \in 1 .. Len(samples') - 1 : Back(k)' = Back(k - 1)
  BY <1>1, LogPushes DEF Window, SamplesInOrder
<1>4. Classify(v) # stable /\ pendingSamples \in Nat
  BY TransitionOutcome DEF Inv, TypeOK
<1>5. PICK n \in 1 .. Len(samples'), start \in Int :
         /\ n = IF Classify(v) = pending THEN pendingSamples + 1 ELSE 1
         /\ start = Back(n - 1)'.src
         /\ \A k \in 0 .. n - 1 : Nominal(Back(k)'.v) = Classify(v)
         /\ pending' = Classify(v)
         /\ IF Confirmed(n, s - start)
            THEN stable' = Classify(v) /\ pendingSamples' = 0
            ELSE /\ pendingSamples' = n /\ since' = start
                 /\ stable' = stable
  BY TransitionRun
<1>6. PendingRun'
  BY <1>3, <1>5 DEF PendingRun, Nominal
<1>7. PendingUnconfirmed'
  BY <1>1, <1>5 DEF PendingUnconfirmed, Confirmed
<1>8. DecisiveRunIsCounted'
  <2> SUFFICES ASSUME NEW d \in States \ {Unknown},
                      NEW m \in 1 .. Len(samples'),
                      \A k \in 0 .. m - 1 : Decisive(d, Back(k)'.v)
               PROVE  stable' = d \/ (pending' = d /\ pendingSamples' >= m)
    BY DEF DecisiveRunIsCounted, Decisive
  <2>1. Classify(v) = d
    BY <1>1, <1>3, DecisiveIsFollowed DEF Inv, TypeOK
  <2>2. n >= m
    <3>1. CASE m = 1
      BY <1>5, <3>1
    <3>2. CASE m > 1
      <4>1. m - 1 \in 1 .. Len(samples)
        BY <1>3, <3>2
      <4>2. \A k \in 0 .. m - 2 : Decisive(d, Back(k).v)
        <5> SUFFICES ASSUME NEW k \in 0 .. m - 2
                     PROVE  Decisive(d, Back(k).v)
          OBVIOUS
        <5>1. Back(k + 1)' = Back(k)
          BY <1>3
        <5> QED  BY <5>1
      <4>3. stable = d \/ (pending = d /\ pendingSamples >= m - 1)
        BY <4>1, <4>2 DEF Window, DecisiveRunIsCounted
      <4> QED  BY <1>4, <1>5, <2>1, <4>3
    <3> QED  BY <3>1, <3>2
  <2> QED  BY <1>5, <2>1, <2>2
<1> QED  BY <1>2, <1>6, <1>7, <1>8 DEF Window

\* A sample that agrees ends every run of another class.
LEMMA StableKeepsWindow ==
    ASSUME Inv, Window, NEW v \in Voltages, NEW s \in 0 .. MaxSource, NEW w,
           StableSample(v, s, w)
    PROVE  Window'
<1>1. /\ v \in Int /\ lastSeen' = s /\ LogSample(v, s)
      /\ lastSeen = None \/ s > lastSeen
  BY HookConstants DEF StableSample, InRange, NewStamp
<1>2. SamplesInOrder'
  BY <1>1, OrderKept DEF Window
<1>3. Len(samples') \in Nat /\ Back(0)' = [v |-> v, src |-> s]
  BY <1>1, LogPushes DEF Window, SamplesInOrder
<1>4. Classify(v) = stable /\ stable' = stable /\ pendingSamples' = 0
  BY DEF StableSample, PendingDropped
<1>5. PendingRun' /\ PendingUnconfirmed'
  BY <1>3, <1>4 DEF PendingRun, PendingUnconfirmed
<1>6. DecisiveRunIsCounted'
  <2> SUFFICES ASSUME NEW d \in States \ {Unknown},
                      NEW m \in 1 .. Len(samples'),
                      \A k \in 0 .. m - 1 : Decisive(d, Back(k)'.v)
               PROVE  stable' = d
    BY DEF DecisiveRunIsCounted, Decisive
  <2>1. Decisive(d, v)
    BY <1>3
  <2> QED  BY <1>1, <1>4, <2>1, DecisiveIsFollowed DEF Inv, TypeOK
<1> QED  BY <1>2, <1>5, <1>6 DEF Window

\* fail() empties the window.
LEMMA FailKeepsWindow ==
    ASSUME NEW b, Fail(b)
    PROVE  Window'
<1>1. samples' = <<>> /\ pendingSamples' = 0 /\ Len(samples') = 0
  BY DEF Fail
<1> QED
  BY <1>1 DEF Window, SamplesInOrder, PendingRun, PendingUnconfirmed,
              DecisiveRunIsCounted

\* A callback that leaves the filter alone leaves the window alone.
LEMMA IdleKeepsWindow ==
    ASSUME Window, UNCHANGED <<state, samples, lastSeen>>
    PROVE  Window'
BY DEF Window, SamplesInOrder, PendingRun, PendingUnconfirmed, state, Back,
       DecisiveRunIsCounted, Confirmed, Nominal, Decisive

\* Every callback keeps the window.
LEMMA WindowNext == Inv /\ Window /\ [Next]_vars => Window'
<1> SUFFICES ASSUME Inv, Window, [Next]_vars PROVE Window'
  OBVIOUS
<1>1. ASSUME NEW v \in Voltages, NEW s \in 0 .. MaxSource,
             NEW w \in 0 .. MaxWall, Voltage(v, s, w)
      PROVE  Window'
  <2>1. CASE IngestWallRollback(s, w)
    BY <2>1, FailKeepsWindow DEF IngestWallRollback
  <2>2. CASE IngestSourceRollback(s, w)
    BY <2>2, FailKeepsWindow DEF IngestSourceRollback
  <2>3. CASE IngestDuplicate(s, w)
    BY <2>3, FailKeepsWindow, IdleKeepsWindow DEF IngestDuplicate
  <2>4. CASE BadVoltage(v, s, w)
    BY <2>4, FailKeepsWindow DEF BadVoltage
  <2>5. CASE StableSample(v, s, w)
    BY <2>5, StableKeepsWindow
  <2>6. CASE TransitionSample(v, s, w)
    BY <2>6, TransitionKeepsWindow
  <2> QED  BY <1>1, <2>1, <2>2, <2>3, <2>4, <2>5, <2>6 DEF Voltage
<1>2. ASSUME NEW w \in 0 .. MaxWall, Tick(w) PROVE Window'
  BY <1>2, FailKeepsWindow, IdleKeepsWindow DEF Tick
<1>3. CASE UNCHANGED vars
  BY <1>3, IdleKeepsWindow DEF vars, clocks, history
<1> QED  BY <1>1, <1>2, <1>3 DEF Next

\* The window is empty at the start.
LEMMA WindowInit == Init => Window
BY DEF Init, Window, SamplesInOrder, PendingRun, PendingUnconfirmed,
       DecisiveRunIsCounted

THEOREM WindowInvariance == Spec => []Window
BY WindowInit, WindowNext, Invariance, PTL DEF Spec

-----------------------------------------------------------------------------

\* A run that is decisive and long enough cannot still be pending.
LEMMA DecisiveRunSettles == Inv /\ Window => DecisiveIsRecognised
<1> SUFFICES ASSUME Inv, Window, NEW c \in States \ {Unknown},
                    NEW n \in 1 .. Len(samples), LongEnough(n),
                    \A j \in 1 .. n : Decisive(c, LastSamples(n)[j].v)
             PROVE  stable = c
  BY DEF DecisiveIsRecognised
<1>1. samples \in Seq(Sample) /\ Len(samples) \in Nat /\ pendingSamples \in Nat
  BY DEF Window, SamplesInOrder, Inv, TypeOK
<1>2. \A j \in 1 .. n : LastSamples(n)[j] = Back(n - j)
  BY <1>1, LastSamplesAreBack
<1>3. \A k \in 0 .. n - 1 : Decisive(c, Back(k).v)
  <2> SUFFICES ASSUME NEW k \in 0 .. n - 1 PROVE Decisive(c, Back(k).v)
    OBVIOUS
  <2>1. n - k \in 1 .. n /\ n - (n - k) = k
    OBVIOUS
  <2> QED  BY <1>2, <2>1
<1>4. n >= ConfirmSamples /\ Back(0).src - Back(n - 1).src >= MinDuration
  <2>1. LastSamples(n)[n] = Back(0) /\ LastSamples(n)[1] = Back(n - 1)
    BY <1>2
  <2> QED  BY <2>1 DEF LongEnough
<1>5. stable = c \/ (pending = c /\ pendingSamples >= n)
  BY <1>3 DEF Window, DecisiveRunIsCounted
<1>6. ASSUME pendingSamples >= n PROVE FALSE
  <2>1. /\ pendingSamples <= Len(samples)
        /\ since = Back(pendingSamples - 1).src
        /\ ~Confirmed(pendingSamples, lastSeen - since)
    BY <1>1, <1>6 DEF Window, PendingRun, PendingUnconfirmed
  <2>2. Back(n - 1).src - since >= pendingSamples - n
    BY <1>1, <1>6, <2>1 DEF Window, SamplesInOrder
  <2>3. Back(0).src = lastSeen
    BY <1>1 DEF Window, SamplesInOrder
  <2>4. /\ lastSeen \in Int /\ since \in Int /\ Back(n - 1).src \in Int
        /\ ConfirmSamples \in Int /\ MinDuration \in Int
    <3>1. Back(n - 1) \in Sample
      BY <1>1 DEF Back
    <3> QED  BY <3>1, HookConstants DEF Inv, TypeOK, None, Sample, ConfigValid
  <2>5. lastSeen - since >= MinDuration
    BY <1>1, <1>4, <1>6, <2>2, <2>3, <2>4
  <2>6. pendingSamples >= ConfirmSamples
    BY <1>1, <1>4, <1>6, <2>4
  <2> QED  BY <2>1, <2>5, <2>6 DEF Confirmed
<1> QED  BY <1>5, <1>6

\* A decisive window of samples that is long enough is always recognised
\* (DecisiveIsRecognised).
THEOREM DecisiveIsSeen == Spec => []DecisiveIsRecognised
BY DecisiveRunSettles, Invariance, WindowInvariance, PTL

\* The stable state is the class of a run of samples that is long enough.
RunConfirmed ==
    \E n \in 1 .. Len(samples) :
        /\ n >= ConfirmSamples /\ Back(0).src - Back(n - 1).src >= MinDuration
        /\ \A k \in 0 .. n - 1 : Nominal(Back(k).v) = stable

\* The same, as TransitionIsConfirmed says it.
EnteredOnRun ==
    \E n \in 1 .. Len(samples) :
        /\ LongEnough(n)
        /\ \A j \in 1 .. n : Nominal(LastSamples(n)[j].v) = stable

LEMMA RunIsLongEnough == SamplesInOrder /\ RunConfirmed => EnteredOnRun
<1> SUFFICES ASSUME SamplesInOrder, RunConfirmed PROVE EnteredOnRun
  OBVIOUS
<1>1. PICK n \in 1 .. Len(samples) :
        /\ n >= ConfirmSamples /\ Back(0).src - Back(n - 1).src >= MinDuration
        /\ \A k \in 0 .. n - 1 : Nominal(Back(k).v) = stable
  BY DEF RunConfirmed
<1>2. samples \in Seq(Sample) /\ Len(samples) \in Nat
  BY DEF SamplesInOrder
<1>3. \A j \in 1 .. n : LastSamples(n)[j] = Back(n - j)
  BY <1>2, LastSamplesAreBack
<1>4. LongEnough(n)
  <2>1. ASSUME NEW j \in 2 .. n
        PROVE  LastSamples(n)[j].src > LastSamples(n)[j - 1].src
    <3>1. /\ LastSamples(n)[j] = Back(n - j)
          /\ LastSamples(n)[j - 1] = Back(n - j + 1)
      BY <1>3
    <3>2. Back(n - j).src - Back(n - j + 1).src >= 1
      <4>1. /\ n - j \in 0 .. Len(samples) - 1
            /\ n - j + 1 \in 0 .. Len(samples) - 1
            /\ n - j <= n - j + 1 /\ (n - j + 1) - (n - j) = 1
        BY <1>2
      <4> QED  BY <4>1 DEF SamplesInOrder
    <3>3. Back(n - j) \in Sample /\ Back(n - j + 1) \in Sample
      BY <1>2 DEF Back
    <3> QED  BY <3>1, <3>2, <3>3 DEF Sample
  <2>2. LastSamples(n)[n] = Back(0) /\ LastSamples(n)[1] = Back(n - 1)
    BY <1>3
  <2> QED  BY <1>1, <2>1, <2>2 DEF LongEnough
<1>5. \A j \in 1 .. n : Nominal(LastSamples(n)[j].v) = stable
  BY <1>1, <1>3
<1> QED  BY <1>4, <1>5 DEF EnteredOnRun

\* A state is entered only on consecutive samples of its nominal band that are
\* numerous enough and last long enough (TransitionIsConfirmed).
THEOREM Confirmation == Spec => TransitionIsConfirmed
<1>1. Inv /\ Window /\ Window' /\ [Next]_vars =>
        ((stable' # stable /\ stable' # Unknown) => RunConfirmed')
  <2> SUFFICES ASSUME Inv, Window, Window', [Next]_vars,
                      stable' \notin {Unknown, stable}
               PROVE  RunConfirmed'
    OBVIOUS
  <2>1. PICK v \in Voltages, s \in 0 .. MaxSource, w \in 0 .. MaxWall :
            TransitionSample(v, s, w)
    BY OnlyTransitionsSettle
  <2>2. PICK n \in 1 .. Len(samples'), start \in Int :
           /\ start = Back(n - 1)'.src
           /\ \A k \in 0 .. n - 1 : Nominal(Back(k)'.v) = Classify(v)
           /\ IF Confirmed(n, s - start)
              THEN stable' = Classify(v) ELSE stable' = stable
    BY <2>1, TransitionRun
  <2>3. Confirmed(n, s - start) /\ stable' = Classify(v)
    BY <2>2
  <2>4. lastSeen' = s /\ samples' # <<>>
    BY <2>1, <2>2 DEF TransitionSample, NewStamp
  <2>5. Back(0)'.src = s
    BY <2>4 DEF Window, SamplesInOrder
  <2> QED  BY <2>2, <2>3, <2>5 DEF RunConfirmed, Confirmed, Nominal
<1>2. SamplesInOrder' /\ RunConfirmed' => EnteredOnRun'
  BY RunIsLongEnough, PTL
<1>3. Window' => SamplesInOrder'
  BY DEF Window
<1>4. Inv /\ Window /\ Window' /\ [Next]_vars =>
        [(stable' # stable /\ stable' # Unknown) => EnteredOnRun']_vars
  BY <1>1, <1>2, <1>3
<1> QED
  BY <1>4, Invariance, WindowInvariance, PTL
  DEF Spec, TransitionIsConfirmed, EnteredOnRun

-----------------------------------------------------------------------------
(* Induction, for the loops of the tracker over tracks and observations.   *)

\* The least element of a set of natural numbers.
LEMMA Least ==
    ASSUME NEW K, K \subseteq Nat, K # {}
    PROVE  \E k \in K : \A n \in K : k <= n
<1> DEFINE R == {ss \in Nat \X Nat : ss[1] < ss[2]}
<1>1. IsWellFoundedOn(R, Nat)
  BY NatLessThanWellFounded DEF OpToRel
<1>2. PICK k \in K : \A n \in K : ~(<<n, k>> \in R)
  <2> HIDE DEF R
  <2> QED  BY <1>1, WFMin
<1>3. ASSUME NEW n \in K PROVE k <= n
  <2>1. n \in Nat /\ k \in Nat
    BY <1>3
  <2>2. n < k => <<n, k>> \in R
    BY <2>1
  <2> HIDE DEF R
  <2> QED  BY <1>2, <2>1, <2>2
<1> QED  BY <1>3

\* Induction over the natural numbers, for a set.
LEMMA Induction ==
    ASSUME NEW T, 0 \in T, \A n \in Nat : n \in T => n + 1 \in T
    PROVE  Nat \subseteq T
<1> SUFFICES ASSUME Nat \ T # {} PROVE FALSE
  OBVIOUS
<1>1. PICK k \in Nat \ T : \A n \in Nat \ T : k <= n
  BY Least
<1>2. k - 1 \in Nat /\ (k - 1) + 1 = k
  BY <1>1
<1>3. k - 1 \in T
  BY <1>1, <1>2
<1> QED  BY <1>1, <1>2, <1>3

-----------------------------------------------------------------------------
(* Sequences of anything.                                                  *)

IsSeq(s) == \E D : s \in Seq(D)

LEMMA AppendSeq ==
    ASSUME NEW s, IsSeq(s), NEW x
    PROVE  /\ IsSeq(Append(s, x)) /\ Len(s) \in Nat
           /\ Len(Append(s, x)) = Len(s) + 1
           /\ DOMAIN Append(s, x) = 1 .. (Len(s) + 1)
           /\ DOMAIN s = 1 .. Len(s)
           /\ Append(s, x)[Len(s) + 1] = x
           /\ \A i \in 1 .. Len(s) : Append(s, x)[i] = s[i]
<1>1. PICK D : s \in Seq(D)
  BY DEF IsSeq
<1> DEFINE E == D \union {x}
<1>2. s \in Seq(E) /\ x \in E
  BY <1>1
<1> HIDE DEF E
<1>3. Append(s, x) \in Seq(E)
  BY <1>2
<1> QED  BY <1>2, <1>3 DEF IsSeq

LEMMA ExceptSeq ==
    ASSUME NEW s, IsSeq(s), NEW i \in 1 .. Len(s), NEW x
    PROVE  LET n == [s EXCEPT ![i] = x]
           IN /\ IsSeq(n) /\ Len(n) = Len(s) /\ n[i] = x
              /\ \A j \in 1 .. Len(s) : j # i => n[j] = s[j]
<1>1. PICK D : s \in Seq(D)
  BY DEF IsSeq
<1> DEFINE E == D \union {x}
<1>2. s \in Seq(E) /\ x \in E
  BY <1>1
<1> HIDE DEF E
<1>3. [s EXCEPT ![i] = x] \in Seq(E)
  BY <1>2
<1> QED  BY <1>2, <1>3 DEF IsSeq

LEMMA MapSeq ==
    ASSUME NEW n \in Nat, NEW f, f = [i \in 1 .. n |-> f[i]]
    PROVE  IsSeq(f) /\ Len(f) = n
<1> DEFINE E == {f[i] : i \in 1 .. n}
<1>1. f \in [1 .. n -> E]
  OBVIOUS
<1> HIDE DEF E
<1>2. f \in Seq(E)
  BY <1>1
<1> QED  BY <1>1, <1>2 DEF IsSeq

-----------------------------------------------------------------------------
(* ObstacleTracker: the evidence of a track is in the last frames.         *)

TrackFields ==
    {"place", "auth", "age", "last", "observed", "ambiguous", "current",
     "valid", "far", "farHistory", "apart", "separated", "sparse",
     "certified", "external", "still"}
ObservationFields ==
    {"place", "auth", "range", "valid", "eligible", "sparse", "certified",
     "external"}

Track(t) ==
    /\ t = [y \in TrackFields |-> t[y]]
    /\ t.place \in Int /\ t.age \in Nat /\ t.valid \in Nat /\ t.far \in Nat
    /\ t.farHistory \in BOOLEAN /\ t.certified \in BOOLEAN
    /\ t.observed \in BOOLEAN /\ t.last \in BOOLEAN
    /\ t.current = [y \in ObservationFields |-> t.current[y]]
    /\ t.current.valid \in BOOLEAN

\* Each of the last n frames showed it, validated, where it could be.
Backed(t, n, shown) ==
    /\ n <= Len(shown)
    /\ \A i \in 1 .. n : \E o \in shown[i] :
         o.valid /\ o.auth = t.auth /\ O!Distance(o, t) <= i - 1

\* Its origin was seen under its pose authority.
Rooted(t, from) == t.far > 0 \/ t.farHistory \/ t.certified => t.auth \in from

Grounded(t, shown, from) ==
    /\ Track(t)
    /\ t.age = 0 => Backed(t, t.valid, shown)
    /\ Rooted(t, from)
    /\ t.observed /\ t.current.valid => t.age = 0

ObstacleIInv ==
    /\ IsSeq(tracks) /\ IsSeq(seen)
    /\ \A k \in 1 .. Len(tracks) : Grounded(tracks[k], seen, origins)
    /\ \A i \in 1 .. Len(seen) : seen[i] \subseteq Observations
    /\ WarningIsEarned

LEMMA ObstacleInit == O!Init => ObstacleIInv
<1> SUFFICES ASSUME O!Init PROVE ObstacleIInv
  OBVIOUS
<1>1. IsSeq(tracks) /\ IsSeq(seen) /\ Len(tracks) = 0 /\ Len(seen) = 0
  BY DEF O!Init, IsSeq
<1>2. WarningIsEarned
  BY DEF O!Init, O!NoVerdict, WarningIsEarned, O!WarningIsEarned
<1> QED  BY <1>1, <1>2 DEF ObstacleIInv

-----------------------------------------------------------------------------
\* A track that waits for an observation of its frame, at place p, with the
\* frames before this one.
Waits(t, p, shown, from) ==
    /\ Track(t) /\ t.place = p /\ t.age > 0
    /\ t.last => Backed(t, t.valid, shown)
    /\ Rooted(t, from)
    /\ t.observed => ~t.current.valid

LEMMA NewIsGrounded ==
    ASSUME NEW x \in Observations, NEW shown, NEW from,
           Len(shown) \in Nat \ {0}, x \in shown[1],
           x.certified \/ x.range = "far" => x.auth \in from
    PROVE  Grounded(O!NewTrack(x), shown, from)
<1> DEFINE t == O!NewTrack(x)
<1>1. /\ Track(t) /\ t.age = 0 /\ t.valid \in 0 .. 1 /\ t.auth = x.auth
      /\ t.place = x.place
      /\ t.valid = 1 => x.valid
      /\ t.far > 0 \/ t.farHistory => x.range = "far"
      /\ t.certified = x.certified
  <2>1. /\ x = [y \in ObservationFields |-> x[y]]
        /\ x.place \in Int /\ x.valid \in BOOLEAN /\ x.certified \in BOOLEAN
    BY DEF Observations, ObservationFields
  <2>2. /\ t = [y \in TrackFields |-> t[y]]
        /\ t.place = x.place /\ t.age = 0 /\ t.auth = x.auth
        /\ t.certified = x.certified /\ t.observed = TRUE /\ t.last = TRUE
        /\ t.current = x
    BY DEF O!NewTrack, TrackFields
  <2>3. t.valid \in 0 .. 1 /\ (t.valid = 1 => x.valid)
    BY DEF O!NewTrack
  <2>4. t.far \in 0 .. 1 /\ (t.far = 1 => x.range = "far")
    BY DEF O!NewTrack, O!QualifiesFar
  <2>5. t.farHistory \in BOOLEAN /\ (t.farHistory => x.range = "far")
    BY DEF O!NewTrack, O!QualifiesFar
  <2> HIDE DEF t
  <2>6. Track(t)
    <3>1. t.current = [y \in ObservationFields |-> t.current[y]]
      BY <2>1, <2>2
    <3>2. t.certified \in BOOLEAN /\ t.current.valid \in BOOLEAN
      BY <2>1, <2>2
    <3>3. t.place \in Int /\ t.age \in Nat /\ t.valid \in Nat /\ t.far \in Nat
      BY <2>1, <2>2, <2>3, <2>4
    <3>4. t.observed \in BOOLEAN /\ t.last \in BOOLEAN
      BY <2>2
    <3> QED  BY <2>2, <2>5, <3>1, <3>2, <3>3, <3>4 DEF Track
  <2> QED  BY <2>1, <2>2, <2>3, <2>4, <2>5, <2>6
<1> HIDE DEF t
<1>2. O!Distance(x, t) = 0
  BY <1>1 DEF O!Distance, Observations
<1>3. Backed(t, t.valid, shown)
  <2>1. ASSUME NEW i \in 1 .. t.valid
        PROVE  i = 1 /\ x.valid
    BY <1>1
  <2> QED  BY <1>1, <1>2, <2>1 DEF Backed
<1>4. Rooted(t, from)
  BY <1>1 DEF Rooted
<1> QED  BY <1>1, <1>3, <1>4 DEF Grounded, t

\* An ambiguous pairing changes nothing of what a track waits for.
LEMMA FrozenStays ==
    ASSUME NEW t, NEW x, Track(t)
    PROVE  LET n == O!Frozen(t, x) IN
           /\ Track(n) /\ n.place = t.place /\ n.age = t.age
           /\ n.last = t.last /\ n.valid = t.valid /\ n.auth = t.auth
           /\ n.far = t.far /\ n.farHistory = t.farHistory
           /\ n.certified = t.certified /\ ~n.current.valid
BY DEF O!Frozen, Track, TrackFields, ObservationFields

\* A match adds this frame to the evidence, or starts it anew.
LEMMA MatchedIsGrounded ==
    ASSUME NEW t, NEW p, NEW was, NEW ago, NEW shown, NEW old, NEW from,
           NEW x \in Observations,
           Waits(t, p, old, was), was \subseteq from,
           O!Legal(x, [place |-> p, age |-> ago]),
           IsSeq(shown), IsSeq(old),
           \A i \in 1 .. Len(old) : old[i] \subseteq Observations,
           Len(shown) = O!Less(Len(old) + 1, WarnFrames),
           x \in shown[1],
           \A i \in 2 .. Len(shown) : shown[i] = old[i - 1],
           x.certified \/ x.range = "far" => x.auth \in from
    PROVE  Grounded(O!Matched(t, x), shown, from)
<1> DEFINE n == O!Matched(t, x)
           c == O!Continues(t, x)
           next == t.auth = x.auth /\ t.last
           far == IF c.farHistory THEN c.far
                  ELSE IF ~O!QualifiesFar(x) THEN 0
                  ELSE IF next THEN O!Less(c.far + 1, FarFrames) ELSE 1
<1>1. /\ Track(c) /\ c.place = p
      /\ Rooted(c, was) \/ t.auth # x.auth
      /\ t.auth = x.auth => c = t
      /\ t.auth # x.auth => c.valid = 0 /\ c.far = 0 /\ ~c.farHistory
                            /\ ~c.certified
  <2>1. CASE t.auth = x.auth
    BY <2>1 DEF O!Continues, Waits
  <2>2. CASE t.auth # x.auth
    BY <2>2 DEF O!Continues, O!Restarted, Waits, Track, TrackFields,
                ObservationFields
  <2> QED  BY <2>1, <2>2
<1> HIDE DEF c
<1>2. /\ x = [y \in ObservationFields |-> x[y]]
      /\ x.place \in Int /\ x.valid \in BOOLEAN /\ x.certified \in BOOLEAN
  BY DEF Observations, ObservationFields
<1>3. /\ n = [y \in TrackFields |-> n[y]]
      /\ n.place = x.place /\ n.auth = x.auth /\ n.age = 0 /\ n.last = TRUE
      /\ n.observed = TRUE /\ n.current = x
      /\ n.valid = O!Count(x.valid, next, c.valid)
      /\ n.far = far
      /\ n.farHistory = (c.farHistory \/ far >= FarFrames)
      /\ n.certified = (c.certified \/ x.certified)
  <2>1. c = [y \in TrackFields |-> c[y]]
    BY <1>1 DEF Track
  <2>2. /\ n = [y \in TrackFields |-> n[y]]
        /\ n.place = x.place /\ n.auth = x.auth /\ n.age = 0
        /\ n.last = TRUE /\ n.observed = TRUE /\ n.current = x
    <3>1. n = [y \in TrackFields |-> n[y]]
      <4> DEFINE apart == IF O!Embedded(x) THEN c.apart
                          ELSE O!Count(x.valid, next, c.apart)
                 external == c.external \/ x.external
                 values == <<O!Count(x.valid, next, c.valid), apart,
                   c.separated \/ (x.valid /\ ~O!Embedded(x)
                                   /\ apart >= WarnFrames),
                   far, c.farHistory \/ far >= FarFrames,
                   IF ~x.sparse THEN c.sparse
                   ELSE O!Count(TRUE, next /\ t.current.sparse, c.sparse),
                   c.certified \/ x.certified, external,
                   O!Count(x.valid /\ external, next, c.still)>>
      <4>1. n = [c EXCEPT
                  !.place = x.place, !.auth = x.auth, !.age = 0, !.last = TRUE,
                  !.observed = TRUE, !.ambiguous = FALSE, !.current = x,
                  !.valid = values[1], !.apart = values[2],
                  !.separated = values[3], !.far = values[4],
                  !.farHistory = values[5], !.sparse = values[6],
                  !.certified = values[7], !.external = values[8],
                  !.still = values[9]]
        BY DEF O!Matched, c
      <4> HIDE DEF values, n, far
      <4> QED  BY <2>1, <4>1 DEF TrackFields
    <3>2. n.place = x.place /\ n.auth = x.auth /\ n.age = 0
      BY <2>1 DEF O!Matched, TrackFields, c
    <3>3. n.last = TRUE /\ n.observed = TRUE
      BY <2>1 DEF O!Matched, TrackFields, c
    <3>4. n.current = x
      BY <2>1 DEF O!Matched, TrackFields, c
    <3> QED  BY <3>1, <3>2, <3>3, <3>4
  <2>3. n.valid = O!Count(x.valid, next, c.valid)
    BY <2>1 DEF O!Matched, TrackFields, c
  <2>4. n.far = far /\ n.farHistory = (c.farHistory \/ far >= FarFrames)
    BY <2>1 DEF O!Matched, TrackFields, c
  <2>5. n.certified = (c.certified \/ x.certified)
    BY <2>1 DEF O!Matched, TrackFields, c
  <2> QED  BY <2>2, <2>3, <2>4, <2>5
<1>4. /\ far \in Nat
      /\ far > 0 \/ c.farHistory => c.far > 0 \/ c.farHistory
                                    \/ x.range = "far"
  BY <1>1, ObstacleAssumption DEF Track, O!QualifiesFar, O!Less
<1> HIDE DEF far, n
<1>5. n.valid \in Nat /\ n.valid <= WarnFrames
      /\ (n.valid > 0 => x.valid)
      /\ (n.valid > 1 => next /\ n.valid <= c.valid + 1)
  BY <1>1, <1>2, <1>3, ObstacleAssumption DEF Track, O!Count, O!Less
<1>6. Track(n)
  <2>1. n.current = [y \in ObservationFields |-> n.current[y]]
        /\ n.current.valid \in BOOLEAN
    BY <1>2, <1>3
  <2>2. n.farHistory \in BOOLEAN /\ n.certified \in BOOLEAN
    BY <1>3
  <2>3. n.observed \in BOOLEAN /\ n.last \in BOOLEAN
    BY <1>3
  <2>4. n.place \in Int /\ n.age \in Nat /\ n.far \in Nat
    BY <1>2, <1>3, <1>4
  <2> QED  BY <1>3, <1>5, <2>1, <2>2, <2>3, <2>4 DEF Track
<1>7. Rooted(n, from)
  <2>1. n.farHistory => far > 0 \/ c.farHistory
    <3>1. far >= FarFrames => far > 0
      BY <1>4, ObstacleAssumption
    <3> QED  BY <1>3, <3>1
  <2>2. n.far > 0 \/ n.farHistory \/ n.certified =>
          c.far > 0 \/ c.farHistory \/ c.certified
          \/ x.certified \/ x.range = "far"
    BY <1>3, <1>4, <2>1
  <2>3. c.far > 0 \/ c.farHistory \/ c.certified => x.auth \in from
    BY <1>1 DEF Rooted
  <2> QED  BY <1>3, <2>2, <2>3 DEF Rooted
<1>8. Backed(n, n.valid, shown)
  <2>1. O!Distance(x, n) = 0
    BY <1>2, <1>3 DEF O!Distance
  <2>2. Len(old) \in Nat /\ Len(shown) \in Nat
    BY DEF IsSeq
  <2>3. CASE n.valid <= 1
    <3>1. n.valid <= Len(shown)
      BY <1>5, <2>2, <2>3, ObstacleAssumption DEF O!Less
    <3>2. ASSUME NEW i \in 1 .. n.valid PROVE i = 1 /\ x.valid
      BY <1>5, <2>3
    <3>3. n.auth = x.auth
      BY <1>3
    <3> QED  BY <2>1, <3>1, <3>2, <3>3 DEF Backed
  <2>4. CASE n.valid > 1
    <3>1. Backed(t, t.valid, old) /\ c = t /\ t.auth = x.auth
          /\ n.valid <= t.valid + 1 /\ t.valid \in Nat
      BY <1>1, <1>5, <2>4 DEF Waits, Track
    <3>2. n.valid <= Len(shown)
      BY <1>5, <2>2, <3>1, ObstacleAssumption DEF O!Less, Backed
    <3>3. ASSUME NEW i \in 1 .. n.valid
          PROVE  \E o \in shown[i] : o.valid /\ o.auth = n.auth
                                     /\ O!Distance(o, n) <= i - 1
      <4>1. CASE i = 1
        BY <1>3, <1>5, <2>1, <2>4, <4>1
      <4>2. CASE i # 1
        <5>1. i \in 2 .. Len(shown) /\ i - 1 \in 1 .. t.valid
              /\ i - 1 \in 1 .. Len(old)
          BY <1>5, <2>2, <3>1, <3>2, <4>2 DEF Backed
        <5>2. PICK o \in old[i - 1] :
                 o.valid /\ o.auth = t.auth /\ O!Distance(o, t) <= (i - 1) - 1
          BY <3>1, <5>1 DEF Backed
        <5>3. o \in shown[i] /\ o.place \in Int
          BY <5>1, <5>2 DEF Observations
        <5>4. O!Distance(x, t) <= 1
          BY DEF O!Legal, O!Distance, Waits
        <5>5. O!Distance(o, n) <= i - 1
          <6>1. t.place \in Int /\ x.place \in Int /\ n.place = x.place
                /\ i \in Int
            BY <1>2, <1>3, <5>1 DEF Waits, Track
          <6> QED  BY <5>2, <5>3, <5>4, <6>1 DEF O!Distance
        <5> QED  BY <1>3, <3>1, <5>2, <5>3, <5>5
      <4> QED  BY <4>1, <4>2
    <3> QED  BY <3>2, <3>3 DEF Backed
  <2> QED  BY <1>5, <2>3, <2>4
<1> QED  BY <1>3, <1>6, <1>7, <1>8 DEF Grounded, n

LEMMA WaitingIsGrounded ==
    ASSUME NEW t, NEW p, NEW old, NEW was, NEW shown, NEW from,
           Waits(t, p, old, was), was \subseteq from
    PROVE  Grounded(t, shown, from)
BY DEF Waits, Grounded, Rooted, Track

LEMMA FrozenIsGrounded ==
    ASSUME NEW t, NEW x, NEW shown, NEW from, Grounded(t, shown, from)
    PROVE  Grounded(O!Frozen(t, x), shown, from)
<1> DEFINE n == O!Frozen(t, x)
<1>1. /\ Track(n) /\ n.place = t.place /\ n.age = t.age
      /\ n.valid = t.valid /\ n.auth = t.auth
      /\ n.far = t.far /\ n.farHistory = t.farHistory
      /\ n.certified = t.certified /\ ~n.current.valid
  BY FrozenStays DEF Grounded
<1> HIDE DEF n
<1>2. n.age = 0 => Backed(n, n.valid, shown)
  BY <1>1 DEF Grounded, Backed, O!Distance
<1>3. Rooted(n, from)
  BY <1>1 DEF Grounded, Rooted
<1> QED  BY <1>1, <1>2, <1>3 DEF Grounded, n

LEMMA FrozenWaits ==
    ASSUME NEW t, NEW x, NEW p, NEW shown, NEW from, Waits(t, p, shown, from)
    PROVE  Waits(O!Frozen(t, x), p, shown, from)
<1> DEFINE n == O!Frozen(t, x)
<1>1. /\ Track(n) /\ n.place = t.place /\ n.age = t.age
      /\ n.last = t.last /\ n.valid = t.valid /\ n.auth = t.auth
      /\ n.far = t.far /\ n.farHistory = t.farHistory
      /\ n.certified = t.certified /\ ~n.current.valid
  BY FrozenStays DEF Waits
<1> HIDE DEF n
<1>2. n.last => Backed(n, n.valid, shown)
  BY <1>1 DEF Waits, Backed, O!Distance
<1>3. Rooted(n, from)
  BY <1>1 DEF Waits, Rooted
<1> QED  BY <1>1, <1>2, <1>3 DEF Waits, n

-----------------------------------------------------------------------------
\* The cycle begins: every track that is left waits.
LEMMA AgedWait ==
    ASSUME ObstacleIInv
    PROVE  /\ IsSeq(O!Aged)
           /\ \A k \in 1 .. Len(O!Aged) :
                Waits(O!Aged[k], O!Aged[k].place, seen, origins)
<1> DEFINE begun(t) == [t EXCEPT !.age = @ + 1, !.last = t.age = 0,
                                 !.observed = FALSE]
           N == Len(tracks)
           Op(s, k) == IF tracks[k].age + 1 > TrackStale THEN s
                       ELSE Append(s, begun(tracks[k]))
           Eq(h, n) == h = [k \in 0 .. n |->
                              IF k = 0 THEN <<>> ELSE Op(h[k - 1], k)]
           T == {n \in Nat : \E h : Eq(h, n)}
           kept[k \in 0 .. N] == IF k = 0 THEN <<>> ELSE Op(kept[k - 1], k)
<1>1. N \in Nat
  BY DEF ObstacleIInv, IsSeq
<1>2. O!Aged = kept[N]
  <2>1. kept = CHOOSE h : h = [k \in 0 .. N |->
           IF k = 0 THEN <<>>
           ELSE IF tracks[k].age + 1 > TrackStale THEN h[k - 1]
           ELSE Append(h[k - 1], begun(tracks[k]))]
    OBVIOUS
  <2> QED  BY <2>1 DEF O!Aged
<1> HIDE DEF N
<1>3. Eq(kept, N)
  <2>1. 0 \in T
    <3>1. Eq([k \in 0 .. 0 |-> <<>>], 0)
      OBVIOUS
    <3> QED  BY <3>1
  <2>2. ASSUME NEW n \in Nat, n \in T PROVE n + 1 \in T
    <3>1. PICK h : Eq(h, n)
      BY <2>2
    <3> DEFINE e == [k \in 0 .. (n + 1) |-> IF k = n + 1
                                            THEN Op(h[n], n + 1) ELSE h[k]]
    <3> HIDE DEF Op
    <3>2. \A k \in 0 .. (n + 1) : e[k] = IF k = 0 THEN <<>>
                                         ELSE Op(e[k - 1], k)
      BY <3>1
    <3>3. Eq(e, n + 1)
      BY <3>2
    <3>4. n + 1 \in Nat
      OBVIOUS
    <3> HIDE DEF Eq
    <3> QED  BY <3>3, <3>4
  <2>3. N \in T
    <3> HIDE DEF T
    <3> QED  BY <1>1, <2>1, <2>2, Induction
  <2>4. PICK h : Eq(h, N)
    BY <2>3
  <2>5. kept = CHOOSE z : Eq(z, N)
    OBVIOUS
  <2> HIDE DEF Eq, kept
  <2> QED  BY <2>4, <2>5
<1>4. /\ kept[0] = <<>>
      /\ \A k \in 1 .. N : kept[k] = Op(kept[k - 1], k)
  <2> HIDE DEF kept, Op
  <2> QED  BY <1>1, <1>3
<1> HIDE DEF kept
<1> DEFINE fine(s) == /\ IsSeq(s)
                      /\ \A k \in 1 .. Len(s) :
                           Waits(s[k], s[k].place, seen, origins)
           K == {i \in Nat : i \in 0 .. N => fine(kept[i])}
<1>5. ASSUME NEW t, Grounded(t, seen, origins)
      PROVE  Waits(begun(t), begun(t).place, seen, origins)
  <2> DEFINE n == begun(t)
  <2>1. /\ n = [y \in TrackFields |-> n[y]]
        /\ n.age = t.age + 1 /\ n.last = (t.age = 0) /\ n.observed = FALSE
        /\ n.place = t.place /\ n.auth = t.auth /\ n.valid = t.valid
        /\ n.far = t.far /\ n.farHistory = t.farHistory
        /\ n.certified = t.certified /\ n.current = t.current
    BY <1>5 DEF Grounded, Track, TrackFields
  <2> HIDE DEF n
  <2>2. Track(n) /\ n.age > 0
    <3>1. n.current = [y \in ObservationFields |-> n.current[y]]
          /\ n.current.valid \in BOOLEAN
      BY <1>5, <2>1 DEF Grounded, Track
    <3>2. n.farHistory \in BOOLEAN /\ n.certified \in BOOLEAN
      BY <1>5, <2>1 DEF Grounded, Track
    <3>3. n.observed \in BOOLEAN /\ n.last \in BOOLEAN
      BY <2>1
    <3>4. n.place \in Int /\ n.age \in Nat /\ n.far \in Nat
          /\ n.valid \in Nat /\ n.age > 0
      BY <1>5, <2>1 DEF Grounded, Track
    <3> QED  BY <2>1, <3>1, <3>2, <3>3, <3>4 DEF Track
  <2>3. n.last => Backed(n, n.valid, seen)
    BY <1>5, <2>1 DEF Grounded, Backed, O!Distance
  <2>4. Rooted(n, origins)
    BY <1>5, <2>1 DEF Grounded, Rooted
  <2> QED  BY <2>1, <2>2, <2>3, <2>4 DEF Waits, n
<1> HIDE DEF begun
<1>6. 0 \in K
  <2>1. IsSeq(<<>>) /\ Len(<<>>) = 0
    BY DEF IsSeq
  <2> QED  BY <1>4, <2>1
<1>7. ASSUME NEW i \in Nat, i \in K PROVE i + 1 \in K
  <2> SUFFICES ASSUME i + 1 \in 0 .. N PROVE fine(kept[i + 1])
    OBVIOUS
  <2>1. fine(kept[i]) /\ i + 1 \in 1 .. N
    BY <1>1, <1>7
  <2>2. \/ kept[i + 1] = kept[i]
        \/ kept[i + 1] = Append(kept[i], begun(tracks[i + 1]))
    <3>1. kept[i + 1] = Op(kept[(i + 1) - 1], i + 1)
      <4> HIDE DEF Op
      <4> QED  BY <1>4, <2>1
    <3>2. (i + 1) - 1 = i
      OBVIOUS
    <3>3. kept[i + 1] = Op(kept[i], i + 1)
      <4> HIDE DEF Op
      <4> QED  BY <3>1, <3>2
    <3> QED  BY <3>3
  <2>3. Waits(begun(tracks[i + 1]), begun(tracks[i + 1]).place, seen, origins)
    BY <1>5, <2>1 DEF ObstacleIInv, N
  <2>4. CASE kept[i + 1] = Append(kept[i], begun(tracks[i + 1]))
    <3> DEFINE s == kept[i]
               x == begun(tracks[i + 1])
    <3> HIDE DEF s, x
    <3>1. /\ IsSeq(Append(s, x)) /\ Len(s) \in Nat
          /\ Len(Append(s, x)) = Len(s) + 1
          /\ Append(s, x)[Len(s) + 1] = x
          /\ \A k \in 1 .. Len(s) : Append(s, x)[k] = s[k]
      BY <2>1, AppendSeq DEF s
    <3>2. ASSUME NEW k \in 1 .. Len(Append(s, x))
          PROVE  k \in 1 .. Len(s) \/ k = Len(s) + 1
      BY <3>1
    <3>3. fine(s) /\ Waits(x, x.place, seen, origins)
      BY <2>1, <2>3 DEF s, x
    <3>4. fine(Append(s, x))
      BY <3>1, <3>2, <3>3
    <3> QED  BY <2>4, <3>4 DEF s, x
  <2> QED  BY <2>1, <2>2, <2>4
<1>8. N \in K
  <2> HIDE DEF K
  <2> QED  BY <1>1, <1>6, <1>7, Induction
<1> QED  BY <1>1, <1>2, <1>8
-----------------------------------------------------------------------------
(* The frame.                                                              *)

\* What has been seen once the frame is over.
NowSeen(obs) ==
    SubSeq(<<O!Shown(obs)>> \o seen, 1, O!Less(Len(seen) + 1, WarnFrames))
NowOrigins(obs) == origins \union O!Origins(obs)

LEMMA FrameIsSeen ==
    ASSUME ObstacleIInv, NEW obs \in ObstacleFrames
    PROVE  LET n == NowSeen(obs) IN
           /\ IsSeq(n) /\ Len(n) = O!Less(Len(seen) + 1, WarnFrames)
           /\ n[1] = O!Shown(obs)
           /\ \A i \in 2 .. Len(n) : n[i] = seen[i - 1]
           /\ \A i \in 1 .. Len(n) : n[i] \subseteq Observations
<1> DEFINE a == O!Shown(obs)
           m == O!Less(Len(seen) + 1, WarnFrames)
           n == NowSeen(obs)
           D == SUBSET Observations
<1>1. a \in D
  BY ObstacleAssumption DEF O!Shown
<1>2. seen \in Seq(D)
  <2>1. PICK E : seen \in Seq(E)
    BY DEF ObstacleIInv, IsSeq
  <2>2. \A i \in 1 .. Len(seen) : seen[i] \in D
    BY DEF ObstacleIInv
  <2> HIDE DEF D
  <2> QED  BY <2>1, <2>2
<1>3. n = SubSeq(<<a>> \o seen, 1, m)
  BY DEF NowSeen
<1> HIDE DEF a, n, D
<1>4. m \in 1 .. (Len(seen) + 1)
  BY <1>2, ObstacleAssumption DEF O!Less
<1> HIDE DEF m
<1>5. /\ <<a>> \o seen \in Seq(D) /\ Len(<<a>> \o seen) = Len(seen) + 1
      /\ (<<a>> \o seen)[1] = a
      /\ \A i \in 2 .. (Len(seen) + 1) : (<<a>> \o seen)[i] = seen[i - 1]
  <2>1. <<a>> \in Seq(D) /\ Len(<<a>>) = 1 /\ <<a>>[1] = a
    BY <1>1
  <2> QED  BY <1>2, <2>1
<1>6. /\ n \in Seq(D) /\ Len(n) = m
      /\ \A i \in 1 .. m : n[i] = (<<a>> \o seen)[i]
  BY <1>3, <1>4, <1>5
<1>7. IsSeq(n) /\ Len(n) = m /\ n[1] = a
  BY <1>4, <1>5, <1>6 DEF IsSeq
<1>8. ASSUME NEW i \in 2 .. Len(n) PROVE n[i] = seen[i - 1]
  <2>1. i \in 2 .. (Len(seen) + 1) /\ i \in 1 .. m
    BY <1>2, <1>4, <1>6
  <2> QED  BY <1>5, <1>6, <2>1
<1>9. \A i \in 1 .. Len(n) : n[i] \in D
  BY <1>6
<1> QED  BY <1>7, <1>8, <1>9 DEF a, m, n, D

\* An observation of the frame, and where its authority is noted.
LEMMA FrameIsNoted ==
    ASSUME NEW obs \in ObstacleFrames, NEW i \in 1 .. Len(obs)
    PROVE  /\ obs[i] \in Observations /\ obs[i] \in O!Shown(obs)
           /\ DOMAIN obs = 1 .. Len(obs) /\ Len(obs) \in Nat
           /\ obs[i].certified \/ obs[i].range = "far" =>
                obs[i].auth \in O!Origins(obs)
<1>1. obs \in Seq(Observations)
  BY ObstacleAssumption
<1>2. /\ obs[i] \in Observations /\ DOMAIN obs = 1 .. Len(obs)
      /\ Len(obs) \in Nat
  BY <1>1
<1>3. obs[i] \in O!Shown(obs)
  BY <1>2 DEF O!Shown
<1> QED  BY <1>2, <1>3 DEF O!Origins

\* Before observation number i: every track is grounded, and those that are
\* not taken yet still wait.
Fine(s, T, taken, shown, from) ==
    /\ IsSeq(s) /\ Len(T) <= Len(s)
    /\ \A k \in 1 .. Len(s) : Grounded(s[k], shown, from)
    /\ \A k \in 1 .. Len(T) :
         k \notin taken => Waits(s[k], T[k].place, seen, origins)

LEMMA ApplyIsFine ==
    ASSUME ObstacleIInv, NEW obs \in ObstacleFrames, NEW T, IsSeq(T),
           NEW f \in [DOMAIN obs -> {O!None} \union DOMAIN T],
           O!Pairing(T, obs, f), NEW i \in 1 .. Len(obs),
           NEW s, NEW taken, f[i] \notin taken \/ f[i] = O!None,
           Fine(s, T, taken, NowSeen(obs), NowOrigins(obs))
    PROVE  Fine(O!Apply(s, i, T, obs, f), T, taken \union {f[i]},
                NowSeen(obs), NowOrigins(obs))
<1> DEFINE x == obs[i]
           k == f[i]
           shown == NowSeen(obs)
           from == NowOrigins(obs)
           rivals == {m \in DOMAIN T : O!Legal(x, T[m])}
           n == O!Apply(s, i, T, obs, f)
           more == taken \union {k}
<1>1. /\ x \in Observations /\ x \in O!Shown(obs)
      /\ x.certified \/ x.range = "far" => x.auth \in from
      /\ DOMAIN obs = 1 .. Len(obs)
  BY FrameIsNoted DEF NowOrigins
<1>2. /\ IsSeq(shown) /\ Len(shown) = O!Less(Len(seen) + 1, WarnFrames)
      /\ x \in shown[1] /\ origins \subseteq from
      /\ \A j \in 2 .. Len(shown) : shown[j] = seen[j - 1]
      /\ Len(shown) \in Nat \ {0}
  <2>1. /\ IsSeq(shown) /\ Len(shown) = O!Less(Len(seen) + 1, WarnFrames)
        /\ shown[1] = O!Shown(obs)
        /\ \A j \in 2 .. Len(shown) : shown[j] = seen[j - 1]
    BY FrameIsSeen
  <2>2. Len(seen) \in Nat
    BY DEF ObstacleIInv, IsSeq
  <2>3. Len(shown) \in Nat \ {0}
    BY <2>1, <2>2, ObstacleAssumption DEF O!Less
  <2> QED  BY <1>1, <2>1, <2>3 DEF NowOrigins
<1>3. /\ IsSeq(s) /\ Len(s) \in Nat /\ Len(T) \in Nat /\ Len(T) <= Len(s)
      /\ DOMAIN T = 1 .. Len(T) /\ DOMAIN s = 1 .. Len(s)
      /\ \A m \in 1 .. Len(s) : Grounded(s[m], shown, from)
      /\ \A m \in 1 .. Len(T) :
           m \notin taken => Waits(s[m], T[m].place, seen, origins)
  BY DEF Fine, IsSeq
<1>4. /\ k \in {0} \union 1 .. Len(T)
      /\ k # 0 => O!Legal(x, T[k]) /\ k \notin taken
  BY <1>1, <1>3 DEF O!None, O!Pairing
<1>5. n = IF k = 0 /\ rivals = {} THEN Append(s, O!NewTrack(x))
          ELSE IF k = 0
          THEN [m \in DOMAIN s |->
                  IF m \in rivals THEN O!Frozen(s[m], x) ELSE s[m]]
          ELSE IF O!ReciprocalUnique(T, obs, i, k)
          THEN [s EXCEPT ![k] = O!Matched(@, x)]
          ELSE [s EXCEPT ![k] = O!Frozen(@, x)]
  BY DEF O!Apply, O!None
<1> HIDE DEF x, k, shown, from, n, rivals
<1>6. CASE k = 0 /\ n = Append(s, O!NewTrack(x))
  <2> DEFINE y == O!NewTrack(x)
  <2>1. Grounded(y, shown, from)
    BY <1>1, <1>2, NewIsGrounded
  <2> HIDE DEF y
  <2>2. /\ IsSeq(n) /\ Len(n) = Len(s) + 1 /\ n[Len(s) + 1] = y
        /\ \A m \in 1 .. Len(s) : n[m] = s[m]
    BY <1>3, <1>6, AppendSeq DEF y
  <2>3. ASSUME NEW m \in 1 .. Len(n) PROVE m \in 1 .. Len(s) \/ m = Len(s) + 1
    BY <1>3, <2>2
  <2>4. ASSUME NEW m \in 1 .. Len(n) PROVE Grounded(n[m], shown, from)
    BY <1>3, <2>1, <2>2, <2>3
  <2>5. ASSUME NEW m \in 1 .. Len(T), m \notin more
        PROVE  Waits(n[m], T[m].place, seen, origins)
    BY <1>3, <2>2, <2>5
  <2>6. Len(T) <= Len(n)
    BY <1>3, <2>2
  <2> QED  BY <2>2, <2>4, <2>5, <2>6 DEF Fine, n, shown, from, k
<1>7. CASE n = [m \in DOMAIN s |->
                  IF m \in rivals THEN O!Frozen(s[m], x) ELSE s[m]]
  <2>1. IsSeq(n) /\ Len(n) = Len(s)
    <3>1. n = [m \in 1 .. Len(s) |-> n[m]]
      BY <1>3, <1>7
    <3> QED  BY <1>3, <3>1, MapSeq
  <2>2. ASSUME NEW m \in 1 .. Len(s)
        PROVE  n[m] = s[m] \/ n[m] = O!Frozen(s[m], x)
    BY <1>3, <1>7
  <2>3. ASSUME NEW m \in 1 .. Len(n) PROVE Grounded(n[m], shown, from)
    BY <1>3, <2>1, <2>2, FrozenIsGrounded
  <2>4. ASSUME NEW m \in 1 .. Len(T), m \notin more
        PROVE  Waits(n[m], T[m].place, seen, origins)
    <3>1. m \in 1 .. Len(s) /\ Waits(s[m], T[m].place, seen, origins)
      BY <1>3, <2>4
    <3> QED  BY <2>2, <3>1, FrozenWaits
  <2>5. Len(T) <= Len(n)
    BY <1>3, <2>1
  <2> QED  BY <2>1, <2>3, <2>4, <2>5 DEF Fine, n, shown, from, k
<1>8. ASSUME NEW y, k # 0, n = [s EXCEPT ![k] = y], Grounded(y, shown, from)
      PROVE  Fine(n, T, more, shown, from)
  <2>1. k \in 1 .. Len(s)
    BY <1>3, <1>4, <1>8
  <2>2. /\ IsSeq(n) /\ Len(n) = Len(s) /\ n[k] = y
        /\ \A m \in 1 .. Len(s) : m # k => n[m] = s[m]
    BY <1>3, <1>8, <2>1, ExceptSeq
  <2>3. ASSUME NEW m \in 1 .. Len(n) PROVE Grounded(n[m], shown, from)
    BY <1>3, <1>8, <2>2
  <2>4. ASSUME NEW m \in 1 .. Len(T), m \notin more
        PROVE  Waits(n[m], T[m].place, seen, origins)
    <3>1. m \in 1 .. Len(s) /\ m # k
      BY <1>3, <2>4
    <3> QED  BY <1>3, <2>2, <2>4, <3>1
  <2>5. Len(T) <= Len(n)
    BY <1>3, <2>2
  <2> QED  BY <2>2, <2>3, <2>4, <2>5 DEF Fine
<1>9. CASE k # 0 /\ n = [s EXCEPT ![k] = O!Matched(s[k], x)]
  <2> DEFINE p == T[k].place
             ago == T[k].age
  <2>1. Waits(s[k], p, seen, origins)
    BY <1>3, <1>4, <1>9
  <2>2. O!Legal(x, [place |-> p, age |-> ago])
    BY <1>4, <1>9 DEF O!Legal, O!Distance
  <2> HIDE DEF p, ago
  <2>3. Grounded(O!Matched(s[k], x), shown, from)
    BY <1>1, <1>2, <2>1, <2>2, MatchedIsGrounded DEF ObstacleIInv
  <2> QED  BY <1>8, <1>9, <2>3 DEF n, shown, from, k
<1>10. CASE k # 0 /\ n = [s EXCEPT ![k] = O!Frozen(s[k], x)]
  <2>1. Grounded(O!Frozen(s[k], x), shown, from)
    BY <1>3, <1>4, <1>10, FrozenIsGrounded
  <2> QED  BY <1>8, <1>10, <2>1 DEF n, shown, from, k
<1>11. \/ k = 0 /\ n = Append(s, O!NewTrack(x))
       \/ n = [m \in DOMAIN s |->
                  IF m \in rivals THEN O!Frozen(s[m], x) ELSE s[m]]
       \/ k # 0 /\ n = [s EXCEPT ![k] = O!Matched(s[k], x)]
       \/ k # 0 /\ n = [s EXCEPT ![k] = O!Frozen(s[k], x)]
  BY <1>5
<1> QED  BY <1>6, <1>7, <1>9, <1>10, <1>11

LEMMA AppliedIsFine ==
    ASSUME ObstacleIInv, NEW obs \in ObstacleFrames,
           NEW f \in [DOMAIN obs -> {O!None} \union DOMAIN O!Aged],
           O!Pairing(O!Aged, obs, f)
    PROVE  Fine(O!Applied(O!Aged, obs, f), O!Aged,
                {f[j] : j \in 1 .. Len(obs)}, NowSeen(obs), NowOrigins(obs))
<1> DEFINE A == O!Aged
           shown == NowSeen(obs)
           from == NowOrigins(obs)
           Op(s, i) == O!Apply(s, i, A, obs, f)
           N == Len(obs)
           Eq(h, n) == h = [i \in 0 .. n |->
                              IF i = 0 THEN A ELSE Op(h[i - 1], i)]
           T == {n \in Nat : \E h : Eq(h, n)}
           after[i \in 0 .. N] == IF i = 0 THEN A ELSE Op(after[i - 1], i)
<1>1. N \in Nat /\ DOMAIN obs = 1 .. N
  BY ObstacleAssumption
<1>2. O!Applied(A, obs, f) = after[N]
  BY DEF O!Applied
<1>3. /\ IsSeq(A)
      /\ \A k \in 1 .. Len(A) : Waits(A[k], A[k].place, seen, origins)
  BY AgedWait
<1> HIDE DEF N, A
<1>4. Eq(after, N)
  <2>1. 0 \in T
    <3>1. Eq([i \in 0 .. 0 |-> A], 0)
      OBVIOUS
    <3> QED  BY <3>1
  <2>2. ASSUME NEW n \in Nat, n \in T PROVE n + 1 \in T
    <3>1. PICK h : Eq(h, n)
      BY <2>2
    <3> DEFINE e == [i \in 0 .. (n + 1) |-> IF i = n + 1
                                            THEN Op(h[n], n + 1) ELSE h[i]]
    <3> HIDE DEF Op
    <3>2. \A i \in 0 .. (n + 1) : e[i] = IF i = 0 THEN A
                                         ELSE Op(e[i - 1], i)
      BY <3>1
    <3>3. Eq(e, n + 1)
      BY <3>2
    <3>4. n + 1 \in Nat
      OBVIOUS
    <3> HIDE DEF Eq
    <3> QED  BY <3>3, <3>4
  <2>3. N \in T
    <3> HIDE DEF T
    <3> QED  BY <1>1, <2>1, <2>2, Induction
  <2>4. PICK h : Eq(h, N)
    BY <2>3
  <2>5. after = CHOOSE z : Eq(z, N)
    OBVIOUS
  <2> HIDE DEF Eq, after
  <2> QED  BY <2>4, <2>5
<1>5. /\ after[0] = A
      /\ \A i \in 1 .. N : after[i] = Op(after[i - 1], i)
  <2> HIDE DEF after, Op
  <2> QED  BY <1>1, <1>4
<1> HIDE DEF after
<1> DEFINE done(i) == {f[j] : j \in 1 .. i}
           fine(i) == Fine(after[i], A, done(i), shown, from)
           K == {i \in Nat : i \in 0 .. N => fine(i)}
<1>6. 0 \in K
  <2>1. \A k \in 1 .. Len(A) : Grounded(A[k], shown, from)
    BY <1>3, WaitingIsGrounded DEF NowOrigins
  <2>2. Len(A) <= Len(A)
    BY <1>3 DEF IsSeq
  <2>3. Fine(A, A, done(0), shown, from)
    BY <1>3, <2>1, <2>2 DEF Fine
  <2> QED  BY <1>5, <2>3
<1>7. ASSUME NEW i \in Nat, i \in K PROVE i + 1 \in K
  <2> SUFFICES ASSUME i + 1 \in 0 .. N PROVE fine(i + 1)
    OBVIOUS
  <2>1. fine(i) /\ i + 1 \in 1 .. N
    BY <1>1, <1>7
  <2>2. after[i + 1] = Op(after[i], i + 1)
    <3>1. after[i + 1] = Op(after[(i + 1) - 1], i + 1)
      <4> HIDE DEF Op
      <4> QED  BY <1>5, <2>1
    <3>2. (i + 1) - 1 = i
      OBVIOUS
    <3> HIDE DEF Op
    <3> QED  BY <3>1, <3>2
  <2>3. f[i + 1] \notin done(i) \/ f[i + 1] = O!None
    <3>1. ASSUME NEW j \in 1 .. i, f[i + 1] = f[j]
          PROVE  f[i + 1] = O!None
      <4>1. j \in DOMAIN obs /\ i + 1 \in DOMAIN obs /\ j # i + 1
        BY <1>1, <2>1
      <4> QED  BY <3>1, <4>1 DEF O!Pairing, A
    <3> QED  BY <3>1
  <2>4. done(i + 1) = done(i) \union {f[i + 1]}
    <3>1. 1 .. (i + 1) = 1 .. i \union {i + 1}
      OBVIOUS
    <3> QED  BY <3>1
  <2> DEFINE s == after[i]
             taken == done(i)
  <2>5. Fine(s, A, taken, shown, from)
    BY <2>1
  <2> HIDE DEF s, taken
  <2>6. i + 1 \in 1 .. Len(obs) /\ (f[i + 1] \notin taken \/ f[i + 1] = O!None)
    BY <2>1, <2>3 DEF N, taken
  <2>7. f \in [DOMAIN obs -> {O!None} \union DOMAIN A] /\ O!Pairing(A, obs, f)
    BY DEF A
  <2>8. Fine(Op(s, i + 1), A, taken \union {f[i + 1]}, shown, from)
    BY <1>3, <2>5, <2>6, <2>7, ApplyIsFine
  <2> HIDE DEF Op, done
  <2> QED  BY <2>2, <2>4, <2>8 DEF s, taken
<1>8. N \in K
  <2> HIDE DEF K
  <2> QED  BY <1>1, <1>6, <1>7, Induction
<1>9. Fine(after[N], A, done(N), shown, from)
  BY <1>1, <1>8
<1> HIDE DEF done
<1> QED  BY <1>2, <1>9 DEF A, N, done

-----------------------------------------------------------------------------
(* The decision, and the steps.                                            *)

LEMMA DecisionIsEarned ==
    ASSUME NEW T, NEW obs, NEW shown, NEW from,
           \A k \in DOMAIN T : Grounded(T[k], shown, from)
    PROVE  \A t \in O!Decision(T, obs).formal :
             /\ Len(shown) >= WarnFrames /\ t.auth \in from
             /\ \A i \in 1 .. WarnFrames :
                  \E o \in shown[i] : o.valid /\ o.auth = t.auth
                                      /\ O!Distance(o, t) <= i - 1
<1> SUFFICES ASSUME NEW t \in O!Decision(T, obs).formal
             PROVE  /\ Len(shown) >= WarnFrames /\ t.auth \in from
                    /\ \A i \in 1 .. WarnFrames :
                         \E o \in shown[i] : o.valid /\ o.auth = t.auth
                                             /\ O!Distance(o, t) <= i - 1
  OBVIOUS
<1>1. PICK k \in DOMAIN T : t = T[k] /\ O!FormalWarning(t)
  BY DEF O!Decision
<1>2. /\ t.observed /\ t.current.valid /\ t.valid >= WarnFrames
      /\ t.farHistory \/ t.certified
  BY <1>1 DEF O!FormalWarning
<1>3. Grounded(t, shown, from)
  BY <1>1
<1>4. Backed(t, t.valid, shown) /\ t.auth \in from /\ t.valid \in Nat
  BY <1>2, <1>3 DEF Grounded, Rooted, Track
<1>5. ASSUME NEW i \in 1 .. WarnFrames PROVE i \in 1 .. t.valid
  BY <1>2, <1>4, ObstacleAssumption
<1> QED  BY <1>2, <1>4, <1>5, ObstacleAssumption DEF Backed

LEMMA UpdateIsEarned == ObstacleIInv /\ O!Update => ObstacleIInv'
<1> SUFFICES ASSUME ObstacleIInv, O!Update PROVE ObstacleIInv'
  OBVIOUS
<1>0. PICK obs \in ObstacleFrames :
        \E f \in [DOMAIN obs -> {O!None} \union DOMAIN O!Aged] :
          /\ O!Pairing(O!Aged, obs, f)
          /\ tracks' = O!Applied(O!Aged, obs, f)
          /\ verdict' = O!Decision(tracks', obs)
          /\ seen' = NowSeen(obs) /\ origins' = NowOrigins(obs)
  BY DEF O!Update, NowSeen, NowOrigins
<1>1. PICK f \in [DOMAIN obs -> {O!None} \union DOMAIN O!Aged] :
        /\ O!Pairing(O!Aged, obs, f)
        /\ tracks' = O!Applied(O!Aged, obs, f)
        /\ verdict' = O!Decision(tracks', obs)
        /\ seen' = NowSeen(obs) /\ origins' = NowOrigins(obs)
  BY <1>0
<1>2. /\ IsSeq(tracks')
      /\ \A k \in 1 .. Len(tracks') : Grounded(tracks'[k], seen', origins')
  BY <1>1, AppliedIsFine DEF Fine
<1>3. IsSeq(seen') /\ \A i \in 1 .. Len(seen') : seen'[i] \subseteq Observations
  BY <1>1, FrameIsSeen
<1>4. DOMAIN tracks' = 1 .. Len(tracks')
  BY <1>2 DEF IsSeq
<1>5. WarningIsEarned'
  BY <1>1, <1>2, <1>4, DecisionIsEarned
     DEF WarningIsEarned, O!WarningIsEarned, O!Distance
<1> QED  BY <1>2, <1>3, <1>5 DEF ObstacleIInv, Grounded, Track, Backed, Rooted,
                                 O!Distance

LEMMA RollbackIsEarned == ObstacleIInv /\ O!Rollback => ObstacleIInv'
<1> SUFFICES ASSUME ObstacleIInv, O!Rollback PROVE ObstacleIInv'
  OBVIOUS
<1>1. PICK obs \in ObstacleFrames :
        /\ tracks' = [i \in DOMAIN obs |-> O!NewTrack(obs[i])]
        /\ verdict' = O!Decision(tracks', obs)
        /\ seen' = <<O!Shown(obs)>> /\ origins' = O!Origins(obs)
  BY DEF O!Rollback
<1>2. /\ IsSeq(seen') /\ Len(seen') = 1 /\ seen'[1] = O!Shown(obs)
      /\ O!Shown(obs) \subseteq Observations
  <2>1. O!Shown(obs) \subseteq Observations
    BY ObstacleAssumption DEF O!Shown
  <2>2. seen' \in Seq({O!Shown(obs)})
    BY <1>1
  <2> QED  BY <1>1, <2>1, <2>2 DEF IsSeq
<1>3. DOMAIN obs = 1 .. Len(obs) /\ Len(obs) \in Nat
  BY ObstacleAssumption
<1>4. IsSeq(tracks') /\ Len(tracks') = Len(obs)
  <2>1. tracks' = [i \in 1 .. Len(obs) |-> tracks'[i]]
    BY <1>1, <1>3
  <2> QED  BY <1>3, <2>1, MapSeq
<1>5. ASSUME NEW k \in 1 .. Len(tracks')
      PROVE  Grounded(tracks'[k], seen', origins')
  <2>1. tracks'[k] = O!NewTrack(obs[k]) /\ k \in 1 .. Len(obs)
    BY <1>1, <1>3, <1>4
  <2>2. /\ obs[k] \in Observations /\ obs[k] \in seen'[1]
        /\ obs[k].certified \/ obs[k].range = "far" => obs[k].auth \in origins'
    BY <1>1, <1>2, <2>1, FrameIsNoted
  <2>3. Len(seen') \in Nat \ {0}
    BY <1>2
  <2>4. Grounded(O!NewTrack(obs[k]), seen', origins')
    BY <2>2, <2>3, NewIsGrounded
  <2> QED  BY <2>1, <2>4
<1>6. \A i \in 1 .. Len(seen') : seen'[i] \subseteq Observations
  BY <1>2
<1>7. DOMAIN tracks' = 1 .. Len(tracks')
  BY <1>4 DEF IsSeq
<1>8. WarningIsEarned'
  BY <1>1, <1>5, <1>7, DecisionIsEarned
     DEF WarningIsEarned, O!WarningIsEarned, O!Distance
<1> QED  BY <1>2, <1>4, <1>5, <1>6, <1>8
         DEF ObstacleIInv, Grounded, Track, Backed, Rooted, O!Distance

\* The invariant behind the warnings: a track holds, for each of its last
\* validated frames, an observation of its own pose authority near enough to
\* be the same obstacle (CargoObstacleTracker::update).
THEOREM ObstacleInvariance == O!Spec => []ObstacleIInv
<1>1. ASSUME ObstacleIInv, [O!Next]_(O!vars) PROVE ObstacleIInv'
  <2>1. CASE O!Update
    BY <1>1, <2>1, UpdateIsEarned
  <2>2. CASE O!Rollback
    BY <1>1, <2>2, RollbackIsEarned
  <2>3. CASE O!Repeated
    BY <1>1, <2>3 DEF O!Repeated, O!NoVerdict, ObstacleIInv, WarningIsEarned,
       O!WarningIsEarned, O!Distance, Grounded, Track, Backed, Rooted
  <2>4. CASE UNCHANGED O!vars
    BY <1>1, <2>4 DEF O!vars, ObstacleIInv, WarningIsEarned,
       O!WarningIsEarned, O!Distance, Grounded, Track, Backed, Rooted
  <2> QED  BY <1>1, <2>1, <2>2, <2>3, <2>4 DEF O!Next
<1> QED  BY <1>1, ObstacleInit, PTL DEF O!Spec

\* A formal warning names an obstacle that every one of the last
\* confirm_frames frames showed, validated, under the present authority
\* (CargoObstacleTracker).
THEOREM WarningsEarned == O!Spec => []WarningIsEarned
<1>1. ObstacleIInv => WarningIsEarned
  BY DEF ObstacleIInv
<1> QED  BY <1>1, ObstacleInvariance, PTL

-----------------------------------------------------------------------------
(* OriginHeight: what is pending was measured in the EMPTY phase before    *)
(* the load that hangs.                                                    *)

HeightIInv ==
    /\ gravity = [y \in {"state", "age", "phase"} |-> gravity[y]]
    /\ frame = [y \in {"pc", "snap", "last", "lag"} |-> frame[y]]
    /\ gravity.age \in Nat /\ frame.lag \in Nat
    /\ heightSamples \in Seq([age : Nat, phase : {gravity.phase}])
    /\ heightPending = [y \in {"on", "age", "phase"} |-> heightPending[y]]
    /\ heightPending.on \in BOOLEAN /\ heightPending.age \in Nat
    /\ heightPending.on => /\ heightPending.phase = gravity.phase
                           /\ gravity.state # "EMPTY"

LEMMA HeightInit == H!Init => HeightIInv
<1> SUFFICES ASSUME H!Init PROVE HeightIInv
  OBVIOUS
<1>1. heightSamples \in Seq([age : Nat, phase : {gravity.phase}])
  BY DEF H!Init
<1>2. Timeout + 1 \in Nat
  BY HeightAssumption
<1> QED  BY <1>1, <1>2 DEF H!Init, H!NoPending, HeightIInv

\* The module's own reading of the size of a set.
LEMMA HeightCount == \A X : H!Cardinality(X) = Cardinality(X)
BY DEF H!Cardinality, Cardinality

\* The origin of an edge is of the phase that ends.
LEMMA EdgeIsOfThisPhase ==
    ASSUME HeightIInv, NEW steady \in BOOLEAN
    PROVE  LET e == H!Edge(steady) IN
           /\ e = [y \in {"on", "age", "phase"} |-> e[y]]
           /\ e.on \in BOOLEAN /\ e.age = 0
           /\ e.on => e.phase = gravity.phase
<1> DEFINE first == CHOOSE i \in H!Recent : \A j \in H!Recent : i <= j
           enough == H!Cardinality(H!Recent) >= Needed
<1>1. enough => heightSamples[first].phase = gravity.phase
  <2> SUFFICES ASSUME enough PROVE heightSamples[first].phase = gravity.phase
    OBVIOUS
  <2>1. H!Recent # {}
    BY HeightAssumption, HeightCount, FS_EmptySet
  <2>2. H!Recent \subseteq Nat /\ H!Recent \subseteq DOMAIN heightSamples
    BY DEF H!Recent, HeightIInv
  <2>3. \E i \in H!Recent : \A j \in H!Recent : i <= j
    BY <2>1, <2>2, Least
  <2>4. first \in DOMAIN heightSamples
    BY <2>2, <2>3
  <2> HIDE DEF first
  <2> DEFINE S == [age : Nat, phase : {gravity.phase}]
  <2>5. heightSamples \in Seq(S)
    BY DEF HeightIInv
  <2>6. heightSamples[first] \in S
    <3> HIDE DEF S
    <3> QED  BY <2>4, <2>5
  <2> QED  BY <2>6
<1>2. H!Edge(steady) = [on |-> enough /\ steady, age |-> 0,
                        phase |-> IF enough THEN heightSamples[first].phase
                                  ELSE 0]
  BY DEF H!Edge
<1>3. enough \in BOOLEAN
  OBVIOUS
<1> HIDE DEF enough, first
<1> QED  BY <1>1, <1>2, <1>3

LEMMA MessageKeepsOrigin ==
    ASSUME HeightIInv, NEW next \in {"EMPTY", "LOADED", "UNKNOWN"},
           NEW rollback \in BOOLEAN, NEW steady \in BOOLEAN,
           H!Message(next, rollback, steady)
    PROVE  HeightIInv'
<1>1. gravity' = [state |-> next, age |-> 0,
                  phase |-> IF next = "EMPTY" /\ gravity.state # "EMPTY"
                            THEN gravity.phase + 1 ELSE gravity.phase]
      /\ frame' = frame
  BY DEF H!Message
<1>2. /\ gravity' = [y \in {"state", "age", "phase"} |-> gravity'[y]]
      /\ gravity'.age \in Nat
  BY <1>1
<1>3. <<>> \in Seq([age : Nat, phase : {gravity'.phase}])
  OBVIOUS
<1>4. CASE gravity.state = "EMPTY" /\ next = "LOADED"
           /\ heightPending' = H!Edge(steady) /\ heightSamples' = <<>>
  BY <1>1, <1>2, <1>3, <1>4, EdgeIsOfThisPhase DEF HeightIInv
<1>5. CASE heightSamples' = <<>> /\ heightPending' = H!NoPending
  BY <1>1, <1>2, <1>3, <1>5 DEF H!NoPending, HeightIInv
<1>6. CASE /\ ~(gravity.state = "EMPTY" /\ next = "LOADED")
           /\ ~(gravity.state # "EMPTY" /\ next = "EMPTY")
           /\ UNCHANGED <<heightSamples, heightPending>>
  BY <1>1, <1>2, <1>6 DEF HeightIInv
<1> QED  BY <1>4, <1>5, <1>6 DEF H!Message, H!EnterEmpty

LEMMA FrameKeepsOrigin ==
    ASSUME HeightIInv,
           \/ \E lag \in 0 .. MaxLag : H!BeginFrame(lag)
           \/ H!HookEdge \/ H!PoseReset \/ H!LidarRollback
    PROVE  HeightIInv' /\ (track' = track \/ track'.origin = 0)
<1>1. CASE \E lag \in 0 .. MaxLag : H!BeginFrame(lag)
  <2>1. PICK lag \in 0 .. MaxLag : H!BeginFrame(lag)
    BY <1>1
  <2>2. lag \in Nat
    BY HeightAssumption
  <2>3. /\ frame' = [frame EXCEPT !.pc = "edge", !.snap = H!Snapshot,
                                  !.lag = lag]
        /\ UNCHANGED <<gravity, heightSamples, heightPending, track>>
    BY <2>1 DEF H!BeginFrame
  <2> QED  BY <2>2, <2>3 DEF HeightIInv
<1>2. CASE H!HookEdge
  <2>1. /\ frame' = [frame EXCEPT !.pc = "record", !.last = frame.snap]
        /\ gravity' = gravity /\ heightSamples' = heightSamples
    BY <1>2 DEF H!HookEdge
  <2>2. heightPending' \in {heightPending, H!NoPending}
        /\ track' \in {track, H!NoTrack}
    BY <1>2 DEF H!HookEdge, H!ResetCargo
  <2>3. /\ frame' = [y \in {"pc", "snap", "last", "lag"} |-> frame'[y]]
        /\ frame'.lag \in Nat
    BY <2>1 DEF HeightIInv
  <2>4. /\ heightPending' = [y \in {"on", "age", "phase"} |->
                               heightPending'[y]]
        /\ heightPending'.on \in BOOLEAN /\ heightPending'.age \in Nat
        /\ heightPending'.on => heightPending' = heightPending
    <3>1. CASE heightPending' = heightPending
      BY <3>1 DEF HeightIInv
    <3>2. CASE heightPending' = H!NoPending
      BY <3>2 DEF H!NoPending
    <3> QED  BY <2>2, <3>1, <3>2
  <2>5. track' = track \/ track'.origin = 0
    BY <2>2 DEF H!NoTrack
  <2> QED  BY <2>1, <2>3, <2>4, <2>5 DEF HeightIInv
<1>3. CASE H!PoseReset
  BY <1>3 DEF H!PoseReset, H!ResetCargo, H!NoPending, H!NoTrack, HeightIInv
<1>4. CASE H!LidarRollback
  <2>1. heightSamples' \in Seq([age : Nat, phase : {gravity'.phase}])
    BY <1>4 DEF H!LidarRollback
  <2> QED  BY <1>4, <2>1 DEF H!LidarRollback, H!NoPending, H!NoTrack, HeightIInv
<1> QED  BY <1>1, <1>2, <1>3, <1>4

LEMMA RecordingKeepsOrigin ==
    ASSUME HeightIInv, H!Recording
    PROVE  HeightIInv'
<1> DEFINE S == [age : Nat, phase : {gravity.phase}]
<1>1. heightSamples' \in Seq(S)
  <2>1. CASE UNCHANGED heightSamples
    BY <2>1 DEF HeightIInv
  <2>2. CASE H!Record
    <3> DEFINE x == [age |-> frame.lag, phase |-> gravity.phase]
    <3>1. x \in S
      BY DEF HeightIInv
    <3>2. PICK old \in {<<>>, heightSamples} :
             heightSamples' = H!Bounded(Append(old, x))
      BY <2>2 DEF H!Record
    <3> HIDE DEF x
    <3>3. heightSamples \in Seq(S)
      BY DEF HeightIInv
    <3> HIDE DEF S
    <3>4. <<>> \in Seq(S)
      OBVIOUS
    <3>5. old \in Seq(S)
      BY <3>2, <3>3, <3>4
    <3>6. Append(old, x) \in Seq(S) /\ Append(old, x) # <<>>
      BY <3>1, <3>5
    <3>7. Tail(Append(old, x)) \in Seq(S)
      BY <3>6
    <3> QED  BY <3>2, <3>6, <3>7 DEF H!Bounded
  <2> QED  BY <2>1, <2>2 DEF H!Recording
<1> QED  BY <1>1 DEF H!Recording, HeightIInv

LEMMA AttachKeepsOrigin ==
    ASSUME HeightIInv, NEW active \in BOOLEAN, NEW near \in BOOLEAN,
           H!Attach(active, near)
    PROVE  /\ HeightIInv'
           /\ track'.origin # 0 /\ track.origin = 0 =>
                track'.origin = gravity.phase /\ gravity.state # "EMPTY"
<1> DEFINE origin == IF track.on = active THEN track.origin ELSE 0
           action == IF active /\ origin = 0 THEN H!Binding(near) ELSE "none"
<1>1. /\ frame' = [frame EXCEPT !.pc = "idle", !.lag = 0]
      /\ track'.origin = IF action = "attach" THEN heightPending.phase
                         ELSE origin
      /\ heightPending' = IF action \in {"attach", "discard"}
                          THEN H!NoPending ELSE heightPending
      /\ gravity' = gravity /\ heightSamples' = heightSamples
  BY DEF H!Attach
<1>2. HeightIInv'
  BY <1>1 DEF H!NoPending, HeightIInv
<1>3. action = "attach" => heightPending.on
  BY DEF H!Binding
<1>4. track.origin = 0 => origin = 0
  OBVIOUS
<1> HIDE DEF action, origin
<1> QED  BY <1>1, <1>2, <1>3, <1>4 DEF HeightIInv

LEMMA TickKeepsOrigin ==
    ASSUME HeightIInv, H!Tick
    PROVE  HeightIInv'
<1> DEFINE S == [age : Nat, phase : {gravity.phase}]
           a == H!Older(gravity.age, Timeout + 1)
           p == H!Older(heightPending.age, MaxAge + MaxLag + 1)
<1>1. ASSUME NEW n \in Nat, NEW m \in Nat PROVE H!Older(n, m) \in Nat
  BY DEF H!Older
<1>2. a \in Nat /\ p \in Nat
  <2>1. Timeout + 1 \in Nat /\ MaxAge + MaxLag + 1 \in Nat
    BY HeightAssumption
  <2> QED  BY <1>1, <2>1 DEF HeightIInv
<1>3. /\ gravity' = [gravity EXCEPT !.age = a]
      /\ heightPending' \in {heightPending, [heightPending EXCEPT !.age = p]}
      /\ frame' = [frame EXCEPT !.lag = IF frame.pc = "idle" THEN 0 ELSE @ + 1]
  BY DEF H!Tick
<1> HIDE DEF a, p
<1>4. heightSamples' \in Seq(S)
  <2>1. /\ heightSamples \in Seq(S) /\ Len(heightSamples) \in Nat
        /\ DOMAIN heightSamples = 1 .. Len(heightSamples)
    BY DEF HeightIInv
  <2>2. heightSamples' = [i \in DOMAIN heightSamples |->
           [heightSamples[i] EXCEPT !.age = H!Older(@, MaxAge + 1)]]
    BY DEF H!Tick
  <2>3. ASSUME NEW i \in 1 .. Len(heightSamples)
        PROVE  heightSamples'[i] \in S
    <3>1. heightSamples[i] \in S
      <4> HIDE DEF S
      <4> QED  BY <2>1
    <3>2. H!Older(heightSamples[i].age, MaxAge + 1) \in Nat
      BY <1>1, <3>1, HeightAssumption
    <3> QED  BY <2>1, <2>2, <3>1, <3>2
  <2>4. heightSamples' = [i \in 1 .. Len(heightSamples) |-> heightSamples'[i]]
    BY <2>1, <2>2
  <2> HIDE DEF S
  <2>5. heightSamples' \in [1 .. Len(heightSamples) -> S]
    BY <2>3, <2>4
  <2> QED  BY <2>1, <2>5
<1>5. /\ gravity' = [y \in {"state", "age", "phase"} |-> gravity'[y]]
      /\ gravity'.age \in Nat /\ gravity'.phase = gravity.phase
      /\ gravity'.state = gravity.state
  BY <1>2, <1>3 DEF HeightIInv
<1>6. /\ heightPending' = [y \in {"on", "age", "phase"} |-> heightPending'[y]]
      /\ heightPending'.on = heightPending.on /\ heightPending'.age \in Nat
      /\ heightPending'.phase = heightPending.phase
  BY <1>2, <1>3 DEF HeightIInv
<1>7. /\ frame' = [y \in {"pc", "snap", "last", "lag"} |-> frame'[y]]
      /\ frame'.lag \in Nat
  <2>1. frame.lag + 1 \in Nat
    BY DEF HeightIInv
  <2> QED  BY <1>3, <2>1 DEF HeightIInv
<1> QED  BY <1>4, <1>5, <1>6, <1>7 DEF HeightIInv

\* A thickness that is attached to a track was measured in the EMPTY phase
\* right before the load that hangs now (recordEmptyHookOriginHeight,
\* hookLoadStateCallback).
LEMMA HeightIsOfThisLoad == H!Spec => H!OriginOfThisLoad
<1> DEFINE Own == track'.origin # 0 /\ track.origin = 0 =>
                    track'.origin = gravity.phase /\ gravity.state # "EMPTY"
<1>1. ASSUME HeightIInv, [H!Next]_(H!vars) PROVE HeightIInv' /\ [Own]_(H!vars)
  <2>1. CASE \E next \in {"EMPTY", "LOADED", "UNKNOWN"},
                rollback, steady \in BOOLEAN :
                H!Message(next, rollback, steady)
    BY <1>1, <2>1, MessageKeepsOrigin DEF H!Message
  <2>2. CASE \/ \E lag \in 0 .. MaxLag : H!BeginFrame(lag)
             \/ H!HookEdge \/ H!PoseReset \/ H!LidarRollback
    BY <1>1, <2>2, FrameKeepsOrigin
  <2>3. CASE H!Recording
    BY <1>1, <2>3, RecordingKeepsOrigin DEF H!Recording
  <2>4. CASE \E active, near \in BOOLEAN : H!Attach(active, near)
    BY <1>1, <2>4, AttachKeepsOrigin
  <2>5. CASE H!Tick
    BY <1>1, <2>5, TickKeepsOrigin DEF H!Tick
  <2>6. CASE UNCHANGED H!vars
    BY <1>1, <2>6 DEF H!vars, HeightIInv
  <2> QED  BY <1>1, <2>1, <2>2, <2>3, <2>4, <2>5, <2>6 DEF H!Next
<1> QED  BY <1>1, HeightInit, PTL DEF H!Spec, H!OriginOfThisLoad

-----------------------------------------------------------------------------
(* LiftOrigin: a bound component is older than the lifecycle.              *)

NodeFields == {"last", "latched", "init", "prev", "boundary", "window",
               "preload", "origin"}
BinderFields == DOMAIN L!Unbound
Older(b, n) == b.valid /\ b.source = "static" =>
                 b.id \in Approved \union n.boundary

LiftIInv ==
    /\ node = [y \in NodeFields |-> node[y]]
    /\ binder = [y \in BinderFields |-> binder[y]]
    /\ Older(binder, node)

LEMMA LiftInit == L!Init => LiftIInv
<1> SUFFICES ASSUME L!Init PROVE LiftIInv
  OBVIOUS
<1>1. node = [y \in NodeFields |-> node[y]]
  BY DEF L!Init, NodeFields
<1>2. binder = [y \in BinderFields |-> binder[y]] /\ ~binder.valid
  BY DEF L!Init, L!Unbound, BinderFields
<1> QED  BY <1>1, <1>2 DEF Older, LiftIInv

\* What the node has when the frame comes to the fusion.
LEMMA NodeOfFrame ==
    ASSUME NEW n, n = [y \in NodeFields |-> n[y]], NEW g
    PROVE  LET m == L!Presence(L!Edge(n, g), g)
               c == L!Cleared(m)
           IN /\ m = [y \in NodeFields |-> m[y]]
              /\ c = [y \in NodeFields |-> c[y]]
              /\ g = "LOADED" => m.latched
              /\ g = "EMPTY" => ~c.latched
              /\ g = "UNKNOWN" => m.boundary = n.boundary
<1> DEFINE e == L!Edge(n, g)
           m == L!Presence(e, g)
           c == L!Cleared(m)
<1>1. /\ e = [y \in NodeFields |-> e[y]]
      /\ g = "UNKNOWN" => e.boundary = n.boundary
  <2> DEFINE k == [n EXCEPT !.last = g]
  <2>1. k = [y \in NodeFields |-> k[y]] /\ k.boundary = n.boundary
    BY DEF NodeFields
  <2>2. \A keep \in BOOLEAN :
          L!ResetNode(k, keep) = [y \in NodeFields |-> L!ResetNode(k, keep)[y]]
    <3> HIDE DEF k
    <3> QED  BY <2>1 DEF L!ResetNode, NodeFields
  <2>3. /\ e \in {n, k, L!ResetNode(k, TRUE), L!ResetNode(k, FALSE)}
        /\ g = "UNKNOWN" => e \in {n, k}
    BY DEF L!Edge
  <2> HIDE DEF k, e
  <2> QED  BY <2>1, <2>2, <2>3
<1> HIDE DEF e
<1>2. /\ m = [y \in NodeFields |-> m[y]] /\ m.boundary = e.boundary
      /\ m.latched = (g = "LOADED" \/ (e.latched /\ g # "EMPTY"))
  BY <1>1 DEF L!Presence, NodeFields
<1> HIDE DEF m
<1>3. c = [y \in NodeFields |-> c[y]] /\ c.latched = m.latched
  BY <1>2 DEF L!Cleared, NodeFields
<1> HIDE DEF c
<1> QED  BY <1>1, <1>2, <1>3 DEF e, m, c

\* What the fusion does to the node, and the boundary it works with.
Fused(n, f, b) ==
    LET w == L!Watch(L!Lifecycle(n), f)
    IN [w EXCEPT !.origin = IF f.at = L!None THEN @
                            ELSE L!CopyBefore(w, f, b)]

LEMMA NodeOfFusion ==
    ASSUME NEW n, n = [y \in NodeFields |-> n[y]], NEW f, NEW b
    PROVE  LET o == Fused(n, f, b)
           IN /\ o = [y \in NodeFields |-> o[y]]
              /\ o.latched = n.latched
              /\ n.latched /\ ~L!Begins(n) => o.boundary = n.boundary
<1> DEFINE l == L!Lifecycle(n)
           w == L!Watch(l, f)
           o == Fused(n, f, b)
<1>1. /\ l = [y \in NodeFields |-> l[y]] /\ l.latched = n.latched
      /\ n.latched /\ ~L!Begins(n) => l.boundary = n.boundary
  BY DEF L!Lifecycle, NodeFields
<1> HIDE DEF l
<1>2. /\ w = [y \in NodeFields |-> w[y]] /\ w.latched = l.latched
      /\ w.boundary = l.boundary
  BY <1>1 DEF L!Watch, NodeFields
<1> HIDE DEF w
<1>3. o = [w EXCEPT !.origin = IF f.at = L!None THEN @
                               ELSE L!CopyBefore(w, f, b)]
  BY DEF Fused, w, l
<1>4. /\ o = [y \in NodeFields |-> o[y]] /\ o.latched = w.latched
      /\ o.boundary = w.boundary
  BY <1>2, <1>3 DEF NodeFields
<1> HIDE DEF o
<1> QED  BY <1>1, <1>2, <1>4 DEF l, w, o

\* What is bound is formal: it is approved, or older than the load.
LEMMA BindingIsFormal ==
    ASSUME NEW b, b = [y \in BinderFields |-> b[y]], NEW n, n.latched, NEW f,
           NEW c \in L!Binding(b, n, f)
    PROVE  c = [y \in BinderFields |-> c[y]] /\ Older(c, n)
<1>1. ASSUME NEW p \in L!Formal(n, f)
      PROVE  p \in Approved \union n.boundary
  BY DEF L!Formal, L!Predates
<1>2. ASSUME NEW src, NEW p
      PROVE  LET k == L!Bound(src, p) IN
             /\ k = [y \in BinderFields |-> k[y]]
             /\ k.source = src /\ k.id = p
  BY DEF L!Bound, L!Unbound, BinderFields
<1>3. ASSUME NEW p \in L!Formal(n, f), c = L!Bound("static", p)
      PROVE  c = [y \in BinderFields |-> c[y]] /\ Older(c, n)
  BY <1>1, <1>2, <1>3 DEF Older
<1>4. CASE c = b /\ L!Present(b, n, f)
  BY <1>1, <1>4 DEF L!Present, Older
<1>5. CASE c = L!Unbound
  BY <1>5 DEF L!Unbound, BinderFields, Older
<1>6. CASE c \in L!Choices(n, f)
  <2>1. CASE c = L!Bound(IF f.retired THEN "retired" ELSE "configured", L!None)
    BY <1>2, <2>1 DEF Older
  <2>2. CASE \E p \in L!Formal(n, f) : c = L!Bound("static", p)
    BY <1>3, <2>2
  <2> QED  BY <1>6, <2>1, <2>2 DEF L!Choices
<1>7. CASE \E p \in L!Formal(n, f) : c = L!Bound("static", p)
  BY <1>3, <1>7
<1> QED  BY <1>4, <1>5, <1>6, <1>7 DEF L!Binding

LEMMA UpdateIsOlder ==
    ASSUME NEW b, b = [y \in BinderFields |-> b[y]], NEW n, NEW f, NEW valid,
           NEW revealed, NEW c \in L!Update(b, n, f, valid, revealed)
    PROVE  c = [y \in BinderFields |-> c[y]] /\ Older(c, n)
<1> DEFINE g == L!Gap(b, f)
<1>1. g = [y \in BinderFields |-> g[y]]
  BY DEF L!Gap, L!Unbound, BinderFields
<1>2. CASE c = [g EXCEPT !.valid = FALSE]
  BY <1>1, <1>2 DEF L!Unbound, BinderFields, Older
<1>3. CASE c = L!Unbound
  BY <1>3 DEF L!Unbound, BinderFields, Older
<1>4. CASE n.latched /\ \E e \in L!Binding(g, n, f) :
                          c = L!Confirm(e, f, revealed)
  <2> HIDE DEF g
  <2>1. PICK e \in L!Binding(g, n, f) : c = L!Confirm(e, f, revealed)
    BY <1>4
  <2>2. e = [y \in BinderFields |-> e[y]] /\ Older(e, n)
    BY <1>1, <1>4, BindingIsFormal
  <2>3. /\ c = [y \in BinderFields |-> c[y]]
        /\ c.valid = e.valid /\ c.source = e.source /\ c.id = e.id
    BY <2>1, <2>2 DEF L!Confirm, L!Unbound, BinderFields
  <2> QED  BY <2>2, <2>3 DEF Older
<1> QED  BY <1>2, <1>3, <1>4 DEF L!Update

LEMMA FrameIsOlder ==
    ASSUME LiftIInv, NEW f, L!Frame(f)
    PROVE  LiftIInv'
<1> DEFINE m == L!Presence(L!Edge(node, f.gravity), f.gravity)
           n == L!Prepared(f)
           b == IF (f.gravity # node.last /\ f.gravity # "UNKNOWN")
                   \/ L!Begins(n)
                THEN L!Unbound ELSE binder
           o == Fused(n, f, b)
<1>1. /\ n = [y \in NodeFields |-> n[y]]
      /\ f.gravity = "UNKNOWN" => n.boundary = node.boundary
  <2>1. /\ m = [y \in NodeFields |-> m[y]]
        /\ L!Cleared(m) = [y \in NodeFields |-> L!Cleared(m)[y]]
        /\ f.gravity = "UNKNOWN" => m.boundary = node.boundary
    BY NodeOfFrame DEF LiftIInv
  <2>2. n = IF f.gravity = "EMPTY" THEN L!Cleared(m) ELSE m
    BY DEF L!Prepared
  <2> HIDE DEF m, n
  <2> QED  BY <2>1, <2>2
<1>2. b = [y \in BinderFields |-> b[y]]
  <2>1. L!Unbound = [y \in BinderFields |-> L!Unbound[y]]
    BY DEF L!Unbound, BinderFields
  <2> QED  BY <2>1 DEF LiftIInv
<1>3. o = [y \in NodeFields |-> o[y]]
  <2> HIDE DEF n, b
  <2> QED  BY <1>1, NodeOfFusion
<1>4. \/ node' = n /\ binder' = binder /\ f.gravity = "UNKNOWN"
      \/ /\ binder' \in L!Update(b, o, f, f.gravity # "UNKNOWN",
                                 L!Revealed(o, f))
         /\ node' = [o EXCEPT !.origin = L!Copy(o, f, binder')]
  BY DEF L!Frame, Fused
<1> HIDE DEF n, b, o
<1>5. CASE node' = n /\ binder' = binder /\ f.gravity = "UNKNOWN"
  BY <1>1, <1>5 DEF LiftIInv, Older
<1>6. CASE /\ binder' \in L!Update(b, o, f, f.gravity # "UNKNOWN",
                                   L!Revealed(o, f))
           /\ node' = [o EXCEPT !.origin = L!Copy(o, f, binder')]
  <2>1. binder' = [y \in BinderFields |-> binder'[y]] /\ Older(binder', o)
    BY <1>2, <1>6, UpdateIsOlder
  <2>2. node' = [y \in NodeFields |-> node'[y]] /\ node'.boundary = o.boundary
    BY <1>3, <1>6 DEF NodeFields
  <2> QED  BY <2>1, <2>2 DEF LiftIInv, Older
<1> QED  BY <1>4, <1>5, <1>6

\* No frame binds or keeps a static origin that is not older than the
\* lifecycle (CargoLiftOriginBinder, updateCargoLiftAndGeometryFusion).
LEMMA LiftPredatesLifecycle == L!Spec => L!OriginPredatesLifecycle
<1> DEFINE Own == binder'.valid /\ binder'.source = "static" =>
                    binder'.id \in Approved \union node'.boundary
<1>1. ASSUME LiftIInv, [L!Next]_(L!vars) PROVE LiftIInv'
  <2>1. CASE \E p \in Places : L!Mature(p)
    BY <1>1, <2>1 DEF L!Mature, LiftIInv, Older
  <2>2. CASE \E f \in LiftFrames : L!Frame(f)
    BY <1>1, <2>2, FrameIsOlder
  <2>3. CASE UNCHANGED L!vars
    BY <1>1, <2>3 DEF L!vars, LiftIInv, Older
  <2> QED  BY <1>1, <2>1, <2>2, <2>3 DEF L!Next
<1>2. LiftIInv' => [Own]_(L!vars)
  BY DEF LiftIInv, Older
<1> QED  BY <1>1, <1>2, LiftInit, PTL DEF L!Spec, L!OriginPredatesLifecycle

\* What a load is compared with is older than the load: the hook height of
\* its own EMPTY phase, and components that were mature before its lifecycle.
THEOREM OriginsPredate == H!Spec /\ L!Spec => OriginsPredateTheLoad
BY HeightIsOfThisLoad, LiftPredatesLifecycle DEF OriginsPredateTheLoad

-----------------------------------------------------------------------------
(* CargoBottom: what is pending was measured, and a cargo at rest is either*)
(* not yet through the first gate or on its way through the second.        *)

FusionFields ==
    {"track", "auth", "acc", "stable", "final", "pending", "known", "last"}
StableFields == {"on", "rel", "v", "age"}
PendingFields == {"source", "v", "count", "age"}

PendingJump(p) ==
    /\ p = [y \in PendingFields |-> p[y]]
    /\ p.v \in Int /\ p.count \in Nat /\ p.count < JumpFrames

BottomFusion(f) ==
    /\ f = [y \in FusionFields |-> f[y]]
    /\ f.stable = [y \in StableFields |-> f.stable[y]] /\ f.stable.v \in Int
    /\ f.final.v \in Int
    /\ PendingJump(f.pending) /\ (~f.final.on => f.pending.count = 0)
    /\ f.track = 0 => ~f.last.valid

LEMMA AdmittedTyped ==
    ASSUME NEW o \in BottomObservations
    PROVE  B!Admitted(o) \in BottomObservations
<1> DEFINE x == [o EXCEPT !.top = B!None, !.support = FALSE,
                          !.points = "none"]
           K == SUBSET Priors
<1>1. B!Admitted(o) \in {o, x}
  BY DEF B!Admitted
<1>2. B!None \in Int
  BY DEF B!None
<1>3. x \in BottomObservations
  <2> HIDE DEF K
  <2>1. BottomObservations =
          [dt : Nat, track : Nat, auth : Nat, top : Int, support : BOOLEAN,
           points : {"none", "weak", "strong"}, low : Int, priors : K,
           pose : Int]
    BY DEF BottomObservations, K
  <2> QED  BY <1>2, <2>1
<1> QED  BY <1>1, <1>3

LEMMA FormalTyped ==
    ASSUME NEW o \in BottomObservations, formal.z \in Int
    PROVE  B!FormalNext(o).z \in Int /\ B!Center(o) \in Int
<1>1. B!FormalNext(o).z \in {formal.z, o.top}
  BY DEF B!FormalNext, B!AgedFormal
<1>2. o.top \in Int /\ o.pose \in Int
  BY DEF BottomObservations
<1> QED  BY <1>1, <1>2 DEF B!Center

\* Time passes: the memories stay what they are.
SameMemory(f, g) ==
    /\ g.track = f.track /\ g.auth = f.auth /\ g.final = f.final
    /\ g.last = f.last /\ g.pending.source = f.pending.source
    /\ g.pending.v = f.pending.v /\ g.pending.count = f.pending.count

LEMMA AgedRemembers ==
    ASSUME NEW f, BottomFusion(f), NEW o, NEW acc
    PROVE  LET g == [B!Aged(f, o) EXCEPT !.acc = acc]
           IN BottomFusion(g) /\ SameMemory(f, g)
<1> DEFINE a == IF f.stable.on THEN B!Older(f.stable.age, o.dt, Hold + 1)
                ELSE 0
           b == B!Older(f.pending.age, o.dt, Hold + 1)
           s == [f.stable EXCEPT !.age = a]
           p == [f.pending EXCEPT !.age = b]
           h == [[f EXCEPT !.stable = s] EXCEPT !.pending = p]
           g == [h EXCEPT !.acc = acc]
<1>1. B!Aged(f, o) = h
  BY DEF B!Aged, BottomFusion, FusionFields, StableFields, PendingFields
<1> HIDE DEF a, b
<1>2. s = [y \in StableFields |-> s[y]] /\ s.v = f.stable.v
  BY DEF BottomFusion, StableFields
<1>3. /\ PendingJump(p) /\ p.source = f.pending.source
      /\ p.v = f.pending.v /\ p.count = f.pending.count
  BY DEF BottomFusion, PendingJump, PendingFields
<1> HIDE DEF s, p
<1>4. /\ g = [y \in FusionFields |-> g[y]]
      /\ g.stable = s /\ g.pending = p /\ g.final = f.final
      /\ g.track = f.track /\ g.auth = f.auth /\ g.last = f.last
  BY DEF BottomFusion, FusionFields
<1> HIDE DEF h, g
<1>5. BottomFusion(g) /\ SameMemory(f, g)
  BY <1>2, <1>3, <1>4 DEF BottomFusion, SameMemory
<1> QED  BY <1>1, <1>5 DEF g

\* A set of sources has a best one.
LEMMA BestExists ==
    ASSUME NEW K, K # {}
    PROVE  \E s \in K :
               \A t \in K : B!Priority(t.source) <= B!Priority(s.source)
<1> DEFINE d(s) == 6 - B!Priority(s.source)
           D == {d(s) : s \in K}
<1>1. \A x : B!Priority(x) \in 0 .. 6
  BY DEF B!Priority
<1>2. D \subseteq Nat /\ D # {}
  BY <1>1
<1>3. \E k \in D : \A n \in D : k <= n
  <2> HIDE DEF D
  <2> QED  BY <1>2, Least
<1>4. PICK s \in K : \A t \in K : d(s) <= d(t)
  BY <1>3
<1>5. \A t \in K : B!Priority(t.source) <= B!Priority(s.source)
  BY <1>1, <1>4
<1> QED  BY <1>5

\* What is selected is a source of the frame, or the last good bottom.
LEMMA SelectedIsSource ==
    ASSUME NEW f, BottomFusion(f), NEW o \in BottomObservations,
           B!Center(o) \in Int
    PROVE  LET s == B!Selected(f, o)
               views == B!FrameSources(f, o) IN
           \/ s.source = "INVALID"
           \/ s.source = "RECENT_STABLE" /\ s.z \in Int
           \/ /\ s \in views /\ s.z \in Int
              /\ s.source \notin {"INVALID", "RECENT_STABLE"}
              /\ \A t \in views : B!Priority(t.source) <= B!Priority(s.source)
<1> DEFINE views == B!FrameSources(f, o)
           s == B!Selected(f, o)
<1>1. ASSUME NEW x \in views
      PROVE  x.z \in Int /\ x.source \notin {"INVALID", "RECENT_STABLE"}
  <2>1. CASE x = [source |-> "POINTS", z |-> o.low]
    BY <2>1 DEF BottomObservations
  <2>2. CASE \E p \in o.priors : x = [source |-> p.source,
                                      z |-> o.top - p.thick]
    <3>1. PICK p \in o.priors : x = [source |-> p.source,
                                     z |-> o.top - p.thick]
      BY <2>2
    <3>2. p \in Priors /\ o.top \in Int
      BY DEF BottomObservations
    <3> QED  BY <3>1, <3>2 DEF Priors
  <2> QED  BY <2>1, <2>2 DEF B!FrameSources
<1> HIDE DEF views
<1>2. CASE views # {}
  <2> DEFINE c == CHOOSE y \in views :
                    \A t \in views :
                        B!Priority(t.source) <= B!Priority(y.source)
  <2>1. s = c
    BY <1>2 DEF B!Selected, views
  <2>2. c \in views
        /\ \A t \in views : B!Priority(t.source) <= B!Priority(c.source)
    BY <1>2, BestExists
  <2> HIDE DEF c
  <2> QED  BY <1>1, <2>1, <2>2 DEF views
<1>3. CASE views = {}
  <2>1. s \in {B!Held(f, o), B!NoSource}
    BY <1>3 DEF B!Selected, views
  <2>2. B!Held(f, o).source = "RECENT_STABLE" /\ B!Held(f, o).z \in Int
    BY DEF B!Held, BottomFusion
  <2>3. B!NoSource.source = "INVALID"
    BY DEF B!NoSource
  <2> QED  BY <2>1, <2>2, <2>3
<1> QED  BY <1>2, <1>3

-----------------------------------------------------------------------------
(* The output gate.                                                        *)

\* How many samples of s, this one included, ask for the jump.
Asking(f, s) ==
    IF B!SamePending(f, s) THEN f.pending.count + 1 ELSE 1

\* Taken near where it is measured, held back, or confirmed.
Calm(f, s, p, j) ==
    /\ ~j.held /\ B!Abs(j.z - s.z) <= Soft /\ j.z - p <= Soft
    /\ \/ j.pending.count = 0
       \/ /\ s.source = "RECENT_STABLE"
          /\ j.pending.count = f.pending.count
          /\ j.pending.source = f.pending.source
HeldBack(f, s, p, j) ==
    /\ j.held /\ j.z = p /\ B!Abs(s.z - p) > Soft
    /\ j.pending.source = s.source
    /\ j.pending.count = Asking(f, s)
    /\ j.pending.v = s.z \/ B!Absolute(s)
JumpConfirmed(f, s, j) ==
    /\ ~j.held /\ j.z = s.z /\ j.pending.count = 0
    /\ Asking(f, s) = JumpFrames

LEMMA Judgement ==
    ASSUME NEW f, BottomFusion(f), NEW s, s.z \in Int, NEW p \in Int
    PROVE  LET j == B!Judged(f, s, p) IN
           /\ j.z \in Int /\ PendingJump(j.pending)
           /\ \/ Calm(f, s, p, j) \/ HeldBack(f, s, p, j)
              \/ JumpConfirmed(f, s, j)
<1> DEFINE j == B!Judged(f, s, p)
           jump == B!Abs(s.z - p)
           pend == B!Counted(f, s)
           dropped == B!Dropped(f)
           un == B!Unpended(f)
<1>0. Soft \in Nat /\ JumpFrames \in Nat /\ JumpFrames >= 1
  BY BottomAssumption
<1>1. PendingJump(dropped) /\ dropped.count = 0
  BY <1>0 DEF B!Dropped, B!NoPending, PendingJump, PendingFields
<1>2. /\ PendingJump(un)
      /\ \/ un.count = 0
         \/ un.count = f.pending.count /\ un.source = f.pending.source
  BY <1>1 DEF B!Unpended, BottomFusion
<1>3. /\ pend = [y \in PendingFields |-> pend[y]]
      /\ pend.source = s.source /\ pend.count = Asking(f, s)
      /\ pend.v \in Int /\ (pend.v = s.z \/ B!Absolute(s))
      /\ Asking(f, s) \in Nat /\ Asking(f, s) <= JumpFrames
  <2>1. f.pending.v \in Int /\ f.pending.count \in Nat
        /\ f.pending.count < JumpFrames
    BY DEF BottomFusion, PendingJump
  <2>2. /\ pend.source = s.source /\ pend.count = Asking(f, s)
        /\ pend.v = IF B!SamePending(f, s) THEN f.pending.v ELSE s.z
    BY DEF B!Counted, Asking
  <2>3. B!SamePending(f, s) => B!Absolute(s) \/ f.pending.v = s.z
    BY DEF B!SamePending
  <2>4. Asking(f, s) \in Nat /\ Asking(f, s) <= JumpFrames
    BY <1>0, <2>1 DEF Asking
  <2>5. pend = [y \in PendingFields |-> pend[y]]
    BY DEF B!Counted, PendingFields
  <2> HIDE DEF pend
  <2> QED  BY <2>1, <2>2, <2>3, <2>4, <2>5
<1>4. B!Pending(f, s) = pend
  BY DEF B!Pending
<1>5. jump \in Nat /\ (jump = 0 => s.z = p)
  BY DEF B!Abs
<1> DEFINE after == [dropped EXCEPT !.age = pend.age]
<1>6. PendingJump(after) /\ after.count = 0
  <2> HIDE DEF dropped
  <2> QED  BY <1>1 DEF PendingJump, PendingFields
<1> HIDE DEF jump, pend, dropped, un, after
<1>7. CASE jump = 0
  <2>1. j = [z |-> s.z, held |-> FALSE,
             pending |-> IF s.source = "RECENT_STABLE" THEN un ELSE dropped]
    BY <1>7 DEF B!Judged, jump, un, dropped
  <2>2. B!Abs(s.z - s.z) = 0 /\ s.z - p = 0
    BY <1>5, <1>7 DEF B!Abs
  <2> HIDE DEF j
  <2>3. j.z = s.z /\ ~j.held /\ j.pending \in {un, dropped}
        /\ (s.source # "RECENT_STABLE" => j.pending = dropped)
    BY <2>1
  <2> QED  BY <1>0, <1>1, <1>2, <2>2, <2>3 DEF Calm, j
<1>8. CASE jump # 0 /\ jump <= Soft
  <2> DEFINE m == (s.z + p) \div 2
  <2>1. j = [z |-> m, held |-> FALSE, pending |-> dropped]
    BY <1>8 DEF B!Judged, jump, dropped
  <2>2. m \in Int /\ B!Abs(m - s.z) <= Soft /\ m - p <= Soft
    <3> DEFINE a == s.z
    <3>1. a \in Int /\ (a - p <= Soft /\ p - a <= Soft)
      BY <1>0, <1>8 DEF jump, B!Abs
    <3> HIDE DEF a
    <3>2. (a + p) \div 2 \in Int
          /\ (a + p) - 1 <= 2 * ((a + p) \div 2)
          /\ 2 * ((a + p) \div 2) <= a + p
      BY <3>1
    <3>3. m = (a + p) \div 2
      BY DEF a
    <3> HIDE DEF m
    <3>4. m - a <= Soft /\ a - m <= Soft /\ m - p <= Soft
      BY <1>0, <3>1, <3>2, <3>3
    <3> QED  BY <3>1, <3>2, <3>3, <3>4 DEF B!Abs, a
  <2> HIDE DEF j, m
  <2> QED  BY <1>1, <2>1, <2>2 DEF Calm, j
<1>9. CASE jump > Soft /\ B!Descends(s, p)
  <2>1. j = [z |-> s.z, held |-> FALSE, pending |-> dropped]
    BY <1>0, <1>5, <1>9 DEF B!Judged, jump, dropped
  <2>2. B!Abs(s.z - s.z) = 0 /\ s.z - p <= 0
    BY <1>9 DEF B!Abs, B!Descends
  <2> HIDE DEF j
  <2> QED  BY <1>0, <1>1, <2>1, <2>2 DEF Calm, j
<1>10. CASE jump > Soft /\ ~B!Descends(s, p) /\ pend.count < JumpFrames
  <2>1. j = [z |-> p, held |-> TRUE, pending |-> pend]
    BY <1>0, <1>4, <1>5, <1>10 DEF B!Judged, jump, pend
  <2> HIDE DEF j
  <2>2. PendingJump(pend)
    BY <1>3, <1>10 DEF PendingJump
  <2> QED  BY <1>3, <1>10, <2>1, <2>2 DEF HeldBack, jump, j
<1>11. CASE jump > Soft /\ ~B!Descends(s, p) /\ ~(pend.count < JumpFrames)
  <2> DEFINE v == IF B!Absolute(s) THEN s.z ELSE pend.v
  <2>1. j = [z |-> v, held |-> FALSE, pending |-> after]
    BY <1>0, <1>4, <1>5, <1>11 DEF B!Judged, jump, pend, dropped, after
  <2>2. v = s.z
    BY <1>3
  <2> HIDE DEF j, v
  <2>3. Asking(f, s) = JumpFrames
    BY <1>0, <1>3, <1>11
  <2> QED  BY <1>6, <2>1, <2>2, <2>3 DEF JumpConfirmed, j
<1> QED  BY <1>0, <1>5, <1>7, <1>8, <1>9, <1>10, <1>11 DEF j

-----------------------------------------------------------------------------
(* What a supported frame publishes.                                       *)

Place(final, c) == final.v + (IF final.rel THEN c ELSE 0)

Publishes(f, g, s, c, j) ==
    /\ BottomFusion(g) /\ g.track = f.track /\ g.auth = f.auth
    /\ g.final.on /\ g.last.valid /\ g.last.by = s.source
    /\ g.last.bottom = Place(g.final, c)
    /\ g.last.bottom = j.z /\ g.pending = j.pending
    /\ g.last.source = (IF j.held THEN f.final.source ELSE s.source)
    /\ g.last.from = (IF f.final.on THEN Place(f.final, c) ELSE B!None)

LEMMA FusedPublishes ==
    ASSUME NEW f, BottomFusion(f), f.track # 0, NEW o, B!Center(o) \in Int,
           NEW s, s.z \in Int
    PROVE  \E j :
             /\ Publishes(f, B!Fused(f, o, s), s, B!Center(o), j)
             /\ f.final.on =>
                  j = B!Judged(f, s, Place(f.final, B!Center(o)))
             /\ ~f.final.on =>
                  j = [z |-> s.z, held |-> FALSE, pending |-> f.pending]
<1> DEFINE c == B!Center(o)
           previous == Place(f.final, c)
           j == IF f.final.on THEN B!Judged(f, s, previous)
                ELSE [z |-> s.z, held |-> FALSE, pending |-> f.pending]
           rel == ~B!Absolute(s)
           source == IF j.held THEN f.final.source ELSE s.source
           base == IF rel THEN c ELSE 0
           fresh == source # "RECENT_STABLE" /\ ~j.held
           from == IF f.final.on THEN previous ELSE B!None
           age == IF fresh THEN 0 ELSE f.stable.age
           result == [valid |-> TRUE, source |-> source, bottom |-> j.z,
                      from |-> from, by |-> s.source, seen |-> s.z,
                      age |-> age]
           final == [on |-> TRUE, rel |-> rel, v |-> j.z - base,
                     source |-> source]
           new == [on |-> TRUE, rel |-> rel, v |-> j.z - base, age |-> 0]
           memory == IF fresh THEN new ELSE f.stable
           g == [f EXCEPT !.pending = j.pending, !.final = final,
                          !.stable = memory, !.known = TRUE,
                          !.last = result]
<1>1. B!Fused(f, o, s) = g
  BY DEF B!Fused, Place
<1>2. f.final.v \in Int /\ previous \in Int
  BY DEF BottomFusion, Place
<1>3. j.z \in Int /\ PendingJump(j.pending)
  <2>1. CASE f.final.on
    <3> HIDE DEF previous
    <3>1. j = B!Judged(f, s, previous)
      BY <2>1
    <3> HIDE DEF j
    <3> QED  BY <1>2, <3>1, Judgement
  <2>2. CASE ~f.final.on
    BY <2>2 DEF BottomFusion
  <2> QED  BY <2>1, <2>2
<1>4. base \in Int
  OBVIOUS
<1>5. /\ f.final.on => j = B!Judged(f, s, previous)
      /\ ~f.final.on =>
           j = [z |-> s.z, held |-> FALSE, pending |-> f.pending]
  OBVIOUS
<1> HIDE DEF j
<1>6. /\ final.on /\ final.v \in Int /\ final.rel = rel
      /\ final.v = j.z - base
  <2> HIDE DEF rel, source, base
  <2> QED  BY <1>3, <1>4
<1>7. Place(final, c) = j.z
  <2>1. final.v + base = j.z
    BY <1>3, <1>4, <1>6
  <2>2. base = IF final.rel THEN c ELSE 0
    <3> HIDE DEF final, rel
    <3> QED  BY <1>6
  <2> HIDE DEF final
  <2> QED  BY <2>1, <2>2 DEF Place
<1>8. memory = [y \in StableFields |-> memory[y]] /\ memory.v \in Int
  <2>1. new = [y \in StableFields |-> new[y]] /\ new.v \in Int
    <3> HIDE DEF rel, base
    <3> QED  BY <1>3, <1>4 DEF StableFields
  <2>2. memory \in {new, f.stable}
    OBVIOUS
  <2> HIDE DEF memory, new
  <2> QED  BY <2>1, <2>2 DEF BottomFusion
<1>9. /\ result.valid /\ result.source = source /\ result.bottom = j.z
      /\ result.from = from /\ result.by = s.source
  <2> HIDE DEF from, source, age
  <2> QED  OBVIOUS
<1> HIDE DEF result, final, memory, new
<1>10. /\ g = [y \in FusionFields |-> g[y]]
       /\ g.pending = j.pending /\ g.final = final /\ g.stable = memory
       /\ g.last = result /\ g.track = f.track /\ g.auth = f.auth
  BY DEF BottomFusion, FusionFields
<1> HIDE DEF g
<1>11. BottomFusion(g)
  BY <1>3, <1>6, <1>8, <1>10 DEF BottomFusion
<1>12. Publishes(f, g, s, c, j)
  <2> HIDE DEF previous, c
  <2> QED  BY <1>6, <1>7, <1>9, <1>10, <1>11 DEF Publishes, source, from,
              previous
<1> QED  BY <1>1, <1>5, <1>12

-----------------------------------------------------------------------------
(* One frame through the fusion.                                           *)

\* Nothing is asked for that was not asked for before.
Kept(f, g) ==
    \/ g.pending.count = 0
    \/ /\ g.pending.count = f.pending.count
       /\ g.pending.source = f.pending.source
\* The bottom has not risen to a measurement.
Quiet(l) ==
    \/ l.from = B!None \/ ~(l.bottom - l.from > Soft)
    \/ l.source = "RECENT_STABLE"
Lost(f, g) == ~g.last.valid /\ g.last.by = "INVALID" /\ Kept(f, g)
Bridged(f, g) ==
    /\ g.last.by = "RECENT_STABLE" /\ Quiet(g.last)
    /\ Kept(f, g) \/ g.pending.source = "RECENT_STABLE"
Samples(f, g, n) ==
    \/ n = 1
    \/ /\ f.pending.count > 0 /\ f.pending.source = g.last.by
       /\ n = f.pending.count + 1
Measured(f, g) ==
    /\ g.last.by \notin {"INVALID", "RECENT_STABLE"}
    /\ \E n \in 1 .. JumpFrames :
         /\ Samples(f, g, n)
         /\ \/ g.pending.count = 0
            \/ g.pending.count = n /\ g.pending.source = g.last.by
         /\ Quiet(g.last) \/ (n = JumpFrames /\ g.last.source = g.last.by)
Outcome(f, g) == Lost(f, g) \/ Bridged(f, g) \/ Measured(f, g)

LEMMA FusedOutcome ==
    ASSUME NEW f, BottomFusion(f), f.track # 0, NEW o, B!Center(o) \in Int,
           NEW s, s.z \in Int, s.source # "INVALID"
    PROVE  LET g == B!Fused(f, o, s) IN Bridged(f, g) \/ Measured(f, g)
<1> DEFINE g == B!Fused(f, o, s)
           p == Place(f.final, B!Center(o))
<1>1. PICK j : /\ Publishes(f, g, s, B!Center(o), j)
               /\ f.final.on => j = B!Judged(f, s, p)
               /\ ~f.final.on => j = [z |-> s.z, held |-> FALSE,
                                      pending |-> f.pending]
  BY FusedPublishes
<1>2. /\ g.last.by = s.source /\ g.last.bottom = j.z
      /\ g.pending = j.pending
      /\ g.last.source = (IF j.held THEN f.final.source ELSE s.source)
      /\ g.last.from = (IF f.final.on THEN p ELSE B!None)
  BY <1>1 DEF Publishes
<1>3. p \in Int
  BY DEF BottomFusion, Place
<1>4. JumpFrames \in Nat /\ JumpFrames >= 1 /\ Soft \in Nat
  BY BottomAssumption
<1>5. f.pending.count \in Nat /\ f.pending.count < JumpFrames
  BY DEF BottomFusion, PendingJump
<1> HIDE DEF g, p
<1>6. CASE ~f.final.on
  <2>1. Quiet(g.last) /\ g.pending.count = 0
    BY <1>1, <1>2, <1>6 DEF Quiet, BottomFusion
  <2>2. CASE s.source = "RECENT_STABLE"
    BY <1>2, <2>1, <2>2 DEF Bridged, Kept, g
  <2>3. CASE s.source # "RECENT_STABLE"
    <3>1. 1 \in 1 .. JumpFrames /\ Samples(f, g, 1)
      BY <1>4 DEF Samples
    <3> QED  BY <1>2, <2>1, <2>3, <3>1 DEF Measured, g
  <2> QED  BY <2>2, <2>3
<1>7. CASE f.final.on
  <2> DEFINE n == Asking(f, s)
  <2>1. Calm(f, s, p, j) \/ HeldBack(f, s, p, j) \/ JumpConfirmed(f, s, j)
    BY <1>1, <1>3, <1>7, Judgement
  <2>2. j.z \in Int
    BY <1>1, <1>3, <1>7, Judgement
  <2>3. n \in 1 .. JumpFrames /\ Samples(f, g, n)
    <3>1. CASE B!SamePending(f, s)
      BY <1>2, <1>4, <1>5, <3>1 DEF Asking, Samples, B!SamePending
    <3>2. CASE ~B!SamePending(f, s)
      BY <1>4, <3>2 DEF Asking, Samples
    <3> QED  BY <3>1, <3>2
  <2> HIDE DEF n
  <2>4. CASE Calm(f, s, p, j)
    <3>1. Quiet(g.last)
      <4>1. ~(j.z - p > Soft)
        BY <1>3, <1>4, <2>2, <2>4 DEF Calm
      <4> QED  BY <1>2, <1>7, <4>1 DEF Quiet
    <3>2. CASE s.source = "RECENT_STABLE"
      BY <1>2, <2>4, <3>1, <3>2 DEF Bridged, Kept, Calm, g
    <3>3. CASE s.source # "RECENT_STABLE"
      <4>1. g.pending.count = 0
        BY <1>2, <2>4, <3>3 DEF Calm
      <4> QED  BY <1>2, <2>3, <3>1, <3>3, <4>1 DEF Measured, g
    <3> QED  BY <3>2, <3>3
  <2>5. CASE HeldBack(f, s, p, j)
    <3>1. Quiet(g.last)
      <4>1. g.last.bottom = p /\ g.last.from = p
        BY <1>2, <1>7, <2>5 DEF HeldBack
      <4>2. ~(p - p > Soft)
        BY <1>3, <1>4
      <4> QED  BY <4>1, <4>2 DEF Quiet
    <3>2. g.pending.count = n /\ g.pending.source = s.source
      BY <1>2, <2>5 DEF HeldBack, n
    <3> QED  BY <1>2, <2>3, <3>1, <3>2 DEF Bridged, Measured, g
  <2>6. CASE JumpConfirmed(f, s, j)
    <3>1. g.pending.count = 0 /\ n = JumpFrames /\ g.last.source = s.source
      BY <1>2, <2>6 DEF JumpConfirmed, n
    <3> QED  BY <1>2, <2>3, <3>1 DEF Bridged, Measured, Kept, Quiet, g
  <2> QED  BY <2>1, <2>4, <2>5, <2>6
<1> QED  BY <1>6, <1>7

LEMMA ProcessOutcome ==
    ASSUME NEW f, BottomFusion(f), f.track # 0,
           NEW o \in BottomObservations, B!Center(o) \in Int
    PROVE  LET g == B!Process(f, o) IN
           /\ BottomFusion(g) /\ g.track = f.track /\ g.track # 0
           /\ Outcome(f, g)
<1> DEFINE acc == B!Accumulated(f, o)
           h == [B!Aged(f, o) EXCEPT !.acc = acc]
           s == B!Selected(h, o)
           g == B!Process(f, o)
<1>1. BottomFusion(h) /\ SameMemory(f, h) /\ h.track # 0
  BY AgedRemembers DEF SameMemory
<1>2. g = IF s.source = "INVALID" THEN B!Unsupported(h) ELSE B!Fused(h, o, s)
  BY DEF B!Process
<1> HIDE DEF h, s, g
<1>3. CASE s.source = "INVALID"
  <2> DEFINE p == B!Unpended(h)
             u == [h EXCEPT !.pending = p, !.known = TRUE,
                            !.last = B!NoResult]
  <2>1. g = u
    BY <1>2, <1>3 DEF B!Unsupported
  <2>2. /\ PendingJump(p)
        /\ \/ p.count = 0
           \/ p.count = h.pending.count /\ p.source = h.pending.source
    <3>1. PendingJump(B!Dropped(h)) /\ B!Dropped(h).count = 0
      BY BottomAssumption
      DEF B!Dropped, B!NoPending, PendingJump, PendingFields
    <3> QED  BY <1>1, <3>1 DEF B!Unpended, BottomFusion
  <2> HIDE DEF p
  <2>3. /\ u = [y \in FusionFields |-> u[y]]
        /\ u.pending = p /\ u.final = h.final /\ u.stable = h.stable
        /\ u.last = B!NoResult /\ u.track = h.track
    BY <1>1 DEF BottomFusion, FusionFields
  <2> HIDE DEF u
  <2>4. ~B!NoResult.valid /\ B!NoResult.by = "INVALID"
    BY DEF B!NoResult
  <2>5. BottomFusion(u)
    <3>1. ~h.final.on => p.count = 0
      BY <1>1, <2>2 DEF BottomFusion
    <3> QED  BY <1>1, <2>2, <2>3, <2>4, <3>1 DEF BottomFusion
  <2>6. Lost(f, u)
    BY <1>1, <2>2, <2>3, <2>4 DEF Lost, Kept, SameMemory
  <2> QED  BY <1>1, <2>1, <2>3, <2>5, <2>6 DEF Outcome, SameMemory, g
<1>4. CASE s.source # "INVALID"
  <2>1. g = B!Fused(h, o, s) /\ s.z \in Int
    BY <1>1, <1>2, <1>4, SelectedIsSource DEF s
  <2>2. BottomFusion(g) /\ g.track = h.track
    BY <1>1, <2>1, FusedPublishes DEF Publishes
  <2>3. Bridged(h, g) \/ Measured(h, g)
    BY <1>1, <1>4, <2>1, FusedOutcome
  <2>4. Bridged(f, g) \/ Measured(f, g)
    BY <1>1, <2>3 DEF Bridged, Measured, Samples, Kept, SameMemory
  <2> QED  BY <1>1, <2>2, <2>4 DEF Outcome, SameMemory, g
<1> QED  BY <1>3, <1>4

LEMMA NewIsFusion ==
    ASSUME NEW t, NEW a
    PROVE  LET f == B!NewFusion(t, a) IN
           /\ BottomFusion(f) /\ f.track = t /\ f.auth = a
           /\ f.pending.count = 0 /\ ~f.last.valid
           /\ f.last.by = "INVALID" /\ ~f.final.on
<1> DEFINE f == B!NewFusion(t, a)
<1>1. /\ f = [y \in FusionFields |-> f[y]]
      /\ f.stable = B!NoStable /\ f.final = B!NoFinal
      /\ f.pending = B!NoPending /\ f.last = B!NoResult
      /\ f.track = t /\ f.auth = a
  BY DEF B!NewFusion, FusionFields
<1> HIDE DEF f
<1>2. PendingJump(B!NoPending) /\ B!NoPending.count = 0
  BY BottomAssumption DEF B!NoPending, PendingJump, PendingFields
<1>3. /\ ~B!NoResult.valid /\ B!NoResult.by = "INVALID"
      /\ B!NoStable = [y \in StableFields |-> B!NoStable[y]]
      /\ B!NoStable.v \in Int /\ B!NoFinal.v \in Int /\ ~B!NoFinal.on
  BY DEF B!NoResult, B!NoStable, B!NoFinal, StableFields
<1>4. BottomFusion(f)
  BY <1>1, <1>2, <1>3 DEF BottomFusion
<1> QED  BY <1>1, <1>2, <1>3, <1>4 DEF f

\* A frame starts the fusion anew, leaves it, or goes through it.
LEMMA FusionOutcome ==
    ASSUME NEW f, BottomFusion(f), NEW o \in BottomObservations,
           B!Center(o) \in Int
    PROVE  LET g == B!FusionNext(f, o) IN
           /\ BottomFusion(g)
           /\ \/ g.track = 0 /\ ~g.last.valid /\ g.pending.count = 0
              \/ g.track # 0 /\ g.track # f.track
                 /\ Outcome(B!NewFusion(g.track, o.auth), g)
              \/ g.track # 0 /\ g.track = f.track
                 /\ (g = f \/ Outcome(f, g))
<1> DEFINE g == B!FusionNext(f, o)
<1>1. CASE o.track = 0
  <2>1. g = B!NewFusion(0, 0)
    BY <1>1 DEF B!FusionNext
  <2> QED  BY <2>1, NewIsFusion
<1>2. CASE o.track # 0 /\ f.track # o.track
  <2> DEFINE n == B!NewFusion(o.track, o.auth)
  <2>1. g = B!Process(n, o)
    BY <1>2 DEF B!FusionNext
  <2>2. BottomFusion(n) /\ n.track = o.track
    BY NewIsFusion
  <2> HIDE DEF n, g
  <2>3. BottomFusion(g) /\ g.track = o.track /\ Outcome(n, g)
    BY <1>2, <2>1, <2>2, ProcessOutcome
  <2> QED  BY <1>2, <2>3 DEF n, g
<1>3. CASE o.track # 0 /\ f.track = o.track
  <2>1. CASE g = f
    BY <1>3, <2>1
  <2>2. CASE g = B!Process(f, o)
    BY <1>3, <2>2, ProcessOutcome
  <2>3. CASE g = B!Process([f EXCEPT !.auth = o.auth, !.acc = {}], o)
    <3> DEFINE n == [f EXCEPT !.auth = o.auth, !.acc = {}]
    <3>1. /\ n = [y \in FusionFields |-> n[y]]
          /\ n.stable = f.stable /\ n.final = f.final
          /\ n.pending = f.pending /\ n.last = f.last /\ n.track = f.track
      BY DEF BottomFusion, FusionFields
    <3> HIDE DEF n, g
    <3>2. BottomFusion(n)
      BY <3>1 DEF BottomFusion
    <3>3. BottomFusion(g) /\ g.track = n.track /\ Outcome(n, g)
      BY <1>3, <2>3, <3>1, <3>2, ProcessOutcome DEF n
    <3>4. Outcome(f, g)
      BY <3>1, <3>3 DEF Outcome, Lost, Bridged, Measured, Samples, Kept
    <3> QED  BY <1>3, <3>1, <3>3, <3>4 DEF g
  <2>4. CASE g = [B!NewFusion(f.track, f.auth) EXCEPT !.known = TRUE]
    <3> DEFINE n == B!NewFusion(f.track, f.auth)
               e == [n EXCEPT !.known = TRUE]
    <3>1. BottomFusion(n) /\ n.track = f.track /\ n.pending.count = 0
          /\ ~n.last.valid /\ n.last.by = "INVALID"
      BY NewIsFusion
    <3> HIDE DEF n
    <3>2. /\ e = [y \in FusionFields |-> e[y]]
          /\ e.stable = n.stable /\ e.final = n.final
          /\ e.pending = n.pending /\ e.last = n.last /\ e.track = n.track
      BY <3>1 DEF BottomFusion, FusionFields
    <3>3. g = e
      BY <2>4 DEF n
    <3> HIDE DEF e, g
    <3>4. BottomFusion(g)
      BY <3>1, <3>2, <3>3 DEF BottomFusion
    <3>5. Outcome(f, g)
      BY <3>1, <3>2, <3>3 DEF Outcome, Lost, Kept
    <3> QED  BY <1>3, <3>1, <3>2, <3>3, <3>4, <3>5 DEF g
  <2> QED  BY <1>3, <2>1, <2>2, <2>3, <2>4 DEF B!FusionNext
<1> QED  BY <1>1, <1>2, <1>3

-----------------------------------------------------------------------------
(* The measurements behind a pending jump.                                 *)

LEMMA TailSeq ==
    ASSUME NEW q, IsSeq(q), Len(q) > 0
    PROVE  /\ IsSeq(Tail(q)) /\ Len(Tail(q)) = Len(q) - 1
           /\ \A i \in 1 .. (Len(q) - 1) : Tail(q)[i] = q[i + 1]
<1>1. PICK D : q \in Seq(D)
  BY DEF IsSeq
<1>2. q # <<>>
  OBVIOUS
<1>3. Tail(q) \in Seq(D) /\ Len(Tail(q)) = Len(q) - 1
  BY <1>1, <1>2
<1>4. \A i \in 1 .. (Len(q) - 1) : Tail(q)[i] = q[i + 1]
  BY <1>1, <1>2
<1> QED  BY <1>3, <1>4 DEF IsSeq

\* The last n of q are measurements of x.
Ends(q, n, x) ==
    n <= Len(q) /\ \A i \in 1 .. Len(q) : i > Len(q) - n => q[i] = x

Streak(f, q) ==
    /\ IsSeq(q) /\ Len(q) <= JumpFrames
    /\ \/ f.pending.count = 0 \/ f.pending.source = "RECENT_STABLE"
       \/ Ends(q, f.pending.count, f.pending.source)

\* The last JumpFrames measurements, x the latest.
Extended(q, x) == Append(IF Len(q) < JumpFrames THEN q ELSE Tail(q), x)

LEMMA StreakGrows ==
    ASSUME NEW f, BottomFusion(f), NEW g, NEW q, Streak(f, q), Measured(f, g)
    PROVE  LET r == Extended(q, g.last.by) IN
           /\ Streak(g, r)
           /\ \/ Quiet(g.last)
              \/ Len(r) = JumpFrames
                 /\ \A i \in DOMAIN r : r[i] = g.last.source
<1> DEFINE x == g.last.by
           past == IF Len(q) < JumpFrames THEN q ELSE Tail(q)
           r == Append(past, x)
           len == Len(q)
           d == IF Len(q) < JumpFrames THEN 0 ELSE 1
<1>1. PICK n \in 1 .. JumpFrames :
        /\ Samples(f, g, n)
        /\ \/ g.pending.count = 0
           \/ g.pending.count = n /\ g.pending.source = x
        /\ Quiet(g.last) \/ (n = JumpFrames /\ g.last.source = x)
  BY DEF Measured
<1>2. /\ JumpFrames \in Nat /\ JumpFrames >= 1 /\ len \in Nat
      /\ len <= JumpFrames /\ f.pending.count \in Nat
  BY BottomAssumption DEF Streak, IsSeq, BottomFusion, PendingJump
<1>3. /\ IsSeq(past) /\ Len(past) = len - d /\ d \in {0, 1}
      /\ len - d \in Nat /\ len - d < JumpFrames
      /\ \A i \in 1 .. (len - d) : past[i] = q[i + d]
  <2>1. CASE len < JumpFrames
    <3>1. past = q /\ d = 0
      BY <2>1
    <3> QED  BY <1>2, <2>1, <3>1 DEF Streak
  <2>2. CASE ~(len < JumpFrames)
    <3>1. past = Tail(q) /\ d = 1 /\ len = JumpFrames
      BY <1>2, <2>2
    <3>2. IsSeq(q) /\ Len(q) > 0
      BY <1>2, <3>1 DEF Streak
    <3>3. /\ IsSeq(Tail(q)) /\ Len(Tail(q)) = Len(q) - 1
          /\ \A i \in 1 .. (Len(q) - 1) : Tail(q)[i] = q[i + 1]
      BY <3>2, TailSeq
    <3> HIDE DEF past, d
    <3> QED  BY <1>2, <3>1, <3>3
  <2> QED  BY <2>1, <2>2
<1> HIDE DEF past, d, x
<1>4. /\ IsSeq(r) /\ Len(r) = len - d + 1 /\ r[len - d + 1] = x
      /\ \A i \in 1 .. (len - d) : r[i] = q[i + d]
      /\ DOMAIN r = 1 .. (len - d + 1)
  BY <1>3, AppendSeq
<1> HIDE DEF r
<1>5. Ends(r, n, x)
  <2>1. CASE n = 1
    <3>1. ASSUME NEW i \in 1 .. (len - d + 1), i > (len - d + 1) - 1
          PROVE  r[i] = x
      <4>1. i = len - d + 1
        BY <1>2, <1>3, <3>1
      <4> QED  BY <1>4, <4>1
    <3> QED  BY <1>2, <1>3, <1>4, <2>1, <3>1 DEF Ends
  <2>2. CASE f.pending.count > 0 /\ f.pending.source = x
             /\ n = f.pending.count + 1
    <3> DEFINE k == f.pending.count
    <3>1. x # "RECENT_STABLE"
      BY DEF Measured, x
    <3>2. k <= len /\ \A i \in 1 .. len : i > len - k => q[i] = x
      BY <2>2, <3>1 DEF Streak, Ends
    <3>3. k \in Nat /\ n = k + 1 /\ n <= JumpFrames
      BY <1>2, <2>2
    <3> HIDE DEF k
    <3>4. n <= len - d + 1
      BY <1>2, <1>3, <3>2, <3>3 DEF d
    <3>5. ASSUME NEW i \in 1 .. (len - d + 1), i > (len - d + 1) - n
          PROVE  r[i] = x
      <4>1. CASE i = len - d + 1
        BY <1>4, <4>1
      <4>2. CASE i # len - d + 1
        <5>1. i \in 1 .. (len - d) /\ i + d \in 1 .. len /\ i + d > len - k
          BY <1>2, <1>3, <3>3, <3>5, <4>2
        <5> QED  BY <1>4, <3>2, <5>1
      <4> QED  BY <4>1, <4>2
    <3> QED  BY <1>4, <3>4, <3>5 DEF Ends
  <2> QED  BY <1>1, <2>1, <2>2 DEF Samples, x
<1>6. Len(r) <= JumpFrames
  BY <1>2, <1>3, <1>4
<1>7. Streak(g, r)
  BY <1>1, <1>4, <1>5, <1>6 DEF Streak
<1>8. ASSUME n = JumpFrames, g.last.source = x
      PROVE  Len(r) = JumpFrames /\ \A i \in DOMAIN r : r[i] = g.last.source
  <2>1. Len(r) = JumpFrames /\ DOMAIN r = 1 .. Len(r)
    BY <1>2, <1>3, <1>4, <1>5, <1>6, <1>8 DEF Ends
  <2>2. \A i \in 1 .. Len(r) : i > Len(r) - n
    BY <1>2, <1>8, <2>1
  <2> QED  BY <1>5, <1>8, <2>1, <2>2 DEF Ends
<1>9. Extended(q, x) = r
  BY DEF Extended, r, past
<1> QED  BY <1>1, <1>7, <1>8, <1>9 DEF x

-----------------------------------------------------------------------------
(* A cargo at rest.                                                        *)

\* Still kept out by the first gate, which forgets after TopGap ticks.
Waiting(o) ==
    /\ formal.track = o.track
    /\ log.rest <= formal.age /\ formal.age <= TopGap

\* Through the first gate: the bottom is where it should be, or the frames
\* that ask for it are counted.
Near(o, p) ==
    B!Abs(Place(bottomFusion.final, o.top) - (o.top - p.thick)) <= Soft
Counting(p, o) ==
    /\ bottomFusion.pending.count > 0
    /\ bottomFusion.pending.source = p.source
    /\ p.source = "FROZEN" \/ bottomFusion.pending.v = o.top - p.thick
    /\ log.rest - TopGap <= bottomFusion.pending.count
Settling(o, p) ==
    /\ bottomFusion.track = o.track /\ bottomFusion.final.on
    /\ bottomFusion.last.valid
    /\ bottomFusion.last.bottom = Place(bottomFusion.final, o.top)
    /\ Near(o, p) \/ Counting(p, o)
Through(o) ==
    /\ formal.track = o.track /\ formal.z = o.top /\ formal.age = 0
    /\ log.rest > 0 =>
         \A p \in o.priors : B!Best(p, o.priors) => Settling(o, p)

Resting ==
    B!Supported(log.frame) => Waiting(log.frame) \/ Through(log.frame)

\* The best prior is what a supported frame is measured by.
LEMMA SelectedIsBest ==
    ASSUME NEW f, BottomFusion(f), NEW o \in BottomFrames, B!Supported(o),
           B!Center(o) \in Int, NEW p \in o.priors, B!Best(p, o.priors)
    PROVE  LET s == B!Selected(f, o) IN
           s.source = p.source /\ s.z = o.top - p.thick /\ s.z \in Int
<1> DEFINE s == B!Selected(f, o)
           views == B!FrameSources(f, o)
           of(q) == [source |-> q.source, z |-> o.top - q.thick]
<1>1. /\ o \in BottomObservations /\ o.priors \subseteq Priors
      /\ \A q \in o.priors : q.source = p.source => q = p
  BY BottomAssumption DEF BottomObservations
<1>2. o.top # B!None /\ o.support /\ o.top \in Int
  BY <1>1 DEF B!Supported, BottomObservations
<1>3. \A q \in o.priors : of(q) \in views
  BY <1>2 DEF B!FrameSources
<1>4. s \in views
      /\ \A t \in views : B!Priority(t.source) <= B!Priority(s.source)
  <2>1. views # {}
    BY <1>3
  <2> DEFINE c == CHOOSE y \in views :
                    \A t \in views :
                        B!Priority(t.source) <= B!Priority(y.source)
  <2>2. s = c
    BY <2>1 DEF B!Selected
  <2>3. c \in views
        /\ \A t \in views : B!Priority(t.source) <= B!Priority(c.source)
    <3> HIDE DEF views
    <3> QED  BY <2>1, BestExists
  <2> HIDE DEF s, c, views
  <2> QED  BY <2>2, <2>3
<1>5. s.source = "POINTS" \/ \E q \in o.priors : s = of(q)
  <2> HIDE DEF s
  <2> QED  BY <1>4 DEF B!FrameSources
<1>6. B!Priority(p.source) <= B!Priority(s.source)
  BY <1>3, <1>4
<1>7. PICK z \in o.priors : z.source = "FROZEN"
  BY DEF B!Supported
<1>8. B!Priority("FROZEN") <= B!Priority(p.source)
  BY <1>7 DEF B!Best
<1>9. /\ B!Priority("FROZEN") = 5 /\ B!Priority("POINTS") = 3
      /\ \A x : B!Priority(x) \in 0 .. 6
  BY DEF B!Priority
<1> HIDE DEF s, views
<1>10. PICK q \in o.priors : s = of(q)
  BY <1>5, <1>6, <1>8, <1>9
<1>11. B!Priority(q.source) = B!Priority(p.source)
  BY <1>6, <1>9, <1>10 DEF B!Best
<1>12. q.source = p.source
  <2>1. /\ q.source \in {"FROZEN", "MAP_DIFF", "MAP_STATIC", "ORIGIN"}
        /\ p.source \in {"FROZEN", "MAP_DIFF", "MAP_STATIC", "ORIGIN"}
    BY <1>1 DEF Priors
  <2> QED  BY <1>11, <2>1 DEF B!Priority
<1>13. q = p /\ p.thick \in Int
  BY <1>1, <1>12 DEF Priors
<1> QED  BY <1>2, <1>10, <1>13 DEF s

\* What the second gate makes of a frame that rests.
Settles(h, g, o, p) ==
    LET target == o.top - p.thick IN
    /\ g.track = h.track /\ g.final.on /\ g.last.valid
    /\ g.last.bottom = Place(g.final, o.top)
    /\ \/ B!Abs(Place(g.final, o.top) - target) <= Soft
       \/ /\ h.final.on /\ B!Abs(Place(h.final, o.top) - target) > Soft
          /\ g.pending.source = p.source
          /\ p.source = "FROZEN" \/ g.pending.v = target
          /\ g.pending.count \in Nat /\ g.pending.count >= 1
          /\ (/\ h.pending.count > 0 /\ h.pending.source = p.source
              /\ p.source = "FROZEN" \/ h.pending.v = target)
             => g.pending.count = h.pending.count + 1

LEMMA ProcessSettles ==
    ASSUME NEW f, BottomFusion(f), f.track # 0,
           NEW o \in BottomFrames, B!Supported(o), B!Center(o) = o.top,
           NEW p \in o.priors, B!Best(p, o.priors)
    PROVE  Settles(f, B!Process(f, o), o, p)
<1> DEFINE acc == B!Accumulated(f, o)
           h == [B!Aged(f, o) EXCEPT !.acc = acc]
           s == B!Selected(h, o)
           g == B!Process(f, o)
           target == o.top - p.thick
           place == Place(h.final, o.top)
<1>1. BottomFusion(h) /\ SameMemory(f, h) /\ h.track # 0
  BY AgedRemembers DEF SameMemory
<1>2. o.top \in Int /\ B!Center(o) \in Int /\ p \in Priors
  BY BottomAssumption DEF BottomObservations
<1>3. p.source # "INVALID"
  BY <1>2 DEF Priors
<1> HIDE DEF h
<1>4. s.source = p.source /\ s.z = target /\ s.z \in Int
  BY <1>1, <1>2, SelectedIsBest
<1>5. g = B!Fused(h, o, s)
  BY <1>3, <1>4 DEF B!Process, h
<1> HIDE DEF s, g
<1>6. PICK j : /\ Publishes(h, g, s, o.top, j)
               /\ h.final.on => j = B!Judged(h, s, place)
               /\ ~h.final.on => j = [z |-> s.z, held |-> FALSE,
                                      pending |-> h.pending]
  BY <1>1, <1>2, <1>4, <1>5, FusedPublishes
<1>7. /\ g.track = f.track /\ g.final.on /\ g.last.valid
      /\ g.last.bottom = Place(g.final, o.top)
      /\ Place(g.final, o.top) = j.z /\ g.pending = j.pending
  BY <1>1, <1>6 DEF Publishes, SameMemory
<1>8. place \in Int /\ Soft \in Nat
  BY <1>1, <1>2, BottomAssumption DEF BottomFusion, Place
<1>9. h.final = f.final
  BY <1>1 DEF SameMemory
<1>10. \A a, b \in Int : B!Abs(a - b) = B!Abs(b - a) /\ B!Abs(a - a) = 0
  BY DEF B!Abs
<1>11. target \in Int
  BY <1>4
<1> HIDE DEF target, place
<1>12. CASE ~h.final.on
  <2>1. j.z = target
    BY <1>4, <1>6, <1>12
  <2>2. B!Abs(Place(g.final, o.top) - target) <= Soft
    BY <1>7, <1>8, <1>10, <1>11, <2>1
  <2> QED  BY <1>7, <2>2 DEF Settles, g, target
<1>13. CASE h.final.on
  <2>1. /\ j.z \in Int /\ PendingJump(j.pending)
        /\ \/ Calm(h, s, place, j) \/ HeldBack(h, s, place, j)
           \/ JumpConfirmed(h, s, j)
    BY <1>1, <1>4, <1>6, <1>8, <1>13, Judgement
  <2>2. CASE Calm(h, s, place, j)
    <3>1. B!Abs(Place(g.final, o.top) - target) <= Soft
      BY <1>4, <1>7, <2>2 DEF Calm
    <3> QED  BY <1>7, <3>1 DEF Settles, g, target
  <2>3. CASE JumpConfirmed(h, s, j)
    <3>1. j.z = target
      BY <1>4, <2>3 DEF JumpConfirmed
    <3>2. B!Abs(Place(g.final, o.top) - target) <= Soft
      BY <1>7, <1>8, <1>10, <1>11, <3>1
    <3> QED  BY <1>7, <3>2 DEF Settles, g, target
  <2>4. CASE HeldBack(h, s, place, j)
    <3>1. B!Abs(Place(f.final, o.top) - target) > Soft /\ f.final.on
      BY <1>4, <1>8, <1>9, <1>10, <1>11, <1>13, <2>4 DEF HeldBack, place
    <3>2. /\ g.pending.source = p.source
          /\ p.source = "FROZEN" \/ g.pending.v = target
          /\ g.pending.count = Asking(h, s)
      BY <1>4, <1>7, <2>4 DEF HeldBack, B!Absolute
    <3>3. /\ h.pending.count = f.pending.count
          /\ h.pending.source = f.pending.source
          /\ h.pending.v = f.pending.v
          /\ h.pending.count \in Nat
      BY <1>1 DEF SameMemory, BottomFusion, PendingJump
    <3>4. Asking(h, s) \in Nat /\ Asking(h, s) >= 1
      BY <3>3 DEF Asking
    <3>5. (/\ f.pending.count > 0 /\ f.pending.source = p.source
           /\ p.source = "FROZEN" \/ f.pending.v = target)
            => Asking(h, s) = f.pending.count + 1
      BY <1>4, <3>3 DEF Asking, B!SamePending, B!Absolute
    <3> QED  BY <1>7, <3>1, <3>2, <3>4, <3>5 DEF Settles, g, target
  <2> QED  BY <2>1, <2>2, <2>3, <2>4
<1> QED  BY <1>12, <1>13

\* A fusion that has nothing published holds nothing back.
LEMMA FusionSettles ==
    ASSUME NEW f, BottomFusion(f),
           NEW o \in BottomFrames, B!Supported(o), B!Center(o) = o.top,
           o.dt = 1, NEW p \in o.priors, B!Best(p, o.priors)
    PROVE  LET g == B!FusionNext(f, o) IN
           \E h : /\ Settles(h, g, o, p) /\ h.track = o.track
                  /\ \/ ~h.final.on
                     \/ /\ f.track = o.track /\ h.final = f.final
                        /\ h.pending = f.pending
<1> DEFINE g == B!FusionNext(f, o)
<1>1. o.track # 0 /\ ResetAfter \in Nat \ {0} /\ o.top # B!None
  BY BottomAssumption DEF B!Supported
<1>2. CASE f.track # o.track
  <2> DEFINE n == B!NewFusion(o.track, o.auth)
  <2>1. g = B!Process(n, o)
    BY <1>1, <1>2 DEF B!FusionNext
  <2>2. BottomFusion(n) /\ n.track = o.track /\ ~n.final.on
    BY NewIsFusion
  <2> HIDE DEF n, g
  <2>3. Settles(n, g, o, p)
    BY <1>1, <2>1, <2>2, ProcessSettles
  <2> QED  BY <2>2, <2>3 DEF g
<1>3. CASE f.track = o.track
  <2> DEFINE n == [f EXCEPT !.auth = o.auth, !.acc = {}]
  <2>1. g \in {B!Process(n, o), B!Process(f, o)}
    BY <1>1, <1>3 DEF B!FusionNext
  <2>2. /\ n = [y \in FusionFields |-> n[y]]
        /\ n.stable = f.stable /\ n.final = f.final
        /\ n.pending = f.pending /\ n.last = f.last /\ n.track = f.track
    BY DEF BottomFusion, FusionFields
  <2> HIDE DEF n
  <2>3. BottomFusion(n)
    BY <2>2 DEF BottomFusion
  <2>4. Settles(n, B!Process(n, o), o, p)
    BY <1>1, <1>3, <2>2, <2>3, ProcessSettles
  <2>5. Settles(f, B!Process(f, o), o, p)
    BY <1>1, <1>3, ProcessSettles
  <2> QED  BY <1>3, <2>1, <2>2, <2>4, <2>5
<1> QED  BY <1>2, <1>3

-----------------------------------------------------------------------------
(* The invariant, and what a frame does to it.                             *)

FormalFields == {"track", "z", "age", "count", "for"}
FormalTop(n) ==
    n = [y \in FormalFields |-> n[y]] /\ n.z \in Int /\ n.age \in Nat

BottomIInv ==
    /\ FormalTop(formal)
    /\ BottomFusion(bottomFusion) /\ bottomOut = bottomFusion.last
    /\ log.rest \in 0 .. Settle
    /\ Streak(bottomFusion, log.samples)
    /\ B!JumpIsConfirmed
    /\ Resting

LEMMA BottomInit == B!Init => BottomIInv
<1> SUFFICES ASSUME B!Init PROVE BottomIInv
  OBVIOUS
<1>1. formal = [track |-> 0, z |-> 0, age |-> 0, count |-> 0, for |-> 0]
  BY DEF B!Init
<1>2. FormalTop(formal)
  BY <1>1 DEF FormalTop, FormalFields
<1>3. BottomFusion(bottomFusion) /\ bottomFusion.pending.count = 0
  BY NewIsFusion DEF B!Init
<1>4. bottomOut = bottomFusion.last /\ ~bottomOut.valid
  BY DEF B!Init, B!NewFusion, B!NoResult
<1>5. log.rest = 0 /\ log.samples = <<>> /\ log.frame = B!NoFrame
  BY DEF B!Init, B!NoLog
<1>6. IsSeq(<<>>) /\ Len(<<>>) = 0
  BY DEF IsSeq
<1>7. Streak(bottomFusion, log.samples)
  BY <1>3, <1>5, <1>6, BottomAssumption DEF Streak
<1>8. Resting
  BY <1>5 DEF Resting, B!Supported, B!NoFrame
<1>9. log.rest \in 0 .. Settle
  BY <1>5, BottomAssumption
<1> QED  BY <1>2, <1>3, <1>4, <1>7, <1>8, <1>9
         DEF BottomIInv, B!JumpIsConfirmed

LEMMA FormalOutcome ==
    ASSUME FormalTop(formal), NEW o \in BottomFrames
    PROVE  LET n == B!FormalNext(o) IN
           /\ FormalTop(n)
           /\ B!Supported(o) /\ B!Rejected(o) =>
                /\ n.track = formal.track /\ formal.track = o.track
                /\ n.age = formal.age + o.dt /\ n.age <= TopGap
           /\ B!Supported(o) /\ ~B!Rejected(o) =>
                n.track = o.track /\ n.z = o.top /\ n.age = 0
<1> DEFINE n == B!FormalNext(o)
           aged == B!AgedFormal(o)
           older == B!Older(formal.age, o.dt, TopGap + 1)
<1>1. /\ o.top \in Int /\ o.dt \in Nat /\ TopGap \in Nat
      /\ formal.age \in Nat
  BY BottomAssumption DEF BottomObservations, FormalTop
<1>2. older \in Nat /\ (formal.age + o.dt <= TopGap =>
                          older = formal.age + o.dt)
  BY <1>1 DEF B!Older
<1>3. aged = [formal EXCEPT !.age = older]
  BY DEF B!AgedFormal
<1> HIDE DEF older
<1>4. /\ aged = [y \in FormalFields |-> aged[y]]
      /\ aged.track = formal.track /\ aged.z = formal.z
      /\ aged.age = older
  BY <1>3 DEF FormalTop, FormalFields
<1> HIDE DEF aged
<1>5. CASE ~B!Supported(o)
  <2>1. n = aged
    BY <1>5 DEF B!FormalNext, aged
  <2> QED  BY <1>2, <1>4, <1>5, <2>1 DEF FormalTop
<1>6. CASE B!Supported(o) /\ B!Rejected(o)
  <2>1. B!Comparable(o)
    BY <1>6 DEF B!Rejected, B!TooLow, B!TooHigh
  <2>2. \E c, f : n = [aged EXCEPT !.count = c, !.for = f]
    BY <1>6 DEF B!FormalNext, aged
  <2>3. PICK c, f : n = [aged EXCEPT !.count = c, !.for = f]
    BY <2>2
  <2> HIDE DEF n
  <2>4. /\ n = [y \in FormalFields |-> n[y]] /\ n.track = aged.track
        /\ n.z = aged.z /\ n.age = aged.age
    BY <1>4, <2>3 DEF FormalFields
  <2>5. FormalTop(n)
    BY <1>2, <1>4, <2>4 DEF FormalTop
  <2> QED  BY <1>2, <1>4, <1>6, <2>1, <2>4, <2>5 DEF B!Comparable, n
<1>7. CASE B!Supported(o) /\ ~B!Rejected(o)
  <2> DEFINE c == IF B!TooHigh(o) THEN 0 ELSE aged.count
             f == IF B!TooHigh(o) THEN 0 ELSE aged.for
  <2>1. n = [aged EXCEPT !.track = o.track, !.z = o.top, !.age = 0,
                         !.count = c, !.for = f]
    BY <1>7 DEF B!FormalNext, aged, B!Rejected
  <2> HIDE DEF n, c, f
  <2>2. /\ n = [y \in FormalFields |-> n[y]] /\ n.track = o.track
        /\ n.z = o.top /\ n.age = 0
    BY <1>4, <2>1 DEF FormalFields
  <2> QED  BY <1>1, <1>7, <2>2 DEF FormalTop, n
<1> QED  BY <1>5, <1>6, <1>7

History(g) ==
    IF g.track # 0 /\ g.track = bottomFusion.track THEN log.samples ELSE <<>>
NewSamples(g) ==
    IF \/ g = bottomFusion \/ g.track = 0
       \/ g.last.by \in {"INVALID", "RECENT_STABLE"}
    THEN History(g) ELSE Extended(History(g), g.last.by)
SameFrame(o) == log.frame = [o EXCEPT !.dt = 0] /\ o.dt = 1

LEMMA LoggedFields ==
    ASSUME NEW o, NEW g
    PROVE  LET n == B!Logged(g, o)
           IN /\ n.frame = [o EXCEPT !.dt = 0]
              /\ n.rest = IF ~SameFrame(o) THEN 0
                          ELSE IF log.rest < Settle THEN log.rest + 1
                          ELSE Settle
              /\ n.samples = NewSamples(g)
<1> DEFINE q == IF g.track # 0 /\ g.track = bottomFusion.track
                THEN log.samples ELSE <<>>
           past == IF Len(q) < JumpFrames THEN q ELSE Tail(q)
           same == log.frame = [o EXCEPT !.dt = 0] /\ o.dt = 1
           high == IF log.high < JumpFrames THEN log.high + 1 ELSE JumpFrames
           a == IF \/ g = bottomFusion \/ g.track = 0
                   \/ g.last.by \in {"INVALID", "RECENT_STABLE"}
                THEN q ELSE Append(past, g.last.by)
           b == [o EXCEPT !.dt = 0]
           c == IF ~same THEN 0
                ELSE IF log.rest < Settle THEN log.rest + 1 ELSE Settle
           d == IF B!TooHigh(o) THEN high ELSE 0
           e == B!TooHigh(o) /\ ~B!Rejected(o)
           n == [samples |-> a, frame |-> b, rest |-> c, high |-> d,
                 rebased |-> e]
<1>1. B!Logged(g, o) = n
  BY DEF B!Logged
<1> HIDE DEF a, b, c, d, e
<1>2. n.samples = a /\ n.frame = b /\ n.rest = c
  OBVIOUS
<1>3. a = NewSamples(g)
  BY DEF a, NewSamples, History, Extended
<1>4. c = IF ~SameFrame(o) THEN 0
          ELSE IF log.rest < Settle THEN log.rest + 1 ELSE Settle
  BY DEF c, SameFrame
<1> QED  BY <1>1, <1>2, <1>3, <1>4 DEF b

\* The measurements, and what is published.
LEMMA StreakStep ==
    ASSUME BottomIInv, NEW o \in BottomObservations, B!Center(o) \in Int,
           NEW e, bottomFusion' = B!FusionNext(bottomFusion, o),
           bottomOut' = bottomFusion'.last,
           log' = B!Logged(bottomFusion', e)
    PROVE  /\ BottomFusion(bottomFusion)'
           /\ Streak(bottomFusion, log.samples)' /\ B!JumpIsConfirmed'
<1> DEFINE f == bottomFusion
           g == bottomFusion'
           q == History(g)
           r == Extended(q, g.last.by)
<1>1. /\ BottomFusion(f) /\ Streak(f, log.samples) /\ B!JumpIsConfirmed
      /\ bottomOut = f.last
  BY DEF BottomIInv
<1>2. log'.samples = IF \/ g = f \/ g.track = 0
                        \/ g.last.by \in {"INVALID", "RECENT_STABLE"}
                     THEN q ELSE r
  <2>1. log'.samples = NewSamples(g)
    BY LoggedFields
  <2> QED  BY <2>1 DEF NewSamples
<1>3. /\ BottomFusion(g)
      /\ \/ g.track = 0 /\ ~g.last.valid /\ g.pending.count = 0
         \/ g.track # 0 /\ g.track # f.track
            /\ Outcome(B!NewFusion(g.track, o.auth), g)
         \/ g.track # 0 /\ g.track = f.track /\ (g = f \/ Outcome(f, g))
  BY <1>1, FusionOutcome
<1>4. IsSeq(<<>>) /\ Len(<<>>) = 0 /\ JumpFrames \in Nat
      /\ JumpFrames >= 1
  BY BottomAssumption DEF IsSeq
<1> SUFFICES Streak(g, log'.samples) /\ B!JumpIsConfirmed'
  BY <1>3
\* A frame that does not measure adds no sample and takes none away.
<1>5. ASSUME NEW h, BottomFusion(h), Streak(h, q), Outcome(h, g),
             g # f, g.track # 0
      PROVE  Streak(g, log'.samples) /\ B!JumpIsConfirmed'
  <2>1. CASE Lost(h, g) \/ Bridged(h, g)
    <3>1. log'.samples = q
      BY <1>2, <2>1 DEF Lost, Bridged
    <3>2. \/ g.pending.count = 0 \/ g.pending.source = "RECENT_STABLE"
          \/ /\ g.pending.count = h.pending.count
             /\ g.pending.source = h.pending.source
      BY <2>1 DEF Lost, Bridged, Kept
    <3>3. Streak(g, q)
      BY <1>5, <3>2 DEF Streak
    <3>4. ~g.last.valid \/ Quiet(g.last)
      BY <2>1 DEF Lost, Bridged
    <3>5. B!JumpIsConfirmed'
      BY <3>4 DEF B!JumpIsConfirmed, Quiet, B!None
    <3> QED  BY <3>1, <3>3, <3>5
  <2>2. CASE Measured(h, g)
    <3>1. log'.samples = r
      BY <1>2, <1>5, <2>2 DEF Measured
    <3>2. /\ Streak(g, r)
          /\ \/ Quiet(g.last)
             \/ Len(r) = JumpFrames
                /\ \A i \in DOMAIN r : r[i] = g.last.source
      BY <1>5, <2>2, StreakGrows
    <3> HIDE DEF r
    <3>3. B!JumpIsConfirmed'
      BY <3>1, <3>2 DEF B!JumpIsConfirmed, Quiet, B!None
    <3> QED  BY <3>1, <3>2, <3>3
  <2> QED  BY <1>5, <2>1, <2>2 DEF Outcome
<1>6. CASE g.track = 0
  <2>1. log'.samples = <<>> /\ ~g.last.valid /\ g.pending.count = 0
    BY <1>2, <1>3, <1>6 DEF History
  <2> QED  BY <1>4, <2>1 DEF Streak, B!JumpIsConfirmed
<1>7. CASE g.track # 0 /\ g.track # f.track
  <2> DEFINE h == B!NewFusion(g.track, o.auth)
  <2>1. BottomFusion(h) /\ h.pending.count = 0
    BY NewIsFusion
  <2>2. q = <<>> /\ g # f /\ Outcome(h, g)
    BY <1>3, <1>7 DEF History
  <2> HIDE DEF h, q
  <2>3. Streak(h, q)
    BY <1>4, <2>1, <2>2 DEF Streak
  <2> QED  BY <1>5, <1>7, <2>1, <2>2, <2>3
<1>8. CASE g.track # 0 /\ g.track = f.track /\ g = f
  <2>1. log'.samples = log.samples /\ g.last = f.last
    BY <1>2, <1>8 DEF History
  <2> QED  BY <1>1, <1>8, <2>1 DEF B!JumpIsConfirmed
<1>9. CASE g.track # 0 /\ g.track = f.track /\ g # f
  <2>1. q = log.samples /\ Outcome(f, g)
    BY <1>3, <1>9 DEF History
  <2> QED  BY <1>1, <1>5, <1>9, <2>1
<1> QED  BY <1>6, <1>7, <1>8, <1>9

\* A frame that was let in before is let in again.
LEMMA AgainAdmitted ==
    ASSUME NEW o \in BottomFrames, formal.z = o.top, formal.age \in Nat
    PROVE  ~B!Rejected(o)
<1>1. o.top \in Int /\ o.dt \in Nat /\ Speed \in Nat
  BY BottomAssumption DEF BottomObservations
<1> DEFINE dt == formal.age + o.dt
           allowed == Speed * dt
<1>2. dt \in Nat
  BY <1>1
<1> HIDE DEF dt
<1>3. allowed \in Nat
  BY <1>1, <1>2
<1>4. B!Step(o) = 0
  BY <1>1 DEF B!Step
<1>5. B!Allowed(o) = allowed
  BY DEF B!Allowed, dt
<1> HIDE DEF allowed
<1> QED  BY <1>3, <1>4, <1>5 DEF B!Rejected, B!TooLow, B!TooHigh

LEMMA RestStep ==
    ASSUME BottomIInv, NEW o \in BottomFrames,
           formal' = B!FormalNext(o),
           bottomFusion' = B!FusionNext(bottomFusion, B!Admitted(o)),
           log' = B!Logged(bottomFusion', o)
    PROVE  Resting'
<1> DEFINE w == [o EXCEPT !.dt = 0]
           f == bottomFusion
           g == bottomFusion'
<1>1. /\ FormalTop(formal) /\ BottomFusion(f) /\ Resting
      /\ log.rest \in 0 .. Settle /\ log.rest \in Nat /\ Settle \in Nat
      /\ TopGap \in Nat
  BY BottomAssumption DEF BottomIInv
<1>2. /\ log'.frame = w
      /\ log'.rest = IF ~SameFrame(o) THEN 0
                     ELSE IF log.rest < Settle THEN log.rest + 1 ELSE Settle
  BY LoggedFields
<1>3. /\ o \in BottomObservations /\ o.top \in Int /\ o.dt \in Nat
      /\ w.track = o.track /\ w.top = o.top /\ w.support = o.support
      /\ w.priors = o.priors
  BY BottomAssumption DEF BottomObservations
<1>4. B!Supported(w) <=> B!Supported(o)
  BY <1>3 DEF B!Supported
<1>5. /\ log'.rest \in Nat /\ log'.rest <= log.rest + 1
      /\ SameFrame(o) => log.frame = w /\ o.dt = 1
      /\ ~SameFrame(o) => log'.rest = 0
  <2>1. SameFrame(o) => log.frame = w /\ o.dt = 1
    BY DEF SameFrame
  <2> QED  BY <1>1, <1>2, <2>1
<1> HIDE DEF w
<1> SUFFICES ASSUME B!Supported(o) PROVE (Waiting(w) \/ Through(w))'
  BY <1>2, <1>4 DEF Resting
<1>6. /\ FormalTop(formal')
      /\ B!Rejected(o) => /\ formal'.track = formal.track
                          /\ formal.track = o.track
                          /\ formal'.age = formal.age + o.dt
                          /\ formal'.age <= TopGap
      /\ ~B!Rejected(o) => /\ formal'.track = o.track
                           /\ formal'.z = o.top /\ formal'.age = 0
  BY <1>1, FormalOutcome
<1>7. formal.age \in Nat
  BY <1>1 DEF FormalTop
\* The frame before was this one.
<1>8. ASSUME SameFrame(o)
      PROVE  \/ /\ formal.track = o.track /\ log.rest <= formal.age
                /\ formal.age <= TopGap
             \/ /\ formal.track = o.track /\ formal.z = o.top
                /\ log.rest > 0 => \A p \in o.priors :
                     B!Best(p, o.priors) => Settling(w, p)
  <2>1. Waiting(w) \/ Through(w)
    BY <1>1, <1>4, <1>5, <1>8 DEF Resting
  <2> QED  BY <1>3, <2>1 DEF Waiting, Through
<1>9. CASE B!Rejected(o)
  <2>1. CASE ~SameFrame(o)
    <3>1. log'.rest <= formal'.age
      BY <1>5, <1>6, <1>7, <1>3, <1>9, <2>1
    <3> QED  BY <1>3, <1>6, <1>9, <3>1 DEF Waiting
  <2>2. CASE SameFrame(o)
    <3>1. formal.track = o.track /\ log.rest <= formal.age
      BY <1>7, <1>8, <1>9, <2>2, AgainAdmitted
    <3>2. log'.rest <= formal'.age
      BY <1>1, <1>5, <1>6, <1>7, <1>9, <2>2, <3>1
    <3> QED  BY <1>3, <1>6, <1>9, <3>2 DEF Waiting
  <2> QED  BY <2>1, <2>2
<1>10. CASE ~B!Rejected(o)
  <2>1. B!Admitted(o) = o /\ B!Center(o) = o.top
    <3>1. B!FormalNext(o).track = o.track /\ B!FormalNext(o).z = o.top
      BY <1>6, <1>10
    <3> QED  BY <1>10, <3>1 DEF B!Admitted, B!Center
  <2>2. ASSUME log'.rest > 0, NEW p \in o.priors, B!Best(p, o.priors)
        PROVE  Settling(w, p)'
    <3> DEFINE target == o.top - p.thick
    <3>1. SameFrame(o) /\ o.dt = 1
      BY <1>5, <2>2
    <3>2. g = B!FusionNext(f, o)
      BY <2>1
    <3>3. PICK h : /\ Settles(h, g, o, p) /\ h.track = o.track
                   /\ \/ ~h.final.on
                      \/ /\ f.track = o.track /\ h.final = f.final
                         /\ h.pending = f.pending
      <4> HIDE DEF f, g
      <4> QED  BY <1>1, <2>1, <2>2, <3>1, <3>2, FusionSettles DEF f
    <3>4. /\ g.track = o.track /\ g.final.on /\ g.last.valid
          /\ g.last.bottom = Place(g.final, o.top)
      BY <3>3 DEF Settles
    <3>5. CASE B!Abs(Place(g.final, o.top) - target) <= Soft
      BY <1>3, <3>4, <3>5 DEF Settling, Near
    <3>6. CASE ~(B!Abs(Place(g.final, o.top) - target) <= Soft)
      <4>1. /\ h.final.on /\ B!Abs(Place(h.final, o.top) - target) > Soft
            /\ g.pending.source = p.source
            /\ p.source = "FROZEN" \/ g.pending.v = target
            /\ g.pending.count \in Nat /\ g.pending.count >= 1
            /\ (/\ h.pending.count > 0 /\ h.pending.source = p.source
                /\ p.source = "FROZEN" \/ h.pending.v = target)
               => g.pending.count = h.pending.count + 1
        BY <3>3, <3>6 DEF Settles
      <4>2. f.track = o.track /\ h.final = f.final /\ h.pending = f.pending
        BY <3>3, <4>1
      <4>3. log'.rest - TopGap <= g.pending.count
        <5>1. CASE log.rest <= TopGap
          BY <1>1, <1>5, <4>1, <5>1
        <5>2. CASE log.rest > TopGap
          <6>1. Settling(w, p)
            BY <1>1, <1>7, <1>8, <2>2, <3>1, <5>2
          <6>2. p.thick \in Int
            BY <1>3 DEF BottomObservations, Priors
          <6>3. Place(f.final, o.top) \in Int /\ target \in Int
            BY <1>1, <1>3, <6>2 DEF BottomFusion, Place
          <6>4. B!Abs(Place(f.final, o.top) - target) \in Int
                /\ Soft \in Nat
            <7> DEFINE k == Place(f.final, o.top) - target
            <7>1. k \in Int
              BY <6>3
            <7> HIDE DEF k
            <7>2. B!Abs(k) \in Int
              BY <7>1 DEF B!Abs
            <7> QED  BY <7>2, BottomAssumption DEF k
          <6>5. ~Near(w, p)
            BY <1>3, <4>1, <4>2, <6>4 DEF Near
          <6>6. Counting(p, w)
            BY <6>1, <6>5 DEF Settling
          <6>7. /\ f.pending.count > 0 /\ f.pending.source = p.source
                /\ p.source = "FROZEN" \/ f.pending.v = target
                /\ log.rest - TopGap <= f.pending.count
            BY <1>3, <6>6 DEF Counting
          <6>8. g.pending.count = f.pending.count + 1
            BY <4>1, <4>2, <6>7
          <6>9. f.pending.count \in Nat
            BY <1>1 DEF BottomFusion, PendingJump
          <6> QED  BY <1>1, <1>5, <6>7, <6>8, <6>9
        <5> QED  BY <1>1, <5>1, <5>2
      <4>4. g.pending.count > 0
        BY <4>1
      <4> QED  BY <1>3, <3>4, <4>1, <4>3, <4>4 DEF Settling, Counting
    <3> QED  BY <3>5, <3>6
  <2> QED  BY <1>3, <1>6, <1>10, <2>2 DEF Through
<1> QED  BY <1>9, <1>10

LEMMA BottomStep ==
    ASSUME BottomIInv, [B!Next]_bottomVars
    PROVE  BottomIInv'
<1>1. ASSUME NEW o \in BottomFrames, B!Frame(o)
      PROVE  BottomIInv'
  <2>1. /\ formal' = B!FormalNext(o)
        /\ bottomFusion' = B!FusionNext(bottomFusion, B!Admitted(o))
        /\ bottomOut' = bottomFusion'.last
        /\ log' = B!Logged(bottomFusion', o)
    BY <1>1 DEF B!Frame
  <2>2. /\ o \in BottomObservations /\ B!Admitted(o) \in BottomObservations
        /\ formal.z \in Int
    BY BottomAssumption, AdmittedTyped DEF BottomIInv, FormalTop
  <2>3. B!Center(B!Admitted(o)) \in Int
    BY <2>2, FormalTyped
  <2>4. /\ BottomFusion(bottomFusion)'
        /\ Streak(bottomFusion, log.samples)' /\ B!JumpIsConfirmed'
    BY <2>1, <2>2, <2>3, StreakStep
  <2>5. FormalTop(formal')
    BY <2>1, FormalOutcome DEF BottomIInv
  <2>6. Resting'
    BY <2>1, RestStep
  <2>7. log'.rest \in 0 .. Settle
    <3>1. log'.rest = IF ~SameFrame(o) THEN 0
                      ELSE IF log.rest < Settle THEN log.rest + 1 ELSE Settle
      BY <2>1, LoggedFields
    <3> QED  BY <3>1, BottomAssumption DEF BottomIInv
  <2> QED  BY <2>1, <2>4, <2>5, <2>6, <2>7 DEF BottomIInv
<1>2. CASE B!Reset
  <2>1. /\ BottomFusion(bottomFusion') /\ bottomFusion'.pending.count = 0
        /\ bottomOut' = bottomFusion'.last /\ ~bottomOut'.valid
    <3>1. bottomFusion' = B!NewFusion(0, 0) /\ bottomOut' = B!NoResult
      BY <1>2 DEF B!Reset
    <3>2. B!NewFusion(0, 0).last = B!NoResult
      BY DEF B!NewFusion
    <3> QED  BY <3>1, <3>2, NewIsFusion
  <2>2. log'.rest = 0 /\ log'.samples = <<>> /\ log'.frame = B!NoFrame
    BY <1>2 DEF B!Reset, B!NoLog
  <2>3. IsSeq(<<>>) /\ Len(<<>>) = 0
    BY DEF IsSeq
  <2>4. Streak(bottomFusion', log'.samples)
    BY <2>1, <2>2, <2>3, BottomAssumption DEF Streak
  <2>5. Resting'
    BY <2>2 DEF Resting, B!Supported, B!NoFrame
  <2>6. FormalTop(formal')
    BY <1>2 DEF B!Reset, BottomIInv
  <2>7. log'.rest \in 0 .. Settle
    BY <2>2, BottomAssumption
  <2> QED  BY <2>1, <2>4, <2>5, <2>6, <2>7 DEF BottomIInv, B!JumpIsConfirmed
<1>3. CASE UNCHANGED bottomVars
  BY <1>3 DEF bottomVars, BottomIInv, FormalTop, Streak, B!JumpIsConfirmed,
              Resting, Waiting, Through, Settling, Near, Counting
<1> QED  BY <1>1, <1>2, <1>3 DEF B!Next

\* The published bottom rises to a measurement only on as many measurements
\* of its source as the configuration asks for, and a cargo that rests is
\* published where its best prior puts it after TopGap + JumpFrames frames:
\* the gate before the fusion forgets, and the fusion counts on
\* (CargoBottomFusion behind the formal vertical gate).
THEOREM BottomSound == B!Spec => []BottomIsSound
<1>1. B!Init => BottomIInv
  BY BottomInit
<1>2. BottomIInv /\ [B!Next]_(B!vars) => BottomIInv'
  BY BottomStep DEF B!vars, bottomVars
<1>3. BottomIInv => BottomIsSound
  <2> SUFFICES ASSUME BottomIInv, log.rest = Settle, B!Supported(log.frame)
               PROVE  /\ bottomOut.valid
                      /\ \A p \in log.frame.priors :
                           B!Best(p, log.frame.priors) =>
                             B!Abs(bottomOut.bottom
                                   - (log.frame.top - p.thick)) <= Soft
    BY DEF BottomIsSound, B!BottomIsSound, B!RestIsPublished, BottomIInv
  <2> DEFINE w == log.frame
  <2>1. /\ Settle \in Nat /\ TopGap \in Nat /\ JumpFrames \in Nat
        /\ JumpFrames >= 1 /\ TopGap + JumpFrames <= Settle
        /\ formal.age \in Nat /\ bottomOut = bottomFusion.last
        /\ bottomFusion.pending.count \in Nat
        /\ bottomFusion.pending.count < JumpFrames
    BY BottomAssumption DEF BottomIInv, FormalTop, BottomFusion, PendingJump
  <2>2. Waiting(w) \/ Through(w)
    BY DEF BottomIInv, Resting
  <2>3. ~Waiting(w)
    BY <2>1 DEF Waiting
  <2>4. \A p \in w.priors : B!Best(p, w.priors) => Settling(w, p)
    BY <2>1, <2>2, <2>3 DEF Through
  <2>5. \A p : ~Counting(p, w)
    BY <2>1 DEF Counting
  <2>6. \A p \in w.priors : B!Best(p, w.priors) =>
          /\ bottomOut.valid
          /\ B!Abs(bottomOut.bottom - (w.top - p.thick)) <= Soft
    BY <2>1, <2>4, <2>5 DEF Settling, Near
  <2>7. \E p \in w.priors : B!Best(p, w.priors)
    <3>1. w.priors # {}
      BY DEF B!Supported
    <3> QED  BY <3>1, BestExists DEF B!Best
  <2> QED  BY <2>6, <2>7
<1> QED  BY <1>1, <1>2, <1>3, PTL DEF B!Spec

-----------------------------------------------------------------------------
(* CargoGeometry: what a window holds was measured in the frames of this   *)
(* cargo, and a run that changes the frozen size is in the last ones.      *)

\* A window w took the entry v and is r now; d entries left it.
SlidBy(w, v, r, d) ==
    /\ Len(r) = Len(w) + 1 - d
    /\ Len(r) \in 1 .. (Len(w) + 1) /\ r[Len(r)] = v
    /\ \A k \in 1 .. (Len(r) - 1) : k + d \in 1 .. Len(w) /\ r[k] = w[k + d]

LEMMA Slid ==
    ASSUME NEW D, NEW w \in Seq(D), NEW v \in D, NEW n \in Nat \ {0}
    PROVE  /\ G!Slide(w, v, n) \in Seq(D)
           /\ Len(w) < n => SlidBy(w, v, G!Slide(w, v, n), 0)
           /\ Len(w) >= n => SlidBy(w, v, G!Slide(w, v, n), 1)
<1> DEFINE u == Append(w, v)
           r == G!Slide(w, v, n)
<1>1. /\ u \in Seq(D) /\ Len(u) = Len(w) + 1 /\ Len(w) \in Nat
      /\ u[Len(w) + 1] = v /\ \A k \in 1 .. Len(w) : u[k] = w[k]
  OBVIOUS
<1>2. CASE Len(w) < n
  <2>1. r = u
    BY <1>1, <1>2 DEF G!Slide
  <2> HIDE DEF r, u
  <2> QED  BY <1>1, <1>2, <2>1 DEF r, SlidBy
<1>3. CASE Len(w) >= n
  <2>1. r = Tail(u)
    BY <1>1, <1>3 DEF G!Slide
  <2>2. Len(w) \in Nat \ {0}
    BY <1>1, <1>3
  <2> HIDE DEF u
  <2>3. /\ r \in Seq(D) /\ Len(r) = Len(w)
        /\ \A k \in 1 .. Len(w) : r[k] = u[k + 1]
    <3> HIDE DEF r
    <3> QED  BY <1>1, <2>1, <2>2
  <2> HIDE DEF r
  <2> QED  BY <1>1, <1>3, <2>2, <2>3 DEF r, SlidBy
<1> QED  BY <1>1, <1>2, <1>3

LEMMA WindowCount == \A X : G!Cardinality(X) = Cardinality(X)
BY DEF G!Cardinality, Cardinality

LEMMA MeasuredNat ==
    ASSUME NEW w \in Seq(Nat)
    PROVE  /\ IsFiniteSet(G!Finite(w)) /\ G!Measured(w) \in Nat
           /\ G!Finite(w) \subseteq 1 .. Len(w)
<1>1. G!Finite(w) \subseteq 1 .. Len(w)
  BY DEF G!Finite
<1>2. IsFiniteSet(1 .. Len(w))
  BY FS_Interval
<1>3. IsFiniteSet(G!Finite(w))
  BY <1>1, <1>2, FS_Subset
<1>4. Cardinality(G!Finite(w)) \in Nat
  BY <1>3, FS_CardinalityType
<1> QED  BY <1>1, <1>3, <1>4, WindowCount DEF G!Measured

\* A frame adds at most one measurement to a window, and nothing adds none.
LEMMA Pushed ==
    ASSUME NEW w \in Seq(Nat), NEW v \in Nat
    PROVE  /\ G!Push(w, v) \in Seq(Nat) /\ G!Push(w, v) # <<>>
           /\ G!Measured(G!Push(w, v)) <= G!Measured(w) + 1
           /\ v = 0 => G!Measured(G!Push(w, v)) <= G!Measured(w)
<1> DEFINE r == G!Push(w, v)
           K == G!Finite(w)
           J == G!Finite(r) \ {Len(r)}
<1>1. ShapeWindow \in Nat \ {0}
  BY GeometryAssumption
<1>2. PICK d \in {0, 1} : r \in Seq(Nat) /\ SlidBy(w, v, r, d)
  <2>1. r = G!Slide(w, v, ShapeWindow)
    BY DEF G!Push
  <2>2. Len(w) < ShapeWindow \/ Len(w) >= ShapeWindow
    BY <1>1
  <2> HIDE DEF r
  <2> QED  BY <1>1, <2>1, <2>2, Slid
<1>3. /\ IsFiniteSet(K) /\ G!Measured(w) = Cardinality(K)
      /\ IsFiniteSet(G!Finite(r)) /\ G!Measured(r) = Cardinality(G!Finite(r))
      /\ Cardinality(K) \in Nat /\ Cardinality(G!Finite(r)) \in Nat
  <2> HIDE DEF r
  <2>1. r \in Seq(Nat)
    BY <1>2
  <2>2. G!Measured(w) \in Nat /\ G!Measured(r) \in Nat
        /\ IsFiniteSet(G!Finite(w)) /\ IsFiniteSet(G!Finite(r))
    BY <2>1, MeasuredNat
  <2> QED  BY <2>2, WindowCount DEF G!Measured
<1> HIDE DEF r
<1>4. \A k \in J : k \in 1 .. (Len(r) - 1) /\ k + d \in K
  <2>1. TAKE k \in J
  <2>2. k \in 1 .. Len(r) /\ k # Len(r) /\ r[k] # 0
    <3>1. DOMAIN r = 1 .. Len(r)
      BY <1>2
    <3> QED  BY <3>1 DEF G!Finite
  <2>3. k \in 1 .. (Len(r) - 1)
    BY <1>2, <2>2 DEF SlidBy
  <2>4. k + d \in 1 .. Len(w) /\ w[k + d] # 0
    BY <1>2, <2>2, <2>3 DEF SlidBy
  <2> QED  BY <2>3, <2>4 DEF G!Finite
<1>5. Cardinality(J) <= Cardinality(K) /\ IsFiniteSet(J)
  <2> DEFINE f == [k \in J |-> k + d]
  <2>1. f \in Injection(J, K)
    <3>1. f \in [J -> K]
      BY <1>4
    <3>2. \A a, b \in J : f[a] = f[b] => a = b
      BY <1>4
    <3> QED  BY <3>1, <3>2 DEF Injection, IsInjective
  <2> QED  BY <1>3, <2>1, FS_Injection
<1>6. Cardinality(J) \in Nat
  BY <1>5, FS_CardinalityType
<1>7. Cardinality(G!Finite(r)) <= Cardinality(J) + 1
  <2>1. G!Finite(r) \subseteq J \cup {Len(r)}
    OBVIOUS
  <2>2. IsFiniteSet(J \cup {Len(r)})
        /\ Cardinality(J \cup {Len(r)}) = Cardinality(J) + 1
    <3>1. Len(r) \notin J
      OBVIOUS
    <3> QED  BY <1>5, <3>1, FS_AddElement
  <2> QED  BY <1>6, <2>1, <2>2, FS_Subset
<1>8. v = 0 => G!Finite(r) = J
  BY <1>2 DEF G!Finite, SlidBy
<1>9. r # <<>>
  BY <1>2 DEF SlidBy
<1> HIDE DEF J, K
<1> QED  BY <1>2, <1>3, <1>5, <1>6, <1>7, <1>8, <1>9 DEF r

\* A window's last entry may become a measurement.
LEMMA Entered ==
    ASSUME NEW w \in Seq(Nat), w # <<>>, NEW h \in Nat
    PROVE  /\ [w EXCEPT ![Len(w)] = h] \in Seq(Nat)
           /\ G!Measured([w EXCEPT ![Len(w)] = h]) <= G!Measured(w) + 1
<1> DEFINE r == [w EXCEPT ![Len(w)] = h]
           K == G!Finite(w)
           J == K \cup {Len(w)}
<1>1. r \in Seq(Nat) /\ DOMAIN r = 1 .. Len(w)
  OBVIOUS
<1>2. G!Finite(r) \subseteq J
  <2>1. \A k \in 1 .. Len(w) : k # Len(w) => r[k] = w[k]
    OBVIOUS
  <2> HIDE DEF r
  <2> QED  BY <1>1, <2>1 DEF G!Finite
<1>3. /\ IsFiniteSet(K) /\ G!Measured(w) = Cardinality(K)
      /\ Cardinality(K) \in Nat
      /\ IsFiniteSet(G!Finite(r)) /\ G!Measured(r) = Cardinality(G!Finite(r))
  <2> HIDE DEF r
  <2>1. G!Measured(w) \in Nat /\ G!Measured(r) \in Nat
        /\ IsFiniteSet(G!Finite(w)) /\ IsFiniteSet(G!Finite(r))
    BY <1>1, MeasuredNat
  <2> QED  BY <2>1, WindowCount DEF G!Measured
<1>4. IsFiniteSet(J) /\ Cardinality(J) <= Cardinality(K) + 1
      /\ Cardinality(J) \in Nat
  <2>1. Cardinality(K) \in Nat /\ IsFiniteSet(K)
    BY <1>3
  <2>2. CASE Len(w) \in K
    <3>1. J = K
      BY <2>2
    <3> HIDE DEF J, K
    <3> QED  BY <2>1, <3>1
  <2>3. CASE Len(w) \notin K
    <3> HIDE DEF K
    <3>1. IsFiniteSet(J) /\ Cardinality(J) = Cardinality(K) + 1
      BY <2>1, <2>3, FS_AddElement
    <3> HIDE DEF J
    <3> QED  BY <2>1, <3>1
  <2> QED  BY <2>2, <2>3
<1>5. Cardinality(G!Finite(r)) <= Cardinality(J)
      /\ Cardinality(G!Finite(r)) \in Nat
  <2> HIDE DEF r, J
  <2> QED  BY <1>2, <1>3, <1>4, FS_Subset, FS_CardinalityType
<1> QED  BY <1>1, <1>3, <1>4, <1>5

-----------------------------------------------------------------------------
(* The element in the middle.                                              *)

\* Some element of a stretch of natural numbers is the largest.
LEMMA Largest ==
    ASSUME NEW m \in Nat, NEW K, K \subseteq 1 .. m, K # {}, NEW f,
           \A k \in K : f[k] \in Nat
    PROVE  \E j \in K : \A k \in K : f[k] <= f[j]
<1> DEFINE part(n) == {k \in K : k <= n}
           T == {n \in Nat :
                   part(n) = {} \/ \E j \in part(n) :
                                      \A k \in part(n) : f[k] <= f[j]}
<1>0. \A k \in K : k \in Nat /\ 1 <= k /\ k <= m
  OBVIOUS
<1>1. 0 \in T
  <2>1. ASSUME NEW k \in part(0) PROVE FALSE
    <3>1. k \in K /\ k <= 0
      OBVIOUS
    <3> QED  BY <1>0, <3>1
  <2> QED  BY <2>1
<1>2. ASSUME NEW n \in Nat, n \in T PROVE n + 1 \in T
  <2>0. n + 1 \in Nat
    OBVIOUS
  <2>1. CASE n + 1 \notin K
    <3>1. \A k \in K : k <= n + 1 <=> k <= n
      BY <1>0, <2>1
    <3>2. part(n + 1) = part(n)
      BY <3>1
    <3> QED  BY <1>2, <2>0, <3>2
  <2>2. CASE n + 1 \in K /\ part(n) = {}
    <3>1. \A k \in part(n + 1) : k = n + 1
      BY <2>2
    <3>2. n + 1 \in part(n + 1)
      BY <2>2
    <3> QED  BY <2>0, <3>1, <3>2
  <2>3. CASE n + 1 \in K /\ part(n) # {}
    <3>1. PICK j \in part(n) : \A k \in part(n) : f[k] <= f[j]
      BY <1>2, <2>3
    <3>2. \A k \in part(n + 1) : k \in part(n) \/ k = n + 1
      OBVIOUS
    <3>3. j \in part(n + 1) /\ n + 1 \in part(n + 1)
      BY <2>3, <3>1
    <3>4. f[j] \in Nat /\ f[n + 1] \in Nat
      BY <2>3, <3>1
    <3>5. CASE f[n + 1] <= f[j]
      <4>1. \A k \in part(n + 1) : f[k] <= f[j]
        BY <3>1, <3>2, <3>5
      <4> QED  BY <2>0, <3>3, <4>1
    <3>6. CASE ~(f[n + 1] <= f[j])
      <4>1. \A k \in part(n + 1) : f[k] <= f[n + 1]
        BY <3>1, <3>2, <3>4, <3>6
      <4> QED  BY <2>0, <3>3, <4>1
    <3> QED  BY <3>5, <3>6
  <2> QED  BY <2>1, <2>2, <2>3
<1>3. m \in T
  <2> HIDE DEF T
  <2> QED  BY <1>1, <1>2, Induction
<1>4. \A k : k \in part(m) <=> k \in K
  BY <1>0
<1> QED  BY <1>3, <1>4

\* The middle is one of the elements.
LEMMA MiddleIn ==
    ASSUME NEW m \in Nat, NEW K, K \subseteq 1 .. m, K # {}, NEW f,
           \A k \in K : f[k] \in Nat
    PROVE  \E k \in K : G!Middle(f, K) = f[k]
<1> DEFINE V == {f[k] : k \in K}
           most(v) == G!Cardinality({k \in K : f[k] <= v})
                        > G!Cardinality(K) \div 2
           A == {v \in V : most(v)}
<1>1. IsFiniteSet(K) /\ Cardinality(K) \in Nat \ {0}
  <2>1. IsFiniteSet(1 .. m)
    BY FS_Interval
  <2>2. IsFiniteSet(K)
    BY <2>1, FS_Subset
  <2> QED  BY <2>2, FS_CardinalityType, FS_EmptySet
<1>2. PICK j \in K : \A k \in K : f[k] <= f[j]
  BY Largest
<1>3. most(f[j])
  <2>1. {k \in K : f[k] <= f[j]} = K
    BY <1>2
  <2>2. Cardinality(K) > Cardinality(K) \div 2
    BY <1>1
  <2> QED  BY <2>1, <2>2, WindowCount
<1>4. f[j] \in A /\ A \subseteq Nat
  BY <1>3
<1> HIDE DEF most
<1>5. PICK v \in A : \A u \in A : v <= u
  <2> HIDE DEF A
  <2> QED  BY <1>4, Least
<1>6. v \in V /\ most(v) /\ \A u \in V : u < v => ~most(u)
  <2>1. \A u \in V : u < v => ~most(u)
    <3>1. TAKE u \in V
    <3>2. HAVE u < v
    <3>3. u \in Nat /\ v \in Nat
      BY <1>4, <1>5
    <3>4. most(u) => v <= u
      BY <1>5
    <3> QED  BY <3>2, <3>3, <3>4
  <2> QED  BY <1>5, <2>1
<1>7. G!Middle(f, K) =
        CHOOSE x \in V : most(x) /\ \A u \in V : u < x => ~most(u)
  BY DEF G!Middle, most
<1>8. G!Middle(f, K) \in V
  <2> HIDE DEF V
  <2> QED  BY <1>6, <1>7
<1> QED  BY <1>8

LEMMA MedianIn ==
    ASSUME NEW w \in Seq(Nat)
    PROVE  /\ G!FiniteMedian(w) \in Nat
           /\ G!Finite(w) # {} =>
                 \E k \in G!Finite(w) : G!FiniteMedian(w) = w[k]
<1> DEFINE K == G!Finite(w)
<1>1. K \subseteq 1 .. Len(w) /\ \A k \in K : w[k] \in Nat
  BY DEF G!Finite
<1>2. CASE K = {}
  <2>1. G!FiniteMedian(w) = 0
    BY <1>2 DEF G!FiniteMedian, G!Middle
  <2> QED  BY <1>2, <2>1
<1>3. CASE K # {}
  <2>1. \E k \in K : G!Middle(w, K) = w[k]
    <3>1. Len(w) \in Nat
      OBVIOUS
    <3> HIDE DEF K
    <3> QED  BY <1>1, <1>3, <3>1, MiddleIn
  <2> QED  BY <1>1, <2>1 DEF G!FiniteMedian
<1> QED  BY <1>2, <1>3

-----------------------------------------------------------------------------
(* The geometry and the history of its frames.                             *)

SizeFields == {"frozen", "auth", "valid", "len", "height", "shape", "thick",
               "mode", "promo", "shrink", "expand"}
LockFields == {"active", "len", "height"}
Footprints == [len : Nat, quality : 0 .. 3, floor : Nat]

\* The last frames that the history keeps.
Remembered == G!Max2(ShapeWindow, Expand)

\* The geometry is well formed, and what it gathers after the freeze is empty
\* before.
Size(g) ==
    /\ g = [y \in SizeFields |-> g[y]]
    /\ g.len \in Nat /\ g.height \in Nat /\ g.promo \in Nat
    /\ g.shape \in Seq(Nat) /\ g.thick \in Seq(Nat) /\ g.shrink \in Seq(Nat)
    /\ g.expand.count \in Nat /\ g.expand.len \in Nat
    /\ g.expand.count < Expand /\ Len(g.shrink) <= ShapeWindow
    /\ ~g.frozen => g.shrink = <<>> /\ g.expand = G!NoExpand

\* What the thickness window holds while it waits for formal pairs, and the
\* promotion counts, are at most the n formal pairs that were seen.
FullPairs(g, n) ==
    \/ n >= ShapeFrames
    \/ /\ g.mode = "formal" /\ ~g.frozen => G!Measured(g.thick) <= n
       /\ g.promo <= n

\* The run that would let the footprint grow is the end of the history q.
Growing(g, q) ==
    /\ g.expand.count <= Len(q)
    /\ g.expand.count > 0 => g.expand.len > g.len
    /\ \A k \in 1 .. Len(q) :
          k > Len(q) - g.expand.count => G!Supports(q[k], g.expand.len)

\* What a window s that would let a size n shrink holds is at the end of q.
Shrunk(s, n, q) ==
    /\ Len(s) <= Len(q)
    /\ \A k \in 1 .. Len(s) :
          s[k] # 0 => LET o == q[Len(q) - Len(s) + k]
                      IN G!Smaller(o, n) /\ s[k] = o.len

Shrinking(g, q) == Shrunk(g.shrink, g.len, q)

GeometryInv ==
    /\ Size(geometryFusion)
    /\ lock = [y \in LockFields |-> lock[y]]
    /\ lock.len \in Nat /\ lock.height \in Nat
    /\ pairs \in Nat /\ recent \in Seq(Footprints)
    /\ ~geometryFusion.frozen => recent = <<>>
    /\ FullPairs(geometryFusion, pairs)
    /\ Growing(geometryFusion, recent) /\ Shrinking(geometryFusion, recent)

LEMMA WindowEmpty == G!Measured(<<>>) = 0
<1>1. G!Finite(<<>>) = {}
  BY DEF G!Finite
<1>2. Cardinality({}) = 0
  BY FS_EmptySet
<1> QED  BY <1>1, <1>2, WindowCount DEF G!Measured

LEMMA FreshSize ==
    ASSUME NEW n \in Nat
    PROVE  /\ Size(G!Fresh) /\ FullPairs(G!Fresh, n)
           /\ Growing(G!Fresh, <<>>) /\ Shrinking(G!Fresh, <<>>)
           /\ ~G!Fresh.frozen /\ G!Fresh.auth = "PENDING"
<1>1. Expand \in Nat \ {0} /\ ShapeWindow \in Nat \ {0}
      /\ ShapeFrames \in Nat \ {0}
  BY GeometryAssumption
<1>2. <<>> \in Seq(Nat) /\ Len(<<>>) = 0
  OBVIOUS
<1>3. Size(G!Fresh)
  BY <1>1, <1>2 DEF Size, SizeFields, G!Fresh, G!NoExpand
<1>4. FullPairs(G!Fresh, n)
  BY <1>1 DEF FullPairs, G!Fresh
<1>5. Growing(G!Fresh, <<>>) /\ Shrinking(G!Fresh, <<>>)
  BY <1>2 DEF Growing, Shrinking, Shrunk, G!Fresh, G!NoExpand
<1> QED  BY <1>3, <1>4, <1>5 DEF G!Fresh

LEMMA GeometryInit == G!Init => GeometryInv
<1> SUFFICES ASSUME G!Init PROVE GeometryInv
  OBVIOUS
<1> USE DEF G!Init
<1>1. geometryFusion = G!Fresh /\ pairs = 0 /\ recent = <<>>
  OBVIOUS
<1>2. lock = [y \in LockFields |-> lock[y]] /\ lock.len \in Nat
      /\ lock.height \in Nat
  BY DEF LockFields
<1> QED  BY <1>1, <1>2, FreshSize DEF GeometryInv

\* What the frame shows, from the lock it meets.
LEMMA GeometryFrameTyped ==
    ASSUME NEW i \in GeometryFrames, NEW l, l.len \in Nat, l.height \in Nat
    PROVE  LET f == G!GeometryFrame(i, l)
           IN /\ f.len \in Nat /\ f.quality \in 0 .. 3 /\ f.floor \in Nat
              /\ f.static \in Nat /\ f.live \in Nat
<1> DEFINE f == G!GeometryFrame(i, l)
<1>1. /\ i.len \in Nat /\ i.quality \in 0 .. 3 /\ i.floor \in Nat
      /\ i.static \in Nat /\ i.live \in Nat
  BY DEF GeometryFrames
<1>2. f.len \in {i.len, l.len} /\ f.floor = i.floor /\ f.static = i.static
      /\ f.live \in {i.live, l.height}
  BY DEF G!GeometryFrame
<1>3. f.quality \in {0, G!Max2(2, i.quality), i.quality}
  BY DEF G!GeometryFrame
<1>4. G!Max2(2, i.quality) \in 0 .. 3
  BY <1>1 DEF G!Max2
<1> QED  BY <1>1, <1>2, <1>3, <1>4

\* A new lifecycle, a gap or a new segment ends what was gathered, together
\* with the history it rests on.
LEMMA SegmentStep ==
    ASSUME GeometryInv, NEW i \in GeometryFrames, NEW new \in BOOLEAN
    PROVE  LET g == G!Segment(G!Continued(geometryFusion, i), new)
               n == IF i.life \/ new THEN 0 ELSE pairs
               q == IF i.life \/ i.gap \/ new THEN <<>> ELSE recent
           IN /\ Size(g) /\ FullPairs(g, n) /\ Growing(g, q) /\ Shrinking(g, q)
              /\ n \in Nat /\ q \in Seq(Footprints)
              /\ ~g.frozen => q = <<>>
              /\ g.auth = "FORMAL" => geometryFusion.auth = "FORMAL"
              /\ ~i.life => g.frozen = geometryFusion.frozen
                            /\ g.len = geometryFusion.len
              /\ i.life => ~g.frozen
<1> DEFINE h == geometryFusion
           c == G!Continued(h, i)
           x == [h EXCEPT !.shape = <<>>, !.thick = <<>>, !.promo = 0,
                          !.shrink = <<>>, !.expand = G!NoExpand]
           g == G!Segment(c, new)
           n == IF i.life \/ new THEN 0 ELSE pairs
           q == IF i.life \/ i.gap \/ new THEN <<>> ELSE recent
<1>1. Size(h) /\ pairs \in Nat /\ recent \in Seq(Footprints)
      /\ (~h.frozen => recent = <<>>) /\ FullPairs(h, pairs)
      /\ Growing(h, recent) /\ Shrinking(h, recent)
  BY DEF GeometryInv
<1>2. n \in Nat /\ q \in Seq(Footprints)
  BY <1>1
<1>3. CASE i.life
  <2>1. g = G!Fresh
    <3>1. G!Segment(G!Fresh, TRUE) = G!Fresh
      BY DEF G!Segment, G!Fresh
    <3>2. c = G!Fresh
      BY <1>3 DEF G!Continued
    <3> QED  BY <3>1, <3>2 DEF G!Segment
  <2>2. q = <<>> /\ n = 0
    BY <1>3
  <2> HIDE DEF g, q, n
  <2> QED  BY <1>2, <1>3, <2>1, <2>2, FreshSize DEF g, q, n
<1>4. CASE ~i.life /\ (i.gap \/ new)
  <2>1. g = x
    <3>1. x = [x EXCEPT !.shape = <<>>, !.thick = <<>>, !.promo = 0,
                        !.shrink = <<>>, !.expand = G!NoExpand]
      BY <1>1 DEF Size, SizeFields
    <3>2. c \in {h, x}
      BY <1>4 DEF G!Continued, G!Segment
    <3> QED  BY <1>4, <3>1, <3>2 DEF G!Segment, G!Continued
  <2>2. x = [y \in SizeFields |-> x[y]]
    BY <1>1 DEF Size, SizeFields
  <2>3. /\ x.mode = h.mode /\ x.frozen = h.frozen /\ x.len = h.len
        /\ x.auth = h.auth /\ x.thick = <<>> /\ x.promo = 0
        /\ x.shrink = <<>> /\ x.expand = G!NoExpand
        /\ x.height = h.height /\ x.shape = <<>>
    BY <1>1 DEF Size, SizeFields
  <2> HIDE DEF x
  <2>4. Size(x)
    <3>1. <<>> \in Seq(Nat) /\ Len(<<>>) = 0 /\ Expand \in Nat \ {0}
          /\ ShapeWindow \in Nat
      BY GeometryAssumption
    <3>2. h.len \in Nat /\ h.height \in Nat
      BY <1>1 DEF Size
    <3>3. x.expand.count = 0 /\ x.expand.len = 0
      BY <2>3 DEF G!NoExpand
    <3>4. x.shape \in Seq(Nat) /\ x.thick \in Seq(Nat)
          /\ x.shrink \in Seq(Nat) /\ Len(x.shrink) = 0
      BY <2>3, <3>1
    <3>5. ~x.frozen => x.shrink = <<>> /\ x.expand = G!NoExpand
      BY <2>3
    <3>6. x.len \in Nat /\ x.height \in Nat /\ x.promo \in Nat
      BY <2>3, <3>2
    <3>7. x.expand.count < Expand /\ Len(x.shrink) <= ShapeWindow
      BY <3>1, <3>3, <3>4
    <3> QED  BY <2>2, <3>3, <3>4, <3>5, <3>6, <3>7 DEF Size
  <2>5. FullPairs(x, n)
    BY <1>2, <2>3, WindowEmpty DEF FullPairs
  <2>6. Growing(x, <<>>) /\ Shrinking(x, <<>>)
    BY <2>3 DEF Growing, Shrinking, Shrunk, G!NoExpand
  <2>7. q = <<>>
    BY <1>4
  <2> HIDE DEF g, q, n
  <2> QED  BY <1>2, <1>4, <2>1, <2>3, <2>4, <2>5, <2>6, <2>7 DEF g, q, n
<1>5. CASE ~i.life /\ ~i.gap /\ ~new
  <2>1. g = h /\ q = recent /\ n = pairs
    BY <1>5 DEF G!Segment, G!Continued
  <2> HIDE DEF g, q, n
  <2> QED  BY <1>1, <1>2, <1>5, <2>1 DEF g, q, n
<1> QED  BY <1>3, <1>4, <1>5

-----------------------------------------------------------------------------
(* CargoGeometry: before the freeze.                                       *)

\* What a frame must show to be used at all.
Footed(f) ==
    /\ f.len \in Nat /\ f.quality \in 0 .. 3 /\ f.floor \in Nat
    /\ f.static \in Nat /\ f.live \in Nat

\* The formal pairs seen, with this frame.
Counted(f, n) ==
    IF G!Pair(f) /\ f.sure /\ f.centre THEN G!Min2(n + 1, ShapeFrames) ELSE n

LEMMA CountedGrows ==
    ASSUME NEW n \in Nat, NEW f
    PROVE  /\ Counted(f, n) \in Nat
           /\ Counted(f, n) >= ShapeFrames \/ Counted(f, n) >= n
           /\ n >= ShapeFrames => Counted(f, n) >= ShapeFrames
           /\ G!Pair(f) /\ f.sure /\ f.centre =>
                 Counted(f, n) >= ShapeFrames \/ Counted(f, n) = n + 1
<1>1. ShapeFrames \in Nat
  BY GeometryAssumption
<1>2. G!Min2(n + 1, ShapeFrames) \in {n + 1, ShapeFrames}
      /\ (n >= ShapeFrames => G!Min2(n + 1, ShapeFrames) = ShapeFrames)
  BY <1>1 DEF G!Min2
<1> QED  BY <1>1, <1>2 DEF Counted

LEMMA FusedNat ==
    ASSUME NEW f, Footed(f)
    PROVE  G!Fused(f) \subseteq Nat
<1>1. f.static \in Nat /\ f.live \in Nat
  BY DEF Footed
<1>2. G!Max2(f.static, f.live) \in Nat /\ G!Min2(f.static, f.live) \in Nat
  BY <1>1 DEF G!Max2, G!Min2
<1> QED  BY <1>2 DEF G!Fused

\* The frame takes its place in the windows, and the thickness window serves
\* one kind of evidence.
LEMMA ModeStep ==
    ASSUME NEW g, Size(g), ~g.frozen, NEW n \in Nat, FullPairs(g, n),
           NEW f, Footed(f)
    PROVE  LET o == G!Observe(g, f)
               m == G!Mode(o, f)
           IN /\ Size(o) /\ FullPairs(o, n) /\ ~o.frozen /\ o.auth = g.auth
              /\ Size(m) /\ FullPairs(m, n) /\ ~m.frozen /\ m.auth = g.auth
              /\ m.thick # <<>> /\ (m.mode = "formal" => G!Pair(f))
<1> DEFINE v == IF f.quality >= 1 THEN f.len ELSE 0
           wide == G!Push(g.shape, v)
           high == G!Push(g.thick, 0)
           o == G!Observe(g, f)
           kind == IF G!Pair(f) THEN "formal" ELSE "positive"
           x == [o EXCEPT !.mode = kind, !.thick = <<0>>]
           m == G!Mode(o, f)
<1>1. v \in Nat
  BY DEF Footed
<1>2. g.shape \in Seq(Nat) /\ g.thick \in Seq(Nat)
  BY DEF Size
<1>3. /\ wide \in Seq(Nat) /\ high \in Seq(Nat) /\ high # <<>>
      /\ G!Measured(high) <= G!Measured(g.thick)
  <2> HIDE DEF v
  <2> QED  BY <1>1, <1>2, Pushed
<1>4. G!Measured(high) \in Nat /\ G!Measured(g.thick) \in Nat
  <2> HIDE DEF high
  <2> QED  BY <1>2, <1>3, MeasuredNat
<1>5. o = [g EXCEPT !.shape = wide, !.thick = high]
  BY DEF G!Observe
<1> HIDE DEF v, wide, high, o, kind, x, m
<1>6. /\ o = [y \in SizeFields |-> o[y]]
      /\ o.shape = wide /\ o.thick = high /\ o.frozen = g.frozen
      /\ o.len = g.len /\ o.height = g.height /\ o.promo = g.promo
      /\ o.shrink = g.shrink /\ o.expand = g.expand /\ o.mode = g.mode
      /\ o.auth = g.auth
  BY <1>5 DEF Size, SizeFields
<1>7. Size(o)
  BY <1>3, <1>6 DEF Size
<1>8. FullPairs(o, n)
  <2>1. ShapeFrames \in Nat
    BY GeometryAssumption
  <2> QED  BY <1>3, <1>4, <1>6, <2>1 DEF FullPairs
<1>9. /\ x = [y \in SizeFields |-> x[y]]
      /\ x.shape = wide /\ x.thick = <<0>> /\ x.frozen = g.frozen
      /\ x.len = g.len /\ x.height = g.height /\ x.promo = g.promo
      /\ x.shrink = g.shrink /\ x.expand = g.expand /\ x.mode = kind
      /\ x.auth = g.auth
  BY <1>6 DEF x, SizeFields
<1>10. /\ <<0>> \in Seq(Nat) /\ <<0>> # <<>> /\ G!Measured(<<0>>) = 0
  <2>1. G!Finite(<<0>>) = {}
    BY DEF G!Finite
  <2>2. G!Measured(<<0>>) = 0
    BY <2>1, FS_EmptySet, WindowCount DEF G!Measured
  <2> QED  BY <2>2
<1>11. Size(x) /\ FullPairs(x, n)
  <2>1. Size(x)
    BY <1>3, <1>9, <1>10 DEF Size
  <2>2. FullPairs(x, n)
    BY <1>9, <1>10 DEF FullPairs
  <2> QED  BY <2>1, <2>2
<1>12. m \in {o, x} /\ m.mode = kind
  BY <1>6, <1>9 DEF m, x, kind, G!Mode
<1>13. m.thick # <<>> /\ ~m.frozen /\ m.auth = g.auth
  BY <1>3, <1>6, <1>9, <1>10, <1>12
<1>14. m.mode = "formal" => G!Pair(f)
  BY <1>12 DEF kind
<1> QED  BY <1>6, <1>7, <1>8, <1>11, <1>12, <1>13, <1>14 DEF m, o

\* The geometry freezes FORMAL only when its window holds enough pairs.
LEMMA FreezeStep ==
    ASSUME NEW g, Size(g), ~g.frozen, g.thick # <<>>, NEW n \in Nat,
           FullPairs(g, n), NEW f, Footed(f), NEW h \in Nat, f.centre,
           G!Pair(f) => f.sure /\ g.mode = "formal",
           g.mode = "formal" => G!Pair(f)
    PROVE  LET p == G!Freeze(g, f, h)
           IN /\ Size(p) /\ FullPairs(p, Counted(f, n))
              /\ p.shrink = <<>> /\ p.expand = G!NoExpand
              /\ p.auth = "FORMAL" =>
                    g.auth = "FORMAL" \/ Counted(f, n) >= ShapeFrames
<1> DEFINE t == [g.thick EXCEPT ![Len(g.thick)] = h]
           robust == G!FiniteMedian(t)
           near == {k \in G!Finite(t) : h = robust /\ t[k] = robust}
           need == IF G!Pair(f) THEN ShapeFrames ELSE Positive
           enough == /\ G!Cardinality(near) >= need
                     /\ G!Measured(g.shape) >= need
                     /\ G!FiniteMad(g.shape) <= Mad
           wide == G!Max2(G!FiniteMedian(g.shape), f.floor)
           kind == IF G!Pair(f) THEN "FORMAL" ELSE "POSITIVE_ONLY"
           x == [G!Fresh EXCEPT !.frozen = TRUE, !.valid = TRUE,
                                !.auth = kind, !.len = wide,
                                !.height = robust]
           z == [g EXCEPT !.thick = t, !.valid = FALSE]
           p == G!Freeze(g, f, h)
           m == Counted(f, n)
<1>1. p = IF enough THEN x ELSE z
  BY DEF G!Freeze
<1>2. ShapeFrames \in Nat
  BY GeometryAssumption
<1>3. /\ m \in Nat /\ (m >= ShapeFrames \/ m >= n)
      /\ (n >= ShapeFrames => m >= ShapeFrames)
      /\ (G!Pair(f) => m >= ShapeFrames \/ m = n + 1)
  BY CountedGrows
<1>4. g.thick \in Seq(Nat) /\ g.shape \in Seq(Nat)
  BY DEF Size
<1>5. t \in Seq(Nat) /\ G!Measured(t) <= G!Measured(g.thick) + 1
  BY <1>4, Entered
<1> HIDE DEF t
<1>6. /\ G!Measured(t) \in Nat /\ G!Measured(g.thick) \in Nat
      /\ IsFiniteSet(G!Finite(t)) /\ G!Measured(t) = Cardinality(G!Finite(t))
  BY <1>4, <1>5, MeasuredNat, WindowCount DEF G!Measured
<1>7. G!Pair(f) => n >= ShapeFrames \/ G!Measured(t) <= n + 1
  BY <1>2, <1>5, <1>6 DEF FullPairs
<1>8. CASE enough
  <2>1. p = x
    BY <1>1, <1>8
  <2>2. robust \in Nat /\ wide \in Nat
    <3>1. f.floor \in Nat
      BY DEF Footed
    <3>2. robust \in Nat /\ G!FiniteMedian(g.shape) \in Nat
      BY <1>4, <1>5, MedianIn
    <3> HIDE DEF robust
    <3> QED  BY <3>1, <3>2 DEF G!Max2
  <2>3. G!Pair(f) => m >= ShapeFrames
    <3>1. HAVE G!Pair(f)
    <3>2. G!Cardinality(near) >= ShapeFrames
      <4> HIDE DEF near
      <4> QED  BY <1>8, <3>1
    <3>3. near \subseteq G!Finite(t)
      OBVIOUS
    <3> HIDE DEF near
    <3>4. Cardinality(near) <= Cardinality(G!Finite(t)) /\ IsFiniteSet(near)
      BY <1>6, <3>3, FS_Subset
    <3>5. Cardinality(near) \in Nat
      BY <3>4, FS_CardinalityType
    <3>6. G!Measured(t) >= ShapeFrames
      BY <1>2, <1>6, <3>2, <3>4, <3>5, WindowCount
    <3> QED  BY <1>2, <1>3, <1>6, <1>7, <3>1, <3>6
  <2> HIDE DEF robust, wide, kind, x
  <2>4. /\ x = [y \in SizeFields |-> x[y]] /\ x.frozen /\ x.auth = kind
        /\ x.len = wide /\ x.height = robust /\ x.shape = <<>>
        /\ x.thick = <<>> /\ x.promo = 0 /\ x.shrink = <<>>
        /\ x.expand = G!NoExpand
    BY DEF x, SizeFields, G!Fresh
  <2>5. Size(x)
    <3>1. x.expand.count = 0 /\ x.expand.len = 0 /\ 0 < Expand
          /\ ShapeWindow \in Nat
      BY <2>4, GeometryAssumption DEF G!NoExpand
    <3>2. /\ x.shape \in Seq(Nat) /\ x.thick \in Seq(Nat)
          /\ x.shrink \in Seq(Nat) /\ Len(x.shrink) = 0
      <4>1. <<>> \in Seq(Nat) /\ Len(<<>>) = 0
        OBVIOUS
      <4> QED  BY <2>4, <4>1
    <3>3. x.len \in Nat /\ x.height \in Nat /\ x.promo \in Nat
      BY <2>2, <2>4
    <3> QED  BY <2>4, <3>1, <3>2, <3>3 DEF Size
  <2>6. FullPairs(x, m)
    BY <1>2, <1>3, <2>4 DEF FullPairs
  <2>7. x.auth = "FORMAL" => m >= ShapeFrames
    BY <2>3, <2>4 DEF kind
  <2> HIDE DEF p, m
  <2> QED  BY <2>1, <2>4, <2>5, <2>6, <2>7 DEF p, m
<1>9. CASE ~enough
  <2>1. p = z
    BY <1>1, <1>9
  <2> HIDE DEF z
  <2>2. /\ z = [y \in SizeFields |-> z[y]] /\ z.frozen = g.frozen
        /\ z.len = g.len /\ z.height = g.height /\ z.shape = g.shape
        /\ z.thick = t /\ z.promo = g.promo /\ z.shrink = g.shrink
        /\ z.expand = g.expand /\ z.auth = g.auth /\ z.mode = g.mode
    BY DEF z, Size, SizeFields
  <2>3. Size(z)
    BY <1>5, <2>2 DEF Size
  <2>4. FullPairs(z, m)
    <3>1. g.promo \in Nat
      BY DEF Size
    <3>2. n >= ShapeFrames \/ g.promo <= n
      BY DEF FullPairs
    <3> HIDE DEF m
    <3>3. m >= ShapeFrames \/ z.promo <= m
      BY <1>2, <1>3, <2>2, <3>1, <3>2
    <3>4. z.mode = "formal" => m >= ShapeFrames \/ G!Measured(z.thick) <= m
      BY <1>2, <1>3, <1>6, <1>7, <2>2
    <3> QED  BY <3>3, <3>4 DEF FullPairs
  <2>5. z.shrink = <<>> /\ z.expand = G!NoExpand
    BY <2>2 DEF Size
  <2> HIDE DEF p, m
  <2> QED  BY <2>1, <2>2, <2>3, <2>4, <2>5 DEF p, m
<1> QED  BY <1>8, <1>9

LEMMA GatheringStep ==
    ASSUME NEW g, Size(g), ~g.frozen, NEW n \in Nat, FullPairs(g, n),
           NEW f, Footed(f), NEW p \in G!Gathering(g, f)
    PROVE  /\ Size(p) /\ FullPairs(p, Counted(f, n))
           /\ p.shrink = <<>> /\ p.expand = G!NoExpand
           /\ p.auth = "FORMAL" =>
                 g.auth = "FORMAL" \/ Counted(f, n) >= ShapeFrames
<1> DEFINE o == G!Observe(g, f)
           m == G!Mode(o, f)
           q == Counted(f, n)
<1>1. /\ Size(o) /\ FullPairs(o, n) /\ ~o.frozen /\ o.auth = g.auth
      /\ Size(m) /\ FullPairs(m, n) /\ ~m.frozen /\ m.auth = g.auth
      /\ m.thick # <<>> /\ (m.mode = "formal" => G!Pair(f))
  BY ModeStep
<1>2. G!Pair(f) => m.mode = "formal"
  BY <1>1 DEF G!Mode, Size, SizeFields
<1>3. /\ q \in Nat /\ ShapeFrames \in Nat /\ (q >= ShapeFrames \/ q >= n)
      /\ (n >= ShapeFrames => q >= ShapeFrames)
  BY CountedGrows, GeometryAssumption
\* A frame that is not used leaves everything but valid.
<1>4. ASSUME NEW x, Size(x), FullPairs(x, n), ~x.frozen, x.auth = g.auth,
             p = [x EXCEPT !.valid = FALSE]
      PROVE  /\ Size(p) /\ FullPairs(p, q)
             /\ p.shrink = <<>> /\ p.expand = G!NoExpand
             /\ p.auth = g.auth
  <2>1. /\ p = [y \in SizeFields |-> p[y]] /\ p.frozen = x.frozen
        /\ p.len = x.len /\ p.height = x.height /\ p.shape = x.shape
        /\ p.thick = x.thick /\ p.promo = x.promo /\ p.shrink = x.shrink
        /\ p.expand = x.expand /\ p.auth = x.auth /\ p.mode = x.mode
    BY <1>4 DEF Size, SizeFields
  <2>2. Size(p)
    BY <1>4, <2>1 DEF Size
  <2>3. G!Measured(p.thick) \in Nat /\ p.promo \in Nat
    BY <2>2, MeasuredNat DEF Size
  <2>4. FullPairs(p, q)
    <3> HIDE DEF q
    <3> QED  BY <1>3, <1>4, <2>1, <2>3 DEF FullPairs
  <2> QED  BY <1>4, <2>1, <2>2, <2>4 DEF Size
<1>5. CASE ~f.centre
  <2>1. p = [o EXCEPT !.valid = FALSE]
    BY <1>5 DEF G!Gathering
  <2> HIDE DEF o, q
  <2> QED  BY <1>1, <1>4, <2>1 DEF q
<1>6. CASE f.centre /\ p = [m EXCEPT !.valid = FALSE]
  <2> HIDE DEF m, q
  <2> QED  BY <1>1, <1>4, <1>6 DEF q
<1>7. CASE f.centre /\ p # [m EXCEPT !.valid = FALSE]
  <2>1. p \in {G!Freeze(m, f, h) : h \in G!Fused(f)} /\ (G!Pair(f) => f.sure)
    <3> HIDE DEF m
    <3> QED  BY <1>7 DEF G!Gathering, m, o
  <2>2. PICK h \in G!Fused(f) : p = G!Freeze(m, f, h)
    BY <2>1
  <2>3. h \in Nat
    BY FusedNat
  <2> HIDE DEF m, q
  <2> QED  BY <1>1, <1>2, <1>7, <2>1, <2>2, <2>3, FreezeStep DEF q
<1> QED  BY <1>5, <1>6, <1>7

-----------------------------------------------------------------------------
(* CargoGeometry: after the freeze.                                        *)

LEMMA RememberedBound ==
    /\ Remembered \in Nat \ {0} /\ ShapeWindow \in Nat \ {0}
    /\ Expand \in Nat \ {0}
    /\ ShapeWindow <= Remembered /\ Expand <= Remembered
BY GeometryAssumption DEF Remembered, G!Max2

\* The history after a frame: the frame, behind the end of the history.
Behind(q, f, r) ==
    /\ Len(r) >= 1 /\ r[Len(r)] = G!Footprint(f)
    /\ \A c \in Nat : c <= Len(q) /\ c < Remembered => c + 1 <= Len(r)
    /\ \A j \in 0 .. (Len(r) - 2) :
          /\ Len(q) - j \in 1 .. Len(q) /\ Len(r) - 1 - j \in 1 .. Len(r)
          /\ r[Len(r) - 1 - j] = q[Len(q) - j]

LEMMA HistoryStep ==
    ASSUME NEW q \in Seq(Footprints), NEW f, Footed(f)
    PROVE  /\ G!Slide(q, G!Footprint(f), Remembered) \in Seq(Footprints)
           /\ Behind(q, f, G!Slide(q, G!Footprint(f), Remembered))
<1> DEFINE v == G!Footprint(f)
           r == G!Slide(q, v, Remembered)
<1>1. v \in Footprints
  BY DEF Footed, Footprints, G!Footprint
<1>2. Remembered \in Nat \ {0}
  BY RememberedBound
<1> HIDE DEF v
<1>3. /\ r \in Seq(Footprints)
      /\ Len(q) < Remembered => SlidBy(q, v, r, 0)
      /\ Len(q) >= Remembered => SlidBy(q, v, r, 1)
  BY <1>1, <1>2, Slid
<1> HIDE DEF r
<1>4. Len(q) \in Nat /\ Len(r) \in Nat
  BY <1>3
<1>5. PICK d \in {0, 1} : SlidBy(q, v, r, d)
                          /\ (d = 1 => Len(q) >= Remembered)
  <2>1. CASE Len(q) < Remembered
    BY <1>3, <2>1
  <2>2. CASE Len(q) >= Remembered
    BY <1>3, <2>2
  <2> QED  BY <1>2, <1>4, <2>1, <2>2
<1>6. Len(r) = Len(q) + 1 - d /\ Len(r) >= 1 /\ r[Len(r)] = v
  BY <1>4, <1>5 DEF SlidBy
<1>7. ASSUME NEW c \in Nat, c <= Len(q), c < Remembered
      PROVE  c + 1 <= Len(r)
  BY <1>2, <1>4, <1>5, <1>6, <1>7
<1>8. ASSUME NEW j \in 0 .. (Len(r) - 2)
      PROVE  /\ Len(q) - j \in 1 .. Len(q) /\ Len(r) - 1 - j \in 1 .. Len(r)
             /\ r[Len(r) - 1 - j] = q[Len(q) - j]
  <2>1. Len(r) - 1 - j \in 1 .. (Len(r) - 1)
    BY <1>4, <1>8
  <2>2. (Len(r) - 1 - j) + d = Len(q) - j
    BY <1>4, <1>6
  <2>3. /\ (Len(r) - 1 - j) + d \in 1 .. Len(q)
        /\ r[Len(r) - 1 - j] = q[(Len(r) - 1 - j) + d]
    BY <1>5, <2>1 DEF SlidBy
  <2> QED  BY <1>4, <2>1, <2>2, <2>3
<1>9. Behind(q, f, r)
  BY <1>6, <1>7, <1>8 DEF Behind, v
<1> QED  BY <1>3, <1>9 DEF r, v

\* A frame enters the shrink window as a smaller footprint or as nothing.
LEMMA ShrunkStep ==
    ASSUME NEW s \in Seq(Nat), Len(s) <= ShapeWindow, NEW n \in Nat,
           NEW q \in Seq(Footprints), Shrunk(s, n, q),
           NEW f, NEW v \in Nat,
           v # 0 => G!Smaller(G!Footprint(f), n) /\ v = G!Footprint(f).len,
           NEW r \in Seq(Footprints), Behind(q, f, r)
    PROVE  Shrunk(G!Push(s, v), n, r) /\ Len(G!Push(s, v)) <= ShapeWindow
<1> DEFINE w == G!Push(s, v)
<1>1. ShapeWindow \in Nat \ {0} /\ Remembered \in Nat
      /\ ShapeWindow <= Remembered
  BY RememberedBound
<1>2. w \in Seq(Nat)
  BY Pushed
<1>3. PICK d \in {0, 1} : /\ SlidBy(s, v, w, d)
                          /\ (d = 0 => Len(s) < ShapeWindow)
                          /\ (d = 1 => Len(s) >= ShapeWindow)
  <2>1. /\ Len(s) < ShapeWindow => SlidBy(s, v, w, 0)
        /\ Len(s) >= ShapeWindow => SlidBy(s, v, w, 1)
    BY <1>1, Slid DEF G!Push
  <2> HIDE DEF w
  <2>2. CASE Len(s) < ShapeWindow
    BY <2>1, <2>2
  <2>3. CASE Len(s) >= ShapeWindow
    BY <2>1, <2>3
  <2> QED  BY <1>1, <2>2, <2>3
<1> HIDE DEF w
<1>4. Len(s) \in Nat /\ Len(w) \in Nat /\ Len(q) \in Nat /\ Len(r) \in Nat
  BY <1>2
<1>5. Len(w) = Len(s) + 1 - d /\ w[Len(w)] = v /\ Len(s) <= Len(q)
  BY <1>3 DEF SlidBy, Shrunk
<1>6. Len(w) <= ShapeWindow
  BY <1>1, <1>3, <1>4, <1>5
<1>7. Len(w) <= Len(r)
  <2>1. CASE d = 0
    <3>1. Len(s) < Remembered
      BY <1>1, <1>3, <1>4, <2>1
    <3>2. Len(s) + 1 <= Len(r)
      BY <1>4, <1>5, <3>1 DEF Behind
    <3> QED  BY <1>4, <1>5, <2>1, <3>2
  <2>2. CASE d = 1
    <3>1. Len(w) = Len(s) /\ Len(s) \in Nat \ {0}
      BY <1>1, <1>3, <1>4, <1>5, <2>2
    <3>2. /\ Len(s) - 1 \in Nat /\ Len(s) - 1 <= Len(q)
          /\ Len(s) - 1 < Remembered
      BY <1>1, <1>4, <1>5, <3>1
    <3>3. (Len(s) - 1) + 1 <= Len(r)
      BY <3>2 DEF Behind
    <3> QED  BY <1>4, <3>1, <3>3
  <2> QED  BY <2>1, <2>2
<1>8. ASSUME NEW k \in 1 .. Len(w), w[k] # 0
      PROVE  LET o == r[Len(r) - Len(w) + k]
             IN G!Smaller(o, n) /\ w[k] = o.len
  <2>1. CASE k = Len(w)
    <3>1. Len(r) - Len(w) + k = Len(r)
      BY <1>4, <2>1
    <3>2. r[Len(r)] = G!Footprint(f) /\ w[k] = v
      BY <1>5, <2>1 DEF Behind
    <3> QED  BY <1>8, <3>1, <3>2
  <2>2. CASE k # Len(w)
    <3> DEFINE j == Len(w) - 1 - k
    <3>1. /\ k \in 1 .. (Len(w) - 1) /\ j \in 0 .. (Len(r) - 2)
          /\ Len(r) - 1 - j = Len(r) - Len(w) + k
          /\ Len(q) - j = Len(q) - Len(s) + (k + d)
      BY <1>4, <1>5, <1>7, <2>2
    <3>2. k + d \in 1 .. Len(s) /\ w[k] = s[k + d]
      BY <1>3, <3>1 DEF SlidBy
    <3>3. r[Len(r) - 1 - j] = q[Len(q) - j]
      <4> HIDE DEF j
      <4> QED  BY <3>1 DEF Behind
    <3>4. /\ G!Smaller(q[Len(q) - Len(s) + (k + d)], n)
          /\ s[k + d] = q[Len(q) - Len(s) + (k + d)].len
      BY <1>8, <3>2 DEF Shrunk
    <3>5. r[Len(r) - Len(w) + k] = q[Len(q) - Len(s) + (k + d)]
      <4> HIDE DEF j
      <4> QED  BY <3>1, <3>3
    <3> QED  BY <3>2, <3>4, <3>5
  <2> QED  BY <2>1, <2>2
<1>9. Shrunk(w, n, r)
  BY <1>7, <1>8 DEF Shrunk
<1> QED  BY <1>6, <1>9 DEF w

\* What the window holds is in as many frames of the history.
LEMMA ShrunkCount ==
    ASSUME NEW s \in Seq(Nat), NEW n \in Nat, NEW r \in Seq(Footprints),
           Shrunk(s, n, r)
    PROVE  G!Measured(s)
             <= G!Cardinality({k \in 1 .. Len(r) : G!Smaller(r[k], n)})
<1> DEFINE K == G!Finite(s)
           small == {k \in 1 .. Len(r) : G!Smaller(r[k], n)}
           f == [k \in K |-> Len(r) - Len(s) + k]
<1>1. Len(s) \in Nat /\ Len(r) \in Nat /\ Len(s) <= Len(r)
  BY DEF Shrunk
<1>2. K \subseteq 1 .. Len(s) /\ \A k \in K : s[k] # 0
  BY DEF G!Finite
<1>3. IsFiniteSet(small)
  <2>1. IsFiniteSet(1 .. Len(r))
    BY <1>1, FS_Interval
  <2> QED  BY <2>1, FS_Subset
<1> HIDE DEF K
<1>4. \A k \in K : Len(r) - Len(s) + k \in small
  <2>1. TAKE k \in K
  <2>2. Len(r) - Len(s) + k \in 1 .. Len(r)
    BY <1>1, <1>2
  <2>3. G!Smaller(r[Len(r) - Len(s) + k], n)
    BY <1>2 DEF Shrunk
  <2> QED  BY <2>2, <2>3
<1> HIDE DEF small
<1>5. f \in Injection(K, small)
  <2>1. f \in [K -> small]
    BY <1>4
  <2>2. \A a, b \in K : f[a] = f[b] => a = b
    BY <1>1, <1>2
  <2> QED  BY <2>1, <2>2 DEF Injection, IsInjective
<1>6. Cardinality(K) <= Cardinality(small)
  BY <1>3, <1>5, FS_Injection
<1> QED  BY <1>6, WindowCount DEF small, K, G!Measured

LEMMA PromoteStep ==
    ASSUME NEW g, Size(g), g.frozen, NEW n \in Nat, FullPairs(g, n),
           NEW f, Footed(f), NEW p \in G!Promote(g, f)
    PROVE  /\ Size(p) /\ FullPairs(p, Counted(f, n)) /\ p.frozen = g.frozen
           /\ p.len = g.len /\ p.shrink = g.shrink /\ p.expand = g.expand
           /\ p.auth = "FORMAL" =>
                 g.auth = "FORMAL" \/ Counted(f, n) >= ShapeFrames
<1> DEFINE fits == f.centre /\ f.quality >= 2 /\ G!Pair(f) /\ f.sure
           run == IF fits THEN g.promo + 1 ELSE 0
           m == Counted(f, n)
<1>1. /\ m \in Nat /\ (m >= ShapeFrames \/ m >= n)
      /\ (n >= ShapeFrames => m >= ShapeFrames)
      /\ (fits => m >= ShapeFrames \/ m = n + 1)
      /\ ShapeFrames \in Nat \ {0}
  BY CountedGrows, GeometryAssumption
<1>2. g.promo \in Nat /\ (n >= ShapeFrames \/ g.promo <= n)
  BY DEF Size, FullPairs
<1>3. run \in Nat /\ (m >= ShapeFrames \/ run <= m)
  <2> HIDE DEF m, fits
  <2> QED  BY <1>1, <1>2
<1>4. \/ p = g /\ g.auth = "FORMAL"
      \/ /\ run >= ShapeFrames
         /\ \E h \in G!Fused(f) :
               p = [g EXCEPT !.auth = "FORMAL", !.promo = 0, !.height = h]
      \/ p = [g EXCEPT !.promo = run]
  BY DEF G!Promote
<1> HIDE DEF run, m, fits
<1>5. CASE p = g /\ g.auth = "FORMAL"
  <2>1. FullPairs(g, m)
    BY <1>1, <1>2 DEF FullPairs, m
  <2> QED  BY <1>5, <2>1 DEF m
<1>6. CASE /\ run >= ShapeFrames
           /\ \E h \in G!Fused(f) :
                 p = [g EXCEPT !.auth = "FORMAL", !.promo = 0, !.height = h]
  <2>1. PICK h \in Nat :
           p = [g EXCEPT !.auth = "FORMAL", !.promo = 0, !.height = h]
    BY <1>6, FusedNat
  <2>2. /\ p = [y \in SizeFields |-> p[y]] /\ p.frozen = g.frozen
        /\ p.len = g.len /\ p.height = h /\ p.shape = g.shape
        /\ p.thick = g.thick /\ p.promo = 0 /\ p.shrink = g.shrink
        /\ p.expand = g.expand /\ p.mode = g.mode
    BY <2>1 DEF Size, SizeFields
  <2>3. Size(p)
    BY <2>2 DEF Size
  <2>4. m >= ShapeFrames
    BY <1>1, <1>3, <1>6
  <2>5. FullPairs(p, m)
    BY <2>4 DEF FullPairs
  <2> QED  BY <2>2, <2>3, <2>4, <2>5 DEF m
<1>7. CASE p = [g EXCEPT !.promo = run]
  <2>1. /\ p = [y \in SizeFields |-> p[y]] /\ p.frozen = g.frozen
        /\ p.len = g.len /\ p.height = g.height /\ p.shape = g.shape
        /\ p.thick = g.thick /\ p.promo = run /\ p.shrink = g.shrink
        /\ p.expand = g.expand /\ p.mode = g.mode /\ p.auth = g.auth
    BY <1>7 DEF Size, SizeFields
  <2>2. Size(p)
    BY <1>3, <2>1 DEF Size
  <2>3. FullPairs(p, m)
    BY <1>3, <2>1 DEF FullPairs
  <2> QED  BY <2>1, <2>2, <2>3 DEF m
<1> QED  BY <1>4, <1>5, <1>6, <1>7

\* What a frame may do to the size: grow to what a whole run measured, or to
\* the floor; shrink on enough smaller measurements.
Sized(a, b, r) ==
    /\ b > a =>
          \/ /\ Len(r) >= Expand
             /\ \A k \in (Len(r) - Expand + 1) .. Len(r) : G!Supports(r[k], b)
          \/ b = r[Len(r)].floor
    /\ b < a =>
          G!Cardinality({k \in 1 .. Len(r) : G!Smaller(r[k], a)}) >= Shrink

\* A record that keeps all but size, runs and window keeps its form.
Resized(g, p) ==
    /\ p = [y \in SizeFields |-> p[y]] /\ p.frozen = g.frozen
    /\ p.height = g.height /\ p.shape = g.shape /\ p.thick = g.thick
    /\ p.promo = g.promo /\ p.mode = g.mode /\ p.auth = g.auth

LEMMA ResizedSize ==
    ASSUME NEW g, Size(g), g.frozen, NEW p, Resized(g, p), p.len \in Nat,
           p.shrink \in Seq(Nat), Len(p.shrink) <= ShapeWindow,
           p.expand.count \in Nat, p.expand.count < Expand,
           p.expand.len \in Nat
    PROVE  Size(p) /\ p.frozen
<1>1. g.height \in Nat /\ g.promo \in Nat /\ g.shape \in Seq(Nat)
      /\ g.thick \in Seq(Nat)
  BY DEF Size
<1>2. p.frozen = g.frozen /\ p.height \in Nat /\ p.promo \in Nat
      /\ p.shape \in Seq(Nat) /\ p.thick \in Seq(Nat)
      /\ p = [y \in SizeFields |-> p[y]]
  BY <1>1 DEF Resized
<1> QED  BY <1>2 DEF Size

LEMMA NoRun ==
    ASSUME NEW p, p.expand = G!NoExpand, NEW r \in Seq(Footprints)
    PROVE  Growing(p, r) /\ p.expand.count = 0 /\ p.expand.len = 0
<1>1. p.expand.count = 0 /\ p.expand.len = 0
  BY DEF G!NoExpand
<1>2. Len(r) \in Nat
  OBVIOUS
<1> QED  BY <1>1, <1>2 DEF Growing

LEMMA NoWindow ==
    ASSUME NEW p, p.shrink = <<>>, NEW r \in Seq(Footprints)
    PROVE  /\ Shrinking(p, r) /\ p.shrink \in Seq(Nat)
           /\ Len(p.shrink) = 0
<1>1. p.shrink \in Seq(Nat) /\ Len(p.shrink) = 0 /\ Len(r) \in Nat
  OBVIOUS
<1> QED  BY <1>1 DEF Shrinking, Shrunk

LEMMA GrowStep ==
    ASSUME NEW g, Size(g), g.frozen, NEW q \in Seq(Footprints),
           Growing(g, q), NEW f, Footed(f), f.quality = 3, f.len > g.len,
           NEW r \in Seq(Footprints), Behind(q, f, r)
    PROVE  LET p == G!Grow(g, f)
           IN /\ Size(p) /\ Growing(p, r) /\ Shrinking(p, r)
              /\ Sized(g.len, p.len, r) /\ Resized(g, p)
<1> DEFINE n == g.expand.count + 1
           l == IF n = 1 THEN f.len ELSE G!Min2(g.expand.len, f.len)
           e == [count |-> n, len |-> l]
           x == [g EXCEPT !.len = l, !.expand = G!NoExpand, !.shrink = <<>>]
           z == [g EXCEPT !.expand = e, !.shrink = <<>>]
           p == G!Grow(g, f)
<1>1. p = IF n >= Expand THEN x ELSE z
  BY DEF G!Grow
<1>2. /\ g.expand.count \in Nat /\ g.expand.len \in Nat /\ g.len \in Nat
      /\ g.expand.count < Expand /\ f.len \in Nat
      /\ Expand \in Nat \ {0} /\ Expand <= Remembered /\ Remembered \in Nat
      /\ ShapeWindow \in Nat
  BY RememberedBound DEF Size, Footed
<1>3. n \in Nat \ {0} /\ n <= Expand
  BY <1>2
<1>4. l \in Nat /\ l > g.len /\ l <= f.len
      /\ (n # 1 => l <= g.expand.len)
  <2>1. n # 1 => g.expand.len > g.len
    BY <1>2 DEF Growing
  <2> QED  BY <1>2, <2>1 DEF G!Min2
<1>5. n <= Len(r) /\ Len(q) \in Nat /\ Len(r) \in Nat
  <2>1. g.expand.count <= Len(q) /\ g.expand.count < Remembered
    BY <1>2 DEF Growing
  <2> QED  BY <1>2, <2>1 DEF Behind
<1> HIDE DEF l
<1>6. ASSUME NEW k \in 1 .. Len(r), k > Len(r) - n
      PROVE  G!Supports(r[k], l)
  <2>1. CASE k = Len(r)
    <3>1. r[k].quality = 3 /\ r[k].len = f.len
      BY <2>1 DEF Behind, G!Footprint
    <3> QED  BY <1>4, <3>1 DEF G!Supports
  <2>2. CASE k # Len(r)
    <3> DEFINE j == Len(r) - 1 - k
    <3>1. j \in 0 .. (Len(r) - 2) /\ Len(r) - 1 - j = k /\ n # 1
          /\ j < g.expand.count
      BY <1>2, <1>5, <1>6, <2>2
    <3> HIDE DEF j
    <3>2. r[k] = q[Len(q) - j] /\ Len(q) - j \in 1 .. Len(q)
      BY <3>1 DEF Behind
    <3>3. Len(q) - j > Len(q) - g.expand.count
      BY <1>2, <1>5, <3>1
    <3>4. G!Supports(r[k], g.expand.len)
      BY <3>2, <3>3 DEF Growing
    <3>5. r[k].len \in Nat
      <4>1. r[k] \in Footprints
        OBVIOUS
      <4> QED  BY <4>1 DEF Footprints
    <3> QED  BY <1>2, <1>4, <3>1, <3>4, <3>5 DEF G!Supports
  <2> QED  BY <2>1, <2>2
<1> HIDE DEF n
<1>7. CASE n >= Expand
  <2>1. p = x
    BY <1>1, <1>7
  <2> HIDE DEF x
  <2>2. x.len = l /\ x.expand = G!NoExpand /\ x.shrink = <<>>
        /\ Resized(g, x)
    BY DEF x, Size, SizeFields, Resized
  <2>3. Growing(x, r) /\ x.expand.count = 0 /\ x.expand.len = 0
    BY <2>2, NoRun
  <2>4. Shrinking(x, r) /\ x.shrink \in Seq(Nat) /\ Len(x.shrink) = 0
    BY <2>2, NoWindow
  <2>5. Size(x)
    <3>1. x.len \in Nat /\ x.expand.count \in Nat /\ x.expand.count < Expand
          /\ x.expand.len \in Nat /\ Len(x.shrink) <= ShapeWindow
      BY <1>2, <1>4, <2>2, <2>3, <2>4
    <3> QED  BY <2>2, <2>3, <2>4, <3>1, ResizedSize
  <2>6. Sized(g.len, x.len, r)
    <3>1. n = Expand
      BY <1>2, <1>3, <1>7
    <3>2. \A k \in (Len(r) - Expand + 1) .. Len(r) : G!Supports(r[k], l)
      BY <1>2, <1>5, <1>6, <3>1
    <3> QED  BY <1>2, <1>4, <1>5, <2>2, <3>1, <3>2 DEF Sized
  <2> HIDE DEF p
  <2> QED  BY <2>1, <2>2, <2>3, <2>4, <2>5, <2>6 DEF p
<1>8. CASE ~(n >= Expand)
  <2>1. p = z
    BY <1>1, <1>8
  <2> HIDE DEF z
  <2>2. z.len = g.len /\ z.expand = e /\ z.shrink = <<>> /\ Resized(g, z)
    BY DEF z, Size, SizeFields, Resized
  <2>3. z.expand.count = n /\ z.expand.len = l
    BY <2>2
  <2>4. Shrinking(z, r) /\ z.shrink \in Seq(Nat) /\ Len(z.shrink) = 0
    BY <2>2, NoWindow
  <2>5. Size(z)
    <3>1. n \in Nat /\ n < Expand /\ 0 <= ShapeWindow
      BY <1>2, <1>3, <1>8
    <3> QED  BY <1>2, <1>4, <2>2, <2>3, <2>4, <3>1, ResizedSize
  <2>6. Growing(z, r)
    BY <1>4, <1>5, <1>6, <2>2, <2>3 DEF Growing
  <2>7. Sized(g.len, z.len, r)
    BY <1>2, <2>2 DEF Sized
  <2> HIDE DEF p
  <2> QED  BY <2>1, <2>2, <2>4, <2>5, <2>6, <2>7 DEF p
<1> QED  BY <1>7, <1>8

LEMMA ReduceStep ==
    ASSUME NEW g, Size(g), g.frozen, NEW q \in Seq(Footprints),
           Shrinking(g, q), NEW f, Footed(f), f.quality >= 2, f.len < g.len,
           NEW r \in Seq(Footprints), Behind(q, f, r)
    PROVE  LET p == G!Reduce(g, f)
           IN /\ Size(p) /\ Growing(p, r) /\ Shrinking(p, r)
              /\ Sized(g.len, p.len, r) /\ Resized(g, p)
<1> DEFINE w == G!Push(g.shrink, f.len)
           enough == G!Measured(w) >= Shrink /\ G!FiniteMad(w) <= Mad
           mid == G!FiniteMedian(w)
           l == G!Max2(f.floor, G!Max2(mid, g.len - 1))
           x == [g EXCEPT !.len = l, !.shrink = <<>>, !.expand = G!NoExpand]
           z == [g EXCEPT !.shrink = w, !.expand = G!NoExpand]
           p == G!Reduce(g, f)
<1>1. p = IF enough THEN x ELSE z
  BY DEF G!Reduce, Size, SizeFields
<1>2. /\ g.len \in Nat /\ g.shrink \in Seq(Nat) /\ f.len \in Nat
      /\ Len(g.shrink) <= ShapeWindow /\ f.floor \in Nat
      /\ Expand \in Nat \ {0} /\ ShapeWindow \in Nat /\ Shrink \in Nat \ {0}
  BY GeometryAssumption DEF Size, Footed
<1>3. w \in Seq(Nat)
  BY <1>2, Pushed
<1>4. Shrunk(w, g.len, r) /\ Len(w) <= ShapeWindow
  <2>1. G!Smaller(G!Footprint(f), g.len) /\ f.len = G!Footprint(f).len
    BY DEF G!Smaller, G!Footprint
  <2> QED  BY <1>2, <2>1, ShrunkStep DEF Shrinking
<1> HIDE DEF w
<1>5. G!Measured(w) \in Nat /\ IsFiniteSet(G!Finite(w))
  BY <1>3, MeasuredNat
<1>6. CASE enough
  <2>1. p = x
    BY <1>1, <1>6
  <2>2. G!Finite(w) # {}
    <3>1. G!Finite(w) = {} => G!Measured(w) = 0
      BY FS_EmptySet, WindowCount DEF G!Measured
    <3> QED  BY <1>2, <1>5, <1>6, <3>1
  <2>3. mid \in Nat /\ mid < g.len
    <3>1. PICK k \in G!Finite(w) : mid = w[k]
      BY <1>3, <2>2, MedianIn
    <3>2. k \in 1 .. Len(w) /\ w[k] # 0
      BY <1>3 DEF G!Finite
    <3>3. w[k] < g.len
      BY <1>4, <3>2 DEF Shrunk, G!Smaller
    <3>4. mid \in Nat
      BY <1>3, MedianIn
    <3> QED  BY <3>1, <3>3, <3>4
  <2> HIDE DEF mid
  <2>4. l \in Nat /\ (l > g.len => l = f.floor)
    BY <1>2, <2>3 DEF G!Max2
  <2> HIDE DEF l, x
  <2>5. x.len = l /\ x.expand = G!NoExpand /\ x.shrink = <<>>
        /\ Resized(g, x)
    BY DEF x, Size, SizeFields, Resized
  <2>6. Growing(x, r) /\ x.expand.count = 0 /\ x.expand.len = 0
    BY <2>5, NoRun
  <2>7. Shrinking(x, r) /\ x.shrink \in Seq(Nat) /\ Len(x.shrink) = 0
    BY <2>5, NoWindow
  <2>8. Size(x)
    <3>1. x.len \in Nat /\ x.expand.count \in Nat /\ x.expand.count < Expand
          /\ x.expand.len \in Nat /\ Len(x.shrink) <= ShapeWindow
      BY <1>2, <2>4, <2>5, <2>6, <2>7
    <3> QED  BY <2>5, <2>6, <2>7, <3>1, ResizedSize
  <2>9. Sized(g.len, x.len, r)
    <3> DEFINE few == G!Cardinality({k \in 1 .. Len(r) :
                                        G!Smaller(r[k], g.len)})
    <3>1. r[Len(r)].floor = f.floor
      BY DEF Behind, G!Footprint
    <3>2. G!Measured(w) <= few
      BY <1>2, <1>3, <1>4, ShrunkCount
    <3>3. few \in Nat
      <4> DEFINE small == {k \in 1 .. Len(r) : G!Smaller(r[k], g.len)}
      <4>1. IsFiniteSet(1 .. Len(r))
        BY FS_Interval
      <4>2. IsFiniteSet(small)
        BY <4>1, FS_Subset
      <4> HIDE DEF small
      <4>3. Cardinality(small) \in Nat
        BY <4>2, FS_CardinalityType
      <4> QED  BY <4>3, WindowCount DEF small
    <3> HIDE DEF few
    <3>4. few >= Shrink
      BY <1>2, <1>5, <1>6, <3>2, <3>3
    <3> QED  BY <2>4, <2>5, <3>1, <3>4 DEF Sized, few
  <2> HIDE DEF p
  <2> QED  BY <2>1, <2>5, <2>6, <2>7, <2>8, <2>9 DEF p
<1>7. CASE ~enough
  <2>1. p = z
    BY <1>1, <1>7
  <2> HIDE DEF z
  <2>2. z.len = g.len /\ z.expand = G!NoExpand /\ z.shrink = w
        /\ Resized(g, z)
    BY DEF z, Size, SizeFields, Resized
  <2>3. Growing(z, r) /\ z.expand.count = 0 /\ z.expand.len = 0
    BY <2>2, NoRun
  <2>4. Shrinking(z, r)
    BY <1>4, <2>2 DEF Shrinking
  <2>5. Size(z)
    <3>1. z.len \in Nat /\ z.expand.count \in Nat /\ z.expand.count < Expand
          /\ z.expand.len \in Nat /\ Len(z.shrink) <= ShapeWindow
          /\ z.shrink \in Seq(Nat)
      BY <1>2, <1>3, <1>4, <2>2, <2>3
    <3> QED  BY <2>2, <3>1, ResizedSize
  <2>6. Sized(g.len, z.len, r)
    BY <1>2, <2>2 DEF Sized
  <2> HIDE DEF p
  <2> QED  BY <2>1, <2>2, <2>3, <2>4, <2>5, <2>6 DEF p
<1> QED  BY <1>6, <1>7

LEMMA ResizeStep ==
    ASSUME NEW g, Size(g), g.frozen, NEW q \in Seq(Footprints),
           Growing(g, q), Shrinking(g, q), NEW f, Footed(f),
           NEW r \in Seq(Footprints), Behind(q, f, r)
    PROVE  LET p == G!Resize(g, f)
           IN /\ Size(p) /\ Growing(p, r) /\ Shrinking(p, r)
              /\ Sized(g.len, p.len, r) /\ Resized(g, p)
<1> DEFINE w == G!Push(g.shrink, 0)
           x == [g EXCEPT !.shrink = w, !.expand = G!NoExpand]
           z == [g EXCEPT !.shrink = <<>>, !.expand = G!NoExpand]
           p == G!Resize(g, f)
           Good(y) == /\ Size(y) /\ Growing(y, r) /\ Shrinking(y, r)
                      /\ Sized(g.len, y.len, r) /\ Resized(g, y)
<1>1. f.quality \in 0 .. 3 /\ f.len \in Nat /\ g.len \in Nat
      /\ g.shrink \in Seq(Nat) /\ Len(g.shrink) <= ShapeWindow
      /\ Expand \in Nat \ {0} /\ ShapeWindow \in Nat
  BY GeometryAssumption DEF Footed, Size
<1>2. Good(x)
  <2>1. w \in Seq(Nat)
    BY <1>1, Pushed
  <2>2. Shrunk(w, g.len, r) /\ Len(w) <= ShapeWindow
    BY <1>1, ShrunkStep DEF Shrinking
  <2> HIDE DEF w, x
  <2>3. x.len = g.len /\ x.expand = G!NoExpand /\ x.shrink = w
        /\ Resized(g, x)
    BY DEF x, Size, SizeFields, Resized
  <2>4. Growing(x, r) /\ x.expand.count = 0 /\ x.expand.len = 0
    BY <2>3, NoRun
  <2>5. Size(x)
    <3>1. /\ x.len \in Nat /\ x.expand.count \in Nat
          /\ x.expand.count < Expand /\ x.expand.len \in Nat
          /\ x.shrink \in Seq(Nat) /\ Len(x.shrink) <= ShapeWindow
      BY <1>1, <2>1, <2>2, <2>3, <2>4
    <3> QED  BY <2>3, <3>1, ResizedSize
  <2>6. Shrinking(x, r) /\ Sized(g.len, x.len, r)
    BY <1>1, <2>2, <2>3 DEF Shrinking, Sized
  <2> QED  BY <2>3, <2>4, <2>5, <2>6
<1>3. Good(z)
  <2> HIDE DEF z
  <2>1. z.len = g.len /\ z.expand = G!NoExpand /\ z.shrink = <<>>
        /\ Resized(g, z)
    BY DEF z, Size, SizeFields, Resized
  <2>2. Growing(z, r) /\ z.expand.count = 0 /\ z.expand.len = 0
    BY <2>1, NoRun
  <2>3. Shrinking(z, r) /\ z.shrink \in Seq(Nat) /\ Len(z.shrink) = 0
    BY <2>1, NoWindow
  <2>4. Size(z)
    <3>1. /\ z.len \in Nat /\ z.expand.count \in Nat
          /\ z.expand.count < Expand /\ z.expand.len \in Nat
          /\ Len(z.shrink) <= ShapeWindow
      BY <1>1, <2>1, <2>2, <2>3
    <3> QED  BY <2>1, <2>3, <3>1, ResizedSize
  <2>5. Sized(g.len, z.len, r)
    BY <1>1, <2>1 DEF Sized
  <2> QED  BY <2>1, <2>2, <2>3, <2>4, <2>5
<1>4. f.quality = 3 /\ f.len > g.len => Good(G!Grow(g, f))
  BY GrowStep
<1>5. f.quality >= 2 /\ f.len < g.len => Good(G!Reduce(g, f))
  BY ReduceStep
<1> HIDE DEF x, z, w
<1>6. \/ p = x
      \/ p = z
      \/ p = G!Grow(g, f) /\ f.quality = 3 /\ f.len > g.len
      \/ p = G!Reduce(g, f) /\ f.quality >= 2 /\ f.len < g.len
  <2>1. CASE f.quality < 2
    <3>1. p = x
      BY <1>1, <2>1 DEF G!Resize, x, w
    <3> QED  BY <3>1
  <2>2. CASE ~(f.quality < 2) /\ f.quality = 3 /\ f.len > g.len
    <3>1. ~(f.quality >= 2 /\ f.len < g.len)
      BY <1>1, <2>2
    <3>2. p = G!Grow(g, f)
      BY <2>2, <3>1 DEF G!Resize
    <3> QED  BY <2>2, <3>2
  <2>3. CASE ~(f.quality < 2) /\ ~(f.quality = 3 /\ f.len > g.len)
             /\ f.quality >= 2 /\ f.len < g.len
    <3>1. p = G!Reduce(g, f)
      BY <2>3 DEF G!Resize
    <3> QED  BY <2>3, <3>1
  <2>4. CASE ~(f.quality < 2) /\ ~(f.quality = 3 /\ f.len > g.len)
             /\ ~(f.quality >= 2 /\ f.len < g.len)
    <3>1. p = z
      BY <2>4 DEF G!Resize, z
    <3> QED  BY <3>1
  <2> QED  BY <2>1, <2>2, <2>3, <2>4
<1>7. Good(p)
  <2> HIDE DEF Good, p
  <2> QED  BY <1>2, <1>3, <1>4, <1>5, <1>6
<1> QED  BY <1>7

LEMMA FrozenStep ==
    ASSUME NEW g, Size(g), g.frozen, NEW n \in Nat, FullPairs(g, n),
           NEW q \in Seq(Footprints), Growing(g, q), Shrinking(g, q),
           NEW f, Footed(f), NEW r \in Seq(Footprints), Behind(q, f, r),
           NEW p \in G!Frozen(g, f)
    PROVE  /\ Size(p) /\ FullPairs(p, Counted(f, n)) /\ p.frozen
           /\ Growing(p, r) /\ Shrinking(p, r) /\ Sized(g.len, p.len, r)
           /\ p.auth = "FORMAL" =>
                 g.auth = "FORMAL" \/ Counted(f, n) >= ShapeFrames
<1>1. PICK c \in G!Promote(g, f) :
         p = [G!Resize(c, f) EXCEPT !.valid = f.centre]
  BY DEF G!Frozen
<1> DEFINE x == G!Resize(c, f)
           m == Counted(f, n)
<1>2. /\ Size(c) /\ FullPairs(c, m) /\ c.frozen = g.frozen
      /\ c.len = g.len /\ c.shrink = g.shrink /\ c.expand = g.expand
      /\ c.auth = "FORMAL" => g.auth = "FORMAL" \/ m >= ShapeFrames
  BY PromoteStep
<1>3. Growing(c, q) /\ Shrinking(c, q)
  BY <1>2 DEF Growing, Shrinking
<1> HIDE DEF m
<1>4. /\ Size(x) /\ Growing(x, r) /\ Shrinking(x, r)
      /\ Sized(g.len, x.len, r) /\ Resized(c, x)
  BY <1>2, <1>3, ResizeStep
<1> HIDE DEF x
<1>5. /\ p = [y \in SizeFields |-> p[y]] /\ p.frozen = x.frozen
      /\ p.len = x.len /\ p.height = x.height /\ p.shape = x.shape
      /\ p.thick = x.thick /\ p.promo = x.promo /\ p.shrink = x.shrink
      /\ p.expand = x.expand /\ p.mode = x.mode /\ p.auth = x.auth
  <2>1. p = [x EXCEPT !.valid = f.centre]
    BY <1>1 DEF x
  <2> DEFINE centre == f.centre
  <2> HIDE DEF centre
  <2>2. p = [x EXCEPT !.valid = centre]
    BY <2>1 DEF centre
  <2> QED  BY <1>4, <2>2 DEF Size, SizeFields
<1>6. Size(p)
  BY <1>4, <1>5 DEF Size
<1>7. Growing(p, r) /\ Shrinking(p, r) /\ Sized(g.len, p.len, r)
  BY <1>4, <1>5 DEF Growing, Shrinking
<1>8. FullPairs(p, m) /\ p.frozen /\ p.auth = c.auth
  BY <1>2, <1>4, <1>5 DEF FullPairs, Resized
<1> QED  BY <1>2, <1>6, <1>7, <1>8 DEF m

-----------------------------------------------------------------------------
(* CargoGeometry: the step and the theorem.                                *)

\* The authority of a geometry is earned by this step, and so is its size.
Earned(a, b, n, q) ==
    /\ a.auth # "FORMAL" /\ b.auth = "FORMAL" => n >= ShapeFrames
    /\ a.frozen /\ b.frozen /\ Len(q) > 0 => Sized(a.len, b.len, q)

LEMMA GeometryFrameStep ==
    ASSUME GeometryInv, NEW i \in GeometryInputs, G!Frame(i)
    PROVE  /\ GeometryInv'
           /\ Earned(geometryFusion, geometryFusion', pairs', recent')
<1>1. i \in GeometryFrames
  BY GeometryAssumption
<1>2. PICK l \in {G!Locked(i)} : \E f \in {G!GeometryFrame(i, l)} :
        LET new == l.active /\ ~lock.active
            first == i.gap \/ new
        IN /\ geometryFusion' \in
                G!Update(G!Segment(G!Continued(geometryFusion, i), new), f)
           /\ lock' = G!WriteBack(l, geometryFusion')
           /\ pairs' = LET n == IF i.life \/ new THEN 0 ELSE pairs
                       IN IF G!Pair(f) /\ f.sure /\ f.centre
                          THEN G!Min2(n + 1, ShapeFrames) ELSE n
           /\ recent' = IF \/ ~geometryFusion'.frozen
                           \/ ~geometryFusion.frozen \/ i.life
                        THEN <<>>
                        ELSE G!Slide(IF first THEN <<>> ELSE recent,
                                     G!Footprint(f),
                                     G!Max2(ShapeWindow, Expand))
  BY Zenon DEF G!Frame
<1> DEFINE f == G!GeometryFrame(i, l)
           h == geometryFusion
           new == l.active /\ ~lock.active
           c == G!Segment(G!Continued(h, i), new)
           n == IF i.life \/ new THEN 0 ELSE pairs
           q == IF i.life \/ i.gap \/ new THEN <<>> ELSE recent
           r == G!Slide(q, G!Footprint(f), Remembered)
           p == h'
<1>3. /\ lock = [y \in LockFields |-> lock[y]]
      /\ lock.len \in Nat /\ lock.height \in Nat /\ Size(h)
  BY DEF GeometryInv
<1>4. l = [y \in LockFields |-> l[y]] /\ l.len \in Nat /\ l.height \in Nat
  <2>1. i.newLen \in Nat /\ i.newHeight \in Nat
        /\ i.lock \in {"keep", "lost", "new"}
    BY <1>1 DEF GeometryFrames
  <2>2. l \in {lock, [active |-> FALSE, len |-> 0, height |-> 0],
               [active |-> TRUE, len |-> i.newLen, height |-> i.newHeight]}
    BY <1>2, <2>1 DEF G!Locked
  <2> QED  BY <1>3, <2>1, <2>2 DEF LockFields
<1>5. Footed(f)
  BY <1>1, <1>4, GeometryFrameTyped DEF Footed
<1>6. new \in BOOLEAN
  OBVIOUS
<1>7. /\ Size(c) /\ FullPairs(c, n) /\ Growing(c, q) /\ Shrinking(c, q)
      /\ n \in Nat /\ q \in Seq(Footprints)
      /\ ~c.frozen => q = <<>>
      /\ c.auth = "FORMAL" => h.auth = "FORMAL"
      /\ ~i.life => c.frozen = h.frozen /\ c.len = h.len
      /\ i.life => ~c.frozen
  <2> HIDE DEF new
  <2> QED  BY <1>1, <1>6, SegmentStep
<1>8. /\ p \in G!Update(c, f) /\ lock' = G!WriteBack(l, p)
      /\ pairs' = Counted(f, n)
      /\ ~i.life /\ h.frozen /\ p.frozen => recent' = r
      /\ i.life \/ ~h.frozen \/ ~p.frozen => recent' = <<>>
  BY <1>2 DEF Counted, Remembered
<1> HIDE DEF f, new, c, n, q, r
<1>9. r \in Seq(Footprints) /\ Behind(q, f, r)
  BY <1>5, <1>7, HistoryStep DEF r
<1>10. Counted(f, n) \in Nat
  BY <1>7, CountedGrows
<1>11. CASE ~c.frozen
  <2>1. p \in G!Gathering(c, f)
    BY <1>8, <1>11 DEF G!Update
  <2>2. /\ Size(p) /\ FullPairs(p, Counted(f, n))
        /\ p.shrink = <<>> /\ p.expand = G!NoExpand
        /\ p.auth = "FORMAL" =>
              c.auth = "FORMAL" \/ Counted(f, n) >= ShapeFrames
    BY <1>5, <1>7, <1>11, <2>1, GatheringStep
  <2>3. recent' = <<>>
    BY <1>7, <1>8, <1>11
  <2>4. <<>> \in Seq(Footprints) /\ Len(<<>>) = 0
    OBVIOUS
  <2>5. Growing(p, <<>>) /\ Shrinking(p, <<>>)
    BY <2>2, <2>4, NoRun, NoWindow
  <2>6. lock' = [y \in LockFields |-> lock'[y]] /\ lock'.len \in Nat
        /\ lock'.height \in Nat
    BY <1>4, <1>8, <2>2 DEF G!WriteBack, Size, LockFields
  <2>7. GeometryInv'
    BY <1>8, <1>10, <2>2, <2>3, <2>4, <2>5, <2>6 DEF GeometryInv
  <2>8. Earned(h, p, pairs', recent')
    BY <1>7, <1>8, <2>2, <2>3, <2>4 DEF Earned
  <2> QED  BY <2>7, <2>8
<1>12. CASE c.frozen
  <2>1. p \in G!Frozen(c, f)
    BY <1>8, <1>12 DEF G!Update
  <2>2. /\ Size(p) /\ FullPairs(p, Counted(f, n)) /\ p.frozen
        /\ Growing(p, r) /\ Shrinking(p, r) /\ Sized(c.len, p.len, r)
        /\ p.auth = "FORMAL" =>
              c.auth = "FORMAL" \/ Counted(f, n) >= ShapeFrames
    BY <1>5, <1>7, <1>9, <1>12, <2>1, FrozenStep
  <2>3. ~i.life /\ h.frozen /\ recent' = r /\ c.len = h.len
    BY <1>7, <1>8, <1>12, <2>2
  <2>4. lock' = [y \in LockFields |-> lock'[y]] /\ lock'.len \in Nat
        /\ lock'.height \in Nat
    BY <1>4, <1>8, <2>2 DEF G!WriteBack, Size, LockFields
  <2>5. GeometryInv'
    BY <1>8, <1>9, <1>10, <2>2, <2>3, <2>4 DEF GeometryInv
  <2>6. Earned(h, p, pairs', recent')
    BY <1>7, <1>8, <2>2, <2>3 DEF Earned
  <2> QED  BY <2>5, <2>6
<1> QED  BY <1>11, <1>12

LEMMA GeometryStep ==
    ASSUME GeometryInv, [G!Next]_(G!vars)
    PROVE  /\ GeometryInv'
           /\ G!Next => Earned(geometryFusion, geometryFusion', pairs', recent')
<1>1. CASE G!Next
  <2>1. PICK i \in GeometryInputs : G!Frame(i)
    BY <1>1 DEF G!Next
  <2> QED  BY <2>1, GeometryFrameStep
<1>2. CASE UNCHANGED G!vars
  <2>1. GeometryInv'
    BY <1>2 DEF G!vars, GeometryInv, Size, FullPairs, Growing, Shrinking
  <2>2. G!Next => Earned(geometryFusion, geometryFusion', pairs', recent')
    <3>1. HAVE G!Next
    <3>2. PICK i \in GeometryInputs : G!Frame(i)
      BY <3>1 DEF G!Next
    <3> QED  BY <3>2, GeometryFrameStep
  <2> QED  BY <2>1, <2>2
<1> QED  BY <1>1, <1>2

\* A geometry becomes FORMAL only on as many agreeing full measurements of the
\* locked cargo as the configuration asks for, all of this lifecycle and
\* segment, and its frozen footprint grows or shrinks only on runs of
\* measurements in the last frames, however gaps, segments, promotions and
\* contaminated frames come (CargoGeometryFusion::update).
THEOREM GeometryEarned == G!Spec => GeometryIsEarned
<1>1. GeometryInv /\ [G!Next]_(G!vars) => GeometryInv'
  BY GeometryStep
<1>2. GeometryInv /\ [G!Next]_(G!vars) =>
        [geometryFusion.auth # "FORMAL" /\ geometryFusion'.auth = "FORMAL"
            => pairs' >= ShapeFrames]_(G!vars)
  BY GeometryStep DEF Earned
<1>3. GeometryInv /\ [G!Next]_(G!vars) =>
        [LET n == Len(recent') IN
         geometryFusion.frozen /\ geometryFusion'.frozen /\ n > 0 =>
           /\ geometryFusion'.len > geometryFusion.len =>
                \/ n >= Expand /\ \A k \in (n - Expand + 1)..n :
                      G!Supports(recent'[k], geometryFusion'.len)
                \/ geometryFusion'.len = recent'[n].floor
           /\ geometryFusion'.len < geometryFusion.len =>
                G!Cardinality({k \in 1 .. n :
                    G!Smaller(recent'[k], geometryFusion.len)})
                  >= Shrink]_(G!vars)
  BY GeometryStep DEF Earned, Sized
<1> QED  BY <1>1, <1>2, <1>3, GeometryInit, PTL
         DEF G!Spec, GeometryIsEarned, G!GeometryIsEarned,
             G!FormalIsEarned, G!SizeFollowsEvidence
=============================================================================
