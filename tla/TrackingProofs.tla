--------------------------- MODULE TrackingProofs ---------------------------
(***************************************************************************)
(* Theorems about what is taken for the same thing from frame to frame,    *)
(* for every value of the constants.  The registration gate: a frame       *)
(* feeds the maps only with a measurement of its own under a closed        *)
(* breaker.  The identity of the load and the pose after a hold: nothing   *)
(* is granted ahead of what it rests on.                                   *)
(***************************************************************************)
EXTENDS MCTracking, TLAPS, WellFoundedInduction, FiniteSetTheorems

-----------------------------------------------------------------------------
(* RegistrationGate: the inductive invariant.                              *)

Breakers == [open : BOOLEAN, bad : 0 .. EnterFrames,
             recovery : 0 .. RecoveryFrames, baseline : 0 .. Warmup]
Ekfs == [init : BOOLEAN, accepted : BOOLEAN,
         since : 0 .. MaxSinceGood, rejects : 0 .. MaxRejects]
Outcomes == [measured : BOOLEAN, success : BOOLEAN,
             health : {"none", "healthy", "neutral", "bad", "unusable"},
             local : BOOLEAN, commit : BOOLEAN, safety : BOOLEAN]

\* The good matches since breaker b opened are the ones it counts itself;
\* once it is closed there were enough of them.
Counted(b, t) ==
    /\ t \in 0 .. RecoveryFrames
    /\ IF b.open THEN t = b.recovery /\ t < RecoveryFrames
       ELSE t = RecoveryFrames

TrustIsCounted == Counted(breaker, trust)

IInv == TypeOK /\ TrustIsCounted /\ OnlyTrustedFramesWrite

-----------------------------------------------------------------------------
(* The circuit breaker.                                                    *)

\* update() leaves the breaker well formed.
LEMMA BreakerTyped ==
    ASSUME NEW b \in Breakers, NEW f \in Fitness
    PROVE  BreakerUpdate(b, f) \in Breakers
<1>0. /\ 0 \in 0 .. EnterFrames /\ EnterFrames \in 0 .. EnterFrames
      /\ 0 \in 0 .. RecoveryFrames
  BY RegistrationConstants
<1>1. Opened(b) \in Breakers
  BY <1>0 DEF Opened, Breakers
<1>2. \A c \in Breakers : Appended(c) \in Breakers
  BY RegistrationConstants DEF Appended, Breakers
<1>3. [b EXCEPT !.open = FALSE, !.bad = 0, !.recovery = 0] \in Breakers
  BY <1>0 DEF Breakers
<1>4. [b EXCEPT !.bad = 0, !.recovery = 0] \in Breakers
  BY <1>0 DEF Breakers
<1>5. b.bad + 1 < EnterFrames =>
         [b EXCEPT !.bad = @ + 1, !.recovery = 0] \in Breakers
  <2>1. b.bad + 1 < EnterFrames => b.bad + 1 \in 0 .. EnterFrames
    BY RegistrationConstants DEF Breakers
  <2> QED  BY <1>0, <2>1 DEF Breakers
<1>6. \A n \in 0 .. RecoveryFrames : [b EXCEPT !.recovery = n] \in Breakers
  BY DEF Breakers
<1>7. /\ b.recovery \in 0 .. RecoveryFrames /\ b.bad \in 0 .. EnterFrames
      /\ b.open \in BOOLEAN
  BY DEF Breakers
<1>8. CASE f \in {"hard", "nan"}
  BY <1>1, <1>8 DEF BreakerUpdate
<1>9. CASE f \notin {"hard", "nan"} /\ b.open
  <2> DEFINE n == IF f = "good" THEN b.recovery + 1 ELSE 0
  <2>1. BreakerUpdate(b, f) =
          IF n >= RecoveryFrames
          THEN Appended([b EXCEPT !.open = FALSE, !.bad = 0, !.recovery = 0])
          ELSE [b EXCEPT !.recovery = n]
    BY <1>9 DEF BreakerUpdate
  <2>2. ~(n >= RecoveryFrames) => n \in 0 .. RecoveryFrames
    BY <1>7, RegistrationConstants
  <2> HIDE DEF n
  <2> QED  BY <1>2, <1>3, <1>6, <2>1, <2>2
<1>10. CASE f = "high" /\ ~b.open
  <2>1. BreakerUpdate(b, f) =
          IF b.bad + 1 >= EnterFrames THEN Opened(b)
          ELSE [b EXCEPT !.bad = @ + 1, !.recovery = 0]
    BY <1>10 DEF BreakerUpdate
  <2> QED  BY <1>1, <1>5, <1>7, <2>1, RegistrationConstants
<1>11. CASE f \notin {"hard", "nan", "high"} /\ ~b.open
  <2>1. BreakerUpdate(b, f) =
          Appended([b EXCEPT !.bad = 0, !.recovery = 0])
    BY <1>11 DEF BreakerUpdate
  <2> QED  BY <1>2, <1>4, <2>1
<1> QED  BY <1>7, <1>8, <1>9, <1>10, <1>11

\* The history counts what the breaker counts: it closes only on as many
\* good matches in a row as it asks for.
LEMMA TrustFollows ==
    ASSUME BreakerOK, TrustIsCounted, NEW f \in Fitness
    PROVE  Counted(BreakerUpdate(breaker, f), Trusted(breaker, f))
<1> DEFINE n == BreakerUpdate(breaker, f)
<1> SUFFICES Counted(n, Trusted(breaker, f))
  OBVIOUS
<1>0. 0 \in 0 .. EnterFrames /\ 0 \in 0 .. RecoveryFrames
  BY RegistrationConstants
<1>1. /\ breaker \in Breakers /\ trust \in 0 .. RecoveryFrames
      /\ breaker.open \in BOOLEAN /\ breaker.recovery \in Nat
      /\ RecoveryFrames \in Nat \ {0}
  BY RegistrationConstants DEF BreakerOK, Breakers
<1>2. Trusted(breaker, f) =
        IF n.open
        THEN (IF f = "good" /\ breaker.open THEN trust + 1 ELSE 0)
        ELSE IF breaker.open THEN trust + 1 ELSE trust
  BY DEF Trusted
<1>3. Opened(breaker).open /\ Opened(breaker).recovery = 0
  BY <1>1 DEF Opened, Breakers
<1>4. \A c \in Breakers : Appended(c).open = c.open
  BY DEF Appended, Breakers
<1>5. CASE f \in {"hard", "nan"}
  <2>1. n = Opened(breaker) /\ f # "good"
    BY <1>5 DEF BreakerUpdate
  <2> HIDE DEF n
  <2> QED  BY <1>1, <1>2, <1>3, <2>1 DEF Counted
<1>6. CASE f \notin {"hard", "nan"} /\ breaker.open
  <2> DEFINE k == IF f = "good" THEN breaker.recovery + 1 ELSE 0
  <2>1. n = IF k >= RecoveryFrames
            THEN Appended([breaker EXCEPT !.open = FALSE, !.bad = 0,
                                          !.recovery = 0])
            ELSE [breaker EXCEPT !.recovery = k]
    BY <1>6 DEF BreakerUpdate
  <2>2. trust = breaker.recovery /\ trust < RecoveryFrames
    BY <1>6 DEF TrustIsCounted, Counted
  <2>3. CASE k >= RecoveryFrames
    <3>1. f = "good" /\ trust + 1 = RecoveryFrames
      BY <1>1, <2>2, <2>3
    <3>2. [breaker EXCEPT !.open = FALSE, !.bad = 0, !.recovery = 0]
             \in Breakers
      BY <1>0, <1>1 DEF Breakers
    <3>3. ~n.open
      <4> HIDE DEF k, n
      <4> QED  BY <1>4, <2>1, <2>3, <3>2 DEF Breakers
    <3> HIDE DEF k, n
    <3> QED  BY <1>1, <1>2, <1>6, <3>1, <3>3 DEF Counted
  <2>4. CASE ~(k >= RecoveryFrames)
    <3>1. n.open /\ n.recovery = k
      <4> HIDE DEF k, n
      <4> QED  BY <1>1, <1>6, <2>1, <2>4 DEF Breakers
    <3>2. Trusted(breaker, f) = k
      <4> HIDE DEF n
      <4> QED  BY <1>2, <1>6, <2>2, <3>1
    <3>3. k \in 0 .. RecoveryFrames /\ k < RecoveryFrames
      BY <1>1, <2>4
    <3> HIDE DEF k, n
    <3> QED  BY <3>1, <3>2, <3>3 DEF Counted
  <2> QED  BY <2>3, <2>4
<1>7. CASE f = "high" /\ ~breaker.open
  <2>1. n = IF breaker.bad + 1 >= EnterFrames THEN Opened(breaker)
            ELSE [breaker EXCEPT !.bad = @ + 1, !.recovery = 0]
    BY <1>7 DEF BreakerUpdate
  <2>2. n.open => n = Opened(breaker)
    <3> HIDE DEF n
    <3> QED  BY <1>1, <1>7, <2>1 DEF Breakers
  <2>3. trust = RecoveryFrames
    BY <1>7 DEF TrustIsCounted, Counted
  <2> HIDE DEF n
  <2> QED  BY <1>1, <1>2, <1>3, <1>7, <2>2, <2>3 DEF Counted
<1>8. CASE f \notin {"hard", "nan", "high"} /\ ~breaker.open
  <2>1. n = Appended([breaker EXCEPT !.bad = 0, !.recovery = 0])
    BY <1>8 DEF BreakerUpdate
  <2>2. [breaker EXCEPT !.bad = 0, !.recovery = 0] \in Breakers
    BY <1>0, <1>1 DEF Breakers
  <2>3. trust = RecoveryFrames
    BY <1>8 DEF TrustIsCounted, Counted
  <2>4. ~n.open
    <3> HIDE DEF n
    <3> QED  BY <1>1, <1>4, <1>8, <2>1, <2>2 DEF Breakers
  <2> HIDE DEF n
  <2> QED  BY <1>1, <1>2, <1>8, <2>3, <2>4 DEF Counted
<1> QED  BY <1>1, <1>5, <1>6, <1>7, <1>8

-----------------------------------------------------------------------------
(* The EKF and the report of a frame.                                      *)

\* maybeRecover brings the counters back within their limits.
LEMMA RecoverTyped ==
    ASSUME NEW e \in [init : BOOLEAN, accepted : BOOLEAN,
                      since : Nat, rejects : Nat]
    PROVE  MaybeRecover(e) \in Ekfs
<1>0. 0 \in 0 .. MaxSinceGood /\ 0 \in 0 .. MaxRejects
  BY RegistrationConstants
<1>1. CASE e.since <= MaxSinceGood /\ e.rejects <= MaxRejects
  BY <1>1, RegistrationConstants DEF MaybeRecover, Ekfs
<1>2. CASE ~(e.since <= MaxSinceGood /\ e.rejects <= MaxRejects)
  BY <1>0, <1>2 DEF MaybeRecover, Ekfs
<1> QED  BY <1>1, <1>2

\* Whatever the EKF does with a frame, it stays well formed.
LEMMA EkfTyped ==
    /\ NewEkf \in Ekfs /\ InitializedEkf \in Ekfs
    /\ \A e \in Ekfs : PredictWithoutMeasurement(e) \in Ekfs
    /\ \A e \in Ekfs, p \in BOOLEAN : UpdateWithNDT(e, p) \in Ekfs
<1>0. 0 \in 0 .. MaxSinceGood /\ 0 \in 0 .. MaxRejects
  BY RegistrationConstants
<1>1. NewEkf \in Ekfs /\ InitializedEkf \in Ekfs
  BY <1>0 DEF NewEkf, InitializedEkf, Ekfs
<1>2. ASSUME NEW e \in Ekfs
      PROVE  /\ e.since + 1 \in Nat /\ e.rejects + 1 \in Nat
             /\ e.since \in Nat /\ e.rejects \in Nat
  BY RegistrationConstants DEF Ekfs
<1>3. ASSUME NEW e \in Ekfs PROVE PredictWithoutMeasurement(e) \in Ekfs
  <2>1. [e EXCEPT !.accepted = FALSE] \in Ekfs
    BY DEF Ekfs
  <2>2. [e EXCEPT !.accepted = FALSE, !.since = @ + 1] \in
          [init : BOOLEAN, accepted : BOOLEAN, since : Nat, rejects : Nat]
    BY <1>2 DEF Ekfs
  <2> QED  BY <2>1, <2>2, RecoverTyped DEF PredictWithoutMeasurement
<1>4. ASSUME NEW e \in Ekfs, NEW p \in BOOLEAN
      PROVE  UpdateWithNDT(e, p) \in Ekfs
  <2>1. [e EXCEPT !.accepted = TRUE, !.since = 0, !.rejects = 0] \in Ekfs
    BY <1>0 DEF Ekfs
  <2>2. [e EXCEPT !.accepted = FALSE, !.since = @ + 1, !.rejects = @ + 1] \in
          [init : BOOLEAN, accepted : BOOLEAN, since : Nat, rejects : Nat]
    BY <1>2 DEF Ekfs
  <2> QED  BY <2>1, <2>2, RecoverTyped DEF UpdateWithNDT
<1> QED  BY <1>1, <1>3, <1>4

\* A frame writes only with a measurement of its own that its breaker allowed,
\* and is healthy only with one, or with a fixed-yaw solution that was.
LEMMA ReportEffect ==
    ASSUME NEW success \in BOOLEAN, NEW measured \in BOOLEAN, NEW attempted,
           NEW allowed, NEW usable, NEW fixedXy, NEW quality, NEW still,
           NEW reliable, NEW isConverged, NEW e, NEW b, NEW f
    PROVE  LET r == Report(success, attempted, allowed, measured, usable,
                           fixedXy, quality, still, reliable, isConverged,
                           e, b, f)
           IN  /\ r \in Outcomes
               /\ r.local \/ r.commit => measured /\ allowed
               /\ r.health = "healthy" =>
                     attempted /\ (measured \/ (rail /\ fixedXy))
               /\ r.measured = measured
<1> DEFINE accepted == allowed /\ e.accepted
           frameAccepted == measured /\ accepted
           health == IF rail THEN RailHealth(usable, fixedXy, allowed,
                                             fixedXy /\ Ready(b), e.accepted)
                     ELSE LegacyHealth(isConverged, measured, allowed, f,
                                       e.accepted)
           mapAuthority == rail => health = "healthy"
           moving == /\ frameAccepted /\ f \in CommitFitness /\ quality
                     /\ ~still
           local == success /\ moving /\ mapAuthority /\ reliable
           commit == /\ success /\ accepted /\ f \in CommitFitness
                     /\ moving /\ mapAuthority /\ reliable
           safety == success /\ reliable /\ mapAuthority
           reported == IF attempted THEN health ELSE "none"
<1> DEFINE r == Report(success, attempted, allowed, measured, usable, fixedXy,
                       quality, still, reliable, isConverged, e, b, f)
<1>1. r = [measured |-> measured, success |-> success, health |-> reported,
           local |-> local, commit |-> commit, safety |-> safety]
  BY DEF Report
<1>2. health \in {"healthy", "neutral", "bad", "unusable"}
  BY DEF RailHealth, LegacyHealth
<1>3. health = "healthy" => measured \/ (rail /\ fixedXy)
  BY DEF RailHealth, LegacyHealth
<1> HIDE DEF health
<1>4. local \in BOOLEAN /\ commit \in BOOLEAN /\ safety \in BOOLEAN
  BY Zenon
<1>5. (local \/ commit) => measured /\ allowed
  OBVIOUS
<1>6. reported \in {"none", "healthy", "neutral", "bad", "unusable"}
  BY <1>2
<1>7. reported = "healthy" => attempted /\ (measured \/ (rail /\ fixedXy))
  BY <1>3
<1> HIDE DEF local, commit, safety, reported, r
<1>8. r \in Outcomes
  BY <1>1, <1>4, <1>6 DEF Outcomes
<1>9. /\ r.local = local /\ r.commit = commit
      /\ r.health = reported /\ r.measured = measured
  BY <1>1
<1> QED  BY <1>5, <1>7, <1>8, <1>9 DEF r

-----------------------------------------------------------------------------
(* Init and the steps.                                                     *)

\* Nothing was registered and both counters are at rest.
LEMMA InitIInv == Init => IInv
<1> SUFFICES ASSUME Init PROVE IInv
  OBVIOUS
<1>0. /\ 0 \in 0 .. EnterFrames /\ 0 \in 0 .. RecoveryFrames
      /\ 0 \in 0 .. Warmup /\ RecoveryFrames \in 0 .. RecoveryFrames
  BY RegistrationConstants
<1>1. BreakerOK
  BY <1>0 DEF Init, BreakerOK, ClosedBreaker
<1>2. EkfOK
  BY EkfTyped DEF Init, EkfOK, Ekfs
<1>3. FrameOK
  BY DEF Init, FrameOK, NoFrame, Fitness
<1>4. TrustIsCounted
  BY <1>0 DEF Init, TrustIsCounted, Counted, ClosedBreaker
<1>5. OnlyTrustedFramesWrite
  BY DEF Init, OnlyTrustedFramesWrite, OnlyMeasurementsCount,
         NoWriteUnderOpenBreaker, NoFrame
<1> QED  BY <1>1, <1>2, <1>3, <1>4, <1>5 DEF IInv, TypeOK

\* What the other conjuncts need of such a frame.
LEMMA UnmeasuredKeeps ==
    ASSUME IInv, rail' = rail, boot' \in BOOLEAN, converged' \in BOOLEAN,
           fitness' \in Fitness, ekf' \in Ekfs, breaker' \in Breakers,
           Counted(breaker', trust'), out' \in Outcomes,
           ~out'.local, ~out'.commit, out'.health # "healthy"
    PROVE  IInv'
<1>1. OnlyTrustedFramesWrite'
  BY DEF OnlyTrustedFramesWrite, OnlyMeasurementsCount,
         NoWriteUnderOpenBreaker
<1>2. BreakerOK' /\ EkfOK'
  BY DEF BreakerOK, EkfOK, Breakers, Ekfs, Counted
<1>3. FrameOK'
  BY DEF IInv, TypeOK, FrameOK, Outcomes
<1>4. TrustIsCounted'
  BY DEF TrustIsCounted, Counted
<1> QED  BY <1>1, <1>2, <1>3, <1>4 DEF IInv, TypeOK

\* What the invariant says of the variables a frame starts from.
LEMMA StartTyped ==
    ASSUME IInv
    PROVE  /\ breaker \in Breakers /\ ekf \in Ekfs /\ ekf.init \in BOOLEAN
           /\ Counted(breaker, trust) /\ boot \in BOOLEAN
           /\ rail \in BOOLEAN /\ fitness \in Fitness
           /\ converged \in BOOLEAN /\ out \in Outcomes
           /\ BreakerOK /\ TrustIsCounted
BY DEF IInv, TypeOK, BreakerOK, EkfOK, FrameOK, TrustIsCounted, Breakers,
       Ekfs, Outcomes

\* No alignment: the EKF predicts.
LEMMA SkipFrameKeeps == ASSUME IInv, SkipFrame PROVE IInv'
<1>1. PICK still \in BOOLEAN, reliable \in BOOLEAN, usable \in BOOLEAN :
        /\ ekf' = PredictWithoutMeasurement(ekf)
        /\ fitness' = "nan" /\ converged' = FALSE
        /\ out' = Report(ekf.init, FALSE, TRUE, FALSE, usable, FALSE, FALSE,
                         still, reliable, converged', ekf', breaker, "nan")
        /\ UNCHANGED <<rail, boot, breaker, trust>>
  BY DEF SkipFrame
<1>2. /\ out' \in Outcomes /\ ~out'.local /\ ~out'.commit
      /\ out'.health # "healthy"
  <2>1. ~out'.local /\ ~out'.commit
    BY <1>1 DEF Report
  <2>2. out'.health # "healthy"
    BY <1>1 DEF Report, RailHealth, LegacyHealth
  <2>3. out' \in Outcomes
    BY <1>1, StartTyped, TRUE \in BOOLEAN, FALSE \in BOOLEAN, ReportEffect
  <2> QED  BY <2>1, <2>2, <2>3
<1>3. ekf' \in Ekfs /\ fitness' \in Fitness
  BY <1>1, StartTyped, EkfTyped DEF Fitness
<1> QED  BY <1>1, <1>2, <1>3, StartTyped, UnmeasuredKeeps

\* The local map is built from poses nobody measured.
LEMMA BootstrapFrameKeeps == ASSUME IInv, BootstrapFrame PROVE IInv'
<1>1. PICK last \in BOOLEAN, usable \in BOOLEAN, still \in BOOLEAN,
           reliable \in BOOLEAN :
        /\ boot' = last
        /\ fitness' = "nan" /\ converged' = FALSE
        /\ out' = Report(TRUE, FALSE, TRUE, FALSE, usable, FALSE, TRUE, still,
                         reliable, converged', ekf, breaker, "nan")
        /\ UNCHANGED <<rail, breaker, ekf, trust>>
  BY DEF BootstrapFrame
<1>2. /\ out' \in Outcomes /\ ~out'.local /\ ~out'.commit
      /\ out'.health # "healthy"
  <2>1. ~out'.local /\ ~out'.commit
    BY <1>1 DEF Report
  <2>2. out'.health # "healthy"
    BY <1>1 DEF Report, RailHealth, LegacyHealth
  <2>3. out' \in Outcomes
    BY <1>1, TRUE \in BOOLEAN, FALSE \in BOOLEAN, ReportEffect
  <2> QED  BY <2>1, <2>2, <2>3
<1>3. fitness' \in Fitness
  BY <1>1 DEF Fitness
<1> QED  BY <1>1, <1>2, <1>3, StartTyped, UnmeasuredKeeps

\* align() threw: fitness and convergence are those of an earlier frame.
LEMMA ExceptionFrameKeeps == ASSUME IInv, ExceptionFrame PROVE IInv'
<1>1. PICK usable \in BOOLEAN, still \in BOOLEAN, reliable \in BOOLEAN :
        /\ UNCHANGED <<rail, boot, breaker, ekf, fitness, converged, trust>>
        /\ out' = Report(FALSE, TRUE, TRUE, FALSE, usable, FALSE, TRUE, still,
                         reliable, converged', ekf, breaker, fitness)
  BY DEF ExceptionFrame
<1>2. /\ out' \in Outcomes /\ ~out'.local /\ ~out'.commit
      /\ out'.health # "healthy"
  <2>1. ~out'.local /\ ~out'.commit
    BY <1>1 DEF Report
  <2>2. out'.health # "healthy"
    BY <1>1 DEF Report, RailHealth, LegacyHealth
  <2>3. out' \in Outcomes
    BY <1>1, TRUE \in BOOLEAN, FALSE \in BOOLEAN, ReportEffect
  <2> QED  BY <2>1, <2>2, <2>3
<1> QED  BY <1>1, <1>2, StartTyped, UnmeasuredKeeps

\* No usable transform: the breaker may still have seen its score.
LEMMA UnusableFrameKeeps == ASSUME IInv, UnusableFrame PROVE IInv'
<1>1. PICK usable \in BOOLEAN, still \in BOOLEAN, reliable \in BOOLEAN,
           f \in Fitness \union {"unconverged"} :
        /\ converged' = (f # "unconverged")
        /\ fitness' = IF f = "unconverged" THEN "nan" ELSE f
        /\ breaker' = IF rail \/ f = "unconverged" THEN breaker
                      ELSE BreakerUpdate(breaker, f)
        /\ trust' = IF rail \/ f = "unconverged" THEN trust
                    ELSE Trusted(breaker, f)
        /\ ekf' = IF ekf.init THEN PredictWithoutMeasurement(ekf) ELSE ekf
        /\ out' = Report(ekf.init, TRUE, ~breaker'.open, FALSE, usable, FALSE,
                         TRUE, still, reliable, converged', ekf', breaker',
                         fitness')
        /\ UNCHANGED <<rail, boot>>
  BY DEF UnusableFrame
<1>2. /\ out' \in Outcomes /\ ~out'.local /\ ~out'.commit
      /\ out'.health # "healthy"
  <2>1. ~out'.local /\ ~out'.commit
    BY <1>1 DEF Report
  <2>2. out'.health # "healthy"
    BY <1>1 DEF Report, RailHealth, LegacyHealth
  <2>3. PICK allowed : allowed = ~breaker'.open
    OBVIOUS
  <2>4. PICK conv, e, b, g :
          conv = converged' /\ e = ekf' /\ b = breaker' /\ g = fitness'
    OBVIOUS
  <2>5. out' = Report(ekf.init, TRUE, allowed, FALSE, usable, FALSE, TRUE,
                      still, reliable, conv, e, b, g)
    BY <1>1, <2>3, <2>4
  <2>6. out' \in Outcomes
    BY <2>5, StartTyped, TRUE \in BOOLEAN, FALSE \in BOOLEAN, ReportEffect
  <2> QED  BY <2>1, <2>2, <2>6
<1>3. fitness' \in Fitness /\ converged' \in BOOLEAN
  BY <1>1 DEF Fitness
<1>4. ekf' \in Ekfs
  BY <1>1, StartTyped, EkfTyped
<1>5. breaker' \in Breakers /\ Counted(breaker', trust')
  BY <1>1, StartTyped, BreakerTyped, TrustFollows
<1> QED  BY <1>1, <1>2, <1>3, <1>4, <1>5, StartTyped, UnmeasuredKeeps

\* A registered frame: its own match decides whether the breaker lets it
\* write, and a breaker that does has counted its recovery.
LEMMA RegisteredFrameKeeps == ASSUME IInv, RegisteredFrame PROVE IInv'
<1>1. PICK plausible \in BOOLEAN, near \in BOOLEAN, usable \in BOOLEAN,
           fixedYaw \in BOOLEAN, quality \in BOOLEAN, still \in BOOLEAN,
           reliable \in BOOLEAN, f \in Fitness :
        LET evaluated == rail => usable /\ fixedYaw
            b == IF evaluated THEN BreakerUpdate(breaker, f) ELSE breaker
            allowed == evaluated /\ ~b.open
            predicts == ~allowed \/ (ekf.init /\ ~near)
            e == IF ~ekf.init THEN (IF predicts THEN ekf ELSE InitializedEkf)
                 ELSE IF predicts THEN PredictWithoutMeasurement(ekf)
                 ELSE UpdateWithNDT(ekf, plausible)
        IN  /\ boot /\ Possible(breaker, f)
            /\ converged' = TRUE /\ fitness' = f
            /\ breaker' = b
            /\ trust' = IF evaluated THEN Trusted(breaker, f) ELSE trust
            /\ ekf' = e
            /\ out' = Report(e.init, TRUE, allowed, TRUE, usable,
                             usable /\ fixedYaw, quality, still, reliable,
                             converged', e, b, f)
            /\ UNCHANGED <<rail, boot>>
  BY Zenon DEF RegisteredFrame
<1> DEFINE evaluated == rail => usable /\ fixedYaw
           newBreaker == IF evaluated THEN BreakerUpdate(breaker, f)
                         ELSE breaker
           newAllowed == evaluated /\ ~newBreaker.open
           newFixed == usable /\ fixedYaw
           predicts == ~newAllowed \/ (ekf.init /\ ~near)
           newEkf == IF ~ekf.init
                     THEN (IF predicts THEN ekf ELSE InitializedEkf)
                     ELSE IF predicts THEN PredictWithoutMeasurement(ekf)
                     ELSE UpdateWithNDT(ekf, plausible)
           newTrust == IF evaluated THEN Trusted(breaker, f) ELSE trust
<1>2. /\ converged' = TRUE /\ fitness' = f /\ breaker' = newBreaker
      /\ trust' = newTrust /\ ekf' = newEkf /\ rail' = rail /\ boot' = boot
      /\ out' = Report(newEkf.init, TRUE, newAllowed, TRUE, usable, newFixed,
                       quality, still, reliable, converged', newEkf,
                       newBreaker, f)
  BY <1>1
<1>3. newBreaker \in Breakers /\ Counted(newBreaker, newTrust)
  BY StartTyped, BreakerTyped, TrustFollows
<1>4. newEkf \in Ekfs
  BY StartTyped, EkfTyped
<1>5. newAllowed => ~newBreaker.open
  OBVIOUS
<1> HIDE DEF evaluated, newBreaker, newAllowed, newFixed, predicts, newEkf,
             newTrust
<1>6. newEkf.init \in BOOLEAN
  BY <1>4 DEF Ekfs
<1>7. PICK success \in BOOLEAN : success = newEkf.init
  BY <1>6
<1>8. PICK fixed, conv, e, b :
        fixed = newFixed /\ conv = converged' /\ e = newEkf /\ b = newBreaker
  OBVIOUS
<1>9. out' = Report(success, TRUE, newAllowed, TRUE, usable, fixed, quality,
                    still, reliable, conv, e, b, f)
  BY <1>2, <1>7, <1>8
<1>10. /\ out' \in Outcomes /\ out'.measured
       /\ out'.local \/ out'.commit => newAllowed
  <2>1. CASE newAllowed
    <3>1. newAllowed = TRUE
      BY <2>1
    <3>2. out' = Report(success, TRUE, TRUE, TRUE, usable, fixed, quality,
                        still, reliable, conv, e, b, f)
      BY <1>9, <3>1
    <3>3. out' \in Outcomes
      BY <3>2, TRUE \in BOOLEAN, ReportEffect
    <3>4. out'.measured
      BY <3>2 DEF Report
    <3> QED  BY <2>1, <3>3, <3>4
  <2>2. CASE ~newAllowed
    <3>1. newAllowed = FALSE
      BY <2>2
    <3>2. out' = Report(success, TRUE, FALSE, TRUE, usable, fixed, quality,
                        still, reliable, conv, e, b, f)
      BY <1>9, <3>1
    <3>3. out' \in Outcomes
      BY <3>2, TRUE \in BOOLEAN, ReportEffect
    <3>4. out'.measured
      BY <3>2 DEF Report
    <3>5. ~out'.local /\ ~out'.commit
      BY <3>2 DEF Report
    <3> QED  BY <3>3, <3>4, <3>5
  <2> QED  BY <2>1, <2>2
<1>11. OnlyMeasurementsCount'
  BY <1>10 DEF OnlyMeasurementsCount
<1>12. NoWriteUnderOpenBreaker'
  <2>1. ~newBreaker.open => newTrust = RecoveryFrames
    BY <1>3 DEF Counted
  <2>2. out'.local \/ out'.commit =>
          trust' = RecoveryFrames /\ ~breaker'.open
    BY <1>2, <1>5, <1>10, <2>1
  <2> QED  BY <2>2, RegistrationConstants DEF NoWriteUnderOpenBreaker
<1>13. BreakerOK' /\ EkfOK'
  BY <1>2, <1>3, <1>4 DEF BreakerOK, EkfOK, Breakers, Ekfs, Counted
<1>14. FrameOK'
  BY <1>2, <1>10, StartTyped, TRUE \in BOOLEAN DEF FrameOK, Outcomes
<1>15. TrustIsCounted'
  BY <1>2, <1>3 DEF TrustIsCounted, Counted
<1> QED  BY <1>11, <1>12, <1>13, <1>14, <1>15
        DEF IInv, TypeOK, OnlyTrustedFramesWrite

\* A recovered pose closes the breaker by itself.
LEMMA RelocalizedKeeps == ASSUME IInv, Relocalized PROVE IInv'
<1>0. /\ 0 \in 0 .. EnterFrames /\ 0 \in 0 .. RecoveryFrames
      /\ 0 \in 0 .. Warmup /\ RecoveryFrames \in 0 .. RecoveryFrames
  BY RegistrationConstants
<1>1. BreakerOK' /\ ~breaker'.open
  BY <1>0 DEF Relocalized, BreakerOK, ClosedBreaker
<1>2. EkfOK'
  BY EkfTyped DEF Relocalized, EkfOK, Ekfs
<1>3. FrameOK'
  BY DEF IInv, TypeOK, Relocalized, FrameOK
<1>4. TrustIsCounted'
  BY <1>0, <1>1 DEF Relocalized, TrustIsCounted, Counted
<1>5. OnlyTrustedFramesWrite'
  BY <1>1, RegistrationConstants
     DEF IInv, Relocalized, OnlyTrustedFramesWrite, OnlyMeasurementsCount,
         NoWriteUnderOpenBreaker
<1> QED  BY <1>1, <1>2, <1>3, <1>4, <1>5 DEF IInv, TypeOK

\* A loop closure restarts the EKF alone.
LEMMA LoopCorrectedKeeps == ASSUME IInv, LoopCorrected PROVE IInv'
<1>1. EkfOK'
  BY EkfTyped DEF LoopCorrected, EkfOK, Ekfs
<1> QED  BY <1>1
        DEF IInv, TypeOK, LoopCorrected, BreakerOK, FrameOK, TrustIsCounted,
            Counted, OnlyTrustedFramesWrite, OnlyMeasurementsCount,
            NoWriteUnderOpenBreaker

\* A rollback closes the rail breaker and leaves the other as it is.
LEMMA TimeRollbackKeeps == ASSUME IInv, TimeRollback PROVE IInv'
<1>0. /\ 0 \in 0 .. EnterFrames /\ 0 \in 0 .. RecoveryFrames
      /\ 0 \in 0 .. Warmup /\ RecoveryFrames \in 0 .. RecoveryFrames
  BY RegistrationConstants
<1>1. BreakerOK'
  BY <1>0 DEF IInv, TypeOK, TimeRollback, BreakerOK, ClosedBreaker
<1>2. EkfOK'
  BY EkfTyped DEF TimeRollback, EkfOK, Ekfs
<1>3. FrameOK'
  BY DEF IInv, TypeOK, TimeRollback, FrameOK
<1>4. TrustIsCounted'
  BY <1>0 DEF IInv, TimeRollback, TrustIsCounted, Counted, ClosedBreaker
<1>5. OnlyTrustedFramesWrite'
  BY RegistrationConstants
     DEF IInv, TimeRollback, OnlyTrustedFramesWrite, OnlyMeasurementsCount,
         NoWriteUnderOpenBreaker, ClosedBreaker
<1> QED  BY <1>1, <1>2, <1>3, <1>4, <1>5 DEF IInv, TypeOK

LEMMA StepKeeps == IInv /\ [Next]_vars => IInv'
<1> SUFFICES ASSUME IInv, [Next]_vars PROVE IInv'
  OBVIOUS
<1>1. CASE UNCHANGED vars
  BY <1>1
     DEF vars, IInv, TypeOK, BreakerOK, EkfOK, FrameOK, TrustIsCounted,
         Counted, OnlyTrustedFramesWrite, OnlyMeasurementsCount,
         NoWriteUnderOpenBreaker
<1> QED  BY <1>1, SkipFrameKeeps, BootstrapFrameKeeps, ExceptionFrameKeeps,
           UnusableFrameKeeps, RegisteredFrameKeeps, RelocalizedKeeps,
           LoopCorrectedKeeps, TimeRollbackKeeps DEF Next

-----------------------------------------------------------------------------
(* The theorems.                                                           *)

\* The history counts what the breaker counts, along every behaviour.
THEOREM Invariance == Spec => []IInv
BY InitIInv, StepKeeps, PTL DEF Spec

\* The breaker's streaks, the EKF's counters and the report of a frame stay
\* within the limits the code gives them.
THEOREM TypeCorrect == Spec => []TypeOK
<1>1. IInv => TypeOK
  BY DEF IInv
<1> QED  BY <1>1, Invariance, PTL

\* Only a measurement of this frame, under a breaker that is closed and has
\* seen its good matches since it last opened, feeds a map or counts as
\* healthy.
THEOREM TrustedWrites == Spec => []OnlyTrustedFramesWrite
<1>1. IInv => OnlyTrustedFramesWrite
  BY DEF IInv
<1> QED  BY <1>1, Invariance, PTL

-----------------------------------------------------------------------------
(* Induction, for the loops of the trackers over their groups and clusters.*)

\* The least element of a set of natural numbers.
LEMMA Least ==
    ASSUME NEW K, K \subseteq Nat, K # {}
    PROVE  \E k \in K : \A n \in K : k <= n
<1> DEFINE R == {ss \in Nat \X Nat : ss[1] < ss[2]}
<1>1. IsWellFoundedOn(R, Nat)
  BY NatLessThanWellFounded DEF OpToRel
<1>2. PICK k \in K : \A n \in K : ~(<<n, k>> \in R)
  <2> HIDE DEF R
  <2> QED  BY <1>1, WFMin
<1>3. ASSUME NEW n \in K PROVE k <= n
  <2>1. n \in Nat /\ k \in Nat
    BY <1>3
  <2>2. n < k => <<n, k>> \in R
    BY <2>1
  <2> HIDE DEF R
  <2> QED  BY <1>2, <2>1, <2>2
<1> QED  BY <1>3

\* Induction over the natural numbers, for a set.
LEMMA Induction ==
    ASSUME NEW T, 0 \in T, \A n \in Nat : n \in T => n + 1 \in T
    PROVE  Nat \subseteq T
<1> SUFFICES ASSUME Nat \ T # {} PROVE FALSE
  OBVIOUS
<1>1. PICK k \in Nat \ T : \A n \in Nat \ T : k <= n
  BY Least
<1>2. k - 1 \in Nat /\ (k - 1) + 1 = k
  BY <1>1
<1>3. k - 1 \in T
  BY <1>1, <1>2
<1> QED  BY <1>1, <1>2, <1>3

-----------------------------------------------------------------------------
(* IdentityAuthority: where the hook signal is required, everything that   *)
(* identifies a load goes back to a height that was frozen while the hook  *)
(* was EMPTY.                                                              *)

HistoryFields ==
    {"id", "place", "age", "strong", "pre", "samples", "sampleAge", "foot",
     "frozen", "count", "confirmed", "supported", "lift"}
History(x) ==
    /\ x = [y \in HistoryFields |-> x[y]]
    /\ x.frozen \in BOOLEAN /\ x.confirmed \in BOOLEAN
Proven(H) == \E x \in H : x.frozen \/ x.confirmed

IdentityTypes ==
    /\ edge = [y \in DOMAIN I!NoEdge |-> edge[y]]
    /\ lock = [y \in DOMAIN I!NoLock |-> lock[y]]
    /\ edge.age \in Nat /\ ghost.last \in Nat
    /\ ghost.grounded \in BOOLEAN

\* What was measured at rest, wherever it is kept.
ReferenceIsGrounded ==
    role = "REQUIRED" =>
        /\ \A x \in hist : History(x)
        /\ Proven(hist) => ghost.grounded
        /\ edge.cert # I!None => ghost.grounded
        /\ edge.place # I!None => ghost.grounded
        /\ edge.handoff # I!None => ghost.grounded
        /\ lock.phase # "NONE" => ghost.grounded
        /\ mem.validated # I!None => ghost.grounded
        /\ identityOut.identity = "VALIDATED" => ghost.grounded

\* An edge that waits for the other is not younger than the last one seen.
EdgeIsDated ==
    /\ edge.phase # "NONE" => ghost.last <= edge.age
    /\ identityOut.captured => ghost.apart <= EdgeGap

IdentityIInv == IdentityTypes /\ ReferenceIsGrounded /\ EdgeIsDated

LEMMA IdentityInit == I!Init => IdentityIInv
<1> SUFFICES ASSUME I!Init PROVE IdentityIInv
  OBVIOUS
<1>1. IdentityTypes
  BY IdentityAssumption
     DEF I!Init, I!NoEdge, I!NoLock, I!Old, I!None, IdentityTypes
<1>2. ReferenceIsGrounded
  BY DEF I!Init, I!NoEdge, I!NoLock, I!NoDecision, Proven, I!None,
         ReferenceIsGrounded
<1>3. EdgeIsDated
  BY DEF I!Init, I!NoEdge, I!NoDecision, EdgeIsDated
<1> QED  BY <1>1, <1>2, <1>3 DEF IdentityIInv

-----------------------------------------------------------------------------
(* The boundary.                                                           *)

\* The module's own reading of the size of a set.
LEMMA SameCount == \A X : I!Cardinality(X) = Cardinality(X)
BY DEF I!Cardinality, Cardinality

\* A pending boundary only comes from the certificate, and a handoff from
\* either, with both edges within the gap.
LEMMA BoundaryEffect ==
    ASSUME NEW e, NEW life, NEW load, NEW rearm, NEW gravity, NEW rolled,
           e = [y \in DOMAIN I!NoEdge |-> e[y]], e.age \in Nat
    PROVE  LET n == I!Boundary(e, life, load, rearm, gravity, rolled) IN
           /\ n = [y \in DOMAIN I!NoEdge |-> n[y]]
           /\ n.age \in Nat
           /\ n.cert \in {e.cert, I!None}
           /\ n.place \in {e.cert, e.place, I!None}
           /\ n.handoff \in {e.cert, e.place, e.handoff, I!None}
           /\ n.phase # "NONE" =>
                 \/ life \/ load
                 \/ e.phase # "NONE" /\ n.age = I!Older(e.age)
           /\ n.handoff # I!None =>
                 \/ e.handoff # I!None
                 \/ life /\ load
                 \/ /\ e.phase # "NONE" /\ I!Older(e.age) <= EdgeGap
                    /\ life \/ load
<1> DEFINE Fields == DOMAIN I!NoEdge
           edges == life \/ load
           aged == [e EXCEPT !.age = IF e.phase = "NONE" THEN 0
                                     ELSE I!Older(@),
                             !.loadAge = IF e.handoff = I!None THEN 0
                                         ELSE I!Older(@)]
           kept == I!HandoffKept(aged, gravity)
           p == I!Promote(kept, life, load, gravity)
           q == I!Capture(p, life, load, gravity)
           typed(x) == x = [y \in Fields |-> x[y]] /\ x.age \in Nat
<1>0. I!Older(e.age) \in Nat /\ 0 \in Nat
  BY IdentityAssumption DEF I!Older, I!Old
<1>1. /\ typed(aged) /\ aged.cert = e.cert /\ aged.place = e.place
      /\ aged.handoff = e.handoff /\ aged.phase = e.phase
      /\ e.phase # "NONE" => aged.age = I!Older(e.age)
  BY <1>0 DEF I!NoEdge
<1> HIDE DEF aged
<1>2. /\ typed(kept) /\ kept.cert = e.cert /\ kept.place = e.place
      /\ kept.handoff \in {e.handoff, I!None} /\ kept.phase = e.phase
      /\ kept.age = aged.age
  BY <1>1 DEF I!HandoffKept, I!NoEdge
<1> HIDE DEF kept
<1>3. /\ typed(p) /\ p.cert = e.cert /\ p.place \in {e.place, I!None}
      /\ p.handoff \in {kept.handoff, e.place}
      /\ p.phase \in {"NONE", e.phase}
      /\ p.age = aged.age
  BY <1>1, <1>2 DEF I!Promote, I!NoEdge
<1>4. /\ p.handoff # I!None =>
            \/ e.handoff # I!None
            \/ /\ e.phase # "NONE" /\ I!Older(e.age) <= EdgeGap
               /\ life \/ load
  BY <1>1, <1>2 DEF I!Promote, I!Completes, I!NoEdge
<1> HIDE DEF p
<1>5. /\ typed(q)
      /\ q.cert \in {e.cert, I!None}
      /\ q.place \in {p.place, e.cert}
      /\ q.handoff \in {p.handoff, e.cert}
      /\ q.handoff # p.handoff => life /\ load
      /\ (q.phase = p.phase /\ q.age = p.age) \/ life \/ load
  BY <1>3 DEF I!Capture, I!NoEdge
<1> HIDE DEF q
<1> DEFINE n == I!Boundary(e, life, load, rearm, gravity, rolled)
<1>6. \/ n = q
      \/ n = kept
      \/ /\ typed(n) /\ n.phase = "NONE" /\ n.handoff = I!None
         /\ n.place = I!None /\ n.cert = I!None
  <2>1. \/ n = q
        \/ n = kept
        \/ n = [kept EXCEPT !.handoff = I!None, !.phase = "NONE",
                            !.place = I!None, !.cert = I!None,
                            !.authorized = FALSE]
    BY DEF I!Boundary, q, p, kept, aged
  <2> HIDE DEF n
  <2> QED  BY <1>2, <2>1 DEF I!NoEdge
<1> HIDE DEF n
<1>7. CASE n = q
  BY <1>1, <1>2, <1>3, <1>4, <1>5, <1>7 DEF n
<1>8. CASE n = kept
  BY <1>1, <1>2, <1>8 DEF n
<1> QED  BY <1>6, <1>7, <1>8 DEF n

-----------------------------------------------------------------------------
(* One group.                                                              *)

\* An observation freezes a height only while the hook is EMPTY, and confirms
\* a lift only over a frozen height.
LEMMA ObserveEffect ==
    ASSUME role = "REQUIRED", NEW x, History(x), NEW g, NEW handed,
           NEW fr
    PROVE  LET n == I!Observe(x, g, handed, fr) IN
           /\ History(n)
           /\ n.frozen => x.frozen \/ fr.gravity = "EMPTY"
           /\ n.confirmed => x.confirmed \/ n.frozen
<1> DEFINE n == I!Observe(x, g, handed, fr)
           rests(y) == /\ History(y) /\ y.confirmed = x.confirmed
                       /\ y.frozen => x.frozen \/ fr.gravity = "EMPTY"
<1>1. PICK y, a, s : /\ n = I!Lift(y, a, s, fr.gravity)
                     /\ rests(y)
  <2> DEFINE supported == g.vertical = "supported"
             evidence == fr.localized /\ supported
             foot == x.foot \/ (evidence /\ I!Acquisition(fr.gravity)
                                /\ ~fr.blocked)
             authorized == evidence /\ (handed \/ (foot /\ g.surface # "none"))
             seen == [x EXCEPT !.age = 0, !.strong = 0, !.foot = foot]
             rested == I!PreLift(seen, authorized, fr.gravity, fr.loadEdge,
                                 fr.blocked, fr.verdict)
             timed == IF supported THEN [rested EXCEPT !.supported = 0]
                      ELSE rested
  <2>1. rests(seen) /\ seen.frozen = x.frozen
    BY DEF History, HistoryFields
  <2> HIDE DEF seen, authorized
  <2>2. rests(rested)
    <3> DEFINE acquiring == ~seen.frozen /\ I!Acquisition(fr.gravity)
               begun == IF seen.sampleAge > EdgeGap THEN 0 ELSE seen.samples
    <3>1. acquiring => fr.gravity = "EMPTY"
      BY DEF I!Acquisition
    <3> DEFINE none == [seen EXCEPT !.pre = "ACQUIRING", !.samples = 0,
                                    !.sampleAge = I!Old]
               sampled ==
                 IF begun + 1 < LiftFrames
                 THEN [seen EXCEPT !.pre = "ACQUIRING", !.samples = begun + 1,
                                !.sampleAge = 0]
                 ELSE CASE fr.verdict = "stable" ->
                             [seen EXCEPT !.pre = "FROZEN", !.frozen = TRUE,
                                       !.samples = 0, !.sampleAge = I!Old]
                        [] fr.verdict = "departing" ->
                             [seen EXCEPT !.pre = "CLOSED", !.samples = 0,
                                       !.sampleAge = I!Old]
                        [] OTHER -> none
               next == IF acquiring /\ seen.pre # "CLOSED" /\ authorized
                          /\ ~fr.blocked
                       THEN sampled
                       ELSE IF acquiring /\ seen.pre = "ACQUIRING"
                               /\ ~authorized
                       THEN [seen EXCEPT !.pre = "PAUSED"]
                       ELSE IF acquiring /\ seen.pre = "PAUSED" /\ authorized
                       THEN [seen EXCEPT !.pre = "ACQUIRING"] ELSE seen
    <3>2. rested = IF ~next.frozen /\ fr.loadEdge /\ role = "REQUIRED"
                   THEN [next EXCEPT !.pre = "CLOSED", !.samples = 0,
                                     !.sampleAge = I!Old]
                   ELSE next
      BY DEF I!PreLift
    <3> HIDE DEF rested, acquiring
    <3>3. acquiring => rests(sampled)
      <4> HIDE DEF begun
      <4> QED  BY <2>1, <3>1 DEF History, HistoryFields
    <3> HIDE DEF sampled
    <3>4. rests(next)
      BY <2>1, <3>3 DEF History, HistoryFields
    <3> HIDE DEF next
    <3> QED  BY <3>2, <3>4 DEF History, HistoryFields
  <2> HIDE DEF rested
  <2>3. rests(timed)
    BY <2>2 DEF History, HistoryFields
  <2> QED  BY <2>3 DEF I!Observe, seen, authorized, rested
<1> HIDE DEF n
<1>2. /\ History(n) /\ n.frozen = y.frozen
      /\ n.confirmed => y.confirmed \/ y.frozen
  BY <1>1 DEF I!Lift, History, HistoryFields
<1> QED  BY <1>1, <1>2 DEF n

\* What the loop over the groups keeps, where g says whether a height was at
\* rest before the frame.
LoopFields == {"hist", "ids", "assoc", "amb", "cert", "minted", "consumed",
               "reserved"}
Loop(s, g, gravity) ==
    /\ s = [y \in LoopFields |-> s[y]]
    /\ \A x \in s.hist : History(x)
    /\ s.minted \in BOOLEAN
    /\ s.minted => gravity = "EMPTY"
    /\ Proven(s.hist) => g \/ s.minted
    /\ s.cert # I!None => g \/ s.minted

LEMMA AssociateEffect ==
    ASSUME role = "REQUIRED", NEW g \in BOOLEAN, NEW fr, NEW s,
           Loop(s, g, fr.gravity), NEW i, NEW gs, NEW f, NEW handoffGroup,
           i = handoffGroup => g
    PROVE  Loop(I!Associate(s, i, gs, f, handoffGroup, fr), g, fr.gravity)
<1> DEFINE n == I!Associate(s, i, gs, f, handoffGroup, fr)
           handed == i = handoffGroup
           found == {x \in s.hist : x.id = f[i]}
           recover == I!Recoverable(s.hist, gs[i])
           held == CHOOSE x \in recover : TRUE
           hold == [[s EXCEPT !.ids = Append(@, held.id),
                              !.assoc = Append(@, "HOLD"),
                              !.amb = @ \/ FALSE] EXCEPT
                      !.hist = (s.hist \ {held}) \union
                                  {[held EXCEPT !.age = 0]}]
           take(x, was, assoc) ==
             LET o == I!Observe(x, gs[i], handed, fr)
                 minted == o.frozen /\ ~x.frozen
             IN [s EXCEPT !.hist = (s.hist \ was) \union {o},
                          !.ids = Append(@, x.id), !.assoc = Append(@, assoc),
                          !.minted = @ \/ (minted /\ s.cert = I!None),
                          !.cert = IF minted /\ @ = I!None THEN gs[i].place
                                   ELSE @]
<1>1. ASSUME NEW x, NEW was, NEW assoc, History(x),
             x.frozen \/ x.confirmed => g \/ s.minted
      PROVE  Loop(take(x, was, assoc), g, fr.gravity)
  <2> DEFINE o == I!Observe(x, gs[i], handed, fr)
             minted == o.frozen /\ ~x.frozen
             k == take(x, was, assoc)
  <2>1. /\ History(o)
        /\ o.frozen => x.frozen \/ fr.gravity = "EMPTY"
        /\ o.confirmed => x.confirmed \/ o.frozen
    BY <1>1, ObserveEffect
  <2> HIDE DEF o
  <2>2. /\ k = [y \in LoopFields |-> k[y]]
        /\ k.hist = (s.hist \ was) \union {o}
        /\ k.minted = (s.minted \/ (minted /\ s.cert = I!None))
        /\ k.cert = IF minted /\ s.cert = I!None THEN gs[i].place ELSE s.cert
    BY DEF Loop, LoopFields, o
  <2> HIDE DEF k
  <2>3. minted => fr.gravity = "EMPTY"
    BY <2>1
  <2>4. minted => g \/ k.minted
    BY <2>2 DEF Loop
  <2>5. o.frozen \/ o.confirmed => g \/ k.minted
    BY <1>1, <2>1, <2>2, <2>4 DEF History
  <2>6. Proven(k.hist) => g \/ k.minted
    BY <2>2, <2>5 DEF Loop, Proven
  <2>7. k.cert # I!None => g \/ k.minted
    BY <2>2, <2>4 DEF Loop
  <2>8. \A y \in k.hist : History(y)
    BY <2>1, <2>2 DEF Loop
  <2>9. k.minted \in BOOLEAN /\ (k.minted => fr.gravity = "EMPTY")
    BY <2>2, <2>3 DEF Loop
  <2> QED  BY <2>2, <2>6, <2>7, <2>8, <2>9 DEF Loop, k
<1>2. ASSUME NEW a, NEW x, NEW amb
      PROVE  Loop([s EXCEPT !.ids = Append(@, x), !.assoc = Append(@, a),
                            !.amb = @ \/ amb], g, fr.gravity)
  BY DEF Loop, LoopFields
<1>3. ASSUME NEW x \in s.hist, NEW y, NEW a, NEW amb
      PROVE  Loop([[s EXCEPT !.ids = Append(@, y), !.assoc = Append(@, a),
                             !.amb = @ \/ amb] EXCEPT
                     !.hist = (s.hist \ {x}) \union {[x EXCEPT !.age = 0]}],
                  g, fr.gravity)
  <2> DEFINE z == [x EXCEPT !.age = 0]
             k == [[s EXCEPT !.ids = Append(@, y), !.assoc = Append(@, a),
                             !.amb = @ \/ amb] EXCEPT
                     !.hist = (s.hist \ {x}) \union {z}]
  <2>1. History(z) /\ z.frozen = x.frozen /\ z.confirmed = x.confirmed
    BY DEF Loop, History, HistoryFields
  <2> HIDE DEF z
  <2>2. /\ k = [v \in LoopFields |-> k[v]]
        /\ k.hist = (s.hist \ {x}) \union {z}
        /\ k.minted = s.minted /\ k.cert = s.cert
    BY DEF Loop, LoopFields
  <2> HIDE DEF k
  <2>3. Proven(k.hist) => Proven(s.hist)
    BY <2>1, <2>2 DEF Proven
  <2>4. \A v \in k.hist : History(v)
    BY <2>1, <2>2 DEF Loop
  <2> QED  BY <2>2, <2>3, <2>4 DEF Loop, k, z
<1>4. ASSUME NEW x \in s.hist PROVE x.frozen \/ x.confirmed => g \/ s.minted
  BY DEF Loop, Proven
<1>5. \A x \in s.hist : History(x)
  BY DEF Loop
<1>6. ASSUME found # {}
      PROVE  Loop(take(CHOOSE x \in found : TRUE, found, "MATCHED"), g,
                  fr.gravity)
  <2>1. PICK x \in s.hist : x = CHOOSE v \in found : TRUE
    BY <1>6
  <2> HIDE DEF found, take
  <2> QED  BY <1>1, <1>4, <1>5, <2>1
<1>7. ASSUME recover # {}
      PROVE  Loop(hold, g, fr.gravity)
  <2>1. PICK x \in s.hist : x = held
    BY <1>7 DEF I!Recoverable
  <2> HIDE DEF held
  <2> QED  BY <1>3, <2>1
<1>8. ASSUME NEW id
      PROVE  Loop([take(I!NewHistory(id, gs[i], fr.blocked, handed), {}, "NEW")
                     EXCEPT !.consumed = handed], g, fr.gravity)
  <2> DEFINE x == I!NewHistory(id, gs[i], fr.blocked, handed)
             k == take(x, {}, "NEW")
  <2>1. /\ History(x)
        /\ x.frozen \/ x.confirmed => g \/ s.minted
    BY DEF I!NewHistory, History, HistoryFields
  <2> HIDE DEF x, take
  <2>2. Loop(k, g, fr.gravity)
    BY <1>1, <2>1
  <2> HIDE DEF k
  <2>3. Loop([k EXCEPT !.consumed = handed], g, fr.gravity)
    BY <2>2 DEF Loop, LoopFields
  <2> QED  BY <2>3 DEF k, x
<1>9. \/ \E a, amb :
             n = [s EXCEPT !.ids = Append(@, I!None), !.assoc = Append(@, a),
                           !.amb = @ \/ amb]
      \/ /\ found # {}
         /\ n = take(CHOOSE x \in found : TRUE, found, "MATCHED")
      \/ /\ recover # {}
         /\ n = hold
      \/ \E id :
             n = [take(I!NewHistory(id, gs[i], fr.blocked, handed), {}, "NEW")
                    EXCEPT !.consumed = handed]
  BY DEF I!Associate
<1> HIDE DEF n, take, found, recover, hold
<1>10. ASSUME NEW a, NEW amb,
              n = [s EXCEPT !.ids = Append(@, I!None), !.assoc = Append(@, a),
                            !.amb = @ \/ amb]
       PROVE  Loop(n, g, fr.gravity)
  BY <1>2, <1>10
<1>11. CASE found # {} /\ n = take(CHOOSE x \in found : TRUE, found, "MATCHED")
  <2> QED  BY <1>6, <1>11 DEF n
<1>12. CASE recover # {} /\ n = hold
  BY <1>7, <1>12 DEF n
<1>13. ASSUME NEW id,
              n = [take(I!NewHistory(id, gs[i], fr.blocked, handed), {}, "NEW")
                     EXCEPT !.consumed = handed]
       PROVE  Loop(n, g, fr.gravity)
  BY <1>8, <1>13
<1> QED  BY <1>9, <1>10, <1>11, <1>12, <1>13 DEF n

-----------------------------------------------------------------------------
(* The three parts of a frame.                                             *)

LEMMA OlderIsMonotone ==
    ASSUME NEW a \in Nat, NEW b \in Nat, a <= b
    PROVE  I!Older(a) \in Nat /\ I!Older(a) <= I!Older(b)
BY IdentityAssumption DEF I!Older, I!Old

\* What the frame opens with, where g says whether a height was at rest.
Opens(b, in, g) ==
    /\ b.edge = [y \in DOMAIN I!NoEdge |-> b.edge[y]]
    /\ b.edge.age \in Nat
    /\ b.edge.phase # "NONE" =>
          b.isLife \/ b.loadEdge \/ I!Older(ghost.last) <= b.edge.age
    /\ b.edge.handoff # I!None /\ (edge.handoff = I!None \/ in.rolled) =>
          \/ b.isLife /\ b.loadEdge
          \/ (b.isLife \/ b.loadEdge) /\ I!Older(ghost.last) <= EdgeGap
    /\ in.rolled => b.cleared
    /\ role = "REQUIRED" =>
          /\ \A x \in b.hist : History(x)
          /\ Proven(b.hist) => g
          /\ b.edge.cert # I!None => g
          /\ b.edge.place # I!None => g
          /\ b.edge.handoff # I!None => g

LEMMA OpenedEffect ==
    ASSUME IdentityIInv, NEW in \in IdentityInputs
    PROVE  Opens(I!Opened(in), in, ghost.grounded /\ ~in.rolled)
<1> DEFINE b == I!Opened(in)
           g == ghost.grounded /\ ~in.rolled
           loaded == in.gravity = "LOADED"
           isLife == mem.init /\ in.lifeEdge
           loadEdge == mem.init /\ mem.gravity = "EMPTY" /\ loaded
           newEpoch == in.rearm \/ isLife
           existed == mem.existed /\ ~newEpoch
           unload == in.gravity = "EMPTY" /\ existed /\ role = "REQUIRED"
           cleared == in.rolled \/ newEpoch \/ unload
           closed == (loaded /\ ~existed) /\ role = "REQUIRED"
           was == IF in.rolled THEN I!NoEdge ELSE edge
           e == I!Boundary(was, isLife, loadEdge, in.rearm, in.gravity,
                           in.rolled)
           old(h) == [h EXCEPT !.age = I!Older(@), !.strong = I!Older(@),
                         !.sampleAge = I!Older(@), !.supported = I!Older(@),
                         !.lift = IF @ = I!Never THEN @ ELSE I!Older(@)]
           start(h) == IF ~closed THEN h
                       ELSE [h EXCEPT !.count = 0, !.confirmed = FALSE,
                               !.supported = I!Old,
                               !.pre = IF h.frozen THEN @ ELSE "CLOSED",
                               !.samples = IF h.frozen THEN @ ELSE 0]
           ages == {old(h) : h \in hist}
           begun == {start(h) : h \in ages}
           kept == IF cleared THEN {} ELSE {h \in begun : h.age <= TTL}
<1>1. /\ b.hist = kept /\ b.isLife = isLife /\ b.loadEdge = loadEdge
      /\ b.cleared = cleared
      /\ b.edge = [e EXCEPT !.cert = IF newEpoch \/ unload THEN I!None ELSE @,
                            !.authorized = @ /\ ~unload]
  BY DEF I!Opened
<1>2. /\ was = [y \in DOMAIN I!NoEdge |-> was[y]] /\ was.age \in Nat
      /\ was.phase # "NONE" => ghost.last <= was.age
      /\ ghost.last \in Nat
      /\ edge.handoff = I!None \/ in.rolled => was.handoff = I!None
      /\ role = "REQUIRED" => /\ was.cert # I!None => g
                              /\ was.place # I!None => g
                              /\ was.handoff # I!None => g
  BY DEF IdentityIInv, IdentityTypes, EdgeIsDated, ReferenceIsGrounded,
         I!NoEdge, I!None
<1> HIDE DEF was, isLife, loadEdge
<1>3. /\ e = [y \in DOMAIN I!NoEdge |-> e[y]]
      /\ e.age \in Nat
      /\ e.cert \in {was.cert, I!None}
      /\ e.place \in {was.cert, was.place, I!None}
      /\ e.handoff \in {was.cert, was.place, was.handoff, I!None}
      /\ e.phase # "NONE" =>
            \/ isLife \/ loadEdge
            \/ was.phase # "NONE" /\ e.age = I!Older(was.age)
      /\ e.handoff # I!None =>
            \/ was.handoff # I!None
            \/ isLife /\ loadEdge
            \/ /\ was.phase # "NONE" /\ I!Older(was.age) <= EdgeGap
               /\ isLife \/ loadEdge
  BY <1>2, BoundaryEffect
<1> HIDE DEF e
<1>4. was.phase # "NONE" => I!Older(ghost.last) <= I!Older(was.age)
  BY <1>2, OlderIsMonotone
<1>5. I!Older(ghost.last) \in Nat /\ I!Older(was.age) \in Nat /\ EdgeGap \in Nat
  BY <1>2, OlderIsMonotone, IdentityAssumption
<1> HIDE DEF b, kept, newEpoch, unload
<1>6. /\ b.edge = [y \in DOMAIN I!NoEdge |-> b.edge[y]]
      /\ b.edge.age = e.age /\ b.edge.phase = e.phase
      /\ b.edge.place = e.place /\ b.edge.handoff = e.handoff
      /\ b.edge.cert \in {e.cert, I!None}
  BY <1>1, <1>3 DEF I!NoEdge
<1>7. /\ in.rolled => b.cleared
      /\ in.rolled => kept = {}
  BY <1>1 DEF kept
<1>8. role = "REQUIRED" => /\ \A x \in kept : History(x)
                           /\ Proven(kept) => Proven(hist)
  <2> SUFFICES ASSUME role = "REQUIRED"
               PROVE  /\ \A x \in kept : History(x)
                      /\ Proven(kept) => Proven(hist)
    OBVIOUS
  <2>1. ASSUME NEW h \in hist
        PROVE  /\ History(old(h))
               /\ old(h).frozen = h.frozen /\ old(h).confirmed = h.confirmed
    <3>1. History(h)
      BY DEF IdentityIInv, ReferenceIsGrounded
    <3> HIDE DEF closed
    <3> QED  BY <3>1 DEF History, HistoryFields
  <2> HIDE DEF old
  <2>2. ASSUME NEW x, History(x)
        PROVE  /\ History(start(x)) /\ start(x).frozen = x.frozen
               /\ start(x).confirmed => x.confirmed
    <3> HIDE DEF closed
    <3> QED  BY <2>2 DEF History, HistoryFields
  <2>3. ASSUME NEW y \in kept
        PROVE  \E h \in hist : y = start(old(h))
    <3> HIDE DEF start, cleared
    <3>1. y \in begun
      BY DEF kept
    <3>2. PICK x \in ages : y = start(x)
      BY <3>1
    <3> QED  BY <3>2
  <2> HIDE DEF start
  <2> QED  BY <2>1, <2>2, <2>3 DEF Proven
<1>9. role = "REQUIRED" /\ Proven(kept) => g
  <2>1. kept # {} => ~in.rolled
    BY DEF kept
  <2>2. Proven(kept) => kept # {}
    BY DEF Proven
  <2> QED  BY <1>8, <2>1, <2>2 DEF IdentityIInv, ReferenceIsGrounded
<1>10. role = "REQUIRED" => /\ b.edge.cert # I!None => g
                            /\ b.edge.place # I!None => g
                            /\ b.edge.handoff # I!None => g
  <2> HIDE DEF g
  <2> QED  BY <1>2, <1>3, <1>6
<1>11. b.edge.phase # "NONE" =>
          b.isLife \/ b.loadEdge \/ I!Older(ghost.last) <= b.edge.age
  BY <1>1, <1>3, <1>4, <1>6
<1>12. b.edge.handoff # I!None /\ (edge.handoff = I!None \/ in.rolled) =>
          \/ b.isLife /\ b.loadEdge
          \/ (b.isLife \/ b.loadEdge) /\ I!Older(ghost.last) <= EdgeGap
  BY <1>1, <1>2, <1>3, <1>4, <1>5, <1>6
<1> HIDE DEF g
<1> QED  BY <1>1, <1>3, <1>6, <1>7, <1>8, <1>9, <1>10, <1>11, <1>12
         DEF Opens, b, g

-----------------------------------------------------------------------------
\* The groups one after the other.
Start(b) ==
    [hist |-> b.hist, ids |-> <<>>, assoc |-> <<>>, amb |-> FALSE,
     cert |-> b.edge.cert, minted |-> FALSE, consumed |-> FALSE,
     reserved |-> {owner.active, mem.validated}]

LEMMA AssociatedEffect ==
    ASSUME role = "REQUIRED", NEW in \in IdentityInputs, NEW b,
           NEW g \in BOOLEAN, Opens(b, in, g), NEW f, NEW f0, NEW gs,
           gs = in.groups
    PROVE  Loop(I!Associated(in, b, f, I!HandoffGroup(b.edge, gs, f0)), g,
                in.gravity)
<1> DEFINE to == I!HandoffGroup(b.edge, gs, f0)
           fr == [gravity |-> in.gravity, localized |-> in.localized,
                  blocked |-> b.blocked, verdict |-> in.verdict,
                  loadEdge |-> b.gravityEdge]
           Op(s, i) == I!Associate(s, i, gs, f, to, fr)
           N == Len(gs)
           Eq(h, n) == h = [i \in 0 .. n |->
                              IF i = 0 THEN Start(b) ELSE Op(h[i - 1], i)]
           T == {n \in Nat : \E h : Eq(h, n)}
           after[i \in 0 .. N] == IF i = 0 THEN Start(b)
                                  ELSE Op(after[i - 1], i)
<1>1. N \in Nat
  BY IdentityAssumption DEF IdentityFrames
<1>2. I!Associated(in, b, f, to) = after[N]
  BY DEF I!Associated, Start
<1>3. fr.gravity = in.gravity
  OBVIOUS
<1>4. ASSUME NEW i PROVE i = to /\ i \in Nat \ {0} => g
  BY DEF I!HandoffGroup, I!None, Opens
<1> HIDE DEF N, to, fr
<1>5. Eq(after, N)
  <2>1. 0 \in T
    <3>1. Eq([i \in 0 .. 0 |-> Start(b)], 0)
      OBVIOUS
    <3> QED  BY <3>1
  <2>2. ASSUME NEW n \in Nat, n \in T PROVE n + 1 \in T
    <3>1. PICK h : Eq(h, n)
      BY <2>2
    <3> DEFINE k == [i \in 0 .. (n + 1) |-> IF i = n + 1
                                            THEN Op(h[n], n + 1) ELSE h[i]]
    <3> HIDE DEF Op
    <3>2. \A i \in 0 .. (n + 1) : k[i] = IF i = 0 THEN Start(b)
                                         ELSE Op(k[i - 1], i)
      BY <3>1
    <3>3. Eq(k, n + 1)
      BY <3>2
    <3>4. n + 1 \in Nat
      OBVIOUS
    <3> HIDE DEF Eq
    <3> QED  BY <3>3, <3>4
  <2>3. N \in T
    <3> HIDE DEF T
    <3> QED  BY <1>1, <2>1, <2>2, Induction
  <2>4. PICK h : Eq(h, N)
    BY <2>3
  <2>5. after = CHOOSE z : Eq(z, N)
    OBVIOUS
  <2> HIDE DEF Eq, after
  <2> QED  BY <2>4, <2>5
<1>6. /\ after[0] = Start(b)
      /\ \A i \in 1 .. N : after[i] = Op(after[i - 1], i)
  <2> HIDE DEF after, Op
  <2> QED  BY <1>1, <1>5
<1> HIDE DEF after
<1> DEFINE kept(i) == Loop(after[i], g, in.gravity)
           K == {i \in Nat : i \in 0 .. N => kept(i)}
<1>7. 0 \in K
  <2>1. /\ Start(b) = [y \in LoopFields |-> Start(b)[y]]
        /\ Start(b).hist = b.hist /\ Start(b).cert = b.edge.cert
        /\ Start(b).minted = FALSE
    BY DEF Start, LoopFields
  <2>2. Loop(Start(b), g, in.gravity)
    <3> HIDE DEF Start
    <3> QED  BY <2>1 DEF Loop, Opens
  <2> QED  BY <1>6, <2>2
<1>8. ASSUME NEW i \in Nat, i \in K PROVE i + 1 \in K
  <2> SUFFICES ASSUME i + 1 \in 0 .. N PROVE kept(i + 1)
    OBVIOUS
  <2>1. kept(i) /\ i + 1 \in Nat \ {0} /\ i + 1 \in 1 .. N
    BY <1>1, <1>8
  <2>2. after[i + 1] = Op(after[i], i + 1)
    <3> HIDE DEF Op
    <3> QED  BY <1>6, <2>1
  <2>3. i + 1 = to => g
    BY <1>4, <2>1
  <2>4. Loop(Op(after[i], i + 1), g, fr.gravity)
    BY <1>3, <2>1, <2>3, AssociateEffect
  <2> QED  BY <1>3, <2>2, <2>4
<1>9. N \in K
  <2> HIDE DEF K
  <2> QED  BY <1>1, <1>7, <1>8, Induction
<1> QED  BY <1>1, <1>2, <1>9 DEF to

-----------------------------------------------------------------------------
\* A load is validated by a lift confirmed in this frame or in an earlier one.
LEMMA ConcludedEffect ==
    ASSUME NEW in, NEW b, NEW f, NEW s, \A x \in s.hist : History(x)
    PROVE  LET d == I!Concluded(in, b, f, s) IN
           /\ d.validated # I!None =>
                 \/ Proven(s.hist)
                 \/ ~b.cleared /\ mem.validated # I!None
           /\ d.identity = "VALIDATED" => d.validated # I!None
<1> DEFINE fresh == I!FreshConfirmed(s.hist)
           one == I!Cardinality(fresh) = 1
           only == IF one THEN (CHOOSE h \in fresh : TRUE).id ELSE I!None
           held == IF b.cleared THEN I!None ELSE mem.validated
           protected == IF one THEN only ELSE held
           conflict == protected # I!None
                       /\ I!Conflict(b.hist, s.hist, in.groups, f, protected)
           exists == I!Exists(in.gravity, fresh)
           validated ==
             I!ValidatedAfter(in.gravity, exists, one, only, conflict, held)
           d == I!Concluded(in, b, f, s)
<1>1. /\ d.validated = validated
      /\ d.identity = I!Identity(s, b.started, fresh, conflict, validated,
                                 exists)
  <2>1. d = [exists |-> exists, validated |-> validated,
             identity |-> I!Identity(s, b.started, fresh, conflict, validated,
                                     exists)]
    BY DEF I!Concluded
  <2> HIDE DEF d, validated, exists, conflict, fresh
  <2> QED  BY <2>1
<1>2. one => fresh # {}
  BY FS_EmptySet, SameCount
<1>3. fresh # {} => Proven(s.hist)
  BY DEF I!FreshConfirmed, Proven
<1>4. validated \in {I!None, held} \/ (validated = only /\ one)
  <2> HIDE DEF held, only, one, conflict, exists
  <2> QED  BY DEF I!ValidatedAfter
<1>5. validated # I!None =>
         Proven(s.hist) \/ (~b.cleared /\ mem.validated # I!None)
  <2> HIDE DEF fresh, validated, one
  <2> QED  BY <1>2, <1>3, <1>4
<1>6. d.identity = "VALIDATED" => validated # I!None
  <2> HIDE DEF validated, conflict, exists, fresh
  <2> QED  BY <1>1 DEF I!Identity
<1> HIDE DEF validated, d
<1> QED  BY <1>1, <1>5, <1>6 DEF d

\* The formal lock waits for, or counts, the lift over a grounded height.
LEMMA LockEffect ==
    ASSUME IdentityIInv, NEW s, NEW rolled, NEW authorized, NEW loaded,
           NEW logical, NEW top
    PROVE  LET k == I!FormalLock(I!Activated(I!Minted(s, rolled), authorized,
                                             loaded), logical, top) IN
           /\ k = [y \in DOMAIN I!NoLock |-> k[y]]
           /\ k.phase # "NONE" => s.minted \/ (~rolled /\ lock.phase # "NONE")
<1> DEFINE typed(x) == x = [y \in DOMAIN I!NoLock |-> x[y]]
           m == I!Minted(s, rolled)
           a == I!Activated(m, authorized, loaded)
           k == I!FormalLock(a, logical, top)
<1>1. typed(m) /\ (m.phase # "NONE" =>
                     s.minted \/ (~rolled /\ lock.phase # "NONE"))
  BY DEF IdentityIInv, IdentityTypes, I!Minted, I!NoLock
<1> HIDE DEF m
<1>2. typed(a) /\ (a.phase # "NONE" => m.phase # "NONE")
  BY <1>1 DEF I!Activated, I!NoLock
<1> HIDE DEF a
<1>3. typed(I!FormalLift(a, logical, top))
      /\ I!FormalLift(a, logical, top).phase = a.phase
  BY <1>2 DEF I!FormalLift, I!NoLock
<1>4. typed(k) /\ k.phase = a.phase
  BY <1>2, <1>3 DEF I!FormalLock
<1> HIDE DEF k
<1> QED  BY <1>1, <1>2, <1>4 DEF k, a, m

-----------------------------------------------------------------------------
LEMMA IdentityFrame == IdentityIInv /\ I!Frame => IdentityIInv'
<1> SUFFICES ASSUME IdentityIInv, I!Frame PROVE IdentityIInv'
  OBVIOUS
<1>1. PICK in \in IdentityInputs :
        \E b \in {I!Opened(in)} :
        \E f0 \in I!Matches({h \in b.hist : h.age <= EdgeGap}, in.groups) :
        \E g \in {I!HandoffGroup(b.edge, in.groups, f0)} :
        \E f \in {I!HeightChecked(in.groups,
                                  I!Rescued(b.hist, in.groups, f0))} :
        \E e \in {I!Offered(b.edge, g, in.groups)} :
        \E s \in {I!Associated(in, b, f, g)} :
        \E d \in {I!Concluded(in, b, f, s)} :
        \E k \in {I!FormalLock(I!Activated(I!Minted(s, in.rolled),
                                           e.authorized,
                                           in.gravity = "LOADED"),
                               I!LogicalOwner(in.groups, in.joined),
                               in.top)} :
           I!Update(in, b, f, e, s, d, k)
  BY DEF I!Frame
<1>2. PICK b, f0, g, f, e, s, d, k :
        /\ b = I!Opened(in)
        /\ g = I!HandoffGroup(b.edge, in.groups, f0)
        /\ e = I!Offered(b.edge, g, in.groups)
        /\ s = I!Associated(in, b, f, g)
        /\ d = I!Concluded(in, b, f, s)
        /\ k = I!FormalLock(I!Activated(I!Minted(s, in.rolled), e.authorized,
                                        in.gravity = "LOADED"),
                            I!LogicalOwner(in.groups, in.joined), in.top)
        /\ I!Update(in, b, f, e, s, d, k)
  BY <1>1
<1> DEFINE rest == ghost.grounded /\ ~in.rolled
<1>3. rest \in BOOLEAN
  BY DEF IdentityIInv, IdentityTypes
<1>4. Opens(b, in, rest)
  BY <1>2, OpenedEffect
<1>5. role = "REQUIRED" => Loop(s, rest, in.gravity)
  BY <1>2, <1>3, <1>4, AssociatedEffect
<1>6. role = "REQUIRED" =>
        /\ d.validated # I!None =>
              \/ Proven(s.hist)
              \/ ~b.cleared /\ mem.validated # I!None
        /\ d.identity = "VALIDATED" => d.validated # I!None
  BY <1>2, <1>5, ConcludedEffect DEF Loop
<1>7. /\ k = [y \in DOMAIN I!NoLock |-> k[y]]
      /\ k.phase # "NONE" => s.minted \/ (~in.rolled /\ lock.phase # "NONE")
  BY <1>2, LockEffect
<1>8. /\ e = [y \in DOMAIN I!NoEdge |-> e[y]]
      /\ e.handoff \in {b.edge.handoff, I!None}
      /\ e.place = b.edge.place /\ e.age = b.edge.age
      /\ e.phase = b.edge.phase
  BY <1>2, <1>4 DEF Opens, I!Offered, I!NoEdge
<1>9. I!Update(in, b, f, e, s, d, k)
  BY <1>2
<1>10. /\ edge' = [y \in DOMAIN I!NoEdge |-> edge'[y]]
       /\ edge'.age = e.age /\ edge'.phase = e.phase
       /\ edge'.place = e.place
       /\ edge'.handoff \in {e.handoff, I!None}
       /\ edge'.cert \in {s.cert, I!None}
  BY <1>8, <1>9 DEF I!Update, I!NoEdge
<1>11. /\ lock' = k /\ role' = role
       /\ mem'.validated = d.validated
       /\ identityOut'.identity = d.identity
       /\ identityOut'.captured = (b.edge.handoff # I!None
                                   /\ (edge.handoff = I!None \/ in.rolled))
  BY <1>9 DEF I!Update
<1>12. /\ ghost'.last = IF b.isLife \/ b.loadEdge THEN 0
                        ELSE I!Older(ghost.last)
       /\ ghost'.apart = IF b.isLife /\ b.loadEdge THEN 0
                         ELSE IF b.isLife \/ b.loadEdge
                         THEN I!Older(ghost.last) ELSE I!Old
       /\ ghost'.grounded = (rest \/ (s.minted /\ in.gravity = "EMPTY"))
  BY <1>9 DEF I!Update, I!Ghost
<1>13. I!Older(ghost.last) \in Nat /\ EdgeGap \in Nat
  BY OlderIsMonotone, IdentityAssumption DEF IdentityIInv, IdentityTypes
<1>14. IdentityTypes'
  <2>1. edge'.age \in Nat
    BY <1>4, <1>8, <1>10 DEF Opens
  <2>2. ghost'.last \in Nat /\ ghost'.grounded \in BOOLEAN
    BY <1>12, <1>13
  <2> QED  BY <1>7, <1>10, <1>11, <2>1, <2>2
           DEF IdentityTypes, I!NoEdge, I!NoLock, I!None, I!Old
<1>15. EdgeIsDated'
  <2>1. edge'.phase # "NONE" => ghost'.last <= edge'.age
    BY <1>4, <1>8, <1>10, <1>12 DEF Opens
  <2>2. ASSUME identityOut'.captured PROVE ghost'.apart <= EdgeGap
    <3>1. \/ b.isLife /\ b.loadEdge
          \/ (b.isLife \/ b.loadEdge) /\ I!Older(ghost.last) <= EdgeGap
      BY <1>4, <1>11, <2>2 DEF Opens
    <3> QED  BY <1>12, <1>13, <3>1
  <2> QED  BY <2>1, <2>2 DEF EdgeIsDated
<1>16. ReferenceIsGrounded'
  <2> SUFFICES ASSUME role = "REQUIRED"
               PROVE  /\ \A x \in hist' : History(x)
                      /\ Proven(hist') => ghost'.grounded
                      /\ edge'.cert # I!None => ghost'.grounded
                      /\ edge'.place # I!None => ghost'.grounded
                      /\ edge'.handoff # I!None => ghost'.grounded
                      /\ lock'.phase # "NONE" => ghost'.grounded
                      /\ mem'.validated # I!None => ghost'.grounded
                      /\ identityOut'.identity = "VALIDATED" => ghost'.grounded
    BY <1>11 DEF ReferenceIsGrounded, I!None, Proven
  <2>1. ghost'.grounded = (rest \/ s.minted)
    BY <1>5, <1>12 DEF Loop
  <2>2. lock'.phase # "NONE" => ghost'.grounded
    BY <1>7, <1>11, <2>1 DEF IdentityIInv, ReferenceIsGrounded
  <2>3. PICK anchor :
          /\ hist' = I!Projected(s.hist, anchor)
          /\ anchor # I!None => k.phase = "POSTLOAD"
    BY <1>9 DEF I!Update
  <2>4. /\ \A x \in hist' : History(x)
        /\ Proven(hist') => ghost'.grounded
    <3>1. CASE anchor = I!None
      BY <1>5, <2>1, <2>3, <3>1 DEF I!Projected, Loop
    <3>2. CASE anchor # I!None
      <4>1. ghost'.grounded
        BY <1>11, <2>2, <2>3, <3>2
      <4>2. ASSUME NEW x \in hist' PROVE History(x)
        BY <1>5, <2>3, <3>2 DEF I!Projected, Loop, History, HistoryFields
      <4> QED  BY <4>1, <4>2
    <3> QED  BY <3>1, <3>2
  <2>5. /\ edge'.cert # I!None => ghost'.grounded
        /\ edge'.place # I!None => ghost'.grounded
        /\ edge'.handoff # I!None => ghost'.grounded
    BY <1>4, <1>5, <1>8, <1>10, <2>1 DEF Opens, Loop
  <2>6. /\ d.validated # I!None => ghost'.grounded
        /\ d.identity = "VALIDATED" => ghost'.grounded
    BY <1>4, <1>5, <1>6, <2>1
       DEF Opens, Loop, IdentityIInv, ReferenceIsGrounded
  <2> QED  BY <1>11, <2>2, <2>4, <2>5, <2>6
<1> QED  BY <1>14, <1>15, <1>16 DEF IdentityIInv

LEMMA IdentityStep == IdentityIInv /\ [I!Next]_(I!vars) => IdentityIInv'
<1> SUFFICES ASSUME IdentityIInv, [I!Next]_(I!vars) PROVE IdentityIInv'
  OBVIOUS
<1>1. CASE I!Frame
  BY <1>1, IdentityFrame
<1>2. CASE I!RepeatedFrame
  BY <1>2 DEF I!RepeatedFrame, I!NoDecision, IdentityIInv, IdentityTypes,
              ReferenceIsGrounded, EdgeIsDated, Proven, I!NoEdge, I!NoLock,
              I!None, I!Old
<1>3. CASE UNCHANGED I!vars
  BY <1>3 DEF I!vars, IdentityIInv, IdentityTypes, ReferenceIsGrounded,
              EdgeIsDated, Proven, I!NoEdge, I!NoLock, I!None, I!Old
<1> QED  BY <1>1, <1>2, <1>3 DEF I!Next

-----------------------------------------------------------------------------
(* StationaryMotion: what the catch-up counts is what the history saw.     *)

Held == {"STATIONARY_HOLD", "MOVING_CONFIRM"}

MotionIInv ==
    /\ settled \in 0 .. CatchUpFrames
    /\ motion.complete \in Nat
    /\ motion.state \in {"MOVING", "CATCH_UP"} \union Held
    /\ motion = [x \in DOMAIN S!Moving |-> motion[x]]
    /\ motion.state = "MOVING" => settled = CatchUpFrames
    /\ motion.state = "CATCH_UP" => settled >= motion.complete
    /\ allow => settled = CatchUpFrames

LEMMA MotionInit == S!Init => MotionIInv
BY MotionAssumption DEF S!Init, S!Moving, MotionIInv

\* What one update may do, whatever it measured.
LEMMA PolicyEffect ==
    ASSUME MotionIInv, NEW r \in BOOLEAN, NEW z, NEW f
    PROVE  LET m == S!Policy(r, z, f)
               close == r /\ S!Gap(f, z) <= CatchUpStep
           IN /\ m = [x \in DOMAIN S!Moving |-> m[x]]
              /\ m.complete \in Nat
              /\ m.state \in {"MOVING", "CATCH_UP"} \union Held
              /\ m.state = "MOVING" =>
                    \/ motion.state = "MOVING"
                    \/ motion.state = "CATCH_UP" /\ close
                       /\ motion.complete + 1 >= CatchUpFrames
              /\ m.state = "CATCH_UP" =>
                    \/ m.complete = 0
                    \/ motion.state = "CATCH_UP" /\ close
                       /\ m.complete = motion.complete + 1
                       /\ m.complete < CatchUpFrames
<1> DEFINE m == S!Policy(r, z, f)
           close == r /\ S!Gap(f, z) <= CatchUpStep
           typed(x) == /\ x = [y \in DOMAIN S!Moving |-> x[y]]
                       /\ x.complete \in Nat
           effect(x) ==
               /\ typed(x)
               /\ x.state \in {"MOVING", "CATCH_UP"} \union Held
               /\ x.state = "MOVING" =>
                     \/ motion.state = "MOVING"
                     \/ motion.state = "CATCH_UP" /\ close
                        /\ motion.complete + 1 >= CatchUpFrames
               /\ x.state = "CATCH_UP" =>
                     \/ x.complete = 0
                     \/ motion.state = "CATCH_UP" /\ close
                        /\ x.complete = motion.complete + 1
                        /\ x.complete < CatchUpFrames
<1>1. typed(motion) /\ typed(S!Moving)
  BY DEF MotionIInv, S!Moving
<1>2. /\ typed(S!Hold(z, f))
      /\ S!Hold(z, f).state = "STATIONARY_HOLD"
  BY <1>1 DEF S!Hold, S!Moving
<1>3. CASE motion.state = "MOVING"
  <2>1. m = [S!WhileMoving(r, z, f) EXCEPT !.last = IF r THEN z ELSE @]
    BY <1>3 DEF S!Policy
  <2>2. effect(S!WhileMoving(r, z, f))
    <3>1. \/ S!WhileMoving(r, z, f) = [S!Hold(z, f) EXCEPT !.enter = 0]
          \/ \E n : S!WhileMoving(r, z, f) = [motion EXCEPT !.enter = n]
      BY DEF S!WhileMoving
    <3> QED  BY <1>1, <1>2, <1>3, <3>1 DEF Held, S!Moving
  <2> QED  BY <2>1, <2>2 DEF S!Moving
<1>4. CASE motion.state = "CATCH_UP"
  <2>1. m = [S!WhileCatchUp(r, z, f) EXCEPT !.last = IF r THEN z ELSE @]
    BY <1>4 DEF S!Policy
  <2>2. effect(S!WhileCatchUp(r, z, f))
    <3> DEFINE n == IF close THEN motion.complete + 1 ELSE 0
    <3>1. S!WhileCatchUp(r, z, f) =
             IF n >= CatchUpFrames
             THEN [S!Moving EXCEPT !.last = motion.last]
             ELSE [motion EXCEPT !.complete = n]
      BY DEF S!WhileCatchUp
    <3>2. n \in Nat /\ (n = 0 \/ (close /\ n = motion.complete + 1))
      <4>1. n = 0 \/ (close /\ n = motion.complete + 1)
        OBVIOUS
      <4>2. motion.complete + 1 \in Nat
        BY <1>1
      <4> HIDE DEF n
      <4> QED  BY <4>1, <4>2
    <3>3. CASE n >= CatchUpFrames
      <4>1. close /\ n = motion.complete + 1
        BY <3>2, <3>3, MotionAssumption
      <4> HIDE DEF n
      <4> QED  BY <1>1, <1>4, <3>1, <3>3, <4>1 DEF S!Moving
    <3>4. CASE ~(n >= CatchUpFrames)
      <4> HIDE DEF n
      <4>1. n < CatchUpFrames
        BY <3>2, <3>4, MotionAssumption
      <4>2. S!WhileCatchUp(r, z, f) = [motion EXCEPT !.complete = n]
        BY <3>1, <3>4
      <4>3. typed(S!WhileCatchUp(r, z, f))
        BY <1>1, <3>2, <4>2 DEF S!Moving
      <4>4. /\ S!WhileCatchUp(r, z, f).state = "CATCH_UP"
            /\ S!WhileCatchUp(r, z, f).complete = n
        BY <1>1, <1>4, <4>2 DEF S!Moving
      <4> QED  BY <1>4, <3>2, <4>1, <4>3, <4>4
    <3> QED  BY <3>3, <3>4
  <2> QED  BY <2>1, <2>2 DEF S!Moving
<1>5. CASE motion.state \in Held
  <2>1. m = [S!WhileHeld(r, z, f) EXCEPT !.last = IF r THEN z ELSE @]
    BY <1>5 DEF S!Policy, Held
  <2>2. effect(S!WhileHeld(r, z, f))
    <3>1. PICK s, a, k, o : S!WhileHeld(r, z, f) \in
             {[S!Moving EXCEPT !.state = "CATCH_UP", !.last = motion.last],
              S!Hold(z, f),
              [motion EXCEPT !.samples = s, !.state = a, !.age = k,
                             !.complete = o]}
             /\ a \in {"MOVING_CONFIRM", motion.state}
             /\ o \in {0, motion.complete}
      BY DEF S!WhileHeld
    <3> QED  BY <1>1, <1>2, <1>5, <3>1 DEF Held, S!Moving
  <2> QED  BY <2>1, <2>2 DEF S!Moving
<1> QED  BY <1>3, <1>4, <1>5 DEF MotionIInv

LEMMA MotionStep == MotionIInv /\ [S!Next]_S!vars => MotionIInv'
<1> SUFFICES ASSUME MotionIInv, [S!Next]_S!vars PROVE MotionIInv'
  OBVIOUS
<1>1. CASE S!Frame
  <2>1. PICK r, z, f :
           /\ r \in BOOLEAN
           /\ motion' = S!Policy(r, z, f)
           /\ allow' = S!Allowed(motion', r)
           /\ settled' =
                IF motion'.state \in {"STATIONARY_HOLD", "MOVING_CONFIRM"}
                THEN 0
                ELSE IF settled = CatchUpFrames THEN settled
                ELSE IF r /\ S!Gap(f, z) <= CatchUpStep THEN settled + 1
                ELSE 0
    <3>1. PICK there \in Places, sees \in BOOLEAN, lags \in BOOLEAN :
            LET accepted == sees /\ S!Gap(there, pose) <= MaxStep
                f == IF accepted /\ ~lags THEN there ELSE pose
                z == IF sees THEN there ELSE pose
                r == accepted /\ (raw = S!None \/ S!Gap(there, raw) <= MaxStep)
            IN /\ motion' = S!Policy(r, z, f)
               /\ allow' = S!Allowed(S!Policy(r, z, f), r)
               /\ settled' =
                    IF S!Policy(r, z, f).state \in
                           {"STATIONARY_HOLD", "MOVING_CONFIRM"} THEN 0
                    ELSE IF settled = CatchUpFrames THEN settled
                    ELSE IF r /\ S!Gap(f, z) <= CatchUpStep THEN settled + 1
                    ELSE 0
      BY <1>1 DEF S!Frame
    <3>2. \A r : r = (sees /\ S!Gap(there, pose) <= MaxStep
                    /\ (raw = S!None \/ S!Gap(there, raw) <= MaxStep))
                 => r \in BOOLEAN
      OBVIOUS
    <3> QED  BY <3>1, <3>2
  <2> DEFINE close == r /\ S!Gap(f, z) <= CatchUpStep
  <2>2. /\ motion' = [x \in DOMAIN S!Moving |-> motion'[x]]
        /\ motion'.complete \in Nat
        /\ motion'.state \in {"MOVING", "CATCH_UP"} \union Held
        /\ motion'.state = "MOVING" =>
              \/ motion.state = "MOVING"
              \/ motion.state = "CATCH_UP" /\ close
                 /\ motion.complete + 1 >= CatchUpFrames
        /\ motion'.state = "CATCH_UP" =>
              \/ motion'.complete = 0
              \/ motion.state = "CATCH_UP" /\ close
                 /\ motion'.complete = motion.complete + 1
                 /\ motion'.complete < CatchUpFrames
    BY <2>1, PolicyEffect
  <2>3. allow' => motion'.state = "MOVING"
    BY <2>1 DEF S!Allowed
  <2>4. settled' =
           IF motion'.state \in Held THEN 0
           ELSE IF settled = CatchUpFrames THEN settled
           ELSE IF close THEN settled + 1 ELSE 0
    BY <2>1 DEF Held
  <2> HIDE DEF close
  <2>5. /\ settled \in 0 .. CatchUpFrames /\ motion.complete \in Nat
        /\ motion.state = "MOVING" => settled = CatchUpFrames
        /\ motion.state = "CATCH_UP" => settled >= motion.complete
    BY DEF MotionIInv
  <2>6. /\ settled' \in 0 .. CatchUpFrames
        /\ motion'.state = "MOVING" => settled' = CatchUpFrames
    BY <2>2, <2>4, <2>5, MotionAssumption DEF Held
  <2>7. motion'.state = "CATCH_UP" => settled' >= motion'.complete
    BY <2>2, <2>4, <2>5, MotionAssumption DEF Held
  <2> QED  BY <2>2, <2>3, <2>6, <2>7 DEF MotionIInv
<1>2. CASE S!Relocalize
  BY <1>2 DEF S!Relocalize, MotionIInv
<1>3. CASE S!ResetStationaryState
  BY <1>3, MotionAssumption DEF S!ResetStationaryState, MotionIInv, S!Moving
<1>4. CASE UNCHANGED S!vars
  BY <1>4 DEF S!vars, MotionIInv
<1> QED  BY <1>1, <1>2, <1>3, <1>4 DEF S!Next

-----------------------------------------------------------------------------
(* Sequences of anything.                                                  *)

IsSeq(s) == \E D : s \in Seq(D)

LEMMA AppendSeq ==
    ASSUME NEW s, IsSeq(s), NEW x
    PROVE  /\ IsSeq(Append(s, x)) /\ Len(s) \in Nat
           /\ Len(Append(s, x)) = Len(s) + 1
           /\ DOMAIN Append(s, x) = 1 .. (Len(s) + 1)
           /\ DOMAIN s = 1 .. Len(s)
           /\ Append(s, x)[Len(s) + 1] = x
           /\ \A i \in 1 .. Len(s) : Append(s, x)[i] = s[i]
<1>1. PICK D : s \in Seq(D)
  BY DEF IsSeq
<1> DEFINE E == D \union {x}
<1>2. s \in Seq(E) /\ x \in E
  BY <1>1
<1> HIDE DEF E
<1>3. Append(s, x) \in Seq(E)
  BY <1>2
<1> QED  BY <1>2, <1>3 DEF IsSeq

LEMMA ExceptSeq ==
    ASSUME NEW s, IsSeq(s), NEW i \in 1 .. Len(s), NEW x
    PROVE  LET n == [s EXCEPT ![i] = x]
           IN /\ IsSeq(n) /\ Len(n) = Len(s) /\ n[i] = x
              /\ \A j \in 1 .. Len(s) : j # i => n[j] = s[j]
<1>1. PICK D : s \in Seq(D)
  BY DEF IsSeq
<1> DEFINE E == D \union {x}
<1>2. s \in Seq(E) /\ x \in E
  BY <1>1
<1> HIDE DEF E
<1>3. [s EXCEPT ![i] = x] \in Seq(E)
  BY <1>2
<1> QED  BY <1>2, <1>3 DEF IsSeq

LEMMA MapSeq ==
    ASSUME NEW n \in Nat, NEW f, f = [i \in 1 .. n |-> f[i]]
    PROVE  IsSeq(f) /\ Len(f) = n
<1> DEFINE E == {f[i] : i \in 1 .. n}
<1>1. f \in [1 .. n -> E]
  OBVIOUS
<1> HIDE DEF E
<1>2. f \in Seq(E)
  BY <1>1
<1> QED  BY <1>1, <1>2 DEF IsSeq

-----------------------------------------------------------------------------
(* PayloadTracker: tracks keep their identity, and count what asked for a  *)
(* larger box; sessions count what saw the load at rest.                   *)

PayloadFields ==
    {"id", "place", "state", "seen", "missed", "age", "cluster", "core",
     "strong", "jumps", "rejects", "good", "held", "grew"}
PayloadTrack(t) ==
    /\ t = [y \in PayloadFields |-> t[y]]
    /\ t.core \in Nat /\ t.cluster.size \in Nat
    /\ t.jumps \in Nat /\ t.grew \in Nat /\ t.jumps <= t.grew

SessionFields == {"track", "place", "state", "stable", "age", "rested"}
Session(s) ==
    /\ s = [y \in SessionFields |-> s[y]]
    /\ s.stable \in Nat /\ s.rested \in Nat /\ s.stable <= s.rested
    /\ s.state = "CANDIDATE" => s.stable = 0
    /\ s.state = "PLACED_STATIC" => s.rested >= Rest

UniqueIds(ts) == \A i, j \in 1 .. Len(ts) : ts[i].id = ts[j].id => i = j
Distinct(ts) ==
    IsSeq(ts) /\ UniqueIds(ts) /\ \A i \in 1 .. Len(ts) : PayloadTrack(ts[i])
AllSessions(ss) == IsSeq(ss) /\ \A i \in 1 .. Len(ss) : Session(ss[i])

PayloadIInv == Distinct(tracks) /\ AllSessions(sessions)

LEMMA PayloadInit == P!Init => PayloadIInv
<1> SUFFICES ASSUME P!Init PROVE PayloadIInv
  OBVIOUS
<1>1. /\ IsSeq(tracks) /\ Len(tracks) = 0
      /\ IsSeq(sessions) /\ Len(sessions) = 0
  BY DEF P!Init, IsSeq
<1> QED  BY <1>1 DEF PayloadIInv, Distinct, AllSessions, UniqueIds

\* A saturating counter keeps the order of two counts.
LEMMA UpIsMonotone ==
    \A a, b \in Nat : /\ P!Up(a) \in Nat /\ P!Up(a) <= a + 1
                      /\ a <= b => P!Up(a) <= P!Up(b)
BY PayloadAssumption DEF P!Up

-----------------------------------------------------------------------------
\* Tracks that are left out leave the others as they are.
LEMMA WithoutKeeps ==
    ASSUME NEW ts, IsSeq(ts), NEW gone
    PROVE  LET w == P!Without(ts, gone) IN
           /\ IsSeq(w)
           /\ \A j \in 1 .. Len(w) : \E k \in 1 .. Len(ts) : w[j] = ts[k]
           /\ UniqueIds(ts) => UniqueIds(w)
<1> DEFINE N == Len(ts)
           Op(s, i) == IF i \in gone THEN s ELSE Append(s, ts[i])
           Eq(h, n) == h = [i \in 0 .. n |->
                              IF i = 0 THEN <<>> ELSE Op(h[i - 1], i)]
           T == {n \in Nat : \E h : Eq(h, n)}
           w[i \in 0 .. N] == IF i = 0 THEN <<>> ELSE Op(w[i - 1], i)
<1>1. N \in Nat
  BY DEF IsSeq
<1>2. P!Without(ts, gone) = w[N]
  <2>1. w = CHOOSE h : h = [i \in 0 .. N |->
           IF i = 0 THEN <<>>
           ELSE IF i \in gone THEN h[i - 1] ELSE Append(h[i - 1], ts[i])]
    OBVIOUS
  <2> QED  BY <2>1 DEF P!Without
<1> HIDE DEF N
<1>3. Eq(w, N)
  <2>1. 0 \in T
    <3>1. Eq([i \in 0 .. 0 |-> <<>>], 0)
      OBVIOUS
    <3> QED  BY <3>1
  <2>2. ASSUME NEW n \in Nat, n \in T PROVE n + 1 \in T
    <3>1. PICK h : Eq(h, n)
      BY <2>2
    <3> DEFINE e == [i \in 0 .. (n + 1) |-> IF i = n + 1
                                            THEN Op(h[n], n + 1) ELSE h[i]]
    <3> HIDE DEF Op
    <3>2. \A i \in 0 .. (n + 1) : e[i] = IF i = 0 THEN <<>>
                                         ELSE Op(e[i - 1], i)
      BY <3>1
    <3>3. Eq(e, n + 1)
      BY <3>2
    <3>4. n + 1 \in Nat
      OBVIOUS
    <3> HIDE DEF Eq
    <3> QED  BY <3>3, <3>4
  <2>3. N \in T
    <3> HIDE DEF T
    <3> QED  BY <1>1, <2>1, <2>2, Induction
  <2>4. PICK h : Eq(h, N)
    BY <2>3
  <2>5. w = CHOOSE z : Eq(z, N)
    OBVIOUS
  <2> HIDE DEF Eq, w
  <2> QED  BY <2>4, <2>5
<1>4. w[0] = <<>> /\ \A i \in 1 .. N : w[i] = Op(w[i - 1], i)
  <2> HIDE DEF w, Op
  <2> QED  BY <1>1, <1>3
<1> HIDE DEF w
<1> DEFINE fine(s, i) == /\ IsSeq(s)
                         /\ \A j \in 1 .. Len(s) :
                              \E k \in 1 .. i : s[j] = ts[k]
                         /\ UniqueIds(ts) => UniqueIds(s)
           K == {i \in Nat : i \in 0 .. N => fine(w[i], i)}
<1>5. 0 \in K
  <2>1. IsSeq(<<>>) /\ Len(<<>>) = 0
    BY DEF IsSeq
  <2> QED  BY <1>4, <2>1 DEF UniqueIds
<1>6. ASSUME NEW i \in Nat, i \in K PROVE i + 1 \in K
  <2> SUFFICES ASSUME i + 1 \in 0 .. N PROVE fine(w[i + 1], i + 1)
    OBVIOUS
  <2> DEFINE s == w[i]
             x == ts[i + 1]
             n == Append(s, x)
  <2>1. fine(s, i) /\ i + 1 \in 1 .. N
    BY <1>1, <1>6
  <2>2. w[i + 1] = Op(s, i + 1)
    <3>1. w[i + 1] = Op(w[(i + 1) - 1], i + 1)
      <4> HIDE DEF Op
      <4> QED  BY <1>4, <2>1
    <3>2. (i + 1) - 1 = i
      OBVIOUS
    <3> HIDE DEF Op
    <3> QED  BY <3>1, <3>2
  <2>3. w[i + 1] \in {s, n}
    BY <2>2
  <2> HIDE DEF s
  <2>4. fine(s, i + 1)
    <3>1. \A k \in 1 .. i : k \in 1 .. (i + 1)
      OBVIOUS
    <3> QED  BY <2>1, <3>1
  <2>5. fine(n, i + 1)
    <3> HIDE DEF x
    <3>1. /\ IsSeq(n) /\ Len(s) \in Nat /\ Len(n) = Len(s) + 1
          /\ n[Len(s) + 1] = x /\ \A j \in 1 .. Len(s) : n[j] = s[j]
      BY <2>1, AppendSeq
    <3> HIDE DEF n
    <3>2. ASSUME NEW j \in 1 .. Len(n)
          PROVE  j \in 1 .. Len(s) \/ j = Len(s) + 1
      BY <3>1
    <3>3. ASSUME NEW j \in 1 .. Len(n)
          PROVE  \E k \in 1 .. (i + 1) : n[j] = ts[k]
      <4>1. CASE j \in 1 .. Len(s)
        BY <2>4, <3>1, <4>1
      <4>2. CASE j = Len(s) + 1
        BY <3>1, <4>2 DEF x
      <4> QED  BY <3>2, <4>1, <4>2
    <3>4. ASSUME UniqueIds(ts), NEW j \in 1 .. Len(s) PROVE s[j].id # x.id
      <4>1. PICK k \in 1 .. i : s[j] = ts[k]
        BY <2>1
      <4>2. k \in 1 .. Len(ts) /\ i + 1 \in 1 .. Len(ts) /\ k # i + 1
        BY <1>1, <2>1 DEF N
      <4> QED  BY <3>4, <4>1, <4>2 DEF UniqueIds, x
    <3>5. ASSUME UniqueIds(ts), NEW j \in 1 .. Len(n), NEW k \in 1 .. Len(n),
                 n[j].id = n[k].id
          PROVE  j = k
      <4>1. UniqueIds(s)
        BY <2>1, <3>5
      <4>2. CASE j \in 1 .. Len(s) /\ k \in 1 .. Len(s)
        BY <3>1, <3>5, <4>1, <4>2 DEF UniqueIds
      <4>3. CASE j = Len(s) + 1 /\ k = Len(s) + 1
        BY <4>3
      <4>4. CASE j \in 1 .. Len(s) /\ k = Len(s) + 1
        BY <3>1, <3>4, <3>5, <4>4
      <4>5. CASE j = Len(s) + 1 /\ k \in 1 .. Len(s)
        BY <3>1, <3>4, <3>5, <4>5
      <4> QED  BY <3>2, <4>2, <4>3, <4>4, <4>5
    <3>6. UniqueIds(ts) => UniqueIds(n)
      BY <3>5 DEF UniqueIds
    <3> QED  BY <3>1, <3>3, <3>6
  <2> HIDE DEF fine, n
  <2> QED  BY <2>3, <2>4, <2>5
<1>7. N \in K
  <2> HIDE DEF K
  <2> QED  BY <1>1, <1>5, <1>6, Induction
<1>8. fine(w[N], N)
  BY <1>1, <1>7
<1> QED  BY <1>2, <1>8 DEF N

\* An identity that no track and no open session has is always left.
LEMMA LeastFreeIsFree ==
    ASSUME NEW ts, IsSeq(ts), IsSeq(sessions)
    PROVE  \A i \in 1 .. Len(ts) : ts[i].id # P!LeastFree(ts)
<1> DEFINE a == Len(ts)
           b == Len(sessions)
           holds(n, i) == \/ i \in 1 .. a /\ ts[i].id = n
                          \/ i \in (a + 1) .. (a + b)
                             /\ sessions[i - a].track = n
           f == [n \in 1 .. (a + b + 1) |->
                   CHOOSE i \in 1 .. (a + b) : holds(n, i)]
<1>1. /\ a \in Nat /\ b \in Nat
      /\ DOMAIN ts = 1 .. a /\ DOMAIN sessions = 1 .. b
  BY DEF IsSeq
<1>2. P!FreeIds(ts) # {}
  <2> SUFFICES ASSUME P!FreeIds(ts) = {} PROVE FALSE
    OBVIOUS
  <2>1. ASSUME NEW n \in 1 .. (a + b + 1)
        PROVE  \E i \in 1 .. (a + b) : holds(n, i)
    <3>1. \/ \E i \in 1 .. a : ts[i].id = n
          \/ \E i \in 1 .. b : sessions[i].track = n
      BY <1>1 DEF P!FreeIds
    <3>2. CASE \E i \in 1 .. a : ts[i].id = n
      BY <1>1, <3>2
    <3>3. CASE \E i \in 1 .. b : sessions[i].track = n
      <4>1. PICK i \in 1 .. b : sessions[i].track = n
        BY <3>3
      <4>2. /\ a + i \in 1 .. (a + b) /\ a + i \in (a + 1) .. (a + b)
            /\ (a + i) - a = i
        BY <1>1
      <4>3. holds(n, a + i)
        BY <4>1, <4>2
      <4> QED  BY <4>2, <4>3
    <3> QED  BY <3>1, <3>2, <3>3
  <2> HIDE DEF a, b, holds
  <2>2. ASSUME NEW n \in 1 .. (a + b + 1)
        PROVE  f[n] \in 1 .. (a + b) /\ holds(n, f[n])
    BY <2>1
  <2>3. f \in [1 .. (a + b + 1) -> 1 .. (a + b)]
    BY <2>2
  <2> HIDE DEF f
  <2>4. /\ IsFiniteSet(1 .. (a + b + 1)) /\ IsFiniteSet(1 .. (a + b))
        /\ Cardinality(1 .. (a + b)) < Cardinality(1 .. (a + b + 1))
    <3>1. a + b + 1 \in Int /\ a + b \in Int /\ 1 \in Int
      BY <1>1
    <3>2. /\ Cardinality(1 .. (a + b + 1)) = a + b + 1
          /\ Cardinality(1 .. (a + b)) = a + b
          /\ IsFiniteSet(1 .. (a + b + 1)) /\ IsFiniteSet(1 .. (a + b))
      BY <1>1, <3>1, FS_Interval
    <3> QED  BY <1>1, <3>2
  <2>5. PICK x, y \in 1 .. (a + b + 1) : x # y /\ f[x] = f[y]
    <3> DEFINE big == 1 .. (a + b + 1)
               small == 1 .. (a + b)
    <3>1. /\ IsFiniteSet(big) /\ IsFiniteSet(small) /\ f \in [big -> small]
          /\ Cardinality(small) < Cardinality(big)
      BY <2>3, <2>4
    <3> HIDE DEF big, small
    <3>2. \E x, y \in big : x # y /\ f[x] = f[y]
      BY <3>1, FS_PigeonHole
    <3> QED  BY <3>2 DEF big
  <2>6. holds(x, f[x]) /\ holds(y, f[x])
    BY <2>2, <2>5
  <2> QED  BY <1>1, <2>5, <2>6 DEF holds
<1>3. P!FreeIds(ts) \subseteq Nat
  BY <1>1 DEF P!FreeIds
<1>4. P!LeastFree(ts) \in P!FreeIds(ts)
  <2>1. \E n \in P!FreeIds(ts) : \A k \in P!FreeIds(ts) : n <= k
    BY <1>2, <1>3, Least
  <2> QED  BY <2>1 DEF P!LeastFree
<1> QED  BY <1>1, <1>4 DEF P!FreeIds

\* A cluster without a track becomes a track of its own.
Grown(ts, n) ==
    /\ Distinct(n) /\ Len(ts) <= Len(n)
    /\ \A j \in 1 .. Len(n) :
         (j \in 1 .. Len(ts) /\ n[j] = ts[j]) \/ n[j].seen = 1

LEMMA NewTrackGrows ==
    ASSUME NEW ts, NEW s, Grown(ts, s), IsSeq(sessions),
           NEW c, c.size \in Nat
    PROVE  Grown(ts, Append(s, P!NewTrack(P!LeastFree(s), c)))
<1> DEFINE x == P!NewTrack(P!LeastFree(s), c)
           n == Append(s, x)
<1>1. PayloadTrack(x) /\ x.seen = 1 /\ x.id = P!LeastFree(s)
  BY DEF P!NewTrack, PayloadTrack, PayloadFields
<1>2. \A i \in 1 .. Len(s) : s[i].id # x.id
  BY <1>1, LeastFreeIsFree DEF Grown, Distinct
<1> HIDE DEF x
<1>3. /\ IsSeq(n) /\ Len(s) \in Nat /\ Len(n) = Len(s) + 1
      /\ n[Len(s) + 1] = x /\ \A j \in 1 .. Len(s) : n[j] = s[j]
  BY AppendSeq DEF Grown, Distinct
<1> HIDE DEF n
<1>4. ASSUME NEW j \in 1 .. Len(n)
      PROVE  j \in 1 .. Len(s) \/ j = Len(s) + 1
  BY <1>3
<1>5. \A j \in 1 .. Len(n) : PayloadTrack(n[j])
  BY <1>1, <1>3, <1>4 DEF Grown, Distinct
<1>6. ASSUME NEW j \in 1 .. Len(n), NEW k \in 1 .. Len(n), n[j].id = n[k].id
      PROVE  j = k
  <2>1. CASE j \in 1 .. Len(s) /\ k \in 1 .. Len(s)
    BY <1>3, <1>6, <2>1 DEF Grown, Distinct, UniqueIds
  <2>2. CASE j = Len(s) + 1 /\ k = Len(s) + 1
    BY <2>2
  <2>3. CASE j \in 1 .. Len(s) /\ k = Len(s) + 1
    BY <1>2, <1>3, <1>6, <2>3
  <2>4. CASE j = Len(s) + 1 /\ k \in 1 .. Len(s)
    BY <1>2, <1>3, <1>6, <2>4
  <2> QED  BY <1>4, <1>6, <2>1, <2>2, <2>3, <2>4
<1>7. \A j \in 1 .. Len(n) :
        (j \in 1 .. Len(ts) /\ n[j] = ts[j]) \/ n[j].seen = 1
  BY <1>1, <1>3, <1>4 DEF Grown
<1>8. Len(ts) <= Len(n)
  <2>1. Len(ts) <= Len(s)
    BY DEF Grown
  <2> QED  BY <1>3, <1>4, <2>1 DEF Grown
<1> QED  BY <1>3, <1>5, <1>6, <1>7, <1>8 DEF Grown, Distinct, UniqueIds, n, x

LEMMA AddedGrows ==
    ASSUME NEW ts, Distinct(ts), IsSeq(sessions), NEW cs, Len(cs) \in Nat,
           \A k \in 1 .. Len(cs) : cs[k].size \in Nat, NEW taken
    PROVE  Grown(ts, P!Added(ts, cs, taken))
<1> DEFINE N == Len(cs)
           Op(s, k) == IF k \in taken THEN s
                       ELSE Append(s, P!NewTrack(P!LeastFree(s), cs[k]))
           Eq(h, n) == h = [k \in 0 .. n |->
                              IF k = 0 THEN ts ELSE Op(h[k - 1], k)]
           T == {n \in Nat : \E h : Eq(h, n)}
           a[k \in 0 .. N] == IF k = 0 THEN ts ELSE Op(a[k - 1], k)
<1>1. N \in Nat
  OBVIOUS
<1>2. P!Added(ts, cs, taken) = a[N]
  <2>1. a = CHOOSE h : h = [k \in 0 .. N |->
           IF k = 0 THEN ts
           ELSE IF k \in taken THEN h[k - 1]
           ELSE Append(h[k - 1], P!NewTrack(P!LeastFree(h[k - 1]), cs[k]))]
    OBVIOUS
  <2> QED  BY <2>1 DEF P!Added
<1> HIDE DEF N
<1>3. Eq(a, N)
  <2>1. 0 \in T
    <3>1. Eq([k \in 0 .. 0 |-> ts], 0)
      OBVIOUS
    <3> QED  BY <3>1
  <2>2. ASSUME NEW n \in Nat, n \in T PROVE n + 1 \in T
    <3>1. PICK h : Eq(h, n)
      BY <2>2
    <3> DEFINE e == [k \in 0 .. (n + 1) |-> IF k = n + 1
                                            THEN Op(h[n], n + 1) ELSE h[k]]
    <3> HIDE DEF Op
    <3>2. \A k \in 0 .. (n + 1) : e[k] = IF k = 0 THEN ts
                                         ELSE Op(e[k - 1], k)
      BY <3>1
    <3>3. Eq(e, n + 1)
      BY <3>2
    <3>4. n + 1 \in Nat
      OBVIOUS
    <3> HIDE DEF Eq
    <3> QED  BY <3>3, <3>4
  <2>3. N \in T
    <3> HIDE DEF T
    <3> QED  BY <1>1, <2>1, <2>2, Induction
  <2>4. PICK h : Eq(h, N)
    BY <2>3
  <2>5. a = CHOOSE z : Eq(z, N)
    OBVIOUS
  <2> HIDE DEF Eq, a
  <2> QED  BY <2>4, <2>5
<1>4. a[0] = ts /\ \A k \in 1 .. N : a[k] = Op(a[k - 1], k)
  <2> HIDE DEF a, Op
  <2> QED  BY <1>1, <1>3
<1> HIDE DEF a
<1> DEFINE K == {i \in Nat : i \in 0 .. N => Grown(ts, a[i])}
<1>5. 0 \in K
  <2>1. Grown(ts, ts)
    BY DEF Grown, Distinct, IsSeq
  <2> QED  BY <1>4, <2>1
<1>6. ASSUME NEW i \in Nat, i \in K PROVE i + 1 \in K
  <2> SUFFICES ASSUME i + 1 \in 0 .. N PROVE Grown(ts, a[i + 1])
    OBVIOUS
  <2>1. Grown(ts, a[i]) /\ i + 1 \in 1 .. N
    BY <1>1, <1>6
  <2>2. a[i + 1] = Op(a[i], i + 1)
    <3>1. a[i + 1] = Op(a[(i + 1) - 1], i + 1)
      <4> HIDE DEF Op
      <4> QED  BY <1>4, <2>1
    <3>2. (i + 1) - 1 = i
      OBVIOUS
    <3> HIDE DEF Op
    <3> QED  BY <3>1, <3>2
  <2>3. i + 1 \in 1 .. Len(cs)
    BY <2>1 DEF N
  <2> QED  BY <2>1, <2>2, <2>3, NewTrackGrows
<1>7. N \in K
  <2> HIDE DEF K
  <2> QED  BY <1>1, <1>5, <1>6, Induction
<1> QED  BY <1>1, <1>2, <1>7

\* A track is matched with a cluster of the keyframe, or with none.
LEMMA MatchedIsIndex ==
    ASSUME NEW ts, IsSeq(ts), NEW cs \in Seq(Clusters)
    PROVE  \A i \in 1 .. Len(ts) : P!Matched(ts, cs)[i] \in 0 .. Len(cs)
<1> DEFINE N == Len(ts)
           taken(s, i) == {s[j] : j \in 1 .. (i - 1)}
           ks(s, i) == P!Candidates(ts, cs, i, taken(s, i))
           pick(s, i) == IF ks(s, i) = {} THEN 0
                         ELSE CHOOSE k \in ks(s, i) :
                                \A n \in ks(s, i) : k <= n
           Op(s, i) == Append(s, pick(s, i))
           Eq(h, n) == h = [i \in 0 .. n |->
                              IF i = 0 THEN <<>> ELSE Op(h[i - 1], i)]
           T == {n \in Nat : \E h : Eq(h, n)}
           m[i \in 0 .. N] == IF i = 0 THEN <<>> ELSE Op(m[i - 1], i)
<1>1. N \in Nat
  BY DEF IsSeq
<1>2. P!Matched(ts, cs) = m[N]
  <2>1. m = CHOOSE h : h = [i \in 0 .. N |->
           IF i = 0 THEN <<>>
           ELSE LET taken_1 == {h[i - 1][j] : j \in 1 .. (i - 1)}
                    ks_1 == P!Candidates(ts, cs, i, taken_1)
                IN Append(h[i - 1],
                          IF ks_1 = {} THEN 0
                          ELSE CHOOSE k \in ks_1 : \A n \in ks_1 : k <= n)]
    OBVIOUS
  <2> QED  BY <2>1 DEF P!Matched
<1> HIDE DEF N
<1>3. Eq(m, N)
  <2>1. 0 \in T
    <3>1. Eq([i \in 0 .. 0 |-> <<>>], 0)
      OBVIOUS
    <3> QED  BY <3>1
  <2>2. ASSUME NEW n \in Nat, n \in T PROVE n + 1 \in T
    <3>1. PICK h : Eq(h, n)
      BY <2>2
    <3> DEFINE e == [i \in 0 .. (n + 1) |-> IF i = n + 1
                                            THEN Op(h[n], n + 1) ELSE h[i]]
    <3> HIDE DEF Op
    <3>2. \A i \in 0 .. (n + 1) : e[i] = IF i = 0 THEN <<>>
                                         ELSE Op(e[i - 1], i)
      BY <3>1
    <3>3. Eq(e, n + 1)
      BY <3>2
    <3>4. n + 1 \in Nat
      OBVIOUS
    <3> HIDE DEF Eq
    <3> QED  BY <3>3, <3>4
  <2>3. N \in T
    <3> HIDE DEF T
    <3> QED  BY <1>1, <2>1, <2>2, Induction
  <2>4. PICK h : Eq(h, N)
    BY <2>3
  <2>5. m = CHOOSE z : Eq(z, N)
    OBVIOUS
  <2> HIDE DEF Eq, m
  <2> QED  BY <2>4, <2>5
<1>4. m[0] = <<>> /\ \A i \in 1 .. N : m[i] = Op(m[i - 1], i)
  <2> HIDE DEF m, Op
  <2> QED  BY <1>1, <1>3
<1> HIDE DEF m
<1>5. ASSUME NEW s, NEW i PROVE pick(s, i) \in 0 .. Len(cs)
  <2> DEFINE k0 == ks(s, i)
  <2>1. k0 \subseteq 1 .. Len(cs) /\ Len(cs) \in Nat
    BY DEF P!Candidates
  <2> HIDE DEF k0
  <2>2. CASE k0 = {}
    BY <2>1, <2>2 DEF k0
  <2>3. CASE k0 # {}
    <3>1. k0 \subseteq Nat
      BY <2>1
    <3>2. \E k \in k0 : \A n \in k0 : k <= n
      BY <2>3, <3>1, Least
    <3> DEFINE l == CHOOSE k \in k0 : \A n \in k0 : k <= n
    <3>3. l \in k0
      BY <3>2
    <3>4. pick(s, i) = l
      BY <2>3 DEF k0
    <3> HIDE DEF l
    <3>5. l \in 0 .. Len(cs)
      BY <2>1, <3>3
    <3> QED  BY <3>4, <3>5
  <2> QED  BY <2>2, <2>3
<1> DEFINE fine(s, i) == /\ IsSeq(s) /\ Len(s) = i
                         /\ \A j \in 1 .. i : s[j] \in 0 .. Len(cs)
           K == {i \in Nat : i \in 0 .. N => fine(m[i], i)}
<1> HIDE DEF pick
<1>6. 0 \in K
  <2>1. IsSeq(<<>>) /\ Len(<<>>) = 0
    BY DEF IsSeq
  <2> QED  BY <1>4, <2>1
<1>7. ASSUME NEW i \in Nat, i \in K PROVE i + 1 \in K
  <2> SUFFICES ASSUME i + 1 \in 0 .. N PROVE fine(m[i + 1], i + 1)
    OBVIOUS
  <2> DEFINE s == m[i]
             x == pick(s, i + 1)
             n == Append(s, x)
  <2>1. fine(s, i) /\ i + 1 \in 1 .. N
    BY <1>1, <1>7
  <2>2. m[i + 1] = n
    <3>1. m[i + 1] = Op(m[(i + 1) - 1], i + 1)
      <4> HIDE DEF Op
      <4> QED  BY <1>4, <2>1
    <3>2. (i + 1) - 1 = i
      OBVIOUS
    <3> QED  BY <3>1, <3>2
  <2>3. x \in 0 .. Len(cs)
    BY <1>5
  <2> HIDE DEF s, x
  <2>4. /\ IsSeq(n) /\ Len(n) = i + 1
        /\ n[i + 1] = x /\ \A j \in 1 .. i : n[j] = s[j]
    BY <2>1, AppendSeq
  <2> HIDE DEF n
  <2>5. ASSUME NEW j \in 1 .. (i + 1) PROVE n[j] \in 0 .. Len(cs)
    <3>1. j \in 1 .. i \/ j = i + 1
      OBVIOUS
    <3> QED  BY <2>1, <2>3, <2>4, <3>1
  <2> QED  BY <2>2, <2>4, <2>5
<1>8. N \in K
  <2> HIDE DEF K
  <2> QED  BY <1>1, <1>6, <1>7, Induction
<1>9. fine(m[N], N)
  BY <1>1, <1>8
<1> QED  BY <1>2, <1>9 DEF N

-----------------------------------------------------------------------------
(* One keyframe, track by track.                                           *)

\* What the steps before the box leave alone.
Same(t, n) ==
    /\ PayloadTrack(n) /\ n.id = t.id /\ n.core = t.core
    /\ n.jumps = t.jumps /\ n.grew = t.grew

LEMMA SteadyFields ==
    ASSUME NEW t, PayloadTrack(t), NEW c, c.size \in Nat
    PROVE  /\ Same(t, P!Observed(t, c)) /\ Same(t, P!Missed(t))
           /\ Same(t, [t EXCEPT !.age = P!Up(@), !.good = P!Age(@)])
           /\ Same(t, [t EXCEPT !.state = "EXPIRED"])
<1>1. Same(t, P!Observed(t, c))
  <2> DEFINE u == [t EXCEPT !.seen = P!Up(@), !.missed = 0, !.age = 0,
                            !.cluster = c]
  <2>1. Same(t, u)
    BY DEF Same, PayloadTrack, PayloadFields
  <2>2. P!Observed(t, c) = [u EXCEPT !.state = P!Transition(u, c)]
    BY DEF P!Observed
  <2> HIDE DEF u
  <2> QED  BY <2>1, <2>2 DEF Same, PayloadTrack, PayloadFields
<1>2. Same(t, P!Missed(t))
  BY DEF P!Missed, Same, PayloadTrack, PayloadFields
<1>3. Same(t, [t EXCEPT !.age = P!Up(@), !.good = P!Age(@)])
  BY DEF Same, PayloadTrack, PayloadFields
<1>4. Same(t, [t EXCEPT !.state = "EXPIRED"])
  BY DEF Same, PayloadTrack, PayloadFields
<1> QED  BY <1>1, <1>2, <1>3, <1>4

\* A box that grows past the limit is the one of a track that asked for it
\* often enough.
Boxes(t, n) ==
    /\ PayloadTrack(n) /\ n.id = t.id /\ n.seen = t.seen
    /\ t.core > 0 /\ 100 * n.core > 135 * t.core /\ t.seen > 2 =>
         t.grew + 1 >= Jumps

LEMMA BoxedGrows ==
    ASSUME NEW t, PayloadTrack(t)
    PROVE  Boxes(t, P!Boxed(t))
<1> DEFINE a == P!Accepted(t)
           u == [t EXCEPT !.jumps = P!Up(@), !.grew = P!Up(@)]
<1>0. /\ t.core \in Nat /\ t.cluster.size \in Nat /\ t.jumps \in Nat
      /\ t.grew \in Nat /\ ~(t.core > 0 /\ 100 * t.core > 135 * t.core)
  <2>1. t.core \in Nat /\ t.cluster.size \in Nat /\ t.jumps \in Nat
        /\ t.grew \in Nat
    BY DEF PayloadTrack
  <2> DEFINE k == t.core
  <2>2. ~(k > 0 /\ 100 * k > 135 * k)
    <3>1. k \in Nat
      BY <2>1
    <3> HIDE DEF k
    <3> QED  BY <3>1
  <2> QED  BY <2>1, <2>2
<1>1. /\ a = [y \in PayloadFields |-> a[y]] /\ a.jumps = 0
      /\ a.grew = t.grew
      /\ a.id = t.id /\ a.seen = t.seen /\ a.core = t.cluster.size
      /\ a.cluster = t.cluster
  BY DEF P!Accepted, PayloadTrack, PayloadFields
<1>2. CASE P!Boxed(t) = t
  BY <1>0, <1>2 DEF Boxes
<1>3. CASE P!Boxed(t) = P!Normal(t) /\ ~P!Jumped(t)
  <2> DEFINE n == P!Normal(t)
  <2>1. PayloadTrack(n) /\ n.id = t.id /\ n.seen = t.seen
        /\ n.core = t.cluster.size
    <3>1. n = [a EXCEPT !.held = FALSE, !.grew = 0]
      BY DEF P!Normal
    <3> HIDE DEF a, n
    <3>2. n = [y \in PayloadFields |-> n[y]] /\ n.jumps = 0 /\ n.grew = 0
          /\ n.id = a.id /\ n.seen = a.seen /\ n.core = a.core
          /\ n.cluster = a.cluster
      BY <1>1, <3>1 DEF PayloadFields
    <3> QED  BY <1>0, <1>1, <3>2 DEF PayloadTrack
  <2>2. ~(t.core > 0 /\ t.seen > 2 /\ 100 * t.cluster.size > 135 * t.core)
    BY <1>3 DEF P!Jumped
  <2> HIDE DEF n
  <2> QED  BY <1>3, <2>1, <2>2 DEF Boxes, n
<1>4. CASE P!Boxed(t) = P!AfterJump(t)
  <2>1. /\ PayloadTrack(u) /\ u.id = t.id /\ u.seen = t.seen
        /\ u.core = t.core /\ u.grew <= t.grew + 1 /\ u.jumps <= u.grew
        /\ u.grew \in Nat /\ u.jumps \in Nat
    <3>1. /\ P!Up(t.jumps) \in Nat /\ P!Up(t.grew) \in Nat
          /\ P!Up(t.jumps) <= P!Up(t.grew) /\ P!Up(t.grew) <= t.grew + 1
      BY UpIsMonotone DEF PayloadTrack
    <3> QED  BY <3>1 DEF PayloadTrack, PayloadFields
  <2> DEFINE may == u.jumps >= Jumps /\ u.cluster.strong
                    /\ u.state \in P!Moving
  <2>2. P!AfterJump(t) = IF ~may THEN u
                         ELSE IF P!ReinitFits(u) THEN P!Reinitialised(u)
                         ELSE P!SizeTooLarge(u)
    BY DEF P!AfterJump
  <2>3. may => t.grew + 1 >= Jumps
    BY <1>0, <2>1, PayloadAssumption
  <2> HIDE DEF u
  <2>4. Boxes(t, u)
    BY <1>0, <2>1 DEF Boxes
  <2>5. CASE may /\ P!AfterJump(t) = P!Reinitialised(u)
    <3> DEFINE r == P!Reinitialised(u)
    <3>1. PayloadTrack(r) /\ r.id = u.id /\ r.seen = u.seen
      <4> DEFINE v == P!Accepted(u)
      <4>1. /\ v = [y \in PayloadFields |-> v[y]] /\ v.jumps = 0
            /\ v.grew = u.grew /\ v.cluster = u.cluster
            /\ v.id = u.id /\ v.seen = u.seen /\ v.core = u.cluster.size
        BY <2>1 DEF P!Accepted, PayloadTrack, PayloadFields
      <4>2. r = [v EXCEPT !.grew = 0]
        BY DEF P!Reinitialised
      <4> HIDE DEF v, r
      <4>3. /\ r = [y \in PayloadFields |-> r[y]] /\ r.jumps = 0
            /\ r.grew = 0 /\ r.cluster = v.cluster
            /\ r.id = v.id /\ r.seen = v.seen /\ r.core = v.core
        BY <4>1, <4>2 DEF PayloadFields
      <4> QED  BY <2>1, <4>1, <4>3 DEF PayloadTrack
    <3> HIDE DEF r, may
    <3> QED  BY <1>4, <2>1, <2>3, <2>5, <3>1 DEF Boxes, r
  <2>6. CASE may /\ P!AfterJump(t) = P!SizeTooLarge(u)
    <3> DEFINE v == [u EXCEPT !.rejects = P!Up(@),
                              !.held = IF u.good < BoxHold THEN TRUE ELSE @]
               r == [v EXCEPT !.state = IF v.rejects > Rejects THEN "EXPIRED"
                                        ELSE @]
    <3>1. P!SizeTooLarge(u) = r
      BY DEF P!SizeTooLarge
    <3>2. PayloadTrack(v) /\ v.id = u.id /\ v.seen = u.seen
      BY <2>1 DEF PayloadTrack, PayloadFields
    <3> HIDE DEF v
    <3>3. PayloadTrack(r) /\ r.id = u.id /\ r.seen = u.seen
      BY <3>2 DEF PayloadTrack, PayloadFields
    <3> HIDE DEF r, may
    <3> QED  BY <1>4, <2>1, <2>3, <2>6, <3>1, <3>3 DEF Boxes
  <2> HIDE DEF may
  <2> QED  BY <1>4, <2>2, <2>4, <2>5, <2>6
<1> QED  BY <1>2, <1>3, <1>4 DEF P!Boxed

-----------------------------------------------------------------------------
(* A keyframe: every track is new, or it is one of the tracks before it.   *)

Descends(ts, n) ==
    /\ Distinct(n)
    /\ \A j \in 1 .. Len(n) :
         n[j].seen = 1 \/ \E k \in 1 .. Len(ts) : Same(ts[k], n[j])

\* What a step does to each track where it stands.
LEMMA EachDescends ==
    ASSUME NEW ts, Distinct(ts),
           NEW f, f = [i \in 1 .. Len(ts) |-> f[i]],
           \A i \in 1 .. Len(ts) : PayloadTrack(f[i]) /\ f[i].id = ts[i].id
    PROVE  Distinct(f) /\ Len(f) = Len(ts) /\ Len(ts) \in Nat
<1>1. Len(ts) \in Nat
  BY DEF Distinct, IsSeq
<1>2. IsSeq(f) /\ Len(f) = Len(ts)
  BY <1>1, MapSeq
<1> QED  BY <1>1, <1>2 DEF Distinct, UniqueIds

LEMMA TrackedDescends ==
    ASSUME NEW ts, Distinct(ts), IsSeq(sessions), NEW cs \in Seq(Clusters)
    PROVE  Descends(ts, P!Tracked(ts, cs))
<1> DEFINE m == P!Matched(ts, cs)
           kept == [i \in DOMAIN ts |-> IF m[i] = 0 THEN P!Missed(ts[i])
                                        ELSE P!Observed(ts[i], cs[m[i]])]
           all == P!Added(kept, cs, {m[i] : i \in DOMAIN ts})
           gone == {i \in DOMAIN all : all[i].state = "EXPIRED"
                                       /\ all[i].missed > Gone}
           n == P!Without(all, gone)
<1>1. P!Tracked(ts, cs) = n
  BY DEF P!Tracked
<1>2. /\ Len(cs) \in Nat /\ DOMAIN ts = 1 .. Len(ts)
      /\ \A k \in 1 .. Len(cs) : cs[k].size \in Nat
  <2>1. DOMAIN ts = 1 .. Len(ts)
    BY DEF Distinct, IsSeq
  <2>2. Len(cs) \in Nat /\ \A k \in 1 .. Len(cs) : cs[k] \in Clusters
    OBVIOUS
  <2>3. \A c \in Clusters : c.size \in Nat
    BY DEF Clusters
  <2> QED  BY <2>1, <2>2, <2>3
<1>3. ASSUME NEW i \in 1 .. Len(ts) PROVE Same(ts[i], kept[i])
  <2>1. m[i] \in 0 .. Len(cs)
    BY MatchedIsIndex DEF Distinct
  <2>2. PayloadTrack(ts[i])
    BY DEF Distinct
  <2> HIDE DEF m
  <2>3. CASE m[i] = 0
    <3>1. kept[i] = P!Missed(ts[i])
      BY <1>2, <2>3
    <3>2. \E c : c.size \in Nat
      <4>1. [size |-> 0].size \in Nat
        OBVIOUS
      <4> QED  BY <4>1
    <3>3. PICK c : c.size \in Nat
      BY <3>2
    <3> QED  BY <2>2, <3>1, <3>3, SteadyFields
  <2>4. CASE m[i] # 0
    <3>1. kept[i] = P!Observed(ts[i], cs[m[i]])
      BY <1>2, <2>4
    <3>2. m[i] \in 1 .. Len(cs)
      BY <1>2, <2>1, <2>4
    <3>3. cs[m[i]].size \in Nat
      BY <1>2, <3>2
    <3> QED  BY <2>2, <3>1, <3>3, SteadyFields
  <2> QED  BY <2>3, <2>4
<1>4. kept = [i \in 1 .. Len(ts) |-> kept[i]]
  BY <1>2
<1> HIDE DEF kept
<1>5. Distinct(kept) /\ Len(kept) = Len(ts) /\ Len(ts) \in Nat
  BY <1>3, <1>4, EachDescends DEF Same
<1>6. Grown(kept, all)
  <2> DEFINE taken == {m[i] : i \in DOMAIN ts}
  <2> HIDE DEF taken
  <2> QED  BY <1>2, <1>5, AddedGrows
<1> HIDE DEF all, gone
<1>7. /\ IsSeq(n) /\ UniqueIds(n)
      /\ \A j \in 1 .. Len(n) : \E k \in 1 .. Len(all) : n[j] = all[k]
  BY <1>6, WithoutKeeps DEF Grown, Distinct
<1> HIDE DEF n
<1>8. ASSUME NEW j \in 1 .. Len(n)
      PROVE  /\ PayloadTrack(n[j])
             /\ n[j].seen = 1 \/ \E k \in 1 .. Len(ts) : Same(ts[k], n[j])
  <2>1. PICK k \in 1 .. Len(all) : n[j] = all[k]
    BY <1>7
  <2>2. PayloadTrack(all[k])
    BY <1>6 DEF Grown, Distinct
  <2>3. (k \in 1 .. Len(kept) /\ all[k] = kept[k]) \/ all[k].seen = 1
    BY <1>6 DEF Grown
  <2> QED  BY <1>3, <1>5, <2>1, <2>2, <2>3
<1> QED  BY <1>1, <1>7, <1>8 DEF Descends, Distinct

\* An expired mark changes nothing of a track but its state.
LEMMA CleanedKeeps ==
    ASSUME NEW ts, Distinct(ts)
    PROVE  LET n == P!Cleaned(ts) IN
           /\ Distinct(n)
           /\ \A j \in 1 .. Len(n) : \E k \in 1 .. Len(ts) :
                Same(ts[k], n[j]) /\ n[j].seen = ts[k].seen
<1> DEFINE stale(t) == t.state = "SUSPENDED_STATIC"
                       /\ (t.age > Ttl \/ t.jumps > JumpLimit
                           \/ (t.core > 0 /\ ~t.strong))
           marked == [i \in DOMAIN ts |->
                        IF stale(ts[i]) THEN [ts[i] EXCEPT !.state = "EXPIRED"]
                        ELSE ts[i]]
           gone == {i \in DOMAIN marked : marked[i].state = "EXPIRED"
                                          /\ marked[i].age > Forget}
           n == P!Without(marked, gone)
<1>1. P!Cleaned(ts) = n
  BY DEF P!Cleaned
<1>2. DOMAIN ts = 1 .. Len(ts)
  BY DEF Distinct, IsSeq
<1>3. ASSUME NEW i \in 1 .. Len(ts)
      PROVE  Same(ts[i], marked[i]) /\ marked[i].seen = ts[i].seen
  <2>1. PayloadTrack(ts[i])
    BY DEF Distinct
  <2>2. marked[i] = ts[i] \/ marked[i] = [ts[i] EXCEPT !.state = "EXPIRED"]
    BY <1>2
  <2> HIDE DEF marked
  <2>3. CASE marked[i] = ts[i]
    BY <2>1, <2>3 DEF Same
  <2>4. CASE marked[i] = [ts[i] EXCEPT !.state = "EXPIRED"]
    BY <2>1, <2>4 DEF Same, PayloadTrack, PayloadFields
  <2> QED  BY <2>2, <2>3, <2>4
<1>4. marked = [i \in 1 .. Len(ts) |-> marked[i]]
  BY <1>2
<1> HIDE DEF marked
<1>5. Distinct(marked) /\ Len(marked) = Len(ts) /\ Len(ts) \in Nat
  BY <1>3, <1>4, EachDescends DEF Same
<1> HIDE DEF gone
<1>6. /\ IsSeq(n) /\ UniqueIds(n)
      /\ \A j \in 1 .. Len(n) : \E k \in 1 .. Len(marked) : n[j] = marked[k]
  BY <1>5, WithoutKeeps DEF Distinct
<1> HIDE DEF n
<1>7. ASSUME NEW j \in 1 .. Len(n)
      PROVE  /\ PayloadTrack(n[j])
             /\ \E k \in 1 .. Len(ts) :
                  Same(ts[k], n[j]) /\ n[j].seen = ts[k].seen
  <2>1. PICK k \in 1 .. Len(ts) : n[j] = marked[k]
    BY <1>5, <1>6
  <2>2. PayloadTrack(marked[k])
    BY <1>5 DEF Distinct
  <2> QED  BY <1>3, <2>1, <2>2
<1>8. Distinct(n)
  BY <1>6, <1>7 DEF Distinct
<1> QED  BY <1>1, <1>7, <1>8

\* A track that is not new is one of the tracks before the keyframe, and its
\* box is no larger than that one's or asked for long enough.
Traced(ts, n) ==
    /\ Distinct(n)
    /\ \A j \in 1 .. Len(n) : n[j].seen > 2 =>
         \E k \in 1 .. Len(ts) :
           /\ n[j].id = ts[k].id
           /\ ts[k].core > 0 /\ 100 * n[j].core > 135 * ts[k].core =>
                ts[k].grew + 1 >= Jumps

LEMMA AgedKeeps ==
    ASSUME NEW ts, Distinct(ts)
    PROVE  LET n == P!Aged(ts) IN
           /\ Distinct(n) /\ Len(n) = Len(ts)
           /\ \A i \in 1 .. Len(ts) : Same(ts[i], n[i])
<1> DEFINE n == P!Aged(ts)
<1>1. n = [i \in 1 .. Len(ts) |->
             [ts[i] EXCEPT !.age = P!Up(@), !.good = P!Age(@)]]
  BY DEF P!Aged, Distinct, IsSeq
<1>2. ASSUME NEW i \in 1 .. Len(ts) PROVE Same(ts[i], n[i])
  <2>1. PayloadTrack(ts[i])
    BY DEF Distinct
  <2>2. n[i] = [ts[i] EXCEPT !.age = P!Up(@), !.good = P!Age(@)]
    BY <1>1
  <2> QED  BY <2>1, <2>2 DEF Same, PayloadTrack, PayloadFields
<1>3. n = [i \in 1 .. Len(ts) |-> n[i]]
  BY <1>1
<1> HIDE DEF n
<1>4. Distinct(n) /\ Len(n) = Len(ts)
  BY <1>2, <1>3, EachDescends DEF Same
<1> QED  BY <1>2, <1>4 DEF n

\* A box that stays as it is has not grown.
LEMMA NotGrown ==
    \A k \in Nat : ~(k > 0 /\ 100 * k > 135 * k)
OBVIOUS

LEMMA FilteredTraces ==
    ASSUME PayloadIInv, NEW f \in PayloadFrames
    PROVE  Traced(tracks, P!Filtered(f))
<1> DEFINE aged == P!Aged(tracks)
           ts == P!Tracked(aged, f.clusters)
           boxed == [i \in DOMAIN ts |-> P!Boxed(ts[i])]
           n == P!Cleaned(boxed)
<1>1. IsSeq(sessions) /\ Distinct(tracks)
  BY DEF PayloadIInv, AllSessions
<1>2. /\ Distinct(aged) /\ Len(aged) = Len(tracks)
      /\ \A i \in 1 .. Len(tracks) : Same(tracks[i], aged[i])
  BY <1>1, AgedKeeps
<1>3. \A i \in 1 .. Len(tracks) : tracks[i].core \in Nat
  BY <1>1 DEF Distinct, PayloadTrack
<1> HIDE DEF aged
<1>4. CASE ~f.candidates
  <2>1. P!Filtered(f) = aged
    BY <1>4 DEF P!Filtered, aged
  <2>2. ASSUME NEW j \in 1 .. Len(aged)
        PROVE  /\ j \in 1 .. Len(tracks) /\ aged[j].id = tracks[j].id
               /\ ~(tracks[j].core > 0
                    /\ 100 * aged[j].core > 135 * tracks[j].core)
    BY <1>2, <1>3, NotGrown DEF Same
  <2> QED  BY <1>2, <2>1, <2>2 DEF Traced
<1>5. CASE f.candidates
  <2>1. P!Filtered(f) = n
    BY <1>5 DEF P!Filtered, aged
  <2>2. Descends(aged, ts)
    <3>1. f.clusters \in Seq(Clusters)
      BY PayloadAssumption
    <3> QED  BY <1>1, <1>2, <3>1, TrackedDescends
  <2> HIDE DEF ts
  <2>3. Distinct(ts) /\ DOMAIN ts = 1 .. Len(ts)
    BY <2>2 DEF Descends, Distinct, IsSeq
  <2>4. ASSUME NEW i \in 1 .. Len(ts) PROVE Boxes(ts[i], boxed[i])
    <3>1. PayloadTrack(ts[i]) /\ boxed[i] = P!Boxed(ts[i])
      BY <2>3 DEF Distinct
    <3> QED  BY <3>1, BoxedGrows
  <2>5. boxed = [i \in 1 .. Len(ts) |-> boxed[i]]
    BY <2>3
  <2> HIDE DEF boxed
  <2>6. Distinct(boxed) /\ Len(boxed) = Len(ts)
    BY <2>3, <2>4, <2>5, EachDescends DEF Boxes
  <2>7. /\ Distinct(n)
        /\ \A j \in 1 .. Len(n) : \E k \in 1 .. Len(boxed) :
             Same(boxed[k], n[j]) /\ n[j].seen = boxed[k].seen
    BY <2>6, CleanedKeeps
  <2> HIDE DEF n
  <2>8. ASSUME NEW j \in 1 .. Len(n), n[j].seen > 2
        PROVE  \E k \in 1 .. Len(tracks) :
                 /\ n[j].id = tracks[k].id
                 /\ tracks[k].core > 0
                    /\ 100 * n[j].core > 135 * tracks[k].core =>
                      tracks[k].grew + 1 >= Jumps
    <3>1. PICK i \in 1 .. Len(ts) :
            Same(boxed[i], n[j]) /\ n[j].seen = boxed[i].seen
      BY <2>6, <2>7
    <3>2. Boxes(ts[i], boxed[i])
      BY <2>4
    <3>3. ts[i].seen = n[j].seen /\ ts[i].seen # 1
      <4>1. ts[i].seen = n[j].seen
        BY <3>1, <3>2 DEF Boxes
      <4>2. n[j].seen # 1
        BY <2>8
      <4> QED  BY <4>1, <4>2
    <3>4. PICK k \in 1 .. Len(aged) : Same(aged[k], ts[i])
      BY <2>2, <3>3 DEF Descends
    <3>5. k \in 1 .. Len(tracks) /\ Same(tracks[k], aged[k])
      BY <1>2, <3>4
    <3>6. /\ ts[i].core = tracks[k].core /\ ts[i].id = tracks[k].id
          /\ ts[i].grew = tracks[k].grew
      BY <3>4, <3>5 DEF Same
    <3>7. n[j].id = tracks[k].id /\ n[j].core = boxed[i].core
      BY <3>1, <3>2, <3>6 DEF Same, Boxes
    <3>8. tracks[k].core > 0 /\ 100 * boxed[i].core > 135 * tracks[k].core =>
            tracks[k].grew + 1 >= Jumps
      BY <2>8, <3>2, <3>3, <3>6 DEF Boxes
    <3> QED  BY <3>5, <3>7, <3>8
  <2> QED  BY <2>1, <2>7, <2>8 DEF Traced
<1> QED  BY <1>4, <1>5

-----------------------------------------------------------------------------
(* A keyframe: what became of the sessions.                                *)

LEMMA UpdatedKeeps ==
    ASSUME NEW s, Session(s), P!Active(s), NEW t
    PROVE  Session(P!Updated(s, t))
<1> DEFINE calm == t.cluster.motion = "still"
           b == IF calm THEN P!Up(s.rested) ELSE 0
           n == IF calm THEN P!Up(s.stable) ELSE 0
           u == [s EXCEPT !.rested = b]
<1>1. u = [s EXCEPT !.rested = IF calm THEN P!Up(@) ELSE 0]
  OBVIOUS
<1>2. b \in Nat /\ n \in Nat /\ n <= b
  BY UpIsMonotone DEF Session
<1> HIDE DEF b
<1>3. /\ u = [y \in SessionFields |-> u[y]] /\ u.rested = b
      /\ u.stable = s.stable /\ u.state = s.state
  BY DEF Session, SessionFields
<1>4. s.stable \in Nat /\ Rest \in Nat
  BY PayloadAssumption DEF Session
<1>5. P!Updated(s, t) =
        CASE s.state = "CANDIDATE" -> [u EXCEPT !.state = "CARRIED_MOVING"]
          [] s.state = "CARRIED_MOVING" -> P!Slowing(u, calm)
          [] s.state = "CARRIED_STOPPING" -> P!Placement(u, calm)
  BY <1>1 DEF P!Updated
<1> HIDE DEF u
<1>6. CASE s.state = "CANDIDATE"
  <2> DEFINE r == [u EXCEPT !.state = "CARRIED_MOVING"]
  <2>1. s.stable = 0
    BY <1>6 DEF Session
  <2>2. P!Updated(s, t) = r
    BY <1>5, <1>6
  <2>3. /\ r = [y \in SessionFields |-> r[y]] /\ r.rested = b
        /\ r.stable = 0 /\ r.state = "CARRIED_MOVING"
    BY <1>3, <2>1 DEF SessionFields
  <2> HIDE DEF r
  <2> QED  BY <1>2, <2>2, <2>3 DEF Session
<1>7. CASE s.state = "CARRIED_MOVING"
  <2> DEFINE w == IF calm /\ n >= Stop THEN "CARRIED_STOPPING"
                  ELSE "CARRIED_MOVING"
             r == [u EXCEPT !.stable = n, !.state = w]
  <2>1. w \in {"CARRIED_STOPPING", "CARRIED_MOVING"}
    OBVIOUS
  <2>2. P!Updated(s, t) = r
    <3>1. P!Updated(s, t) = P!Slowing(u, calm)
      BY <1>5, <1>7
    <3> QED  BY <1>3, <1>7, <3>1 DEF P!Slowing
  <2> HIDE DEF w, n
  <2>3. /\ r = [y \in SessionFields |-> r[y]] /\ r.rested = b
        /\ r.stable = n /\ r.state = w
    BY <1>3 DEF SessionFields
  <2> HIDE DEF r
  <2> QED  BY <1>2, <2>1, <2>2, <2>3 DEF Session
<1>8. CASE s.state = "CARRIED_STOPPING"
  <2> DEFINE w == IF n >= Rest THEN "PLACED_STATIC" ELSE "CARRIED_STOPPING"
             r == [u EXCEPT !.stable = n, !.state = w]
  <2>1. w # "CANDIDATE" /\ (w = "PLACED_STATIC" => n >= Rest)
    OBVIOUS
  <2>2. P!Updated(s, t) = r
    <3>1. P!Updated(s, t) = P!Placement(u, calm)
      BY <1>5, <1>8
    <3> QED  BY <1>3, <1>8, <3>1 DEF P!Placement
  <2> HIDE DEF w, n
  <2>3. /\ r = [y \in SessionFields |-> r[y]] /\ r.rested = b
        /\ r.stable = n /\ r.state = w
    BY <1>3 DEF SessionFields
  <2> HIDE DEF r
  <2> QED  BY <1>2, <1>4, <2>1, <2>2, <2>3 DEF Session
<1> QED  BY <1>6, <1>7, <1>8 DEF P!Active

LEMMA HandledKeeps ==
    ASSUME NEW ss, AllSessions(ss), NEW t
    PROVE  AllSessions(P!Handled(ss, t))
<1> DEFINE known == P!Matches(ss, t)
           i == CHOOSE k \in known : \A n \in known : k <= n
           full == Len(SelectSeq(ss, P!Active)) >= MaxActive
           again == [ss EXCEPT ![i].place = t.place, ![i].age = 0]
           opened == Append(ss, P!NewSession(t))
           found == IF known # {} THEN again ELSE opened
           at == IF known # {} THEN i ELSE Len(ss) + 1
           updated == [found EXCEPT ![at] = P!Updated(@, t)]
<1>1. P!Handled(ss, t) \in {ss, updated, found}
  BY DEF P!Handled
<1> HIDE DEF full
<1>2. /\ IsSeq(ss) /\ Len(ss) \in Nat /\ DOMAIN ss = 1 .. Len(ss)
      /\ \A k \in 1 .. Len(ss) : Session(ss[k])
  BY DEF AllSessions, IsSeq
<1>3. /\ AllSessions(found) /\ at \in 1 .. Len(found)
      /\ P!Active(found[at])
  <2>1. CASE known # {}
    <3>1. known \subseteq 1 .. Len(ss) /\ \A k \in known : P!Active(ss[k])
      BY <1>2 DEF P!Matches
    <3> HIDE DEF known
    <3>2. i \in known
      <4>1. known \subseteq Nat
        BY <1>2, <3>1
      <4>2. \E k \in known : \A n \in known : k <= n
        BY <2>1, <4>1, Least
      <4> QED  BY <4>2
    <3>3. found = again /\ at = i
      BY <2>1
    <3> HIDE DEF i, found, at
    <3> DEFINE x == [[ss[i] EXCEPT !.place = t.place] EXCEPT !.age = 0]
    <3>4. again = [ss EXCEPT ![i] = x]
      BY <1>2, <3>1, <3>2
    <3>5. Session(ss[i]) /\ P!Active(ss[i])
      BY <1>2, <3>1, <3>2
    <3>6. Session(x) /\ P!Active(x)
      BY <3>5 DEF Session, SessionFields, P!Active
    <3> HIDE DEF x, again
    <3>7. /\ IsSeq(again) /\ Len(again) = Len(ss) /\ again[i] = x
          /\ \A j \in 1 .. Len(ss) : j # i => again[j] = ss[j]
      <4>1. i \in 1 .. Len(ss)
        BY <3>1, <3>2
      <4> QED  BY <1>2, <3>4, <4>1, ExceptSeq
    <3>8. \A j \in 1 .. Len(again) : Session(again[j])
      BY <1>2, <3>6, <3>7
    <3> QED  BY <3>1, <3>2, <3>3, <3>6, <3>7, <3>8 DEF AllSessions
  <2>2. CASE known = {}
    <3>1. found = opened /\ at = Len(ss) + 1
      BY <2>2
    <3> HIDE DEF known, found, at
    <3> DEFINE x == P!NewSession(t)
    <3>2. Session(x) /\ P!Active(x)
      BY DEF P!NewSession, Session, SessionFields, P!Active
    <3> HIDE DEF x
    <3>3. /\ IsSeq(opened) /\ Len(opened) = Len(ss) + 1
          /\ opened[Len(ss) + 1] = x
          /\ \A j \in 1 .. Len(ss) : opened[j] = ss[j]
      BY <1>2, AppendSeq DEF x
    <3> HIDE DEF opened
    <3>4. ASSUME NEW j \in 1 .. Len(opened) PROVE Session(opened[j])
      <4>1. j \in 1 .. Len(ss) \/ j = Len(ss) + 1
        BY <1>2, <3>3
      <4> QED  BY <1>2, <3>2, <3>3, <4>1
    <3>5. Len(ss) + 1 \in 1 .. Len(opened)
      BY <1>2, <3>3
    <3> QED  BY <3>1, <3>2, <3>3, <3>4, <3>5 DEF AllSessions
  <2> QED  BY <2>1, <2>2
<1> HIDE DEF found, at
<1>4. AllSessions(updated)
  <2> DEFINE x == P!Updated(found[at], t)
  <2>0. IsSeq(found)
    BY <1>3 DEF AllSessions
  <2>1. \A k \in 1 .. Len(found) : Session(found[k])
    BY <1>3 DEF AllSessions
  <2>2. Session(x)
    BY <1>3, <2>1, UpdatedKeeps
  <2>3. updated = [found EXCEPT ![at] = x]
    OBVIOUS
  <2> HIDE DEF x, updated
  <2>4. /\ IsSeq(updated) /\ Len(updated) = Len(found) /\ updated[at] = x
        /\ \A j \in 1 .. Len(found) : j # at => updated[j] = found[j]
    <3>1. at \in 1 .. Len(found)
      BY <1>3
    <3> DEFINE e == [found EXCEPT ![at] = x]
    <3>2. /\ IsSeq(e) /\ Len(e) = Len(found) /\ e[at] = x
          /\ \A j \in 1 .. Len(found) : j # at => e[j] = found[j]
      BY <2>0, <3>1, ExceptSeq
    <3> HIDE DEF e
    <3> QED  BY <2>3, <3>2 DEF e
  <2> QED  BY <2>1, <2>2, <2>4 DEF AllSessions
<1> HIDE DEF updated
<1> QED  BY <1>1, <1>3, <1>4

LEMMA SessionsKeep ==
    ASSUME NEW ss, AllSessions(ss), NEW ts, IsSeq(ts)
    PROVE  AllSessions(P!Sessions(ss, ts))
<1> DEFINE N == Len(ts)
           Op(x, i) == P!Handled(x, ts[i])
           Eq(h, n) == h = [i \in 0 .. n |->
                              IF i = 0 THEN ss ELSE Op(h[i - 1], i)]
           T == {n \in Nat : \E h : Eq(h, n)}
           f[i \in 0 .. N] == IF i = 0 THEN ss ELSE Op(f[i - 1], i)
<1>1. N \in Nat
  BY DEF IsSeq
<1>2. P!Sessions(ss, ts) = f[N]
  <2>1. f = CHOOSE h : h = [i \in 0 .. N |->
           IF i = 0 THEN ss ELSE P!Handled(h[i - 1], ts[i])]
    OBVIOUS
  <2> QED  BY <2>1 DEF P!Sessions
<1> HIDE DEF N
<1>3. Eq(f, N)
  <2>1. 0 \in T
    <3>1. Eq([i \in 0 .. 0 |-> ss], 0)
      OBVIOUS
    <3> QED  BY <3>1
  <2>2. ASSUME NEW n \in Nat, n \in T PROVE n + 1 \in T
    <3>1. PICK h : Eq(h, n)
      BY <2>2
    <3> DEFINE e == [i \in 0 .. (n + 1) |-> IF i = n + 1
                                            THEN Op(h[n], n + 1) ELSE h[i]]
    <3> HIDE DEF Op
    <3>2. \A i \in 0 .. (n + 1) : e[i] = IF i = 0 THEN ss
                                         ELSE Op(e[i - 1], i)
      BY <3>1
    <3>3. Eq(e, n + 1)
      BY <3>2
    <3>4. n + 1 \in Nat
      OBVIOUS
    <3> HIDE DEF Eq
    <3> QED  BY <3>3, <3>4
  <2>3. N \in T
    <3> HIDE DEF T
    <3> QED  BY <1>1, <2>1, <2>2, Induction
  <2>4. PICK h : Eq(h, N)
    BY <2>3
  <2>5. f = CHOOSE z : Eq(z, N)
    OBVIOUS
  <2> HIDE DEF Eq, f
  <2> QED  BY <2>4, <2>5
<1>4. f[0] = ss /\ \A i \in 1 .. N : f[i] = Op(f[i - 1], i)
  <2> HIDE DEF f, Op
  <2> QED  BY <1>1, <1>3
<1> HIDE DEF f
<1> DEFINE K == {i \in Nat : i \in 0 .. N => AllSessions(f[i])}
<1>5. 0 \in K
  BY <1>4
<1>6. ASSUME NEW i \in Nat, i \in K PROVE i + 1 \in K
  <2> SUFFICES ASSUME i + 1 \in 0 .. N PROVE AllSessions(f[i + 1])
    OBVIOUS
  <2>1. AllSessions(f[i]) /\ i + 1 \in 1 .. N
    BY <1>1, <1>6
  <2>2. f[i + 1] = Op(f[i], i + 1)
    <3>1. f[i + 1] = Op(f[(i + 1) - 1], i + 1)
      <4> HIDE DEF Op
      <4> QED  BY <1>4, <2>1
    <3>2. (i + 1) - 1 = i
      OBVIOUS
    <3> HIDE DEF Op
    <3> QED  BY <3>1, <3>2
  <2> QED  BY <2>1, <2>2, HandledKeeps
<1>7. N \in K
  <2> HIDE DEF K
  <2> QED  BY <1>1, <1>5, <1>6, Induction
<1> QED  BY <1>1, <1>2, <1>7

LEMMA AgedSessionsKeep ==
    ASSUME NEW ss, AllSessions(ss)
    PROVE  AllSessions(P!AgedSessions(ss))
<1> DEFINE n == P!AgedSessions(ss)
<1>1. Len(ss) \in Nat /\ \A i \in 1 .. Len(ss) : Session(ss[i])
  BY DEF AllSessions, IsSeq
<1>2. n = [i \in 1 .. Len(ss) |-> IF P!Active(ss[i])
                                  THEN [ss[i] EXCEPT !.age = P!Up(@)]
                                  ELSE ss[i]]
  BY DEF P!AgedSessions, AllSessions, IsSeq
<1>3. ASSUME NEW i \in 1 .. Len(ss) PROVE Session(n[i])
  <2>1. n[i] = ss[i] \/ n[i] = [ss[i] EXCEPT !.age = P!Up(@)]
    BY <1>2
  <2> HIDE DEF n
  <2>2. CASE n[i] = ss[i]
    BY <1>1, <2>2
  <2>3. CASE n[i] = [ss[i] EXCEPT !.age = P!Up(@)]
    BY <1>1, <2>3 DEF Session, SessionFields
  <2> QED  BY <2>1, <2>2, <2>3
<1>4. n = [i \in 1 .. Len(ss) |-> n[i]]
  BY <1>2
<1> HIDE DEF n
<1>5. IsSeq(n) /\ Len(n) = Len(ss)
  BY <1>1, <1>4, MapSeq
<1> QED  BY <1>3, <1>5 DEF AllSessions, n

-----------------------------------------------------------------------------
(* The theorem.                                                            *)

Growth ==
    \A i \in DOMAIN tracks, j \in DOMAIN tracks' :
      (tracks[i].id = tracks'[j].id /\ tracks[i].core > 0
       /\ 100 * tracks'[j].core > 135 * tracks[i].core /\ tracks'[j].seen > 2)
        => tracks[i].grew + 1 >= Jumps

LEMMA PayloadStep ==
    ASSUME PayloadIInv, [P!Next]_payloadVars
    PROVE  PayloadIInv' /\ Growth
<1>1. /\ Distinct(tracks) /\ AllSessions(sessions)
      /\ DOMAIN tracks = 1 .. Len(tracks)
  BY DEF PayloadIInv, Distinct, IsSeq
<1>2. ASSUME NEW f \in PayloadFrames, P!Commit(f)
      PROVE  PayloadIInv' /\ Growth
  <2>1. tracks' = P!Filtered(f)
    BY <1>2 DEF P!Commit
  <2>2. sessions' = P!Sessions(P!AgedSessions(sessions), tracks')
    BY <1>2 DEF P!Commit
  <2>3. Traced(tracks, tracks')
    BY <2>1, FilteredTraces
  <2>4. Distinct(tracks') /\ DOMAIN tracks' = 1 .. Len(tracks')
    BY <2>3 DEF Traced, Distinct, IsSeq
  <2>5. AllSessions(sessions')
    <3>1. AllSessions(P!AgedSessions(sessions)) /\ IsSeq(tracks')
      BY <1>1, <2>4, AgedSessionsKeep DEF Distinct
    <3> QED  BY <2>2, <3>1, SessionsKeep
  <2>6. ASSUME NEW i \in 1 .. Len(tracks), NEW j \in 1 .. Len(tracks'),
               tracks[i].id = tracks'[j].id, tracks[i].core > 0,
               100 * tracks'[j].core > 135 * tracks[i].core,
               tracks'[j].seen > 2
        PROVE  tracks[i].grew + 1 >= Jumps
    <3>1. PICK k \in 1 .. Len(tracks) :
            /\ tracks'[j].id = tracks[k].id
            /\ tracks[k].core > 0
               /\ 100 * tracks'[j].core > 135 * tracks[k].core =>
                 tracks[k].grew + 1 >= Jumps
      BY <2>3, <2>6 DEF Traced
    <3>2. k = i
      BY <1>1, <2>6, <3>1 DEF Distinct, UniqueIds
    <3> QED  BY <2>6, <3>1, <3>2
  <2> QED  BY <1>1, <2>4, <2>5, <2>6 DEF PayloadIInv, Growth
<1>3. ASSUME tracks' = <<>>, sessions' = <<>> \/ sessions' = sessions
      PROVE  PayloadIInv' /\ Growth
  <2>1. IsSeq(<<>>) /\ Len(<<>>) = 0 /\ DOMAIN <<>> = {}
    BY DEF IsSeq
  <2>2. Distinct(tracks') /\ DOMAIN tracks' = {}
    BY <1>3, <2>1 DEF Distinct, UniqueIds
  <2>3. AllSessions(sessions')
    BY <1>1, <1>3, <2>1 DEF AllSessions
  <2> QED  BY <2>2, <2>3 DEF PayloadIInv, Growth
<1>4. CASE UNCHANGED payloadVars
  <2>1. tracks' = tracks /\ sessions' = sessions
    BY <1>4 DEF payloadVars
  <2>2. ASSUME NEW i \in 1 .. Len(tracks), NEW j \in 1 .. Len(tracks),
               tracks[i].id = tracks[j].id
        PROVE  ~(tracks[i].core > 0
                 /\ 100 * tracks[j].core > 135 * tracks[i].core)
    <3>1. i = j /\ tracks[i].core \in Nat
      BY <1>1, <2>2 DEF Distinct, UniqueIds, PayloadTrack
    <3> QED  BY <3>1, NotGrown
  <2> QED  BY <1>1, <2>1, <2>2 DEF PayloadIInv, Growth
<1> QED
  BY <1>2, <1>3, <1>4 DEF P!Next, P!ResetAll, P!ResetTracker

\* A payload track widens the box that removes points from the map past the
\* growth limit only after as many estimates in a row have asked for it, and
\* a session is placed only when its last updates all saw the load at rest
\* (CargoBoxV2, DynamicEventManager::updatePlacementDetection).
THEOREM TrackerFollows == P!Spec => TrackerFollowsEvidence
<1>1. P!Init => PayloadIInv
  BY PayloadInit
<1>2. PayloadIInv /\ [P!Next]_(P!vars) => PayloadIInv' /\ Growth
  BY PayloadStep DEF P!vars, payloadVars
<1>3. PayloadIInv => P!PlacedIsAtRest
  <2>1. ASSUME AllSessions(sessions)
        PROVE  /\ DOMAIN sessions = 1 .. Len(sessions)
               /\ \A i \in 1 .. Len(sessions) :
                    sessions[i].state = "PLACED_STATIC" =>
                      sessions[i].rested >= Rest
    <3>1. DOMAIN sessions = 1 .. Len(sessions)
      BY <2>1 DEF AllSessions, IsSeq
    <3>2. \A i \in 1 .. Len(sessions) : Session(sessions[i])
      BY <2>1 DEF AllSessions
    <3> QED  BY <3>1, <3>2 DEF Session
  <2> QED  BY <2>1 DEF PayloadIInv, P!PlacedIsAtRest
<1> QED
  BY <1>1, <1>2, <1>3, PTL DEF P!Spec, TrackerFollowsEvidence,
     P!TrackerFollowsEvidence, P!GrowthIsConfirmed, Growth

-----------------------------------------------------------------------------
(* What is granted is earned.                                              *)

LEMMA IdentityInvariance == I!Spec => []IdentityIInv
BY IdentityInit, IdentityStep, PTL DEF I!Spec

LEMMA MotionInvariance == S!Spec => []MotionIInv
BY MotionInit, MotionStep, PTL DEF S!Spec

\* A load is identified only by a height that was frozen while the hook was
\* EMPTY, and its two edges belong together; a frame feeds the maps after a
\* hold only when the pose has caught up with the measurement for
\* catch_up_confirm_frames frames in a row.
THEOREM GrantsEarned == I!Spec /\ S!Spec => []GrantsAreEarned
<1>1. IdentityIInv => I!IdentityIsEarned
  BY DEF IdentityIInv, ReferenceIsGrounded, EdgeIsDated, I!IdentityIsEarned,
         I!NoIdentityWithoutRest, I!EdgesBelongTogether
<1>2. MotionIInv => S!NoWriteBeforeCaughtUp
  BY DEF MotionIInv, S!NoWriteBeforeCaughtUp
<1>3. IdentityIInv /\ MotionIInv => GrantsAreEarned
  BY <1>1, <1>2 DEF GrantsAreEarned
<1> QED  BY <1>3, IdentityInvariance, MotionInvariance, PTL
=============================================================================
