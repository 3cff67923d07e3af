----------------------------- MODULE CargoProofs ----------------------------
(***************************************************************************)
(* Theorems about the safety decision and what the operator sees of it,    *)
(* for every value of the constants.  The temporal filter: a code is       *)
(* published exactly when the window of the last frames confirms it.  The  *)
(* forbidden zone: a box is green only while something measured backs it.  *)
(* The swing monitor: no alarm is dropped early.  The pipeline: every      *)
(* status reaches the alarm, every authority is of the load it is used     *)
(* for, and every review ends.                                             *)
(***************************************************************************)
EXTENDS MCCargo, TLAPS

-----------------------------------------------------------------------------
(* Runs of evidence in a window of frames.                                 *)

\* Frame x is evidence for code code.
Good(x, code) ==
    /\ x.raw /\ x.code = code
    /\ x.cargo # NoAuthority /\ x.cargo = x.obstacle
    /\ Hazard(code) => x.robust

\* Frame y continues the evidence of frame x for code code.
Follows(y, x, code) ==
    /\ y.stamp > x.stamp /\ y.stamp - x.stamp <= MaxGap
    /\ y.cargo = x.cargo
    /\ Hazard(code) => y.place = x.place

\* The last k frames of l are evidence for code, each continuing the one
\* before.
Run(l, k, code) ==
    /\ k <= Len(l)
    /\ \A j \in (Len(l) - k + 1) .. Len(l) : Good(l[j], code)
    /\ \A j \in (Len(l) - k + 2) .. Len(l) : Follows(l[j], l[j - 1], code)

\* The candidate is the last frame, and its count is a run of evidence.
CandidateIsRun ==
    /\ candidate = NoInput => count = 0
    /\ candidate # NoInput =>
          /\ 1 <= count /\ count <= Len(log)
          /\ lastStamp = candidate.stamp /\ log[Len(log)] = candidate
          /\ Run(log, count, candidate.code)

\* No run of evidence is longer than the count: nothing is forgotten.
CountIsLongest ==
    \A code \in Codes : \A k \in 1 .. Len(log) :
        Run(log, k, code) =>
            candidate # NoInput /\ candidate.code = code /\ k <= count

IInv == TypeOK /\ CandidateIsRun /\ CountIsLongest /\ PublishedIsBacked

-----------------------------------------------------------------------------

LEMMA Windows ==
    /\ WindowSize \in Nat /\ WindowSize >= 2 /\ MaxGap \in Nat
    /\ \A code \in Codes : /\ Required(code) \in Nat
                        /\ Required(code) >= 2 /\ Required(code) <= WindowSize
BY TemporalConstants DEF WindowSize, Required, ConfigValid

\* The reference of PublishedIffBacked is a run of Required(code) frames.
LEMMA WindowIsRun ==
    ASSUME NEW code \in Codes, NEW l \in Seq(Inputs)
    PROVE  LET n == Len(l)
               k == Required(code)
           IN  (/\ n >= k
                /\ \A j \in (n - k + 1) .. n :
                      /\ l[j].raw /\ l[j].code = code
                      /\ l[j].cargo # NoAuthority /\ l[j].cargo = l[j].obstacle
                      /\ Hazard(code) => l[j].robust
                /\ \A j \in (n - k + 2) .. n :
                      /\ l[j].stamp > l[j - 1].stamp
                      /\ l[j].stamp - l[j - 1].stamp <= MaxGap
                      /\ l[j].cargo = l[j - 1].cargo
                      /\ Hazard(code) => l[j].place = l[j - 1].place)
               <=> Run(l, k, code)
<1>1. Required(code) \in Nat /\ Len(l) \in Nat
  BY Windows
<1>2. \A j : Good(l[j], code) <=>
            /\ l[j].raw /\ l[j].code = code
            /\ l[j].cargo # NoAuthority /\ l[j].cargo = l[j].obstacle
            /\ Hazard(code) => l[j].robust
  BY DEF Good
<1>3. \A j : Follows(l[j], l[j - 1], code) <=>
            /\ l[j].stamp > l[j - 1].stamp
            /\ l[j].stamp - l[j - 1].stamp <= MaxGap
            /\ l[j].cargo = l[j - 1].cargo
            /\ Hazard(code) => l[j].place = l[j - 1].place
  BY DEF Follows
<1> QED  BY <1>1, <1>2, <1>3 DEF Run

\* The window after one more frame, counted from its end.
LEMMA LoggedEnd ==
    ASSUME TypeOK, NEW i \in Inputs
    PROVE  LET n == Len(log)
               m == Len(Logged(i))
           IN  /\ Logged(i) \in Seq(Inputs)
               /\ n \in Nat /\ m \in Nat /\ 1 <= m /\ m <= WindowSize
               /\ m = n + 1 \/ (m = n /\ n = WindowSize)
               /\ \A j \in 1 .. m :
                     Logged(i)[j] = IF j = m THEN i ELSE log[j + n + 1 - m]
<1>1. WindowSize \in Nat /\ WindowSize >= 2
  BY Windows
<1> DEFINE n == Len(log)
           all == Append(log, i)
<1>2. /\ n \in Nat /\ n <= WindowSize
      /\ all \in Seq(Inputs) /\ Len(all) = n + 1
      /\ \A j \in 1 .. n + 1 : all[j] = IF j = n + 1 THEN i ELSE log[j]
  BY DEF TypeOK
<1> HIDE DEF all
<1>3. CASE Len(all) > WindowSize
  <2>1. /\ Tail(all) \in Seq(Inputs) /\ Len(Tail(all)) = n
        /\ \A j \in 1 .. n : Tail(all)[j] = all[j + 1]
    BY <1>1, <1>2, <1>3
  <2>2. Logged(i) = Tail(all) /\ n = WindowSize
    BY <1>1, <1>2, <1>3 DEF Logged, all
  <2>3. \A j \in 1 .. n : Tail(all)[j] = IF j = n THEN i ELSE log[j + 1]
    BY <1>2, <2>1
  <2> QED  BY <1>1, <1>2, <2>1, <2>2, <2>3
<1>4. CASE ~(Len(all) > WindowSize)
  <2>1. Logged(i) = all
    BY <1>4 DEF Logged, all
  <2>2. Len(all) <= WindowSize
    BY <1>1, <1>2, <1>4
  <2> QED  BY <1>1, <1>2, <2>1, <2>2
<1> QED  BY <1>3, <1>4

\* A run grows by a frame that continues it, up to the size of the window.
LEMMA RunGrows ==
    ASSUME TypeOK, NEW i \in Inputs, NEW code, NEW k \in Nat,
           Run(log, k, code), Good(i, code),
           k = 0 \/ Follows(i, log[Len(log)], code)
    PROVE  Run(Logged(i), Capped(k + 1), code)
<1> DEFINE n == Len(log)
           l == Logged(i)
           m == Len(l)
<1>1. /\ n \in Nat /\ m \in Nat /\ 1 <= m /\ m <= WindowSize
      /\ m = n + 1 \/ (m = n /\ n = WindowSize)
      /\ \A j \in 1 .. m : l[j] = IF j = m THEN i ELSE log[j + n + 1 - m]
      /\ WindowSize \in Nat
  BY LoggedEnd, Windows
<1> HIDE DEF l
<1>2. k <= n
  BY DEF Run
<1> DEFINE q == Capped(k + 1)
<1>3. /\ q \in Nat /\ 1 <= q /\ q <= m /\ q <= k + 1
  BY <1>1, <1>2 DEF Capped
<1> HIDE DEF q
<1>4. ASSUME NEW j \in (m - q + 1) .. m PROVE Good(l[j], code)
  <2>1. CASE j = m
    BY <1>1, <1>3, <2>1
  <2>2. CASE j # m
    <3>1. j \in 1 .. m /\ j + n + 1 - m \in (n - k + 1) .. n
      BY <1>1, <1>2, <1>3, <2>2
    <3> QED  BY <1>1, <2>2, <3>1 DEF Run
  <2> QED  BY <2>1, <2>2
<1>5. ASSUME NEW j \in (m - q + 2) .. m PROVE Follows(l[j], l[j - 1], code)
  <2>0. j \in 1 .. m /\ j - 1 \in 1 .. m /\ j - 1 # m /\ k # 0
    BY <1>1, <1>2, <1>3
  <2>1. l[j - 1] = log[(j - 1) + n + 1 - m]
    BY <1>1, <2>0
  <2>2. CASE j = m
    BY <1>1, <2>0, <2>1, <2>2
  <2>3. CASE j # m
    <3>1. /\ j + n + 1 - m \in (n - k + 2) .. n
          /\ (j + n + 1 - m) - 1 = (j - 1) + n + 1 - m
      BY <1>1, <1>2, <1>3, <2>3
    <3>2. l[j] = log[j + n + 1 - m]
      BY <1>1, <2>0, <2>3
    <3> QED  BY <2>1, <3>1, <3>2 DEF Run
  <2> QED  BY <2>2, <2>3
<1> QED  BY <1>3, <1>4, <1>5 DEF Run, l, q

\* A run that ends with a new frame is a run that this frame continues.
LEMMA RunShrinks ==
    ASSUME TypeOK, NEW i \in Inputs, NEW code, NEW k \in 1 .. Len(Logged(i)),
           Run(Logged(i), k, code)
    PROVE  /\ Good(i, code)
           /\ k # 1 => /\ k - 1 \in 1 .. Len(log)
                       /\ Run(log, k - 1, code)
                       /\ Follows(i, log[Len(log)], code)
<1> DEFINE n == Len(log)
           l == Logged(i)
           m == Len(l)
<1>1. /\ n \in Nat /\ m \in Nat /\ 1 <= m
      /\ m = n + 1 \/ m = n
      /\ \A j \in 1 .. m : l[j] = IF j = m THEN i ELSE log[j + n + 1 - m]
  BY LoggedEnd
<1>2. k \in Nat /\ 1 <= k /\ k <= m
  BY <1>1
<1>3. Run(l, k, code)
  OBVIOUS
<1> HIDE DEF l
<1>4. Good(i, code)
  <2>1. m \in (m - k + 1) .. m /\ l[m] = i
    BY <1>1, <1>2
  <2> QED  BY <1>3, <2>1 DEF Run
<1>5. ASSUME k # 1
      PROVE  /\ k - 1 \in 1 .. n /\ Run(log, k - 1, code)
             /\ Follows(i, log[n], code)
  <2>1. k - 1 \in 1 .. n
    BY <1>1, <1>2, <1>5
  <2>2. ASSUME NEW j \in (n - (k - 1) + 1) .. n PROVE Good(log[j], code)
    <3>1. /\ j + m - n - 1 \in (m - k + 1) .. m /\ j + m - n - 1 \in 1 .. m
          /\ j + m - n - 1 # m /\ (j + m - n - 1) + n + 1 - m = j
      BY <1>1, <1>2, <1>5
    <3> QED  BY <1>1, <1>3, <3>1 DEF Run
  <2>3. ASSUME NEW j \in (n - (k - 1) + 2) .. n
        PROVE  Follows(log[j], log[j - 1], code)
    <3>0. j \in Int /\ n - k + 3 <= j /\ j <= n
      BY <1>1, <1>2
    <3> DEFINE p == j + m - n - 1
    <3>1. /\ p \in (m - k + 2) .. m /\ p \in 1 .. m /\ p - 1 \in 1 .. m
          /\ p # m /\ p - 1 # m
          /\ p + n + 1 - m = j /\ (p - 1) + n + 1 - m = j - 1
      BY <1>1, <1>2, <1>5, <3>0
    <3> HIDE DEF p
    <3>2. /\ l[p] = log[p + n + 1 - m]
          /\ l[p - 1] = log[(p - 1) + n + 1 - m]
      BY <1>1, <3>1
    <3>3. Follows(l[p], l[p - 1], code)
      BY <1>3, <3>1 DEF Run
    <3> QED  BY <3>1, <3>2, <3>3
  <2>4. Follows(i, log[n], code)
    <3>1. /\ m \in (m - k + 2) .. m /\ m - 1 \in 1 .. m
          /\ l[m] = i /\ l[m - 1] = log[n]
      <4>1. m \in (m - k + 2) .. m /\ m - 1 \in 1 .. m /\ m - 1 # m
            /\ (m - 1) + n + 1 - m = n
        BY <1>1, <1>2, <1>5
      <4> QED  BY <1>1, <4>1
    <3> QED  BY <1>3, <3>1 DEF Run
  <2>5. k - 1 <= n
    BY <2>1
  <2> QED  BY <2>1, <2>2, <2>3, <2>4, <2>5 DEF Run
<1> QED  BY <1>4, <1>5 DEF l
-----------------------------------------------------------------------------
(* One frame.                                                              *)

LEMMA InitIInv == Init => IInv
<1> SUFFICES ASSUME Init PROVE IInv
  OBVIOUS
<1>1. TypeOK
  BY Windows, TemporalConstants DEF Init, TypeOK
<1>2. CandidateIsRun /\ CountIsLongest /\ PublishedIsBacked
  BY DEF Init, CandidateIsRun, CountIsLongest, PublishedIsBacked
<1> QED  BY <1>1, <1>2 DEF IInv

\* A frame that is no evidence ends every run.
LEMMA DroppedEndsRuns ==
    ASSUME IInv, NEW i \in Inputs, DropCandidate(i),
           \A code \in Codes : ~Good(i, code)
    PROVE  CandidateIsRun' /\ CountIsLongest' /\ PublishedIsBacked'
<1>1. log' = Logged(i) /\ candidate' = NoInput /\ count' = 0 /\ decision' = 0
  BY DEF DropCandidate
<1>2. ASSUME NEW code \in Codes, NEW k \in 1 .. Len(log'), Run(log', k, code)
      PROVE  FALSE
  BY <1>1, <1>2, RunShrinks DEF IInv
<1> QED  BY <1>1, <1>2 DEF CandidateIsRun, CountIsLongest, PublishedIsBacked

\* What an accepted frame of evidence does to the window and the count.
LEMMA EvidenceExtends ==
    ASSUME IInv, NEW i \in Inputs, Evidence(i)
    PROVE  /\ CandidateIsRun' /\ CountIsLongest'
           /\ decision' # 0 => decision' = i.code /\ Required(i.code) <= count'
           /\ Required(i.code) <= count' => decision' = i.code
<1> DEFINE n == IF Continues(i) THEN count + 1 ELSE 1
<1>1. /\ log' = Logged(i) /\ candidate' = i /\ count' = Capped(n)
      /\ lastStamp' = i.stamp /\ i.code \in Codes
      /\ decision' = IF Enough(i.code, n) THEN i.code ELSE 0
  BY DEF Evidence, Accepted, RawValid
<1>2. Good(i, i.code)
  BY DEF Evidence, Accepted, RawValid, AuthorityValid, Good
<1>3. /\ count \in Nat /\ n \in Nat /\ 1 <= n
      /\ WindowSize \in Nat /\ WindowSize >= 2
      /\ i # NoInput /\ i.stamp \in Nat /\ i.stamp # 0 /\ lastStamp \in Nat
  BY Windows, TemporalConstants DEF IInv, TypeOK, Inputs, NoInput
<1>4. /\ Len(log') \in Nat /\ 1 <= Len(log') /\ log'[Len(log')] = i
      /\ Len(log') <= WindowSize
  BY <1>1, LoggedEnd DEF IInv
<1>5. Continues(i) =>
         /\ candidate.code = i.code /\ Run(log, count, i.code)
         /\ Follows(i, log[Len(log)], i.code)
  <2> SUFFICES ASSUME Continues(i)
               PROVE  /\ candidate.code = i.code /\ Run(log, count, i.code)
                      /\ Follows(i, log[Len(log)], i.code)
    OBVIOUS
  <2>1. /\ candidate # NoInput /\ i.code = candidate.code
        /\ log[Len(log)] = candidate /\ lastStamp = candidate.stamp
        /\ Run(log, count, candidate.code)
    BY DEF Continues, IInv, CandidateIsRun
  <2>2. i.stamp > candidate.stamp
    BY <1>3, <2>1 DEF Continues, RolledBack, Evidence, Accepted, Repeated
  <2> QED  BY <2>1, <2>2 DEF Continues, Follows
<1>6. Run(log', count', i.code)
  <2>1. CASE Continues(i)
    BY <1>1, <1>2, <1>3, <1>5, <2>1, RunGrows DEF IInv
  <2>2. CASE ~Continues(i)
    <3>1. Run(log, 0, i.code)
      BY DEF Run, IInv, TypeOK
    <3> QED  BY <1>1, <1>2, <2>2, <3>1, RunGrows DEF IInv
  <2> QED  BY <2>1, <2>2
<1> HIDE DEF n
<1>7. /\ count' \in Nat /\ 1 <= count' /\ count' <= n
      /\ count' = n \/ count' = WindowSize
  BY <1>1, <1>3 DEF Capped
<1>8. count' <= Len(log')
  BY <1>6 DEF Run
<1>9. CandidateIsRun'
  BY <1>1, <1>3, <1>4, <1>6, <1>7, <1>8 DEF CandidateIsRun
<1>10. CountIsLongest'
  <2> SUFFICES ASSUME NEW code \in Codes, NEW k \in 1 .. Len(log'),
                      Run(log', k, code)
               PROVE  code = i.code /\ k <= count'
    BY <1>1, <1>3 DEF CountIsLongest
  <2>1. /\ Good(i, code)
        /\ k # 1 => /\ k - 1 \in 1 .. Len(log) /\ Run(log, k - 1, code)
                    /\ Follows(i, log[Len(log)], code)
    BY <1>1, RunShrinks DEF IInv
  <2>2. code = i.code /\ k \in Nat /\ k <= WindowSize
    BY <1>3, <1>4, <2>1 DEF Good
  <2>3. CASE k = 1
    BY <1>7, <2>2, <2>3
  <2>4. CASE k # 1
    <3>1. candidate # NoInput /\ candidate.code = code /\ k - 1 <= count
      BY <2>1, <2>4 DEF IInv, CountIsLongest
    <3>2. log[Len(log)] = candidate /\ lastStamp = candidate.stamp
      BY <3>1 DEF IInv, CandidateIsRun
    <3>3. candidate \in Inputs
      BY <3>1 DEF IInv, TypeOK
    <3>4. Continues(i)
      BY <1>3, <2>1, <2>2, <2>4, <3>1, <3>2, <3>3
      DEF Continues, Follows, RolledBack, Inputs
    <3> QED  BY <1>3, <1>7, <2>2, <3>1, <3>4 DEF n
  <2> QED  BY <2>3, <2>4
<1>11. Required(i.code) \in Nat /\ Required(i.code) <= WindowSize
  BY <1>1, Windows
<1>12. i.code # 0
  BY <1>1 DEF Codes, Clear, Level1, Level2
<1> QED  BY <1>1, <1>3, <1>7, <1>9, <1>10, <1>11, <1>12 DEF Enough

LEMMA TypeStep ==
    ASSUME TypeOK, NEW i \in Frames, Update(i)
    PROVE  TypeOK'
<1>1. i \in Inputs
  BY TemporalConstants
<1>a. i.stamp \in 0 .. MaxStamp
  BY <1>1, TemporalConstants DEF Inputs
<1>b. Logged(i) \in Seq(Inputs) /\ Len(Logged(i)) <= WindowSize
  BY <1>1, LoggedEnd
<1>c. WindowSize \in Nat
  BY Windows
<1>2. /\ i.stamp \in 0 .. MaxStamp
      /\ Logged(i) \in Seq(Inputs) /\ Len(Logged(i)) <= WindowSize
      /\ WindowSize \in Nat
  BY <1>a, <1>b, <1>c
<1>3. CASE InvalidRaw(i)
  BY <1>2, <1>3 DEF InvalidRaw, DropCandidate, TypeOK
<1>4. CASE AuthorityMismatch(i)
  BY <1>2, <1>4 DEF AuthorityMismatch, DropCandidate, TypeOK
<1>5. CASE RepeatedStamp(i)
  BY <1>2, <1>5 DEF RepeatedStamp, TypeOK
<1>6. CASE SparseHazard(i)
  BY <1>2, <1>6 DEF SparseHazard, DropCandidate, TypeOK
<1>7. CASE Evidence(i)
  <2>1. Capped(IF Continues(i) THEN count + 1 ELSE 1) \in 0 .. WindowSize
    BY <1>2, Windows DEF Capped, TypeOK
  <2> QED
    BY <1>1, <1>2, <1>7, <2>1 DEF Evidence, Accepted, RawValid, TypeOK
<1> QED  BY <1>3, <1>4, <1>5, <1>6, <1>7 DEF Update

LEMMA StepIInv ==
    ASSUME IInv, [Next]_vars
    PROVE  IInv'
<1> USE DEF IInv
<1>1. ASSUME NEW i \in Frames, Update(i) PROVE IInv'
  <2>0. i \in Inputs /\ TypeOK'
    BY <1>1, TypeStep, TemporalConstants
  <2>1. CASE InvalidRaw(i)
    <3>1. \A code \in Codes : ~Good(i, code)
      BY <2>1 DEF InvalidRaw, RawValid, Good
    <3> QED  BY <2>0, <2>1, <3>1, DroppedEndsRuns DEF InvalidRaw
  <2>2. CASE AuthorityMismatch(i)
    <3>1. \A code \in Codes : ~Good(i, code)
      BY <2>2 DEF AuthorityMismatch, AuthorityValid, Good
    <3> QED  BY <2>0, <2>2, <3>1, DroppedEndsRuns DEF AuthorityMismatch
  <2>3. CASE RepeatedStamp(i)
    <3>1. UNCHANGED <<lastStamp, candidate, count, log>> /\ decision' = 0
      BY <2>3 DEF RepeatedStamp
    <3>2. CandidateIsRun' /\ CountIsLongest' /\ PublishedIsBacked'
      BY <3>1 DEF CandidateIsRun, CountIsLongest, PublishedIsBacked
    <3> QED  BY <2>0, <3>2
  <2>4. CASE SparseHazard(i)
    <3>1. \A code \in Codes : ~Good(i, code)
      BY <2>4 DEF SparseHazard, Good
    <3> QED  BY <2>0, <2>4, <3>1, DroppedEndsRuns DEF SparseHazard
  <2>5. CASE Evidence(i)
    <3>1. /\ CandidateIsRun' /\ CountIsLongest' /\ candidate' = i
          /\ decision' # 0 =>
                decision' = i.code /\ Required(i.code) <= count'
      BY <2>0, <2>5, EvidenceExtends DEF Evidence
    <3>2. ASSUME decision' # 0 PROVE Backed(decision)'
      <4>1. i.code \in Codes /\ i # NoInput
        BY <2>0, <2>5 DEF Evidence, Accepted, RawValid, Inputs, NoInput
      <4>2. Run(log', count', i.code)
        BY <3>1, <4>1 DEF CandidateIsRun
      <4>3. Required(i.code) \in Nat /\ count' \in Nat /\ Len(log') \in Nat
        BY <2>0, <4>1, Windows DEF TypeOK
      <4>4. Run(log', Required(i.code), i.code)
        BY <3>1, <3>2, <4>2, <4>3 DEF Run
      <4>5. Backed(i.code)'
        BY <2>0, <4>1, <4>4, WindowIsRun DEF Backed, TypeOK
      <4> QED  BY <3>1, <3>2, <4>5
    <3> QED  BY <2>0, <3>1, <3>2 DEF PublishedIsBacked
  <2> QED  BY <1>1, <2>1, <2>2, <2>3, <2>4, <2>5 DEF Update
<1>2. CASE UNCHANGED vars
  BY <1>2
  DEF vars, TypeOK, CandidateIsRun, CountIsLongest, PublishedIsBacked, Backed
<1> QED  BY <1>1, <1>2 DEF Next
-----------------------------------------------------------------------------
(* The theorems.                                                           *)

LEMMA Invariance == Spec => []IInv
BY InitIInv, StepIInv, PTL DEF Spec

\* update() keeps every field well formed, the count of the candidate within
\* the window.
THEOREM TypeCorrect == Spec => []TypeOK
BY Invariance, PTL DEF IInv

\* A step that completes a window of evidence for a code reports that code.
LEMMA WindowIsReported ==
    ASSUME IInv, IInv', [Next]_vars
    PROVE  [\A code \in Codes :
               (log' # log /\ Backed(code)') => decision' = code]_vars
<1> SUFFICES ASSUME Next, NEW code \in Codes, log' # log, Backed(code)'
             PROVE  decision' = code
  OBVIOUS
<1>1. PICK i \in Frames : Update(i)
  BY DEF Next
<1>2. i \in Inputs
  BY TemporalConstants
<1>3. log' \in Seq(Inputs) /\ Required(code) \in Nat /\ Required(code) >= 2
  BY Windows DEF IInv, TypeOK
<1>4. Run(log', Required(code), code)
  BY <1>3, WindowIsRun DEF Backed
<1>5. Required(code) \in 1 .. Len(log')
  BY <1>3, <1>4 DEF Run
<1>6. candidate' # NoInput /\ candidate'.code = code /\ Required(code) <= count'
  BY <1>4, <1>5 DEF IInv, CountIsLongest
<1>7. Evidence(i)
  BY <1>1, <1>6
  DEF Update, InvalidRaw, AuthorityMismatch, RepeatedStamp, SparseHazard,
      DropCandidate
<1>8. candidate' = i
  BY <1>7 DEF Evidence
<1> QED  BY <1>2, <1>6, <1>7, <1>8, EvidenceExtends

\* A published 14, 17 or 18 is confirmed by the frames of the current window,
\* and a window that confirms a code is reported with its last frame.
THEOREM Published == Spec => PublishedIffBacked
<1>1. IInv => PublishedIsBacked
  BY DEF IInv
<1> QED
  BY Invariance, <1>1, WindowIsReported, PTL
  DEF Spec, PublishedIffBacked, BackedIsPublished

-----------------------------------------------------------------------------
(* ForbiddenZone: what a message takes away stays away until another one   *)
(* brings it back.                                                         *)

ClearedStaysAway ==
    cleared => ~display.valid /\ ~geometry.precise /\ ~cargo.precise

LEMMA ZoneInit == Z!Init => ClearedStaysAway
BY DEF Z!Init, ClearedStaysAway

\* The display takes a box only from precise geometry or under a message that
\* is precise.
LEMMA DisplayStaysAway ==
    ASSUME ClearedStaysAway, cleared PROVE ~Z!DisplayNext.valid
<1>1. ~display.valid /\ ~geometry.precise /\ ~cargo.precise
  BY DEF ClearedStaysAway
<1>2. Z!Holding = display
  BY <1>1 DEF Z!Holding
<1> QED
  BY <1>1, <1>2 DEF Z!DisplayNext

LEMMA ZoneStep == ClearedStaysAway /\ [Z!Next]_(Z!vars) => ClearedStaysAway'
<1> SUFFICES ASSUME ClearedStaysAway, [Z!Next]_(Z!vars)
             PROVE  ClearedStaysAway'
  OBVIOUS
<1>1. ASSUME NEW msg \in Messages, Z!Payload(msg) PROVE ClearedStaysAway'
  <2>1. CASE Z!PayloadInvalid(msg)
    BY <2>1 DEF ClearedStaysAway, Z!PayloadInvalid
  <2>2. CASE Z!PayloadImprecise(msg)
    BY <2>2 DEF ClearedStaysAway, Z!PayloadImprecise
  <2>3. CASE Z!PayloadPrecise(msg)
    BY <2>3 DEF ClearedStaysAway, Z!PayloadPrecise, Z!PreciseGeometry
  <2> QED  BY <1>1, <2>1, <2>2, <2>3 DEF Z!Payload
<1>2. CASE Z!Update
  <2>1. PICK d \in {Z!DisplayNext} :
          display' = [d EXCEPT !.age = Z!Capped(@, Hold + 1)]
    BY <1>2 DEF Z!Update
  <2>2. UNCHANGED <<cargo, geometry, cleared>>
    BY <1>2 DEF Z!Update
  <2>3. cleared => ~d.valid /\ ~display.valid
    BY <2>1, DisplayStaysAway DEF ClearedStaysAway
  <2>4. cleared => ~display'.valid
    BY <2>1, <2>3
  <2> QED  BY <2>2, <2>4 DEF ClearedStaysAway
<1>3. CASE Z!MarkerTimer
  BY <1>3 DEF ClearedStaysAway, Z!MarkerTimer
<1>4. CASE UNCHANGED Z!vars
  BY <1>4 DEF ClearedStaysAway, Z!vars
<1> QED  BY <1>1, <1>2, <1>3, <1>4 DEF Z!Next

\* A green box is only drawn for a box that was measured, and not after a
\* message that took it away, for every hold time and confirmation count
\* (payloadTrackCallback, update and the marker timer).
THEOREM GreenBoxBacked == Z!Spec => GreenBoxIsBacked
<1>1. ASSUME ClearedStaysAway, [Z!Next]_(Z!vars),
             out'.core # out.core, out'.core # Z!NoBox
      PROVE  out'.core.tall /\ ~cleared
  <2>1. CASE \E msg \in Messages : Z!Payload(msg)
    BY <1>1, <2>1 DEF Z!Payload, Z!PayloadInvalid, Z!PayloadImprecise,
         Z!PayloadPrecise
  <2>2. CASE Z!Update
    BY <1>1, <2>2, DisplayStaysAway DEF Z!Update, Z!CoreMarker
  <2>3. CASE Z!MarkerTimer
    BY <1>1, <2>3 DEF Z!MarkerTimer, Z!CoreMarker, ClearedStaysAway
  <2> QED  BY <1>1, <2>1, <2>2, <2>3 DEF Z!Next, Z!vars
<1>2. ClearedStaysAway /\ [Z!Next]_(Z!vars)
      => [out'.core # out.core /\ out'.core # Z!NoBox
            => out'.core.tall /\ ~cleared]_(Z!vars)
  BY <1>1
<1> QED  BY <1>2, ZoneInit, ZoneStep, PTL
         DEF Z!Spec, GreenBoxIsBacked, Z!GreenBoxIsBacked

-----------------------------------------------------------------------------
(* CargoSwing: the ages the alarms and the history of the run share.       *)

Ages == S!Off .. Cap

Members == {"known", "motion", "meas", "hist", "valid", "latched", "hold",
            "below", "settling", "settle", "sway", "skew", "pulled",
            "pullHold", "pullCand", "pullClear", "torsion", "twist",
            "twistClear", "twistAge"}

Monitor(s) ==
    /\ DOMAIN s = Members
    /\ s.meas \in Ages /\ s.hist \in Ages /\ s.hold \in Ages
    /\ s.pullClear \in Ages
    /\ s.known \in BOOLEAN /\ s.latched \in BOOLEAN /\ s.settling \in BOOLEAN
    /\ s.pulled \in BOOLEAN
    /\ ~(s.latched /\ s.settling)

\* A monitor that knows no anchor holds nothing of the load before.
UnknownIsEmpty ==
    ~swing.known => danger = S!Off /\ ~swing.pulled /\ swing.pullClear = S!Off

\* The hold of an alarm began with the immediate alarm or after it.
AlarmIsHeld ==
    danger # S!Off /\ danger < MinHold =>
        /\ swing.latched /\ swing.sway = "SWAY_ALARM"
        /\ swing.hold # S!Off /\ swing.hold <= danger

\* The timer of a release runs while measurements show the end of the alarm,
\* or a gap that it did not survive is still to be noticed.
ReleaseIsSeen ==
    /\ swing.pullClear # S!Off => swing.pulled
    /\ swing.hist # S!Off => swing.meas # S!Off
    /\ channel = "skew" /\ swing.pullClear # S!Off =>
          \/ swing.meas = S!Off
          \/ swing.meas > SwingGap
          \/ quiet # S!Off /\ swing.pullClear <= quiet

SwingIInv ==
    /\ Monitor(swing) /\ quiet \in Ages /\ danger \in Ages
    /\ channel \in DOMAIN SwingInputs
    /\ UnknownIsEmpty /\ AlarmIsHeld /\ ReleaseIsSeen

LEMMA OffIsAnAge == S!Off = -1 /\ S!Off \in Ages /\ 0 \in Ages
BY SwingAssumption DEF S!Off, Ages

LEMMA SwingInit == S!Init => SwingIInv
<1> SUFFICES ASSUME S!Init PROVE SwingIInv
  OBVIOUS
<1>1. /\ swing = S!Fresh /\ quiet = S!Off /\ danger = S!Off
      /\ channel \in DOMAIN SwingInputs
  BY DEF S!Init
<1>2. Monitor(swing)
  BY <1>1, OffIsAnAge DEF Monitor, Members, S!Fresh
<1>3. ~swing.known /\ ~swing.pulled /\ swing.pullClear = S!Off
      /\ swing.hist = S!Off
  BY <1>1 DEF S!Fresh
<1> QED
  BY <1>1, <1>2, <1>3, OffIsAnAge
     DEF SwingIInv, UnknownIsEmpty, AlarmIsHeld, ReleaseIsSeen

\* Ages keep their order.
LEMMA AgeEffect ==
    ASSUME NEW x \in Ages, NEW dt \in Nat
    PROVE  /\ S!Age(x, dt) \in Ages
           /\ S!Age(x, dt) = S!Off <=> x = S!Off
           /\ x <= S!Age(x, dt)
           /\ \A y \in Ages :
                 x # S!Off /\ x <= y => S!Age(x, dt) <= S!Age(y, dt)
           /\ x # S!Off /\ dt > SwingGap => S!Age(x, dt) > SwingGap
BY OffIsAnAge, SwingAssumption DEF Ages, S!Age, S!Off

LEMMA AgedEffect ==
    ASSUME NEW s, Monitor(s), NEW dt \in Nat
    PROVE  LET n == S!Aged(s, dt) IN
           /\ Monitor(n)
           /\ n.known = s.known /\ n.latched = s.latched /\ n.sway = s.sway
           /\ n.pulled = s.pulled
           /\ n.meas = S!Age(s.meas, dt) /\ n.hist = S!Age(s.hist, dt)
           /\ n.hold = S!Age(s.hold, dt)
           /\ n.pullClear = S!Age(s.pullClear, dt)
<1> DEFINE A(x) == S!Age(x, dt)
<1>1. \A x \in Ages : A(x) \in Ages
  BY AgeEffect
<1>2. S!Aged(s, dt) =
        [s EXCEPT !.meas = A(@), !.hist = A(@), !.hold = A(@),
                  !.below = A(@), !.settle = A(@), !.pullHold = A(@),
                  !.pullCand = A(@), !.pullClear = A(@),
                  !.twistClear = A(@), !.twistAge = A(@)]
  BY DEF S!Aged
<1> HIDE DEF A
<1> DEFINE n == S!Aged(s, dt)
<1>3. DOMAIN n = DOMAIN s
  BY <1>2
<1>4. /\ n.known = s.known /\ n.latched = s.latched /\ n.sway = s.sway
      /\ n.settling = s.settling /\ n.pulled = s.pulled
      /\ n.meas = A(s.meas) /\ n.hist = A(s.hist) /\ n.hold = A(s.hold)
      /\ n.pullClear = A(s.pullClear)
  BY <1>2
<1> HIDE DEF n
<1>5. Monitor(n)
  BY <1>1, <1>3, <1>4 DEF Monitor
<1> QED  BY <1>4, <1>5 DEF A, n

\* The measurement notices a gap: a history that survives was measured
\* within the gap.
LEMMA MeasuredEffect ==
    ASSUME NEW s, Monitor(s), NEW i \in SwingFrames,
           s.hist # S!Off => s.meas # S!Off
    PROVE  LET n == S!Measured(S!AfterGap(
                        S!Motion([s EXCEPT !.known = TRUE], i)))
           IN /\ Monitor(n) /\ n.known /\ n.meas = 0
              /\ n.hold = s.hold /\ n.latched = s.latched /\ n.sway = s.sway
              /\ n.pulled = s.pulled /\ n.pullClear = s.pullClear
              /\ n.hist # S!Off
              /\ n.hist > 0 => s.meas # S!Off /\ s.meas <= SwingGap
<1> DEFINE k == [s EXCEPT !.known = TRUE]
           m == S!Motion(k, i)
           g == S!AfterGap(m)
           n == S!Measured(g)
<1>1. /\ Monitor(k) /\ k.known /\ k.hold = s.hold
      /\ k.latched = s.latched /\ k.sway = s.sway /\ k.pulled = s.pulled
      /\ k.pullClear = s.pullClear /\ k.hist = s.hist /\ k.meas = s.meas
  BY DEF Monitor
<1> HIDE DEF k
<1>2. /\ Monitor(m) /\ m.known /\ m.hold = s.hold
      /\ m.latched = s.latched /\ m.sway = s.sway /\ m.pulled = s.pulled
      /\ m.pullClear = s.pullClear
      /\ \/ m.hist = s.hist /\ m.meas = s.meas
         \/ m.hist = S!Off /\ m.meas = S!Off
  <2>1. CASE i.motion = k.motion
    BY <1>1, <2>1 DEF S!Motion
  <2>2. CASE i.motion # k.motion /\ i.motion = "STATIONARY"
    <3>1. m = [k EXCEPT !.motion = i.motion, !.hist = S!Off, !.meas = S!Off]
      BY <2>2 DEF S!Motion
    <3>2. /\ DOMAIN m = DOMAIN k /\ m.known = k.known /\ m.latched = k.latched
          /\ m.settling = k.settling /\ m.sway = k.sway /\ m.hold = k.hold
          /\ m.pulled = k.pulled /\ m.pullClear = k.pullClear
          /\ m.hist = S!Off /\ m.meas = S!Off
      BY <3>1
    <3> QED  BY <1>1, <3>2, OffIsAnAge DEF Monitor
  <2>3. CASE i.motion # k.motion /\ i.motion # "STATIONARY"
    <3>1. m = [k EXCEPT !.motion = i.motion]
      BY <2>3 DEF S!Motion
    <3>2. /\ DOMAIN m = DOMAIN k /\ m.known = k.known /\ m.latched = k.latched
          /\ m.settling = k.settling /\ m.sway = k.sway /\ m.hold = k.hold
          /\ m.pulled = k.pulled /\ m.pullClear = k.pullClear
          /\ m.hist = k.hist /\ m.meas = k.meas
      BY <3>1
    <3> QED  BY <1>1, <3>2 DEF Monitor
  <2> QED  BY <2>1, <2>2, <2>3
<1> HIDE DEF m
<1>3. /\ Monitor(g) /\ g.known /\ g.hold = s.hold
      /\ g.latched = s.latched /\ g.sway = s.sway /\ g.pulled = s.pulled
      /\ g.pullClear = s.pullClear
      /\ \/ g.hist = S!Off
         \/ g.hist = s.hist /\ (s.meas = S!Off \/ ~(s.meas > SwingGap))
  <2>1. CASE m.meas # S!Off /\ m.meas > SwingGap
    <3>1. g = [m EXCEPT !.hist = S!Off, !.below = S!Off, !.pullCand = S!Off]
      BY <2>1 DEF S!AfterGap
    <3>2. /\ DOMAIN g = DOMAIN m /\ g.known = m.known /\ g.latched = m.latched
          /\ g.settling = m.settling /\ g.sway = m.sway /\ g.hold = m.hold
          /\ g.pulled = m.pulled /\ g.pullClear = m.pullClear
          /\ g.hist = S!Off /\ g.meas = m.meas
      BY <3>1
    <3> QED  BY <1>2, <3>2, OffIsAnAge DEF Monitor
  <2>2. CASE ~(m.meas # S!Off /\ m.meas > SwingGap)
    BY <1>2, <2>2 DEF S!AfterGap
  <2> QED  BY <2>1, <2>2
<1> HIDE DEF g
<1>4. /\ Monitor(n) /\ n.known /\ n.meas = 0 /\ n.hold = s.hold
      /\ n.latched = s.latched /\ n.sway = s.sway /\ n.pulled = s.pulled
      /\ n.pullClear = s.pullClear
      /\ n.hist = IF g.hist = S!Off THEN 0 ELSE g.hist
  <2>1. n = [g EXCEPT !.meas = 0, !.hist = IF @ = S!Off THEN 0 ELSE @,
                      !.valid = TRUE]
    BY DEF S!Measured
  <2>2. /\ DOMAIN n = DOMAIN g /\ n.known = g.known /\ n.latched = g.latched
        /\ n.settling = g.settling /\ n.sway = g.sway /\ n.hold = g.hold
        /\ n.pulled = g.pulled /\ n.pullClear = g.pullClear
        /\ n.hist = (IF g.hist = S!Off THEN 0 ELSE g.hist) /\ n.meas = 0
    BY <2>1
  <2> HIDE DEF n
  <2> QED  BY <1>3, <2>2, OffIsAnAge DEF Monitor
<1>5. n.hist # S!Off
  BY <1>4, OffIsAnAge
<1>6. n.hist > 0 => s.meas # S!Off /\ s.meas <= SwingGap
  <2>1. s.meas \in Ages /\ s.hist \in Ages
    BY DEF Monitor
  <2> QED  BY <1>3, <1>4, <2>1, OffIsAnAge, SwingAssumption DEF Ages
<1> QED  BY <1>4, <1>5, <1>6 DEF n, g, m, k

\* The sway alarm leaves the pull alone and holds a young alarm.
LEMMA SwayEffect ==
    ASSUME NEW s, Monitor(s), NEW i \in SwingFrames
    PROVE  LET n == S!Sway(s, i) IN
           /\ Monitor(n)
           /\ n.known = s.known /\ n.meas = s.meas /\ n.hist = s.hist
           /\ n.pulled = s.pulled /\ n.pullClear = s.pullClear
           /\ i.auth /\ i.off = "immediate" =>
                 n.latched /\ n.hold = 0 /\ n.sway = "SWAY_ALARM"
           /\ s.latched /\ s.hold # S!Off /\ s.hold < MinHold =>
                 /\ n.latched /\ n.sway = "SWAY_ALARM"
                 /\ n.hold = s.hold \/ n.hold = 0
<1> DEFINE m == S!Immediate(s, i)
<1>1. /\ Monitor(m)
      /\ m.known = s.known /\ m.meas = s.meas /\ m.hist = s.hist
      /\ m.pulled = s.pulled /\ m.pullClear = s.pullClear
      /\ i.auth /\ i.off = "immediate" => m.latched /\ m.hold = 0
      /\ ~(i.auth /\ i.off = "immediate") => m = s
  <2>1. CASE i.auth /\ i.off = "immediate"
    <3>1. m = [s EXCEPT !.latched = TRUE, !.settling = FALSE, !.hold = 0,
                        !.below = S!Off]
      BY <2>1 DEF S!Immediate
    <3>2. Monitor(m)
      BY <3>1, OffIsAnAge DEF Monitor
    <3> QED  BY <2>1, <3>1, <3>2 DEF Monitor
  <2>2. CASE ~(i.auth /\ i.off = "immediate")
    BY <2>2 DEF S!Immediate
  <2> QED  BY <2>1, <2>2
<1>2. /\ m.latched => S!Sway(s, i) = S!Latched(m, i)
      /\ ~m.latched /\ m.settling => S!Sway(s, i) = S!Settling(m, i)
      /\ ~m.latched /\ ~m.settling => S!Sway(s, i) = S!Graded(m, i)
  <2>1. /\ m.latched \in BOOLEAN /\ m.settling \in BOOLEAN
        /\ ~(m.latched /\ m.settling)
    BY <1>1 DEF Monitor
  <2> QED  BY <2>1 DEF S!Sway
<1> HIDE DEF m
<1>3. CASE m.latched
  <2> DEFINE n == S!Latched(m, i)
  <2>1. /\ Monitor(n)
        /\ n.known = m.known /\ n.meas = m.meas /\ n.hist = m.hist
        /\ n.pulled = m.pulled /\ n.pullClear = m.pullClear /\ n.hold = m.hold
    <3> DEFINE below == IF m.below = S!Off THEN 0 ELSE m.below
    <3>1. \/ n = [m EXCEPT !.latched = FALSE, !.settling = TRUE, !.settle = 0,
                           !.below = below, !.sway = "SETTLING"]
          \/ n = [m EXCEPT !.below = below, !.sway = "SWAY_ALARM"]
          \/ n = [m EXCEPT !.below = S!Off, !.sway = "SWAY_ALARM"]
      BY DEF S!Latched
    <3> HIDE DEF below, n
    <3> DEFINE kept ==
            /\ DOMAIN n = DOMAIN m
            /\ n.known = m.known /\ n.meas = m.meas /\ n.hist = m.hist
            /\ n.pulled = m.pulled /\ n.pullClear = m.pullClear
            /\ n.hold = m.hold
            /\ \/ n.latched = FALSE /\ n.settling = TRUE
               \/ n.latched = m.latched /\ n.settling = m.settling
    <3>2. m.latched = TRUE /\ m.settling = FALSE
      BY <1>1, <1>3 DEF Monitor
    <3>3. {"latched", "settling", "known", "meas", "hist", "pulled",
           "pullClear", "hold"} \subseteq DOMAIN m
      BY <1>1 DEF Monitor, Members
    <3>7. kept
      <4>1. CASE n = [m EXCEPT !.latched = FALSE, !.settling = TRUE,
                               !.settle = 0, !.below = below,
                               !.sway = "SETTLING"]
        BY <3>3, <4>1
      <4>2. CASE n = [m EXCEPT !.below = below, !.sway = "SWAY_ALARM"]
        BY <3>3, <4>2
      <4>3. CASE n = [m EXCEPT !.below = S!Off, !.sway = "SWAY_ALARM"]
        BY <3>3, <4>3
      <4> QED  BY <3>1, <4>1, <4>2, <4>3
    <3> QED  BY <1>1, <3>2, <3>7 DEF Monitor
  <2>2. ~(S!Past(m.hold, MinHold) /\ S!Calm(i)) =>
           n.latched /\ n.sway = "SWAY_ALARM"
    BY <1>1, <1>3 DEF S!Latched, Monitor
  <2>3. i.off = "immediate" => ~S!Calm(i)
    BY DEF S!Calm
  <2>4. m.hold < MinHold => ~S!Past(m.hold, MinHold)
    <3>1. m.hold \in Int /\ MinHold \in Int
      BY <1>1, OffIsAnAge, SwingAssumption DEF Monitor, Ages
    <3> QED  BY <3>1 DEF S!Past
  <2> HIDE DEF n
  <2> QED  BY <1>1, <1>2, <1>3, <2>1, <2>2, <2>3, <2>4 DEF n
<1>4. CASE ~m.latched /\ m.settling
  <2> DEFINE n == S!Settling(m, i)
  <2>1. \/ n = [m EXCEPT !.latched = TRUE, !.settling = FALSE, !.hold = 0,
                         !.sway = "SWAY_ALARM"]
        \/ n = [m EXCEPT !.settle = 0, !.sway = "SETTLING"]
        \/ n = [m EXCEPT !.settling = FALSE, !.sway = "NORMAL"]
        \/ n = [m EXCEPT !.sway = "SETTLING"]
    BY <1>4 DEF S!Settling
  <2> HIDE DEF n
  <2> DEFINE kept ==
          /\ DOMAIN n = DOMAIN m
          /\ n.known = m.known /\ n.meas = m.meas /\ n.hist = m.hist
          /\ n.pulled = m.pulled /\ n.pullClear = m.pullClear
          /\ n.hold = m.hold \/ n.hold = 0
          /\ \/ n.latched = TRUE /\ n.settling = FALSE
             \/ n.latched = m.latched /\ n.settling = FALSE
             \/ n.latched = m.latched /\ n.settling = m.settling
  <2>0. {"latched", "settling", "known", "meas", "hist", "pulled",
         "pullClear", "hold"} \subseteq DOMAIN m
    BY <1>1 DEF Monitor, Members
  <2>2. kept
    <3>1. CASE n = [m EXCEPT !.latched = TRUE, !.settling = FALSE,
                             !.hold = 0, !.sway = "SWAY_ALARM"]
      BY <2>0, <3>1
    <3>2. CASE n = [m EXCEPT !.settle = 0, !.sway = "SETTLING"]
      BY <2>0, <3>2
    <3>3. CASE n = [m EXCEPT !.settling = FALSE, !.sway = "NORMAL"]
      BY <2>0, <3>3
    <3>4. CASE n = [m EXCEPT !.sway = "SETTLING"]
      BY <2>0, <3>4
    <3> QED  BY <2>1, <3>1, <3>2, <3>3, <3>4
  <2>3. Monitor(n)
    BY <1>1, <2>2, OffIsAnAge DEF Monitor
  <2> QED  BY <1>1, <1>2, <1>4, <2>2, <2>3 DEF n
<1>5. CASE ~m.latched /\ ~m.settling
  <2>1. LET n == S!Graded(m, i) IN
        /\ Monitor(n)
        /\ n.known = m.known /\ n.meas = m.meas /\ n.hist = m.hist
        /\ n.pulled = m.pulled /\ n.pullClear = m.pullClear
    BY <1>1, OffIsAnAge DEF S!Graded, Monitor
  <2> QED  BY <1>1, <1>2, <1>5, <2>1
<1> QED  BY <1>3, <1>4, <1>5

\* The pull leaves the sway alone; its release is timed by measurements that
\* show the load hanging freely.
LEMMA SkewPullEffect ==
    ASSUME NEW s, Monitor(s), NEW i \in SwingFrames,
           s.pullClear # S!Off => s.pulled
    PROVE  LET n == S!SkewPull(s, i) IN
           /\ Monitor(n)
           /\ n.known = s.known /\ n.meas = s.meas /\ n.hist = s.hist
           /\ n.latched = s.latched /\ n.hold = s.hold /\ n.sway = s.sway
           /\ n.pullClear # S!Off =>
                 /\ n.pulled /\ s.pulled /\ S!PullFree(s, i)
                 /\ n.pullClear = 0 \/ n.pullClear = s.pullClear
           /\ s.pulled /\ ~n.pulled =>
                 /\ S!PullFree(s, i)
                 /\ EndConfirm <= 0 \/ (/\ s.pullClear # S!Off
                                        /\ s.pullClear >= EndConfirm)
<1> DEFINE p == S!Candidate(s, i)
           alarm == p.hist >= MinHistory /\ S!Past(p.pullCand, SkewConfirm)
           free == S!Past(p.pullHold, MinHold) /\ S!PullFree(p, i)
           clear == IF free
                    THEN IF p.pullClear = S!Off THEN 0 ELSE p.pullClear
                    ELSE S!Off
           n == S!SkewPull(s, i)
<1>1. /\ Monitor(p)
      /\ p.known = s.known /\ p.meas = s.meas /\ p.hist = s.hist
      /\ p.latched = s.latched /\ p.hold = s.hold /\ p.sway = s.sway
      /\ p.pulled = s.pulled /\ p.pullClear = s.pullClear
  BY OffIsAnAge DEF S!Candidate, Monitor
<1>2. S!PullFree(p, i) <=> S!PullFree(s, i)
  BY <1>1 DEF S!PullFree
<1>3. clear \in Ages
  BY <1>1, OffIsAnAge DEF Monitor
<1>5. /\ alarm => n = [p EXCEPT !.skew = "SKEW_PULL_ALARM", !.pulled = TRUE,
                          !.pullClear = S!Off,
                          !.pullHold = IF p.pulled THEN @ ELSE 0]
      /\ ~alarm /\ p.pulled /\ S!Past(clear, EndConfirm) =>
            n = [p EXCEPT !.pulled = FALSE, !.pullHold = S!Off,
                          !.pullClear = S!Off, !.skew = S!Suspected(p, i)]
      /\ ~alarm /\ p.pulled /\ ~S!Past(clear, EndConfirm) =>
            n = [p EXCEPT !.pullClear = clear, !.skew = "SKEW_PULL_ALARM"]
      /\ ~alarm /\ ~p.pulled => n = [p EXCEPT !.skew = S!Suspected(p, i)]
  BY DEF S!SkewPull
<1> HIDE DEF p, n, alarm, free, clear
<1> DEFINE kept ==
        /\ DOMAIN n = DOMAIN p
        /\ n.known = p.known /\ n.meas = p.meas /\ n.hist = p.hist
        /\ n.latched = p.latched /\ n.hold = p.hold /\ n.sway = p.sway
        /\ n.settling = p.settling
        /\ \/ n.pulled = TRUE /\ n.pullClear = S!Off
           \/ /\ n.pulled = FALSE /\ n.pullClear = S!Off
              /\ p.pulled /\ S!Past(clear, EndConfirm)
           \/ n.pulled = p.pulled /\ p.pulled /\ n.pullClear = clear
           \/ n.pulled = p.pulled /\ ~p.pulled /\ n.pullClear = p.pullClear
<1>6. kept
  <2>1. {"latched", "settling", "known", "meas", "hist", "pulled", "sway",
         "pullClear", "hold"} \subseteq DOMAIN p
    BY <1>1 DEF Monitor, Members
  <2>2. CASE alarm
    <3>1. n = [p EXCEPT !.skew = "SKEW_PULL_ALARM", !.pulled = TRUE,
                        !.pullClear = S!Off,
                        !.pullHold = IF p.pulled THEN @ ELSE 0]
      BY <1>5, <2>2
    <3> QED  BY <2>1, <3>1
  <2>3. CASE ~alarm /\ p.pulled /\ S!Past(clear, EndConfirm)
    <3>1. n = [p EXCEPT !.pulled = FALSE, !.pullHold = S!Off,
                        !.pullClear = S!Off, !.skew = S!Suspected(p, i)]
      BY <1>5, <2>3
    <3> QED  BY <2>1, <2>3, <3>1
  <2>4. CASE ~alarm /\ p.pulled /\ ~S!Past(clear, EndConfirm)
    <3>1. n = [p EXCEPT !.pullClear = clear, !.skew = "SKEW_PULL_ALARM"]
      BY <1>5, <2>4
    <3> QED  BY <2>1, <2>4, <3>1
  <2>5. CASE ~alarm /\ ~p.pulled
    <3>1. n = [p EXCEPT !.skew = S!Suspected(p, i)]
      BY <1>5, <2>5
    <3> QED  BY <2>1, <2>5, <3>1
  <2> QED  BY <2>2, <2>3, <2>4, <2>5
<1>7. Monitor(n)
  BY <1>1, <1>3, <1>6, OffIsAnAge DEF Monitor
<1>8. clear # S!Off =>
          S!PullFree(s, i) /\ (clear = 0 \/ clear = s.pullClear)
  BY <1>1, <1>2 DEF clear, free
<1>9. S!Past(clear, EndConfirm) =>
          /\ S!PullFree(s, i)
          /\ EndConfirm <= 0 \/ (/\ s.pullClear # S!Off
                                 /\ s.pullClear >= EndConfirm)
  BY <1>8 DEF S!Past
<1>10. s.pulled \in BOOLEAN
  BY DEF Monitor
<1> QED  BY <1>1, <1>6, <1>7, <1>8, <1>9, <1>10 DEF n

\* The torsion leaves everything else alone.
LEMMA TorsionEffect ==
    ASSUME NEW s, Monitor(s), NEW i \in SwingFrames
    PROVE  LET n == S!Torsion(s, i) IN
           /\ Monitor(n)
           /\ n.known = s.known /\ n.meas = s.meas /\ n.hist = s.hist
           /\ n.latched = s.latched /\ n.hold = s.hold /\ n.sway = s.sway
           /\ n.pulled = s.pulled /\ n.pullClear = s.pullClear
<1> DEFINE Kept(x, y) ==
        /\ DOMAIN x = DOMAIN y
        /\ x.known = y.known /\ x.meas = y.meas /\ x.hist = y.hist
        /\ x.latched = y.latched /\ x.hold = y.hold /\ x.sway = y.sway
        /\ x.settling = y.settling
        /\ x.pulled = y.pulled /\ x.pullClear = y.pullClear
    n == S!Torsion(s, i)
    r == [s EXCEPT !.twistAge = 0]
    l == S!Latch(r, i)
    e == S!Release(l, i)
<1>1. Kept(r, s)
  OBVIOUS
<1>2. Kept(l, r)
  <2> HIDE DEF r
  <2>1. \/ l = [r EXCEPT !.twist = "TORSION_ALARM", !.twistClear = S!Off]
        \/ l = [r EXCEPT !.twist = "TORSION_WARNING", !.twistClear = S!Off]
        \/ l = r
    BY DEF S!Latch
  <2> HIDE DEF l
  <2>2. CASE l = [r EXCEPT !.twist = "TORSION_ALARM", !.twistClear = S!Off]
    BY <2>2
  <2>3. CASE l = [r EXCEPT !.twist = "TORSION_WARNING", !.twistClear = S!Off]
    BY <2>3
  <2> QED  BY <2>1, <2>2, <2>3
<1>3. Kept(e, l)
  <2> HIDE DEF l
  <2> DEFINE clear == IF i.yaw # "small" THEN S!Off
                      ELSE IF l.twistClear = S!Off THEN 0 ELSE l.twistClear
  <2>1. \/ e = [l EXCEPT !.twist = "NOT_EVALUATED", !.twistClear = S!Off]
        \/ e = [l EXCEPT !.twistClear = clear]
        \/ e = l
    BY DEF S!Release
  <2> HIDE DEF e, clear
  <2>2. CASE e = [l EXCEPT !.twist = "NOT_EVALUATED", !.twistClear = S!Off]
    BY <2>2
  <2>3. CASE e = [l EXCEPT !.twistClear = clear]
    BY <2>3
  <2> QED  BY <2>1, <2>2, <2>3
<1>4. PICK x : n = [e EXCEPT !.torsion = x] \/ n = [s EXCEPT !.torsion = x]
  BY Zenon DEF S!Torsion
<1> HIDE DEF r, l, e, n
<1>5. Kept(n, s)
  <2>1. Kept(e, s)
    BY <1>1, <1>2, <1>3
  <2>2. CASE n = [e EXCEPT !.torsion = x]
    <3>1. Kept(n, e)
      BY <2>2
    <3> QED  BY <2>1, <3>1
  <2>3. CASE n = [s EXCEPT !.torsion = x]
    BY <2>3
  <2> QED  BY <1>4, <2>2, <2>3
<1> QED  BY <1>5 DEF Monitor, n

\* A frame that brings no measurement holds what the alarms rest on.
Holds(n, s) ==
    /\ Monitor(n) /\ (n.known \/ ~s.known)
    /\ n.latched = s.latched /\ n.sway = s.sway /\ n.hold = s.hold
    /\ n.pulled = s.pulled
    /\ n.pullClear = S!Off \/ n.pullClear = s.pullClear
    /\ n.hist # S!Off => n.meas # S!Off
    /\ n.pullClear # S!Off => n.meas = S!Off \/ n.meas = s.meas

LEMMA StaleHolds ==
    ASSUME NEW s, Monitor(s), s.hist # S!Off => s.meas # S!Off
    PROVE  Holds([s EXCEPT !.valid = FALSE], s)
<1> DEFINE n == [s EXCEPT !.valid = FALSE]
<1>1. /\ DOMAIN n = DOMAIN s /\ n.known = s.known /\ n.latched = s.latched
      /\ n.settling = s.settling /\ n.sway = s.sway /\ n.hold = s.hold
      /\ n.pulled = s.pulled /\ n.pullClear = s.pullClear
      /\ n.hist = s.hist /\ n.meas = s.meas
  OBVIOUS
<1> HIDE DEF n
<1> QED  BY <1>1 DEF Holds, Monitor, n

LEMMA SegmentHolds ==
    ASSUME NEW s, Monitor(s)
    PROVE  Holds(S!NewSegment(s), s)
<1> DEFINE n == S!NewSegment(s)
<1>1. /\ DOMAIN n = DOMAIN s /\ n.known = s.known /\ n.latched = s.latched
      /\ n.settling = s.settling /\ n.sway = s.sway /\ n.hold = s.hold
      /\ n.pulled = s.pulled /\ n.pullClear = S!Off
      /\ n.hist = S!Off /\ n.meas = 0
  <2>1. {"known", "latched", "settling", "sway", "hold", "pulled",
         "pullClear", "hist", "meas"} \subseteq DOMAIN s
    BY DEF Monitor, Members
  <2> QED  BY <2>1 DEF S!NewSegment
<1> HIDE DEF n
<1> QED  BY <1>1, OffIsAnAge DEF Holds, Monitor, n

LEMMA UnmeasuredHolds ==
    ASSUME NEW s, Monitor(s), NEW i \in SwingFrames,
           s.hist # S!Off => s.meas # S!Off
    PROVE  LET m == S!Motion([s EXCEPT !.known = TRUE], i)
           IN  Holds(S!Held(m), s) /\ Holds([m EXCEPT !.valid = FALSE], s)
<1> DEFINE k == [s EXCEPT !.known = TRUE]
           m == S!Motion(k, i)
<1>1. /\ Monitor(k) /\ k.known /\ k.hold = s.hold
      /\ k.latched = s.latched /\ k.sway = s.sway /\ k.pulled = s.pulled
      /\ k.pullClear = s.pullClear /\ k.hist = s.hist /\ k.meas = s.meas
  BY DEF Monitor
<1> HIDE DEF k
<1> DEFINE kept ==
        /\ DOMAIN m = DOMAIN k /\ m.known = k.known /\ m.latched = k.latched
        /\ m.settling = k.settling /\ m.sway = k.sway /\ m.hold = k.hold
        /\ m.pulled = k.pulled /\ m.pullClear = k.pullClear
        /\ \/ m.hist = k.hist /\ m.meas = k.meas
           \/ m.hist = S!Off /\ m.meas = S!Off
<1>2. kept
  <2>1. {"known", "latched", "settling", "sway", "hold", "pulled",
         "pullClear", "hist", "meas"} \subseteq DOMAIN k
    BY <1>1 DEF Monitor, Members
  <2>2. CASE i.motion = k.motion
    BY <2>2 DEF S!Motion
  <2>3. CASE i.motion # k.motion /\ i.motion = "STATIONARY"
    <3>1. m = [k EXCEPT !.motion = i.motion, !.hist = S!Off, !.meas = S!Off]
      BY <2>3 DEF S!Motion
    <3> QED  BY <2>1, <3>1
  <2>4. CASE i.motion # k.motion /\ i.motion # "STATIONARY"
    <3>1. m = [k EXCEPT !.motion = i.motion]
      BY <2>4 DEF S!Motion
    <3> QED  BY <2>1, <3>1
  <2> QED  BY <2>2, <2>3, <2>4
<1> HIDE DEF m
<1>3. ASSUME NEW x
      PROVE  Holds([m EXCEPT !.valid = x], s)
  <2> DEFINE n == [m EXCEPT !.valid = x]
  <2>1. /\ DOMAIN n = DOMAIN m /\ n.known = m.known /\ n.latched = m.latched
        /\ n.settling = m.settling /\ n.sway = m.sway /\ n.hold = m.hold
        /\ n.pulled = m.pulled /\ n.pullClear = m.pullClear
        /\ n.hist = m.hist /\ n.meas = m.meas
    OBVIOUS
  <2> HIDE DEF n
  <2> QED  BY <1>1, <1>2, <2>1, OffIsAnAge DEF Holds, Monitor, n
<1>4. \E x : S!Held(m) = [m EXCEPT !.valid = x]
  BY DEF S!Held
<1> QED  BY <1>3, <1>4 DEF k, m

LEMMA FreshMonitor ==
    ASSUME NEW n, n = S!Fresh \/ n = [S!Fresh EXCEPT !.known = TRUE]
    PROVE  /\ Monitor(n) /\ ~n.pulled /\ n.pullClear = S!Off
           /\ n.hist = S!Off /\ n.valid = FALSE
<1>1. CASE n = S!Fresh
  BY <1>1, OffIsAnAge DEF Monitor, Members, S!Fresh
<1>2. CASE n = [S!Fresh EXCEPT !.known = TRUE]
  <2> DEFINE f == S!Fresh
  <2>1. /\ Monitor(f) /\ ~f.pulled /\ f.pullClear = S!Off
        /\ f.hist = S!Off /\ f.valid = FALSE
    BY OffIsAnAge DEF Monitor, Members, S!Fresh
  <2> HIDE DEF f
  <2> QED  BY <1>2, <2>1 DEF Monitor, f
<1> QED  BY <1>1, <1>2

\* What a release of the pull that is published rests on.
ReleaseIsObserved ==
    channel = "skew" /\ swing.pulled /\ ~swing'.pulled /\ swing'.valid
        => quiet' >= EndConfirm

LEMMA SwingStep ==
    ASSUME SwingIInv, NEW i \in SwingFrames, S!Frame(i)
    PROVE  SwingIInv' /\ ReleaseIsObserved
<1> DEFINE s == S!Aged(swing, i.dt)
           n == S!Update(s, i)
<1>1. /\ swing' = n /\ channel' = channel
      /\ quiet' = IF ~S!Usable(i)
                  THEN (IF i.dt > SwingGap THEN S!Off ELSE S!Age(quiet, i.dt))
                  ELSE IF ~S!Shows(i) THEN S!Off
                  ELSE IF quiet = S!Off \/ s.meas = S!Off \/ s.meas > SwingGap
                  THEN 0 ELSE S!Age(quiet, i.dt)
      /\ danger' = IF ~i.loaded \/ (i.anchor = "changed" /\ swing.known)
                   THEN S!Off
                   ELSE IF S!Usable(i) /\ i.auth /\ i.off = "immediate" THEN 0
                   ELSE S!Age(danger, i.dt)
  BY DEF S!Frame
<1>2. /\ i.dt \in Nat /\ i.loaded \in BOOLEAN /\ i.segment \in BOOLEAN
      /\ i.auth \in BOOLEAN
      /\ i.anchor \in {"same", "stale", "changed"}
      /\ i.seen \in {"good", "poor", "none"}
  BY DEF SwingFrames
<1>3. /\ Monitor(swing) /\ quiet \in Ages /\ danger \in Ages
      /\ channel \in DOMAIN SwingInputs
      /\ UnknownIsEmpty /\ AlarmIsHeld /\ ReleaseIsSeen
  BY DEF SwingIInv
<1>4. /\ swing.known \in BOOLEAN /\ swing.pulled \in BOOLEAN
      /\ swing.meas \in Ages /\ swing.hist \in Ages /\ swing.hold \in Ages
      /\ swing.pullClear \in Ages
  BY <1>3 DEF Monitor
<1>5. /\ Monitor(s)
      /\ s.known = swing.known /\ s.latched = swing.latched
      /\ s.sway = swing.sway /\ s.pulled = swing.pulled
      /\ s.meas = S!Age(swing.meas, i.dt)
      /\ s.hist = S!Age(swing.hist, i.dt)
      /\ s.hold = S!Age(swing.hold, i.dt)
      /\ s.pullClear = S!Age(swing.pullClear, i.dt)
  BY <1>2, <1>3, AgedEffect
<1>6. /\ s.hist # S!Off => s.meas # S!Off
      /\ s.pullClear # S!Off => s.pulled
      /\ ~s.known => ~s.pulled /\ s.pullClear = S!Off
  BY <1>2, <1>3, <1>4, <1>5, AgeEffect DEF ReleaseIsSeen, UnknownIsEmpty
<1>7. S!Age(quiet, i.dt) \in Ages /\ S!Age(danger, i.dt) \in Ages
  BY <1>2, <1>3, AgeEffect
<1>8. quiet' \in Ages /\ danger' \in Ages
  BY <1>1, <1>7, OffIsAnAge
\* A young alarm is still latched when time has passed.
<1>9. ASSUME danger' = S!Age(danger, i.dt), danger' # S!Off,
             danger' < MinHold
      PROVE  /\ s.latched /\ s.sway = "SWAY_ALARM"
             /\ s.hold # S!Off /\ s.hold <= danger' /\ s.hold < MinHold
  <2>1. /\ danger # S!Off /\ danger <= danger'
    BY <1>2, <1>3, <1>9, AgeEffect
  <2>2. danger < MinHold
    BY <1>3, <1>8, <1>9, <2>1, SwingAssumption DEF Ages, S!Off
  <2>3. /\ swing.latched /\ swing.sway = "SWAY_ALARM"
        /\ swing.hold # S!Off /\ swing.hold <= danger
    BY <1>3, <2>1, <2>2 DEF AlarmIsHeld
  <2>4. s.hold # S!Off /\ s.hold <= danger'
    BY <1>2, <1>3, <1>4, <1>5, <1>9, <2>3, AgeEffect
  <2>5. s.hold \in Ages
    BY <1>5 DEF Monitor
  <2>6. s.hold < MinHold
    BY <1>8, <1>9, <2>4, <2>5, SwingAssumption DEF Ages, S!Off
  <2> QED  BY <1>5, <2>3, <2>4, <2>6
\* A measured release that ran stays as long as its measurements.
<1>10. ASSUME channel = "skew", swing.pullClear # S!Off
       PROVE  \/ s.meas = S!Off
              \/ s.meas > SwingGap
              \/ /\ quiet # S!Off
                 /\ s.pullClear <= S!Age(quiet, i.dt)
                 /\ i.dt <= SwingGap
  <2>1. CASE swing.meas = S!Off
    BY <1>2, <1>4, <1>5, <2>1, AgeEffect
  <2>2. CASE swing.meas # S!Off /\ swing.meas > SwingGap
    <3>1. swing.meas <= s.meas /\ s.meas \in Ages
      BY <1>2, <1>4, <1>5, AgeEffect
    <3> QED  BY <1>4, <2>2, <3>1, SwingAssumption DEF Ages, S!Off
  <2>3. CASE swing.meas # S!Off /\ ~(swing.meas > SwingGap)
    <3>1. quiet # S!Off /\ swing.pullClear <= quiet
      BY <1>3, <1>10, <2>3 DEF ReleaseIsSeen
    <3>2. s.pullClear <= S!Age(quiet, i.dt)
      BY <1>2, <1>3, <1>4, <1>5, <1>10, <3>1, AgeEffect
    <3>3. i.dt > SwingGap => s.meas > SwingGap
      BY <1>2, <1>4, <1>5, <2>3, AgeEffect
    <3> QED  BY <1>2, <3>1, <3>2, <3>3, SwingAssumption
  <2> QED  BY <2>1, <2>2, <2>3
<1> HIDE DEF s
<1> DEFINE anew == i.anchor = "changed" /\ swing.known
           measured == /\ i.anchor # "stale" /\ ~anew /\ i.seen = "good"
                       /\ ~(i.anchor = "same" /\ i.segment /\ swing.known)
\* The branches of the update.
<1>11. \/ /\ ~i.loaded \/ anew
          /\ n = S!Fresh \/ n = [S!Fresh EXCEPT !.known = TRUE]
       \/ i.loaded /\ ~anew /\ ~measured /\ Holds(n, s)
       \/ i.loaded /\ measured /\
          LET g == S!Measured(S!AfterGap(
                                  S!Motion([s EXCEPT !.known = TRUE], i)))
          IN  n = S!Torsion(S!SkewPull(S!Sway(g, i), i), i)
  <2>1. CASE ~i.loaded
    BY <2>1 DEF S!Update, n
  <2>2. CASE i.loaded /\ i.anchor = "stale"
    <3>1. n = [s EXCEPT !.valid = FALSE]
      BY <2>2 DEF S!Update, n
    <3> QED  BY <1>5, <1>6, <2>2, <3>1, StaleHolds
  <2>3. CASE i.loaded /\ anew
    BY <1>5, <2>3 DEF S!Update, n
  <2>4. CASE /\ i.loaded /\ i.anchor = "same" /\ i.segment /\ swing.known
    <3>1. n = S!NewSegment(s)
      BY <1>5, <2>4 DEF S!Update, n
    <3> QED  BY <1>5, <2>4, <3>1, SegmentHolds
  <2>5. CASE /\ i.loaded /\ i.anchor # "stale" /\ ~anew
             /\ ~(i.anchor = "same" /\ i.segment /\ swing.known)
    <3> DEFINE m == S!Motion([s EXCEPT !.known = TRUE], i)
    <3>1. n = CASE i.seen = "none" -> S!Held(m)
                [] i.seen = "poor" -> [m EXCEPT !.valid = FALSE]
                [] OTHER -> S!Torsion(S!SkewPull(S!Sway(
                                S!Measured(S!AfterGap(m)), i), i), i)
      BY <1>2, <1>5, <2>5 DEF S!Update, n
    <3>2. Holds(S!Held(m), s) /\ Holds([m EXCEPT !.valid = FALSE], s)
      BY <1>5, <1>6, UnmeasuredHolds
    <3> HIDE DEF m
    <3>3. CASE i.seen = "none"
      BY <2>5, <3>1, <3>2, <3>3
    <3>4. CASE i.seen = "poor"
      BY <2>5, <3>1, <3>2, <3>4
    <3>5. CASE i.seen = "good"
      BY <2>5, <3>1, <3>5 DEF m
    <3> QED  BY <1>2, <3>3, <3>4, <3>5
  <2> QED  BY <1>2, <2>1, <2>2, <2>3, <2>4, <2>5
<1> HIDE DEF n
<1>12. CASE /\ ~i.loaded \/ anew
            /\ n = S!Fresh \/ n = [S!Fresh EXCEPT !.known = TRUE]
  <2>1. /\ Monitor(n) /\ ~n.pulled /\ n.pullClear = S!Off
        /\ n.hist = S!Off /\ n.valid = FALSE
    BY <1>12, FreshMonitor
  <2>2. danger' = S!Off
    BY <1>1, <1>12
  <2> QED
    BY <1>1, <1>3, <1>8, <2>1, <2>2
       DEF SwingIInv, UnknownIsEmpty, AlarmIsHeld, ReleaseIsSeen,
           ReleaseIsObserved
<1>13. CASE i.loaded /\ ~anew /\ ~measured /\ Holds(n, s)
  <2>1. ~S!Usable(i)
    BY <1>13 DEF S!Usable
  <2>2. /\ quiet' = IF i.dt > SwingGap THEN S!Off ELSE S!Age(quiet, i.dt)
        /\ danger' = S!Age(danger, i.dt)
    BY <1>1, <1>13, <2>1
  <2>3. /\ Monitor(n) /\ (n.known \/ ~s.known)
        /\ n.latched = s.latched /\ n.sway = s.sway /\ n.hold = s.hold
        /\ n.pulled = s.pulled
        /\ n.pullClear = S!Off \/ n.pullClear = s.pullClear
        /\ n.hist # S!Off => n.meas # S!Off
        /\ n.pullClear # S!Off => n.meas = S!Off \/ n.meas = s.meas
    BY <1>13 DEF Holds
  <2>4. UnknownIsEmpty'
    <3>1. ~swing.known => danger' = S!Off
      BY <1>2, <1>3, <2>2, AgeEffect DEF UnknownIsEmpty
    <3> QED  BY <1>1, <1>4, <1>5, <1>6, <2>3, <3>1 DEF UnknownIsEmpty
  <2>5. AlarmIsHeld'
    BY <1>1, <1>9, <2>2, <2>3 DEF AlarmIsHeld
  <2>6. ReleaseIsSeen'
    <3>1. n.pullClear # S!Off => n.pullClear = s.pullClear /\ n.pulled
      BY <1>6, <2>3
    <3>2. ASSUME channel = "skew", n.pullClear # S!Off
          PROVE  \/ n.meas = S!Off
                 \/ n.meas > SwingGap
                 \/ quiet' # S!Off /\ n.pullClear <= quiet'
      <4>1. swing.pullClear # S!Off
        BY <1>2, <1>4, <1>5, <3>1, <3>2, AgeEffect
      <4>2. CASE s.meas = S!Off \/ s.meas > SwingGap
        BY <2>3, <3>2, <4>2
      <4>3. CASE /\ quiet # S!Off /\ s.pullClear <= S!Age(quiet, i.dt)
                 /\ i.dt <= SwingGap
        <5>1. quiet' = S!Age(quiet, i.dt)
          BY <1>2, <2>2, <4>3, SwingAssumption
        <5>2. quiet' # S!Off
          BY <1>2, <1>3, <4>3, <5>1, AgeEffect
        <5> QED  BY <3>1, <3>2, <4>3, <5>1, <5>2
      <4> QED  BY <1>10, <3>2, <4>1, <4>2, <4>3
    <3> QED  BY <1>1, <2>3, <3>1, <3>2 DEF ReleaseIsSeen
  <2> QED
    BY <1>1, <1>3, <1>5, <1>8, <2>3, <2>4, <2>5, <2>6
       DEF SwingIInv, ReleaseIsObserved
<1>14. CASE i.loaded /\ measured /\
            LET g == S!Measured(S!AfterGap(
                                    S!Motion([s EXCEPT !.known = TRUE], i)))
            IN  n = S!Torsion(S!SkewPull(S!Sway(g, i), i), i)
  <2> DEFINE g == S!Measured(S!AfterGap(
                                 S!Motion([s EXCEPT !.known = TRUE], i)))
             w == S!Sway(g, i)
             p == S!SkewPull(w, i)
  <2>1. /\ Monitor(g) /\ g.known /\ g.meas = 0
        /\ g.hold = s.hold /\ g.latched = s.latched /\ g.sway = s.sway
        /\ g.pulled = s.pulled /\ g.pullClear = s.pullClear
        /\ g.hist # S!Off
        /\ g.hist > 0 => s.meas # S!Off /\ s.meas <= SwingGap
    BY <1>5, <1>6, MeasuredEffect
  <2>2. n = S!Torsion(p, i)
    BY <1>14
  <2> HIDE DEF g
  <2>3. /\ Monitor(w)
        /\ w.known = g.known /\ w.meas = g.meas /\ w.hist = g.hist
        /\ w.pulled = g.pulled /\ w.pullClear = g.pullClear
        /\ i.auth /\ i.off = "immediate" =>
              w.latched /\ w.hold = 0 /\ w.sway = "SWAY_ALARM"
        /\ g.latched /\ g.hold # S!Off /\ g.hold < MinHold =>
              /\ w.latched /\ w.sway = "SWAY_ALARM"
              /\ w.hold = g.hold \/ w.hold = 0
    BY <2>1, SwayEffect
  <2> HIDE DEF w
  <2>4. w.pullClear # S!Off => w.pulled
    BY <1>6, <2>1, <2>3
  <2>5. /\ Monitor(p)
        /\ p.known = w.known /\ p.meas = w.meas /\ p.hist = w.hist
        /\ p.latched = w.latched /\ p.hold = w.hold /\ p.sway = w.sway
        /\ p.pullClear # S!Off =>
              /\ p.pulled /\ w.pulled /\ S!PullFree(w, i)
              /\ p.pullClear = 0 \/ p.pullClear = w.pullClear
        /\ w.pulled /\ ~p.pulled =>
              /\ S!PullFree(w, i)
              /\ EndConfirm <= 0 \/ (/\ w.pullClear # S!Off
                                     /\ w.pullClear >= EndConfirm)
    BY <2>3, <2>4, SkewPullEffect
  <2> HIDE DEF p
  <2>6. /\ Monitor(n)
        /\ n.known = p.known /\ n.meas = p.meas /\ n.hist = p.hist
        /\ n.latched = p.latched /\ n.hold = p.hold /\ n.sway = p.sway
        /\ n.pulled = p.pulled /\ n.pullClear = p.pullClear
    BY <2>2, <2>5, TorsionEffect
  <2>7. AlarmIsHeld'
    <3>1. CASE i.auth /\ i.off = "immediate"
      BY <1>1, <1>8, <2>3, <2>5, <2>6, <3>1, OffIsAnAge
         DEF AlarmIsHeld, Ages
    <3>2. CASE ~(i.auth /\ i.off = "immediate")
      <4>1. danger' = S!Age(danger, i.dt)
        BY <1>1, <1>14, <3>2
      <4> SUFFICES ASSUME danger' # S!Off, danger' < MinHold
                   PROVE  /\ n.latched /\ n.sway = "SWAY_ALARM"
                          /\ n.hold # S!Off /\ n.hold <= danger'
        BY <1>1 DEF AlarmIsHeld
      <4>2. /\ s.latched /\ s.sway = "SWAY_ALARM"
            /\ s.hold # S!Off /\ s.hold <= danger' /\ s.hold < MinHold
        BY <1>9, <4>1
      <4>3. /\ n.latched /\ n.sway = "SWAY_ALARM"
            /\ n.hold = s.hold \/ n.hold = 0
        BY <2>1, <2>3, <2>5, <2>6, <4>2
      <4> QED  BY <1>8, <4>2, <4>3, OffIsAnAge DEF Ages
    <3> QED  BY <3>1, <3>2
  \* What the history shows of a measured recovery.
  <2>8. ASSUME channel = "skew", swing.pulled, S!PullFree(w, i)
        PROVE  /\ quiet' # S!Off /\ quiet' >= 0
               /\ swing.pullClear # S!Off => s.pullClear <= quiet'
    <3>1. swing.known
      BY <1>3, <1>4, <2>8 DEF UnknownIsEmpty
    <3>2. S!Usable(i)
      BY <1>2, <1>14, <3>1 DEF S!Usable
    <3>3. S!Shows(i) /\ w.hist > 0
      BY <2>8 DEF S!PullFree, S!Shows
    <3>4. s.meas # S!Off /\ s.meas <= SwingGap
      BY <2>1, <2>3, <3>3
    <3>5. ~(s.meas > SwingGap)
      <4>1. s.meas \in Ages
        BY <1>5 DEF Monitor
      <4> QED  BY <3>4, <4>1, SwingAssumption DEF Ages, S!Off
    <3>6. quiet' = IF quiet = S!Off THEN 0 ELSE S!Age(quiet, i.dt)
      BY <1>1, <3>2, <3>3, <3>4, <3>5
    <3>7. swing.pullClear # S!Off =>
              quiet # S!Off /\ s.pullClear <= S!Age(quiet, i.dt)
      BY <1>10, <2>8, <3>4, <3>5
    <3>8. quiet' # S!Off /\ quiet' >= 0
      <4>1. quiet # S!Off => S!Age(quiet, i.dt) # S!Off
        BY <1>2, <1>3, AgeEffect
      <4> QED  BY <1>8, <3>6, <4>1, OffIsAnAge DEF Ages
    <3> QED  BY <3>6, <3>7, <3>8
  <2>9. ReleaseIsSeen'
    <3>1. ASSUME channel = "skew", n.pullClear # S!Off
          PROVE  quiet' # S!Off /\ n.pullClear <= quiet'
      <4>1. /\ swing.pulled /\ S!PullFree(w, i)
            /\ n.pullClear = 0 \/ n.pullClear = s.pullClear
        BY <1>5, <2>1, <2>3, <2>5, <2>6, <3>1
      <4>2. n.pullClear = s.pullClear => swing.pullClear # S!Off
        BY <1>2, <1>4, <1>5, <3>1, AgeEffect
      <4> QED  BY <2>8, <3>1, <4>1, <4>2
    <3>2. n.hist # S!Off => n.meas # S!Off
      BY <2>1, <2>3, <2>5, <2>6, OffIsAnAge
    <3> QED  BY <1>1, <2>5, <2>6, <3>1, <3>2 DEF ReleaseIsSeen
  <2>10. ReleaseIsObserved
    <3> SUFFICES ASSUME channel = "skew", swing.pulled, ~n.pulled
                 PROVE  quiet' >= EndConfirm
      BY <1>1 DEF ReleaseIsObserved
    <3>1. w.pulled /\ ~p.pulled
      BY <1>5, <2>1, <2>3, <2>6
    <3>2. /\ S!PullFree(w, i)
          /\ EndConfirm <= 0 \/ (/\ w.pullClear # S!Off
                                 /\ w.pullClear >= EndConfirm)
      BY <2>5, <3>1
    <3>3. /\ quiet' >= 0
          /\ swing.pullClear # S!Off => s.pullClear <= quiet'
      BY <2>8, <3>2
    <3>4. w.pullClear # S!Off => swing.pullClear # S!Off
      BY <1>2, <1>4, <1>5, <2>1, <2>3, AgeEffect
    <3>5. w.pullClear = s.pullClear /\ s.pullClear \in Ages
      BY <1>5, <2>1, <2>3 DEF Monitor
    <3> QED
      BY <1>8, <3>2, <3>3, <3>4, <3>5, OffIsAnAge, SwingAssumption DEF Ages
  <2>11. UnknownIsEmpty'
    BY <1>1, <2>1, <2>3, <2>5, <2>6 DEF UnknownIsEmpty
  <2> QED  BY <1>1, <1>3, <1>8, <2>6, <2>7, <2>9, <2>10, <2>11 DEF SwingIInv
<1> QED  BY <1>11, <1>12, <1>13, <1>14

\* SwingAlarmIsKept: an immediate alarm holds for its whole time, and a
\* latched skew alarm is released only on measurements that showed the end
\* of the pull for as long as the confirmation (CargoSwingMonitor::update).
THEOREM SwingAlarmKept == S!Spec => SwingAlarmIsKept
<1>1. SwingIInv /\ [S!Next]_S!vars => SwingIInv'
  <2> SUFFICES ASSUME SwingIInv, [S!Next]_S!vars PROVE SwingIInv'
    OBVIOUS
  <2>1. CASE S!Next
    <3>1. PICK i \in SwingInputs[channel] : S!Frame(i)
      BY <2>1 DEF S!Next
    <3>2. i \in SwingFrames
      BY SwingAssumption DEF SwingIInv
    <3> QED  BY <3>1, <3>2, SwingStep
  <2>2. CASE UNCHANGED S!vars
    BY <2>2 DEF S!vars, SwingIInv, UnknownIsEmpty, AlarmIsHeld, ReleaseIsSeen
  <2> QED  BY <2>1, <2>2
<1>2. SwingIInv => S!AlarmHolds
  BY DEF SwingIInv, AlarmIsHeld, S!AlarmHolds
<1>3. SwingIInv /\ [S!Next]_S!vars => [ReleaseIsObserved]_S!vars
  <2> SUFFICES ASSUME SwingIInv, S!Next PROVE ReleaseIsObserved
    OBVIOUS
  <2>1. PICK i \in SwingInputs[channel] : S!Frame(i)
    BY DEF S!Next
  <2>2. i \in SwingFrames
    BY SwingAssumption DEF SwingIInv
  <2> QED  BY <2>1, <2>2, SwingStep
<1>4. [ReleaseIsObserved]_S!vars =>
      [/\ channel = "skew" /\ swing.pulled /\ ~swing'.pulled /\ swing'.valid
       => quiet' >= EndConfirm]_S!vars
  BY DEF ReleaseIsObserved
<1> QED
  BY SwingInit, <1>1, <1>2, <1>3, <1>4, PTL
     DEF S!Spec, SwingAlarmIsKept, S!SwingAlarmIsKept, S!SkewReleaseIsObserved

-----------------------------------------------------------------------------
(* SafetyPipeline: the code of a status.                                   *)

\* The fields of a status that do not depend on the decision.
StatusFields ==
    {"schema_valid", "hook_role", "hook_valid", "hook_load",
     "localization_valid", "no_cargo_confirmed", "cargo_valid",
     "obstacle_valid", "evidence", "obstacle_count", "finite_geometry",
     "distance", "clearance", "track_contract", "requested", "warning",
     "warning_valid", "valid", "fault", "fault_mask"}

Stated(s) ==
    /\ DOMAIN s = StatusFields
    /\ s.schema_valid = TRUE /\ s.finite_geometry = TRUE
    /\ s.hook_role \in P!HookRoles
    /\ s.hook_valid = P!GravityValid(s.hook_load)
    /\ s.no_cargo_confirmed \in BOOLEAN /\ s.cargo_valid \in BOOLEAN
    /\ s.obstacle_valid \in BOOLEAN /\ s.localization_valid \in BOOLEAN

\* What the decision w may say of the load that the status s describes.
Supported(s, w) ==
    /\ w.valid \in BOOLEAN /\ w.provisional \in BOOLEAN
    /\ w.valid /\ w.code = P!Clear /\ s.cargo_valid =>
          /\ ~s.no_cargo_confirmed
          /\ \/ s.obstacle_count = 0
             \/ s.obstacle_count > 0 /\ s.clearance = "OK"
    /\ w.valid /\ w.code \in P!PositiveCodes
              /\ (s.cargo_valid \/ (w.provisional /\ s.hook_load = "LOADED"))
       =>
          /\ ~s.no_cargo_confirmed /\ s.obstacle_count > 0
          /\ w.provisional =>
                /\ ~s.cargo_valid /\ s.obstacle_valid
                /\ w.code \in P!StandardCodes => s.track_contract
          /\ w.code = P!Level1Warning =>
                s.distance = "L1" /\ s.clearance = "LOW"
          /\ w.code = P!Level2Warning =>
                s.distance = "L2" /\ s.clearance = "LOW"

\* The ways a phase is decided.
LEMMA PhaseCode ==
    ASSUME NEW d
    PROVE  LET k == P!Phase(d)
               known == /\ d.localized
                        /\ d.role = "REQUIRED" => P!GravityValid(d.hook)
           IN \/ k \in P!FaultCodes
                 /\ (k = P!GravityInvalid => d.role = "REQUIRED")
              \/ k = d.code /\ P!PositiveWarning(d) /\ known
              \/ /\ k = P!Clear /\ known /\ d.cargo
                 /\ d.code = P!Clear /\ d.ready /\ ~d.obstacleFault
              \/ k = P!Clear /\ known /\ d.empty /\ ~d.cargo
<1> DEFINE k == P!Phase(d)
<1>1. CASE P!PositiveWarning(d)
  BY <1>1 DEF P!Phase, P!FaultCodes, P!InternalError, P!SystemNotReady,
     P!LocalizationInvalid, P!GravityInvalid
<1>2. CASE ~P!PositiveWarning(d)
  BY <1>2 DEF P!Phase, P!FaultCodes, P!InternalError, P!SystemNotReady,
     P!LocalizationInvalid, P!GravityInvalid, P!CargoInvalid,
     P!ObstacleInvalid, P!Clear
<1> QED  BY <1>1, <1>2

\* A decision that its status supports is accepted by the alarm heartbeat.
LEMMA ComposedIsAccepted ==
    ASSUME NEW s, Stated(s), NEW w, Supported(s, w), NEW episode
    PROVE  LET m == P!Compose(s, w, episode)
           IN  P!ValidateStatusContract(m) = m.requested
<1> DEFINE d == P!DecisionInput(s, w)
           k == P!Phase(d)
           code == P!Decide(k, episode)
           m == P!Compose(s, w, episode)
<1>1. /\ m.schema_valid = TRUE /\ m.finite_geometry = TRUE
      /\ m.hook_role = s.hook_role /\ m.hook_valid = s.hook_valid
      /\ m.hook_load = s.hook_load
      /\ m.localization_valid = s.localization_valid
      /\ m.no_cargo_confirmed = s.no_cargo_confirmed
      /\ m.cargo_valid = s.cargo_valid
      /\ m.obstacle_valid = s.obstacle_valid
      /\ m.obstacle_count = s.obstacle_count
      /\ m.distance = s.distance /\ m.clearance = s.clearance
      /\ m.track_contract = s.track_contract
      /\ m.requested = code
      /\ m.valid = (code \notin P!FaultCodes)
      /\ m.warning_valid = (code \notin P!FaultCodes)
      /\ m.warning = (IF code \in P!FaultCodes THEN 0 ELSE code)
      /\ m.fault = (IF code \in P!FaultCodes THEN code ELSE 0)
      /\ m.fault_mask = (IF code \in P!FaultCodes THEN {code} ELSE {})
      /\ m.evidence = P!Evidence(s, d, code, code # k)
  BY DEF P!Compose, Stated, StatusFields
<1>2. /\ d.role = s.hook_role /\ d.hook = s.hook_load
      /\ d.localized = s.localization_valid
      /\ d.code = (IF w.valid THEN w.code ELSE 0)
      /\ d.cargo <=> P!CargoAccepted(s.hook_role, s.hook_load, s.cargo_valid)
      /\ d.empty => /\ s.no_cargo_confirmed /\ ~s.cargo_valid
                    /\ s.hook_role = "REQUIRED" => s.hook_load = "EMPTY"
      /\ d.provisional => /\ w.provisional /\ s.hook_load = "LOADED"
                          /\ w.valid /\ w.code \in P!PositiveCodes
      /\ d.ready => w.valid /\ (s.obstacle_valid \/ d.provisional)
      /\ ~d.obstacleFault /\ d.cargo => s.obstacle_valid
      /\ d.cargo \in BOOLEAN
  BY DEF P!DecisionInput, P!CargoAccepted, P!EmptyAccepted, Stated
<1>3. P!PositiveWarning(d) =>
         /\ d.code \in P!PositiveCodes /\ d.ready
         /\ d.provisional \/ d.cargo
         /\ ~d.obstacleFault
  BY DEF P!PositiveWarning
<1>4. /\ P!FaultCodes = {30, 31, 32, 33, 34, 35}
      /\ P!WarningCodes = {14, 17, 18, 29}
      /\ P!PositiveCodes = {17, 18, 29} /\ P!StandardCodes = {17, 18}
      /\ P!AllowedCodes = {14, 17, 18, 29, 30, 31, 32, 33, 34, 35}
      /\ P!Clear = 14 /\ P!Level1Warning = 17 /\ P!Level2Warning = 18
      /\ P!AnomalyReview = 29 /\ P!GravityInvalid = 32
      /\ P!ObstacleInvalid = 34
  BY DEF P!FaultCodes, P!WarningCodes, P!PositiveCodes, P!StandardCodes,
     P!AllowedCodes, P!Clear, P!Level1Warning, P!Level2Warning,
     P!AnomalyReview, P!SystemNotReady, P!LocalizationInvalid,
     P!GravityInvalid, P!CargoInvalid, P!ObstacleInvalid, P!InternalError
<1>5. (code = k \/ code = 34) /\ (code = 34 \/ code # 29 \/ code = k)
  BY <1>4 DEF P!Decide
<1>6. LET known == /\ d.localized
                   /\ d.role = "REQUIRED" => P!GravityValid(d.hook)
      IN \/ k \in P!FaultCodes
                 /\ (k = P!GravityInvalid => d.role = "REQUIRED")
         \/ k = d.code /\ P!PositiveWarning(d) /\ known
         \/ /\ k = P!Clear /\ known /\ d.cargo
            /\ d.code = P!Clear /\ d.ready /\ ~d.obstacleFault
         \/ k = P!Clear /\ known /\ d.empty /\ ~d.cargo
  BY PhaseCode
<1> HIDE DEF m, k, code, d
<1>7. ASSUME code \in P!FaultCodes
      PROVE  P!ValidateStatusContract(m) = m.requested
  <2>1. code = P!GravityInvalid => s.hook_role = "REQUIRED"
    <3>1. P!PositiveWarning(d) => d.code # 32
      BY <1>3, <1>4
    <3> QED  BY <1>2, <1>4, <1>5, <1>6, <3>1
  <2>2. /\ m.requested = code /\ m.fault = code /\ m.warning = 0
        /\ ~m.warning_valid /\ code \in m.fault_mask /\ code # 0
        /\ code \in P!AllowedCodes
    <3>1. code # 0 /\ code \in P!AllowedCodes
      BY <1>4, <1>7
    <3> QED  BY <1>1, <1>7, <3>1
  <2>3. P!FaultContract(m)
    BY <1>1, <2>1, <2>2 DEF P!FaultContract, P!GravityRequired
  <2>4. P!StatusAccepted(m)
    BY <1>1, <1>7, <2>2, <2>3 DEF P!StatusAccepted, Stated
  <2> QED  BY <2>4 DEF P!ValidateStatusContract
<1>8. ASSUME code \notin P!FaultCodes
      PROVE  P!ValidateStatusContract(m) = m.requested
  <2>1. /\ code = k
        /\ s.localization_valid
        /\ s.hook_role = "REQUIRED" => s.hook_valid
        /\ \/ k = d.code /\ P!PositiveWarning(d)
           \/ /\ k = 14 /\ d.cargo
              /\ d.code = P!Clear /\ d.ready /\ ~d.obstacleFault
           \/ k = 14 /\ d.empty /\ ~d.cargo
    <3>1. code = k /\ k \notin P!FaultCodes
      BY <1>4, <1>5, <1>8
    <3>2. /\ d.localized
          /\ d.role = "REQUIRED" => P!GravityValid(d.hook)
          /\ \/ k = d.code /\ P!PositiveWarning(d)
             \/ /\ k = 14 /\ d.cargo
                /\ d.code = P!Clear /\ d.ready /\ ~d.obstacleFault
             \/ k = 14 /\ d.empty /\ ~d.cargo
      BY <1>4, <1>6, <3>1
    <3> QED  BY <1>2, <3>1, <3>2 DEF Stated
  <2>2. /\ m.localization_valid
        /\ m.hook_role = "REQUIRED" => m.hook_valid
        /\ m.fault = 0 /\ m.warning = code /\ m.fault_mask = {}
        /\ m.warning_valid /\ m.valid /\ m.requested = code
    BY <1>1, <1>8, <2>1
  <2>7. code \in P!WarningCodes
    BY <1>3, <1>4, <2>1
  <2>8. P!WarningContract(m)
    BY <1>4, <2>2, <2>7 DEF P!WarningContract
  <2>9. ASSUME code = 14 => P!ClearContract(m),
               code = 29 => P!ReviewContract(m),
               code = 17 => P!HazardContract(m, "L1"),
               code = 18 => P!HazardContract(m, "L2")
        PROVE  P!ValidateStatusContract(m) = m.requested
    <3>1. /\ m.schema_valid /\ m.hook_role \in P!HookRoles
          /\ m.warning \in {0} \cup P!WarningCodes
          /\ m.fault = 0 /\ m.requested \in P!AllowedCodes
      BY <1>1, <1>4, <2>2, <2>7 DEF Stated
    <3>2. (CASE m.warning = P!Clear         -> P!ClearContract(m)
             [] m.warning = P!AnomalyReview -> P!ReviewContract(m)
             [] m.warning = P!Level1Warning -> P!HazardContract(m, "L1")
             [] m.warning = P!Level2Warning -> P!HazardContract(m, "L2"))
      <4>1. CASE code = 14
        BY <1>4, <2>2, <2>9, <4>1
      <4>2. CASE code = 17
        BY <1>4, <2>2, <2>9, <4>2
      <4>3. CASE code = 18
        BY <1>4, <2>2, <2>9, <4>3
      <4>4. CASE code = 29
        BY <1>4, <2>2, <2>9, <4>4
      <4> QED  BY <1>4, <2>7, <4>1, <4>2, <4>3, <4>4
    <3>3. P!StatusAccepted(m)
      BY <2>8, <3>1, <3>2 DEF P!StatusAccepted
    <3> QED  BY <3>3 DEF P!ValidateStatusContract
  <2>3. d.cargo => /\ m.cargo_valid
                   /\ m.hook_role = "REQUIRED" => m.hook_load = "LOADED"
    BY <1>1, <1>2 DEF P!CargoAccepted
  <2>4. CASE k = d.code /\ P!PositiveWarning(d)
    <3>1. /\ w.valid /\ d.code = w.code /\ w.code \in P!PositiveCodes
          /\ s.cargo_valid \/ (w.provisional /\ s.hook_load = "LOADED")
      BY <1>1, <1>2, <1>3, <2>3, <2>4
    <3>2. /\ ~m.no_cargo_confirmed /\ m.obstacle_count > 0
          /\ w.provisional =>
                /\ ~m.cargo_valid /\ m.obstacle_valid
                /\ w.code \in P!StandardCodes => m.track_contract
          /\ w.code = P!Level1Warning =>
                m.distance = "L1" /\ m.clearance = "LOW"
          /\ w.code = P!Level2Warning =>
                m.distance = "L2" /\ m.clearance = "LOW"
      BY <1>1, <3>1 DEF Supported
    <3>3. d.provisional =>
              m.evidence \in {"HAZARD_CANDIDATE", "REVIEW_REQUIRED"}
      BY <1>1, <1>2, <1>4, <2>1, <2>4, <3>1
         DEF P!Evidence, P!SystemNotReady
    <3>4. P!ValidLoaded(m) \/ P!ProvisionalPositiveLoaded(m)
      <4>1. CASE d.cargo
        BY <1>1, <1>2, <1>3, <2>2, <2>3, <2>4, <3>2, <4>1
           DEF P!ValidLoaded, P!HookSupports, P!GravityRequired
      <4>2. CASE d.provisional
        BY <1>1, <1>2, <2>2, <3>2, <3>3, <4>2
           DEF P!ProvisionalPositiveLoaded, P!HookSupports, P!GravityRequired
      <4> QED  BY <1>3, <2>4, <4>1, <4>2
    <3>5. P!ProvisionalPositiveLoaded(m) /\ w.code \in P!StandardCodes
             => P!ValidLoaded(m) \/ m.track_contract
      BY <1>1, <1>2, <1>3, <2>3, <2>4, <3>2 DEF P!ProvisionalPositiveLoaded
    <3>6. P!ClusterGeometryValid(m)
      BY <1>1, <3>2 DEF P!ClusterGeometryValid
    <3>7. code = w.code
      BY <2>1, <2>4, <3>1
    <3>8. CASE code = 29
      <4>1. P!ReviewContract(m)
        BY <3>4, <3>6 DEF P!ReviewContract
      <4> QED  BY <2>9, <3>8, <4>1
    <3>9. CASE code = 17
      <4>1. P!HazardContract(m, "L1")
        BY <1>4, <3>2, <3>4, <3>5, <3>6, <3>7, <3>9 DEF P!HazardContract
      <4> QED  BY <2>9, <3>9, <4>1
    <3>10. CASE code = 18
      <4>1. P!HazardContract(m, "L2")
        BY <1>4, <3>2, <3>4, <3>5, <3>6, <3>7, <3>10 DEF P!HazardContract
      <4> QED  BY <2>9, <3>10, <4>1
    <3> QED  BY <1>4, <3>1, <3>7, <3>8, <3>9, <3>10
  <2>5. CASE /\ k = 14 /\ d.cargo
             /\ d.code = P!Clear /\ d.ready /\ ~d.obstacleFault
    <3>1. w.valid /\ w.code = P!Clear /\ s.cargo_valid /\ s.obstacle_valid
      BY <1>1, <1>2, <1>4, <2>3, <2>5
    <3>2. /\ ~m.no_cargo_confirmed
          /\ \/ m.obstacle_count = 0
             \/ m.obstacle_count > 0 /\ m.clearance = "OK"
      BY <1>1, <3>1 DEF Supported
    <3>3. P!ClearContract(m)
      BY <1>1, <2>2, <2>3, <2>5, <3>1, <3>2
         DEF P!ClearContract, P!ValidLoaded, P!HookSupports,
             P!GravityRequired, P!ClusterGeometryValid
    <3> QED  BY <2>1, <2>5, <2>9, <3>3
  <2>6. CASE k = 14 /\ d.empty /\ ~d.cargo
    <3>1. P!SafeEmpty(m)
      BY <1>1, <1>2, <2>2, <2>6
         DEF P!SafeEmpty, P!HookSupports, P!GravityRequired
    <3>2. P!ClearContract(m)
      BY <3>1 DEF P!ClearContract
    <3> QED  BY <2>1, <2>6, <2>9, <3>2
  <2> QED  BY <2>1, <2>4, <2>5, <2>6
<1> QED  BY <1>7, <1>8 DEF m

LEMMA BaseStated ==
    ASSUME NEW e, e.role \in P!HookRoles, NEW f \in PipelineFrames,
           NEW s, s = P!BaseStatus(e, f)
    PROVE  /\ Stated(s)
           /\ s.hook_role = e.role /\ s.hook_load = hook
           /\ s.no_cargo_confirmed = FALSE /\ s.cargo_valid = FALSE
<1> DEFINE n == P!NoStatusYet
<1>0. f.localized \in BOOLEAN
  BY DEF PipelineFrames
<1>1. /\ DOMAIN n = StatusFields
      /\ n.schema_valid = TRUE /\ n.finite_geometry = TRUE
      /\ n.no_cargo_confirmed = FALSE /\ n.cargo_valid = FALSE
      /\ n.obstacle_valid = FALSE
  BY DEF P!NoStatusYet, StatusFields
<1>2. s = [n EXCEPT !.hook_role = e.role, !.hook_valid = P!GravityValid(hook),
                    !.hook_load = hook, !.localization_valid = f.localized]
  BY DEF P!BaseStatus
<1> HIDE DEF n
<1>3. {"hook_role", "hook_valid", "hook_load", "localization_valid",
       "schema_valid", "finite_geometry", "no_cargo_confirmed",
       "cargo_valid", "obstacle_valid"} \subseteq DOMAIN n
  BY <1>1 DEF StatusFields
<1>4. /\ DOMAIN s = StatusFields
      /\ s.schema_valid = TRUE /\ s.finite_geometry = TRUE
      /\ s.no_cargo_confirmed = FALSE /\ s.cargo_valid = FALSE
      /\ s.obstacle_valid = FALSE
      /\ s.hook_role = e.role /\ s.hook_valid = P!GravityValid(hook)
      /\ s.hook_load = hook /\ s.localization_valid = f.localized
  BY <1>1, <1>2, <1>3
<1> QED  BY <1>0, <1>4 DEF Stated

\* Without a certified static source, every standard warning of the fusion is
\* of the live obstacle, at the band of its distance.
LEMMA StandardIsLive ==
    ASSUME NEW i, i.static.certified = FALSE
    PROVE  LET fused == P!Fuse(i)
           IN  fused.code \in P!StandardCodes =>
                  /\ fused.hazard.from = "LIVE"
                  /\ fused.code = P!WarningCode(fused.hazard.dist)
<1>1. ~P!StaticReliable(i) /\ ~P!RiskStatic(i) /\ ~P!StaticStandard(i)
  BY DEF P!StaticReliable, P!RiskStatic, P!StaticSeen, P!StaticStandard
<1>2. ASSUME NEW live, NEW one, one = P!Select(live, FALSE, i)
      PROVE  one = P!NoHazard \/ one.from = "LIVE"
  BY <1>2 DEF P!Select, P!NoHazard
<1>3. \A one : P!Standard(one).code \in P!StandardCodes =>
          /\ one # P!NoHazard /\ P!Standard(one).hazard = one
          /\ P!Standard(one).code = P!WarningCode(one.dist)
  BY DEF P!Standard, P!Refused, P!Fused, P!StandardCodes, P!ObstacleInvalid,
     P!Level1Warning, P!Level2Warning
<1>4. \A one : P!Review(one).code \notin P!StandardCodes
  BY DEF P!Review, P!Refused, P!Fused, P!StandardCodes, P!ObstacleInvalid,
     P!Level1Warning, P!Level2Warning, P!AnomalyReview
<1>5. \A k \in {P!ObstacleInvalid, P!CargoInvalid, P!LocalizationInvalid,
                P!Clear} : P!Refused(k).code \notin P!StandardCodes
  BY DEF P!Refused, P!Fused, P!StandardCodes, P!ObstacleInvalid,
     P!CargoInvalid, P!LocalizationInvalid, P!Clear, P!Level1Warning,
     P!Level2Warning
<1>6. P!HistoryReview(i).code \notin P!StandardCodes
  BY <1>4 DEF P!HistoryReview
<1>7. P!StaticStandard(i) = FALSE
  BY <1>1 DEF P!StaticStandard, P!RiskStatic, P!StaticSeen
<1>8. \A live : LET fused == P!Standard(P!Select(live, FALSE, i)) IN
          fused.code \in P!StandardCodes =>
              /\ fused.hazard.from = "LIVE"
              /\ fused.code = P!WarningCode(fused.hazard.dist)
  <2> TAKE live
  <2> DEFINE one == P!Select(live, FALSE, i)
  <2>1. one = P!NoHazard \/ one.from = "LIVE"
    BY <1>2
  <2> HIDE DEF one
  <2>2. LET fused == P!Standard(one) IN
          fused.code \in P!StandardCodes =>
              /\ fused.hazard.from = "LIVE"
              /\ fused.code = P!WarningCode(fused.hazard.dist)
    BY <1>3, <2>1
  <2> QED  BY <2>2 DEF one
<1>9. LET fused == P!FuseFormal(i)
      IN  fused.code \in P!StandardCodes =>
              /\ fused.hazard.from = "LIVE"
              /\ fused.code = P!WarningCode(fused.hazard.dist)
  BY <1>4, <1>5, <1>6, <1>7, <1>8 DEF P!FuseFormal
<1>10. LET fused == P!FusePending(i)
       IN  fused.code \in P!StandardCodes =>
              /\ fused.hazard.from = "LIVE"
              /\ fused.code = P!WarningCode(fused.hazard.dist)
  <2>1. (P!StaticStandard(i) /\ P!PendingStaticAuthorized(i)) = FALSE
    BY <1>1
  <2> QED  BY <1>5, <1>6, <1>8, <2>1 DEF P!FusePending
<1> QED  BY <1>5, <1>9, <1>10 DEF P!Fuse

\* A code of a standard warning agrees with the band of its distance.
LEMMA WarningBand ==
    ASSUME NEW d \in Nat
    PROVE  /\ P!WarningCode(d) \in {0, 17, 18}
           /\ P!WarningCode(d) = 17 => P!Band(d) = "L1"
           /\ P!WarningCode(d) = 18 => P!Band(d) = "L2"
BY DEF P!WarningCode, P!Band, P!Level1Warning, P!Level2Warning

\* What a frame without frozen geometry says of a hazard it may have seen.
Seen(p) ==
    \/ p.code = 0
    \/ /\ p.code \in P!PositiveCodes
       /\ p.code \in P!StandardCodes => p.contract
       /\ p.code = P!Level1Warning => P!Band(p.dist) = "L1"
       /\ p.code = P!Level2Warning => P!Band(p.dist) = "L2"

\* Whether the frame shows that there is no load.
ShownEmpty(e, f) ==
    IF e.role = "REQUIRED" THEN hook = "EMPTY" /\ ~f.visual
    ELSE e.empty >= Window /\ ~f.visual

\* q is a status that only says what the hook signal and p say.
Tells(q, e, f, p) ==
    \E s, w :
        /\ q = P!Published(e, s, w, p.oid)
        /\ Stated(s) /\ s.cargo_valid = FALSE
        /\ (p.code # 0 /\ hook = "LOADED" => ~ShownEmpty(e, f))
              => Supported(s, w)
        /\ w.valid /\ w.code = P!AnomalyReview => p.code = w.code

LEMMA HookOnlySupported ==
    ASSUME NEW e, e.role \in P!HookRoles, NEW f \in PipelineFrames,
           NEW p, Seen(p), NEW initialized
    PROVE  Tells(P!HookOnly(e, f, initialized, p), e, f, p)
<1> DEFINE safe == ShownEmpty(e, f)
           base == P!BaseStatus(e, f)
           s == [base EXCEPT
                 !.no_cargo_confirmed = safe,
                 !.evidence = IF safe THEN "CLEAR" ELSE "HARD_FAULT",
                 !.obstacle_valid = p.code # 0,
                 !.obstacle_count = IF p.code # 0 THEN 1 ELSE 0,
                 !.distance = P!Band(p.dist), !.track_contract = p.contract]
           w == [P!NoWarning EXCEPT !.visual = f.visual,
                      !.initialized = initialized,
                      !.valid = safe \/ p.code # 0, !.provisional = p.code # 0,
                      !.code = IF p.code # 0 THEN p.code
                               ELSE IF safe THEN P!Clear ELSE 0]
<1>1. P!HookOnly(e, f, initialized, p) = P!Published(e, s, w, p.oid)
  BY DEF P!HookOnly, ShownEmpty
<1>2. /\ Stated(base) /\ base.hook_role = e.role /\ base.hook_load = hook
      /\ base.cargo_valid = FALSE /\ base.clearance = "LOW"
  <2>2. base.clearance = "LOW"
    BY DEF P!BaseStatus, P!NoStatusYet
  <2> QED  BY <2>2, BaseStated
<1>3. safe \in BOOLEAN /\ f.visual \in BOOLEAN
  BY DEF ShownEmpty, PipelineFrames
<1> HIDE DEF safe, base
<1>4. /\ DOMAIN s = DOMAIN base
      /\ s.schema_valid = base.schema_valid
      /\ s.finite_geometry = base.finite_geometry
      /\ s.hook_role = base.hook_role /\ s.hook_valid = base.hook_valid
      /\ s.hook_load = base.hook_load /\ s.cargo_valid = base.cargo_valid
      /\ s.localization_valid = base.localization_valid
      /\ s.clearance = base.clearance
      /\ s.no_cargo_confirmed = safe
      /\ s.obstacle_valid = (p.code # 0)
      /\ s.obstacle_count = (IF p.code # 0 THEN 1 ELSE 0)
      /\ s.distance = P!Band(p.dist) /\ s.track_contract = p.contract
  BY <1>2 DEF Stated, StatusFields
<1>5. /\ w.valid = (safe \/ p.code # 0) /\ w.provisional = (p.code # 0)
      /\ w.code = (IF p.code # 0 THEN p.code
                   ELSE IF safe THEN P!Clear ELSE 0)
  BY DEF P!NoWarning
<1> HIDE DEF s, w
<1>6. Stated(s) /\ s.cargo_valid = FALSE
  BY <1>2, <1>3, <1>4 DEF Stated
<1>7. w.code \in P!PositiveCodes \/ w.code = P!AnomalyReview => p.code = w.code
  BY <1>5 DEF P!PositiveCodes, P!Clear, P!Level1Warning, P!Level2Warning,
     P!AnomalyReview
<1>8. ASSUME p.code # 0 /\ hook = "LOADED" => ~ShownEmpty(e, f)
      PROVE  Supported(s, w)
  <2>1. ASSUME w.valid, w.code \in P!PositiveCodes,
               w.provisional /\ s.hook_load = "LOADED"
        PROVE  /\ ~s.no_cargo_confirmed /\ s.obstacle_count > 0
               /\ s.obstacle_valid
               /\ w.code \in P!StandardCodes => s.track_contract
               /\ w.code = P!Level1Warning => s.distance = "L1"
               /\ w.code = P!Level2Warning => s.distance = "L2"
    <3>1. p.code # 0 /\ p.code = w.code
      BY <1>5, <1>7, <2>1
    <3>2. ~safe
      BY <1>2, <1>4, <1>8, <2>1, <3>1 DEF safe
    <3>3. /\ s.no_cargo_confirmed = FALSE /\ s.obstacle_count = 1
          /\ s.obstacle_valid = TRUE
      BY <1>3, <1>4, <3>1, <3>2
    <3> QED  BY <1>4, <3>1, <3>3 DEF Seen
  <2> QED  BY <1>2, <1>4, <1>5, <1>6, <2>1 DEF Supported
<1>9. (p.code # 0 /\ hook = "LOADED" => ~ShownEmpty(e, f))
         => Supported(s, w)
  BY <1>8
<1> QED  BY <1>1, <1>6, <1>7, <1>9 DEF Tells

LEMMA LostSupported ==
    ASSUME NEW e, e.role \in P!HookRoles, NEW f \in PipelineFrames
    PROVE  \E s, w :
              /\ P!LocalizationLost(e, f) = P!Published(e, s, w, 0)
              /\ Stated(s) /\ Supported(s, w) /\ s.cargo_valid = FALSE
              /\ ~w.valid
<1> DEFINE s == P!BaseStatus(e, f)
           w == P!NoWarning
<1>1. Stated(s) /\ s.cargo_valid = FALSE
  BY BaseStated
<1>2. w.valid = FALSE /\ w.provisional = FALSE
  BY DEF P!NoWarning
<1>3. P!LocalizationLost(e, f) = P!Published(e, s, w, 0)
  BY DEF P!LocalizationLost
<1>4. Supported(s, w)
  BY <1>2 DEF Supported
<1> QED  BY <1>1, <1>2, <1>3, <1>4

-----------------------------------------------------------------------------
(* SafetyPipeline: what a frame leaves of the evidence.                    *)

EvidenceFields ==
    {"role", "life", "sequence", "initialized", "prevLoaded", "latched",
     "clearAllowed", "gravity", "locked", "active", "track", "removal",
     "hygiene", "last", "pose", "empty", "clear", "static", "review",
     "context", "frozenFor"}

EvidenceTyped(e) ==
    /\ DOMAIN e = EvidenceFields
    /\ e.role \in Roles
    /\ e.life \in Nat /\ e.sequence \in Nat /\ e.life <= e.sequence
    /\ e.pose \in Nat /\ e.empty \in Nat
    /\ e.initialized \in BOOLEAN /\ e.prevLoaded \in BOOLEAN
    /\ e.latched \in BOOLEAN /\ e.active \in BOOLEAN
    /\ DOMAIN e.clear = {"n", "pose", "age"}
    /\ e.clear.n \in Nat /\ e.clear.age \in Nat
    /\ DOMAIN e.review = {"pending", "key", "active", "since", "cooling",
                          "cooled"}
    /\ e.review.since \in Nat

\* The steps of a frame that only look at the load's presence carry this.
Carried(n, e) ==
    /\ DOMAIN n = DOMAIN e
    /\ n.role = e.role /\ n.last = e.last /\ n.pose = e.pose
    /\ n.empty = e.empty /\ n.review = e.review /\ n.clear = e.clear

SameLoad(n, e) == n.life = e.life /\ n.sequence = e.sequence

LEMMA PresenceEffect ==
    ASSUME NEW e, EvidenceTyped(e), NEW f \in PipelineFrames,
           hook \in {"EMPTY", "LOADED", "UNKNOWN"}
    PROVE  LET n == P!Presence(e, f) IN
           /\ Carried(n, e) /\ SameLoad(n, e)
           /\ n.removal = e.removal /\ n.active = e.active
           /\ n.initialized = e.initialized /\ n.prevLoaded = e.prevLoaded
           /\ n.frozenFor = e.frozenFor
           /\ n.latched \in BOOLEAN /\ n.clearAllowed \in BOOLEAN
           /\ n.clearAllowed => ~n.latched
           /\ e.latched /\ ~n.latched => n.clearAllowed
           /\ n.latched /\ ~e.latched => hook = "LOADED" \/ e.role = "DISABLED"
           /\ e.role # "DISABLED" =>
                 /\ n.clearAllowed <=> hook = "EMPTY"
                 /\ hook = "LOADED" => n.latched
<1> DEFINE n == P!Presence(e, f)
<1>1. {"latched", "clearAllowed", "gravity", "role", "last", "pose", "empty",
       "review", "clear", "life", "sequence", "removal", "active",
       "initialized", "prevLoaded", "frozenFor"} \subseteq DOMAIN e
  BY DEF EvidenceTyped, EvidenceFields
<1>2. PICK l, k, g : n = [e EXCEPT !.latched = l, !.clearAllowed = k,
                                   !.gravity = g]
  BY Zenon DEF P!Presence
<1>3. e.latched \in BOOLEAN /\ f.locked \in BOOLEAN /\ f.visual \in BOOLEAN
  BY DEF EvidenceTyped, PipelineFrames
<1>4. IF e.role = "DISABLED"
      THEN n.latched = (f.locked \/ f.visual) /\ n.clearAllowed = ~n.latched
      ELSE /\ n.latched = CASE hook = "LOADED" -> TRUE
                            [] hook = "EMPTY" -> FALSE
                            [] OTHER -> e.latched
           /\ n.clearAllowed = (hook = "EMPTY")
  BY <1>1, <1>3 DEF P!Presence
<1> HIDE DEF n
<1>5. /\ Carried(n, e) /\ SameLoad(n, e)
      /\ n.removal = e.removal /\ n.active = e.active
      /\ n.initialized = e.initialized /\ n.prevLoaded = e.prevLoaded
      /\ n.frozenFor = e.frozenFor
  BY <1>1, <1>2 DEF Carried, SameLoad
<1> QED  BY <1>3, <1>4, <1>5 DEF n

LEMMA ClearedEffect ==
    ASSUME NEW e, DOMAIN e = EvidenceFields
    PROVE  LET n == P!Cleared(e) IN
           /\ Carried(n, e) /\ SameLoad(n, e)
           /\ n.removal = e.removal /\ n.active = e.active
           /\ n.latched = e.latched /\ n.clearAllowed = e.clearAllowed
           /\ ~e.clearAllowed => n = e
           /\ e.clearAllowed =>
                 /\ n.initialized = TRUE /\ n.prevLoaded = FALSE
                 /\ \/ n.frozenFor = 0
                    \/ ~(~e.initialized \/ e.prevLoaded)
                       /\ n.frozenFor = e.frozenFor
<1> DEFINE n == P!Cleared(e)
           k == [e EXCEPT !.static = P!NoStatic, !.context = 0, !.frozenFor = 0]
<1>2. \/ ~e.clearAllowed /\ n = e
      \/ e.clearAllowed
         /\ n = [k EXCEPT !.initialized = TRUE, !.prevLoaded = FALSE]
      \/ e.clearAllowed /\ ~(~e.initialized \/ e.prevLoaded)
         /\ n = [e EXCEPT !.initialized = TRUE, !.prevLoaded = FALSE]
  BY DEF P!Cleared
<1> HIDE DEF n
<1> DEFINE kept(x) ==
        /\ Carried(x, e) /\ SameLoad(x, e)
        /\ x.removal = e.removal /\ x.active = e.active
        /\ x.latched = e.latched /\ x.clearAllowed = e.clearAllowed
<1>3. kept(k) /\ k.frozenFor = 0
  BY DEF Carried, SameLoad, EvidenceFields
<1> HIDE DEF k
<1>4. CASE ~e.clearAllowed /\ n = e
  BY <1>4 DEF Carried, SameLoad, n
<1>5. CASE e.clearAllowed
           /\ n = [k EXCEPT !.initialized = TRUE, !.prevLoaded = FALSE]
  <2>1. /\ kept(n) /\ n.frozenFor = 0
        /\ n.initialized = TRUE /\ n.prevLoaded = FALSE
    BY <1>3, <1>5 DEF Carried, SameLoad, EvidenceFields
  <2> QED  BY <1>5, <2>1 DEF n
<1>6. CASE e.clearAllowed /\ ~(~e.initialized \/ e.prevLoaded)
           /\ n = [e EXCEPT !.initialized = TRUE, !.prevLoaded = FALSE]
  <2>1. /\ kept(n) /\ n.frozenFor = e.frozenFor
        /\ n.initialized = TRUE /\ n.prevLoaded = FALSE
    BY <1>6 DEF Carried, SameLoad, EvidenceFields
  <2> QED  BY <1>6, <2>1 DEF n
<1> QED  BY <1>2, <1>4, <1>5, <1>6

LEMMA LifecycleEffect ==
    ASSUME NEW e, EvidenceTyped(e)
    PROVE  LET n == P!Lifecycle(e)
               rises == e.latched /\ (~e.initialized \/ ~e.prevLoaded)
           IN /\ Carried(n, e) /\ EvidenceTyped(n)
              /\ n.removal = e.removal /\ n.active = e.active
              /\ n.latched = e.latched
              /\ n.initialized = TRUE /\ n.prevLoaded = e.latched
              /\ rises => /\ n.sequence = e.sequence + 1
                          /\ n.life = e.sequence + 1 /\ n.frozenFor = 0
              /\ ~rises => /\ SameLoad(n, e)
                           /\ ~e.latched => n.frozenFor = e.frozenFor
<1> DEFINE n == P!Lifecycle(e)
           rises == e.latched /\ (~e.initialized \/ ~e.prevLoaded)
<1>0. EvidenceFields = DOMAIN e /\ e.sequence + 1 \in Nat
  BY DEF EvidenceTyped
<1>1. CASE rises
  <2>1. n = [e EXCEPT !.sequence = @ + 1, !.life = e.sequence + 1,
                      !.static = P!NoStatic, !.context = 0, !.frozenFor = 0,
                      !.initialized = TRUE, !.prevLoaded = e.latched]
    BY <1>1 DEF P!Lifecycle
  <2> HIDE DEF n
  <2>2. /\ Carried(n, e) /\ n.removal = e.removal /\ n.active = e.active
        /\ n.latched = e.latched
        /\ n.initialized = TRUE /\ n.prevLoaded = e.latched
        /\ n.sequence = e.sequence + 1 /\ n.life = e.sequence + 1
        /\ n.frozenFor = 0
    BY <1>0, <2>1 DEF Carried, EvidenceFields
  <2>3. n.life \in Nat /\ n.sequence \in Nat /\ n.life <= n.sequence
    BY <1>0, <2>2
  <2>4. EvidenceTyped(n)
    BY <1>0, <2>2, <2>3 DEF EvidenceTyped, Carried
  <2> QED  BY <1>1, <2>2, <2>4 DEF n
<1>2. CASE ~rises /\ e.latched
  <2>1. n = [e EXCEPT !.frozenFor = e.life,
                      !.initialized = TRUE, !.prevLoaded = e.latched]
    BY <1>2 DEF P!Lifecycle
  <2> HIDE DEF n
  <2>2. /\ Carried(n, e) /\ n.removal = e.removal /\ n.active = e.active
        /\ n.latched = e.latched /\ SameLoad(n, e)
        /\ n.initialized = TRUE /\ n.prevLoaded = e.latched
    BY <1>0, <2>1 DEF Carried, EvidenceFields, SameLoad
  <2>3. EvidenceTyped(n)
    BY <1>0, <2>2 DEF EvidenceTyped, Carried, SameLoad
  <2> QED  BY <1>2, <2>2, <2>3 DEF n
<1>3. CASE ~e.latched
  <2>1. n = [e EXCEPT !.initialized = TRUE, !.prevLoaded = e.latched]
    BY <1>3 DEF P!Lifecycle
  <2> HIDE DEF n
  <2>2. /\ Carried(n, e) /\ n.removal = e.removal /\ n.active = e.active
        /\ n.latched = e.latched /\ SameLoad(n, e)
        /\ n.initialized = TRUE /\ n.prevLoaded = e.latched
        /\ n.frozenFor = e.frozenFor
    BY <1>0, <2>1 DEF Carried, EvidenceFields, SameLoad
  <2>3. EvidenceTyped(n)
    BY <1>0, <2>2 DEF EvidenceTyped, Carried, SameLoad
  <2> QED  BY <1>3, <2>2, <2>3 DEF n
<1> QED  BY <1>1, <1>2, <1>3

LEMMA TrackEdgeEffect ==
    ASSUME NEW e, EvidenceTyped(e), NEW f \in PipelineFrames
    PROVE  LET n == P!TrackEdge(e, f) IN
           /\ Carried(n, e) /\ SameLoad(n, e) /\ EvidenceTyped(n)
           /\ n.active = e.active /\ n.latched = e.latched
           /\ n.initialized = e.initialized /\ n.prevLoaded = e.prevLoaded
           /\ n.frozenFor = e.frozenFor
           /\ ~f.locked /\ e.active => n.removal = 0
           /\ ~(~f.locked /\ e.active) => n.removal = e.removal
<1> DEFINE n == P!TrackEdge(e, f)
<1>1. EvidenceFields = DOMAIN e
  BY DEF EvidenceTyped
<1>2. \/ f.locked /\ ~e.active /\ n = [e EXCEPT !.track = @ + 1]
      \/ ~f.locked /\ e.active /\ n = [e EXCEPT !.removal = 0]
      \/ ~(~f.locked /\ e.active) /\ n = e
  BY DEF P!TrackEdge
<1> HIDE DEF n
<1> DEFINE kept ==
        /\ Carried(n, e) /\ SameLoad(n, e)
        /\ n.active = e.active /\ n.latched = e.latched
        /\ n.initialized = e.initialized /\ n.prevLoaded = e.prevLoaded
        /\ n.frozenFor = e.frozenFor
        /\ ~f.locked /\ e.active => n.removal = 0
        /\ ~(~f.locked /\ e.active) => n.removal = e.removal
<1>3. kept
  <2>1. CASE f.locked /\ ~e.active /\ n = [e EXCEPT !.track = @ + 1]
    BY <1>1, <2>1 DEF Carried, SameLoad, EvidenceFields
  <2>2. CASE ~f.locked /\ e.active /\ n = [e EXCEPT !.removal = 0]
    BY <1>1, <2>2 DEF Carried, SameLoad, EvidenceFields
  <2>3. CASE ~(~f.locked /\ e.active) /\ n = e
    BY <2>3 DEF Carried, SameLoad
  <2> QED  BY <1>2, <2>1, <2>2, <2>3
<1>4. EvidenceTyped(n)
  BY <1>3 DEF EvidenceTyped, Carried, SameLoad
<1> QED  BY <1>3, <1>4 DEF n

-----------------------------------------------------------------------------
(* SafetyPipeline: what a frame says of the load.                          *)

\* Nothing shows an identified load in a frame that shows no load.
Unambiguous(e, f) ==
    e.role = "REQUIRED" \/ (f.outcome = "empty" => f.envelope # "identity")

\* The frame f counted as one that saw the way of the load clear.
Counted(n, f) ==
    /\ f.localized /\ f.freeze # "none" /\ f.live.raw = "clear"
    /\ ~(n.role = "REQUIRED" /\ hook = "EMPTY")

\* p is the status of the frame f, which leaves the evidence n.
Decides(p, n, f) ==
    \E s, w, oid :
        /\ p = P!Published(n, s, w, oid)
        /\ Stated(s)
        /\ Unambiguous(n, f) => Supported(s, w)
        /\ w.valid /\ w.code = P!Clear /\ s.cargo_valid =>
              /\ Counted(n, f) /\ n.clear.n >= Window
        /\ w.valid /\ w.code = P!AnomalyReview => n.life # 0

\* A step of the episode keeps the type of a review.
LEMMA EpisodeTyped ==
    ASSUME NEW r, NEW key, NEW code, r.since \in Nat,
           DOMAIN r = {"pending", "key", "active", "since", "cooling",
                       "cooled"},
           NEW n, n = P!Episode(r, key, code).r
    PROVE  DOMAIN n = DOMAIN r /\ n.since \in Nat
<1>1. {"pending", "key", "active", "since", "cooling", "cooled"}
         \subseteq DOMAIN r
  OBVIOUS
<1> DEFINE over == [r EXCEPT !.pending = 0, !.active = FALSE]
<1>2. DOMAIN over = DOMAIN r /\ over.since = r.since
  BY <1>1
<1>3. PICK t, k, a1, a2 :
         /\ t \in Nat
         /\ \/ n = r \/ n = over \/ n = [over EXCEPT !.cooling = 0]
            \/ n = [over EXCEPT !.cooling = Cooldown, !.cooled = k]
            \/ n = [over EXCEPT !.pending = a1, !.key = k, !.since = t]
            \/ n = [over EXCEPT !.active = a2, !.key = k, !.since = t]
  <2> DEFINE waiting == r.pending > 0 /\ r.key = key
             since == IF waiting THEN r.since ELSE 0
             c1 == IF waiting THEN r.pending + 1 ELSE 1
  <2>1. since \in Nat
    OBVIOUS
  <2>2. \/ n = r \/ n = over \/ n = [over EXCEPT !.cooling = 0]
        \/ n = [over EXCEPT !.cooling = Cooldown, !.cooled = key]
        \/ n = [over EXCEPT !.pending = c1, !.key = key, !.since = since]
        \/ n = [over EXCEPT !.active = TRUE, !.key = key, !.since = since]
    BY Zenon DEF P!Episode
  <2> HIDE DEF since, c1, over
  <2> QED  BY <2>1, <2>2
<1> HIDE DEF over
<1> QED  BY <1>1, <1>2, <1>3

\* What the status p of the frame f says of the evidence n.
Says(p, n, f) ==
    /\ \E r : p.e = [n EXCEPT !.review = r]
    /\ EvidenceTyped(p.e)
    /\ p.key[1] = n.life /\ p.key[4] = n.pose
    /\ Unambiguous(n, f) =>
          P!ValidateStatusContract(p.status) = p.status.requested
    /\ p.status.requested = P!Clear /\ p.status.cargo_valid =>
          Counted(n, f) /\ n.clear.n >= Window
    /\ p.status.requested = P!AnomalyReview =>
          LET step == P!Episode(n.review, p.key, P!AnomalyReview)
          IN  /\ n.life # 0 /\ step.out = P!AnomalyReview
              /\ p.e.review = step.r

LEMMA DecidedEffect ==
    ASSUME NEW n, EvidenceTyped(n), NEW f, NEW p, Decides(p, n, f)
    PROVE  Says(p, n, f)
<1>1. PICK s, w, oid :
        /\ p = P!Published(n, s, w, oid)
        /\ Stated(s)
        /\ Unambiguous(n, f) => Supported(s, w)
        /\ w.valid /\ w.code = P!Clear /\ s.cargo_valid =>
              /\ Counted(n, f) /\ n.clear.n >= Window
        /\ w.valid /\ w.code = P!AnomalyReview => n.life # 0
  BY DEF Decides
<1> DEFINE key == <<n.life, n.track, oid, n.pose>>
           d == P!DecisionInput(s, w)
           k == P!Phase(d)
           step == P!Episode(n.review, key, k)
           m == P!Compose(s, w, step.out)
<1>2. /\ p.e = [n EXCEPT !.review = step.r] /\ p.status = m
      /\ p.key = key
  BY <1>1 DEF P!Published
<1>3. p.key[1] = n.life /\ p.key[4] = n.pose
  BY <1>2
<1>4. m.requested = P!Decide(k, step.out) /\ m.cargo_valid = s.cargo_valid
  BY <1>1 DEF P!Compose, Stated, StatusFields
<1>5. /\ d.code = (IF w.valid THEN w.code ELSE 0)
      /\ d.cargo <=> P!CargoAccepted(s.hook_role, s.hook_load, s.cargo_valid)
      /\ d.empty => ~s.cargo_valid
      /\ d.ready => w.valid
  BY DEF P!DecisionInput, P!EmptyAccepted
<1>6. /\ P!FaultCodes = {30, 31, 32, 33, 34, 35}
      /\ P!PositiveCodes = {17, 18, 29}
      /\ P!Clear = 14 /\ P!AnomalyReview = 29 /\ P!ObstacleInvalid = 34
  BY DEF P!FaultCodes, P!PositiveCodes, P!Clear, P!Level1Warning,
     P!Level2Warning, P!AnomalyReview, P!SystemNotReady,
     P!LocalizationInvalid, P!GravityInvalid, P!CargoInvalid,
     P!ObstacleInvalid, P!InternalError
<1>7. /\ P!Decide(k, step.out) = 14 => k = 14
      /\ P!Decide(k, step.out) = 29 => k = 29 /\ step.out = 29
  BY <1>6 DEF P!Decide
<1>8. \/ k \in P!FaultCodes
      \/ k = d.code /\ d.code \in P!PositiveCodes /\ d.ready
      \/ k = 14 /\ d.cargo /\ d.code = 14 /\ d.ready
      \/ k = 14 /\ d.empty
  BY <1>6, PhaseCode DEF P!PositiveWarning
<1>9. Unambiguous(n, f) => P!ValidateStatusContract(m) = m.requested
  BY <1>1, ComposedIsAccepted
<1>10. DOMAIN step.r = DOMAIN n.review /\ step.r.since \in Nat
  BY EpisodeTyped DEF EvidenceTyped
<1>11. EvidenceTyped(p.e)
  <2>1. "review" \in DOMAIN n
    BY DEF EvidenceTyped, EvidenceFields
  <2> HIDE DEF step, key, m
  <2> DEFINE q == p.e
  <2>2. q = [n EXCEPT !.review = step.r]
    BY <1>2
  <2> HIDE DEF q
  <2>3. /\ DOMAIN q = DOMAIN n /\ q.review = step.r
        /\ q.role = n.role /\ q.life = n.life /\ q.sequence = n.sequence
        /\ q.pose = n.pose /\ q.empty = n.empty
        /\ q.initialized = n.initialized /\ q.prevLoaded = n.prevLoaded
        /\ q.latched = n.latched /\ q.active = n.active
        /\ q.clear = n.clear
    BY <2>1, <2>2
  <2>4. EvidenceTyped(q)
    BY <1>10, <2>3 DEF EvidenceTyped
  <2> QED  BY <2>4 DEF q
<1>12. m.requested = 14 /\ m.cargo_valid =>
          Counted(n, f) /\ n.clear.n >= Window
  <2> HIDE DEF m, step, k, d
  <2> QED  BY <1>1, <1>4, <1>5, <1>6, <1>7, <1>8 DEF P!CargoAccepted
<1>13. m.requested = 29 =>
          /\ n.life # 0 /\ step.out = 29 /\ k = 29
  <2> HIDE DEF m, step, k, d
  <2> QED  BY <1>1, <1>4, <1>5, <1>6, <1>7, <1>8
<1>14. m.requested = 29 =>
          LET st == P!Episode(n.review, p.key, 29)
          IN  /\ n.life # 0 /\ st.out = 29 /\ p.e.review = st.r
  <2>1. p.e.review = step.r
    <3> HIDE DEF step
    <3> QED  BY <1>2 DEF EvidenceTyped, EvidenceFields
  <2>2. k = 29 => step = P!Episode(n.review, p.key, 29)
    BY <1>2
  <2> HIDE DEF m, step, k, d, key
  <2> QED  BY <1>13, <2>1, <2>2
<1> HIDE DEF m, step, k, d, key
<1>15. \E r : p.e = [n EXCEPT !.review = r]
  BY <1>2
<1> QED  BY <1>2, <1>3, <1>6, <1>9, <1>11, <1>12, <1>14, <1>15 DEF Says

\* The distance of a standard warning is the one its live obstacle has.
LEMMA FusedDistance ==
    ASSUME NEW f \in PipelineFrames, NEW s
    PROVE  LET fused == P!Fuse(P!PendingInput(f, s))
           IN  fused.code \in P!StandardCodes => fused.hazard.dist \in Nat
<1> DEFINE i == P!PendingInput(f, s)
<1>1. i.live.dist \in Nat /\ i.static.dist \in Nat
  BY DEF P!PendingInput, P!StaticSource, PipelineFrames
<1>2. i.formal = FALSE
  BY DEF P!PendingInput
<1> HIDE DEF i
<1>3. \A x, y : P!Select(x, y, i).dist \in Nat
  BY <1>1 DEF P!Select, P!NoHazard, P!Beyond
<1>4. /\ \A k : P!Refused(k).hazard.dist \in Nat
      /\ \A one : P!Standard(one).hazard \in {one, P!NoHazard}
      /\ \A one : P!Review(one).hazard \in {one, P!NoHazard}
      /\ P!NoHazard.dist \in Nat
  BY DEF P!Refused, P!Standard, P!Review, P!Fused, P!NoHazard, P!Beyond
<1>5. \A x, y : /\ P!Standard(P!Select(x, y, i)).hazard.dist \in Nat
                /\ P!Review(P!Select(x, y, i)).hazard.dist \in Nat
  BY <1>3, <1>4
<1>6. P!FusePending(i).hazard.dist \in Nat
  BY <1>4, <1>5 DEF P!FusePending, P!HistoryReview
<1> QED  BY <1>2, <1>4, <1>6 DEF P!Fuse, i

LEMMA CountTyped ==
    ASSUME NEW e, EvidenceTyped(e), NEW f, NEW k, k = P!ClearEvidence(e, f)
    PROVE  /\ DOMAIN k = {"n", "pose", "age"}
           /\ k.n \in Nat /\ k.age \in Nat
<1>1. e.clear.n + 1 \in Nat /\ Window \in Nat
  BY PipelineAssumption DEF EvidenceTyped
<1>2. P!Less(e.clear.n + 1, Window) \in Nat
  BY <1>1 DEF P!Less
<1> QED  BY <1>2 DEF P!ClearEvidence, P!CountClear, P!NoClear

\* Deciding changes neither what is known of the load nor of its past.
Rest(n, e) ==
    /\ DOMAIN n = DOMAIN e
    /\ n.role = e.role /\ n.last = e.last /\ n.pose = e.pose
    /\ n.empty = e.empty /\ n.review = e.review
    /\ n.life = e.life /\ n.sequence = e.sequence
    /\ n.latched = e.latched /\ n.active = e.active
    /\ n.initialized = e.initialized /\ n.prevLoaded = e.prevLoaded
    /\ n.frozenFor = e.frozenFor

LEMMA HookOnlyDecides ==
    ASSUME NEW e, EvidenceTyped(e), NEW f \in PipelineFrames,
           NEW initialized, NEW p, Seen(p),
           p.code = P!AnomalyReview => e.life # 0,
           Unambiguous(e, f) /\ p.code # 0 /\ hook = "LOADED" =>
              ~ShownEmpty(e, f)
    PROVE  Decides(P!HookOnly(e, f, initialized, p), e, f)
<1>1. e.role \in P!HookRoles
  BY PipelineAssumption DEF EvidenceTyped, P!HookRoles
<1>5. Tells(P!HookOnly(e, f, initialized, p), e, f, p)
  BY <1>1, HookOnlySupported
<1>2. PICK s, w :
         /\ P!HookOnly(e, f, initialized, p) = P!Published(e, s, w, p.oid)
         /\ Stated(s) /\ s.cargo_valid = FALSE
         /\ (p.code # 0 /\ hook = "LOADED" => ~ShownEmpty(e, f))
               => Supported(s, w)
         /\ w.valid /\ w.code = P!AnomalyReview => p.code = w.code
  BY <1>5 DEF Tells
<1>3. Unambiguous(e, f) => Supported(s, w)
  BY <1>2
<1>4. w.valid /\ w.code = P!AnomalyReview => e.life # 0
  BY <1>2
<1> QED  BY <1>2, <1>3, <1>4 DEF Decides

LEMMA NothingSeenDecides ==
    ASSUME NEW e, EvidenceTyped(e), NEW f \in PipelineFrames, NEW initialized
    PROVE  Decides(P!HookOnly(e, f, initialized, P!NoProvisional), e, f)
<1>1. P!NoProvisional.code = 0
  BY DEF P!NoProvisional
<1>2. Seen(P!NoProvisional)
  BY <1>1 DEF Seen
<1> QED  BY <1>1, <1>2, HookOnlyDecides DEF P!AnomalyReview

LEMMA LostDecides ==
    ASSUME NEW e, EvidenceTyped(e), NEW f \in PipelineFrames
    PROVE  Decides(P!LocalizationLost(e, f), e, f)
<1>1. e.role \in P!HookRoles
  BY PipelineAssumption DEF EvidenceTyped, P!HookRoles
<1>2. PICK s, w :
         /\ P!LocalizationLost(e, f) = P!Published(e, s, w, 0)
         /\ Stated(s) /\ Supported(s, w) /\ s.cargo_valid = FALSE
         /\ ~w.valid
  BY <1>1, LostSupported
<1> QED  BY <1>2 DEF Decides

LEMMA PendingEffect ==
    ASSUME NEW e, EvidenceTyped(e), NEW f \in PipelineFrames,
           e.empty > 0 => f.outcome = "empty"
    PROVE  \E n : /\ Decides(P!PendingAvoidance(e, f), n, f)
                  /\ Rest(n, e) /\ n.clear = e.clear
                  /\ n.removal = e.removal
<1> DEFINE e1 == P!PendingContext(e, f)
           s == P!TrackStatic(e1, f, f.static.contract /\ P!Identity(f))
           n == [e1 EXCEPT !.static = s]
           fused == P!Fuse(P!PendingInput(f, s))
           kept == P!Committed(fused, P!Identity(f), n.life, 1,
                               P!ObstacleId(fused))
           pr == IF kept THEN P!Provisional(fused, f) ELSE P!NoProvisional
<1>1. EvidenceFields = DOMAIN e
  BY DEF EvidenceTyped
<1>2. \/ e1 = e
      \/ \E x : e1 = [e EXCEPT !.static = P!NoStatic, !.context = x]
  BY DEF P!PendingContext
<1>3. Rest(e1, e) /\ e1.clear = e.clear /\ e1.removal = e.removal
  <2> HIDE DEF e1
  <2> QED  BY <1>1, <1>2 DEF Rest, EvidenceFields
<1>4. Rest(n, e) /\ n.clear = e.clear /\ n.removal = e.removal
  <2> HIDE DEF e1, s
  <2> QED  BY <1>1, <1>3 DEF Rest, EvidenceFields
<1>5. P!PendingAvoidance(e, f) =
         IF ~f.matched THEN P!LocalizationLost(n, f)
         ELSE P!HookOnly(n, f, TRUE, pr)
  BY DEF P!PendingAvoidance
<1>6. P!PendingInput(f, s).static.certified = FALSE
  BY DEF P!PendingInput, P!StaticSource, P!Certified
<1>7. fused.code \in P!StandardCodes =>
         /\ fused.hazard.from = "LIVE"
         /\ fused.code = P!WarningCode(fused.hazard.dist)
  BY <1>6, StandardIsLive
<1>8. fused.code \in P!StandardCodes => fused.hazard.dist \in Nat
  BY <1>6, FusedDistance
<1> HIDE DEF e1, s, n, fused
<1>9. EvidenceTyped(n)
  BY <1>4 DEF EvidenceTyped, Rest
<1>10. /\ P!PositiveCodes = {17, 18, 29} /\ P!StandardCodes = {17, 18}
       /\ P!Level1Warning = 17 /\ P!Level2Warning = 18
       /\ P!AnomalyReview = 29
  BY DEF P!PositiveCodes, P!StandardCodes, P!Level1Warning,
     P!Level2Warning, P!AnomalyReview
<1>11. pr.code # 0 => /\ kept /\ fused.code \in P!PositiveCodes
                      /\ pr = P!Provisional(fused, f)
                      /\ pr.code = fused.code
                      /\ pr.dist = fused.hazard.dist
                      /\ pr.contract = (fused.hazard.from = "LIVE")
  BY DEF P!Provisional, P!NoProvisional
<1>12. pr.code # 0 => P!Identity(f) /\ n.life # 0
  BY <1>11 DEF P!Committed
<1> HIDE DEF pr, kept
<1>13. Seen(pr)
  BY <1>7, <1>8, <1>10, <1>11, WarningBand DEF Seen
<1>14. Unambiguous(n, f) /\ pr.code # 0 /\ hook = "LOADED" =>
          ~ShownEmpty(n, f)
  <2>1. n.empty = e.empty /\ n.empty \in Nat
    BY <1>4, <1>9 DEF Rest, EvidenceTyped
  <2>2. Window > 0 /\ Window \in Nat
    BY PipelineAssumption
  <2>3. n.empty >= Window => f.outcome = "empty"
    BY <2>1, <2>2
  <2> QED  BY <1>12, <2>3 DEF Unambiguous, ShownEmpty, P!Identity
<1>15. pr.code = P!AnomalyReview => n.life # 0
  BY <1>10, <1>12
<1>16. Decides(P!HookOnly(n, f, TRUE, pr), n, f)
  BY <1>9, <1>13, <1>14, <1>15, HookOnlyDecides
<1>17. Decides(P!LocalizationLost(n, f), n, f)
  BY <1>9, LostDecides
<1>18. Decides(P!PendingAvoidance(e, f), n, f)
  BY <1>5, <1>16, <1>17
<1> QED  BY <1>4, <1>18

LEMMA FormalEffect ==
    ASSUME NEW e, EvidenceTyped(e), NEW f \in PipelineFrames,
           f.localized, f.freeze # "none", e.life # 0,
           ~(e.role = "REQUIRED" /\ hook = "EMPTY")
    PROVE  \E n : /\ Decides(P!FormalAvoidance(e, f), n, f)
                  /\ Rest(n, e) /\ n.clear = P!ClearEvidence(e, f)
<1> DEFINE e1 == [e EXCEPT
                    !.clear = P!ClearEvidence(e, f),
                    !.removal = IF P!RemovalAuthorized(e, f)
                                THEN e.track ELSE 0,
                    !.hygiene = P!HygieneAuthorized(e, f)]
           r == P!LiveResult(e1, f)
           s == P!TrackStatic(e1, f, f.static.contract)
           n == [e1 EXCEPT !.static = s]
           i == P!FormalInput(n, f, r, s)
           fused == P!Fuse(i)
           kept == P!Committed(fused, TRUE, n.life, n.track,
                               P!ObstacleId(fused))
           res == P!Rewritten(r, fused, kept, i.formal)
           base == P!BaseStatus(n, f)
           m == [base EXCEPT
                   !.cargo_valid = f.height, !.evidence = res.evidence,
                   !.obstacle_valid = res.input /\ res.fault = "NONE",
                   !.obstacle_count = res.count,
                   !.distance = P!Band(res.dist),
                   !.clearance = IF res.code = P!Clear THEN "OK" ELSE "LOW",
                   !.track_contract = P!Tracked(f)]
           w == [P!NoWarning EXCEPT
                   !.fault = res.fault, !.code = res.code,
                   !.valid = res.code # 0,
                   !.clearAuthorized = P!ClearAuthorized(n, f)]
<1>1. P!FormalAvoidance(e, f) =
         IF ~f.matched THEN P!LocalizationLost(n, f)
         ELSE P!Published(n, m, w, P!ObstacleId(fused))
  BY DEF P!FormalAvoidance
<1>2. /\ Rest(e1, e) /\ e1.clear = P!ClearEvidence(e, f)
  <2>1. EvidenceFields = DOMAIN e
    BY DEF EvidenceTyped
  <2> QED  BY <2>1 DEF Rest, EvidenceFields
<1>3. Rest(n, e) /\ n.clear = e1.clear
  <2>1. EvidenceFields = DOMAIN e1
    BY <1>2 DEF EvidenceTyped, Rest
  <2> HIDE DEF e1, s
  <2> QED  BY <1>2, <2>1 DEF Rest, EvidenceFields
<1>4. EvidenceTyped(n)
  <2>1. n.clear = P!ClearEvidence(e, f)
    BY <1>2, <1>3
  <2>2. /\ DOMAIN n.clear = {"n", "pose", "age"}
        /\ n.clear.n \in Nat /\ n.clear.age \in Nat
    BY <2>1, CountTyped
  <2> HIDE DEF n
  <2> QED  BY <1>3, <2>2 DEF EvidenceTyped, Rest
<1>5. r = P!LiveResult(e1, f)
  OBVIOUS
<1>6. i.static.certified = FALSE
  BY DEF P!FormalInput, P!StaticSource, P!Certified
<1>7. fused.code \in P!StandardCodes => fused.hazard.from = "LIVE"
  BY <1>6, StandardIsLive
<1> HIDE DEF e1, r, s, n, i, fused
<1>8. /\ res.code \in {0, 14, 17, 18, 29}
      /\ res.count \in {0, 1}
      /\ res.code = 14 => /\ n.clear.n >= Window /\ f.live.raw = "clear"
      /\ res.code \in {17, 18, 29} => res.count = 1
      /\ res.code = 17 => P!Band(res.dist) = "L1"
      /\ res.code = 18 => P!Band(res.dist) = "L2"
  <2>1. f.live.dist \in Nat /\ P!WarningCode(f.live.dist) \in {0, 17, 18}
    BY WarningBand DEF PipelineFrames
  <2>2. /\ P!StandardCodes = {17, 18} /\ P!Clear = 14
        /\ P!AnomalyReview = 29 /\ P!ObstacleInvalid = 34
    BY DEF P!StandardCodes, P!Level1Warning, P!Level2Warning, P!Clear,
       P!AnomalyReview, P!ObstacleInvalid
  <2>3. \/ r.code = 0 /\ r.count = 0
        \/ /\ r.code = P!WarningCode(f.live.dist) /\ r.count = 1
           /\ r.dist = f.live.dist
        \/ /\ r.code = 14 /\ r.count \in {0, 1}
           /\ e1.clear.n >= Window /\ f.live.raw = "clear"
    BY <1>5, <2>2 DEF P!LiveResult, P!Pending, P!Usable, P!RawHazard,
       PipelineFrames
  <2>4. \/ res.code = 0 /\ res.count = 0
        \/ res.code = 29 /\ res.count = 1
        \/ res = r
    BY <1>7, <2>2 DEF P!Rewritten, P!Pending, P!Usable
  <2> HIDE DEF res
  <2>5. CASE res.code = 0 /\ res.count = 0
    BY <2>5
  <2>6. CASE res.code = 29 /\ res.count = 1
    BY <2>6
  <2>7. CASE res = r
    <3>1. CASE r.code = 0 /\ r.count = 0
      BY <2>7, <3>1
    <3>2. CASE /\ r.code = P!WarningCode(f.live.dist) /\ r.count = 1
               /\ r.dist = f.live.dist
      <4>1. /\ r.code = 17 => P!Band(r.dist) = "L1"
            /\ r.code = 18 => P!Band(r.dist) = "L2"
        BY <2>1, <3>2, WarningBand
      <4> QED  BY <2>1, <2>7, <3>2, <4>1
    <3>3. CASE /\ r.code = 14 /\ r.count \in {0, 1}
               /\ e1.clear.n >= Window /\ f.live.raw = "clear"
      BY <1>3, <2>7, <3>3
    <3> QED  BY <2>3, <3>1, <3>2, <3>3
  <2> QED  BY <2>4, <2>5, <2>6, <2>7
<1>9. /\ Stated(base) /\ base.no_cargo_confirmed = FALSE
  <2>1. n.role \in P!HookRoles
    BY <1>4, PipelineAssumption DEF EvidenceTyped, P!HookRoles
  <2> QED  BY <2>1, BaseStated
<1>10. f.height \in BOOLEAN
  BY DEF PipelineFrames
<1>11. (res.input /\ res.fault = "NONE") \in BOOLEAN
  OBVIOUS
<1> HIDE DEF res, base
<1>12. /\ DOMAIN m = DOMAIN base
       /\ m.schema_valid = base.schema_valid
       /\ m.finite_geometry = base.finite_geometry
       /\ m.hook_role = base.hook_role /\ m.hook_valid = base.hook_valid
       /\ m.hook_load = base.hook_load
       /\ m.localization_valid = base.localization_valid
       /\ m.no_cargo_confirmed = base.no_cargo_confirmed
       /\ m.cargo_valid = f.height
       /\ m.obstacle_valid \in BOOLEAN
       /\ m.obstacle_count = res.count
       /\ m.distance = P!Band(res.dist)
       /\ m.clearance = IF res.code = P!Clear THEN "OK" ELSE "LOW"
  BY <1>9, <1>11 DEF Stated, StatusFields
<1>13. /\ w.code = res.code /\ w.valid = (res.code # 0)
       /\ w.provisional = FALSE
  BY DEF P!NoWarning
<1> HIDE DEF m, w
<1>14. Stated(m)
  BY <1>9, <1>10, <1>12 DEF Stated
<1>15. Supported(m, w)
  <2>1. /\ P!PositiveCodes = {17, 18, 29} /\ P!Clear = 14
        /\ P!Level1Warning = 17 /\ P!Level2Warning = 18
    BY DEF P!PositiveCodes, P!Level1Warning, P!Level2Warning, P!Clear,
       P!AnomalyReview
  <2>2. ~m.no_cargo_confirmed
    BY <1>9, <1>12
  <2>3. w.code \in {17, 18, 29} =>
            m.obstacle_count = 1 /\ m.clearance = "LOW"
    BY <1>8, <1>12, <1>13, <2>1
  <2>4. w.code = 14 => m.obstacle_count \in {0, 1} /\ m.clearance = "OK"
    BY <1>8, <1>12, <1>13, <2>1
  <2>5. /\ w.code = 17 => m.distance = "L1"
        /\ w.code = 18 => m.distance = "L2"
    BY <1>8, <1>12, <1>13
  <2>6. w.valid \in BOOLEAN /\ w.provisional = FALSE
    BY <1>13
  <2>7. ASSUME w.code = 14
        PROVE  \/ m.obstacle_count = 0
               \/ m.obstacle_count > 0 /\ m.clearance = "OK"
    BY <2>4, <2>7
  <2>8. w.code \in {17, 18, 29} => m.obstacle_count > 0
    BY <2>3
  <2> QED  BY <2>1, <2>2, <2>3, <2>5, <2>6, <2>7, <2>8 DEF Supported
<1>16. /\ w.code = P!Clear => Counted(n, f) /\ n.clear.n >= Window
       /\ n.life # 0
  <2>1. n.role = e.role /\ n.life = e.life
    BY <1>2, <1>3 DEF Rest
  <2> QED  BY <1>8, <1>13, <2>1 DEF Counted, P!Clear
<1>17. Decides(P!Published(n, m, w, P!ObstacleId(fused)), n, f)
  BY <1>14, <1>15, <1>16 DEF Decides
<1>18. Decides(P!LocalizationLost(n, f), n, f)
  BY <1>4, LostDecides
<1>19. Decides(P!FormalAvoidance(e, f), n, f)
  BY <1>1, <1>17, <1>18
<1> QED  BY <1>2, <1>3, <1>19

-----------------------------------------------------------------------------
(* SafetyPipeline: a frame from one half to the other.                     *)

HookStates == {"EMPTY", "LOADED", "UNKNOWN"}

\* A present load was born, and only its geometry can be frozen.
Steady(e) ==
    /\ e.latched => e.initialized /\ e.prevLoaded
    /\ e.frozenFor # 0 => e.latched

\* What recognition can have seen of the load.
Fits(e, f) ==
    /\ f.freeze # "none" => f.locked /\ e.frozenFor # 0 /\ e.life # 0
    /\ e.empty > 0 => f.outcome = "empty" /\ ~f.locked

Borne(n, e) == n.sequence = e.sequence + 1 /\ n.life = e.sequence + 1

LEMMA SettledEffect ==
    ASSUME NEW e, EvidenceTyped(e), Steady(e), NEW f \in PipelineFrames,
           hook \in HookStates
    PROVE  LET n == P!Cleared(P!Presence(e, f)) IN
           /\ EvidenceTyped(n) /\ Carried(n, e) /\ SameLoad(n, e)
           /\ n.removal = e.removal /\ n.active = e.active
           /\ n.frozenFor # 0 => n.latched
           /\ n.latched /\ e.latched => n.initialized /\ n.prevLoaded
           /\ e.latched /\ ~n.latched =>
                 hook = "EMPTY" \/ e.role = "DISABLED"
           /\ n.latched /\ ~e.latched =>
                 hook = "LOADED" \/ e.role = "DISABLED"
           /\ n.clearAllowed => ~n.latched
           /\ e.role # "DISABLED" => (n.clearAllowed <=> hook = "EMPTY")
<1> DEFINE p == P!Presence(e, f)
           n == P!Cleared(p)
<1>1. /\ Carried(p, e) /\ SameLoad(p, e)
      /\ p.removal = e.removal /\ p.active = e.active
      /\ p.initialized = e.initialized /\ p.prevLoaded = e.prevLoaded
      /\ p.frozenFor = e.frozenFor
      /\ p.latched \in BOOLEAN /\ p.clearAllowed \in BOOLEAN
      /\ p.clearAllowed => ~p.latched
      /\ e.latched /\ ~p.latched => p.clearAllowed
      /\ p.latched /\ ~e.latched => hook = "LOADED" \/ e.role = "DISABLED"
      /\ e.role # "DISABLED" =>
            /\ p.clearAllowed <=> hook = "EMPTY"
            /\ hook = "LOADED" => p.latched
  BY PresenceEffect DEF HookStates
<1> HIDE DEF p
<1>2. DOMAIN p = EvidenceFields
  BY <1>1 DEF Carried, EvidenceTyped
<1>3. /\ Carried(n, p) /\ SameLoad(n, p)
      /\ n.removal = p.removal /\ n.active = p.active
      /\ n.latched = p.latched /\ n.clearAllowed = p.clearAllowed
      /\ ~p.clearAllowed => n = p
      /\ p.clearAllowed =>
            /\ n.initialized = TRUE /\ n.prevLoaded = FALSE
            /\ \/ n.frozenFor = 0
               \/ ~(~p.initialized \/ p.prevLoaded)
                  /\ n.frozenFor = p.frozenFor
  BY <1>2, ClearedEffect
<1> HIDE DEF n
<1>4. Carried(n, e) /\ SameLoad(n, e)
  BY <1>1, <1>3 DEF Carried, SameLoad
<1>5. n.initialized \in BOOLEAN /\ n.prevLoaded \in BOOLEAN
  BY <1>1, <1>3 DEF EvidenceTyped
<1>6. EvidenceTyped(n)
  BY <1>1, <1>3, <1>4, <1>5 DEF EvidenceTyped, Carried, SameLoad
<1>7. n.frozenFor # 0 => n.latched
  <2>1. CASE p.clearAllowed
    BY <1>1, <1>3, <2>1 DEF Steady
  <2>2. CASE ~p.clearAllowed
    BY <1>1, <1>3, <2>2 DEF Steady
  <2> QED  BY <2>1, <2>2
<1>8. n.latched /\ e.latched => n.initialized /\ n.prevLoaded
  BY <1>1, <1>3 DEF Steady
<1> QED  BY <1>1, <1>3, <1>4, <1>6, <1>7, <1>8 DEF n, p

LEMMA EnteredEffect ==
    ASSUME NEW n, EvidenceTyped(n), n.frozenFor # 0 => n.latched,
           NEW f \in PipelineFrames
    PROVE  LET m == [P!Lifecycle(P!TrackEdge(n, f))
                        EXCEPT !.active = f.locked]
           IN /\ EvidenceTyped(m) /\ Steady(m) /\ Carried(m, n)
              /\ m.latched = n.latched /\ m.active = f.locked
              /\ \/ SameLoad(m, n)
                 \/ /\ n.latched /\ ~(n.initialized /\ n.prevLoaded)
                    /\ Borne(m, n)
              /\ ~f.locked /\ n.active => m.removal = 0
              /\ ~(~f.locked /\ n.active) => m.removal = n.removal
<1> DEFINE t == P!TrackEdge(n, f)
           l == P!Lifecycle(t)
           m == [l EXCEPT !.active = f.locked]
           rises == t.latched /\ (~t.initialized \/ ~t.prevLoaded)
<1>1. /\ Carried(t, n) /\ SameLoad(t, n) /\ EvidenceTyped(t)
      /\ t.active = n.active /\ t.latched = n.latched
      /\ t.initialized = n.initialized /\ t.prevLoaded = n.prevLoaded
      /\ t.frozenFor = n.frozenFor
      /\ ~f.locked /\ n.active => t.removal = 0
      /\ ~(~f.locked /\ n.active) => t.removal = n.removal
  BY TrackEdgeEffect
<1> HIDE DEF t
<1>2. /\ Carried(l, t) /\ EvidenceTyped(l)
      /\ l.removal = t.removal /\ l.active = t.active
      /\ l.latched = t.latched
      /\ l.initialized = TRUE /\ l.prevLoaded = t.latched
      /\ rises => Borne(l, t) /\ l.frozenFor = 0
      /\ ~rises => /\ SameLoad(l, t)
                   /\ ~t.latched => l.frozenFor = t.frozenFor
  BY <1>1, LifecycleEffect DEF Borne
<1> HIDE DEF l
<1>3. /\ DOMAIN m = DOMAIN l
      /\ Carried(m, l) /\ SameLoad(m, l)
      /\ m.removal = l.removal /\ m.active = f.locked
      /\ m.latched = l.latched /\ m.initialized = l.initialized
      /\ m.prevLoaded = l.prevLoaded /\ m.frozenFor = l.frozenFor
  <2>1. DOMAIN l = EvidenceFields
    BY <1>2 DEF EvidenceTyped
  <2> QED  BY <2>1 DEF Carried, SameLoad, EvidenceFields
<1> HIDE DEF m
<1>4. EvidenceTyped(m)
  <2>1. f.locked \in BOOLEAN
    BY DEF PipelineFrames
  <2> QED  BY <1>2, <1>3, <2>1 DEF EvidenceTyped, Carried, SameLoad
<1>5. Steady(m)
  BY <1>1, <1>2, <1>3 DEF Steady, EvidenceTyped
<1>6. Carried(m, n)
  BY <1>1, <1>2, <1>3 DEF Carried
<1>7. \/ SameLoad(m, n)
      \/ /\ n.latched /\ ~(n.initialized /\ n.prevLoaded)
         /\ Borne(m, n)
  BY <1>1, <1>2, <1>3 DEF SameLoad, Borne
<1> QED  BY <1>1, <1>2, <1>3, <1>4, <1>5, <1>6, <1>7 DEF m, l, t

\* What the frame f leaves of the evidence e.
Left(n, e, f) ==
    /\ EvidenceTyped(n) /\ Steady(n)
    /\ n.role = e.role /\ n.last = e.last /\ n.pose = e.pose
    /\ n.empty = e.empty /\ n.review = e.review
    /\ SameLoad(n, e) \/ (Borne(n, e) /\ ~e.latched /\ n.latched)
    /\ e.latched /\ ~n.latched => hook = "EMPTY" \/ e.role = "DISABLED"
    /\ n.latched /\ ~e.latched => hook = "LOADED" \/ e.role = "DISABLED"
    /\ \/ /\ n.clear = e.clear
          /\ \/ f.freeze = "none" \/ ~f.localized
             \/ e.role = "REQUIRED" /\ hook = "EMPTY"
       \/ /\ f.localized /\ f.freeze # "none" /\ SameLoad(n, e)
          /\ n.clear = P!ClearEvidence(e, f)
    /\ n.removal # 0 => SameLoad(n, e) /\ n.active /\ n.life # 0

LEMMA RecognisedEffect ==
    ASSUME NEW e, EvidenceTyped(e), Steady(e), NEW f \in PipelineFrames,
           hook \in HookStates, Fits(e, f),
           e.removal # 0 => e.active /\ e.life # 0, f.localized,
           ~(e.role = "REQUIRED" /\ hook = "EMPTY"),
           NEW k, k = P!Cleared(P!Presence(e, f))
    PROVE  \E n : Decides(P!Recognised(k, f), n, f) /\ Left(n, e, f)
<1> DEFINE m == [P!Lifecycle(P!TrackEdge(k, f)) EXCEPT !.active = f.locked]
           z == [m EXCEPT !.removal = 0]
<1>1. /\ EvidenceTyped(k) /\ Carried(k, e) /\ SameLoad(k, e)
      /\ k.removal = e.removal /\ k.active = e.active
      /\ k.frozenFor # 0 => k.latched
      /\ k.latched /\ e.latched => k.initialized /\ k.prevLoaded
      /\ e.latched /\ ~k.latched => hook = "EMPTY" \/ e.role = "DISABLED"
      /\ k.latched /\ ~e.latched => hook = "LOADED" \/ e.role = "DISABLED"
  BY SettledEffect
<1>2. /\ EvidenceTyped(m) /\ Steady(m) /\ Carried(m, k)
      /\ m.latched = k.latched /\ m.active = f.locked
      /\ \/ SameLoad(m, k)
         \/ k.latched /\ ~(k.initialized /\ k.prevLoaded) /\ Borne(m, k)
      /\ ~f.locked /\ k.active => m.removal = 0
      /\ ~(~f.locked /\ k.active) => m.removal = k.removal
  BY <1>1, EnteredEffect
<1>3. P!Recognised(k, f) =
         IF m.latched /\ ~P!FrozenReady(f) /\ f.envelope # "none"
         THEN P!PendingAvoidance(z, f)
         ELSE IF ~f.locked THEN P!HookOnly(m, f, FALSE, P!NoProvisional)
         ELSE IF ~P!FrozenReady(f)
         THEN P!HookOnly(z, f, FALSE, P!NoProvisional)
         ELSE P!FormalAvoidance(m, f)
  BY DEF P!Recognised
<1> HIDE DEF m
<1>4. /\ Carried(m, e)
      /\ SameLoad(m, e) \/ (Borne(m, e) /\ ~e.latched /\ m.latched)
  BY <1>1, <1>2 DEF Carried, SameLoad, Borne, EvidenceTyped
<1>5. Rest(z, m) /\ z.clear = m.clear /\ z.removal = 0
  <2>1. DOMAIN m = EvidenceFields
    BY <1>2 DEF EvidenceTyped
  <2> QED  BY <2>1 DEF Rest, EvidenceFields
<1> HIDE DEF z
<1>6. EvidenceTyped(z)
  BY <1>2, <1>5 DEF EvidenceTyped, Rest
<1>7. ASSUME NEW n, Rest(n, m), n.clear = m.clear, f.freeze = "none",
             n.removal = 0 \/ (n.removal = m.removal /\ ~f.locked)
      PROVE  Left(n, e, f)
  <2>1. EvidenceTyped(n) /\ Steady(n)
    BY <1>2, <1>7 DEF EvidenceTyped, Steady, Rest
  <2>2. n.removal = 0
    BY <1>1, <1>2, <1>7 DEF EvidenceTyped
  <2>3. SameLoad(n, e) \/ (Borne(n, e) /\ ~e.latched /\ n.latched)
    BY <1>4, <1>7 DEF Rest, SameLoad, Borne
  <2>4. /\ n.role = e.role /\ n.last = e.last /\ n.pose = e.pose
        /\ n.empty = e.empty /\ n.review = e.review
        /\ n.clear = e.clear /\ n.latched = k.latched
    BY <1>2, <1>4, <1>7 DEF Rest, Carried
  <2> QED  BY <1>1, <1>7, <2>1, <2>2, <2>3, <2>4 DEF Left
<1>8. CASE m.latched /\ ~P!FrozenReady(f) /\ f.envelope # "none"
  <2>1. z.empty > 0 => f.outcome = "empty"
    BY <1>4, <1>5 DEF Rest, Carried, Fits
  <2>2. PICK n : /\ Decides(P!PendingAvoidance(z, f), n, f)
                 /\ Rest(n, z) /\ n.clear = z.clear
                 /\ n.removal = z.removal
    BY <1>6, <2>1, PendingEffect
  <2>3. Rest(n, m) /\ n.clear = m.clear /\ n.removal = 0
    BY <1>5, <2>2 DEF Rest
  <2>4. f.freeze = "none"
    BY <1>8 DEF P!FrozenReady
  <2>5. Left(n, e, f)
    BY <1>7, <2>3, <2>4
  <2> QED  BY <1>3, <1>8, <2>2, <2>5
<1>9. CASE /\ ~(m.latched /\ ~P!FrozenReady(f) /\ f.envelope # "none")
           /\ ~f.locked
  <2>1. Decides(P!HookOnly(m, f, FALSE, P!NoProvisional), m, f)
    BY <1>2, NothingSeenDecides
  <2>2. f.freeze = "none"
    BY <1>9 DEF Fits
  <2>3. Rest(m, m)
    BY DEF Rest
  <2>4. Left(m, e, f)
    BY <1>7, <1>9, <2>2, <2>3
  <2> QED  BY <1>3, <1>9, <2>1, <2>4
<1>10. CASE /\ ~(m.latched /\ ~P!FrozenReady(f) /\ f.envelope # "none")
            /\ f.locked /\ ~P!FrozenReady(f)
  <2>1. Decides(P!HookOnly(z, f, FALSE, P!NoProvisional), z, f)
    BY <1>6, NothingSeenDecides
  <2>2. f.freeze = "none"
    BY <1>10 DEF P!FrozenReady
  <2>3. Left(z, e, f)
    BY <1>5, <1>7, <2>2
  <2> QED  BY <1>3, <1>10, <2>1, <2>3
<1>11. CASE f.locked /\ P!FrozenReady(f)
  <2>1. /\ f.freeze # "none" /\ e.frozenFor # 0 /\ e.life # 0
        /\ e.latched
    BY <1>11 DEF P!FrozenReady, Fits, Steady
  <2>2. SameLoad(m, e) /\ m.life # 0
    BY <1>4, <2>1 DEF SameLoad
  <2>3. PICK n : /\ Decides(P!FormalAvoidance(m, f), n, f)
                 /\ Rest(n, m) /\ n.clear = P!ClearEvidence(m, f)
    <3>1. m.role = e.role
      BY <1>4 DEF Carried
    <3> QED  BY <1>2, <2>1, <2>2, <3>1, FormalEffect
  <2>4. n.clear = P!ClearEvidence(e, f)
    BY <1>4, <2>3 DEF P!ClearEvidence, P!CountClear, Carried
  <2>5. /\ DOMAIN n.clear = {"n", "pose", "age"}
        /\ n.clear.n \in Nat /\ n.clear.age \in Nat
    BY <2>4, CountTyped
  <2>6. EvidenceTyped(n) /\ Steady(n)
    BY <1>2, <2>3, <2>5 DEF EvidenceTyped, Steady, Rest
  <2>7. /\ SameLoad(n, e) /\ n.active /\ n.life # 0
    BY <1>2, <1>11, <2>2, <2>3 DEF SameLoad, Rest
  <2>8. /\ n.role = e.role /\ n.last = e.last /\ n.pose = e.pose
        /\ n.empty = e.empty /\ n.review = e.review
        /\ n.latched = k.latched
    BY <1>2, <1>4, <2>3 DEF Rest, Carried
  <2>9. Left(n, e, f)
    BY <1>1, <2>1, <2>4, <2>6, <2>7, <2>8 DEF Left
  <2> QED  BY <1>3, <1>11, <2>3, <2>9
<1> QED  BY <1>8, <1>9, <1>10, <1>11

LEMMA PipelineEffect ==
    ASSUME EvidenceTyped(c), Steady(c), NEW f \in PipelineFrames,
           hook \in HookStates, Fits(c, f),
           c.removal # 0 => c.active /\ c.life # 0
    PROVE  \E n : Decides(P!Pipeline(f), n, f) /\ Left(n, c, f)
<1> DEFINE k == P!Cleared(P!Presence(c, f))
           l == P!Lifecycle(k)
<1>1. /\ EvidenceTyped(k) /\ Carried(k, c) /\ SameLoad(k, c)
      /\ k.removal = c.removal /\ k.active = c.active
      /\ k.frozenFor # 0 => k.latched
      /\ k.latched /\ c.latched => k.initialized /\ k.prevLoaded
      /\ c.latched /\ ~k.latched => hook = "EMPTY" \/ c.role = "DISABLED"
      /\ k.latched /\ ~c.latched => hook = "LOADED" \/ c.role = "DISABLED"
      /\ k.clearAllowed => ~k.latched
      /\ c.role # "DISABLED" => (k.clearAllowed <=> hook = "EMPTY")
  BY SettledEffect
<1>2. CASE ~f.localized
  <2>1. Decides(P!LocalizationLost(c, f), c, f)
    BY LostDecides
  <2>2. Left(c, c, f)
    BY <1>2 DEF Left, SameLoad
  <2> QED  BY <1>2, <2>1, <2>2 DEF P!Pipeline
<1>3. ASSUME NEW n, Carried(n, k), SameLoad(n, k), n.latched = k.latched,
             ~n.latched, n.frozenFor = k.frozenFor, EvidenceTyped(n),
             n.removal = k.removal, n.active = k.active,
             \/ f.freeze = "none"
             \/ c.role = "REQUIRED" /\ hook = "EMPTY"
      PROVE  Left(n, c, f)
  <2>1. Steady(n)
    BY <1>1, <1>3 DEF Steady
  <2>2. SameLoad(n, c)
    BY <1>1, <1>3 DEF SameLoad
  <2>3. /\ n.role = c.role /\ n.last = c.last /\ n.pose = c.pose
        /\ n.empty = c.empty /\ n.review = c.review /\ n.clear = c.clear
    BY <1>1, <1>3 DEF Carried
  <2>4. n.removal # 0 => n.active /\ n.life # 0
    BY <1>1, <1>3, <2>2 DEF SameLoad
  <2> QED  BY <1>1, <1>3, <2>1, <2>2, <2>3, <2>4 DEF Left
<1>4. k.role = c.role /\ k.empty = c.empty
  BY <1>1 DEF Carried
<1>5. P!Pipeline(f) =
         IF ~f.localized THEN P!LocalizationLost(c, f)
         ELSE IF k.role = "REQUIRED" /\ ~k.latched /\ hook = "UNKNOWN"
              THEN P!HookOnly(k, f, TRUE, P!NoProvisional)
              ELSE IF k.role = "REQUIRED" /\ k.clearAllowed
              THEN P!HookOnly(l, f, TRUE, P!NoProvisional)
              ELSE IF k.role # "REQUIRED" /\ ~k.latched
                        /\ k.empty >= Window /\ ~f.visual
              THEN P!HookOnly(k, f, TRUE, P!NoProvisional)
              ELSE P!Recognised(k, f)
  BY DEF P!Pipeline
<1> HIDE DEF k
<1>6. Carried(k, k) /\ SameLoad(k, k)
  BY DEF Carried, SameLoad
<1>7. Decides(P!HookOnly(k, f, TRUE, P!NoProvisional), k, f)
  BY <1>1, NothingSeenDecides
<1>8. CASE /\ f.localized
           /\ k.role = "REQUIRED" /\ ~k.latched /\ hook = "UNKNOWN"
  <2>1. f.freeze = "none"
    BY <1>1, <1>4, <1>8 DEF Fits, Steady
  <2>2. Left(k, c, f)
    BY <1>1, <1>3, <1>6, <1>8, <2>1
  <2> QED  BY <1>5, <1>7, <1>8, <2>2
<1>9. CASE /\ f.localized
           /\ ~(k.role = "REQUIRED" /\ ~k.latched /\ hook = "UNKNOWN")
           /\ k.role = "REQUIRED" /\ k.clearAllowed
  <2>1. ~k.latched /\ hook = "EMPTY"
    BY <1>1, <1>4, <1>9
  <2>2. /\ Carried(l, k) /\ EvidenceTyped(l) /\ SameLoad(l, k)
        /\ l.removal = k.removal /\ l.active = k.active
        /\ l.latched = k.latched /\ l.frozenFor = k.frozenFor
    BY <1>1, <2>1, LifecycleEffect
  <2> HIDE DEF l
  <2>3. Left(l, c, f)
    BY <1>3, <1>4, <1>9, <2>1, <2>2
  <2>4. Decides(P!HookOnly(l, f, TRUE, P!NoProvisional), l, f)
    BY <2>2, NothingSeenDecides
  <2> QED  BY <1>5, <1>9, <2>3, <2>4
<1>10. CASE /\ f.localized
            /\ k.role # "REQUIRED" /\ ~k.latched
            /\ k.empty >= Window /\ ~f.visual
  <2>1. f.freeze = "none"
    <3>1. c.empty > 0
      BY <1>4, <1>10, PipelineAssumption DEF EvidenceTyped
    <3> QED  BY <3>1 DEF Fits
  <2>2. Left(k, c, f)
    BY <1>1, <1>3, <1>6, <1>10, <2>1
  <2> QED  BY <1>5, <1>7, <1>10, <2>2
<1>11. CASE /\ f.localized
            /\ ~(k.role = "REQUIRED" /\ ~k.latched /\ hook = "UNKNOWN")
            /\ ~(k.role = "REQUIRED" /\ k.clearAllowed)
            /\ ~(k.role # "REQUIRED" /\ ~k.latched
                   /\ k.empty >= Window /\ ~f.visual)
  <2>1. k = P!Cleared(P!Presence(c, f))
    BY DEF k
  <2>2. \E n : Decides(P!Recognised(k, f), n, f) /\ Left(n, c, f)
    <3>1. ~(c.role = "REQUIRED" /\ hook = "EMPTY")
      BY <1>1, <1>4, <1>11
    <3> QED  BY <1>11, <2>1, <3>1, RecognisedEffect
  <2> QED  BY <1>5, <1>11, <2>2
<1> QED  BY <1>2, <1>8, <1>9, <1>10, <1>11

-----------------------------------------------------------------------------
(* SafetyPipeline: the inductive invariant.                                *)

HistoryFields ==
    {"clears", "life", "pose", "age", "run", "key", "owner", "said"}

History(x) ==
    /\ DOMAIN x = HistoryFields
    /\ x.clears \in Nat /\ x.run \in Nat
    /\ x.run > 0 => x.key[1] \in Nat /\ x.key[4] \in Nat

Begun == frame.stage = "begun"

PipelineTypes ==
    /\ EvidenceTyped(c) /\ Steady(c) /\ History(h) /\ hook \in HookStates
    /\ \/ frame = P!Idle
       \/ /\ Begun /\ frame.f \in LoadFrames /\ Fits(c, frame.f)

\* Only the load that was authorised has points to remove.
OwnerHolds == c.removal # 0 => c.active /\ c.life # 0 /\ h.owner = c.life

\* The next frame starts the evidence over.
Renewed == ~Begun /\ hook = "LOADED" /\ c.last # "LOADED"
Dropped ==
    ~Begun /\ c.role = "REQUIRED" /\ hook = "EMPTY" /\ c.last # "EMPTY"

\* Every counted frame was published, of this load and in this map frame.
Earned ==
    /\ c.clear.n <= h.clears
    /\ h.life = c.life /\ h.pose = c.clear.pose /\ h.age = c.clear.age

ClearsHold ==
    c.role # "DISABLED" =>
        /\ seen => hook = c.last
        /\ c.clear.n > 0 /\ c.last = "LOADED" =>
              c.latched \/ (~Begun /\ hook = "EMPTY")
        /\ c.role = "REQUIRED" /\ c.last = "EMPTY"
              /\ (c.latched \/ c.clear.n > 0) => Renewed
        /\ c.clear.n > 0 => Renewed \/ Dropped \/ Earned
        /\ status.requested = P!Clear /\ status.cargo_valid =>
              h.clears >= Window

\* The reviews in a row are those of the episode, or of a load or a map frame
\* that cannot come back.
ReviewsHold ==
    h.run > 0 =>
        /\ h.key[1] # 0 /\ h.key[1] <= c.sequence /\ h.key[4] <= c.pose
        /\ \/ c.life # h.key[1]
           \/ h.key[4] < c.pose
           \/ /\ c.review.active /\ c.review.key = h.key
              /\ h.run <= c.review.since
        /\ h.run <= MaxActive + 1

\* Nothing shows an identified load in a frame that shows no load.
UnambiguousFrames ==
    \/ Roles = {"REQUIRED"}
    \/ \A f \in LoadFrames : f.outcome = "empty" => f.envelope # "identity"

StatusHolds ==
    UnambiguousFrames /\ status.requested # 0 =>
        P!ValidateStatusContract(status) = status.requested

PipelineIInv ==
    PipelineTypes /\ OwnerHolds /\ ClearsHold /\ ReviewsHold /\ StatusHolds

LEMMA NoStatusHolds ==
    ASSUME NEW s, s = P!NoStatusYet
    PROVE  s.requested = 0
BY DEF P!NoStatusYet

LEMMA NothingEarned ==
    ASSUME NEW role \in Roles, NEW e, e = P!NoEvidence(role)
    PROVE  /\ EvidenceTyped(e) /\ Steady(e) /\ e.role = role
           /\ e.removal = 0 /\ e.clear.n = 0 /\ e.life = 0 /\ e.sequence = 0
           /\ e.latched = FALSE /\ e.last = "UNKNOWN" /\ e.pose = 1
           /\ e.frozenFor = 0 /\ e.review.active = FALSE
           /\ e.empty = 0
<1>1. /\ DOMAIN P!NoClear = {"n", "pose", "age"}
      /\ P!NoClear.n = 0 /\ P!NoClear.age = 0
      /\ DOMAIN P!NoReview = {"pending", "key", "active", "since", "cooling",
                              "cooled"}
      /\ P!NoReview.since = 0 /\ P!NoReview.active = FALSE
  BY DEF P!NoClear, P!NoReview
<1>2. /\ DOMAIN e = EvidenceFields /\ e.role = role
      /\ e.life = 0 /\ e.sequence = 0 /\ e.pose = 1 /\ e.empty = 0
      /\ e.initialized = FALSE /\ e.prevLoaded = FALSE /\ e.latched = FALSE
      /\ e.active = FALSE /\ e.removal = 0 /\ e.last = "UNKNOWN"
      /\ e.frozenFor = 0 /\ e.clear = P!NoClear /\ e.review = P!NoReview
  BY DEF P!NoEvidence, EvidenceFields
<1>3. /\ DOMAIN e.clear = {"n", "pose", "age"}
      /\ e.clear.n = 0 /\ e.clear.age = 0
      /\ DOMAIN e.review = {"pending", "key", "active", "since", "cooling",
                             "cooled"}
      /\ e.review.since = 0 /\ e.review.active = FALSE
  BY <1>1, <1>2
<1>4. EvidenceTyped(e)
  <2>1. /\ e.life \in Nat /\ e.sequence \in Nat /\ e.life <= e.sequence
        /\ e.pose \in Nat /\ e.empty \in Nat
    BY <1>2
  <2>2. /\ e.initialized \in BOOLEAN /\ e.prevLoaded \in BOOLEAN
        /\ e.latched \in BOOLEAN /\ e.active \in BOOLEAN
    BY <1>2
  <2>3. e.clear.n \in Nat /\ e.clear.age \in Nat /\ e.review.since \in Nat
    BY <1>3
  <2>4. DOMAIN e = EvidenceFields /\ e.role \in Roles
    BY <1>2
  <2> QED  BY Zenon, <1>3, <2>1, <2>2, <2>3, <2>4 DEF EvidenceTyped
<1> QED  BY <1>2, <1>3, <1>4 DEF Steady

LEMMA PipelineInit == P!Init => PipelineIInv
<1> SUFFICES ASSUME P!Init PROVE PipelineIInv
  OBVIOUS
<1>1. PICK role \in Roles : c = P!NoEvidence(role)
  BY DEF P!Init
<1>2. /\ EvidenceTyped(c) /\ Steady(c)
      /\ c.removal = 0 /\ c.clear.n = 0 /\ c.latched = FALSE
      /\ c.last = "UNKNOWN"
  BY <1>1, NothingEarned
<1>3. History(h) /\ h.run = 0
  BY DEF P!Init, P!NoHistory, History, HistoryFields
<1>4. /\ hook = "UNKNOWN" /\ frame = P!Idle /\ status = P!NoStatusYet
  BY DEF P!Init
<1>5. status.requested = 0
  BY <1>4, NoStatusHolds
<1>6. PipelineTypes
  BY <1>2, <1>3, <1>4 DEF PipelineTypes, HookStates
<1>7. ClearsHold
  BY <1>2, <1>4, <1>5 DEF ClearsHold, P!Clear
<1> QED  BY <1>2, <1>3, <1>5, <1>6, <1>7
         DEF PipelineIInv, OwnerHolds, ReviewsHold, StatusHolds

\* resetCargoForHookState starts over but for the counters.
LEMMA ResetEffect ==
    ASSUME NEW e, EvidenceTyped(e), NEW n, n = P!ResetCargo(e)
    PROVE  /\ EvidenceTyped(n) /\ Steady(n) /\ n.role = e.role
           /\ n.sequence = e.sequence /\ n.last = e.last /\ n.pose = e.pose
           /\ n.life = 0 /\ n.removal = 0 /\ n.clear.n = 0
           /\ n.latched = FALSE /\ n.frozenFor = 0 /\ n.empty = 0
<1> DEFINE z == P!NoEvidence(e.role)
<1>1. /\ EvidenceTyped(z) /\ Steady(z) /\ z.role = e.role
      /\ z.removal = 0 /\ z.clear.n = 0 /\ z.life = 0 /\ z.latched = FALSE
      /\ z.frozenFor = 0 /\ z.empty = 0
  <2>1. e.role \in Roles
    BY DEF EvidenceTyped
  <2> HIDE DEF z
  <2>2. z = P!NoEvidence(e.role)
    BY DEF z
  <2> QED  BY <2>1, <2>2, NothingEarned
<1>2. n = [z EXCEPT !.sequence = e.sequence, !.track = e.track,
                    !.last = e.last, !.pose = e.pose]
  BY DEF P!ResetCargo
<1> HIDE DEF z
<1>3. DOMAIN z = EvidenceFields
  BY <1>1 DEF EvidenceTyped
<1>4. /\ DOMAIN n = EvidenceFields /\ n.role = z.role
      /\ n.sequence = e.sequence /\ n.last = e.last /\ n.pose = e.pose
      /\ n.life = z.life /\ n.removal = z.removal /\ n.clear = z.clear
      /\ n.latched = z.latched /\ n.frozenFor = z.frozenFor
      /\ n.empty = z.empty /\ n.review = z.review /\ n.active = z.active
      /\ n.initialized = z.initialized /\ n.prevLoaded = z.prevLoaded
  BY <1>2, <1>3 DEF EvidenceFields
<1>5. EvidenceTyped(n)
  BY <1>1, <1>4 DEF EvidenceTyped
<1> QED  BY <1>1, <1>4, <1>5 DEF Steady

\* What a step that does not start over keeps.
Unchanging(n, e) ==
    /\ n.life = e.life /\ n.sequence = e.sequence /\ n.clear = e.clear
    /\ n.removal = e.removal /\ n.active = e.active
    /\ n.latched = e.latched /\ n.frozenFor = e.frozenFor
    /\ n.initialized = e.initialized /\ n.prevLoaded = e.prevLoaded
    /\ n.review = e.review

Wiped(n) ==
    n.life = 0 /\ n.removal = 0 /\ n.clear.n = 0 /\ n.latched = FALSE

LEMMA EdgeEffect ==
    ASSUME NEW e, EvidenceTyped(e), Steady(e), NEW n, n = P!HookEdge(e)
    PROVE  /\ EvidenceTyped(n) /\ Steady(n) /\ n.role = e.role
           /\ n.sequence = e.sequence /\ n.pose = e.pose
           /\ e.role # "DISABLED" => n.last = hook
           /\ n.last = e.last => n = e
           /\ \/ Wiped(n)
              \/ /\ Unchanging(n, e)
                 /\ e.role = "DISABLED" \/ hook = e.last
                       \/ (hook # "LOADED"
                             /\ ~(hook = "EMPTY" /\ e.role = "REQUIRED"))
<1>1. CASE e.role = "DISABLED" \/ hook = e.last
  <2>1. n = e
    BY <1>1 DEF P!HookEdge
  <2> QED  BY <1>1, <2>1 DEF Unchanging
<1>2. CASE ~(e.role = "DISABLED" \/ hook = e.last)
  <2> DEFINE r == hook = "LOADED" \/ (hook = "EMPTY" /\ e.role = "REQUIRED")
             w == P!ResetCargo(e)
  <2>1. CASE r
    <3>1. n = [w EXCEPT !.last = hook]
      BY <1>2, <2>1 DEF P!HookEdge
    <3>2. /\ EvidenceTyped(w) /\ Steady(w) /\ w.role = e.role
          /\ w.sequence = e.sequence /\ w.pose = e.pose
          /\ w.life = 0 /\ w.removal = 0 /\ w.clear.n = 0
          /\ w.latched = FALSE
      BY ResetEffect
    <3> HIDE DEF w
    <3>3. DOMAIN w = EvidenceFields
      BY <3>2 DEF EvidenceTyped
    <3>4. DOMAIN n = DOMAIN w /\ Unchanging(n, w) /\ n.last = hook
          /\ n.role = w.role /\ n.pose = w.pose /\ n.empty = w.empty
      BY <3>1, <3>3 DEF EvidenceFields, Unchanging
    <3>5. EvidenceTyped(n) /\ Steady(n)
      BY <3>2, <3>4 DEF EvidenceTyped, Steady, Unchanging
    <3> QED  BY <1>2, <3>2, <3>4, <3>5 DEF Wiped, Unchanging
  <2>2. CASE ~r
    <3>1. n = [e EXCEPT !.last = hook]
      BY <1>2, <2>2 DEF P!HookEdge
    <3>3. DOMAIN e = EvidenceFields
      BY DEF EvidenceTyped
    <3>4. DOMAIN n = DOMAIN e /\ Unchanging(n, e) /\ n.last = hook
          /\ n.role = e.role /\ n.pose = e.pose /\ n.empty = e.empty
      BY <3>1, <3>3 DEF EvidenceFields, Unchanging
    <3>5. EvidenceTyped(n) /\ Steady(n)
      BY <3>4 DEF EvidenceTyped, Steady, Unchanging
    <3> QED  BY <1>2, <2>2, <3>4, <3>5 DEF Unchanging
  <2> QED  BY <2>1, <2>2
<1> QED  BY <1>1, <1>2

LEMMA PipelineBegin ==
    ASSUME PipelineIInv, NEW f \in LoadFrames, P!BeginFrame(f)
    PROVE  PipelineIInv'
<1> USE DEF PipelineIInv
<1> DEFINE e == P!HookEdge(c)
<1>1. /\ frame = P!Idle
      /\ P!Recognisable(IF e.last = c.last THEN c ELSE e, f)
      /\ c' = [e EXCEPT !.empty = P!NoCargoCount(e, f), !.locked = f.locked]
      /\ frame' = [stage |-> "begun", f |-> f]
      /\ seen' = TRUE /\ status' = P!NoStatusYet
      /\ h' = [h EXCEPT !.said = {}] /\ hook' = hook
  BY DEF P!BeginFrame
<1>2. /\ EvidenceTyped(e) /\ Steady(e) /\ e.role = c.role
      /\ e.sequence = c.sequence /\ e.pose = c.pose
      /\ c.role # "DISABLED" => e.last = hook
      /\ e.last = c.last => e = c
      /\ \/ Wiped(e)
         \/ /\ Unchanging(e, c)
            /\ c.role = "DISABLED" \/ hook = c.last
                  \/ (hook # "LOADED"
                        /\ ~(hook = "EMPTY" /\ c.role = "REQUIRED"))
  BY EdgeEffect DEF PipelineTypes
<1> HIDE DEF e
<1>3. P!Recognisable(e, f)
  BY <1>1, <1>2
<1>5. /\ P!NoCargoCount(e, f) \in Nat
      /\ P!NoCargoCount(e, f) > 0 => f.outcome = "empty" /\ ~f.locked
  <2>1. e.empty + 1 \in Nat /\ Window \in Nat
    BY <1>2, PipelineAssumption DEF EvidenceTyped
  <2> QED  BY <2>1 DEF P!NoCargoCount, P!Less
<1>6. /\ DOMAIN c' = DOMAIN e /\ Unchanging(c', e)
      /\ c'.role = e.role /\ c'.last = e.last /\ c'.pose = e.pose
      /\ c'.empty = P!NoCargoCount(e, f)
  <2>1. DOMAIN e = EvidenceFields
    BY <1>2 DEF EvidenceTyped
  <2> QED  BY <1>1, <2>1 DEF EvidenceFields, Unchanging
<1>7. EvidenceTyped(c') /\ Steady(c')
  BY <1>2, <1>5, <1>6 DEF EvidenceTyped, Steady, Unchanging
<1>8. Fits(c', f)
  BY <1>3, <1>5, <1>6 DEF Fits, P!Recognisable, Unchanging
<1>9. /\ DOMAIN h' = DOMAIN h
      /\ h'.clears = h.clears /\ h'.life = h.life /\ h'.pose = h.pose
      /\ h'.age = h.age /\ h'.run = h.run /\ h'.key = h.key
      /\ h'.owner = h.owner
  <2>1. DOMAIN h = HistoryFields
    BY DEF PipelineTypes, History
  <2> QED  BY <1>1, <2>1 DEF HistoryFields
<1>10. History(h')
  BY <1>9 DEF PipelineTypes, History
<1>11. Begun' /\ ~Begun /\ frame'.f = f
  BY <1>1 DEF Begun, P!Idle
<1>12. PipelineTypes'
  <2>1. hook' \in HookStates
    BY <1>1 DEF PipelineTypes
  <2>2. History(h)' /\ EvidenceTyped(c)' /\ Steady(c)' /\ Fits(c, frame.f)'
    BY <1>7, <1>8, <1>10, <1>11
       DEF History, EvidenceTyped, Steady, Fits
  <2> QED  BY <1>11, <2>1, <2>2 DEF PipelineTypes
<1>13. OwnerHolds'
  BY <1>2, <1>6, <1>9 DEF OwnerHolds, Wiped, Unchanging
<1>14. status'.requested = 0
  BY <1>1, NoStatusHolds
<1>15. ClearsHold'
  <2> SUFFICES ASSUME c'.role # "DISABLED"
               PROVE  /\ seen' => hook' = c'.last
                      /\ c'.clear.n > 0 /\ c'.last = "LOADED" => c'.latched
                      /\ ~(c'.role = "REQUIRED" /\ c'.last = "EMPTY"
                             /\ (c'.latched \/ c'.clear.n > 0))
                      /\ c'.clear.n > 0 => Earned'
    BY <1>14 DEF ClearsHold, P!Clear
  <2>1. c.role # "DISABLED" /\ c'.last = hook /\ c'.role = c.role
    BY <1>2, <1>6
  <2>2. CASE Wiped(e)
    BY <1>1, <1>6, <2>1, <2>2 DEF Wiped, Unchanging
  <2>3. CASE /\ Unchanging(e, c)
             /\ hook = c.last
                  \/ (hook # "LOADED"
                        /\ ~(hook = "EMPTY" /\ c.role = "REQUIRED"))
    <3>1. Unchanging(c', c)
      BY <1>6, <2>3 DEF Unchanging
    <3>2. ~Renewed /\ ~Dropped
      BY <2>3 DEF Renewed, Dropped
    <3>3. c'.clear.n > 0 => Earned'
      <4>1. c.clear.n > 0 => Earned
        BY <2>1, <3>2 DEF ClearsHold
      <4> QED  BY <1>9, <3>1, <4>1 DEF Earned, Unchanging
    <3>4. c'.clear.n > 0 /\ c'.last = "LOADED" => c'.latched
      BY <2>1, <2>3, <3>1 DEF ClearsHold, Unchanging
    <3>5. ~(c'.role = "REQUIRED" /\ c'.last = "EMPTY"
              /\ (c'.latched \/ c'.clear.n > 0))
      BY <2>1, <2>3, <3>1, <3>2 DEF ClearsHold, Unchanging
    <3> QED  BY <1>1, <2>1, <3>3, <3>4, <3>5
  <2> QED  BY <1>2, <2>1, <2>2, <2>3
<1>16. ReviewsHold'
  <2> SUFFICES ASSUME h'.run > 0
               PROVE  /\ h'.key[1] # 0 /\ h'.key[1] <= c'.sequence
                      /\ h'.key[4] <= c'.pose
                      /\ \/ c'.life # h'.key[1]
                         \/ h'.key[4] < c'.pose
                         \/ /\ c'.review.active /\ c'.review.key = h'.key
                            /\ h'.run <= c'.review.since
                      /\ h'.run <= MaxActive + 1
    BY DEF ReviewsHold
  <2>1. c'.sequence = c.sequence /\ c'.pose = c.pose
    BY <1>2, <1>6 DEF Unchanging
  <2>2. CASE Wiped(e)
    BY <1>6, <1>9, <2>1, <2>2 DEF ReviewsHold, Wiped, Unchanging
  <2>3. CASE Unchanging(e, c)
    BY <1>6, <1>9, <2>1, <2>3 DEF ReviewsHold, Unchanging
  <2> QED  BY <1>2, <2>2, <2>3
<1>17. StatusHolds'
  BY <1>14 DEF StatusHolds
<1> QED  BY <1>12, <1>13, <1>15, <1>16, <1>17

\* The time from one frame to the next changes nothing but ages.
LEMMA EvidenceAged ==
    ASSUME NEW e, EvidenceTyped(e), NEW n, n = P!Aged(e)
    PROVE  /\ EvidenceTyped(n)
           /\ n.role = e.role /\ n.last = e.last /\ n.pose = e.pose
           /\ n.empty = e.empty /\ n.life = e.life
           /\ n.sequence = e.sequence /\ n.latched = e.latched
           /\ n.active = e.active /\ n.removal = e.removal
           /\ n.initialized = e.initialized /\ n.prevLoaded = e.prevLoaded
           /\ n.frozenFor = e.frozenFor
           /\ n.clear.n = e.clear.n /\ n.clear.pose = e.clear.pose
           /\ n.clear.age = IF e.clear.n = 0 THEN 0
                            ELSE P!Less(e.clear.age + 1, FrameGap + 1)
           /\ n.review.active = e.review.active
           /\ n.review.key = e.review.key
           /\ e.review.active =>
                 n.review.since = P!Less(e.review.since + 1, MaxActive + 1)
<1> DEFINE age == IF e.clear.n = 0 THEN 0
                  ELSE P!Less(e.clear.age + 1, FrameGap + 1)
           since == IF e.review.active \/ e.review.pending > 0
                    THEN P!Less(e.review.since + 1, MaxActive + 1) ELSE 0
<1>1. /\ DOMAIN e = EvidenceFields
      /\ DOMAIN e.clear = {"n", "pose", "age"}
      /\ DOMAIN e.review = {"pending", "key", "active", "since", "cooling",
                            "cooled"}
  BY DEF EvidenceTyped
<1>2. age \in Nat /\ since \in Nat
  <2>1. /\ e.clear.age + 1 \in Nat /\ FrameGap + 1 \in Nat
        /\ e.review.since + 1 \in Nat /\ MaxActive + 1 \in Nat
    BY PipelineAssumption DEF EvidenceTyped
  <2> QED  BY <2>1 DEF P!Less
<1>3. /\ DOMAIN n = EvidenceFields
      /\ n.role = e.role /\ n.last = e.last /\ n.pose = e.pose
      /\ n.empty = e.empty /\ n.life = e.life
      /\ n.sequence = e.sequence /\ n.latched = e.latched
      /\ n.active = e.active /\ n.removal = e.removal
      /\ n.initialized = e.initialized /\ n.prevLoaded = e.prevLoaded
      /\ n.frozenFor = e.frozenFor
  BY <1>1 DEF P!Aged, EvidenceFields
<1>4. /\ DOMAIN n.clear = {"n", "pose", "age"} /\ n.clear.n = e.clear.n
      /\ n.clear.pose = e.clear.pose /\ n.clear.age = age
  BY <1>1 DEF P!Aged, EvidenceFields
<1>5. /\ DOMAIN n.review = DOMAIN e.review
      /\ n.review.active = e.review.active /\ n.review.key = e.review.key
      /\ n.review.since = since
  BY <1>1 DEF P!Aged, EvidenceFields
<1>6. EvidenceTyped(n)
  <2> HIDE DEF age, since
  <2> QED  BY <1>2, <1>3, <1>4, <1>5 DEF EvidenceTyped
<1> QED  BY <1>3, <1>4, <1>5, <1>6

\* A frame that ends in a review continues the episode of its key, or starts
\* one.
LEMMA ReviewContinues ==
    ASSUME NEW r, r.since \in Nat, NEW key,
           DOMAIN r = {"pending", "key", "active", "since", "cooling",
                       "cooled"},
           NEW step, step = P!Episode(r, key, P!AnomalyReview),
           step.out = P!AnomalyReview
    PROVE  /\ step.r.key = key /\ step.r.active
           /\ r.active /\ r.key = key =>
                 r.since <= MaxActive /\ step.r = r
<1>1. /\ P!AnomalyReview = 29 /\ P!ObstacleInvalid = 34
      /\ P!StandardCodes = {17, 18}
  BY DEF P!AnomalyReview, P!ObstacleInvalid, P!StandardCodes,
     P!Level1Warning, P!Level2Warning
<1>2. CASE r.active /\ r.key = key
  <2>1. r.since <= MaxActive /\ step.r = r
    BY <1>1, <1>2 DEF P!Episode
  <2> QED  BY <1>2, <2>1
<1>3. CASE ~(r.active /\ r.key = key)
  <2> DEFINE over == [r EXCEPT !.pending = 0, !.active = FALSE]
             waiting == r.pending > 0 /\ r.key = key
             since == IF waiting THEN r.since ELSE 0
  <2>1. step.r = [over EXCEPT !.active = TRUE, !.key = key, !.since = since]
    BY <1>1, <1>3 DEF P!Episode
  <2>2. DOMAIN over = DOMAIN r
    OBVIOUS
  <2> HIDE DEF over, since
  <2>3. step.r.active = TRUE /\ step.r.key = key
    BY <2>1, <2>2
  <2> QED  BY <1>3, <2>3
<1> QED  BY <1>2, <1>3

LEMMA PipelineFinish ==
    ASSUME PipelineIInv, P!FinishFrame
    PROVE  PipelineIInv'
<1> USE DEF PipelineIInv
<1> DEFINE f == frame.f
           p == P!Pipeline(f)
<1>1. /\ Begun /\ c' = P!Aged(p.e) /\ status' = p.status
      /\ h' = P!Remember(p, f) /\ frame' = P!Idle
      /\ hook' = hook /\ seen' = seen
  BY DEF P!FinishFrame, Begun
<1>2. /\ f \in LoadFrames /\ f \in PipelineFrames /\ Fits(c, f)
      /\ EvidenceTyped(c) /\ Steady(c) /\ hook \in HookStates
  BY <1>1, PipelineAssumption DEF PipelineTypes, P!Idle, Begun
<1>3. PICK n : Decides(p, n, f) /\ Left(n, c, f)
  BY <1>2, PipelineEffect DEF OwnerHolds
<1> HIDE DEF p, f
<1>4. EvidenceTyped(n) /\ Steady(n)
  BY <1>3 DEF Left
<1>5. /\ \E r : p.e = [n EXCEPT !.review = r]
      /\ EvidenceTyped(p.e)
      /\ p.key[1] = n.life /\ p.key[4] = n.pose
      /\ Unambiguous(n, f) =>
            P!ValidateStatusContract(p.status) = p.status.requested
      /\ p.status.requested = P!Clear /\ p.status.cargo_valid =>
            Counted(n, f) /\ n.clear.n >= Window
      /\ p.status.requested = P!AnomalyReview =>
            LET step == P!Episode(n.review, p.key, P!AnomalyReview)
            IN  /\ n.life # 0 /\ step.out = P!AnomalyReview
                /\ p.e.review = step.r
  <2>1. Decides(p, n, f)
    BY <1>3
  <2>2. Says(p, n, f)
    BY <1>4, <2>1, DecidedEffect
  <2> QED  BY <2>2 DEF Says
<1> DEFINE e == p.e
<1>6. /\ e.role = n.role /\ e.last = n.last /\ e.pose = n.pose
      /\ e.empty = n.empty /\ e.life = n.life /\ e.sequence = n.sequence
      /\ e.latched = n.latched /\ e.active = n.active
      /\ e.removal = n.removal /\ e.initialized = n.initialized
      /\ e.prevLoaded = n.prevLoaded /\ e.frozenFor = n.frozenFor
      /\ e.clear = n.clear
  <2>1. PICK r : e = [n EXCEPT !.review = r]
    BY <1>5
  <2>2. DOMAIN n = EvidenceFields
    BY <1>4 DEF EvidenceTyped
  <2> HIDE DEF e
  <2> QED  BY <2>1, <2>2 DEF EvidenceFields
<1>7. /\ EvidenceTyped(c')
      /\ c'.role = n.role /\ c'.last = n.last /\ c'.pose = n.pose
      /\ c'.life = n.life /\ c'.sequence = n.sequence
      /\ c'.latched = n.latched /\ c'.active = n.active
      /\ c'.removal = n.removal /\ c'.initialized = n.initialized
      /\ c'.prevLoaded = n.prevLoaded /\ c'.frozenFor = n.frozenFor
      /\ c'.clear.n = n.clear.n /\ c'.clear.pose = n.clear.pose
      /\ c'.clear.age = IF n.clear.n = 0 THEN 0
                        ELSE P!Less(n.clear.age + 1, FrameGap + 1)
      /\ c'.review.active = e.review.active
      /\ c'.review.key = e.review.key
      /\ e.review.active =>
            c'.review.since = P!Less(e.review.since + 1, MaxActive + 1)
  <2>1. c' = P!Aged(e) /\ EvidenceTyped(e)
    BY <1>1, <1>5
  <2> HIDE DEF e
  <2>2. /\ EvidenceTyped(c')
        /\ c'.role = e.role /\ c'.last = e.last /\ c'.pose = e.pose
        /\ c'.life = e.life /\ c'.sequence = e.sequence
        /\ c'.latched = e.latched /\ c'.active = e.active
        /\ c'.removal = e.removal /\ c'.initialized = e.initialized
        /\ c'.prevLoaded = e.prevLoaded /\ c'.frozenFor = e.frozenFor
        /\ c'.clear.n = e.clear.n /\ c'.clear.pose = e.clear.pose
        /\ c'.clear.age = IF e.clear.n = 0 THEN 0
                          ELSE P!Less(e.clear.age + 1, FrameGap + 1)
        /\ c'.review.active = e.review.active
        /\ c'.review.key = e.review.key
        /\ e.review.active =>
              c'.review.since = P!Less(e.review.since + 1, MaxActive + 1)
    BY <2>1, EvidenceAged
  <2> QED  BY <1>6, <2>2
<1>8. /\ n.role = c.role /\ n.last = c.last /\ n.pose = c.pose
      /\ n.review = c.review
      /\ SameLoad(n, c) \/ (Borne(n, c) /\ ~c.latched /\ n.latched)
      /\ c.latched /\ ~n.latched => hook = "EMPTY" \/ c.role = "DISABLED"
      /\ n.latched /\ ~c.latched => hook = "LOADED" \/ c.role = "DISABLED"
      /\ \/ /\ n.clear = c.clear
            /\ \/ f.freeze = "none" \/ ~f.localized
               \/ c.role = "REQUIRED" /\ hook = "EMPTY"
         \/ /\ f.localized /\ f.freeze # "none" /\ SameLoad(n, c)
            /\ n.clear = P!ClearEvidence(c, f)
      /\ n.removal # 0 => SameLoad(n, c) /\ n.active /\ n.life # 0
  BY <1>3 DEF Left
<1> DEFINE k == P!ClearsSeen(p, f)
           current == P!FrozenReady(f) /\ f.localized
<1>9. /\ DOMAIN h' = HistoryFields
      /\ h'.clears = k
      /\ h'.life = IF k = 0 THEN 0 ELSE IF current THEN e.life ELSE h.life
      /\ h'.pose = IF k = 0 THEN 0 ELSE IF current THEN e.pose ELSE h.pose
      /\ h'.age = IF k = 0 THEN 0 ELSE IF current THEN 1
                  ELSE P!Less(h.age + 1, FrameGap + 1)
      /\ h'.run = IF p.status.requested # P!AnomalyReview THEN 0
                  ELSE IF h.key = p.key THEN P!Less(h.run + 1, MaxActive + 2)
                  ELSE 1
      /\ h'.key = IF p.status.requested = P!AnomalyReview THEN p.key
                  ELSE P!NoKey
      /\ h'.owner = IF e.removal = 0 THEN 0
                    ELSE IF c.removal = 0 THEN e.life ELSE h.owner
  BY <1>1 DEF P!Remember, HistoryFields
<1>10. k = IF ~current THEN h.clears
           ELSE IF f.live.raw # "clear" THEN 0
           ELSE IF h.clears > 0 /\ h.life = e.life /\ h.pose = e.pose
                   /\ h.age <= FrameGap
                THEN P!Less(h.clears + 1, Window) ELSE 1
  BY DEF P!ClearsSeen
<1>11. current <=> f.freeze # "none" /\ f.localized
  BY DEF P!FrozenReady
<1>12. /\ h.clears \in Nat /\ h.run \in Nat /\ h.clears + 1 \in Nat
       /\ h.run + 1 \in Nat
       /\ Window \in Nat /\ Window > 0 /\ MaxActive \in Nat
       /\ FrameGap \in Nat
  BY PipelineAssumption DEF PipelineTypes, History
<1>13. k \in Nat
  BY <1>10, <1>12 DEF P!Less
<1>14. h'.run \in Nat
  BY <1>9, <1>12 DEF P!Less
<1>15. n.life \in Nat /\ n.pose \in Nat /\ n.life <= n.sequence
       /\ n.sequence \in Nat
  BY <1>4 DEF EvidenceTyped
<1> HIDE DEF k, current, e
<1>16. History(h')
  <2>1. h'.run > 0 => h'.key[1] \in Nat /\ h'.key[4] \in Nat
    BY <1>5, <1>9, <1>15
  <2> QED  BY <1>9, <1>13, <1>14, <2>1 DEF History
<1>17. ~Begun'
  BY <1>1 DEF Begun, P!Idle
<1>18. PipelineTypes'
  <2>1. Steady(c')
    BY <1>4, <1>7 DEF Steady
  <2>2. EvidenceTyped(c)' /\ Steady(c)' /\ History(h)'
    BY <1>7, <1>16, <2>1 DEF EvidenceTyped, Steady, History
  <2> QED  BY <1>1, <1>2, <2>2 DEF PipelineTypes
<1>19. OwnerHolds'
  BY <1>6, <1>7, <1>8, <1>9 DEF OwnerHolds, SameLoad
<1>20. ReviewsHold'
  <2> SUFFICES ASSUME h'.run > 0
               PROVE  /\ h'.key[1] # 0 /\ h'.key[1] <= c'.sequence
                      /\ h'.key[4] <= c'.pose
                      /\ c'.review.active /\ c'.review.key = h'.key
                      /\ h'.run <= c'.review.since
                      /\ h'.run <= MaxActive + 1
    BY DEF ReviewsHold
  <2> DEFINE step == P!Episode(n.review, p.key, P!AnomalyReview)
  <2>1. /\ p.status.requested = P!AnomalyReview /\ h'.key = p.key
        /\ n.life # 0 /\ step.out = P!AnomalyReview
        /\ e.review = step.r
    BY <1>5, <1>9 DEF e
  <2>2. /\ n.review.since \in Nat
        /\ DOMAIN n.review = {"pending", "key", "active", "since",
                              "cooling", "cooled"}
        /\ e.review.since \in Nat
    BY <1>4, <1>5 DEF EvidenceTyped, e
  <2>0. step = P!Episode(n.review, p.key, P!AnomalyReview)
    OBVIOUS
  <2> HIDE DEF step
  <2>3. /\ step.r.key = p.key /\ step.r.active
        /\ n.review.active /\ n.review.key = p.key =>
              n.review.since <= MaxActive /\ step.r = n.review
    BY <2>0, <2>1, <2>2, ReviewContinues
  <2>4. /\ e.review.active /\ e.review.key = p.key
        /\ c'.review.since = P!Less(e.review.since + 1, MaxActive + 1)
    BY <1>7, <2>1, <2>3
  <2>5. /\ h'.key[1] # 0 /\ h'.key[1] <= c'.sequence /\ h'.key[4] <= c'.pose
    BY <1>5, <1>7, <1>15, <2>1
  <2>6. c'.review.since >= 1
    BY <1>12, <2>2, <2>4 DEF P!Less
  <2>7. CASE h'.run = 1
    BY <1>7, <1>12, <2>1, <2>4, <2>5, <2>6, <2>7
  <2>8. CASE h.key = p.key /\ h.run > 0
           /\ h'.run = P!Less(h.run + 1, MaxActive + 2)
    <3>1. /\ h.key[1] <= c.sequence /\ h.key[4] <= c.pose
          /\ \/ c.life # h.key[1]
             \/ h.key[4] < c.pose
             \/ /\ c.review.active /\ c.review.key = h.key
                /\ h.run <= c.review.since
      BY <2>8 DEF ReviewsHold
    <3>2. h.key[1] = n.life /\ h.key[4] = c.pose
      BY <1>5, <1>8, <2>8
    <3>3. c.life = n.life
      BY <1>2, <1>8, <1>15, <3>1, <3>2 DEF SameLoad, Borne, EvidenceTyped
    <3>4. c.review.active /\ c.review.key = p.key /\ h.run <= c.review.since
      <4>1. ~(h.key[4] < c.pose)
        BY <1>2, <3>2 DEF EvidenceTyped
      <4> QED  BY <2>8, <3>1, <3>2, <3>3, <4>1
    <3>5. /\ e.review = c.review /\ c.review.since <= MaxActive
      BY <1>8, <2>1, <2>3, <3>4
    <3>6. h'.run <= c'.review.since /\ h'.run <= MaxActive + 1
      BY <1>12, <2>2, <2>4, <2>8, <3>4, <3>5 DEF P!Less
    <3> QED  BY <1>7, <2>1, <2>4, <2>5, <3>6
  <2>9. h'.run = 1 \/ (h.key = p.key /\ h.run > 0
                         /\ h'.run = P!Less(h.run + 1, MaxActive + 2))
    BY <1>9, <1>12, <2>1 DEF P!Less
  <2> QED  BY <2>7, <2>8, <2>9
<1>21. ClearsHold'
  <2> SUFFICES ASSUME c'.role # "DISABLED"
               PROVE  ClearsHold'
    BY DEF ClearsHold
  <2>1. /\ seen => hook = c.last
        /\ c.clear.n > 0 /\ c.last = "LOADED" => c.latched
        /\ ~(c.role = "REQUIRED" /\ c.last = "EMPTY"
               /\ (c.latched \/ c.clear.n > 0))
        /\ c.clear.n > 0 => Earned
        /\ c.role # "DISABLED"
    BY <1>1, <1>7, <1>8 DEF ClearsHold, Renewed, Dropped
  <2>2. n.clear.n > 0 => c.clear.n > 0 \/ c.latched
    BY <1>2, <1>8 DEF Fits, Steady
  <2>3. n.clear.n > 0 /\ c.last = "LOADED" => c.latched
    BY <2>1, <2>2
  <2>4. c.role = "REQUIRED" /\ c.last = "EMPTY" =>
           /\ n.clear.n \in Nat /\ ~(n.clear.n > 0)
           /\ n.latched => hook = "LOADED"
    BY <1>4, <1>8, <2>1, <2>2 DEF EvidenceTyped
  <2>5. ASSUME current, f.live.raw = "clear",
               n.clear = P!ClearEvidence(c, f), SameLoad(n, c)
        PROVE  n.clear.n <= h'.clears /\ Earned'
    <3>1. n.clear = P!CountClear(c)
      BY <2>5 DEF P!ClearEvidence
    <3> DEFINE same == c.clear.n > 0 /\ c.clear.pose = c.pose
                          /\ c.clear.age <= FrameGap
    <3>2. /\ n.clear.n = IF same THEN P!Less(c.clear.n + 1, Window) ELSE 1
          /\ n.clear.pose = c.pose /\ n.clear.age = 0
      BY <3>1 DEF P!CountClear
    <3>3. k = 1 \/ k = P!Less(h.clears + 1, Window)
      BY <1>10, <2>5
    <3>4. same => /\ k = P!Less(h.clears + 1, Window)
                  /\ c.clear.n <= h.clears
      <4>1. same => /\ h.clears > 0 /\ h.life = e.life /\ h.pose = e.pose
                    /\ h.age <= FrameGap /\ c.clear.n <= h.clears
        BY <1>2, <1>6, <1>8, <1>12, <2>1, <2>5
           DEF Earned, SameLoad, EvidenceTyped
      <4> QED  BY <1>10, <2>5, <4>1
    <3>5. c.clear.n \in Nat
      BY <1>2 DEF EvidenceTyped
    <3>6. n.clear.n <= k /\ n.clear.n > 0 /\ k > 0
      BY <1>12, <3>2, <3>3, <3>4, <3>5 DEF P!Less
    <3>7. c'.clear.age = 1
      BY <1>7, <1>12, <3>2, <3>6 DEF P!Less
    <3>8. k # 0
      BY <1>13, <3>6
    <3>9. h'.life = e.life /\ h'.pose = e.pose /\ h'.age = 1
      BY <1>9, <2>5, <3>8
    <3> QED  BY <1>6, <1>7, <1>8, <1>9, <3>2, <3>6, <3>7, <3>9 DEF Earned
  <2>6. ASSUME n.clear.n > 0
        PROVE  Renewed' \/ Dropped' \/ Earned'
    <3>1. CASE /\ n.clear = c.clear
               /\ f.freeze = "none" \/ ~f.localized
      <4>1. c.clear.n > 0 /\ Earned
        BY <2>1, <2>6, <3>1
      <4>2. CASE SameLoad(n, c)
        <5>1. k = h.clears /\ ~current
          BY <1>10, <1>11, <3>1
        <5>2. k # 0
          BY <1>2, <1>12, <4>1, <5>1 DEF Earned, EvidenceTyped
        <5>3. /\ h'.life = h.life /\ h'.pose = h.pose
              /\ h'.age = P!Less(h.age + 1, FrameGap + 1)
              /\ h'.clears = h.clears
          BY <1>9, <5>1, <5>2
        <5>4. c'.clear.age = P!Less(c.clear.age + 1, FrameGap + 1)
          BY <1>7, <2>6, <3>1
        <5>5. c'.life = c.life /\ c'.clear.n = c.clear.n
              /\ c'.clear.pose = c.clear.pose
          BY <1>7, <3>1, <4>2 DEF SameLoad
        <5>6. Earned'
          BY <4>1, <5>3, <5>4, <5>5 DEF Earned
        <5> QED  BY <5>6
      <4>3. CASE Borne(n, c) /\ ~c.latched /\ n.latched
        <5>1. hook = "LOADED" /\ c.last # "LOADED"
          BY <1>8, <2>1, <2>3, <2>6, <4>3
        <5>2. Renewed'
          BY <1>1, <1>7, <1>8, <1>17, <5>1 DEF Renewed
        <5> QED  BY <5>2
      <4> QED  BY <1>8, <4>2, <4>3
    <3>2. CASE n.clear = c.clear /\ c.role = "REQUIRED" /\ hook = "EMPTY"
      <4>1. c.last # "EMPTY"
        BY <2>4, <2>6, <3>2
      <4>2. Dropped'
        BY <1>1, <1>7, <1>8, <1>17, <3>2, <4>1 DEF Dropped
      <4> QED  BY <4>2
    <3>3. CASE /\ f.localized /\ f.freeze # "none" /\ SameLoad(n, c)
               /\ n.clear = P!ClearEvidence(c, f)
      <4>1. f.live.raw = "clear"
        BY <2>6, <3>3 DEF P!ClearEvidence, P!NoClear
      <4> QED  BY <1>11, <2>5, <3>3, <4>1
    <3> QED  BY <1>8, <3>1, <3>2, <3>3
  <2>7. status'.requested = P!Clear /\ status'.cargo_valid =>
           h'.clears >= Window
    <3> SUFFICES ASSUME status'.requested = P!Clear, status'.cargo_valid
                 PROVE  h'.clears >= Window
      OBVIOUS
    <3>1. Counted(n, f) /\ n.clear.n >= Window
      BY <1>1, <1>5
    <3>2. /\ current /\ f.live.raw = "clear" /\ SameLoad(n, c)
          /\ n.clear = P!ClearEvidence(c, f)
      BY <1>8, <1>11, <3>1 DEF Counted
    <3>3. n.clear.n <= h'.clears
      BY <2>5, <3>2
    <3>4. n.clear.n \in Nat /\ h'.clears \in Nat
      BY <1>4, <1>9, <1>13 DEF EvidenceTyped
    <3> QED  BY <1>12, <3>1, <3>3, <3>4
  <2>8. seen' => hook' = c'.last
    BY <1>1, <1>7, <1>8, <2>1
  <2>9. c'.clear.n > 0 /\ c'.last = "LOADED" =>
           c'.latched \/ (~Begun' /\ hook' = "EMPTY")
    BY <1>1, <1>7, <1>8, <1>17, <2>1, <2>3
  <2>10. c'.role = "REQUIRED" /\ c'.last = "EMPTY"
            /\ (c'.latched \/ c'.clear.n > 0) => Renewed'
    BY <1>1, <1>7, <1>8, <1>17, <2>4 DEF Renewed
  <2>11. c'.clear.n > 0 => Renewed' \/ Dropped' \/ Earned'
    BY <1>7, <2>6
  <2> QED  BY <2>7, <2>8, <2>9, <2>10, <2>11 DEF ClearsHold
<1>22. StatusHolds'
  <2>1. UnambiguousFrames => Unambiguous(n, f)
    <3>1. n.role \in Roles
      BY <1>4 DEF EvidenceTyped
    <3> QED  BY <1>2, <3>1 DEF UnambiguousFrames, Unambiguous
  <2> QED  BY <1>1, <1>5, <2>1 DEF StatusHolds
<1> QED  BY <1>18, <1>19, <1>20, <1>21, <1>22

LEMMA PipelineHook ==
    ASSUME PipelineIInv, P!HookChanges
    PROVE  PipelineIInv'
<1> USE DEF PipelineIInv
<1>1. /\ seen /\ hook' \in HookStates /\ seen' = FALSE
      /\ frame' = frame /\ c' = c /\ status' = status /\ h' = h
  BY DEF P!HookChanges, HookStates
<1>2. Begun' <=> Begun
  BY <1>1 DEF Begun
<1>3. PipelineTypes'
  BY <1>1, <1>2
     DEF PipelineTypes, EvidenceTyped, Steady, History, Fits, HookStates, P!Idle
<1>4. OwnerHolds'
  BY <1>1 DEF OwnerHolds
<1>5. ReviewsHold'
  BY <1>1 DEF ReviewsHold
<1>6. StatusHolds'
  BY <1>1 DEF StatusHolds
<1>7. ClearsHold'
  <2> SUFFICES ASSUME c.role # "DISABLED"
               PROVE  /\ c.clear.n > 0 /\ c.last = "LOADED" => c.latched
                      /\ ~(c.role = "REQUIRED" /\ c.last = "EMPTY"
                             /\ (c.latched \/ c.clear.n > 0))
                      /\ c.clear.n > 0 => Earned'
                      /\ status.requested = P!Clear /\ status.cargo_valid =>
                            h.clears >= Window
    BY <1>1 DEF ClearsHold
  <2>1. hook = c.last /\ ~Renewed /\ ~Dropped
    BY <1>1 DEF ClearsHold, Renewed, Dropped
  <2>2. Earned => Earned'
    BY <1>1 DEF Earned
  <2> QED  BY <2>1, <2>2 DEF ClearsHold
<1> QED  BY <1>3, <1>4, <1>5, <1>6, <1>7

\* A corrected pose ends the evidence measured in the old map frame.
LEMMA DiscontinuityEffect ==
    ASSUME NEW e, EvidenceTyped(e), Steady(e),
           NEW n, n = P!PoseDiscontinuity(e)
    PROVE  /\ EvidenceTyped(n) /\ Steady(n) /\ n.role = e.role
           /\ n.last = e.last /\ n.sequence = e.sequence
           /\ n.pose = e.pose + 1 /\ n.clear.n = 0 /\ n.removal = 0
           /\ n.latched => e.latched
<1> DEFINE moved == [e EXCEPT !.pose = @ + 1]
           w == P!ResetCargo(moved)
<1>0. DOMAIN e = EvidenceFields /\ e.pose + 1 \in Nat
  BY DEF EvidenceTyped
<1>1. /\ DOMAIN moved = EvidenceFields /\ Unchanging(moved, e)
      /\ moved.role = e.role /\ moved.last = e.last
      /\ moved.empty = e.empty /\ moved.pose = e.pose + 1
  BY <1>0 DEF EvidenceFields, Unchanging
<1>2. n = IF e.locked
          THEN [moved EXCEPT !.review = P!NoReview, !.clear = P!NoClear,
                    !.static = P!NoStatic, !.context = 0, !.removal = 0,
                    !.active = TRUE]
          ELSE [w EXCEPT !.track = 0]
  BY DEF P!PoseDiscontinuity
<1> HIDE DEF moved
<1>3. EvidenceTyped(moved)
  BY <1>0, <1>1 DEF EvidenceTyped, Unchanging
<1>4. CASE e.locked
  <2>1. n = [moved EXCEPT !.review = P!NoReview, !.clear = P!NoClear,
                    !.static = P!NoStatic, !.context = 0, !.removal = 0,
                    !.active = TRUE]
    BY <1>2, <1>4
  <2>2. /\ DOMAIN n = EvidenceFields
        /\ n.role = moved.role /\ n.last = moved.last
        /\ n.life = moved.life /\ n.sequence = moved.sequence
        /\ n.pose = moved.pose /\ n.empty = moved.empty
        /\ n.latched = moved.latched /\ n.frozenFor = moved.frozenFor
        /\ n.initialized = moved.initialized
        /\ n.prevLoaded = moved.prevLoaded /\ n.active = TRUE
        /\ n.removal = 0 /\ n.clear = P!NoClear /\ n.review = P!NoReview
    BY <1>1, <2>1 DEF EvidenceFields
  <2>3. /\ DOMAIN P!NoClear = {"n", "pose", "age"}
        /\ P!NoClear.n = 0 /\ P!NoClear.age = 0
        /\ DOMAIN P!NoReview = {"pending", "key", "active", "since",
                                "cooling", "cooled"}
        /\ P!NoReview.since = 0
    BY DEF P!NoClear, P!NoReview
  <2>4. EvidenceTyped(n)
    <3>1. /\ DOMAIN n.clear = {"n", "pose", "age"}
          /\ n.clear.n \in Nat /\ n.clear.age \in Nat
          /\ DOMAIN n.review = {"pending", "key", "active", "since",
                                "cooling", "cooled"}
          /\ n.review.since \in Nat
      BY <2>2, <2>3
    <3>2. /\ DOMAIN n = EvidenceFields /\ n.role \in Roles
          /\ n.life \in Nat /\ n.sequence \in Nat /\ n.life <= n.sequence
          /\ n.pose \in Nat /\ n.empty \in Nat
      BY <1>3, <2>2 DEF EvidenceTyped
    <3>3. /\ n.initialized \in BOOLEAN /\ n.prevLoaded \in BOOLEAN
          /\ n.latched \in BOOLEAN /\ n.active \in BOOLEAN
      BY <1>3, <2>2 DEF EvidenceTyped
    <3> QED  BY Zenon, <3>1, <3>2, <3>3 DEF EvidenceTyped
  <2> QED  BY <1>1, <2>2, <2>3, <2>4 DEF Steady, Unchanging
<1>5. CASE ~e.locked
  <2>1. n = [w EXCEPT !.track = 0]
    BY <1>2, <1>5
  <2>2. /\ EvidenceTyped(w) /\ Steady(w) /\ w.role = moved.role
        /\ w.sequence = moved.sequence /\ w.last = moved.last
        /\ w.pose = moved.pose /\ w.life = 0 /\ w.removal = 0
        /\ w.clear.n = 0 /\ w.latched = FALSE
    BY <1>3, ResetEffect
  <2> HIDE DEF w
  <2>3. DOMAIN w = EvidenceFields
    BY <2>2 DEF EvidenceTyped
  <2>4. /\ DOMAIN n = DOMAIN w /\ Unchanging(n, w)
        /\ n.role = w.role /\ n.last = w.last /\ n.pose = w.pose
        /\ n.empty = w.empty
    BY <2>1, <2>3 DEF EvidenceFields, Unchanging
  <2>5. EvidenceTyped(n) /\ Steady(n)
    BY <2>2, <2>4 DEF EvidenceTyped, Steady, Unchanging
  <2> QED  BY <1>1, <2>2, <2>4, <2>5 DEF Unchanging
<1> QED  BY <1>4, <1>5

LEMMA PipelinePose ==
    ASSUME PipelineIInv, P!PoseJump
    PROVE  PipelineIInv'
<1> USE DEF PipelineIInv
<1>1. /\ frame = P!Idle /\ c' = P!PoseDiscontinuity(c)
      /\ hook' = hook /\ seen' = seen /\ frame' = frame
      /\ status' = status /\ h' = h
  BY DEF P!PoseJump
<1>2. /\ EvidenceTyped(c') /\ Steady(c') /\ c'.role = c.role
      /\ c'.last = c.last /\ c'.sequence = c.sequence
      /\ c'.pose = c.pose + 1 /\ c'.clear.n = 0 /\ c'.removal = 0
      /\ c'.latched => c.latched
  BY <1>1, DiscontinuityEffect DEF PipelineTypes
<1>3. ~Begun /\ ~Begun'
  BY <1>1 DEF Begun, P!Idle
<1>4. PipelineTypes'
  <2>1. EvidenceTyped(c)' /\ Steady(c)' /\ History(h)'
    BY <1>1, <1>2 DEF PipelineTypes, EvidenceTyped, Steady, History
  <2> QED  BY <1>1, <2>1 DEF PipelineTypes, P!Idle
<1>5. OwnerHolds'
  BY <1>2 DEF OwnerHolds
<1>6. ReviewsHold'
  <2> SUFFICES ASSUME h.run > 0 PROVE ReviewsHold'
    BY <1>1 DEF ReviewsHold
  <2>1. /\ h.key[1] # 0 /\ h.key[1] <= c.sequence /\ h.key[4] <= c.pose
        /\ h.run <= MaxActive + 1
    BY DEF ReviewsHold
  <2>2. h.key[4] < c'.pose /\ h.key[4] <= c'.pose
    BY <1>2, <2>1 DEF PipelineTypes, History, EvidenceTyped
  <2> QED  BY <1>1, <1>2, <2>1, <2>2 DEF ReviewsHold
<1>7. StatusHolds'
  BY <1>1 DEF StatusHolds
<1>8. ClearsHold'
  BY <1>1, <1>2, <1>3 DEF ClearsHold, Renewed
<1> QED  BY <1>4, <1>5, <1>6, <1>7, <1>8

LEMMA PipelineInvariant == P!Spec => []PipelineIInv
<1>1. ASSUME PipelineIInv, [P!Next]_(P!vars) PROVE PipelineIInv'
  <2>1. CASE \E f \in LoadFrames : P!BeginFrame(f)
    BY <1>1, <2>1, PipelineBegin
  <2>2. CASE P!FinishFrame
    BY <1>1, <2>2, PipelineFinish
  <2>3. CASE P!HookChanges
    BY <1>1, <2>3, PipelineHook
  <2>4. CASE P!PoseJump
    BY <1>1, <2>4, PipelinePose
  <2>5. CASE UNCHANGED P!vars
    BY <1>1, <2>5
       DEF P!vars, PipelineIInv, PipelineTypes, OwnerHolds, ClearsHold,
           ReviewsHold, StatusHolds, EvidenceTyped, Steady, History, Fits,
           Begun, Renewed, Dropped, Earned
  <2> QED  BY <1>1, <2>1, <2>2, <2>3, <2>4, <2>5 DEF P!Next
<1> QED  BY <1>1, PipelineInit, PTL DEF P!Spec

\* Whatever a frame brings and however the hook signal changes under it, a
\* published status satisfies the contract of the alarm heartbeat, so that its
\* code reaches the crane (composeCargoSafetyStatus, validateStatusContract).
THEOREM StatusReaches ==
    ASSUME \/ Roles = {"REQUIRED"}
           \/ \A f \in LoadFrames :
                 f.outcome = "empty" => f.envelope # "identity"
    PROVE  P!Spec => []StatusReachesAlarm
<1>1. UnambiguousFrames
  BY DEF UnambiguousFrames
<1>2. PipelineIInv => StatusReachesAlarm
  BY <1>1 DEF PipelineIInv, StatusHolds, StatusReachesAlarm,
     P!StatusReachesAlarm
<1> QED  BY <1>2, PipelineInvariant, PTL

\* Where the hook signal is used, a load is reported clear only on frames of
\* its own that saw it clear, and only the load whose geometry authorised it
\* has its points removed (CargoSafetyTemporalFilter, HookEdge).
THEOREM AuthorityIsOwn ==
    ASSUME "DISABLED" \notin Roles
    PROVE  P!Spec => []AuthorityOfThisLoad
<1>1. PipelineIInv => AuthorityOfThisLoad
  <2> SUFFICES ASSUME PipelineIInv PROVE AuthorityOfThisLoad
    OBVIOUS
  <2>1. c.role # "DISABLED"
    BY DEF PipelineIInv, PipelineTypes, EvidenceTyped
  <2>2. P!ClearIsEarned
    BY <2>1 DEF PipelineIInv, ClearsHold, P!ClearIsEarned
  <2>3. P!RemovalOfThisLoad
    BY DEF PipelineIInv, OwnerHolds, P!RemovalOfThisLoad
  <2> QED  BY <2>2, <2>3 DEF AuthorityOfThisLoad, P!AuthorityOfThisLoad
<1> QED  BY <1>1, PipelineInvariant, PTL

\* No more than MaxActive + 1 frames in a row ask for a review of the same
\* obstacle, for every limit and cooldown (AnomalyReviewEpisodeTracker).
THEOREM ReviewIsBounded == P!Spec => []ReviewEnds
<1>1. PipelineIInv => ReviewEnds
  <2>1. PipelineIInv => h.run \in Nat /\ MaxActive \in Nat
    BY PipelineAssumption DEF PipelineIInv, PipelineTypes, History
  <2>2. PipelineIInv /\ h.run > 0 => h.run <= MaxActive + 1
    BY DEF PipelineIInv, ReviewsHold
  <2> QED  BY <2>1, <2>2 DEF ReviewEnds, P!ReviewEnds
<1> QED  BY <1>1, PipelineInvariant, PTL
=============================================================================
