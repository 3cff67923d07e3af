------------------------ MODULE SafetyTemporalFilter ------------------------
(***************************************************************************)
(* CargoSafetyTemporalFilter: the confirmation window between the raw      *)
(* obstacle decision of one LiDAR frame and the published 14/17/18.        *)
(*                                                                         *)
(* A frame is abstracted to what update() tells apart.  The centroid, the  *)
(* footprint distance and the clearance are one "place": the step limits   *)
(* are met exactly between frames of the same place.  An authority is a    *)
(* pose-authority identity or NoAuthority.                                 *)
(***************************************************************************)
EXTENDS Integers, Sequences

CONSTANTS
    Authorities,         \* valid TemporalEvidenceAuthority identities
    NoAuthority,         \* an authority whose valid flag is false
    Places,              \* classes of spatially continuous clusters
    HazardConfirmFrames, \* hazard_confirm_frames
    ClearConfirmFrames,  \* clear_confirm_frames
    MaxGap,              \* maximum_evidence_gap_sec
    MaxStamp,            \* bound: source stamps
    Frames               \* bound: the frames the environment may send

Clear  == 14
Level1 == 17
Level2 == 18
Codes  == {Clear, Level1, Level2}
Fault  == 16   \* a status code that is not a protocol code of the filter

\* CargoSafetyTemporalInput.  "raw" is raw_valid with a positive finite stamp;
\* "robust" says that the cluster has enough points and finite geometry.
Inputs ==
    [stamp : 1 .. MaxStamp, raw : BOOLEAN, code : Codes \cup {Fault},
     robust : BOOLEAN,
     place : Places, cargo : Authorities \cup {NoAuthority},
     obstacle : Authorities \cup {NoAuthority}]

\* validateCargoSafetyTemporalConfig
ConfigValid ==
    /\ HazardConfirmFrames \in Nat /\ HazardConfirmFrames >= 2
    /\ ClearConfirmFrames \in Nat /\ ClearConfirmFrames >= 2
    /\ MaxGap \in Nat \ {0}

ASSUME TemporalConstants ==
    /\ ConfigValid
    /\ NoAuthority \notin Authorities
    /\ MaxStamp \in Nat \ {0}
    /\ Frames \subseteq Inputs

NoInput == [stamp |-> 0, raw |-> FALSE]

VARIABLES
    lastStamp,  \* last_source_stamp_sec_, 0 while has_source_stamp_ is false
    candidate,  \* the last frame of the candidate, NoInput when invalid
    count,      \* candidate_count_
    confirmed,  \* confirmed_code_, 0 when confirmed_valid_ is false
    decision,   \* the CargoSafetyTemporalDecision returned: code, 0 = pending
    log         \* history: the frames received, repeated stamps left out

vars == <<lastStamp, candidate, count, confirmed, decision, log>>

Hazard(c) == c \in {Level1, Level2}

Required(c) ==
    IF Hazard(c) THEN HazardConfirmFrames ELSE ClearConfirmFrames

WindowSize ==
    IF HazardConfirmFrames > ClearConfirmFrames
    THEN HazardConfirmFrames ELSE ClearConfirmFrames

\* The last WindowSize frames received.
Logged(i) ==
    LET l == Append(log, i)
    IN  IF Len(l) > WindowSize THEN Tail(l) ELSE l

Init ==
    /\ lastStamp = 0 /\ candidate = NoInput /\ count = 0
    /\ confirmed = 0 /\ decision = 0
    /\ log = <<>>

-----------------------------------------------------------------------------

\* pendingDecision, with the candidate dropped.
DropCandidate(i) ==
    /\ candidate' = NoInput /\ count' = 0
    /\ decision' = 0
    /\ log' = Logged(i)

RawValid(i) == i.raw /\ i.code \in Codes

InvalidRaw(i) ==
    /\ ~RawValid(i)
    /\ DropCandidate(i)
    /\ UNCHANGED <<lastStamp, confirmed>>

AuthorityValid(i) == i.cargo # NoAuthority /\ i.cargo = i.obstacle

\* Cargo and obstacle must come from one pose authority.
AuthorityMismatch(i) ==
    /\ RawValid(i) /\ ~AuthorityValid(i)
    /\ DropCandidate(i)
    /\ confirmed' = 0
    /\ UNCHANGED lastStamp

\* The stamp of the frame processed last.
Repeated(i) == lastStamp # 0 /\ i.stamp = lastStamp

RepeatedStamp(i) ==
    /\ RawValid(i) /\ AuthorityValid(i)
    /\ Repeated(i)
    /\ decision' = 0
    /\ UNCHANGED <<lastStamp, candidate, count, confirmed, log>>

Accepted(i) == RawValid(i) /\ AuthorityValid(i) /\ ~Repeated(i)

\* A replay or an upstream restart: reset() and go on with this frame.
RolledBack(i) == i.stamp < lastStamp

SparseHazard(i) ==
    /\ Accepted(i) /\ Hazard(i.code) /\ ~i.robust
    /\ lastStamp' = i.stamp
    /\ DropCandidate(i)
    /\ confirmed' = IF RolledBack(i) THEN 0 ELSE confirmed

\* same_candidate, gap_continuous and (for a hazard) spatially_continuous.
Continues(i) ==
    /\ candidate # NoInput /\ ~RolledBack(i)
    /\ i.code = candidate.code /\ i.cargo = candidate.cargo
    /\ i.stamp - candidate.stamp <= MaxGap
    /\ Hazard(i.code) => i.place = candidate.place

Enough_Exactly(c, n) == n = Required(c)   \* mutant: confirms only once

Enough(c, n) == n >= Required(c)

Capped(n) == IF n > WindowSize THEN WindowSize ELSE n

\* Count the frame and confirm or stay pending.
Evidence(i) ==
    /\ Accepted(i) /\ (Hazard(i.code) => i.robust)
    /\ lastStamp' = i.stamp
    /\ candidate' = i
    /\ LET n == IF Continues(i) THEN count + 1 ELSE 1
       IN  /\ count' = Capped(n)
           /\ IF Enough(i.code, n)
              THEN confirmed' = i.code /\ decision' = i.code
              ELSE /\ confirmed' = IF RolledBack(i) THEN 0 ELSE confirmed
                   /\ decision' = 0
    /\ log' = Logged(i)

Update(i) ==
    InvalidRaw(i) \/ AuthorityMismatch(i) \/ RepeatedStamp(i)
        \/ SparseHazard(i) \/ Evidence(i)

Next == \E i \in Frames : Update(i)

Spec == Init /\ [][Next]_vars

-----------------------------------------------------------------------------
(* Properties.                                                             *)

\* Every field of the filter is well formed, and the count of the candidate
\* stays what the window can hold.
TypeOK ==
    /\ lastStamp \in 0 .. MaxStamp
    /\ candidate \in Inputs \cup {NoInput}
    /\ count \in 0 .. WindowSize
    /\ confirmed \in Codes \cup {0} /\ decision \in Codes \cup {0}
    /\ log \in Seq(Inputs) /\ Len(log) <= WindowSize

\* The reference, on the frames alone: the last Required(c) frames all carry
\* code c from one authority, none is missing, invalid or sparse, their stamps
\* increase without a gap and a hazard stays at its place.
Backed(c) ==
    LET n == Len(log)
        k == Required(c)
    IN  /\ n >= k
        /\ \A j \in (n - k + 1) .. n :
              /\ log[j].raw /\ log[j].code = c
              /\ log[j].cargo # NoAuthority /\ log[j].cargo = log[j].obstacle
              /\ Hazard(c) => log[j].robust
        /\ \A j \in (n - k + 2) .. n :
              /\ log[j].stamp > log[j - 1].stamp
              /\ log[j].stamp - log[j - 1].stamp <= MaxGap
              /\ log[j].cargo = log[j - 1].cargo
              /\ Hazard(c) => log[j].place = log[j - 1].place

\* Every published 14/17/18 is backed by the current confirmation window and
\* never by a confirmation of an earlier one.
PublishedIsBacked == decision # 0 => Backed(decision)

\* The other direction: a window that confirms a code is reported with the
\* frame that completes it, whatever was confirmed, dropped or rolled back
\* before.  A frame changes the log exactly when it is not a repetition.
BackedIsPublished ==
    [][\A code \in Codes :
           (log' # log /\ Backed(code)') => decision' = code]_vars

\* The filter publishes exactly what the window of frames confirms.
PublishedIffBacked == BackedIsPublished /\ []PublishedIsBacked
=============================================================================
