------------------------ MODULE AlarmHeartbeatProofs ------------------------
(***************************************************************************)
(* Proofs about the alarm heartbeat node, for every set of messages, every *)
(* timeout and every bound of the clocks.                                  *)
(*                                                                         *)
(* TypeOK is inductive by itself and FreshAuthority is inductive relative  *)
(* to it.  StatusExplainsCode supplies what LatchedIsCurrent needs: before *)
(* any status is kept, the code is 30 or 35, so adopting a first, rejected *)
(* status cannot open a pending episode behind the publisher's back.       *)
(***************************************************************************)
EXTENDS AlarmHeartbeat, TLAPS

Requested == ValidateStatusContract(inbox.msg)
Fresh     == IngestFresh(Requested, inbox.stamp)

\* What AlarmStateMachine::ingest leaves in current_code_ in a status callback:
\* a forced 30 or 35, the old code, or the code of a fresh status.
LEMMA CodeAfterIngest ==
    ASSUME TypeOK, StatusCallback
    PROVE  \/ code' \in {SystemNotReady, InternalError} /\ ~Fresh
           \/ code' = code /\ ~Fresh
           \/ code' = Requested /\ Fresh
<1>1. inbox.stamp \in Nat /\ lastSource \in Nat
  BY BoundsAssumption DEF StatusCallback, TypeOK, Stamps
<1>2. Ingest(Requested, inbox.stamp)
  BY DEF StatusCallback, Requested
<1> QED  BY <1>1, <1>2 DEF Ingest, Fresh, IngestFresh, Advanced

\* Every variable of the node keeps its type (the codes stay within the codes
\* isAllowedCode accepts, every stored time is a natural number).
THEOREM TypeCorrect == Spec => []TypeOK
<1> USE StaleTimeoutAssumption, BoundsAssumption, NoStatusAssumption
<1> USE DEF AllowedCodes, WarningCodes, FaultCodes, Clear, Level1Warning,
            Level2Warning, AnomalyReview, SystemNotReady, InternalError
<1>1. Init => TypeOK
  <2> SUFFICES ASSUME Init PROVE TypeOK
    OBVIOUS
  <2>1. /\ code \in AllowedCodes /\ published \in AllowedCodes
        /\ lastSource \in Stamps
    BY DEF Init, Stamps
  <2>2. /\ hasStatus \in BOOLEAN /\ hasWall \in BOOLEAN
        /\ hasSource \in BOOLEAN /\ pendingActive \in BOOLEAN
        /\ alive \in BOOLEAN
    BY DEF Init
  <2>3. wall \in Nat /\ rollbacks \in Nat /\ lastReceipt \in Nat
        /\ lastObserved \in Nat /\ lastProgress \in Nat
    BY DEF Init
  <2> QED  BY <2>1, <2>2, <2>3 DEF Init, TypeOK
<1>2. TypeOK /\ [Next]_vars => TypeOK'
  <2> SUFFICES ASSUME TypeOK, [Next]_vars PROVE TypeOK'
    OBVIOUS
  <2>1. CASE Advance
    BY <2>1 DEF TypeOK, Advance, Stamps, machine, node
  <2>2. CASE WallRollback
    BY <2>2 DEF TypeOK, WallRollback, Stamps, machine, node
  <2>3. ASSUME NEW m \in Messages, NEW s \in Stamps, Publish(m, s)
        PROVE TypeOK'
    BY <2>3 DEF TypeOK, Publish, Stamps, machine, node
  <2>4. CASE Die
    BY <2>4 DEF TypeOK, Die, Stamps, machine, node
  <2>5. CASE StatusCallback
    <3>1. inbox.msg \in Messages /\ inbox.stamp \in Stamps
      BY <2>5 DEF StatusCallback, TypeOK
    <3>2. Ingest(Requested, inbox.stamp)
      BY <2>5 DEF StatusCallback, Requested
    <3>3. /\ hasStatus' \in BOOLEAN /\ hasWall' \in BOOLEAN
          /\ hasSource' \in BOOLEAN
          /\ lastReceipt' \in Nat /\ lastObserved' \in Nat
          /\ lastSource' \in Stamps /\ lastProgress' \in Nat
      BY <3>1, <3>2 DEF Ingest, ObserveWallClock, TypeOK
    <3>4. code' \in AllowedCodes
      BY <2>5, CodeAfterIngest DEF Fresh, IngestFresh, TypeOK
    <3>5. lastStatus' \in Messages \cup {NoStatus}
      BY <2>5, <3>1 DEF StatusCallback, KeptStatus, TypeOK
    <3>6. published' \in AllowedCodes /\ pendingActive' \in BOOLEAN
      <4>1. \/ PublishCode(code', lastStatus')
            \/ UNCHANGED <<published, pendingActive>>
        BY <2>5 DEF StatusCallback
      <4>2. CASE PublishCode(code', lastStatus')
        BY <4>2, <3>4 DEF PublishCode
      <4>3. CASE UNCHANGED <<published, pendingActive>>
        BY <4>3 DEF TypeOK
      <4> QED  BY <4>1, <4>2, <4>3
    <3>7. /\ wall' \in Nat /\ rollbacks' \in Nat /\ alive' \in BOOLEAN
          /\ inbox' \in [msg : Messages, stamp : Stamps] \cup {NoStatus}
      BY <2>5 DEF StatusCallback, TypeOK
    <3> QED  BY <3>3, <3>4, <3>5, <3>6, <3>7 DEF TypeOK
  <2>6. CASE HeartbeatCallback
    BY <2>6 DEF TypeOK, HeartbeatCallback, Tick, ObserveWallClock,
                PublishCode, Stamps, env
  <2>7. CASE UNCHANGED vars
    BY <2>7 DEF TypeOK, Stamps, vars, env, machine, node
  <2> QED  BY <2>1, <2>2, <2>3, <2>4, <2>5, <2>6, <2>7 DEF Next
<1> QED  BY <1>1, <1>2, PTL DEF Spec

-----------------------------------------------------------------------------

\* A claim about the situation is always backed by source progress that is
\* younger than the timeout on the newest wall reading (FreshAuthority).
THEOREM Freshness == Spec => []FreshAuthority
<1> USE StaleTimeoutAssumption, BoundsAssumption
<1> USE DEF Authoritative, SystemNotReady, InternalError
<1>1. Init => FreshAuthority
  BY DEF Init, FreshAuthority
<1>2. TypeOK /\ FreshAuthority /\ [Next]_vars => FreshAuthority'
  <2> SUFFICES ASSUME TypeOK, FreshAuthority, [Next]_vars
               PROVE  FreshAuthority'
    OBVIOUS
  <2>1. CASE StatusCallback
    <3>1. /\ inbox.stamp \in Nat /\ lastSource \in Nat /\ wall \in Nat
          /\ lastReceipt \in Nat /\ lastObserved \in Nat
          /\ lastProgress \in Nat
      BY <2>1 DEF StatusCallback, TypeOK, Stamps
    <3>2. Ingest(Requested, inbox.stamp) /\ wall' = wall
      BY <2>1 DEF StatusCallback, Requested
    <3> QED  BY <3>1, <3>2 DEF Ingest, ObserveWallClock, WallRolledBack,
                Advanced, Stale, FreshAuthority
  <2>2. CASE HeartbeatCallback
    BY <2>2 DEF HeartbeatCallback, Tick, ObserveWallClock, WallRolledBack,
                Stale, FreshAuthority, TypeOK, env
  <2>3. CASE UNCHANGED machine
    BY <2>3 DEF machine, FreshAuthority
  <2> QED  BY <2>1, <2>2, <2>3
           DEF Next, Advance, WallRollback, Publish, Die, vars
<1> QED  BY <1>1, <1>2, TypeCorrect, PTL DEF Spec

\* The code and the status kept for the operator always belong together
\* (StatusExplainsCode).
THEOREM Explained == Spec => []StatusExplainsCode
<1> USE DEF Authoritative
<1>1. Init => StatusExplainsCode
  BY DEF Init, StatusExplainsCode
<1>2. TypeOK /\ StatusExplainsCode /\ [Next]_vars => StatusExplainsCode'
  <2> SUFFICES ASSUME TypeOK, StatusExplainsCode, [Next]_vars
               PROVE  StatusExplainsCode'
    OBVIOUS
  <2>1. CASE StatusCallback
    <3>1. inbox.msg # NoStatus
      BY <2>1, NoStatusAssumption DEF StatusCallback, TypeOK
    <3>2. lastStatus' = IF lastStatus = NoStatus \/ Fresh
                        THEN inbox.msg ELSE lastStatus
      BY <2>1 DEF StatusCallback, Fresh, Requested, KeptStatus
    <3> QED  BY <2>1, <3>1, <3>2, CodeAfterIngest
             DEF StatusExplainsCode, Requested
  <2>2. CASE HeartbeatCallback
    BY <2>2 DEF HeartbeatCallback, Tick, StatusExplainsCode
  <2>3. CASE UNCHANGED <<code, lastStatus>>
    BY <2>3 DEF StatusExplainsCode
  <2> QED  BY <2>1, <2>2, <2>3
           DEF Next, Advance, WallRollback, Publish, Die, vars, machine, node
<1> QED  BY <1>1, <1>2, TypeCorrect, PTL DEF Spec

Pending(c, status) ==
    /\ c = ObstacleInvalid
    /\ status # NoStatus
    /\ status.evidence \in PendingEvidence

\* Publishing only on a change never leaves the latched topic or the pending
\* episode behind the machine (LatchedIsCurrent).
THEOREM Latched == Spec => []LatchedIsCurrent
<1>1. Init => LatchedIsCurrent
  BY DEF Init, LatchedIsCurrent, SystemNotReady, ObstacleInvalid
<1>2. TypeOK /\ StatusExplainsCode /\ LatchedIsCurrent /\ [Next]_vars
        => LatchedIsCurrent'
  <2> SUFFICES ASSUME TypeOK, StatusExplainsCode, LatchedIsCurrent,
                      [Next]_vars
               PROVE  LatchedIsCurrent'
    OBVIOUS
  <2>1. CASE StatusCallback
    <3>1. CASE code' # code \/ (Fresh /\ PendingEpisodeChanged(inbox.msg))
      <4>1. PublishCode(code', lastStatus')
        BY <2>1, <3>1 DEF StatusCallback, Fresh, Requested
      <4> QED  BY <4>1 DEF PublishCode, LatchedIsCurrent
    <3>2. CASE ~(code' # code \/ (Fresh /\ PendingEpisodeChanged(inbox.msg)))
      <4>1. UNCHANGED <<published, pendingActive>> /\ code' = code
        BY <2>1, <3>2 DEF StatusCallback, Fresh, Requested
      <4>2. lastStatus' = IF lastStatus = NoStatus \/ Fresh
                          THEN inbox.msg ELSE lastStatus
        BY <2>1 DEF StatusCallback, Fresh, Requested, KeptStatus
      <4>3. Pending(code', lastStatus') <=> Pending(code, lastStatus)
        <5>1. CASE code # ObstacleInvalid
          BY <4>1, <5>1 DEF Pending
        <5>2. CASE code = ObstacleInvalid
          <6>1. lastStatus # NoStatus
            BY <5>2 DEF StatusExplainsCode, Authoritative, ObstacleInvalid,
                        SystemNotReady, InternalError
          <6>2. CASE ~Fresh
            BY <4>1, <4>2, <6>1, <6>2
          <6>3. CASE Fresh
            <7>1. lastStatus' = inbox.msg
              BY <4>2, <6>3
            <7>2. Requested = ObstacleInvalid
              BY <2>1, <4>1, <5>2, <6>3, CodeAfterIngest
            <7>3. ~PendingEpisodeChanged(inbox.msg)
              BY <3>2, <6>3
            <7>4. lastStatus.evidence = inbox.msg.evidence
              BY <7>2, <7>3 DEF PendingEpisodeChanged, Requested
            <7>5. inbox.msg # NoStatus
              BY <2>1, NoStatusAssumption DEF StatusCallback, TypeOK
            <7> QED  BY <4>1, <6>1, <7>1, <7>4, <7>5 DEF Pending
          <6> QED  BY <6>2, <6>3
        <5> QED  BY <5>1, <5>2
      <4> QED  BY <4>1, <4>3 DEF LatchedIsCurrent, Pending
    <3> QED  BY <3>1, <3>2
  <2>2. CASE HeartbeatCallback
    BY <2>2 DEF HeartbeatCallback, PublishCode, LatchedIsCurrent
  <2>3. CASE UNCHANGED <<code, lastStatus, published, pendingActive>>
    BY <2>3 DEF LatchedIsCurrent
  <2> QED  BY <2>1, <2>2, <2>3
           DEF Next, Advance, WallRollback, Publish, Die, vars, machine, node
<1> QED  BY <1>1, <1>2, TypeCorrect, Explained, PTL DEF Spec

\* CLEAR reaches the controller only through a status callback that moves the
\* source stamp forward (ClearNeedsNewEvidence).
THEOREM ClearIsEarned == Spec => ClearNeedsNewEvidence
<1> DEFINE Earned ==
      published # Clear /\ published' = Clear =>
          /\ inbox # NoStatus /\ inbox' = NoStatus
          /\ hasSource => lastSource' > lastSource
<1> USE DEF Clear, SystemNotReady, InternalError
<1>1. TypeOK /\ LatchedIsCurrent /\ [Next]_vars => [Earned]_vars
  <2> SUFFICES ASSUME TypeOK, LatchedIsCurrent, [Next]_vars,
                      published # Clear, published' = Clear
               PROVE  /\ inbox # NoStatus /\ inbox' = NoStatus
                      /\ hasSource => lastSource' > lastSource
    OBVIOUS
  <2>0. code # Clear
    BY DEF LatchedIsCurrent
  <2>1. CASE StatusCallback
    <3>1. inbox # NoStatus /\ inbox' = NoStatus
      BY <2>1 DEF StatusCallback
    <3>2. code' = Clear
      BY <2>1 DEF StatusCallback, PublishCode
    <3>3. Ingest(Requested, inbox.stamp)
      BY <2>1 DEF StatusCallback, Requested
    <3> QED  BY <2>0, <3>1, <3>2, <3>3 DEF Ingest, Advanced
  <2>2. CASE HeartbeatCallback
    BY <2>0, <2>2 DEF HeartbeatCallback, Tick, PublishCode
  <2>3. CASE UNCHANGED published
    BY <2>3
  <2> QED  BY <2>1, <2>2, <2>3
           DEF Next, Advance, WallRollback, Publish, Die, vars, node
<1> QED  BY <1>1, TypeCorrect, Latched, PTL DEF Spec, ClearNeedsNewEvidence
=============================================================================
