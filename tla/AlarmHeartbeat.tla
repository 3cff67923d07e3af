--------------------------- MODULE AlarmHeartbeat ---------------------------
(***************************************************************************)
(* cargo_alarm_heartbeat_node: the node between the avoidance pipeline and *)
(* the main controller.  It receives CargoSafetyStatus messages through a  *)
(* subscriber queue of length one, validates each against the status       *)
(* contract, feeds the resulting code to AlarmStateMachine::ingest, and on *)
(* a wall timer calls AlarmStateMachine::tick and republishes the code on  *)
(* a latched topic.                                                        *)
(*                                                                         *)
(* The wall clock and the stamps of the source are separate: either may    *)
(* run backwards, and messages may be lost, duplicated, delayed or carry   *)
(* an unusable stamp (0).  Times are whole ticks, so the microsecond       *)
(* tolerance kTimeEpsilonSec of the comparisons disappears.                *)
(***************************************************************************)
EXTENDS StatusContract

CONSTANTS
    Messages,       \* contract inputs the pipeline may publish
    NoStatus,       \* has_last_status_ = false / empty subscriber queue
    StaleTimeout,   \* stale_timeout_sec_, in ticks
    MaxStamp,       \* bound: largest source stamp
    Horizon,        \* bound: the source publishes only before this wall time
    MaxWall,        \* bound: largest wall time, past Horizon + StaleTimeout
    MaxRollbacks    \* bound: number of backward steps of the wall clock

ASSUME StaleTimeoutAssumption == StaleTimeout \in Nat \ {0}
ASSUME BoundsAssumption ==
    /\ MaxStamp \in Nat
    /\ Horizon \in Nat
    /\ MaxWall \in Nat
    /\ MaxRollbacks \in Nat
ASSUME NoStatusAssumption == NoStatus \notin Messages

VARIABLES
    wall,          \* ros::WallTime::now()
    rollbacks,     \* backward wall steps so far (bound only)
    alive,         \* the pipeline still publishes
    inbox,         \* subscriber queue of length 1: NoStatus or [msg, stamp]
    code,          \* current_code_
    hasStatus,     \* has_status_
    hasWall,       \* has_wall_observation_
    hasSource,     \* has_source_stamp_
    lastReceipt,   \* last_receipt_wall_sec_
    lastObserved,  \* last_observed_wall_sec_
    lastSource,    \* last_source_stamp_sec_
    lastProgress,  \* last_source_progress_wall_sec_
    lastStatus,    \* last_status_, NoStatus while has_last_status_ is false
    published,     \* value latched on status_code_topic_
    pendingActive  \* pending_active_

env     == <<wall, rollbacks, alive, inbox>>
machine == <<code, hasStatus, hasWall, hasSource, lastReceipt, lastObserved,
             lastSource, lastProgress>>
node    == <<lastStatus, published, pendingActive>>
vars    == <<env, machine, node>>

Stamps == 0 .. MaxStamp

Init ==
    /\ wall = 0 /\ rollbacks = 0 /\ alive = TRUE /\ inbox = NoStatus
    /\ code = SystemNotReady
    /\ hasStatus = FALSE /\ hasWall = FALSE /\ hasSource = FALSE
    /\ lastReceipt = 0 /\ lastObserved = 0
    /\ lastSource = 0 /\ lastProgress = 0
    /\ lastStatus = NoStatus
    /\ published = SystemNotReady    \* publishCode(..., "startup_not_ready")
    /\ pendingActive = FALSE

-----------------------------------------------------------------------------
(* Environment.                                                            *)

Advance ==
    /\ wall < MaxWall
    /\ wall >= Horizon => inbox = NoStatus   \* bound: deliveries end too
    /\ wall' = wall + 1
    /\ UNCHANGED <<rollbacks, alive, inbox, machine, node>>

\* The wall clock is set back (NTP step, operator).
WallRollback ==
    /\ wall < Horizon /\ rollbacks < MaxRollbacks
    /\ \E w \in 0 .. wall - 1 : wall' = w
    /\ rollbacks' = rollbacks + 1
    /\ UNCHANGED <<alive, inbox, machine, node>>

\* The pipeline publishes; a message still queued is overwritten (queue 1).
Publish(m, s) ==
    /\ alive /\ wall < Horizon
    /\ inbox' = [msg |-> m, stamp |-> s]
    /\ UNCHANGED <<wall, rollbacks, alive, machine, node>>

\* The pipeline stops for good.
Die ==
    /\ alive
    /\ alive' = FALSE
    /\ UNCHANGED <<wall, rollbacks, inbox, machine, node>>

-----------------------------------------------------------------------------
(* AlarmStateMachine.                                                      *)

WallRolledBack == hasWall /\ wall < lastObserved

\* observeWallClock: a rolled back reading becomes the new reference.
ObserveWallClock == lastObserved' = wall /\ hasWall' = TRUE

\* ingest(requested, wall, stamp): the new machine state, and whether the
\* message was accepted as "fresh_status".
Stale(progress) == wall - progress >= StaleTimeout

Advanced_OnDuplicate(s) == ~hasSource \/ s >= lastSource   \* mutant

Advanced(s) == ~hasSource \/ s > lastSource

IngestFresh(requested, s) ==
    ~WallRolledBack /\ s > 0 /\ Advanced(s) /\ requested \in AllowedCodes

Ingest(requested, s) ==
    /\ ObserveWallClock
    /\ \/ /\ WallRolledBack
          /\ code' = SystemNotReady
          /\ UNCHANGED <<hasStatus, hasSource, lastReceipt, lastSource,
                         lastProgress>>
       \/ /\ ~WallRolledBack
          /\ hasStatus' = TRUE
          /\ lastReceipt' = wall
          /\ \/ /\ s <= 0
                /\ code' = InternalError
                /\ UNCHANGED <<hasSource, lastSource, lastProgress>>
             \/ /\ s > 0 /\ hasSource /\ s < lastSource
                /\ lastSource' = s /\ lastProgress' = wall
                /\ code' = SystemNotReady
                /\ UNCHANGED hasSource
             \/ /\ s > 0 /\ Advanced(s)
                /\ hasSource' = TRUE
                /\ lastSource' = s /\ lastProgress' = wall
                /\ code' = IF requested \in AllowedCodes
                           THEN requested ELSE InternalError
             \/ /\ s > 0 /\ hasSource /\ s = lastSource
                /\ code' = IF Stale(lastProgress) THEN SystemNotReady
                           ELSE IF requested \notin AllowedCodes
                           THEN InternalError ELSE code
                /\ UNCHANGED <<hasSource, lastSource, lastProgress>>

Tick_ReceiptOnly ==   \* mutant: a frozen source stamp is not noticed
    /\ ObserveWallClock
    /\ code' = IF WallRolledBack \/ ~hasStatus \/ Stale(lastReceipt)
               THEN SystemNotReady ELSE code
    /\ UNCHANGED <<hasStatus, hasSource, lastReceipt, lastSource,
                   lastProgress>>

Tick_NoExpiry ==   \* mutant: the heartbeat repeats the last code for ever
    /\ ObserveWallClock
    /\ code' = IF WallRolledBack \/ ~hasStatus THEN SystemNotReady ELSE code
    /\ UNCHANGED <<hasStatus, hasSource, lastReceipt, lastSource,
                   lastProgress>>

Tick ==
    /\ ObserveWallClock
    /\ code' = IF \/ WallRolledBack
                  \/ ~hasStatus
                  \/ Stale(lastReceipt)
                  \/ Stale(lastProgress)
               THEN SystemNotReady ELSE code
    /\ UNCHANGED <<hasStatus, hasSource, lastReceipt, lastSource,
                   lastProgress>>

-----------------------------------------------------------------------------
(* AlarmHeartbeatNode.                                                     *)

\* publishCode: the latched value, and the pending episode it belongs to.
PublishCode(c, status) ==
    /\ published' = c
    /\ pendingActive' = ( /\ c = ObstacleInvalid
                          /\ status # NoStatus
                          /\ status.evidence \in PendingEvidence )

PendingEpisodeChanged_IgnoresEvidence(m) ==   \* mutant
    /\ ValidateStatusContract(m) = ObstacleInvalid
    /\ \/ lastStatus = NoStatus
       \/ lastStatus.cargo_track # m.cargo_track

PendingEpisodeChanged(m) ==
    /\ ValidateStatusContract(m) = ObstacleInvalid
    /\ \/ lastStatus = NoStatus
       \/ lastStatus.requested # m.requested
       \/ lastStatus.evidence # m.evidence
       \/ lastStatus.cargo_track # m.cargo_track

KeptStatus_KeepsDuplicate(m, fresh) == m   \* mutant

\* last_status_ is replaced by a fresh status, or set by the first one.
KeptStatus(m, fresh) ==
    IF lastStatus = NoStatus \/ fresh THEN m ELSE lastStatus

StatusCallback ==
    /\ inbox # NoStatus
    /\ inbox' = NoStatus
    /\ LET m         == inbox.msg
           requested == ValidateStatusContract(m)
           fresh     == IngestFresh(requested, inbox.stamp)
       IN  /\ Ingest(requested, inbox.stamp)
           /\ lastStatus' = KeptStatus(m, fresh)
           /\ IF code' # code \/ (fresh /\ PendingEpisodeChanged(m))
              THEN PublishCode(code', lastStatus')
              ELSE UNCHANGED <<published, pendingActive>>
    /\ UNCHANGED <<wall, rollbacks, alive>>

HeartbeatCallback ==
    /\ Tick
    /\ PublishCode(code', lastStatus)
    /\ UNCHANGED <<env, lastStatus>>

Next ==
    \/ Advance
    \/ WallRollback
    \/ \E m \in Messages, s \in Stamps : Publish(m, s)
    \/ Die
    \/ StatusCallback
    \/ HeartbeatCallback

Spec == Init /\ [][Next]_vars

\* Real time passes, the wall timer fires, and roscpp's spinner serves the
\* queue.  Nothing forces the pipeline to publish.
Fairness == WF_vars(Advance) /\ WF_vars(HeartbeatCallback) /\ WF_vars(StatusCallback)

FairSpec == Spec /\ Fairness

-----------------------------------------------------------------------------
(* Properties.                                                             *)

\* Every variable is well formed; in particular the machine and the latched
\* topic only ever carry a code of the controller's protocol.
TypeOK ==
    /\ wall \in Nat /\ rollbacks \in Nat /\ alive \in BOOLEAN
    /\ inbox \in [msg : Messages, stamp : Stamps] \cup {NoStatus}
    /\ code \in AllowedCodes /\ published \in AllowedCodes
    /\ hasStatus \in BOOLEAN /\ hasWall \in BOOLEAN /\ hasSource \in BOOLEAN
    /\ lastReceipt \in Nat /\ lastObserved \in Nat
    /\ lastSource \in Stamps /\ lastProgress \in Nat
    /\ lastStatus \in Messages \cup {NoStatus}
    /\ pendingActive \in BOOLEAN

Authoritative(c) == c \notin {SystemNotReady, InternalError}

\* AlarmStateMachine: while the machine holds any code that claims to know
\* the situation (14, 17, 18, 29, 31..34), the source has advanced its stamp
\* less than StaleTimeout before the newest wall reading, and no receipt or
\* progress time lies in the future of that reading, whatever the two clocks
\* did in between.
FreshAuthority ==
    Authoritative(code) =>
        /\ hasStatus /\ hasSource /\ hasWall
        /\ lastProgress <= lastReceipt
        /\ lastReceipt <= lastObserved
        /\ lastObserved - lastProgress < StaleTimeout

\* statusCallback keeps last_status_ and the code together: a 14/17/18/29 (or
\* a pipeline fault 31..34) is always logged with the fields of the message
\* whose contract yields that very code, never with those of a duplicate, a
\* rolled back or a rejected message.
StatusExplainsCode ==
    Authoritative(code) =>
        /\ lastStatus # NoStatus
        /\ ValidateStatusContract(lastStatus) = code

\* The latched topic always carries the machine's current code although a
\* callback publishes only on a change, and the pending episode the node
\* tracks is the one of the status it keeps.
LatchedIsCurrent ==
    /\ published = code
    /\ pendingActive <=> /\ code = ObstacleInvalid
                         /\ lastStatus # NoStatus
                         /\ lastStatus.evidence \in PendingEvidence

\* The published code enters CLEAR only in a status callback whose message
\* moves the source stamp forward: no heartbeat, duplicate, rollback or wall
\* clock step can bring 14 back.
ClearNeedsNewEvidence ==
    [][ published # Clear /\ published' = Clear =>
          /\ inbox # NoStatus /\ inbox' = NoStatus
          /\ hasSource => lastSource' > lastSource ]_vars

\* Once the pipeline has stopped, the controller is told 30 for good: neither
\* a queued message nor a backward clock step keeps an old code alive.
SilenceIsReported == ~alive ~> [](published = SystemNotReady)
=============================================================================
