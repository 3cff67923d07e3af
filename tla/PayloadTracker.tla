--------------------------- MODULE PayloadTracker ---------------------------
(***************************************************************************)
(* The payload chain of commitKeyFrameWithDynamicFiltering: the tracks of  *)
(* PayloadTrackManager, the CargoBoxV2 box of each track, the boxes that   *)
(* remove points from the keyframe, the volumes that deny map cells, and   *)
(* the payload sessions of DynamicEventManager.                            *)
(*                                                                         *)
(* One Commit is one keyframe the map-commit worker filters, one unit of   *)
(* time after the one before.  A cluster is what extractClusters and       *)
(* updateMotionStats find: its place, the class of its motion in the map   *)
(* ("moving" passes every threshold of map_moving, "fast" twice the        *)
(* velocity one too), whether it is steady in base_link, its gap above the *)
(* ground and the size of the box estimated from it.                       *)
(***************************************************************************)
EXTENDS Naturals, Sequences

CONSTANTS Frames,    \* the keyframes of the instance
          Confirm,   \* motion_confirm_frames
          Suspend,   \* min_suspended_observed_frames
          MaxMissed, \* max_missed_frames
          Gone,      \* missed frames after which an expired track is erased
          Forget,    \* seconds after which cleanup erases an expired track
          Ttl,       \* suspended_static_ttl
          Hold,      \* hold time of the last good box
          Jumps,     \* size jumps a reinitialisation takes
          JumpLimit, \* suspended_static_max_reinit_reject
          Rejects,   \* rejected boxes a track survives
          MaxActive, \* max_active_sessions
          Merge,     \* merge_time_gap_sec
          Stop,      \* stable frames before CARRIED_STOPPING
          Rest,      \* stable_frames_thresh
          Cap        \* bound on counters and ages, above every limit

VARIABLES tracks,   \* tracks_, CargoBoxV2's fields included
          sessions, \* payload_sessions_
          boxes,    \* active_cargo_remove_boxes_base of the last keyframe
          denied    \* where it added deny volumes

vars == <<tracks, sessions, boxes, denied>>

Off == 99
Up(n) == IF n < Cap THEN n + 1 ELSE n
Age(n) == IF n = Off THEN Off ELSE Up(n)

Moving == {"DYNAMIC_PAYLOAD", "SUSPENDED_MOVING"}
Payload == Moving \union {"SUSPENDED_STATIC"}
Active(s) == s.state \in {"CANDIDATE", "CARRIED_MOVING", "CARRIED_STOPPING"}
Moves(motion) == motion \in {"moving", "fast"}

(***************************************************************************)
(* PayloadTrackManager::update.                                            *)
(***************************************************************************)
\* checkStateTransition, from the statistics of the matched cluster c.
Transition(t, c) ==
  LET confirmed == Moves(c.motion) /\ t.seen >= Confirm
  IN CASE t.state = "NEW" /\ t.seen >= 2 -> "PENDING_STATIC"
       [] t.state = "PENDING_STATIC" /\ c.steady /\ c.cargo /\ c.gap > 0 /\ confirmed -> "SUSPENDED_MOVING"
       [] t.state = "PENDING_STATIC" /\ c.steady /\ c.cargo /\ c.gap > 0 /\ ~confirmed /\ t.seen >= Suspend
            -> "SUSPENDED_STATIC"
       [] t.state = "PENDING_STATIC" /\ c.steady /\ c.cargo /\ c.gap = 0 /\ confirmed -> "DYNAMIC_PAYLOAD"
       [] t.state = "DYNAMIC_PAYLOAD" /\ c.gap > 1 -> "SUSPENDED_MOVING"
       [] t.state = "SUSPENDED_STATIC" /\ c.motion = "fast" -> "SUSPENDED_MOVING"
       [] t.state = "SUSPENDED_MOVING" /\ c.motion = "still" -> "SUSPENDED_STATIC"
       [] OTHER -> t.state

\* matchClusters: track i, in the order of tracks_, takes an untaken cluster
\* at its place whose residual and size fit.
Candidates(ts, cs, i, taken) ==
  {k \in DOMAIN cs : k \notin taken /\ ts[i].state # "EXPIRED" /\ cs[k].fits /\ cs[k].place = ts[i].place}
Matched(ts, cs) ==
  LET m[i \in 0..Len(ts)] ==
        IF i = 0 THEN << >>
        ELSE LET taken == {m[i - 1][j] : j \in 1..(i - 1)}
                 ks == Candidates(ts, cs, i, taken)
             IN Append(m[i - 1], IF ks = {} THEN 0 ELSE CHOOSE k \in ks : \A n \in ks : k <= n)
  IN m[Len(ts)]

Observed(t, c) ==
  LET u == [t EXCEPT !.seen = Up(@), !.missed = 0, !.age = 0, !.cluster = c]
  IN [u EXCEPT !.state = Transition(u, c)]
Missed(t) ==
  [t EXCEPT !.missed = Up(@), !.state = IF t.missed + 1 > MaxMissed THEN "EXPIRED" ELSE @]

NewTrack(id, c) ==
  [id |-> id, place |-> c.place, state |-> "NEW", seen |-> 1, missed |-> 0, age |-> 0,
   cluster |-> c, core |-> 0, strong |-> FALSE, jumps |-> 0, rejects |-> 0, good |-> Off, held |-> FALSE,
   grew |-> 0]

FreeIds(ts) == {n \in 1..(Len(ts) + Len(sessions) + 1) : (\A i \in DOMAIN ts : ts[i].id # n) /\ (\A i \in DOMAIN sessions : Active(sessions[i]) => sessions[i].track # n)}
LeastFree(ts) == CHOOSE n \in FreeIds(ts) : \A k \in FreeIds(ts) : n <= k

\* The tracks of ts but those at the indices gone.
Without(ts, gone) ==
  LET w[i \in 0..Len(ts)] == IF i = 0 THEN << >> ELSE IF i \in gone THEN w[i - 1] ELSE Append(w[i - 1], ts[i])
  IN w[Len(ts)]

\* The unmatched clusters become tracks.
Added(ts, cs, taken) ==
  LET a[k \in 0..Len(cs)] ==
        IF k = 0 THEN ts
        ELSE IF k \in taken THEN a[k - 1] ELSE Append(a[k - 1], NewTrack(LeastFree(a[k - 1]), cs[k]))
  IN a[Len(cs)]

Tracked(ts, cs) ==
  LET m == Matched(ts, cs)
      kept == [i \in DOMAIN ts |-> IF m[i] = 0 THEN Missed(ts[i]) ELSE Observed(ts[i], cs[m[i]])]
      all == Added(kept, cs, {m[i] : i \in DOMAIN ts})
  IN Without(all, {i \in DOMAIN all : all[i].state = "EXPIRED" /\ all[i].missed > Gone})

(***************************************************************************)
(* CargoBoxV2: one box per track, estimated from its latest cluster.       *)
(***************************************************************************)
\* max_size_growth_ratio 1.35 and the 1.5 of a reinitialisation.
Jumped(t) == t.core > 0 /\ t.seen > 2 /\ 100 * t.cluster.size > 135 * t.core
ReinitFits(t) == 10 * t.cluster.size <= 15 * t.core

Accepted(t) ==
  [t EXCEPT !.core = t.cluster.size, !.strong = t.cluster.strong, !.jumps = 0, !.rejects = 0, !.good = 0]

\* mutant: an accepted size leaves the jumps counted so far
NormalKeepsJumps(t) == [Accepted(t) EXCEPT !.held = FALSE, !.grew = 0, !.jumps = t.jumps]
Normal(t) == [Accepted(t) EXCEPT !.held = FALSE, !.grew = 0]

Reinitialised(t) == [Accepted(t) EXCEPT !.grew = 0]

\* The size is refused: the centre alone follows, the last good box stands
\* in while it is younger than Hold, and a track refused too often expires.
SizeTooLarge(t) ==
  LET u == [t EXCEPT !.rejects = Up(@), !.held = IF t.good < Hold THEN TRUE ELSE @]
  IN [u EXCEPT !.state = IF u.rejects > Rejects THEN "EXPIRED" ELSE @]

AfterJump(t) ==
  LET u == [t EXCEPT !.jumps = Up(@), !.grew = Up(@)]
      may == u.jumps >= Jumps /\ u.cluster.strong /\ u.state \in Moving
  IN IF ~ may THEN u ELSE IF ReinitFits(u) THEN Reinitialised(u) ELSE SizeTooLarge(u)

Boxed(t) ==
  IF t.state = "EXPIRED" \/ ~ t.cluster.box THEN t
  ELSE IF Jumped(t) THEN AfterJump(t) ELSE Normal(t)

\* cleanupStaleSuspendedStaticTracks
Cleaned(ts) ==
  LET stale(t) == t.state = "SUSPENDED_STATIC"
                  /\ (t.age > Ttl \/ t.jumps > JumpLimit \/ (t.core > 0 /\ ~ t.strong))
      marked == [i \in DOMAIN ts |-> IF stale(ts[i]) THEN [ts[i] EXCEPT !.state = "EXPIRED"] ELSE ts[i]]
  IN Without(marked, {i \in DOMAIN marked : marked[i].state = "EXPIRED" /\ marked[i].age > Forget})

(***************************************************************************)
(* buildActiveRemoveBoxForTrack: the source of a track's removal box, and  *)
(* whether the keyframe has points in it.                                  *)
(***************************************************************************)
Source(t) ==
  IF t.good # Off /\ ~ t.held THEN "CURRENT_VALID"
  ELSE IF t.good # Off /\ t.good < Hold THEN "LAST_GOOD"
  ELSE IF t.core > 0 THEN "CORE_FALLBACK" ELSE "NO_BOX"

Overlaps(f, place) == place \in f.structure \/ \E k \in DOMAIN f.clusters : f.clusters[k].place = place

RemoveBoxes(ts, f) ==
  {[place |-> t.place, source |-> Source(t), age |-> t.age] :
     t \in {ts[i] : i \in {j \in DOMAIN ts : /\ f.remove
                                            /\ ts[j].state \in Payload
                                            /\ Source(ts[j]) # "NO_BOX"
                                            /\ Overlaps(f, ts[j].place)}}}

\* addCargoDenyVolume3D
DenyPlaces(ts) == {ts[i].place : i \in {j \in DOMAIN ts : ts[j].state \in Moving /\ Moves(ts[j].cluster.motion)}}

(***************************************************************************)
(* DynamicEventManager.                                                    *)
(***************************************************************************)
\* shouldSuppressNewSession
Suppressed(ss, place) == \E i \in DOMAIN ss : ss[i].state = "PLACED_STATIC" /\ ss[i].place = place

\* findMatchingSession
Matches(ss, t) ==
  {i \in DOMAIN ss : Active(ss[i]) /\ (ss[i].track = t.id \/ (ss[i].age <= Merge /\ ss[i].place = t.place))}

NewSession(t) == [track |-> t.id, place |-> t.place, state |-> "CANDIDATE", stable |-> 0, age |-> 0, rested |-> 0]

\* updatePlacementDetection
Placement(s, calm) ==
  LET n == IF calm THEN Up(s.stable) ELSE 0
  IN [s EXCEPT !.stable = n, !.state = IF n >= Rest THEN "PLACED_STATIC" ELSE @]

\* updatePayloadSession while CARRIED_MOVING
Slowing(s, calm) ==
  LET n == IF calm THEN Up(s.stable) ELSE 0
  IN [s EXCEPT !.stable = n, !.state = IF calm /\ n >= Stop THEN "CARRIED_STOPPING" ELSE @]

\* updatePayloadSession and confirmPayloadSession, for a DYNAMIC_PAYLOAD track
Updated(s, t) ==
  LET calm == t.cluster.motion = "still"
      u == [s EXCEPT !.rested = IF calm THEN Up(@) ELSE 0]
  IN CASE s.state = "CANDIDATE" -> [u EXCEPT !.state = "CARRIED_MOVING"]
       [] s.state = "CARRIED_MOVING" -> Slowing(u, calm)
       [] s.state = "CARRIED_STOPPING" -> Placement(u, calm)

\* findOrCreatePayloadSession, then the update
Handled(ss, t) ==
  LET known == Matches(ss, t)
      i == CHOOSE k \in known : \A n \in known : k <= n
      full == Len(SelectSeq(ss, Active)) >= MaxActive
      found == IF known # {} THEN [ss EXCEPT ![i].place = t.place, ![i].age = 0] ELSE Append(ss, NewSession(t))
      at == IF known # {} THEN i ELSE Len(ss) + 1
  IN IF (t.state \notin {"DYNAMIC_PAYLOAD", "PENDING_STATIC"}) \/ Suppressed(ss, t.place) \/ (known = {} /\ full) THEN ss
     ELSE IF t.state = "DYNAMIC_PAYLOAD" THEN [found EXCEPT ![at] = Updated(@, t)] ELSE found

Sessions(ss, ts) ==
  LET h[i \in 0..Len(ts)] == IF i = 0 THEN ss ELSE Handled(h[i - 1], ts[i])
  IN h[Len(ts)]

(***************************************************************************)
(* One keyframe, and the resets.                                           *)
(***************************************************************************)
Aged(ts) == [i \in DOMAIN ts |-> [ts[i] EXCEPT !.age = Up(@), !.good = Age(@)]]
AgedSessions(ss) == [i \in DOMAIN ss |-> IF Active(ss[i]) THEN [ss[i] EXCEPT !.age = Up(@)] ELSE ss[i]]

\* run_legacy_cargo needs payload candidates: a keyframe without any leaves
\* the tracks alone, and still denies and opens sessions for them.
Filtered(f) ==
  IF ~ f.candidates THEN Aged(tracks)
  ELSE LET ts == Tracked(Aged(tracks), f.clusters)
       IN Cleaned([i \in DOMAIN ts |-> Boxed(ts[i])])

Commit(f) ==
  \E ts \in {Filtered(f)} :
    /\ tracks' = ts
    /\ boxes' = IF f.candidates THEN RemoveBoxes(ts, f) ELSE {}
    /\ denied' = DenyPlaces(ts)
    /\ sessions' = Sessions(AgedSessions(sessions), ts)

\* resetService and installLoadedRuntimeMap; the pose discontinuity resets
\* the tracker and keeps the sessions.
ResetAll == tracks' = << >> /\ sessions' = << >> /\ UNCHANGED <<boxes, denied>>
ResetTracker == tracks # << >> /\ tracks' = << >> /\ UNCHANGED <<sessions, boxes, denied>>

Init == tracks = << >> /\ sessions = << >> /\ boxes = {} /\ denied = {}
Next == (\E f \in Frames : Commit(f)) \/ ResetAll \/ ResetTracker
Spec == Init /\ [][Next]_vars

(***************************************************************************)
(* Properties.                                                             *)
(***************************************************************************)
\* A removal box grows past the growth limit in one keyframe only when the
\* Jumps estimates before it, one after the other, all asked for it (the
\* "strict reinit" of the CargoBoxV2 loop): one oversized cluster never
\* widens what is removed from the map.
GrowthIsConfirmed ==
  [][\A i \in DOMAIN tracks, j \in DOMAIN tracks' :
       (tracks[i].id = tracks'[j].id /\ tracks[i].core > 0 /\ 100 * tracks'[j].core > 135 * tracks[i].core
        /\ tracks'[j].seen > 2)
       => tracks[i].grew + 1 >= Jumps]_vars

\* A session is placed only when its last Rest updates all saw the load at
\* rest: a load that paused, moved and paused again is still carried, and
\* its place is neither protected nor closed to new sessions.
PlacedIsAtRest == \A i \in DOMAIN sessions : sessions[i].state = "PLACED_STATIC" => sessions[i].rested >= Rest

\* What the legacy tracker removes and protects follows what it saw.
TrackerFollowsEvidence == GrowthIsConfirmed /\ []PlacedIsAtRest

\* What the code says and does not keep: a CURRENT_VALID box is a
\* measurement of this keyframe.
CurrentBoxIsCurrent == \A b \in boxes : b.source = "CURRENT_VALID" => b.age = 0

\* A keyframe denies map cells only for a track that was seen in it or that
\* its missed frames have not yet expired.
DenialIsFresh == \A i \in DOMAIN tracks : tracks[i].place \in denied /\ tracks[i].state \in Moving => tracks[i].age <= MaxMissed

\* A session slot goes back once its track is gone.
SlotsAreReturned ==
  \A i \in DOMAIN sessions : Active(sessions[i]) /\ sessions[i].age >= Cap => \E j \in DOMAIN tracks : tracks[j].id = sessions[i].track
=============================================================================
