------------------------- MODULE StaticEvidenceIndex -------------------------
(***************************************************************************)
(* StaticObstacleEvidenceIndex, one cell of it: how observations of clean  *)
(* builds make a cell of the static map mature, how denials and free space *)
(* take it back, and how it is written and read again.  Cells do not       *)
(* influence each other, so one cell shows what can happen to any.         *)
(*                                                                         *)
(* A build denies cells when it starts and confirms cells when the owner   *)
(* consumes its result.  The worker lowers its running flag before its     *)
(* result is ready, so the next build may start, and deny, before the      *)
(* result of this one is consumed.                                         *)
(***************************************************************************)
EXTENDS Naturals

CONSTANTS
    MinObservations,   \* minimum_observations
    MinDuration,       \* minimum_stable_duration_sec
    MaxGap,            \* maximum_observation_gap_sec
    Stamps,            \* stamps of the clean builds, positive
    MaxBuilds,         \* bound: clean builds
    MaxEpochs          \* bound: static evidence epochs

VARIABLES index,    \* the working state of the index
          builds,   \* [next, running, ready]: the versions in flight
          file,     \* the snapshot on disk
          h         \* history: what the builds said of the cell

vars == <<index, builds, file, h>>

NoCell == [present |-> FALSE, count |-> 0, duration |-> 0, seen |-> 0, seq |-> 0,
           confirmed |-> FALSE, version |-> 0, mature |-> FALSE]
NoBuild == [version |-> 0, epoch |-> 0, denied |-> FALSE]
NoFile == [saved |-> FALSE, cell |-> NoCell, seq |-> 0]
Empty(epoch) == [epoch |-> epoch, last |-> 0, seq |-> 0, cell |-> NoCell,
                 tombstone |-> 0, free |-> FALSE]
Nothing == [seen |-> 0, denied |-> 0]

Init ==
    /\ index = Empty(1)
    /\ builds = [next |-> 1, running |-> NoBuild, ready |-> NoBuild]
    /\ file = NoFile /\ h = Nothing

Greatest(a, b) == IF a > b THEN a ELSE b
Capped(n, bound) == IF n < bound THEN n ELSE bound

-----------------------------------------------------------------------------
(* Observations.                                                           *)

IsTemporallyMature(cell) ==
    /\ cell.confirmed
    /\ cell.count >= MinObservations
    /\ cell.duration >= MinDuration

Matured(cell) == [cell EXCEPT !.mature = @ \/ IsTemporallyMature(cell)]

\* A cell seen in adjacent builds gains time; too long between them starts
\* over unless the cell is mature; builds that did not see it only pause it.
SeenAgain(cell, stamp, seq) ==
    LET adjacent == seq - cell.seq = 1
        continuous == stamp > cell.seen /\ stamp - cell.seen <= MaxGap /\ adjacent
    IN IF continuous
       THEN [cell EXCEPT !.duration = Capped(@ + (stamp - cell.seen), MinDuration)]
       ELSE IF adjacent /\ ~cell.mature
       THEN [cell EXCEPT !.count = 0, !.duration = 0]
       ELSE cell

Occupied(i, stamp) ==
    LET old == IF i.cell.present THEN SeenAgain(i.cell, stamp, i.seq)
               ELSE [NoCell EXCEPT !.present = TRUE]
    IN [i EXCEPT !.free = FALSE,
                 !.cell = Matured([old EXCEPT !.count = Capped(@ + 1, MinObservations),
                                              !.seen = stamp, !.seq = i.seq])]

\* Only a cell that is known can be seen free.
Free(i) ==
    IF i.cell.present THEN [i EXCEPT !.free = TRUE, !.cell = NoCell] ELSE i

\* The stamp of an observation must advance; a rollback of the source clock
\* only moves the reference.
Advances(i, stamp) == i.last = 0 \/ stamp > i.last

\* observeCleanBuildCells
Observe(i, view, stamp) ==
    IF ~Advances(i, stamp)
    THEN [i EXCEPT !.last = IF stamp < @ THEN stamp ELSE @]
    ELSE LET next == [i EXCEPT !.last = stamp, !.seq = @ + 1]
         IN CASE view = "occupied" -> Occupied(next, stamp)
              [] view = "free" -> Free(next)
              [] OTHER -> next

-----------------------------------------------------------------------------
(* Denials and confirmations.                                              *)

\* mutant: a denial is remembered and the cell stays
InvalidateKeepsCell(i, version) == [i EXCEPT !.tombstone = Greatest(@, version)]

\* invalidateCells
Invalidate(i, version) ==
    [i EXCEPT !.tombstone = Greatest(@, version), !.cell = NoCell]

\* confirmCleanCells: denials of this or of a newer build win.  A clean cell
\* nobody observed in this epoch enters the index without an observation.
Confirmed(i, clean, denied, version, stamp) ==
    LET j == IF denied THEN Invalidate(i, version) ELSE i
        cell == IF j.cell.present THEN j.cell
                ELSE [NoCell EXCEPT !.present = TRUE, !.seen = stamp, !.seq = j.seq]
    IN IF ~clean \/ denied \/ j.free \/ j.tombstone >= version THEN j
       ELSE [j EXCEPT !.cell = Matured([cell EXCEPT !.confirmed = TRUE,
                                            !.version = Greatest(@, version)])]

-----------------------------------------------------------------------------
(* The clean builds of the owner and its worker.                           *)

StartBuild ==
    /\ builds.running = NoBuild /\ builds.next <= MaxBuilds
    /\ \E denied \in BOOLEAN :
         /\ builds' = [builds EXCEPT !.next = @ + 1,
                           !.running = [version |-> builds.next, epoch |-> index.epoch,
                                        denied |-> denied]]
         /\ index' = IF denied THEN Invalidate(index, builds.next) ELSE index
         /\ h' = IF denied THEN [seen |-> 0, denied |-> builds.next] ELSE h
    /\ UNCHANGED file

FinishBuild ==
    /\ builds.running # NoBuild
    /\ builds' = [builds EXCEPT !.ready = builds.running, !.running = NoBuild]
    /\ UNCHANGED <<index, file, h>>

\* What the history makes of a build of this epoch.
Told(b, view, stamp) ==
    LET denies == b.denied \/ view = "free"
        sees == view = "occupied" /\ Advances(index, stamp)
    IN [seen |-> IF denies THEN 0
                 ELSE IF sees THEN Capped(h.seen + 1, MinObservations) ELSE h.seen,
        denied |-> IF denies THEN Greatest(h.denied, b.version) ELSE h.denied]

\* consumeCleanMapRebuildResult; a build of another epoch is refused.
ConsumeBuild ==
    /\ builds.ready # NoBuild
    /\ builds' = [builds EXCEPT !.ready = NoBuild]
    /\ LET b == builds.ready
       IN \/ /\ b.epoch # index.epoch
             /\ UNCHANGED <<index, h>>
          \/ /\ b.epoch = index.epoch
             /\ \E view \in {"occupied", "free", "out of view"}, clean \in BOOLEAN,
                   stamp \in Stamps :
                  /\ index' = Confirmed(Observe(index, view, stamp), clean,
                                        b.denied \/ view = "free", b.version, stamp)
                  /\ h' = Told(b, view, stamp)
    /\ UNCHANGED file

\* reset, rebuild_map and loop closures begin an epoch.
Reset ==
    /\ index.epoch < MaxEpochs
    /\ index' = Empty(index.epoch + 1)
    /\ h' = Nothing
    /\ UNCHANGED <<builds, file>>

-----------------------------------------------------------------------------
(* The snapshot on disk.                                                   *)

\* saveSnapshot writes the confirmed cells.
Save ==
    /\ file' = [saved |-> TRUE, seq |-> index.seq,
                cell |-> IF index.cell.confirmed THEN index.cell ELSE NoCell]
    /\ UNCHANGED <<index, builds, h>>

\* loadSnapshotCandidate: one bad cell refuses the whole file.
Loadable(f) ==
    f.saved /\ (f.cell.present =>
        /\ f.cell.count > 0
        /\ f.cell.mature => f.cell.count >= MinObservations
                              /\ f.cell.duration >= MinDuration)

\* loadSnapshot installs what was read in a new epoch, without tombstones.
Load ==
    /\ Loadable(file) /\ index.epoch < MaxEpochs
    /\ index' = [Empty(index.epoch + 1) EXCEPT !.cell = file.cell, !.seq = file.seq]
    /\ h' = [seen |-> file.cell.count, denied |-> 0]
    /\ UNCHANGED <<builds, file>>

Next == StartBuild \/ FinishBuild \/ ConsumeBuild \/ Reset \/ Save \/ Load

Spec == Init /\ [][Next]_vars

-----------------------------------------------------------------------------
(* Properties.                                                             *)

\* A cell is confirmed only by a build newer than every build that denied it
\* in this epoch, although the result of an older build may be consumed after
\* the newer one denied.
DenialWins == index.cell.confirmed => index.cell.version > h.denied \/ h.denied = 0

\* A cell that authorises warnings was seen occupied by MinObservations builds
\* with advancing stamps since the last time a build denied it or saw it free.
MatureIsEarned == index.cell.mature => h.seen >= MinObservations

\* Neither a denial nor a gap in what was seen is forgotten.
CellsAreEarned == DenialWins /\ MatureIsEarned

\* What was saved can be loaded.
SavedIndexLoads == file.saved => Loadable(file)
=============================================================================
