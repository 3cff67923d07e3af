----------------------------- MODULE DurableMap -----------------------------
(***************************************************************************)
(* What the persistent tile map promises: an append-only store.  A commit  *)
(* adds points to it in one step; a crash, a failed write or a start of    *)
(* the node never changes it; a start serves exactly what was committed,   *)
(* or nothing, and a map the store does not vouch for is refused.          *)
(***************************************************************************)
CONSTANTS
    Files,     \* the tile files of all layers
    Points     \* what a tile file may hold

VARIABLES
    stored,    \* the committed content of every file
    mode,      \* "off", "on" or "refused"
    served     \* the content the node started with

vars == <<stored, mode, served>>

Empty == [f \in Files |-> {}]

Init == stored = Empty /\ mode = "off" /\ served = Empty

Commit ==
    /\ mode = "on"
    /\ stored' \in [Files -> SUBSET Points]
    /\ \A f \in Files : stored[f] \subseteq stored'[f]
    /\ UNCHANGED <<mode, served>>

Serve ==
    /\ mode # "on" /\ mode' = "on"
    /\ served' = stored
    /\ UNCHANGED stored

Refuse ==
    /\ mode # "on" /\ mode' = "refused"
    /\ UNCHANGED <<stored, served>>

Stop ==
    /\ mode = "on" /\ mode' = "off"
    /\ served' = Empty
    /\ UNCHANGED stored

Next == Commit \/ Serve \/ Refuse \/ Stop

Spec == Init /\ [][Next]_vars
=============================================================================
