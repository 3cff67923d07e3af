--------------------------- MODULE ObstacleTracker ---------------------------
(***************************************************************************)
(* CargoObstacleTracker: which of the obstacles seen near the load is old  *)
(* enough, and known well enough, to be warned of.                         *)
(*                                                                         *)
(* A track collects evidence while it is matched, frame after frame, by    *)
(* observations of one pose authority: validated sightings, a history in   *)
(* the far field, sightings apart from the load, a sparse run, and the     *)
(* proof that it stands still.  A formal warning (17, 18) needs all that;  *)
(* a near hazard without far history is only offered for review (29).      *)
(*                                                                         *)
(* Places are on a line, an observation may be matched to a track at its   *)
(* own or a neighbouring place, and the cost is the distance.  Frames come *)
(* one time unit apart.                                                    *)
(***************************************************************************)
EXTENDS Integers, Sequences

CONSTANTS
    Frames,         \* the sequences of valid observations a frame may hold
    Confirm,        \* confirm_frames
    Far,            \* far_history_confirm_frames
    Gap,            \* maximum_observation_gap_sec
    Stale,          \* stale_track_sec
    RequireStatic   \* require_static_cargo_for_warning

VARIABLES tracks,   \* tracks_
          verdict,  \* the decision: selected, review and what was observed
          seen,     \* history: the observations of the last Confirm frames
          origins   \* history: authorities that showed a far or known obstacle

vars == <<tracks, verdict, seen, origins>>

None == 0
Less(a, b) == IF a < b THEN a ELSE b
Distance(o, t) == IF o.place > t.place THEN o.place - t.place
                  ELSE t.place - o.place
Shown(obs) == {obs[i] : i \in DOMAIN obs}
Origins(obs) ==
    {o.auth : o \in {x \in Shown(obs) : x.certified \/ x.range = "far"}}
NoVerdict == [hazard |-> FALSE, formal |-> {}, review |-> {}]

Init == tracks = <<>> /\ verdict = NoVerdict /\ seen = <<>> /\ origins = {}

-----------------------------------------------------------------------------
(* Association.                                                            *)

Legal(o, t) == t.age <= Gap /\ Distance(o, t) <= 1

\* The greedy pairing in order of cost: a legal pair is left out only for one
\* of its ends being taken at no greater cost.
Pairing(T, obs, f) ==
    /\ \A i \in DOMAIN obs : f[i] # None => Legal(obs[i], T[f[i]])
    /\ \A i, j \in DOMAIN obs : i # j /\ f[i] # None => f[i] # f[j]
    /\ \A i \in DOMAIN obs, k \in DOMAIN T :
         Legal(obs[i], T[k]) =>
           \/ f[i] # None /\ Distance(obs[i], T[f[i]]) <= Distance(obs[i], T[k])
           \/ \E j \in DOMAIN obs :
                f[j] = k /\ Distance(obs[j], T[k]) <= Distance(obs[i], T[k])

\* The pair is the one best of both its ends.
ReciprocalUnique(T, obs, i, k) ==
    LET cost == Distance(obs[i], T[k])
    IN /\ \A m \in DOMAIN T \ {k} :
            Legal(obs[i], T[m]) => Distance(obs[i], T[m]) > cost
       /\ \A j \in DOMAIN obs \ {i} :
            Legal(obs[j], T[k]) => Distance(obs[j], T[k]) > cost

-----------------------------------------------------------------------------
(* The evidence of a track.                                                *)

Embedded(o) == o.range = "embedded"
Dangerous(o) == o.range \in {"embedded", "near"}
QualifiesFar(o) == o.valid /\ o.range = "far"
Count(yes, consecutive, n) ==
    IF ~yes THEN 0 ELSE IF consecutive THEN Less(n + 1, Confirm) ELSE 1

NewTrack(o) ==
    [place |-> o.place, auth |-> o.auth, age |-> 0, last |-> TRUE,
     observed |-> TRUE, ambiguous |-> FALSE, current |-> o,
     valid |-> IF o.valid THEN 1 ELSE 0,
     far |-> IF QualifiesFar(o) THEN 1 ELSE 0,
     farHistory |-> Far = 1 /\ QualifiesFar(o),
     apart |-> IF o.valid /\ ~Embedded(o) THEN 1 ELSE 0,
     separated |-> Confirm = 1 /\ o.valid /\ ~Embedded(o),
     sparse |-> IF o.sparse THEN 1 ELSE 0, certified |-> o.certified,
     external |-> o.external,
     still |-> IF o.valid /\ o.external THEN 1 ELSE 0]

\* resetTemporalEvidenceForAuthorityTransition.
Restarted(t) ==
    [t EXCEPT !.valid = 0, !.far = 0, !.farHistory = FALSE, !.apart = 0,
              !.separated = FALSE, !.sparse = 0, !.certified = FALSE,
              !.external = FALSE, !.still = 0]

\* Mutant: evidence of another pose authority is continued.
ContinuesAnyAuthority(t, o) == t

\* Evidence belongs to the pose authority that produced it.
Continues(t, o) == IF t.auth = o.auth THEN t ELSE Restarted(t)

\* A reciprocal unique match.
Matched(was, o) ==
    LET t == Continues(was, o)
        consecutive == was.auth = o.auth /\ was.last
        apart == IF Embedded(o) THEN t.apart
                 ELSE Count(o.valid, consecutive, t.apart)
        far == IF t.farHistory THEN t.far
               ELSE IF ~QualifiesFar(o) THEN 0
               ELSE IF consecutive THEN Less(t.far + 1, Far) ELSE 1
        external == t.external \/ o.external
    IN [t EXCEPT !.place = o.place, !.auth = o.auth, !.age = 0, !.last = TRUE,
          !.observed = TRUE, !.ambiguous = FALSE, !.current = o,
          !.valid = Count(o.valid, consecutive, @), !.apart = apart,
          !.separated = @ \/ (o.valid /\ ~Embedded(o) /\ apart >= Confirm),
          !.far = far, !.farHistory = @ \/ far >= Far,
          !.sparse = IF ~o.sparse THEN @
                     ELSE Count(TRUE, consecutive /\ was.current.sparse, @),
          !.certified = @ \/ o.certified, !.external = external,
          !.still = Count(o.valid /\ external, consecutive, @)]

\* An ambiguous pairing is shown, and advances nothing.
Frozen(t, o) ==
    [t EXCEPT !.observed = TRUE, !.ambiguous = TRUE,
              !.current = [@ EXCEPT !.valid = FALSE, !.eligible = FALSE]]

-----------------------------------------------------------------------------
(* The decision.                                                           *)

SupportMature(t) == ~t.current.sparse \/ t.sparse >= Confirm
Eligible(t) == t.current.eligible /\ Dangerous(t.current)
OriginResolved(t) == Embedded(t.current) => t.separated \/ t.external

FormalWarning(t) ==
    /\ t.observed /\ SupportMature(t) /\ Eligible(t) /\ t.valid >= Confirm
    /\ t.farHistory \/ t.certified
    /\ t.current.valid /\ OriginResolved(t)
    /\ RequireStatic => t.still >= Confirm

NoFarReview(t) ==
    /\ ~t.farHistory /\ ~t.certified /\ SupportMature(t) /\ t.observed
    /\ ~t.ambiguous /\ Eligible(t) /\ t.current.valid /\ OriginResolved(t)

\* Expiry, and the start of a new cycle.
Aged ==
    LET begun(t) == [t EXCEPT !.age = @ + 1, !.last = t.age = 0,
                              !.observed = FALSE]
        kept[k \in 0..Len(tracks)] ==
            IF k = 0 THEN <<>>
            ELSE IF tracks[k].age + 1 > Stale THEN kept[k - 1]
            ELSE Append(kept[k - 1], begun(tracks[k]))
    IN kept[Len(tracks)]

\* One observation of the frame, in canonical order.
Apply(s, i, T, obs, f) ==
    LET k == f[i]
        o == obs[i]
        rivals == {m \in DOMAIN T : Legal(o, T[m])}
    IN IF k = None /\ rivals = {} THEN Append(s, NewTrack(o))
       ELSE IF k = None
       THEN [m \in DOMAIN s |-> IF m \in rivals THEN Frozen(s[m], o) ELSE s[m]]
       ELSE IF ReciprocalUnique(T, obs, i, k)
       THEN [s EXCEPT ![k] = Matched(@, o)]
       ELSE [s EXCEPT ![k] = Frozen(@, o)]

\* All of them, one after the other.
Applied(T, obs, f) ==
    LET after[i \in 0..Len(obs)] ==
            IF i = 0 THEN T ELSE Apply(after[i - 1], i, T, obs, f)
    IN after[Len(obs)]

Decision(T, obs) ==
    [hazard |-> \E i \in DOMAIN obs : obs[i].eligible /\ Dangerous(obs[i]),
     formal |-> {T[k] : k \in {m \in DOMAIN T : FormalWarning(T[m])}},
     review |-> {T[k] : k \in {m \in DOMAIN T : NoFarReview(T[m])}}]

\* update.
Update ==
    \E obs \in Frames :
      LET T == Aged IN
      \E f \in {g \in [DOMAIN obs -> {None} \union DOMAIN T] : Pairing(T, obs, g)} :
      \E next \in {Applied(T, obs, f)} :
        /\ tracks' = next
        /\ verdict' = Decision(next, obs)
        /\ seen' = SubSeq(<<Shown(obs)>> \o seen, 1, Less(Len(seen) + 1, Confirm))
        /\ origins' = origins \union Origins(obs)

\* A stamp that goes back: everything is forgotten before the frame is used.
Rollback ==
    \E obs \in Frames :
      LET next == [i \in DOMAIN obs |-> NewTrack(obs[i])]
      IN /\ tracks' = next
         /\ verdict' = Decision(next, obs)
         /\ seen' = <<Shown(obs)>>
         /\ origins' = Origins(obs)

\* A repeated stamp: nothing but an empty decision.
Repeated == verdict' = NoVerdict /\ UNCHANGED <<tracks, seen, origins>>

Next == Update \/ Rollback \/ Repeated
Spec == Init /\ [][Next]_vars

-----------------------------------------------------------------------------
\* A formal warning names an obstacle that was seen and validated, under the
\* pose authority of the present frame, in each of the last Confirm frames at
\* a place it can have reached from there, and whose far or certified origin
\* was seen under that authority: neither a gap, nor an authority change, nor
\* an ambiguous match is bridged.
WarningIsEarned ==
    \A t \in verdict.formal :
        /\ Len(seen) >= Confirm /\ t.auth \in origins
        /\ \A i \in 1..Confirm :
             \E o \in seen[i] : o.valid /\ o.auth = t.auth
                                /\ Distance(o, t) <= i - 1
=============================================================================
