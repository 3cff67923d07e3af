------------------------------- MODULE MCMap -------------------------------
(* What is written into the map and how it survives: the commit queue, the *)
(* filters of its worker, the evidence index, the tiles and evidence on    *)
(* disk, and the sessions. Each behaviour is one component's: comp is      *)
(* chosen once and the variables of the others stay at their initial       *)
(* values, so that the state spaces add up instead of multiplying.         *)
EXTENDS MapCommit

CONSTANTS
    Roles, Modes, FilterFrames,                             \* CommitFilter
    MinObservations, MinDuration, MaxGap, Stamps,           \* StaticEvidenceIndex
    MaxBuilds, MaxEpochs,
    MaxRevision, MaxLines,                                  \* EvidenceManifest
    Persistent, SessionActive, MaxChanges                   \* MapSession

ASSUME FilterAssumption ==
    /\ Modes \subseteq {"V6", "LEGACY"}
    /\ FilterFrames \subseteq
          [formal : BOOLEAN, exact : BOOLEAN, candidate : BOOLEAN,
           safety : BOOLEAN, channel : BOOLEAN, boxed : BOOLEAN,
           person : BOOLEAN]
ASSUME IndexAssumption ==
    MinObservations \in Nat /\ MinDuration \in Nat /\ Stamps \subseteq Nat

\* What a frame has for the commit filters, "Bare" being none of it.
Bare ==
    [formal |-> FALSE, exact |-> FALSE, candidate |-> FALSE, safety |-> FALSE,
     channel |-> FALSE, boxed |-> FALSE, person |-> FALSE]
MCFilterFrames ==
    {Bare,
     [Bare EXCEPT !.formal = TRUE, !.boxed = TRUE, !.exact = TRUE,
        !.safety = TRUE],
     [Bare EXCEPT !.formal = TRUE, !.channel = TRUE, !.candidate = TRUE],
     [Bare EXCEPT !.candidate = TRUE, !.safety = TRUE, !.channel = TRUE,
        !.person = TRUE]}

VARIABLES comp,
    role, mode, hook, filterFrame, fresh, filterPc, filterGate,
    filterJob, filterWritten,
    indexIndex, builds, file, h,
    up, manifestEpoch, manifestIndex, mutated, flag, active, last,
    writer, suspended, files, manifest, marker, line,
    persistent, bundle, evidence, sessionKeyframes, released,
    sessionEpoch, save, temporary, visible, staged, changes, instants

filterVars == <<role, mode, hook, filterFrame, fresh, filterPc, filterGate,
                filterJob, filterWritten>>
indexVars == <<indexIndex, builds, file, h>>
manifestVars == <<up, manifestEpoch, manifestIndex, mutated, flag, active,
                  last, writer, suspended, files, manifest, marker, line>>
sessionVars == <<persistent, bundle, evidence, sessionKeyframes, released,
                 sessionEpoch, save, temporary, visible, staged, changes,
                 instants>>

F == INSTANCE CommitFilter WITH
        Frames <- FilterFrames, frame <- filterFrame, pc <- filterPc,
        gate <- filterGate, job <- filterJob, written <- filterWritten
I == INSTANCE StaticEvidenceIndex WITH index <- indexIndex
E == INSTANCE EvidenceManifest WITH
        epoch <- manifestEpoch, index <- manifestIndex
M == INSTANCE MapSession WITH
        MaxActive <- SessionActive, keyframes <- sessionKeyframes,
        epoch <- sessionEpoch

MCInit ==
    /\ Init
    /\ F!Init /\ I!Init /\ E!Init /\ M!Init
    /\ comp \in {"commit", "filter", "index", "manifest", "session"}
    /\ comp # "commit" => ~rail
    /\ comp # "filter" => role = "REQUIRED" /\ mode = "V6" /\ filterFrame = Bare
    /\ comp # "session" => persistent

MCNext ==
    \/ /\ comp = "commit" /\ Next
       /\ UNCHANGED <<comp, filterVars, indexVars,
                      manifestVars, sessionVars>>
    \/ /\ comp = "filter" /\ F!Next
       /\ UNCHANGED <<comp, vars, indexVars, manifestVars,
                      sessionVars>>
    \/ /\ comp = "index" /\ I!Next
       /\ UNCHANGED <<comp, vars, filterVars, manifestVars,
                      sessionVars>>
    \/ /\ comp = "manifest" /\ E!Next
       /\ UNCHANGED <<comp, vars, filterVars, indexVars,
                      sessionVars>>
    \/ /\ comp = "session" /\ M!Next
       /\ UNCHANGED <<comp, vars, filterVars, indexVars,
                      manifestVars>>

MCSpec ==
    /\ MCInit
    /\ [][MCNext]_<<comp, vars, filterVars, indexVars, manifestVars,
                    sessionVars>>

-----------------------------------------------------------------------------
\* Bound: frames, loop closures, active rebuilds and boundaries together.
FourChanges == nextSeq - 1 + loops + actives + boundaries <= 4

\* A job that saw the hook loaded writes none of the load's points
\* (enqueueMapCommitJob and the worker's filters).
LoadedCargoStaysOut == F!LoadedCargoStaysOut

\* A cell of the index is confirmed after every denial and mature only on
\* observations since (StaticObstacleEvidenceIndex).
CellsAreEarned == I!CellsAreEarned

\* The evidence on disk can be found after a crash, and evidence that is not
\* there yet is on its way (writePersistentStaticEvidence).
EvidenceIsDurable == E!EvidenceIsDurable

\* A saved session is of one moment, and loaded evidence of the present epoch
\* (saveMapSessionAtomic, loadMapService).
SessionIsConsistent == M!SessionIsConsistent
=============================================================================
