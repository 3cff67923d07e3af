------------------------- MODULE CleanMapWorkerProofs -------------------------
(***************************************************************************)
(* Theorems about CleanMapWorker, for every commit interval, every         *)
(* deferral limit, every set of lifecycle boundaries and every bound: what *)
(* the six threads install, credit and publish is of one build, and only   *)
(* moves forward.                                                          *)
(***************************************************************************)
EXTENDS CleanMapWorker, TLAPS

-----------------------------------------------------------------------------
(* The inductive invariant.                                                *)

\* No epoch and no version was issued that nothing happened for.
Issued ==
    /\ 1 <= epoch /\ epoch <= 1 + boundaries
    /\ 1 <= sepoch /\ sepoch <= 1 + boundaries
    /\ 1 <= rawVersion /\ rawVersion <= 1 + commits + rebuilds + boundaries

\* A call of consumeCleanMapRebuildResult that has not returned is counted.
PassesLeft ==
    \/ owner \in {"loop", "exchange", "take", "judge", "credit"}
    \/ owner \in {"start", "snapshot"} /\ resume = "credit"
    => passes >= 1

\* "running" covers the build and its result, and a job is only started
\* when the thread of the last one is gone.
BuildIsRunning ==
    /\ running <=> worker \in {"build", "stored"}
    /\ owner = "snapshot" => worker = "none"

\* A bundle's layers are of one version.
OneVersion(b) == b.raw = b.clean

BundlesAreOfOneVersion ==
    OneVersion(bundle) /\ OneVersion(pubSnapshot) /\ OneVersion(published)

\* The bundle is not ahead of the numbers that sealing hands out.
BundleIsSealed == bundle.generation <= generation /\ bundle.epoch <= epoch

\* b is a, possibly bound to a later epoch, or was sealed after it.
NotOlder(b, a) ==
    /\ a.epoch <= b.epoch
    /\ a.generation < b.generation \/ b = [a EXCEPT !.epoch = b.epoch]

\* What was published, what is being published and the present bundle were
\* sealed in this order.
PublishedInOrder ==
    /\ NotOlder(bundle, published)
    /\ publisher = "publish" => /\ NotOlder(pubSnapshot, published)
                                /\ NotOlder(bundle, pubSnapshot)

IInv ==
    /\ TypeOK /\ Issued /\ PassesLeft /\ BuildIsRunning
    /\ EvidenceFromCurrentBuild /\ BundlesAreOfOneVersion /\ BundleIsSealed
    /\ PublishedInOrder

-----------------------------------------------------------------------------
(* Lemmas on the values the variables take.                                *)

\* The result of no build and the snapshot of no publication are well formed.
LEMMA DefaultsTyped == EmptyResult \in Results /\ NoSnapshot \in Bundles
BY CleanConstants
DEF EmptyResult, Results, NoSnapshot, Bundle, Bundles, Epochs, Versions

\* The fields of a result, also after it was moved from.
LEMMA ResultFields ==
    ASSUME NEW r \in Results
    PROVE  /\ r.version \in Versions /\ r.epoch \in Epochs
           /\ r.sepoch \in Epochs /\ r.obs \subseteq Tokens
           /\ r.valid \in BOOLEAN /\ r.complete \in BOOLEAN
           /\ MovedFrom(r) \in Results
BY DEF Results, MovedFrom

\* The fields of a bundle.
LEMMA BundleFields ==
    ASSUME NEW b \in Bundles
    PROVE  /\ b.generation \in Nat /\ b.epoch \in Nat /\ b.epoch \in Epochs
           /\ b = Bundle(b.generation, b.epoch, b.raw, b.clean, b.complete)
           /\ b.raw \in Versions /\ b.clean \in Versions
           /\ b.complete \in BOOLEAN
BY DEF Bundles, Bundle, Epochs

\* A bundle put together of well formed parts.
LEMMA BundleTyped ==
    ASSUME NEW g \in Nat, NEW e \in Epochs, NEW v \in Versions,
           NEW w \in Versions, NEW c \in BOOLEAN
    PROVE  /\ Bundle(g, e, v, w, c) \in Bundles
           /\ Bundle(g, e, v, w, c).generation = g
           /\ Bundle(g, e, v, w, c).epoch = e
           /\ Bundle(g, e, v, w, c).raw = v /\ Bundle(g, e, v, w, c).clean = w
BY DEF Bundle, Bundles

\* The numbers of the state.
Numbers ==
    /\ epoch \in Nat /\ sepoch \in Nat /\ rawVersion \in Nat
    /\ generation \in Nat /\ boundaries \in Nat /\ commits \in Nat
    /\ rebuilds \in Nat /\ passes \in Nat /\ deferral \in Nat

LEMMA NumbersTyped == ASSUME IInv PROVE Numbers
<1>1. TypeOK
  BY DEF IInv
<1>2. /\ epoch \in Nat /\ sepoch \in Nat /\ rawVersion \in Nat
      /\ generation \in Nat
  BY <1>1 DEF TypeOK, MapOK, Epochs, Versions
<1>3. /\ boundaries \in Nat /\ commits \in Nat /\ rebuilds \in Nat
      /\ passes \in Nat /\ deferral \in Nat
  BY <1>1 DEF TypeOK, RebuildOK, CommitOK, OwnerOK, QueueOK
<1> QED  BY <1>2, <1>3 DEF Numbers

\* What happens within its bound stays within the numbers.
LEMMA NextNumbers ==
    ASSUME IInv
    PROVE  /\ boundaries < MaxBoundaries
                => /\ epoch + 1 \in Epochs /\ sepoch + 1 \in Epochs
                   /\ rawVersion + 1 \in Versions
           /\ commits < MaxCommits => rawVersion + 1 \in Versions
           /\ rebuilds < MaxRebuilds => rawVersion + 1 \in Versions
<1>1. Numbers /\ Issued
  BY NumbersTyped DEF IInv
<1>2. /\ boundaries <= MaxBoundaries /\ commits <= MaxCommits
      /\ rebuilds <= MaxRebuilds
  BY DEF IInv, TypeOK, RebuildOK, CommitOK
<1> QED  BY <1>1, <1>2, CleanConstants DEF Numbers, Issued, Epochs, Versions

\* The order of bundles is an order.
LEMMA NotOlderIsTransitive ==
    ASSUME NEW a \in Bundles, NEW b \in Bundles, NEW c \in Bundles,
           NotOlder(b, a), NotOlder(c, b)
    PROVE  NotOlder(c, a)
<1>1. /\ a.generation \in Nat /\ b.generation \in Nat /\ c.generation \in Nat
      /\ a.epoch \in Nat /\ b.epoch \in Nat /\ c.epoch \in Nat
  BY BundleFields
<1>2. a.epoch <= c.epoch
  BY <1>1 DEF NotOlder
<1>3. CASE a.generation < b.generation
  <2>1. b.generation <= c.generation
    BY DEF NotOlder, Bundles
  <2> QED  BY <1>1, <1>3, <2>1 DEF NotOlder
<1>4. CASE b = [a EXCEPT !.epoch = b.epoch]
  <2>1. b.generation = a.generation
    BY <1>4 DEF Bundles
  <2>2. CASE b.generation < c.generation
    BY <1>1, <2>1 DEF NotOlder
  <2>3. CASE c = [b EXCEPT !.epoch = c.epoch]
    <3>1. c = [a EXCEPT !.epoch = c.epoch]
      BY <1>4, <2>3
    <3> QED  BY <1>2, <3>1 DEF NotOlder
  <2> QED  BY <2>2, <2>3 DEF NotOlder
<1> QED  BY <1>3, <1>4 DEF NotOlder

\* Sealing and rebinding yield a bundle that is not older than the last one,
\* and hence than the published one and the one being published.
LEMMA OrderKept ==
    ASSUME IInv, bundle' \in Bundles, NotOlder(bundle', bundle),
           UNCHANGED pubVars
    PROVE  PublishedInOrder'
<1>1. bundle \in Bundles /\ pubSnapshot \in Bundles /\ published \in Bundles
  BY DEF IInv, TypeOK, MapOK, PublishOK
<1>2. NotOlder(bundle', published)
  BY <1>1, NotOlderIsTransitive DEF IInv, PublishedInOrder
<1>3. publisher = "publish" => NotOlder(bundle', pubSnapshot)
  BY <1>1, NotOlderIsTransitive DEF IInv, PublishedInOrder
<1> QED  BY <1>2, <1>3 DEF IInv, PublishedInOrder, pubVars
-----------------------------------------------------------------------------
(* Every step preserves the invariant.                                     *)

LEMMA FrameArrivesKeeps ==
    ASSUME IInv, FrameArrives
    PROVE  IInv'
<1> USE DEF IInv
<1>1. /\ MapOK' /\ ObsOK' /\ FlagOK' /\ OwnerOK' /\ WorkOK' /\ CommitOK'
      /\ RebuildOK' /\ PublishOK' /\ Issued' /\ PassesLeft'
      /\ BuildIsRunning' /\ EvidenceFromCurrentBuild'
      /\ BundlesAreOfOneVersion' /\ BundleIsSealed' /\ PublishedInOrder'
  BY DEF TypeOK, MapOK, ObsOK, FlagOK, OwnerOK, WorkOK, CommitOK, RebuildOK,
         PublishOK, Issued, PassesLeft, BuildIsRunning,
         EvidenceFromCurrentBuild, BundlesAreOfOneVersion, BundleIsSealed,
         PublishedInOrder, FrameArrives, mapVars, obsVars, flagVars, ownerVars,
         workVars, commVars, rebVars, pubVars
<1>2. QueueOK'
  BY DEF TypeOK, QueueOK, FrameArrives
<1> QED  BY <1>1, <1>2 DEF TypeOK

LEMMA BeginMaintenanceTurnKeeps ==
    ASSUME IInv, BeginMaintenanceTurn
    PROVE  IInv'
<1> USE DEF IInv
<1>1. /\ MapOK' /\ ObsOK' /\ FlagOK' /\ WorkOK' /\ CommitOK' /\ RebuildOK'
      /\ PublishOK' /\ Issued' /\ EvidenceFromCurrentBuild'
      /\ BundlesAreOfOneVersion' /\ BundleIsSealed' /\ PublishedInOrder'
  BY DEF TypeOK, MapOK, ObsOK, FlagOK, WorkOK, CommitOK, RebuildOK, PublishOK,
         Issued, EvidenceFromCurrentBuild, BundlesAreOfOneVersion,
         BundleIsSealed, PublishedInOrder, BeginMaintenanceTurn, mapVars,
         obsVars, flagVars, workVars, commVars, rebVars, pubVars
<1>2. QueueOK'
  BY CleanConstants DEF TypeOK, QueueOK, BeginMaintenanceTurn
<1>3. OwnerOK'
  BY DEF TypeOK, OwnerOK, BeginMaintenanceTurn, ForceTimeslice
<1>4. PassesLeft'
  BY DEF PassesLeft, BeginMaintenanceTurn
<1>5. BuildIsRunning'
  BY DEF BuildIsRunning, BeginMaintenanceTurn, workVars
<1> QED  BY <1>1, <1>2, <1>3, <1>4, <1>5 DEF TypeOK

LEMMA BeginFrameTurnKeeps ==
    ASSUME IInv, BeginFrameTurn
    PROVE  IInv'
<1> USE DEF IInv
<1>1. /\ MapOK' /\ ObsOK' /\ FlagOK' /\ WorkOK' /\ CommitOK' /\ RebuildOK'
      /\ PublishOK' /\ Issued' /\ EvidenceFromCurrentBuild'
      /\ BundlesAreOfOneVersion' /\ BundleIsSealed' /\ PublishedInOrder'
  BY DEF TypeOK, MapOK, ObsOK, FlagOK, WorkOK, CommitOK, RebuildOK, PublishOK,
         Issued, EvidenceFromCurrentBuild, BundlesAreOfOneVersion,
         BundleIsSealed, PublishedInOrder, BeginFrameTurn, mapVars, obsVars,
         flagVars, workVars, commVars, rebVars, pubVars
<1>2. QueueOK'
  <2>1. deferral \in Nat /\ MaxDeferral \in Nat /\ deferral <= MaxDeferral
    BY CleanConstants DEF TypeOK, QueueOK
  <2>2. deferral' = 0 \/ (deferral < MaxDeferral /\ deferral' = deferral + 1)
    BY <2>1 DEF BeginFrameTurn, ForceTimeslice
  <2>3. framePending' \in BOOLEAN
    BY DEF BeginFrameTurn
  <2>4. deferral' \in 0 .. MaxDeferral
    BY <2>1, <2>2
  <2> QED  BY <2>3, <2>4 DEF QueueOK
<1>3. OwnerOK'
  <2>1. forced' \in BOOLEAN /\ maintTurn' \in BOOLEAN
    BY DEF BeginFrameTurn
  <2> QED  BY <2>1 DEF BeginFrameTurn, TypeOK, OwnerOK
<1>4. PassesLeft'
  BY DEF PassesLeft, BeginFrameTurn
<1>5. BuildIsRunning'
  BY DEF BuildIsRunning, BeginFrameTurn, workVars
<1> QED  BY <1>1, <1>2, <1>3, <1>4, <1>5 DEF TypeOK

LEMMA NoLoopClosureKeeps ==
    ASSUME IInv, NoLoopClosure
    PROVE  IInv'
<1> USE DEF IInv
<1>1. /\ MapOK' /\ ObsOK' /\ FlagOK' /\ QueueOK' /\ WorkOK' /\ CommitOK'
      /\ RebuildOK' /\ PublishOK' /\ Issued' /\ EvidenceFromCurrentBuild'
      /\ BundlesAreOfOneVersion' /\ BundleIsSealed' /\ PublishedInOrder'
  BY DEF TypeOK, MapOK, ObsOK, FlagOK, QueueOK, WorkOK, CommitOK, RebuildOK,
         PublishOK, Issued, EvidenceFromCurrentBuild, BundlesAreOfOneVersion,
         BundleIsSealed, PublishedInOrder, NoLoopClosure, mapVars, obsVars,
         flagVars, queueVars, workVars, commVars, rebVars, pubVars
<1>2. OwnerOK'
  BY DEF TypeOK, OwnerOK, NoLoopClosure
<1>3. PassesLeft'
  BY DEF PassesLeft, NoLoopClosure
<1>4. BuildIsRunning'
  BY DEF BuildIsRunning, NoLoopClosure, workVars
<1> QED  BY <1>1, <1>2, <1>3, <1>4 DEF TypeOK

LEMMA ApplyLoopClosureKeeps ==
    ASSUME IInv, ApplyLoopClosure
    PROVE  IInv'
<1> USE DEF IInv
<1>1. /\ QueueOK' /\ WorkOK' /\ CommitOK' /\ PublishOK'
      /\ BundlesAreOfOneVersion' /\ BundleIsSealed' /\ PublishedInOrder'
  BY DEF TypeOK, QueueOK, WorkOK, CommitOK, PublishOK, BundlesAreOfOneVersion,
         BundleIsSealed, PublishedInOrder, ApplyLoopClosure, queueVars,
         workVars, commVars, pubVars
<1>2. MapOK'
  BY NextNumbers DEF TypeOK, MapOK, ApplyLoopClosure
<1>3. ObsOK'
  BY DEF ObsOK, ApplyLoopClosure
<1>4. FlagOK'
  BY DEF TypeOK, FlagOK, ApplyLoopClosure
<1>5. OwnerOK'
  BY DEF TypeOK, OwnerOK, ApplyLoopClosure
<1>6. RebuildOK'
  BY CleanConstants DEF TypeOK, RebuildOK, ApplyLoopClosure, rebVars
<1>7. Issued'
  BY NumbersTyped DEF Numbers, Issued, ApplyLoopClosure, commVars, rebVars
<1>8. PassesLeft'
  BY DEF PassesLeft, ApplyLoopClosure
<1>9. BuildIsRunning'
  BY DEF BuildIsRunning, ApplyLoopClosure, workVars
<1>10. EvidenceFromCurrentBuild'
  BY DEF EvidenceFromCurrentBuild, ApplyLoopClosure
<1> QED
  BY <1>1, <1>2, <1>3, <1>4, <1>5, <1>6, <1>7, <1>8, <1>9, <1>10
  DEF TypeOK

LEMMA ExchangeReadyKeeps ==
    ASSUME IInv, ExchangeReady
    PROVE  IInv'
<1> USE DEF IInv
<1>1. /\ MapOK' /\ ObsOK' /\ FlagOK' /\ QueueOK' /\ CommitOK' /\ RebuildOK'
      /\ PublishOK' /\ Issued' /\ EvidenceFromCurrentBuild'
      /\ BundlesAreOfOneVersion' /\ BundleIsSealed' /\ PublishedInOrder'
  BY DEF TypeOK, MapOK, ObsOK, FlagOK, QueueOK, CommitOK, RebuildOK, PublishOK,
         Issued, EvidenceFromCurrentBuild, BundlesAreOfOneVersion,
         BundleIsSealed, PublishedInOrder, ExchangeReady, mapVars, obsVars,
         flagVars, queueVars, commVars, rebVars, pubVars
<1>2. OwnerOK'
  <2>1. passes - 1 \in 0 .. 2
    BY DEF ExchangeReady, PassesLeft, TypeOK, OwnerOK
  <2> QED  BY <2>1 DEF ExchangeReady, AfterConsume, TypeOK, OwnerOK
<1>3. WorkOK'
  BY DEF TypeOK, WorkOK, ExchangeReady
<1>4. PassesLeft'
  BY DEF PassesLeft, TypeOK, OwnerOK, ExchangeReady, AfterConsume
<1>5. BuildIsRunning'
  BY DEF BuildIsRunning, ExchangeReady, AfterConsume
<1> QED  BY <1>1, <1>2, <1>3, <1>4, <1>5 DEF TypeOK

LEMMA TakeResultKeeps ==
    ASSUME IInv, TakeResult
    PROVE  IInv'
<1> USE DEF IInv
<1>1. /\ MapOK' /\ ObsOK' /\ FlagOK' /\ QueueOK' /\ CommitOK' /\ RebuildOK'
      /\ PublishOK' /\ Issued' /\ EvidenceFromCurrentBuild'
      /\ BundlesAreOfOneVersion' /\ BundleIsSealed' /\ PublishedInOrder'
  BY DEF TypeOK, MapOK, ObsOK, FlagOK, QueueOK, CommitOK, RebuildOK, PublishOK,
         Issued, EvidenceFromCurrentBuild, BundlesAreOfOneVersion,
         BundleIsSealed, PublishedInOrder, TakeResult, mapVars, obsVars,
         flagVars, queueVars, commVars, rebVars, pubVars
<1>2. OwnerOK'
  BY DEF TypeOK, OwnerOK, WorkOK, TakeResult
<1>3. WorkOK'
  BY ResultFields DEF TypeOK, WorkOK, TakeResult
<1>4. PassesLeft'
  BY DEF PassesLeft, TakeResult
<1>5. BuildIsRunning'
  BY DEF BuildIsRunning, TakeResult
<1> QED  BY <1>1, <1>2, <1>3, <1>4, <1>5 DEF TypeOK

LEMMA DiscardKeeps ==
    ASSUME IInv, Discard
    PROVE  IInv'
<1> USE DEF IInv
<1>1. /\ MapOK' /\ FlagOK' /\ QueueOK' /\ WorkOK' /\ CommitOK' /\ RebuildOK'
      /\ Issued' /\ EvidenceFromCurrentBuild' /\ BundlesAreOfOneVersion'
      /\ BundleIsSealed' /\ PublishedInOrder'
  BY DEF TypeOK, MapOK, FlagOK, QueueOK, WorkOK, CommitOK, RebuildOK, Issued,
         EvidenceFromCurrentBuild, BundlesAreOfOneVersion, BundleIsSealed,
         PublishedInOrder, Discard, mapVars, flagVars, queueVars, workVars,
         commVars, rebVars, pubVars
<1>2. ObsOK'
  BY ResultFields DEF TypeOK, ObsOK, OwnerOK, Discard
<1>3. OwnerOK'
  <2>1. passes - 1 \in 0 .. 2
    BY DEF Discard, PassesLeft, TypeOK, OwnerOK
  <2> QED  BY <2>1, DefaultsTyped DEF Discard, AfterConsume, TypeOK, OwnerOK
<1>4. PublishOK'
  BY DEF TypeOK, PublishOK, Discard, pubVars
<1>5. PassesLeft'
  BY DEF PassesLeft, TypeOK, OwnerOK, Discard, AfterConsume
<1>6. BuildIsRunning'
  BY DEF BuildIsRunning, Discard, AfterConsume, workVars
<1> QED  BY <1>1, <1>2, <1>3, <1>4, <1>5, <1>6 DEF TypeOK

LEMMA InstallKeeps ==
    ASSUME IInv, Install
    PROVE  IInv'
<1> USE DEF IInv
<1> DEFINE b == Bundle(generation + 1, taken.epoch, taken.version,
                      taken.version, taken.complete)
<1>t. taken \in Results /\ ~Discarded(taken)
  BY DEF Install, TypeOK, OwnerOK
<1>g. generation \in Nat /\ generation' = generation + 1 /\ bundle' = b
  BY NumbersTyped DEF Install, SealedGeneration, Numbers
<1>b. /\ b \in Bundles /\ b.generation = generation + 1 /\ b.epoch = epoch
      /\ b.raw = b.clean
  BY <1>t, <1>g, ResultFields, BundleTyped DEF Discarded
<1>u. UNCHANGED <<epoch, sepoch, rawVersion>> /\ UNCHANGED pubVars
  BY DEF Install
<1> HIDE DEF b
<1>1. /\ ObsOK' /\ QueueOK' /\ WorkOK' /\ CommitOK' /\ RebuildOK' /\ Issued'
      /\ EvidenceFromCurrentBuild'
  BY DEF TypeOK, ObsOK, QueueOK, WorkOK, CommitOK, RebuildOK, Issued,
         EvidenceFromCurrentBuild, Install, obsVars, queueVars, workVars,
         commVars, rebVars
<1>2. MapOK'
  <2>1. cleanVersion' = taken.version \/ cleanVersion' = cleanVersion
    BY DEF Install
  <2> QED  BY <1>t, <1>g, <1>b, <1>u, <2>1, ResultFields DEF TypeOK, MapOK
<1>3. FlagOK'
  BY DEF TypeOK, FlagOK, Install
<1>4. OwnerOK'
  BY DEF TypeOK, OwnerOK, Install
<1>5. PublishOK'
  BY DEF TypeOK, PublishOK, Install, pubVars
<1>6. PassesLeft'
  BY DEF PassesLeft, Install
<1>7. BuildIsRunning'
  BY DEF BuildIsRunning, Install, workVars
<1>8. BundlesAreOfOneVersion'
  BY <1>g, <1>b, <1>u DEF BundlesAreOfOneVersion, OneVersion, pubVars
<1>9. BundleIsSealed'
  BY <1>g, <1>b, <1>u, NumbersTyped DEF BundleIsSealed, Numbers
<1>10. PublishedInOrder'
  <2>1. bundle \in Bundles /\ bundle.generation \in Nat
    BY BundleFields DEF TypeOK, MapOK
  <2>2. NotOlder(b, bundle)
    BY <1>g, <1>b, <2>1 DEF BundleIsSealed, NotOlder
  <2> QED  BY <1>g, <1>b, <1>u, <2>2, OrderKept
<1> QED
  BY <1>1, <1>2, <1>3, <1>4, <1>5, <1>6, <1>7, <1>8, <1>9, <1>10
  DEF TypeOK

LEMMA CreditKeeps ==
    ASSUME IInv, Credit
    PROVE  IInv'
<1> USE DEF IInv
<1>1. /\ MapOK' /\ QueueOK' /\ WorkOK' /\ CommitOK' /\ RebuildOK' /\ Issued'
      /\ BundlesAreOfOneVersion' /\ BundleIsSealed' /\ PublishedInOrder'
  BY DEF TypeOK, MapOK, QueueOK, WorkOK, CommitOK, RebuildOK, Issued,
         BundlesAreOfOneVersion, BundleIsSealed, PublishedInOrder, Credit,
         mapVars, queueVars, workVars, commVars, rebVars, pubVars
<1>2. ObsOK'
  <2>1. taken.obs \subseteq Tokens /\ taken.sepoch \in Epochs
    BY ResultFields DEF TypeOK, OwnerOK
  <2>2. sepoch \in Epochs /\ ObsOK
    BY DEF TypeOK, MapOK
  <2> QED  BY <2>1, <2>2 DEF ObsOK, Credit
<1>3. FlagOK'
  BY DEF TypeOK, FlagOK, Credit
<1>4. OwnerOK'
  <2>1. passes - 1 \in 0 .. 2
    BY DEF Credit, PassesLeft, TypeOK, OwnerOK
  <2> QED  BY <2>1, DefaultsTyped DEF Credit, AfterConsume, TypeOK, OwnerOK
<1>5. PublishOK'
  BY DEF TypeOK, PublishOK, Credit, pubVars
<1>6. PassesLeft'
  BY DEF PassesLeft, TypeOK, OwnerOK, Credit, AfterConsume
<1>7. BuildIsRunning'
  BY DEF BuildIsRunning, Credit, AfterConsume, workVars
<1>8. EvidenceFromCurrentBuild'
  BY DEF EvidenceFromCurrentBuild, Credit, CreditEpoch, mapVars
<1> QED  BY <1>1, <1>2, <1>3, <1>4, <1>5, <1>6, <1>7, <1>8 DEF TypeOK

LEMMA RunMapMaintenanceKeeps ==
    ASSUME IInv, RunMapMaintenance
    PROVE  IInv'
<1> USE DEF IInv
<1>1. /\ MapOK' /\ ObsOK' /\ QueueOK' /\ WorkOK' /\ CommitOK' /\ RebuildOK'
      /\ PublishOK' /\ Issued' /\ EvidenceFromCurrentBuild'
      /\ BundlesAreOfOneVersion' /\ BundleIsSealed' /\ PublishedInOrder'
  BY DEF TypeOK, MapOK, ObsOK, QueueOK, WorkOK, CommitOK, RebuildOK, PublishOK,
         Issued, EvidenceFromCurrentBuild, BundlesAreOfOneVersion,
         BundleIsSealed, PublishedInOrder, RunMapMaintenance, mapVars, obsVars,
         queueVars, workVars, commVars, rebVars, pubVars
<1>2. FlagOK'
  BY DEF TypeOK, FlagOK, RunMapMaintenance
<1>3. OwnerOK'
  BY DEF TypeOK, OwnerOK, RunMapMaintenance
<1>4. PassesLeft'
  BY DEF PassesLeft, RunMapMaintenance
<1>5. BuildIsRunning'
  BY DEF BuildIsRunning, RunMapMaintenance, workVars
<1> QED  BY <1>1, <1>2, <1>3, <1>4, <1>5 DEF TypeOK

LEMMA StartWhileRunningKeeps ==
    ASSUME IInv, StartWhileRunning
    PROVE  IInv'
<1> USE DEF IInv
<1>1. /\ MapOK' /\ ObsOK' /\ QueueOK' /\ WorkOK' /\ CommitOK' /\ RebuildOK'
      /\ PublishOK' /\ Issued' /\ EvidenceFromCurrentBuild'
      /\ BundlesAreOfOneVersion' /\ BundleIsSealed' /\ PublishedInOrder'
  BY DEF TypeOK, MapOK, ObsOK, QueueOK, WorkOK, CommitOK, RebuildOK, PublishOK,
         Issued, EvidenceFromCurrentBuild, BundlesAreOfOneVersion,
         BundleIsSealed, PublishedInOrder, StartWhileRunning, mapVars, obsVars,
         queueVars, workVars, commVars, rebVars, pubVars
<1>2. FlagOK'
  BY DEF TypeOK, FlagOK, StartWhileRunning, StartRefused
<1>3. OwnerOK'
  BY DEF TypeOK, OwnerOK, StartWhileRunning
<1>4. PassesLeft'
  BY DEF PassesLeft, TypeOK, OwnerOK, StartWhileRunning
<1>5. BuildIsRunning'
  BY DEF BuildIsRunning, TypeOK, OwnerOK, StartWhileRunning, workVars
<1> QED  BY <1>1, <1>2, <1>3, <1>4, <1>5 DEF TypeOK

LEMMA StartSwapObservationsKeeps ==
    ASSUME IInv, StartSwapObservations
    PROVE  IInv'
<1> USE DEF IInv
<1>1. /\ MapOK' /\ FlagOK' /\ QueueOK' /\ WorkOK' /\ CommitOK' /\ RebuildOK'
      /\ PublishOK' /\ Issued' /\ EvidenceFromCurrentBuild'
      /\ BundlesAreOfOneVersion' /\ BundleIsSealed' /\ PublishedInOrder'
  BY DEF TypeOK, MapOK, FlagOK, QueueOK, WorkOK, CommitOK, RebuildOK,
         PublishOK, Issued, EvidenceFromCurrentBuild, BundlesAreOfOneVersion,
         BundleIsSealed, PublishedInOrder, StartSwapObservations, mapVars,
         flagVars, queueVars, workVars, commVars, rebVars, pubVars
<1>2. ObsOK'
  BY DEF TypeOK, ObsOK, StartSwapObservations
<1>3. OwnerOK'
  BY DEF TypeOK, OwnerOK, ObsOK, StartSwapObservations
<1>4. PassesLeft'
  BY DEF PassesLeft, StartSwapObservations
<1>5. BuildIsRunning'
  BY DEF BuildIsRunning, StartSwapObservations, JoinReturned, workVars
<1> QED  BY <1>1, <1>2, <1>3, <1>4, <1>5 DEF TypeOK

LEMMA StartSnapshotAndLaunchKeeps ==
    ASSUME IInv, StartSnapshotAndLaunch
    PROVE  IInv'
<1> USE DEF IInv
<1>1. /\ MapOK' /\ ObsOK' /\ FlagOK' /\ QueueOK' /\ CommitOK' /\ RebuildOK'
      /\ PublishOK' /\ Issued' /\ EvidenceFromCurrentBuild'
      /\ BundlesAreOfOneVersion' /\ BundleIsSealed' /\ PublishedInOrder'
  BY DEF TypeOK, MapOK, ObsOK, FlagOK, QueueOK, CommitOK, RebuildOK, PublishOK,
         Issued, EvidenceFromCurrentBuild, BundlesAreOfOneVersion,
         BundleIsSealed, PublishedInOrder, StartSnapshotAndLaunch, mapVars,
         obsVars, flagVars, queueVars, commVars, rebVars, pubVars
<1>2. OwnerOK'
  BY DEF TypeOK, OwnerOK, StartSnapshotAndLaunch
<1>3. WorkOK'
  <2>1. job' \in Results
    BY DEF TypeOK, OwnerOK, MapOK, Results, StartSnapshotAndLaunch
  <2> QED  BY <2>1 DEF TypeOK, WorkOK, StartSnapshotAndLaunch
<1>4. PassesLeft'
  BY DEF PassesLeft, TypeOK, OwnerOK, StartSnapshotAndLaunch
<1>5. BuildIsRunning'
  BY DEF BuildIsRunning, TypeOK, OwnerOK, StartSnapshotAndLaunch
<1> QED  BY <1>1, <1>2, <1>3, <1>4, <1>5 DEF TypeOK

LEMMA FinishFrameKeeps ==
    ASSUME IInv, FinishFrame
    PROVE  IInv'
<1> USE DEF IInv
<1>1. /\ MapOK' /\ ObsOK' /\ FlagOK' /\ QueueOK' /\ WorkOK' /\ CommitOK'
      /\ RebuildOK' /\ PublishOK' /\ Issued' /\ EvidenceFromCurrentBuild'
      /\ BundlesAreOfOneVersion' /\ BundleIsSealed' /\ PublishedInOrder'
  BY DEF TypeOK, MapOK, ObsOK, FlagOK, QueueOK, WorkOK, CommitOK, RebuildOK,
         PublishOK, Issued, EvidenceFromCurrentBuild, BundlesAreOfOneVersion,
         BundleIsSealed, PublishedInOrder, FinishFrame, mapVars, obsVars,
         flagVars, queueVars, workVars, commVars, rebVars, pubVars
<1>2. OwnerOK'
  BY DEF TypeOK, OwnerOK, FinishFrame
<1>3. PassesLeft'
  BY DEF PassesLeft, FinishFrame
<1>4. BuildIsRunning'
  BY DEF BuildIsRunning, FinishFrame, workVars
<1> QED  BY <1>1, <1>2, <1>3, <1>4 DEF TypeOK

LEMMA TimeRollbackKeeps ==
    ASSUME IInv, TimeRollback
    PROVE  IInv'
<1> USE DEF IInv
<1>n. /\ bundle \in Bundles /\ epoch \in Nat /\ epoch' = epoch + 1
      /\ epoch' \in Epochs /\ bundle' = [bundle EXCEPT !.epoch = epoch']
  BY NextNumbers, NumbersTyped DEF TimeRollback, TypeOK, MapOK, Numbers
<1>b. /\ bundle' \in Bundles /\ bundle'.epoch = epoch'
      /\ bundle'.generation = bundle.generation
      /\ bundle'.raw = bundle.raw /\ bundle'.clean = bundle.clean
  BY <1>n DEF Bundles
<1>u. /\ UNCHANGED <<sepoch, rawVersion, cleanVersion, generation>>
      /\ UNCHANGED pubVars
  BY DEF TimeRollback
<1>1. /\ ObsOK' /\ QueueOK' /\ WorkOK' /\ CommitOK' /\ PublishOK'
      /\ EvidenceFromCurrentBuild'
  BY DEF TypeOK, ObsOK, QueueOK, WorkOK, CommitOK, PublishOK,
         EvidenceFromCurrentBuild, TimeRollback, obsVars, queueVars, workVars,
         commVars, pubVars
<1>2. MapOK'
  BY <1>n, <1>b, <1>u DEF TypeOK, MapOK
<1>3. FlagOK'
  BY DEF TypeOK, FlagOK, TimeRollback
<1>4. OwnerOK'
  BY DEF TypeOK, OwnerOK, TimeRollback
<1>5. RebuildOK'
  BY CleanConstants DEF TypeOK, RebuildOK, TimeRollback, rebVars
<1>6. Issued'
  BY NumbersTyped DEF Numbers, Issued, TimeRollback, commVars, rebVars
<1>7. PassesLeft'
  BY DEF PassesLeft, TimeRollback
<1>8. BuildIsRunning'
  BY DEF BuildIsRunning, TimeRollback, workVars
<1>9. BundlesAreOfOneVersion'
  BY <1>b, <1>u DEF BundlesAreOfOneVersion, OneVersion, pubVars
<1>10. BundleIsSealed'
  BY <1>n, <1>u DEF BundleIsSealed
<1>11. PublishedInOrder'
  <2>1. NotOlder(bundle', bundle)
    BY <1>n, BundleFields DEF BundleIsSealed, NotOlder
  <2> QED  BY <1>b, <1>u, <2>1, OrderKept
<1> QED
  BY <1>1, <1>2, <1>3, <1>4, <1>5, <1>6, <1>7, <1>8, <1>9, <1>10, <1>11
  DEF TypeOK

LEMMA WorkerStoreKeeps ==
    ASSUME IInv, WorkerStore
    PROVE  IInv'
<1> USE DEF IInv
<1>1. /\ MapOK' /\ ObsOK' /\ FlagOK' /\ QueueOK' /\ OwnerOK' /\ CommitOK'
      /\ RebuildOK' /\ PublishOK' /\ Issued' /\ PassesLeft'
      /\ EvidenceFromCurrentBuild' /\ BundlesAreOfOneVersion'
      /\ BundleIsSealed' /\ PublishedInOrder'
  BY DEF TypeOK, MapOK, ObsOK, FlagOK, QueueOK, OwnerOK, CommitOK, RebuildOK,
         PublishOK, Issued, PassesLeft, EvidenceFromCurrentBuild,
         BundlesAreOfOneVersion, BundleIsSealed, PublishedInOrder, WorkerStore,
         mapVars, obsVars, flagVars, queueVars, ownerVars, commVars, rebVars,
         pubVars
<1>2. WorkOK'
  <2>1. slot' \in Results
    BY DEF WorkerStore, TypeOK, WorkOK, Results
  <2> QED  BY <2>1, DefaultsTyped DEF TypeOK, WorkOK, WorkerStore
<1>3. BuildIsRunning'
  BY DEF BuildIsRunning, WorkerStore, ownerVars
<1> QED  BY <1>1, <1>2, <1>3 DEF TypeOK

LEMMA WorkerStopRunningKeeps ==
    ASSUME IInv, WorkerStopRunning
    PROVE  IInv'
<1> USE DEF IInv
<1>1. /\ MapOK' /\ ObsOK' /\ FlagOK' /\ QueueOK' /\ OwnerOK' /\ CommitOK'
      /\ RebuildOK' /\ PublishOK' /\ Issued' /\ PassesLeft'
      /\ EvidenceFromCurrentBuild' /\ BundlesAreOfOneVersion'
      /\ BundleIsSealed' /\ PublishedInOrder'
  BY DEF TypeOK, MapOK, ObsOK, FlagOK, QueueOK, OwnerOK, CommitOK, RebuildOK,
         PublishOK, Issued, PassesLeft, EvidenceFromCurrentBuild,
         BundlesAreOfOneVersion, BundleIsSealed, PublishedInOrder,
         WorkerStopRunning, mapVars, obsVars, flagVars, queueVars, ownerVars,
         commVars, rebVars, pubVars
<1>2. WorkOK'
  BY DEF TypeOK, WorkOK, WorkerStopRunning
<1>3. BuildIsRunning'
  BY DEF BuildIsRunning, WorkerStopRunning, ownerVars
<1> QED  BY <1>1, <1>2, <1>3 DEF TypeOK

LEMMA WorkerSetReadyKeeps ==
    ASSUME IInv, WorkerSetReady
    PROVE  IInv'
<1> USE DEF IInv
<1>1. /\ MapOK' /\ ObsOK' /\ FlagOK' /\ QueueOK' /\ OwnerOK' /\ CommitOK'
      /\ RebuildOK' /\ PublishOK' /\ Issued' /\ PassesLeft'
      /\ EvidenceFromCurrentBuild' /\ BundlesAreOfOneVersion'
      /\ BundleIsSealed' /\ PublishedInOrder'
  BY DEF TypeOK, MapOK, ObsOK, FlagOK, QueueOK, OwnerOK, CommitOK, RebuildOK,
         PublishOK, Issued, PassesLeft, EvidenceFromCurrentBuild,
         BundlesAreOfOneVersion, BundleIsSealed, PublishedInOrder,
         WorkerSetReady, mapVars, obsVars, flagVars, queueVars, ownerVars,
         commVars, rebVars, pubVars
<1>2. WorkOK'
  BY DEF TypeOK, WorkOK, WorkerSetReady
<1>3. BuildIsRunning'
  BY DEF BuildIsRunning, WorkerSetReady
<1> QED  BY <1>1, <1>2, <1>3 DEF TypeOK

LEMMA CommitMapWriteKeeps ==
    ASSUME IInv, CommitMapWrite
    PROVE  IInv'
<1> USE DEF IInv
<1>1. /\ ObsOK' /\ FlagOK' /\ QueueOK' /\ OwnerOK' /\ WorkOK' /\ RebuildOK'
      /\ PublishOK' /\ PassesLeft' /\ BuildIsRunning'
      /\ EvidenceFromCurrentBuild' /\ BundlesAreOfOneVersion'
      /\ PublishedInOrder'
  BY DEF TypeOK, ObsOK, FlagOK, QueueOK, OwnerOK, WorkOK, RebuildOK, PublishOK,
         PassesLeft, BuildIsRunning, EvidenceFromCurrentBuild,
         BundlesAreOfOneVersion, PublishedInOrder, CommitMapWrite, obsVars,
         flagVars, queueVars, ownerVars, workVars, rebVars, pubVars
<1>2. MapOK'
  BY NextNumbers DEF TypeOK, MapOK, CommitMapWrite
<1>3. CommitOK'
  <2>1. commits' \in 1 .. MaxCommits /\ sepoch \in Epochs
    BY NumbersTyped, CleanConstants DEF Numbers, CommitMapWrite, TypeOK, MapOK
  <2> QED  BY <2>1 DEF CommitOK, CommitMapWrite, Tokens
<1>4. Issued'
  BY NumbersTyped DEF Numbers, Issued, CommitMapWrite, rebVars
<1>5. BundleIsSealed'
  BY DEF BundleIsSealed, TypeOK, MapOK, Bundles, CommitMapWrite
<1> QED  BY <1>1, <1>2, <1>3, <1>4, <1>5 DEF TypeOK

LEMMA CommitObserveKeeps ==
    ASSUME IInv, CommitObserve
    PROVE  IInv'
<1> USE DEF IInv
<1>1. /\ MapOK' /\ QueueOK' /\ OwnerOK' /\ WorkOK' /\ RebuildOK'
      /\ PublishOK' /\ Issued' /\ PassesLeft' /\ BuildIsRunning'
      /\ EvidenceFromCurrentBuild' /\ BundlesAreOfOneVersion'
      /\ BundleIsSealed' /\ PublishedInOrder'
  BY DEF TypeOK, MapOK, QueueOK, OwnerOK, WorkOK, RebuildOK, PublishOK, Issued,
         PassesLeft, BuildIsRunning, EvidenceFromCurrentBuild,
         BundlesAreOfOneVersion, BundleIsSealed, PublishedInOrder,
         CommitObserve, mapVars, queueVars, ownerVars, workVars, rebVars,
         pubVars
<1>2. ObsOK'
  BY DEF TypeOK, ObsOK, CommitOK, CommitObserve
<1>3. FlagOK'
  <2>1. commitCount' \in 0 .. (CommitInterval - 1)
    BY CleanConstants DEF TypeOK, FlagOK, CommitObserve
  <2> QED  BY <2>1 DEF TypeOK, FlagOK, CommitObserve
<1>4. CommitOK'
  BY DEF TypeOK, CommitOK, CommitObserve
<1> QED  BY <1>1, <1>2, <1>3, <1>4 DEF TypeOK

LEMMA RebuildSwapKeeps ==
    ASSUME IInv, RebuildSwap
    PROVE  IInv'
<1> USE DEF IInv
<1>1. /\ ObsOK' /\ FlagOK' /\ QueueOK' /\ OwnerOK' /\ WorkOK' /\ CommitOK'
      /\ PublishOK' /\ PassesLeft' /\ BuildIsRunning'
      /\ EvidenceFromCurrentBuild' /\ BundlesAreOfOneVersion'
      /\ PublishedInOrder'
  BY DEF TypeOK, ObsOK, FlagOK, QueueOK, OwnerOK, WorkOK, CommitOK, PublishOK,
         PassesLeft, BuildIsRunning, EvidenceFromCurrentBuild,
         BundlesAreOfOneVersion, PublishedInOrder, RebuildSwap, obsVars,
         flagVars, queueVars, ownerVars, workVars, commVars, pubVars
<1>2. MapOK'
  BY NextNumbers DEF TypeOK, MapOK, RebuildSwap
<1>3. RebuildOK'
  BY CleanConstants DEF TypeOK, RebuildOK, RebuildSwap
<1>4. Issued'
  BY NumbersTyped DEF Numbers, Issued, RebuildSwap, commVars
<1>5. BundleIsSealed'
  BY DEF BundleIsSealed, TypeOK, MapOK, Bundles, RebuildSwap
<1> QED  BY <1>1, <1>2, <1>3, <1>4, <1>5 DEF TypeOK

LEMMA RebuildRequestCleanKeeps ==
    ASSUME IInv, RebuildRequestClean
    PROVE  IInv'
<1> USE DEF IInv
<1>1. /\ MapOK' /\ ObsOK' /\ QueueOK' /\ OwnerOK' /\ WorkOK' /\ CommitOK'
      /\ PublishOK' /\ Issued' /\ PassesLeft' /\ BuildIsRunning'
      /\ EvidenceFromCurrentBuild' /\ BundlesAreOfOneVersion'
      /\ BundleIsSealed' /\ PublishedInOrder'
  BY DEF TypeOK, MapOK, ObsOK, QueueOK, OwnerOK, WorkOK, CommitOK, PublishOK,
         Issued, PassesLeft, BuildIsRunning, EvidenceFromCurrentBuild,
         BundlesAreOfOneVersion, BundleIsSealed, PublishedInOrder,
         RebuildRequestClean, mapVars, obsVars, queueVars, ownerVars, workVars,
         commVars, pubVars
<1>2. FlagOK'
  BY DEF TypeOK, FlagOK, RebuildRequestClean
<1>3. RebuildOK'
  BY DEF TypeOK, RebuildOK, RebuildRequestClean
<1> QED  BY <1>1, <1>2, <1>3 DEF TypeOK

LEMMA ReplaceMapKeeps ==
    ASSUME IInv, NEW b \in {"reset", "load"}, ReplaceMap(b)
    PROVE  IInv'
<1> USE DEF IInv
<1>n. /\ epoch' = epoch + 1 /\ sepoch' = sepoch + 1
      /\ rawVersion' = rawVersion + 1 /\ cleanVersion' = rawVersion'
      /\ generation' = generation + 1 /\ UNCHANGED pubVars
  BY DEF ReplaceMap
<1>m. /\ epoch' \in Epochs /\ sepoch' \in Epochs /\ rawVersion' \in Versions
      /\ generation \in Nat /\ generation' \in Nat /\ epoch \in Nat
  BY NextNumbers, NumbersTyped DEF ReplaceMap, ServiceMayRun, Numbers
<1>c. bundle' = Bundle(generation', epoch', rawVersion', rawVersion', TRUE)
  BY DEF ReplaceMap
<1>b. /\ bundle' \in Bundles /\ bundle'.generation = generation'
      /\ bundle'.epoch = epoch' /\ bundle'.raw = bundle'.clean
  BY <1>m, <1>c DEF Bundle, Bundles
<1>1. OwnerOK' /\ WorkOK' /\ CommitOK' /\ PassesLeft' /\ BuildIsRunning'
  BY DEF TypeOK, OwnerOK, WorkOK, CommitOK, PassesLeft, BuildIsRunning,
         ReplaceMap, ownerVars, workVars, commVars
<1>2. MapOK'
  BY <1>n, <1>m, <1>b DEF MapOK
<1>3. ObsOK'
  BY DEF ObsOK, ReplaceMap
<1>4. FlagOK'
  BY DEF TypeOK, FlagOK, ReplaceMap
<1>5. QueueOK'
  BY DEF TypeOK, QueueOK, ReplaceMap
<1>6. RebuildOK'
  BY CleanConstants DEF TypeOK, RebuildOK, ReplaceMap, ServiceMayRun, rebVars
<1>7. PublishOK'
  BY DEF TypeOK, PublishOK, ReplaceMap, pubVars
<1>8. Issued'
  BY NumbersTyped DEF Numbers, Issued, ReplaceMap, commVars, rebVars
<1>9. EvidenceFromCurrentBuild'
  BY DEF EvidenceFromCurrentBuild, ReplaceMap
<1>10. BundlesAreOfOneVersion'
  BY <1>n, <1>b DEF BundlesAreOfOneVersion, OneVersion, pubVars
<1>11. BundleIsSealed'
  BY <1>n, <1>m, <1>b DEF BundleIsSealed
<1>12. PublishedInOrder'
  <2>1. bundle.generation \in Nat /\ bundle.epoch \in Nat
    BY BundleFields DEF TypeOK, MapOK
  <2>2. NotOlder(bundle', bundle)
    BY <1>n, <1>m, <1>b, <2>1 DEF BundleIsSealed, NotOlder
  <2> QED  BY <1>n, <1>b, <2>2, OrderKept
<1> QED
  BY <1>1, <1>2, <1>3, <1>4, <1>5, <1>6, <1>7, <1>8, <1>9, <1>10, <1>11, <1>12
  DEF TypeOK

LEMMA RebuildMapServiceKeeps ==
    ASSUME IInv, RebuildMapService
    PROVE  IInv'
<1> USE DEF IInv
<1>1. /\ QueueOK' /\ OwnerOK' /\ WorkOK' /\ CommitOK' /\ PublishOK'
      /\ PassesLeft' /\ BuildIsRunning' /\ BundlesAreOfOneVersion'
      /\ PublishedInOrder'
  BY DEF TypeOK, QueueOK, OwnerOK, WorkOK, CommitOK, PublishOK, PassesLeft,
         BuildIsRunning, BundlesAreOfOneVersion, PublishedInOrder,
         RebuildMapService, queueVars, ownerVars, workVars, commVars, pubVars
<1>2. MapOK'
  BY NextNumbers DEF TypeOK, MapOK, RebuildMapService, ServiceMayRun
<1>3. ObsOK'
  BY DEF ObsOK, RebuildMapService
<1>4. FlagOK'
  BY DEF TypeOK, FlagOK, RebuildMapService
<1>5. RebuildOK'
  BY CleanConstants
  DEF TypeOK, RebuildOK, RebuildMapService, ServiceMayRun, rebVars
<1>6. Issued'
  BY NumbersTyped DEF Numbers, Issued, RebuildMapService, commVars, rebVars
<1>7. EvidenceFromCurrentBuild'
  BY DEF EvidenceFromCurrentBuild, RebuildMapService
<1>8. BundleIsSealed'
  BY DEF BundleIsSealed, TypeOK, MapOK, Bundles, Epochs, RebuildMapService
<1> QED  BY <1>1, <1>2, <1>3, <1>4, <1>5, <1>6, <1>7, <1>8 DEF TypeOK

LEMMA TimerKeeps ==
    ASSUME IInv, Timer
    PROVE  IInv'
<1> USE DEF IInv
<1>1. /\ MapOK' /\ ObsOK' /\ QueueOK' /\ OwnerOK' /\ WorkOK' /\ CommitOK'
      /\ RebuildOK' /\ PublishOK' /\ Issued' /\ PassesLeft'
      /\ BuildIsRunning' /\ EvidenceFromCurrentBuild'
      /\ BundlesAreOfOneVersion' /\ BundleIsSealed' /\ PublishedInOrder'
  BY DEF TypeOK, MapOK, ObsOK, QueueOK, OwnerOK, WorkOK, CommitOK, RebuildOK,
         PublishOK, Issued, PassesLeft, BuildIsRunning,
         EvidenceFromCurrentBuild, BundlesAreOfOneVersion, BundleIsSealed,
         PublishedInOrder, Timer, mapVars, obsVars, queueVars, ownerVars,
         workVars, commVars, rebVars, pubVars
<1>2. FlagOK'
  BY DEF TypeOK, FlagOK, Timer
<1> QED  BY <1>1, <1>2 DEF TypeOK

LEMMA PublisherWakeKeeps ==
    ASSUME IInv, PublisherWake
    PROVE  IInv'
<1> USE DEF IInv
<1>1. /\ MapOK' /\ ObsOK' /\ FlagOK' /\ QueueOK' /\ OwnerOK' /\ WorkOK'
      /\ CommitOK' /\ RebuildOK' /\ Issued' /\ PassesLeft'
      /\ BuildIsRunning' /\ EvidenceFromCurrentBuild'
      /\ BundlesAreOfOneVersion' /\ BundleIsSealed'
  BY DEF TypeOK, MapOK, ObsOK, FlagOK, QueueOK, OwnerOK, WorkOK, CommitOK,
         RebuildOK, Issued, PassesLeft, BuildIsRunning,
         EvidenceFromCurrentBuild, BundlesAreOfOneVersion, BundleIsSealed,
         PublisherWake, mapVars, obsVars, flagVars, queueVars, ownerVars,
         workVars, commVars, rebVars
<1>2. PublishOK'
  BY DEF TypeOK, PublishOK, PublisherWake
<1>3. PublishedInOrder'
  BY DEF PublishedInOrder, PublisherWake, mapVars
<1> QED  BY <1>1, <1>2, <1>3 DEF TypeOK

LEMMA PublisherCaptureKeeps ==
    ASSUME IInv, PublisherCapture
    PROVE  IInv'
<1> USE DEF IInv
<1>1. /\ MapOK' /\ ObsOK' /\ FlagOK' /\ QueueOK' /\ OwnerOK' /\ WorkOK'
      /\ CommitOK' /\ RebuildOK' /\ Issued' /\ PassesLeft'
      /\ BuildIsRunning' /\ EvidenceFromCurrentBuild' /\ BundleIsSealed'
  BY DEF TypeOK, MapOK, ObsOK, FlagOK, QueueOK, OwnerOK, WorkOK, CommitOK,
         RebuildOK, Issued, PassesLeft, BuildIsRunning,
         EvidenceFromCurrentBuild, BundleIsSealed, PublisherCapture, mapVars,
         obsVars, flagVars, queueVars, ownerVars, workVars, commVars, rebVars
<1>2. PublishOK'
  BY DEF TypeOK, MapOK, PublishOK, PublisherCapture, CapturedBundle
<1>3. BundlesAreOfOneVersion'
  BY DEF BundlesAreOfOneVersion, PublisherCapture, CapturedBundle, mapVars
<1>4. PublishedInOrder'
  <2>1. NotOlder(bundle, bundle)
    BY BundleFields DEF NotOlder, TypeOK, MapOK, Bundles
  <2> QED
    BY <2>1
    DEF PublishedInOrder, PublisherCapture, CapturedBundle, mapVars
<1> QED  BY <1>1, <1>2, <1>3, <1>4 DEF TypeOK

LEMMA PublisherPublishKeeps ==
    ASSUME IInv, PublisherPublish
    PROVE  IInv'
<1> USE DEF IInv
<1>1. /\ MapOK' /\ ObsOK' /\ FlagOK' /\ QueueOK' /\ OwnerOK' /\ WorkOK'
      /\ CommitOK' /\ RebuildOK' /\ Issued' /\ PassesLeft'
      /\ BuildIsRunning' /\ EvidenceFromCurrentBuild' /\ BundleIsSealed'
  BY DEF TypeOK, MapOK, ObsOK, FlagOK, QueueOK, OwnerOK, WorkOK, CommitOK,
         RebuildOK, Issued, PassesLeft, BuildIsRunning,
         EvidenceFromCurrentBuild, BundleIsSealed, PublisherPublish, mapVars,
         obsVars, flagVars, queueVars, ownerVars, workVars, commVars, rebVars
<1>2. PublishOK'
  BY DefaultsTyped DEF TypeOK, PublishOK, PublisherPublish
<1>3. BundlesAreOfOneVersion'
  BY DEF BundlesAreOfOneVersion, OneVersion, PublisherPublish, NoSnapshot,
         Bundle, mapVars
<1>4. PublishedInOrder'
  BY DEF PublishedInOrder, PublisherPublish, mapVars
<1> QED  BY <1>1, <1>2, <1>3, <1>4 DEF TypeOK

LEMMA InitIInv == Init => IInv
<1> SUFFICES ASSUME Init PROVE IInv
  OBVIOUS
<1>1. bundle \in Bundles /\ published \in Bundles /\ pubSnapshot \in Bundles
  BY CleanConstants DEF Init, NoSnapshot, Bundle, Bundles, Epochs, Versions
<1>2. /\ maintPending \in BOOLEAN /\ cleanPending \in BOOLEAN
      /\ cleanRequested \in BOOLEAN /\ hasRun \in BOOLEAN
      /\ framePending \in BOOLEAN /\ forced \in BOOLEAN
      /\ maintTurn \in BOOLEAN /\ running \in BOOLEAN /\ ready \in BOOLEAN
      /\ pubPending \in BOOLEAN /\ orphaned \in BOOLEAN
  BY DEF Init
<1>3. MapOK /\ ObsOK
  <2>1. epoch = 1 /\ sepoch = 1 /\ rawVersion = 1 /\ cleanVersion = 1
    BY DEF Init
  <2>2. generation = 1 /\ pendingObs = {} /\ evidence = {}
    BY DEF Init
  <2> QED
    BY <1>1, <2>1, <2>2, CleanConstants
    DEF MapOK, ObsOK, Epochs, Versions
<1>4. FlagOK /\ QueueOK
  <2>1. commitCount = 0 /\ deferral = 0
    BY DEF Init
  <2> QED  BY <1>2, <2>1, CleanConstants DEF FlagOK, QueueOK
<1>5. OwnerOK /\ WorkOK
  BY <1>2, DefaultsTyped DEF Init, OwnerOK, WorkOK
<1>6. CommitOK /\ RebuildOK /\ PublishOK
  <2>1. commits = 0 /\ rebuilds = 0 /\ boundaries = 0 /\ commitObs = {}
    BY DEF Init
  <2>2. committer = "idle" /\ rebuilder = "idle" /\ publisher = "wait"
    BY DEF Init
  <2> QED
    BY <1>1, <1>2, <2>1, <2>2, CleanConstants
    DEF CommitOK, RebuildOK, PublishOK
<1>7. Issued /\ PassesLeft /\ BuildIsRunning /\ EvidenceFromCurrentBuild
  BY DEF Init, Issued, PassesLeft, BuildIsRunning, EvidenceFromCurrentBuild
<1>8. BundlesAreOfOneVersion /\ BundleIsSealed
  BY DEF Init, BundlesAreOfOneVersion, OneVersion, BundleIsSealed, Bundle,
         NoSnapshot
<1>9. PublishedInOrder
  BY DEF Init, PublishedInOrder, NotOlder, Bundle
<1> QED  BY <1>3, <1>4, <1>5, <1>6, <1>7, <1>8, <1>9 DEF IInv, TypeOK

LEMMA StutterIInv ==
    ASSUME IInv, UNCHANGED vars
    PROVE  IInv'
<1>1. TypeOK'
  BY DEF IInv, vars, mapVars, obsVars, flagVars, queueVars, ownerVars,
         workVars, commVars, rebVars, pubVars, TypeOK, MapOK, ObsOK, FlagOK,
         QueueOK, OwnerOK, WorkOK, CommitOK, RebuildOK, PublishOK
<1>2. Issued' /\ PassesLeft' /\ BuildIsRunning' /\ EvidenceFromCurrentBuild'
  BY DEF IInv, vars, mapVars, obsVars, ownerVars, workVars, commVars, rebVars,
         Issued, PassesLeft, BuildIsRunning, EvidenceFromCurrentBuild
<1>3. BundlesAreOfOneVersion' /\ BundleIsSealed' /\ PublishedInOrder'
  BY DEF IInv, vars, mapVars, pubVars, BundlesAreOfOneVersion, BundleIsSealed,
         PublishedInOrder
<1> QED  BY <1>1, <1>2, <1>3 DEF IInv

LEMMA StepIInv ==
    ASSUME IInv, [Next]_vars
    PROVE  IInv'
<1>1. CASE Owner
  BY <1>1, BeginMaintenanceTurnKeeps, BeginFrameTurnKeeps, NoLoopClosureKeeps,
     ExchangeReadyKeeps, TakeResultKeeps, DiscardKeeps, InstallKeeps,
     CreditKeeps, RunMapMaintenanceKeeps, StartWhileRunningKeeps,
     StartSwapObservationsKeeps, StartSnapshotAndLaunchKeeps, FinishFrameKeeps
  DEF Owner
<1>2. CASE Worker \/ Committer
  BY <1>2, WorkerStoreKeeps, WorkerStopRunningKeeps, WorkerSetReadyKeeps,
     CommitMapWriteKeeps, CommitObserveKeeps
  DEF Worker, Committer
<1>3. CASE Rebuilder \/ Publisher
  BY <1>3, RebuildSwapKeeps, RebuildRequestCleanKeeps, PublisherWakeKeeps,
     PublisherCaptureKeeps, PublisherPublishKeeps
  DEF Rebuilder, Publisher
<1>4. CASE Services
  BY <1>4, ReplaceMapKeeps, RebuildMapServiceKeeps DEF Services
<1>5. CASE ApplyLoopClosure \/ TimeRollback \/ FrameArrives \/ Timer
  BY <1>5, ApplyLoopClosureKeeps, TimeRollbackKeeps, FrameArrivesKeeps,
     TimerKeeps
<1> QED  BY <1>1, <1>2, <1>3, <1>4, <1>5, StutterIInv DEF Next

LEMMA Invariance == Spec => []IInv
BY InitIInv, StepIInv, PTL DEF Spec

-----------------------------------------------------------------------------
(* The theorems.                                                           *)

\* The state the six threads share is well formed; in particular the deferral
\* of the maintenance never exceeds map_maintenance_max_deferral_frames_.
THEOREM TypeCorrect == Spec => []TypeOK
<1>1. IInv => TypeOK
  BY DEF IInv
<1> QED  BY <1>1, Invariance, PTL

\* The layers sent together are of one snapshot, evidence is only credited by
\* a build of the current static epoch, and no two builds run at once.
THEOREM OneBuild == Spec => []LayersAreOfOneBuild
<1>1. IInv => LayersAreOfOneBuild
  BY DEF IInv, LayersAreOfOneBuild, PublishedIsOneSnapshot,
         BundlesAreOfOneVersion, OneVersion, BuildIsRunning, OneBuildAtATime
<1> QED  BY <1>1, Invariance, PTL

\* Only consumeCleanMapRebuildResult and the replacement of the map install a
\* clean layer, and both install the one of the raw layer in place.
LEMMA InstallStep ==
    ASSUME [Next]_vars
    PROVE  [cleanVersion' # cleanVersion => cleanVersion' = rawVersion']_vars
<1> SUFFICES ASSUME Next, cleanVersion' # cleanVersion
             PROVE  cleanVersion' = rawVersion'
  OBVIOUS
<1>1. CASE Install
  BY <1>1 DEF Install, InstallAction
<1>2. CASE \E b \in {"reset", "load"} : ReplaceMap(b)
  BY <1>2 DEF ReplaceMap
<1>3. (Owner /\ ~Install) => cleanVersion' = cleanVersion
  BY DEF Owner, BeginMaintenanceTurn, BeginFrameTurn, NoLoopClosure,
         ExchangeReady, TakeResult, Discard, Credit, RunMapMaintenance,
         StartWhileRunning, StartSwapObservations, StartSnapshotAndLaunch,
         FinishFrame, mapVars
<1>4. Worker \/ Committer \/ Rebuilder => cleanVersion' = cleanVersion
  BY DEF Worker, WorkerStore, WorkerStopRunning, WorkerSetReady, Committer,
         CommitMapWrite, CommitObserve, Rebuilder, RebuildSwap,
         RebuildRequestClean, mapVars
<1>5. Publisher \/ FrameArrives \/ Timer => cleanVersion' = cleanVersion
  BY DEF Publisher, PublisherWake, PublisherCapture, PublisherPublish,
         FrameArrives, Timer, mapVars
<1>6. (ApplyLoopClosure \/ TimeRollback \/ RebuildMapService)
          => cleanVersion' = cleanVersion
  BY DEF ApplyLoopClosure, TimeRollback, RebuildMapService
<1> QED  BY <1>1, <1>2, <1>3, <1>4, <1>5, <1>6 DEF Next, Services

\* Only the publisher changes what was published, and the snapshot it holds
\* was sealed after that.
LEMMA PublishStep ==
    ASSUME IInv, [Next]_vars
    PROVE  [published' # published =>
               /\ published'.epoch >= published.epoch
               /\ \/ published'.generation > published.generation
                  \/ published' = [published EXCEPT !.epoch = published'.epoch]
           ]_vars
<1> SUFFICES ASSUME Next, published' # published
             PROVE  /\ published'.epoch >= published.epoch
                    /\ \/ published'.generation > published.generation
                       \/ published' =
                             [published EXCEPT !.epoch = published'.epoch]
  OBVIOUS
<1>1. CASE PublisherPublish
  <2>1. published' = pubSnapshot /\ NotOlder(pubSnapshot, published)
    BY <1>1 DEF PublisherPublish, IInv, PublishedInOrder
  <2>2. /\ pubSnapshot.epoch >= published.epoch
        /\ \/ pubSnapshot.generation > published.generation
           \/ pubSnapshot = [published EXCEPT !.epoch = pubSnapshot.epoch]
    BY <2>1 DEF NotOlder
  <2> QED  BY <2>1, <2>2
<1>2. Owner => published' = published
  BY DEF Owner, BeginMaintenanceTurn, BeginFrameTurn, NoLoopClosure,
         ExchangeReady, TakeResult, Discard, Install, Credit,
         RunMapMaintenance, StartWhileRunning, StartSwapObservations,
         StartSnapshotAndLaunch, FinishFrame, pubVars
<1>3. Worker \/ Committer \/ Rebuilder => published' = published
  BY DEF Worker, WorkerStore, WorkerStopRunning, WorkerSetReady, Committer,
         CommitMapWrite, CommitObserve, Rebuilder, RebuildSwap,
         RebuildRequestClean, pubVars
<1>4. PublisherWake \/ PublisherCapture \/ FrameArrives \/ Timer
          => published' = published
  BY DEF PublisherWake, PublisherCapture, FrameArrives, Timer, pubVars
<1>5. ApplyLoopClosure \/ TimeRollback \/ Services => published' = published
  BY DEF ApplyLoopClosure, TimeRollback, Services, ReplaceMap,
         RebuildMapService, pubVars
<1> QED  BY <1>1, <1>2, <1>3, <1>4, <1>5 DEF Next, Publisher

\* A clean layer is never installed over another raw layer than its own, and
\* neither the number nor the epoch of what is published goes back, although
\* builds and publications run outside every lock.
THEOREM Forward == Spec => LayersMoveForward
<1>1. Spec => NoStaleInstall
  BY InstallStep, PTL DEF Spec, NoStaleInstall
<1>2. Spec => PublishedNeverGoesBack
  BY Invariance, PublishStep, PTL DEF Spec, PublishedNeverGoesBack
<1> QED  BY <1>1, <1>2 DEF LayersMoveForward
=============================================================================
