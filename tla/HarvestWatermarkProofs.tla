----------------------- MODULE HarvestWatermarkProofs -----------------------
(***************************************************************************)
(* HarvestWatermark for every number of papers, versions, pages, rebuilds  *)
(* and faults: only the holder of the rebuild lock sets the watermark      *)
(* back; while papers are not revised and no operator rebuilds or ingests  *)
(* by hand, the ticks leave no gap below it; and a rebuild that ran to its *)
(* end has re-covered its window, with revisions, failures, other rebuilds *)
(* and manual ingests.                                                     *)
(***************************************************************************)
EXTENDS HarvestWatermark, FiniteSetTheorems, TLAPS

-----------------------------------------------------------------------------
(* The lock                                                                *)

\* Active(r): r is between acquire_rebuild_lock and its release.
Active(r) == rebuild[r] \in {"locked", "harvest"}

\* The inductive invariant of the lock: an active rebuild holds it, alone.
LockInv ==
    /\ lock \in BOOLEAN
    /\ rebuild \in [Rebuilders -> {"ready", "locked", "harvest", "done", "over"}]
    /\ watermark \in Nat
    /\ \A p \in Papers : stamp[p] \in Nat
    /\ \A r \in Rebuilders : Active(r) => lock
    /\ \A r, o \in Rebuilders : Active(r) /\ Active(o) => r = o
    /\ work.on => work.version \in Nat
    /\ \A j \in queue : j.version \in Nat /\ j.paper \in Papers

\* Initially no rebuild is active.
LEMMA LockInit == Init => LockInv
<1> SUFFICES ASSUME Init PROVE LockInv
  OBVIOUS
<1>1. /\ lock \in BOOLEAN
      /\ rebuild \in [Rebuilders -> {"ready", "locked", "harvest", "done", "over"}]
  BY DEF Init
<1>2. watermark \in Nat /\ \A p \in Papers : stamp[p] \in Nat
  BY DEF Init
<1>3. \A r \in Rebuilders : ~Active(r)
  BY DEF Init, Active
<1>4. ~work.on
  BY DEF Init, Idle
<1>5. queue = {}
  BY DEF Init
<1> QED
  BY <1>1, <1>2, <1>3, <1>4, <1>5 DEF LockInv

\* The larger of two numbers is a number at least as large as the first.
LEMMA HigherIsNat ==
  ASSUME NEW a \in Nat, NEW b \in Nat
  PROVE  Higher(a, b) \in Nat /\ Higher(a, b) >= a /\ Higher(a, b) >= b
         /\ Higher(a, b) \in {a, b}
BY DEF Higher

\* The part of the invariant a step keeps that touches neither lock nor rebuilds.
LEMMA LockUntouched ==
  ASSUME LockInv, UNCHANGED rebuilds, watermark' \in Nat,
         \A p \in Papers : stamp'[p] \in Nat,
         work'.on => work'.version \in Nat,
         \A j \in queue' : j.version \in Nat /\ j.paper \in Papers
  PROVE  LockInv'
BY DEF LockInv, Active, rebuilds

\* Publish gives a paper a numbered version.
LEMMA LockPublish ==
  ASSUME LockInv, NEW p \in Papers, NEW s \in Stamps, Publish(p, s)
  PROVE  LockInv'
<1>1. s \in Nat
  BY HarvestBounds DEF Stamps
<1>2. stamp' = [stamp EXCEPT ![p] = s] /\ UNCHANGED <<control, jobs, worker, rebuilds>>
  BY DEF Publish
<1>3. \A q \in Papers : stamp'[q] \in Nat
  BY <1>1, <1>2 DEF LockInv
<1> QED
  BY <1>2, <1>3, LockUntouched DEF LockInv, control, jobs, worker

\* The worker and its failures leave the lock alone.
LEMMA LockWorker ==
  ASSUME LockInv, Worker \/ Failures
  PROVE  LockInv'
<1>1. CASE StartTick
  BY <1>1, LockUntouched DEF StartTick, LockInv, arxiv, control, jobs
<1>2. CASE FetchPage \/ WalkCut
  <2>1. \A j \in queue' \ queue : \E p \in Papers : j = Incremental(p)
    BY <1>2 DEF FetchPage, WalkCut, Page, Listed
  <2>2. \A j \in queue' : j.version \in Nat /\ j.paper \in Papers
    BY <2>1 DEF LockInv, Incremental
  <2> QED
    BY <1>2, <2>2, LockUntouched DEF FetchPage, WalkCut, LockInv, arxiv, control
<1>3. CASE Index
  BY <1>3, LockUntouched DEF Index, LockInv, arxiv, jobs
<1>4. CASE Advance
  <2>1. watermark' \in Nat
    BY <1>4, HigherIsNat DEF Advance, advance_watermark, LockInv
  <2> QED
    BY <1>4, <2>1, LockUntouched DEF Advance, LockInv, arxiv, jobs
<1>5. CASE Ack \/ JobFails \/ JobReturns
  BY <1>5, LockUntouched DEF Ack, JobFails, JobReturns, LockInv, arxiv, control, jobs, Idle
<1>6. ASSUME NEW j \in queue, Receive(j)
      PROVE  LockInv'
  <2>1. VersionOf(j) \in Nat
    BY DEF VersionOf, LockInv
  <2>2. CASE Fence(j) \/ ShortCircuit(j)
    BY <2>2, LockUntouched DEF Fence, ShortCircuit, LockInv, arxiv, control, worker
  <2>3. CASE Claim(j)
    BY <2>1, <2>3, LockUntouched DEF Claim, LockInv, arxiv, jobs
  <2> QED
    BY <1>6, <2>2, <2>3 DEF Receive
<1>7. ASSUME NEW j \in queue, FetchFails(j)
      PROVE  LockInv'
  BY <1>7, LockUntouched DEF FetchFails, LockInv, arxiv, control, worker
<1> QED
  BY <1>1, <1>2, <1>3, <1>4, <1>5, <1>6, <1>7 DEF Worker, Failures

\* A rebuild's own steps: it takes the lock only when the row is absent.
LEMMA LockRebuild ==
  ASSUME LockInv, NEW r \in Rebuilders, RebuildGoesOn(r) \/ Abort(r) \/ Die(r)
  PROVE  LockInv'
<1> USE DEF LockInv, Active, Goto, arxiv, control, jobs, worker
<1>1. CASE AcquireLock(r)
  BY <1>1 DEF AcquireLock
<1>2. CASE Rejected(r)
  BY <1>2 DEF Rejected
<1>3. ASSUME NEW end \in Stamps, ResetWatermark(r, end)
      PROVE  LockInv'
  BY <1>3 DEF ResetWatermark
<1>4. CASE Harvest(r)
  <2>1. PICK p \in Papers : queue' = queue \cup {Seed(p, stamp[p])}
    BY <1>4 DEF Harvest, Unsent
  <2>2. \A j \in queue' : j.version \in Nat /\ j.paper \in Papers
    BY <2>1 DEF Seed
  <2> QED
    BY <1>4, <2>2 DEF Harvest
<1>5. CASE Finish(r)
  BY <1>5 DEF Finish
<1>6. CASE Abort(r)
  BY <1>6 DEF Abort
<1>7. CASE Die(r)
  BY <1>7 DEF Die
<1> QED
  BY <1>1, <1>2, <1>3, <1>4, <1>5, <1>6, <1>7 DEF RebuildGoesOn

\* ingest-one moves the watermark and no lock.
LEMMA LockIngestOne ==
  ASSUME LockInv, NEW p \in Papers, IngestOne(p)
  PROVE  LockInv'
<1>1. watermark' \in Nat
  BY HigherIsNat DEF IngestOne, advance_watermark, LockInv
<1> QED
  BY <1>1, LockUntouched DEF IngestOne, LockInv, arxiv, jobs, worker

\* Every step keeps the invariant of the lock.
LEMMA LockNext ==
  ASSUME LockInv, [Next]_vars
  PROVE  LockInv'
<1>1. CASE UNCHANGED vars
  BY <1>1 DEF LockInv, Active, vars, arxiv, control, jobs, worker, rebuilds
<1> QED
  BY <1>1, LockPublish, LockWorker, LockRebuild, LockIngestOne DEF Next

\* Only ResetWatermark, by the one active rebuild, lowers the watermark.
LEMMA BackStep ==
  ASSUME LockInv, [Next]_vars, watermark' < watermark
  PROVE  /\ lock
         /\ \E r \in Rebuilders :
              /\ rebuild[r] = "locked"
              /\ \A o \in Rebuilders \ {r} : rebuild[o] \notin {"locked", "harvest"}
<1>1. watermark' # watermark
  BY DEF LockInv
<1>2. ~UNCHANGED vars /\ ~(\E p \in Papers, s \in Stamps : Publish(p, s))
  BY <1>1 DEF vars, control, Publish
<1>3. ~(Worker \/ Failures)
  <2>1. ~Advance
    BY HigherIsNat DEF Advance, advance_watermark, LockInv
  <2>2. ~(StartTick \/ FetchPage \/ Index \/ Ack \/ Failures)
    BY <1>1 DEF StartTick, FetchPage, Index, Ack, Failures, WalkCut, FetchFails, JobFails, JobReturns,
                control
  <2>3. \A j \in queue : ~Receive(j)
    BY <1>1 DEF Receive, Fence, ShortCircuit, Claim, control
  <2> QED
    BY <2>1, <2>2, <2>3 DEF Worker, Failures
<1>4. ~(\E p \in Papers : IngestOne(p))
  BY HigherIsNat DEF IngestOne, advance_watermark, LockInv
<1>5. PICK r \in Rebuilders : RebuildGoesOn(r) \/ Abort(r) \/ Die(r)
  BY <1>2, <1>3, <1>4 DEF Next
<1>6. rebuild[r] = "locked"
  BY <1>1, <1>5 DEF RebuildGoesOn, AcquireLock, Rejected, ResetWatermark, Harvest, Finish,
     Abort, Die, control
<1> QED
  BY <1>6 DEF LockInv, Active

\* For any number of rebuilds, workers' failures and manual ingests, the
\* watermark falls only at the reset of the one rebuild that holds the lock.
THEOREM WatermarkIsGuarded == Spec => BackOnlyUnderLock
<1>1. Spec => []LockInv
  BY LockInit, LockNext, PTL DEF Spec
<1>2. LockInv /\ [Next]_vars =>
        [watermark' < watermark =>
           /\ lock
           /\ \E r \in Rebuilders :
                /\ rebuild[r] = "locked"
                /\ \A o \in Rebuilders \ {r} : rebuild[o] \notin {"locked", "harvest"}]_vars
  BY BackStep
<1> QED
  BY <1>1, <1>2, PTL DEF Spec, BackOnlyUnderLock

-----------------------------------------------------------------------------
(* The gap                                                                 *)

\* The setting of the theorem: ticks alone move the corpus along.
TicksOnly == ~Revised /\ Rebuilders = {} /\ MaxManual = 0

\* The shapes of the state, apart from the worker's.
Shapes ==
    /\ stamp \in [Papers -> Nat]
    /\ watermark \in Nat
    /\ queue \subseteq {Incremental(p) : p \in Papers}
    /\ dlq \in [Papers -> Nat]
    /\ \A p \in Papers : dlq[p] <= stamp[p]
    /\ manual = 0
    /\ lock = FALSE

\* Papers appear in their order, and watermarks are seconds that have passed.
Reached(w) == w = 0 \/ \E q \in Papers : stamp[q] >= w
Appearance ==
    /\ \A q, p \in Papers : q < p /\ stamp[p] > 0 => stamp[q] > 0
    /\ Reached(watermark)
    /\ walk.on => Reached(walk.since)

\* The ledger never runs ahead of arXiv.
LedgerShape ==
    /\ ledger \in [Papers -> [version : Nat, open : BOOLEAN]]
    /\ \A p \in Papers : ledger[p].version <= stamp[p]

\* The worker is at a job of the queue, at the current version of its paper,
\* and once it is past mark_ingested that version is indexed.
HasJob ==
    /\ work \in [on : {TRUE}, job : queue, version : Nat, step : Steps]
    /\ work.version = stamp[work.job.paper]
    /\ ledger[work.job.paper].version = work.version
    /\ work.step # "claimed" => Indexed(work.job.paper)
AtWork == work = Idle \/ HasJob

\* A walk began at a number and is at a page.
WalkShape == walk = Idle \/ walk \in [on : {TRUE}, since : Nat, page : Nat]

\* Everything that appeared before p is accounted for.
Before(p) == \A q \in Papers : stamp[q] > 0 /\ stamp[q] < stamp[p] => Accounted(q)

\* A paper is queued only once everything older is accounted for.
QueueInOrder == \A p \in Papers : Incremental(p) \in queue => stamp[p] > 0 /\ Before(p)

\* What a walk has behind it is accounted for: below its start, and its pages so far.
WalkInOrder ==
    walk.on => \A q \in Papers : stamp[q] > 0 =>
        /\ stamp[q] < walk.since => Accounted(q)
        /\ q \in Listed(walk.since) /\ Place(q, walk.since) < walk.page * PageSize => Accounted(q)

\* The records on the pages a walk has read, and that those pages were full: what
\* appears meanwhile comes after them.
Behind == {q \in Listed(walk.since) : Place(q, walk.since) < walk.page * PageSize}
PagesFull == walk.on => Cardinality(Behind) >= walk.page * PageSize

\* The inductive invariant behind NoGap.
GapInv ==
    /\ Shapes
    /\ Appearance
    /\ LedgerShape
    /\ AtWork
    /\ WalkShape
    /\ QueueInOrder
    /\ WalkInOrder
    /\ PagesFull
    /\ NoGap

\* Nothing is published, so nothing can be missing.
LEMMA GapInit == Init => GapInv
<1> SUFFICES ASSUME Init PROVE GapInv
  OBVIOUS
<1>1. Shapes
  BY DEF Init, Shapes
<1>2. LedgerShape
  BY DEF Init, LedgerShape
<1>3. work = Idle /\ walk = Idle /\ ~walk.on
  BY DEF Init, Idle
<1>4. \A p \in Papers : stamp[p] = 0
  BY DEF Init
<1>5. QueueInOrder /\ WalkInOrder /\ PagesFull /\ NoGap
  BY <1>3, <1>4 DEF Init, QueueInOrder, WalkInOrder, PagesFull, NoGap, Lost
<1>6. Appearance
  BY <1>3, <1>4 DEF Init, Appearance, Reached
<1> QED
  BY <1>1, <1>2, <1>3, <1>5, <1>6 DEF GapInv, AtWork, WalkShape

\* The listing and the places in it depend on the versions at arXiv alone.
LEMMA SamePlaces ==
  ASSUME stamp' = stamp
  PROVE  \A q \in Papers, s \in Nat : /\ (q \in Listed(s))' <=> q \in Listed(s)
                                      /\ Place(q, s)' = Place(q, s)
<1>1. \A s \in Nat : Listed(s)' = Listed(s)
  BY DEF Listed
<1>2. \A p, q \in Papers : Older(q, p)' <=> Older(q, p)
  BY DEF Older
<1>3. ASSUME NEW q \in Papers, NEW s \in Nat
      PROVE  {x \in Listed(s) : Older(x, q)}' = {x \in Listed(s) : Older(x, q)}
  <2>1. Listed(s) \subseteq Papers
    BY DEF Listed
  <2> QED
    BY <1>1, <1>2, <2>1
<1> QED
  BY <1>1, <1>3 DEF Place

\* A later second is in the same minute or a later one.
LEMMA MinutesInOrder ==
  ASSUME NEW m \in Nat \ {0}, NEW s \in Nat, NEW t \in Nat, s <= t
  PROVE  s \div m <= t \div m
<1> DEFINE a == s \div m
           b == t \div m
<1>1. /\ a \in Int /\ b \in Int
      /\ s = m * a + (s % m) /\ t = m * b + (t % m)
      /\ s % m \in 0..(m - 1) /\ t % m \in 0..(m - 1)
  BY SMT
<1> HIDE DEF a, b
<1>2. SUFFICES ASSUME a >= b + 1 PROVE FALSE
  BY <1>1 DEF a, b
<1>3. m * a >= m * (b + 1)
  BY <1>1, <1>2
<1>4. m * (b + 1) = m * b + m
  BY <1>1
<1> QED
  BY <1>1, <1>3, <1>4

\* An older record is at an earlier or the same place, and places are numbers.
LEMMA PlaceInOrder ==
  ASSUME Shapes, NEW p \in Papers, NEW q \in Papers, NEW s \in Nat,
         Older(q, p) \/ q = p
  PROVE  Place(q, s) \in Nat /\ Place(p, s) \in Nat /\ Place(q, s) <= Place(p, s)
<1> DEFINE Q == {x \in Listed(s) : Older(x, q)}
           P == {x \in Listed(s) : Older(x, p)}
<1>1. P \subseteq Papers /\ IsFiniteSet(Papers)
  BY HarvestBounds DEF Listed
<1>2. IsFiniteSet(P)
  BY <1>1, FS_Subset
<1>3. Q \subseteq P
  <2> SUFFICES ASSUME NEW x \in Q PROVE Older(x, p)
    OBVIOUS
  <2>1. x \in Papers /\ Older(x, q)
    BY DEF Listed
  <2>2. /\ stamp[x] \in Nat /\ stamp[q] \in Nat /\ stamp[p] \in Nat
        /\ x \in Nat /\ p \in Nat /\ q \in Nat
    BY <2>1, HarvestBounds DEF Shapes
  <2> QED
    BY <2>1, <2>2 DEF Older
<1>4. IsFiniteSet(Q) /\ Cardinality(Q) <= Cardinality(P)
  BY <1>2, <1>3, FS_Subset
<1>5. Cardinality(Q) \in Nat /\ Cardinality(P) \in Nat
  BY <1>2, <1>4, FS_CardinalityType
<1> QED
  BY <1>4, <1>5 DEF Place

\* A walk that is on has a start and a page, and a job in hand is a job of the queue.
LEMMA WalkFacts ==
  ASSUME WalkShape, walk.on
  PROVE  walk \in [on : {TRUE}, since : Nat, page : Nat] /\ walk.since \in Nat /\ walk.page \in Nat
<1>1. walk # Idle
  BY DEF Idle
<1> QED
  BY <1>1 DEF WalkShape

\* The worker's job, once more, without the idle case.
LEMMA WorkFacts ==
  ASSUME Shapes, AtWork, work.on
  PROVE  /\ work \in [on : {TRUE}, job : queue, version : Nat, step : Steps]
         /\ \E p \in Papers : work.job = Incremental(p) /\ work.job.paper = p
         /\ work.job \in queue
         /\ work.version = stamp[work.job.paper]
         /\ ledger[work.job.paper].version = work.version
         /\ work.step # "claimed" => Indexed(work.job.paper)
<1>1. work # Idle
  BY DEF Idle
<1>2. work \in [on : {TRUE}, job : queue, version : Nat, step : Steps]
  BY <1>1 DEF AtWork, HasJob
<1>3. work.job \in queue
  BY <1>2
<1>4. \E p \in Papers : work.job = Incremental(p) /\ work.job.paper = p
  BY <1>3 DEF Shapes, Incremental
<1> QED
  BY <1>1, <1>2, <1>3, <1>4 DEF AtWork, HasJob

\* What is behind a walk stays behind it while arXiv and the walk stand still.
LEMMA BehindKept ==
  ASSUME WalkShape, walk.on, stamp' = stamp, walk' = walk
  PROVE  Behind' = Behind
<1>1. walk.since \in Nat
  BY WalkFacts
<1>2. Listed(walk.since) \subseteq Papers /\ Listed(walk.since)' \subseteq Papers
  BY DEF Listed
<1>3. ASSUME NEW q \in Papers
      PROVE  q \in Behind' <=> q \in Behind
  <2>1. (q \in Listed(walk.since))' <=> q \in Listed(walk.since)
    BY DEF Listed
  <2>2. Place(q, walk.since)' = Place(q, walk.since)
    BY <1>1, SamePlaces
  <2> QED
    BY <2>1, <2>2 DEF Behind
<1> QED
  BY <1>2, <1>3 DEF Behind

\* A step that adds no job, leaves arXiv alone and forgets no paper keeps the order.
LEMMA OrderKept ==
  ASSUME GapInv, stamp' = stamp, watermark' = watermark, queue' \subseteq queue,
         walk' = walk,
         \A p \in Papers : Accounted(p) => Accounted(p)'
  PROVE  Appearance' /\ QueueInOrder' /\ WalkInOrder' /\ PagesFull' /\ NoGap'
<1>1. QueueInOrder'
  BY DEF GapInv, QueueInOrder, Before
<1>2. WalkInOrder'
  <2>1. walk.on => walk.since \in Nat
    BY WalkFacts DEF GapInv
  <2> QED
    BY <2>1, SamePlaces DEF GapInv, WalkInOrder
<1>3. NoGap'
  BY DEF GapInv, NoGap, Lost
<1>4. Appearance'
  BY DEF GapInv, Appearance, Reached
<1>5. PagesFull'
  BY BehindKept DEF GapInv, PagesFull
<1> QED
  BY <1>1, <1>2, <1>3, <1>4, <1>5

\* An idle worker has no job and no walk.
LEMMA NotBusy ==
  ASSUME GapInv, ~Busy
  PROVE  work = Idle /\ walk = Idle
<1>1. ~work.on /\ ~walk.on
  BY DEF Busy
<1>2. ~HasJob
  BY <1>1 DEF HasJob
<1>3. walk \notin [on : {TRUE}, since : Nat, page : Nat]
  BY <1>1
<1> QED
  BY <1>2, <1>3 DEF GapInv, AtWork, WalkShape

\* StartTick: what is below the watermark is accounted for already.
LEMMA GapStartTick ==
  ASSUME GapInv, StartTick
  PROVE  GapInv'
<1>1. /\ walk' = [on |-> TRUE, since |-> watermark, page |-> 0]
      /\ UNCHANGED <<stamp, watermark, ledger, queue, dlq, work, manual, lock>>
  BY DEF StartTick, arxiv, control, jobs, rebuilds, counts
<1>2. Shapes' /\ LedgerShape'
  BY <1>1 DEF GapInv, Shapes, LedgerShape
<1>3. \A p \in Papers : Accounted(p)' <=> Accounted(p)
  BY <1>1 DEF Accounted, Indexed
<1>4. AtWork'
  BY <1>1 DEF GapInv, AtWork, HasJob, Indexed, Idle
<1>5. WalkShape' /\ walk'.since = watermark /\ walk'.page = 0
  BY <1>1 DEF GapInv, Shapes, WalkShape
<1>6. QueueInOrder' /\ NoGap'
  BY <1>1, <1>3 DEF GapInv, QueueInOrder, Before, NoGap, Lost
<1>7. WalkInOrder'
  <2>1. PageSize \in Nat
    BY HarvestBounds
  <2>2. \A q \in Papers : Place(q, watermark) \in Nat /\ Place(q, watermark)' = Place(q, watermark)
    BY <1>1, PlaceInOrder, SamePlaces DEF GapInv, Shapes
  <2>3. \A q \in Papers : ~(Place(q, walk.since) < walk.page * PageSize)'
    BY <1>1, <1>5, <2>1, <2>2
  <2> QED
    BY <1>1, <1>3, <1>5, <2>3 DEF GapInv, WalkInOrder, NoGap, Lost
<1>8. Appearance'
  BY <1>1, <1>5 DEF GapInv, Appearance, Reached
<1>9. PagesFull'
  <2>1. IsFiniteSet(Behind')
    BY HarvestBounds, FS_Subset DEF Behind, Listed
  <2>2. Cardinality(Behind') \in Nat /\ PageSize \in Nat
    BY <2>1, FS_CardinalityType, HarvestBounds
  <2> QED
    BY <1>5, <2>2 DEF PagesFull
<1> QED
  BY <1>2, <1>4, <1>5, <1>6, <1>7, <1>8, <1>9 DEF GapInv

\* Publish: a new paper comes last, so nothing in the queue or behind the walk moves.
LEMMA GapPublish ==
  ASSUME TicksOnly, GapInv, NEW p \in Papers, NEW s \in Stamps, Publish(p, s)
  PROVE  GapInv'
<1>1. /\ s \in Nat /\ s > 0 /\ stamp[p] = 0
      /\ \A q \in Papers : stamp[q] <= s
      /\ \A q \in Papers : q < p => stamp[q] > 0
      /\ stamp' = [stamp EXCEPT ![p] = s]
      /\ UNCHANGED <<watermark, ledger, queue, dlq, work, walk, manual, lock>>
  BY HarvestBounds DEF TicksOnly, GapInv, Shapes, Publish, Stamps, control, jobs, worker,
     rebuilds, counts
<1>2. /\ stamp'[p] = s
      /\ \A q \in Papers : q # p => stamp'[q] = stamp[q]
      /\ \A q \in Papers : stamp[q] \in Nat /\ stamp'[q] \in Nat /\ q \in Nat
      /\ \A q \in Papers : stamp[q] <= stamp'[q]
  BY <1>1, HarvestBounds DEF GapInv, Shapes
<1>3. Shapes' /\ LedgerShape'
  <2>1. Shapes'
    BY <1>1, <1>2 DEF GapInv, Shapes
  <2>2. \A q \in Papers : ledger[q].version \in Nat
    BY DEF GapInv, LedgerShape
  <2>3. \A q \in Papers : ledger[q].version <= stamp'[q]
    BY <1>2, <2>2 DEF GapInv, LedgerShape
  <2> QED
    BY <1>1, <2>1, <2>3 DEF GapInv, LedgerShape
<1>4. \A q \in Papers : q # p => (Accounted(q)' <=> Accounted(q)) /\ (Indexed(q)' <=> Indexed(q))
  BY <1>1, <1>2 DEF Accounted, Indexed
<1>5. Incremental(p) \notin queue
  BY <1>1 DEF GapInv, QueueInOrder
<1>6. AtWork'
  <2>1. ASSUME work.on PROVE work.job.paper \in Papers \ {p}
    BY <1>5, <2>1, WorkFacts DEF GapInv
  <2>2. CASE work = Idle
    <3>1. work' = Idle'
      BY <1>1, <2>2 DEF Idle
    <3> QED
      BY <3>1 DEF AtWork
  <2>3. CASE work # Idle
    <3>1. work \in [on : {TRUE}, job : queue, version : Nat, step : Steps]
      BY <2>3 DEF GapInv, AtWork, HasJob
    <3>2. work.on
      BY <3>1
    <3>3. /\ work.version = stamp[work.job.paper]
          /\ ledger[work.job.paper].version = work.version
          /\ work.step # "claimed" => Indexed(work.job.paper)
      BY <3>2, WorkFacts DEF GapInv
    <3>4. (work.version = stamp[work.job.paper])'
      BY <1>1, <1>2, <2>1, <3>2, <3>3
    <3>5. (work.step # "claimed" => Indexed(work.job.paper))'
      BY <1>1, <1>4, <2>1, <3>2, <3>3
    <3>6. (work \in [on : {TRUE}, job : queue, version : Nat, step : Steps])'
      BY <1>1, <3>1
    <3>7. (ledger[work.job.paper].version = work.version)'
      BY <1>1, <3>3
    <3> QED
      BY <3>4, <3>5, <3>6, <3>7 DEF AtWork, HasJob
  <2> QED
    BY <2>2, <2>3
<1>13. WalkShape'
  BY <1>1 DEF GapInv, WalkShape, Idle
<1>7. QueueInOrder'
  BY <1>1, <1>2, <1>4, <1>5 DEF GapInv, QueueInOrder, Before
<1>8. watermark <= s /\ (walk.on => walk.since <= s)
  <2>1. watermark \in Nat /\ (walk.on => walk.since \in Nat)
    BY WalkFacts DEF GapInv, Shapes
  <2> QED
    BY <1>1, <1>2, <2>1 DEF GapInv, Appearance, Reached
<1>9. NoGap'
  <2>1. ~Lost(p)'
    BY <1>1, <1>2, <1>8 DEF GapInv, Shapes, Lost
  <2>2. \A q \in Papers : q # p => ~Lost(q)'
    BY <1>1, <1>2, <1>4 DEF GapInv, NoGap, Lost
  <2> QED
    BY <2>1, <2>2 DEF NoGap
<1>10. Appearance'
  <2>1. ASSUME NEW q \in Papers, NEW r \in Papers, q < r, stamp'[r] > 0
        PROVE  stamp'[q] > 0
    <3>1. stamp[q] > 0
      BY <1>1, <1>2, <2>1 DEF GapInv, Appearance
    <3> QED
      BY <1>2, <3>1
  <2>2. ASSUME NEW w \in Nat, Reached(w)
        PROVE  w = 0 \/ \E q \in Papers : stamp'[q] >= w
    BY <1>2, <2>2 DEF Reached
  <2>3. watermark \in Nat /\ (walk.on => walk.since \in Nat)
    BY WalkFacts DEF GapInv, Shapes
  <2>4. Reached(watermark)' /\ (walk.on => Reached(walk.since))'
    BY <1>1, <2>2, <2>3 DEF GapInv, Appearance, Reached
  <2> QED
    BY <2>1, <2>4 DEF Appearance
<1>11. ASSUME walk.on
       PROVE  WalkInOrder' /\ PagesFull'
  <2> DEFINE w == walk.since
             top == walk.page * PageSize
  <2>1. w \in Nat /\ top \in Nat
    BY <1>11, WalkFacts, HarvestBounds DEF GapInv
  <2>2. \A q \in Papers : stamp[q] > 0 => ~Older(p, q)'
    BY <1>1, <1>2 DEF GapInv, Appearance, Older
  <2>3. ASSUME NEW q \in Papers, stamp[q] > 0
        PROVE  Place(q, w)' = Place(q, w) /\ ((q \in Listed(w))' <=> q \in Listed(w))
    <3>1. q # p
      BY <1>1, <2>3
    <3>2. \A x \in Papers : x # p => ((x \in Listed(w))' <=> x \in Listed(w))
                                     /\ (Older(x, q)' <=> Older(x, q))
      BY <1>1, <1>2, <3>1 DEF Listed, Older
    <3>3. p \notin Listed(w) /\ ~Older(p, q)'
      BY <1>1, <2>2, <2>3 DEF Listed
    <3>4. {x \in Listed(w) : Older(x, q)}' = {x \in Listed(w) : Older(x, q)}
      <4>1. \A x \in Papers : x \in {y \in Listed(w) : Older(y, q)}'
                                <=> x \in {y \in Listed(w) : Older(y, q)}
        BY <3>2, <3>3
      <4>2. {y \in Listed(w) : Older(y, q)}' \subseteq Papers
            /\ {y \in Listed(w) : Older(y, q)} \subseteq Papers
        BY DEF Listed
      <4> QED
        BY <4>1, <4>2
    <3> QED
      BY <3>1, <3>2, <3>4 DEF Place
  <2>4. Behind \subseteq Papers /\ IsFiniteSet(Papers) /\ IsFiniteSet(Behind)
    BY HarvestBounds, FS_Subset DEF Behind, Listed
  <2>5. Behind \subseteq {x \in Listed(w) : Older(x, p)}'
    <3> SUFFICES ASSUME NEW q \in Behind PROVE (q \in Listed(w))' /\ Older(q, p)'
      BY <1>1
    <3>1. q \in Papers /\ stamp[q] > 0 /\ q \in Listed(w)
      BY DEF Behind, Listed
    <3>2. q # p /\ (q < p \/ p < q)
      BY <1>1, <1>2, <3>1
    <3>3. q < p \/ stamp[q] < s
      BY <1>1, <1>2, <3>1, <3>2 DEF GapInv, Appearance
    <3> QED
      BY <1>1, <1>2, <2>3, <3>1, <3>2, <3>3 DEF Older
  <2>6. top <= Place(p, w)' /\ Place(p, w)' \in Nat
    <3> DEFINE older == {x \in Listed(w) : Older(x, p)}'
    <3>1. older \subseteq Papers
      BY DEF Listed
    <3>2. IsFiniteSet(older) /\ Cardinality(Behind) <= Cardinality(older)
          /\ Cardinality(older) \in Nat /\ Cardinality(Behind) \in Nat
      BY <2>4, <2>5, <3>1, FS_Subset, FS_CardinalityType
    <3>3. Cardinality(Behind) >= top
      BY <1>11 DEF GapInv, PagesFull
    <3>4. Place(p, w)' = Cardinality(older)
      BY DEF Place
    <3> QED
      BY <2>1, <3>2, <3>3, <3>4
  <2>7. WalkInOrder'
    <3> SUFFICES ASSUME NEW q \in Papers, stamp'[q] > 0
                 PROVE  /\ stamp'[q] < w => Accounted(q)'
                        /\ (q \in Listed(w))' /\ Place(q, w)' < top => Accounted(q)'
      BY <1>1 DEF WalkInOrder
    <3>1. CASE q = p
      BY <1>2, <1>8, <1>11, <2>1, <2>6, <3>1
    <3>2. CASE q # p
      BY <1>2, <1>4, <1>11, <2>3, <3>2 DEF GapInv, WalkInOrder
    <3> QED
      BY <3>1, <3>2
  <2>8. Behind' = Behind
    <3>1. \A q \in Papers : q \in Behind' <=> q \in Behind
      <4> SUFFICES ASSUME NEW q \in Papers PROVE q \in Behind' <=> q \in Behind
        OBVIOUS
      <4>1. CASE q = p
        <5>1. p \notin Behind
          BY <1>1 DEF Behind, Listed
        <5>2. p \notin Behind'
          BY <1>1, <2>1, <2>6 DEF Behind
        <5> QED
          BY <4>1, <5>1, <5>2
      <4>2. CASE q # p /\ stamp[q] > 0
        BY <1>1, <2>3, <4>2 DEF Behind
      <4>3. CASE q # p /\ ~(stamp[q] > 0)
        BY <1>2, <4>3 DEF Behind, Listed
      <4> QED
        BY <4>1, <4>2, <4>3
    <3>2. Behind' \subseteq Papers
      BY DEF Behind, Listed
    <3> QED
      BY <2>4, <3>1, <3>2
  <2> QED
    BY <1>1, <2>7, <2>8 DEF GapInv, PagesFull
<1>12. ASSUME ~walk.on
       PROVE  WalkInOrder' /\ PagesFull'
  BY <1>1, <1>12 DEF WalkInOrder, PagesFull
<1> QED
  BY <1>3, <1>6, <1>7, <1>9, <1>10, <1>11, <1>12, <1>13 DEF GapInv

\* Acknowledging p's job forgets nothing when p is indexed or in the DLQ.
LEMMA AckKeeps ==
  ASSUME NEW p \in Papers, stamp' = stamp,
         \A q \in Papers : Incremental(q) \in queue /\ q # p => Incremental(q) \in queue',
         \A q \in Papers, v \in Nat : Seed(q, v) \notin queue,
         \A q \in Papers : stamp[q] \in Nat,
         \A q \in Papers : Indexed(q) => Indexed(q)',
         \A q \in Papers : dlq[q] = stamp[q] => dlq'[q] = stamp[q],
         Incremental(p) \in queue' \/ Indexed(p)' \/ dlq'[p] = stamp[p]
  PROVE  \A q \in Papers : Accounted(q) => Accounted(q)'
BY DEF Accounted

\* Without rebuilds the queue holds no seeds.
LEMMA NoSeeds ==
  ASSUME Shapes
  PROVE  \A q \in Papers, v \in Nat : Seed(q, v) \notin queue
BY DEF Shapes, Seed, Incremental

\* Two papers have two jobs.
LEMMA JobsDiffer ==
  \A p, q : Incremental(p) = Incremental(q) => p = q
BY DEF Incremental

\* ShortCircuit: what the ledger knows at the current version is indexed.
LEMMA GapShortCircuit ==
  ASSUME GapInv, NEW j \in queue, ShortCircuit(j)
  PROVE  GapInv'
<1>1. PICK p \in Papers : j = Incremental(p)
  BY DEF GapInv, Shapes
<1>2. /\ queue' = queue \ {j}
      /\ UNCHANGED <<stamp, watermark, ledger, dlq, work, walk, manual, lock>>
  BY DEF ShortCircuit, arxiv, control, worker, rebuilds, counts
<1>3. VersionOf(j) = stamp[p] /\ j.paper = p
  BY <1>1 DEF VersionOf, Incremental
<1>4. Indexed(p)
  <2>1. stamp[p] \in Nat /\ ledger[p].version \in Nat /\ ledger[p].version <= stamp[p]
    BY DEF GapInv, Shapes, LedgerShape
  <2>2. ~(stamp[p] < ledger[p].version)
    BY <2>1
  <2> QED
    BY <1>3, <2>2 DEF ShortCircuit, Known, Indexed
<1>5. \A q \in Papers : Indexed(q)' <=> Indexed(q)
  BY <1>2 DEF Indexed
<1>6. \A q \in Papers : Accounted(q) => Accounted(q)'
  <2>1. \A q \in Papers : Incremental(q) \in queue /\ q # p => Incremental(q) \in queue'
    BY <1>1, <1>2, JobsDiffer
  <2>2. \A q \in Papers : stamp[q] \in Nat
    BY DEF GapInv, Shapes
  <2>3. \A q \in Papers, v \in Nat : Seed(q, v) \notin queue
    BY NoSeeds DEF GapInv
  <2> QED
    BY <1>2, <1>4, <1>5, <2>1, <2>2, <2>3, AckKeeps
<1>7. Appearance' /\ QueueInOrder' /\ WalkInOrder' /\ PagesFull' /\ NoGap'
  BY <1>2, <1>6, OrderKept
<1>8. Shapes' /\ LedgerShape' /\ WalkShape'
  BY <1>2 DEF GapInv, Shapes, LedgerShape, WalkShape, Idle
<1>9. AtWork'
  <2>1. work = Idle
    BY NotBusy DEF ShortCircuit
  <2> QED
    BY <1>2, <2>1 DEF AtWork, Idle
<1> QED
  BY <1>7, <1>8, <1>9 DEF GapInv

\* Claim: the version it opens was not indexed, and its job stays queued.
LEMMA GapClaim ==
  ASSUME GapInv, NEW j \in queue, Claim(j)
  PROVE  GapInv'
<1>1. PICK p \in Papers : j = Incremental(p)
  BY DEF GapInv, Shapes
<1>2. VersionOf(j) = stamp[p] /\ j.paper = p
  BY <1>1 DEF VersionOf, Incremental
<1>3. /\ ledger' = [ledger EXCEPT ![p] = [version |-> stamp[p], open |-> TRUE]]
      /\ work' = [on |-> TRUE, job |-> j, version |-> stamp[p], step |-> "claimed"]
      /\ UNCHANGED <<stamp, watermark, queue, dlq, walk, manual, lock>>
  BY <1>2 DEF Claim, arxiv, jobs, rebuilds, counts
<1>4. stamp[p] \in Nat /\ \A q \in Papers : stamp[q] \in Nat /\ ledger[q].version \in Nat
  BY DEF GapInv, Shapes, LedgerShape
<1>5. ~Indexed(p)
  BY <1>2 DEF Claim, Known, Indexed
<1>6. /\ ledger'[p].version = stamp[p]
      /\ \A q \in Papers : q # p => ledger'[q] = ledger[q]
  BY <1>3 DEF GapInv, LedgerShape
<1>7. \A q \in Papers : Indexed(q) => Indexed(q)'
  BY <1>3, <1>5, <1>6 DEF Indexed
<1>8. \A q \in Papers : Accounted(q) => Accounted(q)'
  BY <1>3, <1>7 DEF Accounted
<1>9. Appearance' /\ QueueInOrder' /\ WalkInOrder' /\ PagesFull' /\ NoGap'
  BY <1>3, <1>8, OrderKept
<1>10. Shapes' /\ WalkShape'
  BY <1>3 DEF GapInv, Shapes, WalkShape, Idle
<1>11. LedgerShape'
  <2>1. ledger' \in [Papers -> [version : Nat, open : BOOLEAN]]
    BY <1>3, <1>4 DEF GapInv, LedgerShape
  <2>2. \A q \in Papers : ledger'[q].version <= stamp'[q]
    BY <1>3, <1>4, <1>6 DEF GapInv, LedgerShape
  <2> QED
    BY <2>1, <2>2 DEF LedgerShape
<1>12. AtWork'
  <2>1. (work \in [on : {TRUE}, job : queue, version : Nat, step : Steps])'
    BY <1>3, <1>4 DEF Steps
  <2>2. work'.job.paper = p /\ work'.version = stamp[p] /\ work'.step = "claimed"
    BY <1>2, <1>3
  <2> QED
    BY <1>3, <1>6, <2>1, <2>2 DEF AtWork, HasJob
<1> QED
  BY <1>9, <1>10, <1>11, <1>12 DEF GapInv

\* Index: mark_ingested closes the claim at the current version.
LEMMA GapIndex ==
  ASSUME GapInv, Index
  PROVE  GapInv'
<1>1. work.on
  BY DEF Index
<1>2. /\ work \in [on : {TRUE}, job : queue, version : Nat, step : Steps]
      /\ \E p \in Papers : work.job = Incremental(p) /\ work.job.paper = p
      /\ work.job \in queue
      /\ work.version = stamp[work.job.paper]
      /\ ledger[work.job.paper].version = work.version
  BY <1>1, WorkFacts DEF GapInv
<1>3. PICK p \in Papers : work.job = Incremental(p) /\ work.job.paper = p
  BY <1>2
<1>4. /\ ledger' = [ledger EXCEPT ![p].open = @ /\ ledger[p].version # work.version]
      /\ work' = [work EXCEPT !.step = "indexed"]
      /\ UNCHANGED <<stamp, watermark, queue, dlq, walk, manual, lock>>
  BY <1>3 DEF Index, arxiv, jobs, rebuilds, counts
<1>5. /\ ledger'[p].version = ledger[p].version
      /\ ~ledger'[p].open
      /\ \A q \in Papers : q # p => ledger'[q] = ledger[q]
  BY <1>2, <1>3, <1>4 DEF GapInv, LedgerShape
<1>6. Indexed(p)'
  BY <1>2, <1>3, <1>4, <1>5 DEF Indexed
<1>7. \A q \in Papers : Indexed(q) => Indexed(q)'
  BY <1>4, <1>5, <1>6 DEF Indexed
<1>8. \A q \in Papers : Accounted(q) => Accounted(q)'
  BY <1>4, <1>7 DEF Accounted
<1>9. Appearance' /\ QueueInOrder' /\ WalkInOrder' /\ PagesFull' /\ NoGap'
  BY <1>4, <1>8, OrderKept
<1>10. Shapes' /\ WalkShape'
  BY <1>4 DEF GapInv, Shapes, WalkShape, Idle
<1>11. LedgerShape'
  <2>1. ledger' \in [Papers -> [version : Nat, open : BOOLEAN]]
    BY <1>4 DEF GapInv, LedgerShape
  <2>2. \A q \in Papers : ledger'[q].version = ledger[q].version
    BY <1>5
  <2> QED
    BY <1>4, <2>1, <2>2 DEF GapInv, LedgerShape
<1>12. AtWork'
  <2>1. (work \in [on : {TRUE}, job : queue, version : Nat, step : Steps])'
    BY <1>2, <1>4 DEF Steps
  <2>2. work'.job = work.job /\ work'.version = work.version
    BY <1>2, <1>4
  <2> QED
    BY <1>2, <1>3, <1>4, <1>5, <1>6, <2>1, <2>2 DEF AtWork, HasJob
<1> QED
  BY <1>9, <1>10, <1>11, <1>12 DEF GapInv

\* Advance: everything older than the indexed paper was accounted for when it was
\* queued, so the watermark may pass it.
LEMMA GapAdvance ==
  ASSUME GapInv, Advance
  PROVE  GapInv'
<1>1. work.on /\ work.step = "indexed"
  BY DEF Advance
<1>2. PICK p \in Papers : work.job = Incremental(p) /\ work.job.paper = p
  BY <1>1, WorkFacts DEF GapInv
<1>3. /\ work \in [on : {TRUE}, job : queue, version : Nat, step : Steps]
      /\ work.job \in queue /\ work.version = stamp[p] /\ Indexed(p)
      /\ ledger[p].version = work.version
  BY <1>1, <1>2, WorkFacts DEF GapInv
<1>4. /\ watermark' = Higher(watermark, stamp[p])
      /\ work' = [work EXCEPT !.step = "advanced"]
      /\ UNCHANGED <<stamp, ledger, queue, dlq, walk, manual, lock>>
  BY <1>3 DEF Advance, advance_watermark, arxiv, jobs, rebuilds, counts
<1>5. \A q \in Papers : stamp[q] \in Nat
  BY DEF GapInv, Shapes
<1>6. watermark \in Nat /\ watermark' \in {watermark, stamp[p]} /\ watermark' \in Nat
  BY <1>4, <1>5, HigherIsNat DEF GapInv, Shapes
<1>7. \A q \in Papers : Indexed(q)' <=> Indexed(q)
  BY <1>4 DEF Indexed
<1>8. \A q \in Papers : Accounted(q) => Accounted(q)'
  BY <1>4, <1>7 DEF Accounted
<1>9. NoGap'
  <2> SUFFICES ASSUME NEW q \in Papers, stamp[q] > 0, stamp[q] < watermark'
               PROVE  Accounted(q)'
    BY <1>4 DEF NoGap, Lost
  <2>1. CASE watermark' = watermark
    BY <1>8, <2>1 DEF GapInv, NoGap, Lost
  <2>2. CASE watermark' = stamp[p]
    BY <1>2, <1>3, <1>8, <2>2 DEF GapInv, QueueInOrder, Before
  <2> QED
    BY <1>6, <2>1, <2>2
<1>10. QueueInOrder'
  BY <1>4, <1>8 DEF GapInv, QueueInOrder, Before
<1>11. WalkInOrder'
  <2>1. walk.on => walk.since \in Nat
    BY WalkFacts DEF GapInv
  <2> QED
    BY <1>4, <1>8, <2>1, SamePlaces DEF GapInv, WalkInOrder
<1>12. PagesFull'
  BY <1>4, BehindKept DEF GapInv, PagesFull
<1>13. Appearance'
  <2>1. Reached(watermark)'
    BY <1>4, <1>5, <1>6 DEF GapInv, Appearance, Reached
  <2> QED
    BY <1>4, <2>1 DEF GapInv, Appearance, Reached
<1>14. Shapes' /\ LedgerShape' /\ WalkShape'
  BY <1>4, <1>6 DEF GapInv, Shapes, LedgerShape, WalkShape, Idle
<1>15. AtWork'
  <2>1. (work \in [on : {TRUE}, job : queue, version : Nat, step : Steps])'
    BY <1>3, <1>4 DEF Steps
  <2>2. work'.job = work.job /\ work'.version = work.version
    BY <1>3, <1>4
  <2> QED
    BY <1>2, <1>3, <1>4, <1>7, <2>1, <2>2 DEF AtWork, HasJob
<1> QED
  BY <1>9, <1>10, <1>11, <1>12, <1>13, <1>14, <1>15 DEF GapInv

\* Ack: the paper of the job that leaves the queue is indexed.
LEMMA GapAck ==
  ASSUME GapInv, Ack
  PROVE  GapInv'
<1>1. work.on /\ work.step # "claimed"
  BY DEF Ack
<1>2. PICK p \in Papers : work.job = Incremental(p) /\ work.job.paper = p
  BY <1>1, WorkFacts DEF GapInv
<1>3. Indexed(p)
  BY <1>1, <1>2, WorkFacts DEF GapInv
<1>4. /\ queue' = queue \ {work.job}
      /\ work' = Idle
      /\ UNCHANGED <<stamp, watermark, ledger, dlq, walk, manual, lock>>
  BY DEF Ack, arxiv, control, rebuilds, counts
<1>5. \A q \in Papers : Indexed(q)' <=> Indexed(q)
  BY <1>4 DEF Indexed
<1>6. \A q \in Papers : Accounted(q) => Accounted(q)'
  <2>1. \A q \in Papers : Incremental(q) \in queue /\ q # p => Incremental(q) \in queue'
    BY <1>2, <1>4, JobsDiffer
  <2>2. \A q \in Papers : stamp[q] \in Nat
    BY DEF GapInv, Shapes
  <2>3. \A q \in Papers, v \in Nat : Seed(q, v) \notin queue
    BY NoSeeds DEF GapInv
  <2> QED
    BY <1>3, <1>4, <1>5, <2>1, <2>2, <2>3, AckKeeps
<1>7. Appearance' /\ QueueInOrder' /\ WalkInOrder' /\ PagesFull' /\ NoGap'
  BY <1>4, <1>6, OrderKept
<1>8. Shapes' /\ LedgerShape' /\ WalkShape'
  BY <1>4 DEF GapInv, Shapes, LedgerShape, WalkShape, Idle
<1>9. AtWork'
  BY <1>4 DEF AtWork, Idle
<1> QED
  BY <1>7, <1>8, <1>9 DEF GapInv

\* JobFails: the DLQ accounts for the paper.
LEMMA GapJobFails ==
  ASSUME GapInv, JobFails
  PROVE  GapInv'
<1>1. work.on
  BY DEF JobFails
<1>2. PICK p \in Papers : work.job = Incremental(p) /\ work.job.paper = p
  BY <1>1, WorkFacts DEF GapInv
<1>3. work.version = stamp[p]
  BY <1>1, <1>2, WorkFacts DEF GapInv
<1>4. /\ dlq' = [dlq EXCEPT ![p] = Higher(@, stamp[p])]
      /\ queue' = queue \ {work.job}
      /\ work' = Idle
      /\ UNCHANGED <<stamp, watermark, ledger, walk, manual, lock>>
  BY <1>2, <1>3 DEF JobFails, arxiv, control, rebuilds
<1>5. \A q \in Papers : stamp[q] \in Nat /\ dlq[q] \in Nat /\ dlq[q] <= stamp[q]
  BY DEF GapInv, Shapes
<1>6. Higher(dlq[p], stamp[p]) = stamp[p]
  BY <1>5 DEF Higher
<1>7. dlq' \in [Papers -> Nat] /\ dlq'[p] = stamp[p] /\ \A q \in Papers : q # p => dlq'[q] = dlq[q]
  BY <1>4, <1>5, <1>6 DEF GapInv, Shapes
<1>8. \A q \in Papers : Indexed(q)' <=> Indexed(q)
  BY <1>4 DEF Indexed
<1>9. \A q \in Papers : Accounted(q) => Accounted(q)'
  <2>1. \A q \in Papers : Incremental(q) \in queue /\ q # p => Incremental(q) \in queue'
    BY <1>2, <1>4, JobsDiffer
  <2>2. \A q \in Papers, v \in Nat : Seed(q, v) \notin queue
    BY NoSeeds DEF GapInv
  <2>3. \A q \in Papers : dlq[q] = stamp[q] => dlq'[q] = stamp[q]
    BY <1>7
  <2> QED
    BY <1>4, <1>5, <1>7, <1>8, <2>1, <2>2, <2>3, AckKeeps
<1>10. Appearance' /\ QueueInOrder' /\ WalkInOrder' /\ PagesFull' /\ NoGap'
  BY <1>4, <1>9, OrderKept
<1>11. Shapes'
  BY <1>4, <1>5, <1>7 DEF GapInv, Shapes
<1>12. LedgerShape' /\ WalkShape' /\ AtWork'
  BY <1>4 DEF GapInv, LedgerShape, WalkShape, AtWork, Idle
<1> QED
  BY <1>10, <1>11, <1>12 DEF GapInv

\* FetchFails: the DLQ accounts for a paper that was not even claimed.
LEMMA GapFetchFails ==
  ASSUME GapInv, NEW j \in queue, FetchFails(j)
  PROVE  GapInv'
<1>1. PICK p \in Papers : j = Incremental(p)
  BY DEF GapInv, Shapes
<1>2. VersionOf(j) = stamp[p] /\ j.paper = p
  BY <1>1 DEF VersionOf, Incremental
<1>3. /\ dlq' = [dlq EXCEPT ![p] = Higher(@, stamp[p])]
      /\ queue' = queue \ {j}
      /\ UNCHANGED <<stamp, watermark, ledger, work, walk, manual, lock>>
  BY <1>2 DEF FetchFails, arxiv, control, worker, rebuilds
<1>4. \A q \in Papers : stamp[q] \in Nat /\ dlq[q] \in Nat /\ dlq[q] <= stamp[q]
  BY DEF GapInv, Shapes
<1>5. Higher(dlq[p], stamp[p]) = stamp[p]
  BY <1>4 DEF Higher
<1>6. dlq' \in [Papers -> Nat] /\ dlq'[p] = stamp[p] /\ \A q \in Papers : q # p => dlq'[q] = dlq[q]
  BY <1>3, <1>4, <1>5 DEF GapInv, Shapes
<1>7. \A q \in Papers : Indexed(q)' <=> Indexed(q)
  BY <1>3 DEF Indexed
<1>8. \A q \in Papers : Accounted(q) => Accounted(q)'
  <2>1. \A q \in Papers : Incremental(q) \in queue /\ q # p => Incremental(q) \in queue'
    BY <1>1, <1>3, JobsDiffer
  <2>2. \A q \in Papers, v \in Nat : Seed(q, v) \notin queue
    BY NoSeeds DEF GapInv
  <2>3. \A q \in Papers : dlq[q] = stamp[q] => dlq'[q] = stamp[q]
    BY <1>6
  <2> QED
    BY <1>3, <1>4, <1>6, <1>7, <2>1, <2>2, <2>3, AckKeeps
<1>9. Appearance' /\ QueueInOrder' /\ WalkInOrder' /\ PagesFull' /\ NoGap'
  BY <1>3, <1>8, OrderKept
<1>10. Shapes'
  BY <1>3, <1>4, <1>6 DEF GapInv, Shapes
<1>11. LedgerShape' /\ WalkShape'
  BY <1>3 DEF GapInv, LedgerShape, WalkShape, Idle
<1>12. AtWork'
  <2>1. work = Idle
    BY NotBusy DEF FetchFails
  <2> QED
    BY <1>3, <2>1 DEF AtWork, Idle
<1> QED
  BY <1>9, <1>10, <1>11, <1>12 DEF GapInv

\* JobReturns: the message is still there.
LEMMA GapJobReturns ==
  ASSUME GapInv, JobReturns
  PROVE  GapInv'
<1>1. work' = Idle /\ UNCHANGED <<stamp, watermark, ledger, queue, dlq, walk, manual, lock>>
  BY DEF JobReturns, arxiv, control, jobs, rebuilds
<1>2. \A q \in Papers : Accounted(q)' <=> Accounted(q)
  BY <1>1 DEF Accounted, Indexed
<1>3. Appearance' /\ QueueInOrder' /\ WalkInOrder' /\ PagesFull' /\ NoGap'
  BY <1>1, <1>2, OrderKept
<1>4. Shapes' /\ LedgerShape' /\ WalkShape' /\ AtWork'
  BY <1>1 DEF GapInv, Shapes, LedgerShape, WalkShape, AtWork, Idle
<1> QED
  BY <1>3, <1>4 DEF GapInv

\* A walk that queues a page, or its oldest records, queues in order.
LEMMA QueuedInOrder ==
  ASSUME GapInv, walk.on, NEW S \in SUBSET Page,
         \A x \in S, y \in Page \cap Taken(walk.since) : Older(y, x) => y \in S,
         queue' = queue \cup {Incremental(x) : x \in S},
         UNCHANGED <<stamp, watermark, ledger, dlq, work, manual, lock>>
  PROVE  /\ Shapes' /\ LedgerShape' /\ AtWork' /\ QueueInOrder' /\ NoGap'
         /\ \A q \in Papers : Accounted(q) => Accounted(q)'
<1>1. S \subseteq Papers /\ Page \subseteq Papers
  BY DEF Page, Listed
<1>2. Shapes' /\ LedgerShape'
  BY <1>1 DEF GapInv, Shapes, LedgerShape
<1>3. \A q \in Papers : Accounted(q) => Accounted(q)'
  BY DEF Accounted, Indexed
<1>4. AtWork'
  <2>1. CASE work = Idle
    BY <2>1 DEF AtWork, Idle
  <2>2. CASE HasJob
    BY <2>2 DEF HasJob, AtWork, Indexed
  <2> QED
    BY <2>1, <2>2 DEF GapInv, AtWork
<1>5. NoGap'
  BY <1>3 DEF GapInv, NoGap, Lost
<1>6. walk.since \in Nat /\ walk.page \in Nat /\ PageSize \in Nat
  BY WalkFacts, HarvestBounds DEF GapInv
<1>7. ASSUME NEW x \in S
      PROVE  stamp[x] > 0 /\ \A y \in Papers : stamp[y] > 0 /\ stamp[y] < stamp[x] => Accounted(y)'
  <2>1. x \in Page /\ x \in Papers /\ stamp[x] > 0
    BY <1>1, <1>7 DEF Page, Listed
  <2> SUFFICES ASSUME NEW y \in Papers, stamp[y] > 0, stamp[y] < stamp[x]
               PROVE  Accounted(y)'
    BY <2>1
  <2>2. Older(y, x)
    BY DEF Older
  <2>3. stamp[y] \in Nat /\ stamp[x] \in Nat
    BY <2>1 DEF GapInv, Shapes
  <2>4. CASE stamp[y] < walk.since
    BY <1>3, <2>4 DEF GapInv, WalkInOrder
  <2>5. CASE ~(stamp[y] < walk.since)
    <3>1. y \in Listed(walk.since) /\ y \in Taken(walk.since)
      <4>1. walk.since <= stamp[y]
        BY <1>6, <2>3, <2>5
      <4>2. walk.since \div Minute <= stamp[y] \div Minute
        BY <1>6, <2>3, <4>1, HarvestBounds, MinutesInOrder
      <4> QED
        BY <1>6, <2>3, <4>1, <4>2, HarvestBounds DEF Listed, Taken
    <3>2. /\ Place(y, walk.since) \in Nat /\ Place(x, walk.since) \in Nat
          /\ Place(y, walk.since) <= Place(x, walk.since)
      BY <1>6, <2>1, <2>2, PlaceInOrder DEF GapInv
    <3>3. Place(x, walk.since) < (walk.page + 1) * PageSize
      BY <2>1 DEF Page
    <3>4. walk.page * PageSize \in Nat /\ (walk.page + 1) * PageSize \in Nat
      BY <1>6
    <3>5. CASE Place(y, walk.since) < walk.page * PageSize
      BY <1>3, <3>1, <3>5 DEF GapInv, WalkInOrder
    <3>6. CASE ~(Place(y, walk.since) < walk.page * PageSize)
      <4>1. y \in Page \cap Taken(walk.since)
        BY <3>1, <3>2, <3>3, <3>4, <3>6 DEF Page
      <4>2. y \in S
        BY <2>2, <4>1
      <4> QED
        BY <4>2 DEF Accounted
    <3> QED
      BY <3>5, <3>6
  <2> QED
    BY <2>4, <2>5
<1>8. QueueInOrder'
  <2> SUFFICES ASSUME NEW p \in Papers, Incremental(p) \in queue'
               PROVE  stamp[p] > 0 /\ \A y \in Papers :
                        stamp[y] > 0 /\ stamp[y] < stamp[p] => Accounted(y)'
    BY DEF QueueInOrder, Before
  <2>1. CASE Incremental(p) \in queue
    BY <1>3, <2>1 DEF GapInv, QueueInOrder, Before
  <2>2. CASE p \in S
    BY <1>7, <2>2
  <2> QED
    BY <2>1, <2>2, JobsDiffer
<1> QED
  BY <1>2, <1>3, <1>4, <1>5, <1>8

\* FetchPage: the page joins what is behind the walk.
LEMMA GapFetchPage ==
  ASSUME GapInv, FetchPage
  PROVE  GapInv'
<1>1. /\ walk.on
      /\ queue' = queue \cup {Incremental(x) : x \in Page \cap Taken(walk.since)}
      /\ UNCHANGED <<stamp, watermark, ledger, dlq, work, manual, lock>>
  BY DEF FetchPage, arxiv, control, rebuilds, counts
<1>2. /\ Shapes' /\ LedgerShape' /\ AtWork' /\ QueueInOrder' /\ NoGap'
      /\ \A q \in Papers : Accounted(q) => Accounted(q)'
  BY <1>1, QueuedInOrder
<1>3. CASE walk' = Idle
  <2>1. ~walk'.on
    BY <1>3 DEF Idle
  <2>2. WalkShape' /\ WalkInOrder' /\ PagesFull'
    BY <1>3, <2>1 DEF WalkShape, WalkInOrder, PagesFull, Idle
  <2>3. Appearance'
    BY <1>1, <2>1 DEF GapInv, Appearance, Reached
  <2> QED
    BY <1>2, <2>2, <2>3 DEF GapInv
<1>4. CASE walk' = [walk EXCEPT !.page = @ + 1] /\ ~(Cardinality(Page) < PageSize)
  <2>1. walk \in [on : {TRUE}, since : Nat, page : Nat] /\ walk.since \in Nat /\ walk.page \in Nat
    BY <1>1, WalkFacts DEF GapInv
  <2>2. /\ walk' \in [on : {TRUE}, since : Nat, page : Nat]
        /\ walk'.since = walk.since /\ walk'.page = walk.page + 1
    <3>1. walk.page + 1 \in Nat
      BY <2>1
    <3>2. walk' = [walk EXCEPT !.page = walk.page + 1]
      BY <1>4
    <3>3. walk' = [on |-> TRUE, since |-> walk.since, page |-> walk.page + 1]
      BY <2>1, <3>2
    <3> QED
      BY <2>1, <3>1, <3>3
  <2>3. Appearance'
    <3>1. Reached(walk.since)' /\ Reached(watermark)'
      BY <1>1, <2>2 DEF GapInv, Appearance, Reached
    <3> QED
      BY <1>1, <3>1 DEF GapInv, Appearance
  <2>4. \A q \in Papers : /\ (q \in Listed(walk.since))' <=> q \in Listed(walk.since)
                          /\ Place(q, walk.since)' = Place(q, walk.since)
                          /\ Place(q, walk.since) \in Nat
    <3> SUFFICES ASSUME NEW q \in Papers
                 PROVE  /\ (q \in Listed(walk.since))' <=> q \in Listed(walk.since)
                        /\ Place(q, walk.since)' = Place(q, walk.since)
                        /\ Place(q, walk.since) \in Nat
      OBVIOUS
    <3>1. Place(q, walk.since) \in Nat
      BY <2>1, PlaceInOrder DEF GapInv
    <3>2. Listed(walk.since)' = Listed(walk.since)
      BY <1>1, <2>2 DEF Listed
    <3>3. {x \in Listed(walk.since) : Older(x, q)}' = {x \in Listed(walk.since) : Older(x, q)}
      BY <1>1, <3>2 DEF Older
    <3>4. Place(q, walk.since)' = Place(q, walk.since)
      BY <3>3 DEF Place
    <3> QED
      BY <3>1, <3>2, <3>4
  <2>5. PageSize \in Nat /\ walk.page * PageSize \in Nat
        /\ (walk.page + 1) * PageSize = walk.page * PageSize + PageSize
    BY <2>1, HarvestBounds
  <2>6. Behind' = Behind \cup Page
    <3>1. \A q \in Papers : q \in Behind' <=> q \in Behind \cup Page
      BY <2>2, <2>4, <2>5 DEF Behind, Page
    <3>2. Behind' \subseteq Papers /\ Behind \subseteq Papers /\ Page \subseteq Papers
      BY DEF Behind, Page, Listed
    <3> QED
      BY <3>1, <3>2
  <2>7. WalkInOrder'
    <3> SUFFICES ASSUME NEW q \in Papers, stamp[q] > 0
                 PROVE  /\ stamp[q] < walk.since => Accounted(q)'
                        /\ q \in Behind' => Accounted(q)'
      BY <1>1, <2>2 DEF WalkInOrder, Behind
    <3>1. stamp[q] < walk.since => Accounted(q)'
      BY <1>1, <1>2 DEF GapInv, WalkInOrder
    <3>2. q \in Behind => Accounted(q)'
      BY <1>1, <1>2 DEF GapInv, WalkInOrder, Behind
    <3>3. q \in Page => Accounted(q)'
      <4>1. CASE stamp[q] < walk.since
        BY <3>1, <4>1
      <4>2. CASE ~(stamp[q] < walk.since)
        <5>1. stamp[q] \in Nat
          BY DEF GapInv, Shapes
        <5>2. q \in Taken(walk.since)
          BY <2>1, <4>2, <5>1 DEF Taken
        <5> QED
          BY <1>1, <5>2 DEF Accounted
      <4> QED
        BY <4>1, <4>2
    <3> QED
      BY <2>6, <3>1, <3>2, <3>3
  <2>8. PagesFull'
    <3>1. IsFiniteSet(Behind) /\ IsFiniteSet(Page)
      BY HarvestBounds, FS_Subset DEF Behind, Page, Listed
    <3>2. Behind \cap Page = {}
      <4> SUFFICES ASSUME NEW q \in Behind, NEW y \in Page, q = y PROVE FALSE
        OBVIOUS
      <4>1. q \in Papers
        BY DEF Behind, Listed
      <4>2. Place(q, walk.since) \in Nat
        BY <2>4, <4>1
      <4>3. Place(q, walk.since) < walk.page * PageSize
        BY DEF Behind
      <4>4. Place(q, walk.since) >= walk.page * PageSize
        BY DEF Page
      <4> QED
        BY <2>5, <4>2, <4>3, <4>4
    <3>3. Cardinality(Behind \cup Page) = Cardinality(Behind) + Cardinality(Page)
      <4>1. Cardinality(Behind \cup Page)
              = Cardinality(Behind) + Cardinality(Page) - Cardinality(Behind \cap Page)
        BY <3>1, FS_Union
      <4>2. Cardinality(Behind \cap Page) = 0
        BY <3>2, FS_EmptySet
      <4>3. Cardinality(Behind) \in Nat /\ Cardinality(Page) \in Nat
        BY <3>1, FS_CardinalityType
      <4> QED
        BY <4>1, <4>2, <4>3
    <3>4. Cardinality(Behind) >= walk.page * PageSize
      BY <1>1 DEF GapInv, PagesFull
    <3>5. Cardinality(Behind) \in Nat /\ Cardinality(Page) \in Nat
      BY <3>1, FS_CardinalityType
    <3> QED
      BY <1>4, <2>2, <2>5, <2>6, <3>3, <3>4, <3>5 DEF PagesFull
  <2> QED
    BY <1>2, <2>2, <2>3, <2>7, <2>8 DEF GapInv, WalkShape
<1> QED
  BY <1>3, <1>4 DEF FetchPage

\* WalkCut: the oldest records of the page are queued, and the walk is over.
LEMMA GapWalkCut ==
  ASSUME GapInv, WalkCut
  PROVE  GapInv'
<1>1. /\ walk.on /\ walk' = Idle
      /\ UNCHANGED <<stamp, watermark, ledger, dlq, work, manual, lock>>
  BY DEF WalkCut, arxiv, control, rebuilds
<1>2. PICK p \in Page :
         queue' = queue \cup {Incremental(x) : x \in {y \in Page : Older(y, p)} \cap Taken(walk.since)}
  BY DEF WalkCut
<1> DEFINE S == {y \in Page : Older(y, p)} \cap Taken(walk.since)
<1>3. \A x \in S, y \in Page \cap Taken(walk.since) : Older(y, x) => y \in S
  <2> SUFFICES ASSUME NEW x \in S, NEW y \in Page, Older(y, x) PROVE Older(y, p)
    OBVIOUS
  <2>1. x \in Papers /\ y \in Papers /\ p \in Papers /\ Older(x, p)
    BY <1>2 DEF Page, Listed
  <2>2. /\ stamp[x] \in Nat /\ stamp[y] \in Nat /\ stamp[p] \in Nat
        /\ x \in Nat /\ y \in Nat /\ p \in Nat
    BY <2>1, HarvestBounds DEF GapInv, Shapes
  <2> QED
    BY <2>1, <2>2 DEF Older
<1>4. /\ Shapes' /\ LedgerShape' /\ AtWork' /\ QueueInOrder' /\ NoGap'
  BY <1>1, <1>2, <1>3, QueuedInOrder
<1>5. ~walk'.on
  BY <1>1 DEF Idle
<1>6. WalkShape' /\ WalkInOrder' /\ PagesFull'
  BY <1>1, <1>5 DEF WalkShape, WalkInOrder, PagesFull, Idle
<1>7. Appearance'
  BY <1>1, <1>5 DEF GapInv, Appearance, Reached
<1> QED
  BY <1>4, <1>6, <1>7 DEF GapInv

\* Every step of the ticks and the worker keeps the invariant.
LEMMA GapNext ==
  ASSUME TicksOnly, GapInv, [Next]_vars
  PROVE  GapInv'
<1>1. CASE UNCHANGED vars
  <2>1. UNCHANGED <<stamp, watermark, ledger, queue, dlq, work, walk, manual, lock>>
    BY <1>1 DEF vars, arxiv, control, jobs, worker, rebuilds, counts
  <2>2. \A q \in Papers : Accounted(q)' <=> Accounted(q)
    BY <2>1 DEF Accounted, Indexed
  <2>3. Appearance' /\ QueueInOrder' /\ WalkInOrder' /\ PagesFull' /\ NoGap'
    BY <2>1, <2>2, OrderKept
  <2>4. Shapes' /\ LedgerShape' /\ WalkShape'
    BY <2>1 DEF GapInv, Shapes, LedgerShape, WalkShape, Idle
  <2>5. AtWork'
    BY <2>1 DEF GapInv, AtWork, HasJob, Indexed, Idle
  <2> QED
    BY <2>3, <2>4, <2>5 DEF GapInv
<1>2. ASSUME NEW p \in Papers PROVE ~IngestOne(p)
  BY DEF IngestOne, TicksOnly, GapInv, Shapes
<1>3. ASSUME NEW j \in queue, Receive(j) PROVE GapInv'
  <2>1. ~Fence(j)
    BY DEF Fence, Fenced, GapInv, Shapes
  <2> QED
    BY <1>3, <2>1, GapShortCircuit, GapClaim DEF Receive
<1>4. ASSUME Worker \/ Failures PROVE GapInv'
  BY <1>3, <1>4, GapStartTick, GapFetchPage, GapWalkCut, GapIndex, GapAdvance, GapAck, GapJobFails,
     GapFetchFails, GapJobReturns DEF Worker, Failures
<1> QED
  BY <1>1, <1>2, <1>4, GapPublish DEF Next, TicksOnly

\* Where papers get no second version and nobody rebuilds or ingests by hand,
\* no paper is ever lost below the watermark, whatever number of papers appears,
\* however short the walks are, and wherever walks and jobs fail.
THEOREM TicksLeaveNoGap ==
  ASSUME TicksOnly
  PROVE  Spec => []NoGap
<1>1. GapInv => NoGap
  BY DEF GapInv
<1> QED
  BY <1>1, GapInit, GapNext, PTL DEF Spec

-----------------------------------------------------------------------------
(* Types, with what they rest on                                           *)

Stores ==
    /\ stamp \in [Papers -> Stamps]
    /\ watermark \in Stamps
    /\ dlq \in [Papers -> Stamps]
    /\ faults \in 0..MaxFaults /\ manual \in 0..MaxManual

\* A queued job names a version that arXiv has published.
QueueIsReal ==
    /\ queue \subseteq Jobs
    /\ \A j \in queue : /\ stamp[j.paper] > 0
                        /\ j.kind = "SEED_REBUILD" => j.version > 0 /\ j.version <= stamp[j.paper]

\* The ledger knows published versions only, and a half-open claim is one of them.
LedgerIsReal ==
    /\ ledger \in [Papers -> [version : Stamps, open : BOOLEAN]]
    /\ \A p \in Papers : /\ ledger[p].version <= stamp[p]
                         /\ ledger[p].open => ledger[p].version > 0

\* The worker is at a job that is still queued, and holds its newest claim.
WorkIsReal ==
    \/ work = Idle
    \/ /\ work \in [on : {TRUE}, job : queue, version : Stamps \ {0}, step : Steps]
       /\ ledger[work.job.paper].version >= work.version

WalkIsReal ==
    /\ walk = Idle \/ walk \in [on : {TRUE}, since : Stamps, page : 0..(MaxPages - 1)]
    /\ walk = Idle \/ work = Idle

RebuildTypes ==
    /\ lock \in BOOLEAN
    /\ rebuild \in [Rebuilders -> {"ready", "locked", "harvest", "done", "over"}]
    /\ window \in [Rebuilders -> Stamps]
    /\ sent \in [Rebuilders -> SUBSET Papers]

TypeInv == Stores /\ QueueIsReal /\ LedgerIsReal /\ WorkIsReal /\ WalkIsReal /\ RebuildTypes

\* A worker that is not busy is at neither a job nor a tick.
LEMMA NotBusyIsIdle ==
  ASSUME WorkIsReal, WalkIsReal
  PROVE  /\ ~Busy => work = Idle /\ walk = Idle
         /\ work.on => work # Idle /\ walk = Idle
         /\ walk.on => walk # Idle /\ work = Idle
<1>1. ~Idle.on
  BY DEF Idle
<1>2. work = Idle \/ work.on
  BY DEF WorkIsReal
<1>3. walk = Idle \/ walk.on
  BY DEF WalkIsReal
<1>4. walk = Idle \/ work = Idle
  BY DEF WalkIsReal
<1> QED
  BY <1>1, <1>2, <1>3, <1>4, Zenon DEF Busy

\* The version a job is about is published.
LEMMA VersionIsReal ==
  ASSUME TypeInv, NEW j \in queue
  PROVE  /\ j.paper \in Papers
         /\ VersionOf(j) \in Stamps /\ VersionOf(j) > 0 /\ VersionOf(j) <= stamp[j.paper]
<1>1. j \in Jobs /\ stamp[j.paper] > 0
  BY DEF TypeInv, QueueIsReal
<1>2. j.paper \in Papers /\ j.version \in Stamps /\ stamp[j.paper] \in Stamps
  BY <1>1 DEF Jobs, TypeInv, Stores
<1> QED
  BY <1>1, <1>2, HarvestBounds DEF TypeInv, QueueIsReal, VersionOf, Stamps

\* The larger of two seconds is a second.
LEMMA HigherIsStamp ==
  ASSUME NEW a \in Stamps, NEW b \in Stamps
  PROVE  Higher(a, b) \in Stamps
BY DEF Higher

\* Publish raises the version of a paper.
LEMMA TypePublish ==
  ASSUME TypeInv, NEW p \in Papers, NEW s \in Stamps, Publish(p, s)
  PROVE  TypeInv'
<1>1. /\ stamp' = [stamp EXCEPT ![p] = s] /\ s > stamp[p]
      /\ UNCHANGED <<control, jobs, worker, rebuilds, counts>>
  BY DEF Publish
<1>2. \A q \in Papers : stamp'[q] \in Stamps /\ stamp[q] \in Stamps /\ stamp'[q] >= stamp[q]
  BY <1>1, HarvestBounds DEF TypeInv, Stores, Stamps
<1>3. Stores'
  BY <1>1 DEF TypeInv, Stores, control, jobs, counts
<1>4. QueueIsReal'
  <2>1. queue' = queue /\ queue \subseteq Jobs
    BY <1>1 DEF jobs, TypeInv, QueueIsReal
  <2>2. ASSUME NEW j \in queue
        PROVE  /\ stamp'[j.paper] > 0
               /\ j.kind = "SEED_REBUILD" => j.version > 0 /\ j.version <= stamp'[j.paper]
    <3>1. j.paper \in Papers /\ j.version \in Stamps
      BY <2>1 DEF Jobs
    <3>2. /\ stamp[j.paper] > 0
          /\ j.kind = "SEED_REBUILD" => j.version > 0 /\ j.version <= stamp[j.paper]
      BY DEF TypeInv, QueueIsReal
    <3>3. /\ j.version \in Nat /\ stamp[j.paper] \in Nat /\ stamp'[j.paper] \in Nat
          /\ stamp'[j.paper] >= stamp[j.paper]
      <4>1. \A n \in Stamps : n \in Nat
        BY HarvestBounds DEF Stamps
      <4> QED
        BY <1>2, <3>1, <4>1, Zenon
    <3> QED
      BY <3>2, <3>3
  <2> QED
    BY <2>1, <2>2 DEF QueueIsReal
<1>5. LedgerIsReal'
  <2>1. ledger' = ledger /\ \A q \in Papers : ledger[q].version \in Stamps
    BY <1>1 DEF control, TypeInv, LedgerIsReal
  <2> QED
    BY <1>2, <2>1, HarvestBounds DEF TypeInv, LedgerIsReal, Stamps
<1>6. WorkIsReal' /\ WalkIsReal' /\ RebuildTypes'
  BY <1>1 DEF TypeInv, WorkIsReal, WalkIsReal, RebuildTypes, control, jobs, worker, rebuilds
<1> QED
  BY <1>3, <1>4, <1>5, <1>6 DEF TypeInv

\* A tick queues listed papers only.
LEMMA TypeTick ==
  ASSUME TypeInv, StartTick \/ FetchPage \/ WalkCut
  PROVE  TypeInv'
<1>1. UNCHANGED <<stamp, ledger, watermark, dlq, work, rebuilds, manual>>
  BY DEF StartTick, FetchPage, WalkCut, arxiv, control, jobs, counts
<1>2. faults' \in 0..MaxFaults
  BY HarvestBounds DEF StartTick, FetchPage, WalkCut, counts, Fault, TypeInv, Stores
<1>3. \A j \in queue' \ queue : \E p \in Papers : j = Incremental(p) /\ stamp[p] > 0
  BY DEF StartTick, FetchPage, WalkCut, jobs, Page, Listed
<1>4. queue \subseteq queue'
  BY DEF StartTick, FetchPage, WalkCut, jobs
<1>5. QueueIsReal'
  <2>1. \A p \in Papers : /\ Incremental(p) \in Jobs /\ Incremental(p).paper = p
                          /\ Incremental(p).kind # "SEED_REBUILD"
    BY HarvestBounds DEF Incremental, Jobs, Stamps
  <2> QED
    BY <1>1, <1>3, <2>1 DEF TypeInv, QueueIsReal
<1>6. Stores' /\ LedgerIsReal'
  BY <1>1, <1>2 DEF TypeInv, Stores, LedgerIsReal
<1>7. WorkIsReal'
  BY <1>1, <1>4 DEF TypeInv, WorkIsReal
<1>8. work = Idle
  BY NotBusyIsIdle DEF StartTick, FetchPage, WalkCut, TypeInv
<1>9. WalkIsReal'
  <2>1. CASE StartTick
    BY <1>1, <1>8, <2>1, HarvestBounds DEF StartTick, WalkIsReal, TypeInv, Stores
  <2>2. CASE FetchPage
    <3>1. walk \in [on : {TRUE}, since : Stamps, page : 0..(MaxPages - 1)]
      BY <2>2, NotBusyIsIdle DEF FetchPage, TypeInv, WalkIsReal
    <3>2. walk' = Idle \/ (walk' = [walk EXCEPT !.page = @ + 1] /\ walk.page + 1 # MaxPages)
      BY <2>2 DEF FetchPage, LastPage
    <3>3. walk' = Idle \/ walk' \in [on : {TRUE}, since : Stamps, page : 0..(MaxPages - 1)]
      <4>1. MaxPages \in Nat /\ walk.page \in 0..(MaxPages - 1)
        BY <3>1, HarvestBounds
      <4>2. walk.page + 1 # MaxPages => walk.page + 1 \in 0..(MaxPages - 1)
        BY <4>1
      <4> QED
        BY <3>1, <3>2, <4>2
    <3> QED
      BY <1>1, <1>8, <3>3 DEF WalkIsReal
  <2>3. CASE WalkCut
    BY <2>3 DEF WalkCut, WalkIsReal
  <2> QED
    BY <2>1, <2>2, <2>3
<1>10. RebuildTypes'
  BY <1>1 DEF TypeInv, RebuildTypes, rebuilds
<1> QED
  BY <1>5, <1>6, <1>7, <1>9, <1>10 DEF TypeInv

\* Taking a message off the queue, at the end of a job or before it begins.
LEMMA TypeDequeue ==
  ASSUME TypeInv, work' = Idle, walk' = walk, queue' \subseteq queue,
         UNCHANGED <<stamp, ledger, rebuilds>>, Stores'
  PROVE  TypeInv'
<1>1. QueueIsReal' /\ LedgerIsReal' /\ RebuildTypes'
  BY DEF TypeInv, QueueIsReal, LedgerIsReal, RebuildTypes, rebuilds
<1>2. WorkIsReal' /\ WalkIsReal'
  BY DEF TypeInv, WorkIsReal, WalkIsReal
<1> QED
  BY <1>1, <1>2 DEF TypeInv

\* Advance: a version of arXiv becomes the watermark.
LEMMA TypeAdvance ==
  ASSUME TypeInv, Advance
  PROVE  TypeInv'
<1>1. work.on
  BY DEF Advance
<1>2. work \in [on : {TRUE}, job : queue, version : Stamps \ {0}, step : Steps]
  BY <1>1, NotBusyIsIdle DEF TypeInv, WorkIsReal
<1>3. /\ work' = [work EXCEPT !.step = "advanced"]
      /\ watermark' = Higher(watermark, work.version)
      /\ UNCHANGED <<stamp, ledger, queue, dlq, walk, lock, rebuild, window, sent, faults, manual>>
  BY DEF Advance, advance_watermark, arxiv, jobs, rebuilds, counts
<1>4. Stores'
  <2>1. watermark' \in Stamps
    BY <1>2, <1>3, HigherIsStamp DEF TypeInv, Stores
  <2> QED
    BY <1>3, <2>1 DEF TypeInv, Stores
<1>5. QueueIsReal' /\ LedgerIsReal' /\ RebuildTypes' /\ WalkIsReal'
  BY <1>1, <1>2, <1>3 DEF TypeInv, QueueIsReal, LedgerIsReal, RebuildTypes, WalkIsReal, Idle
<1>6. WorkIsReal'
  <2>1. work' \in [on : {TRUE}, job : queue, version : Stamps \ {0}, step : Steps]
    BY <1>2, <1>3 DEF Steps
  <2>2. work'.job = work.job /\ work'.version = work.version /\ work'.on
    BY <1>2, <1>3
  <2> QED
    BY <1>1, <1>2, <1>3, <2>1, <2>2 DEF TypeInv, WorkIsReal, Idle
<1> QED
  BY <1>4, <1>5, <1>6 DEF TypeInv

\* The steps that drop, finish, fail or return a job.
LEMMA TypeAck ==
  ASSUME TypeInv,
         \/ Ack \/ JobFails \/ JobReturns
         \/ \E j \in queue : Fence(j) \/ ShortCircuit(j) \/ FetchFails(j)
  PROVE  TypeInv'
<1>1. CASE Ack \/ JobFails \/ JobReturns
  <2>1. work.on /\ work' = Idle /\ walk' = walk /\ queue' \subseteq queue
    BY <1>1 DEF Ack, JobFails, JobReturns, jobs
  <2>2. UNCHANGED <<stamp, ledger, rebuilds>>
    BY <1>1 DEF Ack, JobFails, JobReturns, arxiv, control
  <2>3. work \in [on : {TRUE}, job : queue, version : Stamps \ {0}, step : Steps]
    BY <2>1, NotBusyIsIdle DEF TypeInv, WorkIsReal
  <2>4. work.version \in Stamps /\ work.job \in queue
    BY <2>3
  <2>5. work.job.paper \in Papers
    BY <2>4, VersionIsReal
  <2>6. Higher(dlq[work.job.paper], work.version) \in Stamps
    BY <2>4, <2>5, HigherIsStamp DEF TypeInv, Stores
  <2>7. Stores'
    <3>1. CASE Ack
      BY <3>1 DEF Ack, arxiv, control, counts, TypeInv, Stores
    <3>2. CASE JobFails
      <4>1. faults' \in 0..MaxFaults
        BY <3>2, HarvestBounds DEF JobFails, Fault, TypeInv, Stores
      <4>2. dlq' \in [Papers -> Stamps]
        BY <3>2, <2>6 DEF JobFails, TypeInv, Stores
      <4> QED
        BY <3>2, <4>1, <4>2 DEF JobFails, arxiv, control, TypeInv, Stores
    <3>3. CASE JobReturns
      BY <3>3, HarvestBounds DEF JobReturns, Fault, arxiv, control, jobs, TypeInv, Stores
    <3> QED
      BY <1>1, <3>1, <3>2, <3>3
  <2> QED
    BY <2>1, <2>2, <2>7, TypeDequeue
<1>2. ASSUME NEW j \in queue, Fence(j) \/ ShortCircuit(j) \/ FetchFails(j)
      PROVE  TypeInv'
  <2>1. /\ ~Busy /\ queue' \subseteq queue
        /\ UNCHANGED <<stamp, watermark, ledger, work, walk, rebuilds, manual>>
    BY <1>2 DEF Fence, ShortCircuit, FetchFails, arxiv, control, worker, counts
  <2>2. work = Idle
    BY <2>1, NotBusyIsIdle DEF TypeInv
  <2>3. Higher(dlq[j.paper], VersionOf(j)) \in Stamps
    BY VersionIsReal, HigherIsStamp DEF TypeInv, Stores
  <2>4. dlq' \in [Papers -> Stamps] /\ faults' \in 0..MaxFaults
    BY <1>2, <2>3, HarvestBounds DEF Fence, ShortCircuit, FetchFails, Fault, counts, TypeInv, Stores
  <2>5. Stores'
    BY <2>1, <2>4 DEF TypeInv, Stores
  <2> QED
    BY <2>1, <2>2, <2>5, TypeDequeue
<1> QED
  BY <1>1, <1>2

\* begin_upsert claims a published version that is no older than the ledger's.
LEMMA TypeClaim ==
  ASSUME TypeInv, NEW j \in queue, Claim(j)
  PROVE  TypeInv'
<1>1. /\ j.paper \in Papers
      /\ VersionOf(j) \in Stamps /\ VersionOf(j) > 0 /\ VersionOf(j) <= stamp[j.paper]
  BY VersionIsReal
<1>2. /\ ~Busy
      /\ ledger' = [ledger EXCEPT ![j.paper] = [version |-> VersionOf(j), open |-> TRUE]]
      /\ work' = [on |-> TRUE, job |-> j, version |-> VersionOf(j), step |-> "claimed"]
      /\ UNCHANGED <<stamp, watermark, queue, dlq, walk, rebuilds, counts>>
  BY DEF Claim, arxiv, jobs
<1>3. walk = Idle
  BY <1>2, NotBusyIsIdle DEF TypeInv
<1>4. LedgerIsReal'
  <2>1. ledger' \in [Papers -> [version : Stamps, open : BOOLEAN]]
    BY <1>1, <1>2 DEF TypeInv, LedgerIsReal
  <2>2. \A p \in Papers : ledger'[p] = IF p = j.paper THEN [version |-> VersionOf(j), open |-> TRUE]
                                       ELSE ledger[p]
    BY <1>1, <1>2 DEF TypeInv, LedgerIsReal
  <2> QED
    BY <1>1, <1>2, <2>1, <2>2 DEF TypeInv, LedgerIsReal
<1>5. WorkIsReal'
  <2>1. ledger'[j.paper].version = VersionOf(j)
    BY <1>1, <1>2 DEF TypeInv, LedgerIsReal
  <2>2. work'.job = j /\ work'.version = VersionOf(j)
    BY <1>2
  <2>3. work' \in [on : {TRUE}, job : queue', version : Stamps \ {0}, step : Steps]
    BY <1>1, <1>2, HarvestBounds DEF Stamps, Steps
  <2>4. VersionOf(j) \in Nat
    BY <1>1, HarvestBounds DEF Stamps
  <2>5. ledger'[work'.job.paper].version >= work'.version
    BY <2>1, <2>2, <2>4
  <2> QED
    BY <2>3, <2>5, Zenon DEF WorkIsReal
<1>6. WalkIsReal'
  BY <1>2, <1>3 DEF WalkIsReal
<1>7. Stores' /\ QueueIsReal' /\ RebuildTypes'
  BY <1>2 DEF TypeInv, Stores, QueueIsReal, RebuildTypes, rebuilds, counts
<1> QED
  BY <1>4, <1>5, <1>6, <1>7 DEF TypeInv

\* mark_ingested closes the claim and leaves its version.
LEMMA TypeIndex ==
  ASSUME TypeInv, Index
  PROVE  TypeInv'
<1> DEFINE q == work.job.paper
           o == ledger[q].open /\ ledger[q].version # work.version
<1>1. /\ work.on /\ work' = [work EXCEPT !.step = "indexed"]
      /\ ledger' = [ledger EXCEPT ![q].open = o]
      /\ UNCHANGED <<stamp, watermark, queue, dlq, walk, rebuilds, counts>>
  BY DEF Index, arxiv, jobs
<1>2. /\ work \in [on : {TRUE}, job : queue, version : Stamps \ {0}, step : Steps]
      /\ ledger[q].version >= work.version
      /\ walk = Idle
  BY <1>1, NotBusyIsIdle DEF TypeInv, WorkIsReal
<1>3. q \in Papers
  BY <1>2, VersionIsReal
<1>4. LedgerIsReal' /\ \A p \in Papers : ledger'[p].version = ledger[p].version
  <2>1. o \in BOOLEAN /\ (o => ledger[q].open)
    OBVIOUS
  <2> HIDE DEF o
  <2>2. ledger' \in [Papers -> [version : Stamps, open : BOOLEAN]]
    BY <1>1, <1>3, <2>1 DEF TypeInv, LedgerIsReal
  <2>3. \A p \in Papers : /\ ledger'[p].version = ledger[p].version
                          /\ ledger'[p].open => ledger[p].open
    BY <1>1, <1>3, <2>1 DEF TypeInv, LedgerIsReal
  <2> QED
    BY <1>1, <2>2, <2>3 DEF TypeInv, LedgerIsReal
<1>5. WorkIsReal'
  <2>1. work' \in [on : {TRUE}, job : queue, version : Stamps \ {0}, step : Steps]
    BY <1>1, <1>2 DEF Steps
  <2>2. work'.job = work.job /\ work'.version = work.version
    BY <1>1, <1>2
  <2> QED
    BY <1>1, <1>2, <1>3, <1>4, <2>1, <2>2 DEF WorkIsReal
<1>6. WalkIsReal'
  BY <1>1, <1>2 DEF WalkIsReal
<1>7. Stores' /\ QueueIsReal' /\ RebuildTypes'
  BY <1>1 DEF TypeInv, Stores, QueueIsReal, RebuildTypes, rebuilds, counts
<1> QED
  BY <1>4, <1>5, <1>6, <1>7 DEF TypeInv

\* A rebuild queues published versions.
LEMMA TypeRebuild ==
  ASSUME TypeInv, NEW r \in Rebuilders, RebuildGoesOn(r) \/ Abort(r) \/ Die(r)
  PROVE  TypeInv'
<1>1. UNCHANGED <<stamp, ledger, dlq, work, walk, manual>>
  BY DEF RebuildGoesOn, AcquireLock, Rejected, ResetWatermark, Harvest, Finish, Abort, Die,
         arxiv, control, jobs, worker, counts
<1>2. watermark' \in Stamps /\ faults' \in 0..MaxFaults
  BY HarvestBounds DEF RebuildGoesOn, AcquireLock, Rejected, ResetWatermark, Harvest, Finish,
         Abort, Die, control, counts, Fault, TypeInv, Stores, Stamps
<1>3. QueueIsReal' /\ queue \subseteq queue'
  <2>1. CASE Harvest(r)
    <3>1. PICK p \in Papers : stamp[p] > 0 /\ queue' = queue \cup {Seed(p, stamp[p])}
      BY <2>1 DEF Harvest, Unsent
    <3>2. stamp[p] \in Stamps
      BY DEF TypeInv, Stores
    <3>3. /\ Seed(p, stamp[p]) \in Jobs /\ Seed(p, stamp[p]).paper = p
          /\ Seed(p, stamp[p]).version = stamp[p]
      BY <3>2 DEF Seed, Jobs
    <3>4. stamp[p] <= stamp[p]
      BY <3>2, HarvestBounds DEF Stamps
    <3> QED
      BY <1>1, <3>1, <3>3, <3>4 DEF TypeInv, QueueIsReal
  <2>2. CASE ~Harvest(r)
    <3>1. queue' = queue
      BY <2>2 DEF RebuildGoesOn, AcquireLock, Rejected, ResetWatermark, Finish, Abort, Die, jobs
    <3> QED
      BY <1>1, <3>1 DEF TypeInv, QueueIsReal
  <2> QED
    BY <2>1, <2>2
<1>4. RebuildTypes'
  <2> USE DEF TypeInv, RebuildTypes, Goto
  <2>1. CASE AcquireLock(r)
    BY <2>1 DEF AcquireLock
  <2>2. CASE Rejected(r)
    BY <2>2 DEF Rejected
  <2>3. ASSUME NEW end \in Stamps, ResetWatermark(r, end)
        PROVE  RebuildTypes'
    BY <2>3 DEF ResetWatermark
  <2>4. CASE Harvest(r)
    BY <2>4 DEF Harvest, Unsent
  <2>5. CASE Finish(r)
    BY <2>5 DEF Finish
  <2>6. CASE Abort(r) \/ Die(r)
    BY <2>6 DEF Abort, Die
  <2> QED
    BY <2>1, <2>2, <2>3, <2>4, <2>5, <2>6 DEF RebuildGoesOn
<1>5. Stores' /\ LedgerIsReal' /\ WalkIsReal'
  BY <1>1, <1>2 DEF TypeInv, Stores, LedgerIsReal, WalkIsReal
<1>6. WorkIsReal'
  BY <1>1, <1>3 DEF TypeInv, WorkIsReal
<1> QED
  BY <1>3, <1>4, <1>5, <1>6 DEF TypeInv

\* ingest-one raises the ledger to the published version, beside a worker that may be
\* at the same paper.
LEMMA TypeIngestOne ==
  ASSUME TypeInv, NEW p \in Papers, IngestOne(p)
  PROVE  TypeInv'
<1>1. /\ stamp[p] > 0 /\ ~Known(p, stamp[p])
      /\ ledger' = [ledger EXCEPT ![p] = [version |-> stamp[p], open |-> FALSE]]
      /\ watermark' = Higher(watermark, stamp[p])
      /\ UNCHANGED <<stamp, queue, dlq, work, walk, rebuilds, faults>>
  BY DEF IngestOne, advance_watermark, arxiv, jobs, worker
<1>2. stamp[p] \in Stamps /\ \A q \in Papers : ledger[q].version \in Stamps
  BY DEF TypeInv, Stores, LedgerIsReal
<1>3. watermark' \in Stamps /\ manual' \in 0..MaxManual
  BY <1>1, <1>2, HigherIsStamp, HarvestBounds DEF TypeInv, Stores, IngestOne
<1>4. /\ ledger' \in [Papers -> [version : Stamps, open : BOOLEAN]]
      /\ \A q \in Papers : ledger'[q] = IF q = p THEN [version |-> stamp[p], open |-> FALSE]
                                        ELSE ledger[q]
  BY <1>1, <1>2 DEF TypeInv, LedgerIsReal
<1>5. LedgerIsReal' /\ \A q \in Papers : ledger'[q].version >= ledger[q].version
  BY <1>1, <1>2, <1>4, HarvestBounds DEF TypeInv, LedgerIsReal, Stamps
<1>6. WorkIsReal'
  <2>1. CASE work = Idle
    BY <1>1, <2>1 DEF WorkIsReal
  <2>2. CASE work # Idle
    <3>1. /\ work \in [on : {TRUE}, job : queue, version : Stamps \ {0}, step : Steps]
          /\ ledger[work.job.paper].version >= work.version
      BY <2>2 DEF TypeInv, WorkIsReal
    <3>2. work.job.paper \in Papers /\ work.version \in Stamps
      BY <3>1, VersionIsReal
    <3>3. ledger'[work.job.paper].version \in Stamps
      BY <1>4, <3>2
    <3>4. ledger'[work.job.paper].version >= work.version
      BY <1>2, <1>5, <3>1, <3>2, <3>3, HarvestBounds DEF Stamps
    <3> QED
      BY <1>1, <3>1, <3>4 DEF WorkIsReal
  <2> QED
    BY <2>1, <2>2
<1>7. Stores' /\ QueueIsReal' /\ WalkIsReal' /\ RebuildTypes'
  BY <1>1, <1>3 DEF TypeInv, Stores, QueueIsReal, WalkIsReal, RebuildTypes, rebuilds
<1> QED
  BY <1>5, <1>6, <1>7 DEF TypeInv

LEMMA InitTypeInv == Init => TypeInv
<1> SUFFICES ASSUME Init PROVE TypeInv
  OBVIOUS
<1>1. 0 \in Stamps
  BY HarvestBounds DEF Stamps
<1>2. Stores /\ RebuildTypes
  <2>1. faults \in 0..MaxFaults /\ manual \in 0..MaxManual
    BY HarvestBounds DEF Init
  <2>2. lock \in BOOLEAN
    BY Zenon DEF Init
  <2>3. Stores
    BY <1>1, <2>1 DEF Init, Stores
  <2>4. /\ rebuild \in [Rebuilders -> {"ready", "locked", "harvest", "done", "over"}]
        /\ window \in [Rebuilders -> Stamps]
        /\ sent \in [Rebuilders -> SUBSET Papers]
    BY <1>1 DEF Init
  <2> QED
    BY <2>2, <2>3, <2>4, Zenon DEF RebuildTypes
<1>3. QueueIsReal /\ WorkIsReal /\ WalkIsReal
  BY DEF Init, QueueIsReal, WorkIsReal, WalkIsReal
<1>4. LedgerIsReal
  BY <1>1 DEF Init, LedgerIsReal
<1> QED
  BY <1>2, <1>3, <1>4 DEF TypeInv

LEMMA NextTypeInv == TypeInv /\ [Next]_vars => TypeInv'
<1> SUFFICES ASSUME TypeInv, [Next]_vars PROVE TypeInv'
  OBVIOUS
<1>1. CASE UNCHANGED vars
  BY <1>1 DEF vars, arxiv, control, jobs, worker, rebuilds, counts, TypeInv, Stores, QueueIsReal,
              LedgerIsReal, WorkIsReal, WalkIsReal, RebuildTypes
<1>2. CASE Worker \/ Failures
  BY <1>2, TypeTick, TypeAdvance, TypeAck, TypeClaim, TypeIndex DEF Worker, Failures, Receive
<1> QED
  BY <1>1, <1>2, TypePublish, TypeRebuild, TypeIngestOne DEF Next

\* Whatever is published, harvested, rebuilt and ingested by hand, the ledger never knows
\* a version arXiv has not published, the worker's job is still queued and its claim is the newest or
\* was overtaken by a newer one.
THEOREM HarvestTypes == Spec => []TypeOK
<1>1. TypeInv => TypeOK
  <2> SUFFICES ASSUME TypeInv PROVE TypeOK
    OBVIOUS
  <2>1. /\ work = Idle \/ work \in [on : {TRUE}, job : queue, version : Stamps \ {0}, step : Steps]
        /\ work.on => ledger[work.job.paper].version >= work.version
        /\ ~(work.on /\ walk.on)
    BY NotBusyIsIdle DEF TypeInv, WorkIsReal
  <2> QED
    BY <2>1, Zenon DEF TypeInv, Stores, QueueIsReal, LedgerIsReal, WalkIsReal, RebuildTypes, TypeOK
<1> QED
  BY <1>1, InitTypeInv, NextTypeInv, PTL DEF Spec

-----------------------------------------------------------------------------
(* What a rebuild covers                                                   *)

\* The DLQ holds published versions.
DlqIsReal == \A p \in Papers : dlq[p] <= stamp[p]

\* A seed is ingested at the version it names, and mark_ingested leaves nothing to do.
JobIsClaimed ==
    work = Idle \/
        /\ work.job.kind = "SEED_REBUILD" => work.version = work.job.version
        /\ work.step # "claimed" => Known(work.job.paper, work.version)

\* Accounted for by what the fence cannot drop.
Recovered(p) == Indexed(p) \/ dlq[p] = stamp[p] \/ Seed(p, stamp[p]) \in queue

\* What a rebuild has queued of its window is recovered, and in the end that is all of it.
Covers(r) ==
    /\ rebuild[r] \in {"ready", "locked"} => sent[r] = {}
    /\ rebuild[r] \in {"harvest", "done"} =>
           \A p \in sent[r] : stamp[p] <= window[r] => Recovered(p)
    /\ rebuild[r] = "done" => \A p \in Papers : stamp[p] \in 1..window[r] => p \in sent[r]

\* The inductive invariant behind RebuildRecovers.
RecoverInv == TypeInv /\ DlqIsReal /\ JobIsClaimed /\ \A r \in Rebuilders : Covers(r)

LEMMA RecoverInit == Init => RecoverInv
<1> SUFFICES ASSUME Init PROVE RecoverInv
  OBVIOUS
<1>1. DlqIsReal
  BY DEF Init, DlqIsReal
<1>2. JobIsClaimed
  BY DEF Init, JobIsClaimed
<1>3. ASSUME NEW r \in Rebuilders PROVE Covers(r)
  <2>1. rebuild[r] = "ready" /\ sent[r] = {}
    BY DEF Init
  <2> QED
    BY <2>1 DEF Covers
<1> QED
  BY <1>1, <1>2, <1>3, InitTypeInv DEF RecoverInv

\* Versions are numbers, and no claim is newer than arXiv.
LEMMA VersionsOf ==
  ASSUME TypeInv, NEW p \in Papers
  PROVE  /\ stamp[p] \in Nat /\ dlq[p] \in Nat /\ ledger[p].version \in Nat
         /\ ledger[p].version <= stamp[p]
<1>1. \A s \in Stamps : s \in Nat
  BY HarvestBounds DEF Stamps
<1> QED
  BY <1>1 DEF TypeInv, Stores, LedgerIsReal

\* The claim of the worker's job.
LEMMA ClaimOf ==
  ASSUME TypeInv, work.on
  PROVE  /\ work.job \in queue /\ work.job.paper \in Papers /\ work # Idle
         /\ work \in [on : {TRUE}, job : queue, version : Stamps \ {0}, step : Steps]
         /\ work.version \in Nat
         /\ work.version <= ledger[work.job.paper].version
         /\ work.version <= stamp[work.job.paper]
<1>1. /\ work # Idle
      /\ work \in [on : {TRUE}, job : queue, version : Stamps \ {0}, step : Steps]
      /\ ledger[work.job.paper].version >= work.version
  BY NotBusyIsIdle DEF TypeInv, WorkIsReal
<1>2. work.job \in queue /\ work.version \in Nat
  BY <1>1, HarvestBounds DEF Stamps
<1>3. work.job.paper \in Papers
  BY <1>2, VersionIsReal
<1>4. /\ ledger[work.job.paper].version \in Nat /\ stamp[work.job.paper] \in Nat
      /\ ledger[work.job.paper].version <= stamp[work.job.paper]
  BY <1>3, VersionsOf
<1>5. /\ work.version <= ledger[work.job.paper].version
      /\ work.version <= stamp[work.job.paper]
  BY <1>1, <1>2, <1>4
<1> QED
  BY <1>1, <1>2, <1>3, <1>5, Zenon

\* An indexed version stays indexed until arXiv has a newer one.
LEMMA IndexedStays ==
  ASSUME TypeInv, [Next]_vars, NEW p \in Papers, stamp'[p] = stamp[p], Indexed(p)
  PROVE  Indexed(p)'
<1>1. \A q \in Papers : Known(q, stamp[q]) <=> Indexed(q)
  BY VersionsOf DEF Known, Indexed
<1>2. ASSUME NEW j \in queue, Claim(j) PROVE Indexed(p)'
  <2>1. /\ j.paper \in Papers /\ ~Known(j.paper, VersionOf(j))
        /\ ledger' = [ledger EXCEPT ![j.paper] = [version |-> VersionOf(j), open |-> TRUE]]
    BY <1>2, VersionIsReal DEF Claim
  <2>2. j.paper # p
    <3> SUFFICES ASSUME j.paper = p PROVE FALSE
      OBVIOUS
    <3>1. VersionOf(j) \in Nat /\ VersionOf(j) <= stamp[p]
      BY VersionIsReal, HarvestBounds DEF Stamps
    <3>2. ledger[p].version = stamp[p] /\ ~ledger[p].open /\ stamp[p] \in Nat
      BY VersionsOf DEF Indexed
    <3> QED
      BY <2>1, <3>1, <3>2 DEF Known
  <2> QED
    BY <2>1, <2>2 DEF Indexed, TypeInv, LedgerIsReal
<1>3. CASE Index
  <2> DEFINE o == ledger[work.job.paper].open
                    /\ ledger[work.job.paper].version # work.version
  <2>1. /\ work.job.paper \in Papers
        /\ ledger' = [ledger EXCEPT ![work.job.paper].open = o]
    BY <1>3, ClaimOf DEF Index
  <2>2. o => ledger[work.job.paper].open
    OBVIOUS
  <2> HIDE DEF o
  <2>3. ledger'[p].version = ledger[p].version /\ (ledger'[p].open => ledger[p].open)
    BY <2>1, <2>2 DEF TypeInv, LedgerIsReal
  <2> QED
    BY <2>3 DEF Indexed
<1>4. ASSUME NEW q \in Papers, IngestOne(q) PROVE Indexed(p)'
  <2>1. q # p
    BY <1>1, <1>4 DEF IngestOne
  <2> QED
    BY <1>4, <2>1 DEF IngestOne, Indexed, TypeInv, LedgerIsReal
<1>5. CASE ledger' = ledger
  BY <1>5 DEF Indexed
<1>6. \/ ledger' = ledger \/ Index \/ \E j \in queue : Claim(j)
      \/ \E q \in Papers : IngestOne(q)
  BY DEF Next, Publish, Worker, StartTick, FetchPage, Advance, Ack, Receive, Fence, ShortCircuit,
         Failures, WalkCut, JobFails, JobReturns, FetchFails, RebuildGoesOn, AcquireLock,
         Rejected, ResetWatermark, Harvest, Finish, Abort, Die, control, vars
<1> QED
  BY <1>2, <1>3, <1>4, <1>5, <1>6

\* What the DLQ holds after a failure, if any.
LEMMA DlqEffect ==
  ASSUME TypeInv, [Next]_vars
  PROVE  \/ dlq' = dlq
         \/ \E q \in Papers, v \in Nat :
                v <= stamp[q] /\ dlq' = [dlq EXCEPT ![q] = Higher(@, v)] /\ stamp' = stamp
<1>1. CASE JobFails
  <2>1. work.job.paper \in Papers /\ work.version \in Nat /\ work.version <= stamp[work.job.paper]
    BY <1>1, ClaimOf DEF JobFails
  <2> QED
    BY <1>1, <2>1 DEF JobFails, arxiv
<1>2. ASSUME NEW j \in queue, FetchFails(j)
      PROVE  \E q \in Papers, v \in Nat :
                v <= stamp[q] /\ dlq' = [dlq EXCEPT ![q] = Higher(@, v)] /\ stamp' = stamp
  <2>1. j.paper \in Papers /\ VersionOf(j) \in Nat /\ VersionOf(j) <= stamp[j.paper]
    BY VersionIsReal, HarvestBounds DEF Stamps
  <2> QED
    BY <1>2, <2>1 DEF FetchFails, arxiv
<1>3. dlq' = dlq \/ JobFails \/ \E j \in queue : FetchFails(j)
  BY DEF Next, Publish, Worker, StartTick, FetchPage, Index, Advance, Ack, Receive, Fence,
         ShortCircuit, Claim, Failures, WalkCut, JobReturns, RebuildGoesOn, AcquireLock,
         Rejected, ResetWatermark, Harvest, Finish, Abort, Die, IngestOne, jobs, vars
<1> QED
  BY <1>1, <1>2, <1>3

LEMMA DlqStays ==
  ASSUME TypeInv, [Next]_vars, NEW p \in Papers, stamp'[p] = stamp[p], dlq[p] = stamp[p]
  PROVE  dlq'[p] = stamp[p]
<1>1. CASE dlq' = dlq
  BY <1>1
<1>2. ASSUME NEW q \in Papers, NEW v \in Nat, v <= stamp[q],
             dlq' = [dlq EXCEPT ![q] = Higher(@, v)]
      PROVE  dlq'[p] = stamp[p]
  BY <1>2, VersionsOf DEF Higher, TypeInv, Stores
<1> QED
  BY <1>1, <1>2, DlqEffect

LEMMA DlqIsRealStays ==
  ASSUME TypeInv, TypeInv', DlqIsReal, [Next]_vars
  PROVE  DlqIsReal'
<1> SUFFICES ASSUME NEW p \in Papers PROVE dlq'[p] <= stamp'[p]
  BY DEF DlqIsReal
<1>1. /\ dlq[p] <= stamp[p] /\ dlq[p] \in Nat /\ stamp[p] \in Nat
      /\ stamp'[p] \in Nat
  BY VersionsOf, HarvestBounds DEF DlqIsReal, TypeInv, Stores, Stamps
<1>2. stamp'[p] >= stamp[p]
  <2>1. ASSUME NEW q \in Papers, NEW s \in Stamps, Publish(q, s)
        PROVE  stamp'[p] >= stamp[p]
    <3>1. stamp' = [stamp EXCEPT ![q] = s] /\ s > stamp[q]
      BY <2>1 DEF Publish
    <3>2. stamp \in [Papers -> Stamps] /\ s \in Nat
      BY HarvestBounds DEF TypeInv, Stores, Stamps
    <3> QED
      BY <1>1, <3>1, <3>2
  <2>2. stamp' = stamp \/ \E q \in Papers, s \in Stamps : Publish(q, s)
    BY DEF Next, Worker, StartTick, FetchPage, Index, Advance, Ack, Receive, Fence, ShortCircuit,
           Claim, Failures, WalkCut, JobFails, JobReturns, FetchFails, RebuildGoesOn,
           AcquireLock, Rejected, ResetWatermark, Harvest, Finish, Abort, Die, IngestOne,
           arxiv, vars
  <2> QED
    BY <1>1, <2>1, <2>2
<1>3. CASE dlq' = dlq
  BY <1>1, <1>2, <1>3
<1>4. ASSUME NEW q \in Papers, NEW v \in Nat, v <= stamp[q],
             dlq' = [dlq EXCEPT ![q] = Higher(@, v)], stamp' = stamp
      PROVE  dlq'[p] <= stamp'[p]
  BY <1>1, <1>4 DEF Higher, TypeInv, Stores
<1> QED
  BY <1>3, <1>4, DlqEffect

\* A claim is made at the version of its message, and is known once it is indexed.
LEMMA JobIsClaimedStays ==
  ASSUME TypeInv, JobIsClaimed, [Next]_vars
  PROVE  JobIsClaimed'
<1>1. ASSUME NEW j \in queue, Claim(j) PROVE JobIsClaimed'
  <2>1. work'.job = j /\ work'.version = VersionOf(j) /\ work'.step = "claimed"
    BY <1>1 DEF Claim
  <2> QED
    BY <2>1 DEF JobIsClaimed, VersionOf
<1>2. CASE Index
  <2> DEFINE q == work.job.paper
             o == ledger[q].open /\ ledger[q].version # work.version
  <2>1. /\ work # Idle /\ q \in Papers /\ work.version \in Nat
        /\ work.version <= ledger[q].version /\ ledger[q].version \in Nat
        /\ ledger' = [ledger EXCEPT ![q].open = o]
    BY <1>2, ClaimOf, VersionsOf DEF Index
  <2>2. work'.job = work.job /\ work'.version = work.version
    BY <1>2, <2>1, ClaimOf DEF Index
  <2>3. ledger[q].version = work.version => ~o
    OBVIOUS
  <2> HIDE DEF o
  <2>4. ledger'[q].version = ledger[q].version /\ ledger'[q].open = o
    BY <2>1 DEF TypeInv, LedgerIsReal
  <2>5. \/ work.version < ledger'[q].version
        \/ work.version = ledger'[q].version /\ ~ledger'[q].open
    BY <2>1, <2>3, <2>4
  <2>6. work.job.kind = "SEED_REBUILD" => work.version = work.job.version
    BY <2>1 DEF JobIsClaimed
  <2> QED
    BY <2>2, <2>5, <2>6 DEF JobIsClaimed, Known
<1>3. ASSUME NEW p \in Papers, IngestOne(p) PROVE JobIsClaimed'
  <2>1. CASE work = Idle
    BY <1>3, <2>1 DEF IngestOne, worker, JobIsClaimed
  <2>2. CASE work # Idle
    <3>1. work.on
      BY <2>2 DEF TypeInv, WorkIsReal
    <3>2. /\ work' = work /\ ledger' = [ledger EXCEPT ![p] = [version |-> stamp[p], open |-> FALSE]]
      BY <1>3 DEF IngestOne, worker
    <3>3. /\ work.job.paper \in Papers /\ work.version \in Nat
          /\ work.version <= stamp[work.job.paper]
      BY <3>1, ClaimOf
    <3>4. stamp[work.job.paper] \in Nat
      BY <3>3, VersionsOf
    <3>5. CASE work.job.paper = p
      <4>1. ledger'[p] = [version |-> stamp[p], open |-> FALSE]
        BY <3>2 DEF TypeInv, LedgerIsReal
      <4>2. \/ work.version < ledger'[p].version
            \/ work.version = ledger'[p].version /\ ~ledger'[p].open
        BY <3>3, <3>4, <3>5, <4>1
      <4> QED
        BY <2>2, <3>2, <3>5, <4>2 DEF JobIsClaimed, Known
    <3>6. CASE work.job.paper # p
      <4>1. ledger'[work.job.paper] = ledger[work.job.paper]
        BY <3>2, <3>3, <3>6 DEF TypeInv, LedgerIsReal
      <4> QED
        BY <2>2, <3>2, <4>1 DEF JobIsClaimed, Known
    <3> QED
      BY <3>5, <3>6
  <2> QED
    BY <2>1, <2>2
<1>4. CASE work' = Idle
  BY <1>4 DEF JobIsClaimed
<1>5. CASE work' = work /\ ledger' = ledger
  BY <1>5 DEF JobIsClaimed, Known
<1>6. CASE Advance
  <2>1. work # Idle /\ work.step = "indexed"
    BY <1>6, ClaimOf DEF Advance
  <2>2. work \in [on : {TRUE}, job : queue, version : Stamps \ {0}, step : Steps]
    BY <1>6, ClaimOf DEF Advance
  <2>3. /\ work'.job = work.job /\ work'.version = work.version
        /\ ledger' = ledger
    BY <1>6, <2>2 DEF Advance
  <2> QED
    BY <2>1, <2>3 DEF JobIsClaimed, Known
<1>7. \/ work' = Idle \/ (work' = work /\ ledger' = ledger)
      \/ Index \/ Advance \/ \E j \in queue : Claim(j)
      \/ \E p \in Papers : IngestOne(p)
  BY DEF Next, Publish, Worker, StartTick, FetchPage, Ack, Receive, Fence, ShortCircuit,
         Failures, WalkCut, JobFails, JobReturns, FetchFails, RebuildGoesOn, AcquireLock,
         Rejected, ResetWatermark, Harvest, Finish, Abort, Die, control, worker, vars
<1> QED
  BY <1>1, <1>2, <1>3, <1>4, <1>5, <1>6, <1>7

\* A seed of the current version leaves the queue when the version is indexed or in the DLQ.
LEMMA SeedIsUsed ==
  ASSUME TypeInv, DlqIsReal, JobIsClaimed, [Next]_vars, NEW p \in Papers,
         Seed(p, stamp[p]) \in queue, Seed(p, stamp[p]) \notin queue'
  PROVE  Indexed(p) \/ dlq'[p] = stamp[p]
<1> DEFINE s == Seed(p, stamp[p])
<1>1. s.kind = "SEED_REBUILD" /\ s.paper = p /\ s.version = stamp[p] /\ VersionOf(s) = stamp[p]
  BY DEF Seed, VersionOf
<1>2. stamp[p] \in Nat /\ dlq[p] \in Nat /\ dlq[p] <= stamp[p] /\ dlq \in [Papers -> Stamps]
      /\ ledger[p].version \in Nat /\ ledger[p].version <= stamp[p]
  BY VersionsOf DEF DlqIsReal, TypeInv, Stores
<1>3. Known(p, stamp[p]) => Indexed(p)
  BY <1>2 DEF Known, Indexed
<1>4. Higher(dlq[p], stamp[p]) = stamp[p]
  BY <1>2 DEF Higher
<1> HIDE DEF s
<1>5. ASSUME NEW j \in queue, queue' = queue \ {j} PROVE j = s
  BY <1>5 DEF s
<1>6. ASSUME NEW j \in queue, Fence(j) \/ ShortCircuit(j) \/ FetchFails(j)
      PROVE  Indexed(p) \/ dlq'[p] = stamp[p]
  <2>1. j = s
    BY <1>5, <1>6 DEF Fence, ShortCircuit, FetchFails
  <2>2. ~Fence(j)
    BY <1>1, <2>1 DEF Fence, Fenced
  <2>3. CASE ShortCircuit(j)
    BY <1>1, <1>3, <2>1, <2>3 DEF ShortCircuit
  <2>4. CASE FetchFails(j)
    BY <1>1, <1>2, <1>4, <2>1, <2>4 DEF FetchFails
  <2> QED
    BY <1>6, <2>2, <2>3, <2>4
<1>7. CASE Ack \/ JobFails
  <2>1. work.on /\ work # Idle /\ work.job \in queue
    BY <1>7, ClaimOf DEF Ack, JobFails
  <2>2. work.job = s
    BY <1>5, <1>7, <2>1 DEF Ack, JobFails
  <2>3. work.version = stamp[p] /\ work.job.paper = p
    BY <1>1, <2>1, <2>2 DEF JobIsClaimed
  <2>4. CASE Ack
    BY <1>3, <2>1, <2>3, <2>4 DEF Ack, JobIsClaimed
  <2>5. CASE JobFails
    BY <1>2, <1>4, <2>3, <2>5 DEF JobFails
  <2> QED
    BY <1>7, <2>4, <2>5
<1>8. \/ queue \subseteq queue' \/ Ack \/ JobFails
      \/ \E j \in queue : Fence(j) \/ ShortCircuit(j) \/ FetchFails(j)
  BY DEF Next, Publish, Worker, StartTick, FetchPage, Index, Advance, Ack, Receive, Claim, Failures, WalkCut,
         JobReturns, RebuildGoesOn, AcquireLock, Rejected, ResetWatermark, Harvest, Finish,
         Abort, Die, IngestOne, jobs, vars
<1> QED
  BY <1>6, <1>7, <1>8

LEMMA RecoveredStays ==
  ASSUME TypeInv, DlqIsReal, JobIsClaimed, [Next]_vars, NEW p \in Papers,
         stamp'[p] = stamp[p], Recovered(p)
  PROVE  Recovered(p)'
<1>1. CASE Indexed(p)
  BY <1>1, IndexedStays DEF Recovered
<1>2. CASE dlq[p] = stamp[p]
  BY <1>2, DlqStays DEF Recovered
<1>3. CASE Seed(p, stamp[p]) \in queue
  <2>1. CASE Seed(p, stamp[p]) \in queue'
    BY <2>1 DEF Recovered, Seed
  <2>2. CASE Seed(p, stamp[p]) \notin queue'
    BY <1>1, <1>3, <2>2, SeedIsUsed DEF Recovered
  <2> QED
    BY <2>1, <2>2
<1> QED
  BY <1>1, <1>2, <1>3 DEF Recovered

\* Steps that leave the rebuild alone.
LEMMA CoverStays ==
  ASSUME TypeInv, DlqIsReal, JobIsClaimed, [Next]_vars, NEW r \in Rebuilders, Covers(r),
         rebuild'[r] = rebuild[r], window'[r] = window[r], sent'[r] = sent[r],
         \A p \in Papers : stamp'[p] # stamp[p] => stamp'[p] > window[r]
  PROVE  Covers(r)'
<1>1. \A p \in Papers : stamp'[p] \in Nat /\ stamp[p] \in Nat /\ window[r] \in Nat
  <2>1. TypeInv'
    BY NextTypeInv
  <2> QED
    BY <2>1, HarvestBounds DEF TypeInv, Stores, RebuildTypes, Stamps
<1>2. sent[r] \subseteq Papers
  BY DEF TypeInv, RebuildTypes
<1>3. \A p \in Papers : stamp'[p] <= window[r] => stamp'[p] = stamp[p]
  BY <1>1
<1>4. ASSUME rebuild[r] \in {"harvest", "done"}, NEW p \in sent[r], stamp'[p] <= window[r]
      PROVE  Recovered(p)'
  <2>1. p \in Papers /\ stamp'[p] = stamp[p]
    BY <1>2, <1>3, <1>4
  <2>2. Recovered(p)
    BY <1>4, <2>1 DEF Covers
  <2> QED
    BY <2>1, <2>2, RecoveredStays
<1>5. ASSUME rebuild[r] = "done", NEW p \in Papers, stamp'[p] \in 1..window[r]
      PROVE  p \in sent[r]
  <2>1. stamp'[p] = stamp[p]
    BY <1>1, <1>3, <1>5
  <2> QED
    BY <1>5, <2>1 DEF Covers
<1>6. rebuild[r] \in {"ready", "locked"} => sent[r] = {}
  BY DEF Covers
<1> QED
  BY <1>4, <1>5, <1>6 DEF Covers

\* A rebuild queues the current version of each paper of its window, and ends when none
\* is left.
LEMMA CoverGrows ==
  ASSUME TypeInv, DlqIsReal, JobIsClaimed, NEW r \in Rebuilders, Covers(r), Next,
         RebuildGoesOn(r) \/ Abort(r) \/ Die(r)
  PROVE  Covers(r)'
<1>1. stamp' = stamp /\ rebuild \in [Rebuilders -> {"ready", "locked", "harvest", "done", "over"}]
      /\ window \in [Rebuilders -> Stamps] /\ sent \in [Rebuilders -> SUBSET Papers]
  BY DEF RebuildGoesOn, AcquireLock, Rejected, ResetWatermark, Harvest, Finish, Abort, Die,
         arxiv, TypeInv, RebuildTypes
<1>2. CASE AcquireLock(r)
  <2>1. rebuild[r] = "ready" /\ rebuild'[r] = "locked" /\ sent' = sent
    BY <1>1, <1>2 DEF AcquireLock, Goto
  <2> QED
    BY <2>1 DEF Covers
<1>3. CASE Rejected(r) \/ Abort(r) \/ Die(r)
  <2>1. rebuild'[r] = "over"
    BY <1>1, <1>3 DEF Rejected, Abort, Die, Goto
  <2> QED
    BY <2>1 DEF Covers
<1>4. ASSUME NEW end \in Stamps, ResetWatermark(r, end) PROVE Covers(r)'
  <2>1. rebuild[r] = "locked" /\ rebuild'[r] = "harvest" /\ sent' = sent
    BY <1>1, <1>4 DEF ResetWatermark, Goto
  <2> QED
    BY <2>1 DEF Covers
<1>5. CASE Harvest(r)
  <2>1. PICK p \in Unsent(r) :
            /\ queue' = queue \cup {Seed(p, stamp[p])}
            /\ sent' = [sent EXCEPT ![r] = @ \cup {p}]
    BY <1>5 DEF Harvest
  <2>2. /\ rebuild[r] = "harvest" /\ rebuild' = rebuild /\ window' = window
        /\ sent'[r] = sent[r] \cup {p}
    BY <1>1, <1>5, <2>1 DEF Harvest
  <2>3. Recovered(p)'
    BY <1>1, <2>1 DEF Recovered, Seed
  <2>4. ASSUME NEW q \in sent[r], stamp[q] <= window[r] PROVE Recovered(q)'
    <3>1. q \in Papers /\ Recovered(q)
      BY <1>1, <2>2, <2>4 DEF Covers
    <3> QED
      BY <1>1, <3>1, RecoveredStays
  <2>5. \A q \in sent'[r] : stamp'[q] <= window'[r] => Recovered(q)'
    BY <1>1, <2>2, <2>3, <2>4
  <2> QED
    BY <2>2, <2>5 DEF Covers
<1>6. CASE Finish(r)
  <2>1. /\ rebuild[r] = "harvest" /\ rebuild'[r] = "done" /\ window' = window /\ sent' = sent
        /\ Unsent(r) = {}
    BY <1>1, <1>6 DEF Finish, Goto
  <2>2. ASSUME NEW q \in sent[r], stamp[q] <= window[r] PROVE Recovered(q)'
    <3>1. q \in Papers /\ Recovered(q)
      BY <1>1, <2>1, <2>2 DEF Covers
    <3> QED
      BY <1>1, <3>1, RecoveredStays
  <2>3. ASSUME NEW p \in Papers, stamp[p] \in 1..window[r] PROVE p \in sent[r]
    <3>1. stamp[p] > 0 /\ stamp[p] <= window[r]
      BY <1>1, <2>3, HarvestBounds DEF Stamps
    <3> QED
      BY <2>1, <3>1 DEF Unsent
  <2> QED
    BY <1>1, <2>1, <2>2, <2>3 DEF Covers
<1> QED
  BY <1>2, <1>3, <1>4, <1>5, <1>6 DEF RebuildGoesOn

LEMMA RecoverNext ==
  ASSUME RecoverInv, [Next]_vars
  PROVE  RecoverInv'
<1>1. TypeInv /\ DlqIsReal /\ JobIsClaimed /\ \A r \in Rebuilders : Covers(r)
  BY DEF RecoverInv
<1>2. TypeInv' /\ DlqIsReal' /\ JobIsClaimed'
  BY <1>1, NextTypeInv, DlqIsRealStays, JobIsClaimedStays
<1>3. ASSUME NEW r \in Rebuilders PROVE Covers(r)'
  <2>1. ASSUME NEW o \in Rebuilders, RebuildGoesOn(o) \/ Abort(o) \/ Die(o)
        PROVE  Covers(r)'
    <3>1. CASE o = r
      BY <1>1, <2>1, <3>1, CoverGrows DEF Next
    <3>2. CASE o # r
      <4>1. rebuild'[r] = rebuild[r]
        BY <1>1, <2>1, <3>2 DEF RebuildGoesOn, AcquireLock, Rejected, ResetWatermark, Harvest,
                Finish, Abort, Die, Goto, TypeInv, RebuildTypes
      <4>2. window'[r] = window[r] /\ sent'[r] = sent[r] /\ stamp' = stamp
        BY <1>1, <2>1, <3>2 DEF RebuildGoesOn, AcquireLock, Rejected, ResetWatermark, Harvest,
                Finish, Abort, Die, TypeInv, RebuildTypes, arxiv
      <4> QED
        BY <1>1, <4>1, <4>2, CoverStays
    <3> QED
      BY <3>1, <3>2
  <2>2. ASSUME NEW p \in Papers, NEW s \in Stamps, Publish(p, s) PROVE Covers(r)'
    <3>1. /\ window[r] < s /\ UNCHANGED <<rebuild, window, sent>>
          /\ stamp' = [stamp EXCEPT ![p] = s]
      BY <2>2 DEF Publish, rebuilds
    <3>2. s \in Nat /\ window[r] \in Nat /\ s > window[r]
      BY <1>1, <3>1, HarvestBounds DEF Stamps, TypeInv, RebuildTypes
    <3>3. \A q \in Papers : stamp'[q] # stamp[q] => stamp'[q] > window[r]
      BY <1>1, <3>1, <3>2 DEF TypeInv, Stores
    <3> QED
      BY <1>1, <3>1, <3>3, CoverStays
  <2>3. CASE Worker \/ Failures \/ (\E p \in Papers : IngestOne(p)) \/ UNCHANGED vars
    <3>1. UNCHANGED <<stamp, rebuild, window, sent>>
      BY <2>3 DEF Worker, StartTick, FetchPage, Index, Advance, Ack, Receive, Fence, ShortCircuit,
              Claim, Failures, WalkCut, JobFails, JobReturns, FetchFails, IngestOne,
              arxiv, rebuilds, vars
    <3> QED
      BY <1>1, <3>1, CoverStays
  <2> QED
    BY <2>1, <2>2, <2>3 DEF Next
<1> QED
  BY <1>2, <1>3 DEF RecoverInv

\* However many rebuilds run, are aborted or killed, whatever the fence drops and the
\* worker fails at meanwhile, and although papers are revised and ingested by hand: a
\* rebuild that ran to its end has re-covered its window (trigger_full_rebuild,
\* process_message).
THEOREM RebuildCoversWindow == Spec => []RebuildRecovers
<1>1. RecoverInv => RebuildRecovers
  <2> SUFFICES ASSUME RecoverInv, NEW r \in Rebuilders, rebuild[r] = "done",
                      NEW p \in Papers, stamp[p] \in 1..window[r]
               PROVE  Accounted(p)
    BY DEF RebuildRecovers
  <2>1. p \in sent[r] /\ stamp[p] <= window[r]
    BY HarvestBounds DEF RecoverInv, Covers, TypeInv, Stores, RebuildTypes, Stamps
  <2>2. Recovered(p)
    BY <2>1 DEF RecoverInv, Covers
  <2> QED
    BY <2>2 DEF Recovered, Accounted
<1> QED
  BY <1>1, RecoverInit, RecoverNext, PTL DEF Spec
=============================================================================
