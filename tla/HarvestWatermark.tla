-------------------------- MODULE HarvestWatermark --------------------------
(***************************************************************************)
(* How U1 keeps up with arXiv: the scheduled tick lists what was updated   *)
(* since the watermark and queues it, the worker indexes the queue and     *)
(* moves the watermark, and an operator's full rebuild sets the watermark  *)
(* back and queues the corpus again under the rebuild lock.                *)
(*                                                                         *)
(* A paper is its place in the order of first appearance, which the model  *)
(* also takes for arXiv's order of ties; a version is the second in which  *)
(* it appeared (updated_at), 0 before the first.  The worker runs          *)
(* one message at a time (max_capacity=1 in the stack), be it a tick or a  *)
(* job; a rebuild is a process of its own.  A message that is redelivered  *)
(* stays in the queue, and the queue is a set: what a second copy of a job *)
(* would do, the dedup ledger absorbs.  A withdrawal moves the ledger and  *)
(* the watermark like an indexed paper.  A tick while the lock is held     *)
(* queues nothing and is not an action.                                    *)
(***************************************************************************)
EXTENDS Naturals, FiniteSets

CONSTANTS
    Papers,        \* a set of numbers
    MaxStamp,      \* bound: seconds at which a version appears
    MaxTie,        \* bound: versions that appear in one second
    Minute,        \* seconds in a minute, the resolution of the query's lower bound
    PageSize,      \* _ATOM_PAGE_SIZE
    MaxPages,      \* _MAX_INCREMENTAL_PAGES
    Rebuilders,    \* runs of trigger-full-rebuild
    MaxFaults,     \* bound: failed jobs, cut walks, crashes and aborted rebuilds
    MaxManual,     \* bound: runs of ingest-one
    Revised        \* whether a paper gets new versions

ASSUME HarvestBounds ==
    /\ Papers \subseteq Nat /\ IsFiniteSet(Papers)
    /\ {MaxStamp, MaxFaults, MaxManual} \subseteq Nat
    /\ {MaxTie, Minute, PageSize, MaxPages} \subseteq Nat \ {0}
    /\ Revised \in BOOLEAN

VARIABLES
    stamp,       \* the current version of each paper at arXiv
    watermark,   \* the watermark row of arxiv, 0 its start
    queue,       \* jobs in the queue
    ledger,      \* dedup_state: version, and whether the claim is still half open
    dlq,         \* the latest version of each paper that was sent to the DLQ
    work,        \* the job the worker is at, if any: its version and the last step done
    walk,        \* the tick the worker is at, if any: its watermark and next page
    lock,        \* whether the row of rebuild_lock exists
    rebuild,     \* the phase of each rebuild
    window,      \* CORPUS_END of each rebuild
    sent,        \* the papers each rebuild has queued
    faults, manual

arxiv == <<stamp>>
control == <<watermark, ledger>>
jobs == <<queue, dlq>>
worker == <<work, walk>>
rebuilds == <<lock, rebuild, window, sent>>
counts == <<faults, manual>>
vars == <<arxiv, control, jobs, worker, rebuilds, counts>>

Stamps == 0..MaxStamp

\* an INCREMENTAL job carries the reference alone, a seed the metadata of its harvest
Incremental(p) == [kind |-> "INCREMENTAL", paper |-> p, version |-> 0]
Seed(p, v) == [kind |-> "SEED_REBUILD", paper |-> p, version |-> v]
Jobs == [kind : {"INCREMENTAL", "SEED_REBUILD"}, paper : Papers, version : Stamps]

Steps == {"claimed", "indexed", "advanced"}

Busy == work.on \/ walk.on
Idle == [on |-> FALSE]

TypeOK ==
    /\ stamp \in [Papers -> Stamps]
    /\ watermark \in Stamps
    /\ queue \subseteq Jobs
    /\ ledger \in [Papers -> [version : Stamps, open : BOOLEAN]]
    /\ dlq \in [Papers -> Stamps]
    /\ \/ work = Idle
       \/ work \in [on : {TRUE}, job : queue, version : Stamps \ {0}, step : Steps]
    /\ walk = Idle \/ walk \in [on : {TRUE}, since : Stamps, page : 0..(MaxPages - 1)]
    /\ ~(work.on /\ walk.on)
    /\ lock \in BOOLEAN
    /\ rebuild \in [Rebuilders -> {"ready", "locked", "harvest", "done", "over"}]
    /\ window \in [Rebuilders -> Stamps]
    /\ sent \in [Rebuilders -> SUBSET Papers]
    /\ faults \in 0..MaxFaults
    /\ manual \in 0..MaxManual
    \* what the ledger calls current was published, and the worker holds the newest claim
    /\ \A p \in Papers : ledger[p].version <= stamp[p]
    /\ work.on => ledger[work.job.paper].version >= work.version

Init ==
    /\ stamp = [p \in Papers |-> 0]
    /\ watermark = 0
    /\ queue = {}
    /\ ledger = [p \in Papers |-> [version |-> 0, open |-> FALSE]]
    /\ dlq = [p \in Papers |-> 0]
    /\ work = Idle
    /\ walk = Idle
    /\ lock = FALSE
    /\ rebuild = [r \in Rebuilders |-> "ready"]
    /\ window = [r \in Rebuilders |-> 0]
    /\ sent = [r \in Rebuilders |-> {}]
    /\ faults = 0
    /\ manual = 0

Fault == faults < MaxFaults /\ faults' = faults + 1

-----------------------------------------------------------------------------
(* arXiv                                                                   *)

\* a new paper or a new version, never older than what is listed or than the
\* midnight at which a rebuild's window ended
Publish(p, s) ==
    /\ Revised \/ stamp[p] = 0
    /\ \A q \in Papers : q < p => stamp[q] > 0
    /\ s > stamp[p]
    /\ \A q \in Papers : stamp[q] <= s
    /\ \A r \in Rebuilders : window[r] < s
    /\ Cardinality({q \in Papers : stamp[q] = s}) < MaxTie
    /\ stamp' = [stamp EXCEPT ![p] = s]
    /\ UNCHANGED <<control, jobs, worker, rebuilds, counts>>

-----------------------------------------------------------------------------
(* The tick: on_schedule_tick, _queue_arxiv_incremental, fetch_incremental *)

\* the query's window, open above; its lower bound is rounded down to the minute
Listed(since) == {p \in Papers : stamp[p] > 0 /\ stamp[p] \div Minute >= since \div Minute}

Older(q, p) == stamp[q] < stamp[p] \/ (stamp[q] = stamp[p] /\ q < p)

\* the place of a record in the listing, oldest first
Place(p, since) == Cardinality({q \in Listed(since) : Older(q, p)})

Page ==
    {p \in Listed(walk.since) :
        /\ Place(p, walk.since) >= walk.page * PageSize
        /\ Place(p, walk.since) < (walk.page + 1) * PageSize}

\* mutant: the bound of the post-filter is strict
Taken_Strict(since) == {p \in Papers : stamp[p] > since}

\* the post-filter, inclusive at the second of the watermark
Taken(since) == {p \in Papers : stamp[p] >= since}

StartTick ==
    /\ ~Busy
    /\ ~lock
    /\ walk' = [on |-> TRUE, since |-> watermark, page |-> 0]
    /\ UNCHANGED <<arxiv, control, jobs, work, rebuilds, counts>>

LastPage == walk.page + 1 = MaxPages

\* a short page ends the walk, and so does the last page it may ask for
FetchPage ==
    /\ walk.on
    /\ queue' = queue \cup {Incremental(p) : p \in Page \cap Taken(walk.since)}
    /\ walk' = IF Cardinality(Page) < PageSize \/ LastPage
                 THEN Idle
                 ELSE [walk EXCEPT !.page = @ + 1]
    /\ UNCHANGED <<arxiv, control, dlq, work, rebuilds, counts>>

\* arXiv fails or answers an empty page, or the worker dies: what was queued stays
WalkCut ==
    /\ walk.on
    /\ Fault
    /\ \E p \in Page :
         LET read == {q \in Page : Older(q, p)} IN
         queue' = queue \cup {Incremental(q) : q \in read \cap Taken(walk.since)}
    /\ walk' = Idle
    /\ UNCHANGED <<arxiv, control, dlq, work, rebuilds, manual>>

-----------------------------------------------------------------------------
(* The worker: process_message, ingest_one, _index_paper                   *)

VersionOf(j) == IF j.kind = "SEED_REBUILD" THEN j.version ELSE stamp[j.paper]

Fenced(j) == j.kind = "INCREMENTAL" /\ lock

\* the job is dropped for the rebuild to cover
Fence(j) ==
    /\ ~Busy
    /\ Fenced(j)
    /\ queue' = queue \ {j}
    /\ UNCHANGED <<arxiv, control, dlq, worker, rebuilds, counts>>

\* mutant: a claim that was never closed counts as indexed
Known_HalfOpen(p, v) == v <= ledger[p].version

\* DUPLICATE or STALE
Known(p, v) ==
    v < ledger[p].version \/ (v = ledger[p].version /\ ~ledger[p].open)

\* the short circuit: acknowledged, and the watermark is left where it is
ShortCircuit(j) ==
    /\ ~Busy
    /\ ~Fenced(j)
    /\ Known(j.paper, VersionOf(j))
    /\ queue' = queue \ {j}
    /\ UNCHANGED <<arxiv, control, dlq, worker, rebuilds, counts>>

\* begin_upsert
Claim(j) ==
    /\ ~Busy
    /\ ~Fenced(j)
    /\ ~Known(j.paper, VersionOf(j))
    /\ ledger' = [ledger EXCEPT ![j.paper] = [version |-> VersionOf(j), open |-> TRUE]]
    /\ work' = [on |-> TRUE, job |-> j, version |-> VersionOf(j), step |-> "claimed"]
    /\ UNCHANGED <<arxiv, watermark, jobs, walk, rebuilds, counts>>

\* the chunks are written, then mark_ingested
Index ==
    /\ work.on
    /\ work.step = "claimed"
    /\ LET p == work.job.paper IN
       ledger' = [ledger EXCEPT ![p].open = @ /\ ledger[p].version # work.version]
    /\ work' = [work EXCEPT !.step = "indexed"]
    /\ UNCHANGED <<arxiv, watermark, jobs, walk, rebuilds, counts>>

Higher(a, b) == IF a > b THEN a ELSE b

\* mutant: the watermark follows the last paper
advance_watermark_Last(v) == watermark' = v

advance_watermark(v) == watermark' = Higher(watermark, v)

Advance ==
    /\ work.on
    /\ work.step = "indexed"
    /\ advance_watermark(work.version)
    /\ work' = [work EXCEPT !.step = "advanced"]
    /\ UNCHANGED <<arxiv, ledger, jobs, walk, rebuilds, counts>>

\* ingest_one has returned and the message is acknowledged
Ack ==
    /\ work.on
    /\ work.step = "advanced"
    /\ queue' = queue \ {work.job}
    /\ work' = Idle
    /\ UNCHANGED <<arxiv, control, dlq, walk, rebuilds, counts>>

\* a permanent or unexpected error before the claim, in the fetch or the parse
FetchFails(j) ==
    /\ ~Busy
    /\ ~Fenced(j)
    /\ Fault
    /\ dlq' = [dlq EXCEPT ![j.paper] = Higher(@, VersionOf(j))]
    /\ queue' = queue \ {j}
    /\ UNCHANGED <<arxiv, control, worker, rebuilds, manual>>

\* the same after the claim, or the third receive: to the DLQ
JobFails ==
    /\ work.on
    /\ Fault
    /\ dlq' = [dlq EXCEPT ![work.job.paper] = Higher(@, work.version)]
    /\ queue' = queue \ {work.job}
    /\ work' = Idle
    /\ UNCHANGED <<arxiv, control, walk, rebuilds, manual>>

\* a retriable error, or the worker dies: the message becomes visible again
JobReturns ==
    /\ work.on
    /\ Fault
    /\ work' = Idle
    /\ UNCHANGED <<arxiv, control, jobs, walk, rebuilds, manual>>

-----------------------------------------------------------------------------
(* The command line: trigger_full_rebuild and ingest-one                   *)

Goto(r, phase) == rebuild' = [rebuild EXCEPT ![r] = phase]

AcquireLock(r) ==
    /\ rebuild[r] = "ready"
    /\ ~lock
    /\ lock' = TRUE
    /\ Goto(r, "locked")
    /\ UNCHANGED <<arxiv, control, jobs, worker, window, sent, counts>>

Rejected(r) ==
    /\ rebuild[r] = "ready"
    /\ lock
    /\ Goto(r, "over")
    /\ UNCHANGED <<arxiv, control, jobs, worker, lock, window, sent, counts>>

\* CORPUS_END was the last midnight when the process started
ResetWatermark(r, end) ==
    /\ rebuild[r] = "locked"
    /\ \E p \in Papers : stamp[p] >= end
    /\ watermark' = 0
    /\ window' = [window EXCEPT ![r] = end]
    /\ Goto(r, "harvest")
    /\ UNCHANGED <<arxiv, ledger, jobs, worker, lock, sent, counts>>

\* mutant: the harvest asks from the watermark it found
Unsent_FromWatermark(r) ==
    {p \in Papers \ sent[r] : stamp[p] > watermark /\ stamp[p] <= window[r]}

Unsent(r) == {p \in Papers \ sent[r] : stamp[p] > 0 /\ stamp[p] <= window[r]}

\* harvest_seed goes category by category, so in no order of time
Harvest(r) ==
    /\ rebuild[r] = "harvest"
    /\ \E p \in Unsent(r) :
         /\ queue' = queue \cup {Seed(p, stamp[p])}
         /\ sent' = [sent EXCEPT ![r] = @ \cup {p}]
    /\ UNCHANGED <<arxiv, control, dlq, worker, lock, rebuild, window, counts>>

Finish(r) ==
    /\ rebuild[r] = "harvest"
    /\ Unsent(r) = {}
    /\ lock' = FALSE
    /\ Goto(r, "done")
    /\ UNCHANGED <<arxiv, control, jobs, worker, window, sent, counts>>

\* the harvest raises and the finally clause releases the lock
Abort(r) ==
    /\ rebuild[r] \in {"locked", "harvest"}
    /\ Fault
    /\ lock' = FALSE
    /\ Goto(r, "over")
    /\ UNCHANGED <<arxiv, control, jobs, worker, window, sent, manual>>

\* the process is killed: nothing ever removes its row
Die(r) ==
    /\ rebuild[r] \in {"locked", "harvest"}
    /\ Fault
    /\ Goto(r, "over")
    /\ UNCHANGED <<arxiv, control, jobs, worker, lock, window, sent, manual>>

\* ingest-one runs the pipeline at once, beside the worker and past the fence
IngestOne(p) ==
    /\ manual < MaxManual
    /\ manual' = manual + 1
    /\ stamp[p] > 0
    /\ ~Known(p, stamp[p])
    /\ ledger' = [ledger EXCEPT ![p] = [version |-> stamp[p], open |-> FALSE]]
    /\ advance_watermark(stamp[p])
    /\ UNCHANGED <<arxiv, jobs, worker, rebuilds, faults>>

-----------------------------------------------------------------------------
Receive(j) == Fence(j) \/ ShortCircuit(j) \/ Claim(j)

Worker == StartTick \/ FetchPage \/ Index \/ Advance \/ Ack \/ (\E j \in queue : Receive(j))

Failures == WalkCut \/ JobFails \/ JobReturns \/ (\E j \in queue : FetchFails(j))

RebuildGoesOn(r) ==
    AcquireLock(r) \/ Rejected(r) \/ (\E end \in Stamps : ResetWatermark(r, end)) \/ Harvest(r) \/ Finish(r)

Next ==
    \/ \E p \in Papers, s \in Stamps : Publish(p, s)
    \/ Worker
    \/ Failures
    \/ \E r \in Rebuilders : RebuildGoesOn(r) \/ Abort(r) \/ Die(r)
    \/ \E p \in Papers : IngestOne(p)

Spec == Init /\ [][Next]_vars

\* The scheduler keeps ticking, SQS delivers every message it keeps, and a
\* worker or a rebuild that has begun something goes on with it.
FairSpec ==
    /\ Spec
    /\ SF_vars(StartTick)
    /\ WF_vars(FetchPage)
    /\ \A p \in Papers : SF_vars(\E j \in queue : j.paper = p /\ Receive(j))
    /\ WF_vars(Index)
    /\ WF_vars(Advance)
    /\ WF_vars(Ack)
    /\ \A r \in Rebuilders : WF_vars(RebuildGoesOn(r) /\ rebuild[r] # "ready")

-----------------------------------------------------------------------------
(* Properties                                                              *)

Indexed(p) == ledger[p].version = stamp[p] /\ ~ledger[p].open

\* the current version is indexed, set aside for the operator, or on its way
Accounted(p) ==
    \/ Indexed(p)
    \/ dlq[p] = stamp[p]
    \/ Incremental(p) \in queue
    \/ Seed(p, stamp[p]) \in queue

Lost(p) == stamp[p] > 0 /\ stamp[p] < watermark /\ ~Accounted(p)

\* What a walk did not get to stays above the watermark for the next tick
\* (fetch_incremental's page cap, cut walks and inclusive bound, the order
\* mark_ingested - advance_watermark - ack, the DLQ): no published version is
\* below the watermark without being accounted for.
NoGap == \A p \in Papers : ~Lost(p)

\* A rebuild that ran to its end has re-covered its window, whatever the fence
\* dropped, the worker failed at and other rebuilds did meanwhile
\* (trigger_full_rebuild, the fence of process_message).
RebuildRecovers ==
    \A r \in Rebuilders : rebuild[r] = "done" =>
        \A p \in Papers : stamp[p] \in 1..window[r] => Accounted(p)

\* Only a rebuild that holds the lock alone sets the watermark back
\* (advance_watermark clamps, reset_watermark_for_rebuild is under the lock).
BackOnlyUnderLock ==
    [][watermark' < watermark =>
        /\ lock
        /\ \E r \in Rebuilders :
             /\ rebuild[r] = "locked"
             /\ \A o \in Rebuilders \ {r} : rebuild[o] \notin {"locked", "harvest"}]_vars

\* The backlog empties again and again: the ticks make their way through
\* whatever has appeared until all of it is indexed or set aside (on_schedule_tick, the page cap of
\* fetch_incremental, the inclusive bound), as long as the jobs that fail or
\* are indexed without moving the watermark, and the papers of one minute, do not fill a walk.
\* (What is lost below the watermark is NoGap's business.)
KeepsUp ==
    []<>(\A p \in Papers : Lost(p) \/ Indexed(p) \/ dlq[p] = stamp[p])
=============================================================================
