------------------------ MODULE PaperIngestionProofs ------------------------
(***************************************************************************)
(* The paper pipeline for every library of records, every sequence of      *)
(* messages, and every number of crashes and errors.  PaperInv says what   *)
(* the worker may rely on at each step of a job: the claim it holds in the *)
(* ledger, and what it has already written.  RowInv(work) keeps canonical  *)
(* rows within one work, so that an arXiv paper never is the loser of      *)
(* another; ArxivInv then ties the ledger row of an arXiv paper to its     *)
(* chunks and to the jobs that were or still have to be done.  Until the   *)
(* first fault QuietPapers says the same of every paper, and Agreement     *)
(* that ledger, index and canonical rows agree on the winner of each work. *)
(***************************************************************************)
EXTENDS PaperIngestion, TLAPS

Claimed == {"build", "exclude", "index", "stale", "mark"}
Closing == {"canonical", "loser", "unlink", "winner"}
Removing == {"tombstone", "forget"}

\* A message is deleted from the queue only at the end of its job.
JobIsQueued == pc # "idle" => job \in queue

IdleIsClean == pc = "idle" => existing = NoRow /\ row = NoRow /\ todo = {}

\* Which branch of _index_paper a job takes depends on its record alone.
BranchFits ==
    /\ pc \in {"evaluate", "claim"} \union Claimed \union Closing => ~job.withdrawn
    /\ pc \in {"withdraw"} \union Removing => job.withdrawn

\* What the ledger says of the worker's paper, step by step.
ClaimHeld ==
    /\ pc \in Claimed =>
           /\ ledger[paper].version = job.version
           /\ ~ledger[paper].closed /\ ledger[paper].state = "INDEXED"
    /\ pc \in Closing => ledger[paper].version = job.version /\ ledger[paper].closed
    /\ pc \in Removing =>
           /\ ledger[paper].version = job.version
           /\ ~ledger[paper].closed /\ ledger[paper].state = "TOMBSTONED"

\* What the index holds of the worker's paper, step by step.
Written ==
    /\ pc = "stale" =>
           \A n \in 1..SizeOf[job.record][job.version] : chunks[paper][n] = document[n]
    /\ pc = "mark" => chunks[paper] = document
    /\ pc = "forget" => chunks[paper] = NoDocument

LoserIsOther ==
    pc \in {"loser", "unlink"} => existing # NoRow /\ existing.paper # paper

\* Only a claim moves a row away from its initial state, and only mark_ingested closes it.
RowsOfLedger ==
    \A p \in Papers :
        /\ ledger[p].closed => ledger[p].state = "INDEXED"
        /\ ledger[p].version = 0 => ~ledger[p].closed /\ ledger[p].state = "INDEXED"

PaperInv ==
    /\ TypeOK /\ JobIsQueued /\ IdleIsClean /\ BranchFits /\ ClaimHeld
    /\ Written /\ LoserIsOther /\ RowsOfLedger /\ NoMixedDocument

-----------------------------------------------------------------------------
\* Rows of the canonical state.

\* A record of the row's paper wrote it.
RealRow(r) ==
    r = NoRow \/ \E s \in Records : PaperOf[s] = r.paper /\ PriorityOf[s] = r.priority

\* All records with the key are of the paper's work.
OfWork(work, k, p) == \A s \in Records : k \in KeysOf[s] => work[PaperOf[s]] = work[p]

CanonInv(work) ==
    \A k \in Keys :
        /\ RealRow(canon[k])
        /\ canon[k] # NoRow => OfWork(work, k, canon[k].paper)

\* The rows the worker read and is to write, and the keys it is to write them to.
WorkerInv(work) ==
    /\ RealRow(existing) /\ RealRow(row)
    /\ pc # "idle" =>
           /\ existing # NoRow => work[existing.paper] = work[paper]
           /\ row # NoRow => work[row.paper] = work[paper]
           /\ \A k \in todo : OfWork(work, k, paper)
    /\ pc \notin {"idle", "alias"} =>
           \/ existing = NoRow
           \/ PriorityOf[job.record] = 0
           \/ PriorityOf[job.record] < existing.priority
    /\ pc = "alias" => PriorityOf[job.record] > 0

RowInv(work) == CanonInv(work) /\ WorkerInv(work)

-----------------------------------------------------------------------------
\* ArXiv papers.

Arxiv == {r \in Records : PriorityOf[r] = 0}

\* A job of the record and version is still to be done.
Pending(r, v) == \E j \in queue \union dlq : j.record = r /\ j.version = v

ClosedIsWhole(r) ==
    ledger[PaperOf[r]].closed =>
        chunks[PaperOf[r]] = Document(r, ledger[PaperOf[r]].version)

\* The ledger row was claimed by a job of its version, which said whether to remove it.
ClaimedByJob(r) ==
    ledger[PaperOf[r]].version > 0 =>
        \E j \in done \union queue \union dlq :
            /\ j.record = r /\ j.version = ledger[PaperOf[r]].version
            /\ j.withdrawn <=> ledger[PaperOf[r]].state = "TOMBSTONED"

Finished(r) ==
    \/ ledger[PaperOf[r]].closed
    \/ ledger[PaperOf[r]].state = "TOMBSTONED" /\ chunks[PaperOf[r]] = NoDocument

OpenIsPending(r) ==
    ledger[PaperOf[r]].version > 0 => Finished(r) \/ Pending(r, ledger[PaperOf[r]].version)

DoneIsNoNewer(r) == \A j \in done : j.record = r => j.version <= ledger[PaperOf[r]].version

ArxivOf(r) == ClosedIsWhole(r) /\ ClaimedByJob(r) /\ OpenIsPending(r) /\ DoneIsNoNewer(r)

ArxivInv == \A r \in Arxiv : ArxivOf(r)

-----------------------------------------------------------------------------
\* Facts about the constants.

LEMMA BoundsAreNat ==
  MaxVersion \in Nat /\ MaxChunks \in Nat /\ MaxSends \in Nat /\ MaxFaults \in Nat
BY PaperBounds

LEMMA JobParts ==
  ASSUME NEW j \in Jobs
  PROVE  /\ j.record \in Records /\ j.version \in Versions /\ j.withdrawn \in BOOLEAN
         /\ PaperOf[j.record] \in Papers
         /\ PriorityOf[j.record] \in 0..2
         /\ KeysOf[j.record] \in SUBSET Keys
         /\ SizeOf[j.record][j.version] \in Ordinals
         /\ j # NoJob
         /\ j = [record |-> j.record, version |-> j.version, withdrawn |-> j.withdrawn]
<1>1. j \in [record : Records, version : Versions, withdrawn : BOOLEAN]
  BY PaperBounds
<1>2. j.record \in Records /\ j.version \in Versions /\ j.withdrawn \in BOOLEAN
  BY <1>1
<1>3. j.version # 0
  BY <1>2, BoundsAreNat DEF Versions
<1>4. j # NoJob
  BY <1>3 DEF NoJob
<1>5. PaperOf[j.record] \in Papers
  BY <1>2 DEF Papers
<1>6. PriorityOf[j.record] \in 0..2 /\ KeysOf[j.record] \in SUBSET Keys
  BY <1>2, PaperBounds
<1>7. SizeOf[j.record][j.version] \in Ordinals
  BY <1>2, PaperBounds
<1>8. j = [record |-> j.record, version |-> j.version, withdrawn |-> j.withdrawn]
  BY <1>1
<1> QED
  BY <1>2, <1>4, <1>5, <1>6, <1>7, <1>8

\* What a document consists of.
LEMMA DocumentParts ==
  ASSUME NEW r \in Records, NEW v \in Versions
  PROVE  /\ DOMAIN Document(r, v) = Ordinals
         /\ Document(r, v) \in
                [Ordinals -> [record : Records, version : Versions] \union {NoChunk}]
BY DEF Document

\* A worker that is at a job has one of the queue's.
LEMMA WorkerHasJob ==
  ASSUME TypeOK, pc # "idle"
  PROVE  job \in Jobs
BY DEF TypeOK

-----------------------------------------------------------------------------
\* Types.

ChunkMaps == [Ordinals -> [record : Records, version : Versions] \union {NoChunk}]

LEMMA InitTypes == Init => TypeOK
<1> SUFFICES ASSUME Init PROVE TypeOK
  OBVIOUS
<1>1. queue \in SUBSET Jobs /\ dlq \in SUBSET Jobs /\ done \in SUBSET Jobs /\ todo \in SUBSET Keys
  BY DEF Init
<1>2. ledger \in [Papers -> [version : 0..MaxVersion, closed : BOOLEAN, state : States]]
  BY BoundsAreNat DEF Init, States
<1>3. chunks \in [Papers -> ChunkMaps]
  BY DEF Init, NoDocument, ChunkMaps
<1>4. canon \in [Keys -> Rows \union {NoRow}]
  BY DEF Init
<1>5. /\ pc \in Steps \union {"idle"} /\ job \in Jobs \union {NoJob}
      /\ pc = "idle" /\ job = NoJob
      /\ existing \in Rows \union {NoRow} /\ row \in Rows \union {NoRow}
  BY DEF Init
<1>6. sends \in 0..MaxSends /\ faults \in 0..MaxFaults
  BY BoundsAreNat DEF Init
<1> QED
  BY <1>1, <1>2, <1>3, <1>4, <1>5, <1>6 DEF TypeOK, ChunkMaps

\* One more error, within the bound.
LEMMA TroubleTypes ==
  ASSUME faults \in 0..MaxFaults, Trouble
  PROVE  faults' \in 0..MaxFaults
BY BoundsAreNat DEF Trouble

\* Going on with the same job, from one step of it to another.
LEMMA GotoTypes ==
  ASSUME TypeOK, pc # "idle", NEW step \in Steps, Goto(step)
  PROVE  /\ pc' \in Steps /\ pc' # "idle"
         /\ job' \in Jobs \union {NoJob} /\ (pc' = "idle") = (job' = NoJob)
         /\ existing' \in Rows \union {NoRow} /\ row' \in Rows \union {NoRow}
         /\ todo' \in SUBSET Keys
<1>1. pc' = step /\ job' = job /\ existing' = existing /\ row' = row /\ todo' = todo
  BY DEF Goto
<1>2. step # "idle"
  BY DEF Steps
<1> QED
  BY <1>1, <1>2 DEF TypeOK

LEMMA IdleTypes ==
  ASSUME Idle
  PROVE  /\ pc' \in Steps \union {"idle"}
         /\ job' \in Jobs \union {NoJob} /\ (pc' = "idle") = (job' = NoJob)
         /\ existing' \in Rows \union {NoRow} /\ row' \in Rows \union {NoRow}
         /\ todo' \in SUBSET Keys
BY DEF Idle

LedgerMaps == [Papers -> [version : 0..MaxVersion, closed : BOOLEAN, state : States]]

WorkerTypes ==
    /\ pc \in Steps \union {"idle"}
    /\ job \in Jobs \union {NoJob} /\ (pc = "idle") = (job = NoJob)
    /\ existing \in Rows \union {NoRow} /\ row \in Rows \union {NoRow}
    /\ todo \in SUBSET Keys

\* TypeOK after a step, from what each action has to show of the parts it changes.
LEMMA TypeParts ==
  ASSUME TypeOK, WorkerTypes',
         queue' \in SUBSET Jobs, dlq' \in SUBSET Jobs, done' \in SUBSET Jobs,
         ledger' \in LedgerMaps, chunks' \in [Papers -> ChunkMaps],
         canon' \in [Keys -> Rows \union {NoRow}],
         sends' \in 0..MaxSends, faults' \in 0..MaxFaults
  PROVE  TypeOK'
BY DEF TypeOK, WorkerTypes, LedgerMaps, ChunkMaps

LEMMA TypesOfParts ==
  ASSUME TypeOK
  PROVE  /\ WorkerTypes
         /\ queue \in SUBSET Jobs /\ dlq \in SUBSET Jobs /\ done \in SUBSET Jobs
         /\ ledger \in LedgerMaps /\ chunks \in [Papers -> ChunkMaps]
         /\ canon \in [Keys -> Rows \union {NoRow}]
         /\ sends \in 0..MaxSends /\ faults \in 0..MaxFaults
BY DEF TypeOK, WorkerTypes, LedgerMaps, ChunkMaps

\* The end of a job, whether it is acknowledged, buried or left to be retried.
LEMMA EndTypes ==
  ASSUME TypeOK, pc # "idle", Ack \/ Bury \/ Interrupted, done' = done \/ Ack, dlq' = dlq \/ Bury
  PROVE  /\ WorkerTypes'
         /\ queue' \in SUBSET Jobs /\ dlq' \in SUBSET Jobs /\ done' \in SUBSET Jobs
<1>1. Idle
  BY DEF Ack, Bury, Interrupted
<1>2. WorkerTypes'
  BY <1>1, IdleTypes DEF WorkerTypes
<1>3. queue' \in SUBSET Jobs
  BY DEF Ack, Bury, Interrupted, TypeOK
<1>4. dlq' \in SUBSET Jobs /\ done' \in SUBSET Jobs
  BY WorkerHasJob DEF Ack, Bury, TypeOK
<1> QED
  BY <1>2, <1>3, <1>4

\* Chunks after some were written or deleted.
LEMMA ChunkTypes ==
  ASSUME TypeOK, NEW p \in Papers, NEW gone \in SUBSET Ordinals, NEW new,
         \A n \in gone : new[n] \in [record : Records, version : Versions] \union {NoChunk},
         chunks' = [chunks EXCEPT ![p] =
               [n \in Ordinals |-> IF n \in gone THEN new[n] ELSE @[n]]]
  PROVE  chunks' \in [Papers -> ChunkMaps]
<1>1. chunks[p] \in ChunkMaps
  BY TypesOfParts
<1>2. [n \in Ordinals |-> IF n \in gone THEN new[n] ELSE chunks[p][n]] \in ChunkMaps
  BY <1>1 DEF ChunkMaps
<1> QED
  BY <1>2, TypesOfParts

LEMMA DeleteTypes ==
  ASSUME TypeOK, pc # "idle", NEW p \in Papers, NEW which \in SUBSET Ordinals,
         NEW next \in Steps, DeleteChunks(p, which, next)
  PROVE  TypeOK'
<1>1. PICK gone \in SUBSET which :
        /\ chunks' = [chunks EXCEPT ![p] =
               [n \in Ordinals |-> IF n \in gone THEN NoChunk ELSE @[n]]]
        /\ IF gone = which
           THEN Goto(next) /\ UNCHANGED faults
           ELSE Trouble /\ Idle
  BY DEF DeleteChunks
<1>2. chunks' \in [Papers -> ChunkMaps]
  <2> DEFINE new == NoDocument
  <2>1. \A n \in gone : new[n] = NoChunk
    BY DEF NoDocument
  <2>2. chunks' = [chunks EXCEPT ![p] =
               [n \in Ordinals |-> IF n \in gone THEN new[n] ELSE @[n]]]
    BY <1>1, <2>1
  <2> HIDE DEF new
  <2> QED
    BY <2>1, <2>2, ChunkTypes
<1>3. WorkerTypes' /\ faults' \in 0..MaxFaults
  <2>1. CASE gone = which
    BY <1>1, <2>1, GotoTypes DEF WorkerTypes, TypeOK
  <2>2. CASE gone # which
    BY <1>1, <2>2, IdleTypes, TroubleTypes DEF WorkerTypes, TypeOK
  <2> QED
    BY <2>1, <2>2
<1>4. UNCHANGED <<queue, dlq, ledger, canon, done, sends>>
  BY DEF DeleteChunks
<1> QED
  BY <1>2, <1>3, <1>4, TypesOfParts, TypeParts

\* The paper of a job at work, and the row that says so.
LEMMA OwnTypes ==
  ASSUME TypeOK, pc # "idle"
  PROVE  /\ job \in Jobs /\ paper \in Papers /\ own \in Rows
         /\ document \in ChunkMaps
         /\ 1..SizeOf[job.record][job.version] \in SUBSET Ordinals
<1>1. job \in Jobs /\ job.record \in Records /\ job.version \in Versions
  BY WorkerHasJob, JobParts
<1>2. paper \in Papers /\ own \in Rows
  BY <1>1, JobParts DEF paper, own, Rows
<1>3. document \in ChunkMaps
  BY <1>1, DocumentParts DEF document, ChunkMaps
<1>4. SizeOf[job.record][job.version] \in 1..MaxChunks
  BY <1>1, JobParts DEF Ordinals
<1>5. 1..SizeOf[job.record][job.version] \in SUBSET Ordinals
  BY <1>4, BoundsAreNat DEF Ordinals
<1> QED
  BY <1>1, <1>2, <1>3, <1>5

LEMMA BeginTypes ==
  ASSUME TypeOK, NEW j \in Jobs, Begin(j)
  PROVE  TypeOK'
<1>1. existing' \in Rows \union {NoRow}
  <2>1. existing' \in CanonicalState(KeysOf[j.record])
    BY DEF Begin
  <2>2. existing' \in {canon[k] : k \in KeysOf[j.record]} \union {NoRow}
    BY <2>1 DEF CanonicalState
  <2> QED
    BY <2>2, JobParts DEF TypeOK
<1>2. job' = j /\ job' # NoJob
  BY JobParts DEF Begin
<1>3. /\ pc' \in Steps /\ pc' # "idle"
      /\ row' \in Rows \union {NoRow} /\ todo' \in SUBSET Keys
  BY <1>1, JobParts DEF Begin, TypeOK, Steps
<1>4. WorkerTypes'
  BY <1>1, <1>2, <1>3 DEF WorkerTypes
<1> QED
  BY <1>4, TypesOfParts, TypeParts DEF Begin, stores

LEMMA WriteRowTypes ==
  ASSUME TypeOK, NEW k \in Keys, WriteRow(k)
  PROVE  TypeOK'
<1>1. pc # "idle"
  BY DEF WriteRow
<1>2. canon' \in [Keys -> Rows \union {NoRow}]
  BY DEF WriteRow, TypeOK
<1>3. /\ WorkerTypes'
      /\ queue' \in SUBSET Jobs /\ done' \in SUBSET Jobs
  <2>1. CASE todo = {k}
    <3>1. Ack /\ UNCHANGED dlq
      BY <2>1 DEF WriteRow
    <3> QED
      BY <1>1, <3>1, EndTypes
  <2>2. CASE todo # {k}
    BY <2>2 DEF WriteRow, WorkerTypes, TypeOK
  <2> QED
    BY <2>1, <2>2
<1> QED
  BY <1>2, <1>3, TypesOfParts, TypeParts DEF WriteRow

\* A claim or a mark writes the row of the worker's paper.
LEMMA LedgerTypes ==
  ASSUME TypeOK, pc # "idle", NEW state \in States, NEW closed \in BOOLEAN,
         ledger' = [ledger EXCEPT ![paper] =
             [version |-> job.version, closed |-> closed, state |-> state]]
  PROVE  ledger' \in LedgerMaps
<1>1. job.version \in 0..MaxVersion
  BY OwnTypes, JobParts, BoundsAreNat DEF Versions
<1>2. [version |-> job.version, closed |-> closed, state |-> state]
         \in [version : 0..MaxVersion, closed : BOOLEAN, state : States]
  BY <1>1
<1> QED
  BY <1>2, OwnTypes, TypesOfParts DEF LedgerMaps

\* The two claims: the row is written and the job goes on, or the job is over.
LEMMA ClaimTypes ==
  ASSUME TypeOK, pc # "idle", NEW state \in States, NEW next \in Steps,
         \/ /\ ledger' = [ledger EXCEPT ![paper] =
                   [version |-> job.version, closed |-> FALSE, state |-> state]]
            /\ Goto(next) /\ UNCHANGED <<queue, done>>
         \/ Ack /\ UNCHANGED ledger,
         UNCHANGED <<dlq, chunks, canon, sends, faults>>
  PROVE  TypeOK'
<1>1. CASE /\ ledger' = [ledger EXCEPT ![paper] =
                 [version |-> job.version, closed |-> FALSE, state |-> state]]
           /\ Goto(next) /\ UNCHANGED <<queue, done>>
  <2>1. ledger' \in LedgerMaps
    BY <1>1, LedgerTypes
  <2>2. WorkerTypes'
    BY <1>1, GotoTypes DEF WorkerTypes
  <2> QED
    BY <1>1, <2>1, <2>2, TypesOfParts, TypeParts
<1>2. CASE Ack /\ UNCHANGED ledger
  <2>1. WorkerTypes' /\ queue' \in SUBSET Jobs /\ done' \in SUBSET Jobs
    BY <1>2, EndTypes
  <2> QED
    BY <1>2, <2>1, TypesOfParts, TypeParts
<1> QED
  BY <1>1, <1>2

LEMMA EvaluateTypes ==
  ASSUME TypeOK, Evaluate
  PROVE  TypeOK'
<1>1. pc # "idle"
  BY DEF Evaluate
<1>2. \/ Ack
      \/ Goto("canonical") /\ UNCHANGED <<queue, done>>
      \/ Goto("claim") /\ UNCHANGED <<queue, done>>
  BY DEF Evaluate
<1>3. UNCHANGED <<dlq, ledger, chunks, canon, sends, faults>>
  BY DEF Evaluate, stores
<1>4. CASE Ack
  BY <1>1, <1>3, <1>4, EndTypes, TypesOfParts, TypeParts
<1>5. CASE Goto("canonical") /\ UNCHANGED <<queue, done>>
  <2>1. WorkerTypes'
    BY <1>1, <1>5, GotoTypes DEF WorkerTypes, Steps
  <2> QED
    BY <1>3, <1>5, <2>1, TypesOfParts, TypeParts
<1>6. CASE Goto("claim") /\ UNCHANGED <<queue, done>>
  <2>1. WorkerTypes'
    BY <1>1, <1>6, GotoTypes DEF WorkerTypes, Steps
  <2> QED
    BY <1>3, <1>6, <2>1, TypesOfParts, TypeParts
<1> QED
  BY <1>2, <1>4, <1>5, <1>6

LEMMA ExcludeTypes ==
  ASSUME TypeOK, Exclude
  PROVE  TypeOK'
<1>1. pc # "idle" /\ Bury /\ UNCHANGED <<chunks, canon, done, sends>>
  BY DEF Exclude
<1>2. ledger' \in LedgerMaps
  <2>1. CASE UNCHANGED ledger
    BY <2>1, TypesOfParts
  <2>2. CASE ledger' = [ledger EXCEPT ![paper].state =
                 IF /\ ledger[paper].version = job.version
                    /\ ~ledger[paper].closed
                    /\ @ = "INDEXED"
                 THEN "EXCLUDED" ELSE @]
    <3>1. "EXCLUDED" \in States
      BY DEF States
    <3> QED
      BY <1>1, <2>2, <3>1, OwnTypes, TypesOfParts DEF LedgerMaps
  <2> QED
    BY <2>1, <2>2 DEF Exclude
<1>3. faults' \in 0..MaxFaults
  BY <1>1, TroubleTypes DEF Bury, TypeOK
<1> QED
  BY <1>1, <1>2, <1>3, EndTypes, TypesOfParts, TypeParts

LEMMA BulkUpsertTypes ==
  ASSUME TypeOK, BulkUpsert
  PROVE  TypeOK'
<1>1. pc # "idle" /\ UNCHANGED <<queue, dlq, ledger, canon, done, sends>>
  BY DEF BulkUpsert
<1>2. PICK written \in SUBSET (1..SizeOf[job.record][job.version]) :
        /\ chunks' = [chunks EXCEPT ![paper] =
               [n \in Ordinals |-> IF n \in written THEN document[n] ELSE @[n]]]
        /\ IF written = 1..SizeOf[job.record][job.version]
           THEN Goto("stale") /\ UNCHANGED faults
           ELSE Trouble /\ Idle
  BY DEF BulkUpsert
<1>3. chunks' \in [Papers -> ChunkMaps]
  <2>1. written \in SUBSET Ordinals
    BY <1>1, OwnTypes
  <2>2. \A n \in written :
           document[n] \in [record : Records, version : Versions] \union {NoChunk}
    BY <1>1, <2>1, OwnTypes DEF ChunkMaps
  <2> QED
    BY <1>1, <1>2, <2>1, <2>2, OwnTypes, ChunkTypes
<1>4. WorkerTypes' /\ faults' \in 0..MaxFaults
  <2>1. CASE written = 1..SizeOf[job.record][job.version]
    BY <1>1, <1>2, <2>1, GotoTypes DEF WorkerTypes, TypeOK, Steps
  <2>2. CASE written # 1..SizeOf[job.record][job.version]
    BY <1>2, <2>2, IdleTypes, TroubleTypes DEF WorkerTypes, TypeOK
  <2> QED
    BY <2>1, <2>2
<1> QED
  BY <1>1, <1>3, <1>4, TypesOfParts, TypeParts

LEMMA MarkTypes ==
  ASSUME TypeOK, MarkIngested
  PROVE  TypeOK'
<1>1. pc # "idle" /\ Goto("canonical")
      /\ UNCHANGED <<queue, dlq, chunks, canon, done, sends, faults>>
  BY DEF MarkIngested
<1>2. ledger' \in LedgerMaps
  <2>1. "INDEXED" \in States
    BY DEF States
  <2> QED
    BY <1>1, <2>1, TypesOfParts, OwnTypes DEF MarkIngested, LedgerMaps
<1>3. WorkerTypes'
  BY <1>1, GotoTypes DEF WorkerTypes, Steps
<1> QED
  BY <1>1, <1>2, <1>3, TypesOfParts, TypeParts

LEMMA WinnerTypes ==
  ASSUME TypeOK, RecordCanonicalWinner
  PROVE  TypeOK'
<1>1. pc # "idle" /\ row' = own /\ UNCHANGED <<job, existing>>
  BY DEF RecordCanonicalWinner
<1>2. KeysOf[job.record] \in SUBSET Keys
  BY <1>1, OwnTypes, JobParts
<1>3. pc' \in Steps /\ pc' # "idle" /\ todo' \in SUBSET Keys
  BY <1>2 DEF RecordCanonicalWinner, Steps
<1>4. WorkerTypes'
  BY <1>1, <1>3, OwnTypes DEF WorkerTypes, TypeOK
<1> QED
  BY <1>4, TypesOfParts, TypeParts DEF RecordCanonicalWinner, stores

\* Rows of a paper are deleted.
LEMMA CanonTypes ==
  ASSUME TypeOK, NEW p,
         canon' = [k \in Keys |-> IF canon[k].paper = p THEN NoRow ELSE canon[k]]
  PROVE  canon' \in [Keys -> Rows \union {NoRow}]
BY DEF TypeOK

LEMMA StepTypes ==
  ASSUME TypeOK, Work
  PROVE  TypeOK'
<1>1. ASSUME NEW j \in Jobs, Begin(j) PROVE TypeOK'
  BY <1>1, BeginTypes
<1>2. ASSUME NEW k \in Keys, WriteRow(k) PROVE TypeOK'
  BY <1>2, WriteRowTypes
<1>3. CASE Evaluate
  BY <1>3, EvaluateTypes
<1>4. CASE Claim
  BY <1>4, ClaimTypes DEF Claim, States, Steps
<1>5. CASE Build
  <2>1. pc # "idle" /\ (Goto("index") \/ Goto("exclude"))
    BY <1>5 DEF Build
  <2>2. WorkerTypes'
    BY <2>1, GotoTypes DEF WorkerTypes, Steps
  <2> QED
    BY <1>5, <2>2, TypesOfParts, TypeParts DEF Build, stores
<1>6. CASE Exclude
  BY <1>6, ExcludeTypes
<1>7. CASE BulkUpsert
  BY <1>7, BulkUpsertTypes
<1>8. CASE DeleteStaleChunks
  <2>1. /\ pc # "idle" /\ "mark" \in Steps
        /\ DeleteChunks(paper, Ordinals \ (1..SizeOf[job.record][job.version]), "mark")
    BY <1>8 DEF DeleteStaleChunks, Steps
  <2> QED
    BY <2>1, OwnTypes, DeleteTypes
<1>9. CASE MarkIngested
  BY <1>9, MarkTypes
<1>10. CASE RecordCanonicalWinner
  BY <1>10, WinnerTypes
<1>11. CASE RemoveCanonicalLoser
  \* LoserIsOther will say that there is such a paper; for the types it may be any
  <2>1. pc # "idle" /\ "unlink" \in Steps /\ DeleteChunks(existing.paper, Ordinals, "unlink")
    BY <1>11 DEF RemoveCanonicalLoser, Steps
  <2>2. CASE existing.paper \in Papers
    BY <2>1, <2>2, DeleteTypes
  <2>3. CASE existing.paper \notin Papers
    <3>1. chunks' = chunks
      BY <2>1, <2>3, TypesOfParts DEF DeleteChunks
    <3>2. WorkerTypes' /\ faults' \in 0..MaxFaults
      <4>1. \/ Goto("unlink") /\ UNCHANGED faults
            \/ Trouble /\ Idle
        BY <2>1 DEF DeleteChunks
      <4>2. CASE Goto("unlink") /\ UNCHANGED faults
        BY <2>1, <4>2, GotoTypes DEF WorkerTypes, TypeOK
      <4>3. CASE Trouble /\ Idle
        BY <4>3, IdleTypes, TroubleTypes DEF WorkerTypes, TypeOK
      <4> QED
        BY <4>1, <4>2, <4>3
    <3>3. UNCHANGED <<queue, dlq, ledger, canon, done, sends>>
      BY <2>1 DEF DeleteChunks
    <3> QED
      BY <3>1, <3>2, <3>3, TypesOfParts, TypeParts
  <2> QED
    BY <2>2, <2>3
<1>12. CASE DeleteLoserRows
  <2>1. pc # "idle" /\ Goto("winner")
    BY <1>12 DEF DeleteLoserRows
  <2>2. WorkerTypes'
    BY <2>1, GotoTypes DEF WorkerTypes, Steps
  <2>3. canon' \in [Keys -> Rows \union {NoRow}]
    BY <1>12, CanonTypes DEF DeleteLoserRows
  <2> QED
    BY <1>12, <2>2, <2>3, TypesOfParts, TypeParts DEF DeleteLoserRows
<1>13. CASE ClaimTombstone
  BY <1>13, ClaimTypes DEF ClaimTombstone, States, Steps
<1>14. CASE TombstonePaper
  <2>1. pc # "idle" /\ "forget" \in Steps /\ DeleteChunks(paper, Ordinals, "forget")
    BY <1>14 DEF TombstonePaper, Steps
  <2> QED
    BY <2>1, OwnTypes, DeleteTypes
<1>15. CASE DeleteOwnRows
  <2>1. pc # "idle" /\ Ack
    BY <1>15 DEF DeleteOwnRows
  <2>2. canon' \in [Keys -> Rows \union {NoRow}]
    BY <1>15, CanonTypes DEF DeleteOwnRows
  <2>3. WorkerTypes' /\ queue' \in SUBSET Jobs /\ done' \in SUBSET Jobs
    BY <1>15, <2>1, EndTypes DEF DeleteOwnRows
  <2> QED
    BY <1>15, <2>2, <2>3, TypesOfParts, TypeParts DEF DeleteOwnRows
<1> QED
  BY <1>1, <1>2, <1>3, <1>4, <1>5, <1>6, <1>7, <1>8, <1>9, <1>10, <1>11, <1>12, <1>13, <1>14,
     <1>15 DEF Work

LEMMA NextTypes ==
  ASSUME TypeOK, [Next]_vars
  PROVE  TypeOK'
<1>1. CASE Work
  BY <1>1, StepTypes
<1>2. ASSUME NEW j \in Jobs, Send(j) PROVE TypeOK'
  <2>1. sends' \in 0..MaxSends /\ queue' \in SUBSET Jobs
    BY <1>2, BoundsAreNat DEF Send, TypeOK
  <2>2. WorkerTypes'
    BY <1>2, TypesOfParts DEF Send, worker, WorkerTypes
  <2> QED
    BY <1>2, <2>1, <2>2, TypesOfParts, TypeParts DEF Send, stores
<1>3. ASSUME NEW j \in Jobs, Redrive(j) PROVE TypeOK'
  <2>1. queue' \in SUBSET Jobs /\ dlq' \in SUBSET Jobs
    BY <1>3 DEF Redrive, TypeOK
  <2>2. WorkerTypes'
    BY <1>3, TypesOfParts DEF Redrive, worker, WorkerTypes
  <2> QED
    BY <1>3, <2>1, <2>2, TypesOfParts, TypeParts DEF Redrive, stores
<1>4. CASE Interrupted
  <2>1. faults' \in 0..MaxFaults
    BY <1>4, TroubleTypes DEF Interrupted, TypeOK
  <2>2. WorkerTypes'
    BY <1>4, IdleTypes DEF Interrupted, WorkerTypes
  <2> QED
    BY <1>4, <2>1, <2>2, TypesOfParts, TypeParts DEF Interrupted, stores
<1>5. CASE Failed
  <2>1. faults' \in 0..MaxFaults
    BY <1>5, TroubleTypes DEF Failed, Bury, TypeOK
  <2>2. WorkerTypes' /\ queue' \in SUBSET Jobs /\ dlq' \in SUBSET Jobs
    BY <1>5, EndTypes DEF Failed
  <2> QED
    BY <1>5, <2>1, <2>2, TypesOfParts, TypeParts DEF Failed, stores
<1>6. CASE UNCHANGED vars
  BY <1>6 DEF TypeOK, vars, stores, worker
<1> QED
  BY <1>1, <1>2, <1>3, <1>4, <1>5, <1>6 DEF Next

\* The stores, the queues and the worker's state keep their types, for every library of
\* records, every number of messages and of faults.
THEOREM PaperTypes == Spec => []TypeOK
<1>1. TypeOK /\ [Next]_vars => TypeOK'
  BY NextTypes
<1> QED
  BY <1>1, InitTypes, PTL DEF Spec

-----------------------------------------------------------------------------
\* PaperInv.

LEMMA InitPaperInv == Init => PaperInv
<1> SUFFICES ASSUME Init PROVE PaperInv
  OBVIOUS
<1>1. /\ JobIsQueued /\ IdleIsClean /\ BranchFits /\ ClaimHeld /\ Written /\ LoserIsOther
      /\ RowsOfLedger
  BY DEF Init, JobIsQueued, IdleIsClean, BranchFits, ClaimHeld, Written, LoserIsOther,
         RowsOfLedger, Claimed, Closing, Removing
<1>2. NoMixedDocument
  BY DEF Init, NoMixedDocument
<1> QED
  BY <1>1, <1>2, InitTypes DEF PaperInv

\* Between jobs nothing is claimed.
LEMMA IdleKeeps ==
  ASSUME Idle
  PROVE  JobIsQueued' /\ IdleIsClean' /\ BranchFits' /\ ClaimHeld' /\ Written' /\ LoserIsOther'
BY DEF Idle, JobIsQueued, IdleIsClean, BranchFits, ClaimHeld, Written, LoserIsOther,
       Claimed, Closing, Removing

\* No mixture comes from deleting chunks, nor from opening a row.
LEMMA NothingMixed ==
  ASSUME NoMixedDocument,
         \A p \in Papers : ledger'[p].closed =>
             /\ ledger[p].closed /\ ledger'[p].version = ledger[p].version
             /\ \A n \in Ordinals : chunks'[p][n] \in {chunks[p][n], NoChunk}
  PROVE  NoMixedDocument'
<1> SUFFICES ASSUME NEW p \in Papers, ledger'[p].closed
             PROVE  \E r \in Records :
                       /\ PaperOf[r] = p
                       /\ \A n \in Ordinals :
                              chunks'[p][n] \in {Document(r, ledger'[p].version)[n], NoChunk}
  BY DEF NoMixedDocument
<1>1. PICK r \in Records :
          /\ PaperOf[r] = p
          /\ \A n \in Ordinals : chunks[p][n] \in {Document(r, ledger[p].version)[n], NoChunk}
  BY DEF NoMixedDocument
<1>2. /\ ledger'[p].version = ledger[p].version
      /\ \A n \in Ordinals : chunks'[p][n] \in {chunks[p][n], NoChunk}
  OBVIOUS
<1> QED
  BY <1>1, <1>2

\* What a delete_by_query does to one paper.
LEMMA DeleteEffect ==
  ASSUME TypeOK, NEW p \in Papers, NEW which \in SUBSET Ordinals, NEW next,
         DeleteChunks(p, which, next)
  PROVE  /\ \A q \in Papers : q # p => chunks'[q] = chunks[q]
         /\ \A n \in Ordinals : chunks'[p][n] \in {chunks[p][n], NoChunk}
         /\ \A n \in Ordinals \ which : chunks'[p][n] = chunks[p][n]
         /\ \/ Goto(next) /\ \A n \in which : chunks'[p][n] = NoChunk
            \/ Idle
         /\ UNCHANGED <<queue, dlq, done, ledger, canon>>
<1>1. PICK gone \in SUBSET which :
        /\ chunks' = [chunks EXCEPT ![p] =
               [n \in Ordinals |-> IF n \in gone THEN NoChunk ELSE @[n]]]
        /\ IF gone = which
           THEN Goto(next) /\ UNCHANGED faults
           ELSE Trouble /\ Idle
  BY DEF DeleteChunks
<1>2. \A q \in Papers : q # p => chunks'[q] = chunks[q]
  BY <1>1, TypesOfParts
<1>3. \A n \in Ordinals : chunks'[p][n] = IF n \in gone THEN NoChunk ELSE chunks[p][n]
  BY <1>1, TypesOfParts
<1>4. \/ Goto(next) /\ \A n \in which : chunks'[p][n] = NoChunk
      \/ Idle
  BY <1>1, <1>3
<1>5. UNCHANGED <<queue, dlq, done, ledger, canon>>
  BY DEF DeleteChunks
<1> QED
  BY <1>2, <1>3, <1>4, <1>5

LEMMA BeginKeeps ==
  ASSUME PaperInv, TypeOK', NEW j \in Jobs, Begin(j)
  PROVE  PaperInv'
<1>1. JobIsQueued'
  BY DEF Begin, JobIsQueued
<1>2. UNCHANGED <<ledger, chunks>>
  BY DEF Begin, stores
<1>3. pc' \in {"alias", "withdraw", "evaluate"} /\ job' = j
      /\ (pc' = "withdraw" => j.withdrawn) /\ (pc' = "evaluate" => ~j.withdrawn)
  BY DEF Begin
<1>4. IdleIsClean' /\ BranchFits' /\ ClaimHeld' /\ Written' /\ LoserIsOther'
  BY <1>3 DEF IdleIsClean, BranchFits, ClaimHeld, Written, LoserIsOther, Claimed, Closing, Removing
<1>5. RowsOfLedger' /\ NoMixedDocument'
  BY <1>2 DEF PaperInv, RowsOfLedger, NoMixedDocument
<1> QED
  BY <1>1, <1>4, <1>5 DEF PaperInv

\* A job that ends leaves the stores' invariants to its own writes.
LEMMA EndKeeps ==
  ASSUME TypeOK', Idle, RowsOfLedger', NoMixedDocument'
  PROVE  PaperInv'
BY IdleKeeps DEF PaperInv

LEMMA StoresKeep ==
  ASSUME PaperInv, UNCHANGED <<ledger, chunks>>
  PROVE  RowsOfLedger' /\ NoMixedDocument'
BY DEF PaperInv, RowsOfLedger, NoMixedDocument

LEMMA WriteRowKeeps ==
  ASSUME PaperInv, TypeOK', NEW k \in Keys, WriteRow(k)
  PROVE  PaperInv'
<1>1. UNCHANGED <<ledger, chunks>>
  BY DEF WriteRow
<1>2. CASE Ack
  BY <1>1, <1>2, StoresKeep, EndKeeps DEF Ack
<1>3. CASE UNCHANGED <<pc, job, existing, row, queue, done>>
  <2>1. JobIsQueued' /\ BranchFits' /\ ClaimHeld' /\ Written' /\ LoserIsOther'
    BY <1>1, <1>3 DEF PaperInv, JobIsQueued, BranchFits, ClaimHeld, Written, LoserIsOther,
                      paper, document
  <2>2. IdleIsClean'
    BY <1>3 DEF WriteRow, IdleIsClean
  <2> QED
    BY <1>1, <2>1, <2>2, StoresKeep DEF PaperInv
<1> QED
  BY <1>2, <1>3 DEF WriteRow

\* Going on with a job whose record fits the step; what the step relies on is to be shown.
LEMMA GotoKeeps ==
  ASSUME PaperInv, TypeOK', pc # "idle", NEW step \in Steps, Goto(step), queue' = queue,
         step \in {"evaluate", "claim"} \union Claimed \union Closing => ~job.withdrawn,
         step \in {"withdraw"} \union Removing => job.withdrawn,
         ClaimHeld', Written', LoserIsOther', RowsOfLedger', NoMixedDocument'
  PROVE  PaperInv'
<1>1. step # "idle"
  BY DEF Steps
<1>2. JobIsQueued' /\ IdleIsClean'
  BY <1>1 DEF PaperInv, Goto, JobIsQueued, IdleIsClean
<1>3. BranchFits'
  BY DEF Goto, BranchFits
<1> QED
  BY <1>2, <1>3 DEF PaperInv

LEMMA EvaluateKeeps ==
  ASSUME PaperInv, TypeOK', Evaluate
  PROVE  PaperInv'
<1>1. pc = "evaluate" /\ ~job.withdrawn /\ UNCHANGED <<ledger, chunks>>
  BY DEF Evaluate, stores, PaperInv, BranchFits
<1>2. RowsOfLedger' /\ NoMixedDocument'
  BY <1>1, StoresKeep
<1>3. \/ Ack
      \/ /\ Goto("canonical") /\ queue' = queue
         /\ decide_dedup(ledger[paper], job.version) = "DUPLICATE"
      \/ Goto("claim") /\ queue' = queue
  BY DEF Evaluate
<1>4. CASE Ack
  BY <1>2, <1>4, EndKeeps DEF Ack
<1>5. CASE /\ Goto("canonical") /\ queue' = queue
           /\ decide_dedup(ledger[paper], job.version) = "DUPLICATE"
  <2>1. ledger[paper].version = job.version /\ ledger[paper].closed
    BY <1>5 DEF decide_dedup
  <2>2. pc' = "canonical" /\ job' = job /\ paper' = paper
    BY <1>5 DEF Goto, paper
  <2>3. ClaimHeld' /\ Written' /\ LoserIsOther'
    BY <1>1, <2>1, <2>2
    DEF ClaimHeld, Written, LoserIsOther, Claimed, Closing, Removing
  <2> QED
    BY <1>1, <1>2, <1>5, <2>3, GotoKeeps DEF Steps, Removing
<1>6. CASE Goto("claim") /\ queue' = queue
  <2>1. pc' = "claim"
    BY <1>6 DEF Goto
  <2>2. ClaimHeld' /\ Written' /\ LoserIsOther'
    BY <2>1 DEF ClaimHeld, Written, LoserIsOther, Claimed, Closing, Removing
  <2> QED
    BY <1>1, <1>2, <1>6, <2>2, GotoKeeps DEF Steps, Removing
<1> QED
  BY <1>3, <1>4, <1>5, <1>6

\* A claim opens the row of the worker's paper.
LEMMA OpenRow ==
  ASSUME PaperInv, pc # "idle", NEW state,
         ledger' = [ledger EXCEPT ![paper] =
             [version |-> job.version, closed |-> FALSE, state |-> state]],
         chunks' = chunks
  PROVE  /\ RowsOfLedger' /\ NoMixedDocument'
         /\ ledger'[paper] = [version |-> job.version, closed |-> FALSE, state |-> state]
<1>1. TypeOK /\ paper \in Papers
  BY OwnTypes DEF PaperInv
<1>2. job.version # 0
  BY <1>1, OwnTypes, JobParts, BoundsAreNat DEF Versions
<1>3. \A p \in Papers : ledger'[p] =
          IF p = paper THEN [version |-> job.version, closed |-> FALSE, state |-> state]
                       ELSE ledger[p]
  BY <1>1, TypesOfParts DEF LedgerMaps
<1>4. RowsOfLedger'
  BY <1>2, <1>3 DEF PaperInv, RowsOfLedger
<1>5. NoMixedDocument'
  BY <1>3, NothingMixed DEF PaperInv
<1> QED
  BY <1>1, <1>3, <1>4, <1>5

LEMMA ClaimKeeps ==
  ASSUME PaperInv, TypeOK', Claim
  PROVE  PaperInv'
<1>1. pc = "claim" /\ ~job.withdrawn /\ chunks' = chunks
  BY DEF Claim, PaperInv, BranchFits
<1>2. CASE Ack /\ UNCHANGED ledger
  BY <1>1, <1>2, StoresKeep, EndKeeps DEF Ack
<1>3. CASE /\ ledger' = [ledger EXCEPT ![paper] =
                 [version |-> job.version, closed |-> FALSE, state |-> "INDEXED"]]
           /\ Goto("build") /\ queue' = queue
  <2>1. /\ RowsOfLedger' /\ NoMixedDocument'
        /\ ledger'[paper] = [version |-> job.version, closed |-> FALSE, state |-> "INDEXED"]
    BY <1>1, <1>3, OpenRow
  <2>2. pc' = "build" /\ job' = job /\ paper' = paper
    BY <1>3 DEF Goto, paper
  <2>3. ClaimHeld' /\ Written' /\ LoserIsOther'
    BY <2>1, <2>2 DEF ClaimHeld, Written, LoserIsOther, Claimed, Closing, Removing
  <2> QED
    BY <1>1, <1>3, <2>1, <2>3, GotoKeeps DEF Steps, Removing
<1> QED
  BY <1>2, <1>3 DEF Claim

LEMMA ClaimTombstoneKeeps ==
  ASSUME PaperInv, TypeOK', ClaimTombstone
  PROVE  PaperInv'
<1>1. pc = "withdraw" /\ job.withdrawn /\ chunks' = chunks
  BY DEF ClaimTombstone, PaperInv, BranchFits
<1>2. CASE Ack /\ UNCHANGED ledger
  BY <1>1, <1>2, StoresKeep, EndKeeps DEF Ack
<1>3. CASE /\ ledger' = [ledger EXCEPT ![paper] =
                 [version |-> job.version, closed |-> FALSE, state |-> "TOMBSTONED"]]
           /\ Goto("tombstone") /\ queue' = queue
  <2>1. /\ RowsOfLedger' /\ NoMixedDocument'
        /\ ledger'[paper] = [version |-> job.version, closed |-> FALSE, state |-> "TOMBSTONED"]
    BY <1>1, <1>3, OpenRow
  <2>2. pc' = "tombstone" /\ job' = job /\ paper' = paper
    BY <1>3 DEF Goto, paper
  <2>3. ClaimHeld' /\ Written' /\ LoserIsOther'
    BY <2>1, <2>2 DEF ClaimHeld, Written, LoserIsOther, Claimed, Closing, Removing
  <2> QED
    BY <1>1, <1>3, <2>1, <2>3, GotoKeeps DEF Steps, Claimed, Closing
<1> QED
  BY <1>2, <1>3 DEF ClaimTombstone

LEMMA BuildKeeps ==
  ASSUME PaperInv, TypeOK', Build
  PROVE  PaperInv'
<1>1. /\ pc = "build" /\ ~job.withdrawn
      /\ UNCHANGED <<queue, ledger, chunks>>
  BY DEF Build, stores, PaperInv, BranchFits, Claimed
<1>2. PICK step \in {"index", "exclude"} : Goto(step)
  BY DEF Build
<1>3. pc' = step /\ job' = job /\ paper' = paper /\ ledger' = ledger
  BY <1>1, <1>2 DEF Goto, paper
<1>4. ClaimHeld'
  BY <1>1, <1>3 DEF PaperInv, ClaimHeld, Claimed, Closing, Removing
<1>5. Written' /\ LoserIsOther'
  BY <1>3 DEF Written, LoserIsOther
<1> QED
  BY <1>1, <1>2, <1>4, <1>5, StoresKeep, GotoKeeps DEF Steps, Removing

LEMMA ExcludeKeeps ==
  ASSUME PaperInv, TypeOK', Exclude
  PROVE  PaperInv'
<1>1. pc = "exclude" /\ Idle /\ chunks' = chunks
  BY DEF Exclude, Bury
<1>2. paper \in Papers /\ ledger \in LedgerMaps /\ ledger[paper].version = job.version
      /\ job.version # 0
  BY <1>1, OwnTypes, TypesOfParts, JobParts, BoundsAreNat
  DEF PaperInv, ClaimHeld, Claimed, Versions
<1>3. \A p \in Papers :
          /\ ledger'[p].closed = ledger[p].closed /\ ledger'[p].version = ledger[p].version
          /\ ledger'[p].state # ledger[p].state => p = paper /\ ~ledger[p].closed
  BY <1>1, <1>2 DEF Exclude, LedgerMaps
<1>4. RowsOfLedger'
  <2> SUFFICES ASSUME NEW p \in Papers
               PROVE  /\ ledger'[p].closed => ledger'[p].state = "INDEXED"
                      /\ ledger'[p].version = 0 =>
                             ~ledger'[p].closed /\ ledger'[p].state = "INDEXED"
    BY DEF RowsOfLedger
  <2>1. /\ ledger[p].closed => ledger[p].state = "INDEXED"
        /\ ledger[p].version = 0 => ~ledger[p].closed /\ ledger[p].state = "INDEXED"
    BY DEF PaperInv, RowsOfLedger
  <2> QED
    BY <1>2, <1>3, <2>1
<1>5. NoMixedDocument'
  BY <1>1, <1>3, NothingMixed DEF PaperInv
<1> QED
  BY <1>1, <1>4, <1>5, EndKeeps

\* What bulk_upsert does to the worker's paper.
LEMMA UpsertEffect ==
  ASSUME TypeOK, BulkUpsert
  PROVE  /\ \A q \in Papers : q # paper => chunks'[q] = chunks[q]
         /\ \/ /\ Goto("stale")
               /\ \A n \in 1..SizeOf[job.record][job.version] : chunks'[paper][n] = document[n]
            \/ Idle
         /\ UNCHANGED <<queue, dlq, done, ledger, canon>>
<1>1. /\ pc # "idle" /\ paper \in Papers
      /\ 1..SizeOf[job.record][job.version] \in SUBSET Ordinals
  BY OwnTypes DEF BulkUpsert
<1>2. PICK written \in SUBSET (1..SizeOf[job.record][job.version]) :
        /\ chunks' = [chunks EXCEPT ![paper] =
               [n \in Ordinals |-> IF n \in written THEN document[n] ELSE @[n]]]
        /\ IF written = 1..SizeOf[job.record][job.version]
           THEN Goto("stale") /\ UNCHANGED faults
           ELSE Trouble /\ Idle
  BY DEF BulkUpsert
<1>3. \A q \in Papers : q # paper => chunks'[q] = chunks[q]
  BY <1>1, <1>2, TypesOfParts
<1>4. \A n \in Ordinals : n \in written => chunks'[paper][n] = document[n]
  BY <1>1, <1>2, TypesOfParts
<1>5. \/ /\ Goto("stale")
         /\ \A n \in 1..SizeOf[job.record][job.version] : chunks'[paper][n] = document[n]
      \/ Idle
  BY <1>1, <1>2, <1>4
<1>6. UNCHANGED <<queue, dlq, done, ledger, canon>>
  BY DEF BulkUpsert
<1> QED
  BY <1>3, <1>5, <1>6

LEMMA BulkUpsertKeeps ==
  ASSUME PaperInv, TypeOK', BulkUpsert
  PROVE  PaperInv'
<1>1. /\ TypeOK /\ pc = "index" /\ pc # "idle" /\ paper \in Papers
      /\ ~job.withdrawn /\ ~ledger[paper].closed
      /\ ledger[paper].version = job.version /\ ledger[paper].state = "INDEXED"
  BY OwnTypes DEF BulkUpsert, PaperInv, BranchFits, ClaimHeld, Claimed
<1>2. /\ \A q \in Papers : q # paper => chunks'[q] = chunks[q]
      /\ \/ /\ Goto("stale")
            /\ \A n \in 1..SizeOf[job.record][job.version] : chunks'[paper][n] = document[n]
         \/ Idle
      /\ UNCHANGED <<queue, dlq, done, ledger, canon>>
  BY <1>1, UpsertEffect
<1>3. RowsOfLedger'
  BY <1>2 DEF PaperInv, RowsOfLedger
<1>4. NoMixedDocument'
  BY <1>1, <1>2, NothingMixed DEF PaperInv
<1>5. CASE Idle
  BY <1>3, <1>4, <1>5, EndKeeps
<1>6. CASE /\ Goto("stale")
           /\ \A n \in 1..SizeOf[job.record][job.version] : chunks'[paper][n] = document[n]
  <2>1. pc' = "stale" /\ job' = job /\ paper' = paper /\ document' = document
    BY <1>6 DEF Goto, paper, document
  <2>2. ClaimHeld' /\ Written' /\ LoserIsOther'
    BY <1>1, <1>2, <1>6, <2>1 DEF ClaimHeld, Written, LoserIsOther, Claimed, Closing, Removing
  <2> QED
    BY <1>1, <1>2, <1>3, <1>4, <1>6, <2>2, GotoKeeps DEF Steps, Removing
<1> QED
  BY <1>2, <1>5, <1>6

LEMMA DeleteStaleKeeps ==
  ASSUME PaperInv, TypeOK', DeleteStaleChunks
  PROVE  PaperInv'
<1> DEFINE kept == 1..SizeOf[job.record][job.version]
<1>1. /\ TypeOK /\ pc = "stale" /\ pc # "idle" /\ paper \in Papers
      /\ ~job.withdrawn /\ ~ledger[paper].closed
      /\ ledger[paper].version = job.version /\ ledger[paper].state = "INDEXED"
      /\ \A n \in kept : chunks[paper][n] = document[n]
  BY OwnTypes DEF DeleteStaleChunks, PaperInv, BranchFits, ClaimHeld, Claimed, Written
<1>2. /\ \A q \in Papers : q # paper => chunks'[q] = chunks[q]
      /\ \A n \in Ordinals : chunks'[paper][n] \in {chunks[paper][n], NoChunk}
      /\ \A n \in kept : n \in Ordinals => chunks'[paper][n] = chunks[paper][n]
      /\ \/ Goto("mark") /\ \A n \in Ordinals \ kept : chunks'[paper][n] = NoChunk
         \/ Idle
      /\ UNCHANGED <<queue, dlq, done, ledger, canon>>
  <2>1. DeleteChunks(paper, Ordinals \ kept, "mark")
    BY DEF DeleteStaleChunks
  <2> DEFINE tail == Ordinals \ kept
  <2>2. tail \in SUBSET Ordinals /\ \A n \in kept : n \notin tail
    OBVIOUS
  <2> HIDE DEF kept, tail
  <2>3. /\ \A q \in Papers : q # paper => chunks'[q] = chunks[q]
        /\ \A n \in Ordinals : chunks'[paper][n] \in {chunks[paper][n], NoChunk}
        /\ \A n \in Ordinals \ tail : chunks'[paper][n] = chunks[paper][n]
        /\ \/ Goto("mark") /\ \A n \in tail : chunks'[paper][n] = NoChunk
           \/ Idle
        /\ UNCHANGED <<queue, dlq, done, ledger, canon>>
    BY <1>1, <2>1, <2>2, DeleteEffect DEF tail
  <2>4. \A n \in kept : n \in Ordinals => chunks'[paper][n] = chunks[paper][n]
    <3> TAKE n \in kept
    <3> HAVE n \in Ordinals
    <3>1. n \in Ordinals \ tail
      BY <2>2
    <3> QED
      BY <2>3, <3>1
  <2>5. \/ Goto("mark") /\ \A n \in Ordinals \ kept : chunks'[paper][n] = NoChunk
        \/ Idle
    BY <2>3 DEF tail
  <2> QED
    BY <2>3, <2>4, <2>5
<1>3. RowsOfLedger'
  BY <1>2 DEF PaperInv, RowsOfLedger
<1>4. NoMixedDocument'
  BY <1>1, <1>2, NothingMixed DEF PaperInv
<1>5. CASE Idle
  BY <1>3, <1>4, <1>5, EndKeeps
<1>6. CASE Goto("mark") /\ \A n \in Ordinals \ kept : chunks'[paper][n] = NoChunk
  <2>1. pc' = "mark" /\ job' = job /\ paper' = paper /\ document' = document
    BY <1>6 DEF Goto, paper, document
  <2>2. chunks'[paper] = document
    <3>1. \A n \in Ordinals : chunks'[paper][n] = IF n \in kept THEN document[n] ELSE NoChunk
      BY <1>1, <1>2, <1>6
    <3>2. \A n \in Ordinals \ kept : document[n] = NoChunk
      <4>1. SizeOf[job.record][job.version] \in Nat /\ Ordinals \subseteq Nat \ {0}
        BY <1>1, OwnTypes, JobParts, BoundsAreNat DEF Ordinals
      <4> QED
        BY <4>1 DEF document, Document, Ordinals
    <3>3. chunks'[paper] \in ChunkMaps /\ document \in ChunkMaps
      BY <1>1, OwnTypes DEF TypeOK, ChunkMaps
    <3>4. \A n \in Ordinals : chunks'[paper][n] = document[n]
      BY <3>1, <3>2
    <3> QED
      BY <3>3, <3>4 DEF ChunkMaps
  <2>3. ClaimHeld' /\ Written' /\ LoserIsOther'
    BY <1>1, <1>2, <2>1, <2>2
    DEF ClaimHeld, Written, LoserIsOther, Claimed, Closing, Removing
  <2> QED
    BY <1>1, <1>2, <1>3, <1>4, <1>6, <2>3, GotoKeeps DEF Steps, Removing
<1> QED
  BY <1>2, <1>5, <1>6

\* The row that mark_ingested writes.
LEMMA ClosedRow ==
  ASSUME NEW l \in [version : 0..MaxVersion, closed : BOOLEAN, state : States]
  PROVE  [l EXCEPT !.closed = TRUE, !.state = "INDEXED"]
             = [version |-> l.version, closed |-> TRUE, state |-> "INDEXED"]
<1> DEFINE new == [l EXCEPT !.closed = TRUE, !.state = "INDEXED"]
<1>1. new \in [version : 0..MaxVersion, closed : BOOLEAN, state : States]
  BY DEF States
<1>2. new.version = l.version /\ new.closed = TRUE /\ new.state = "INDEXED"
  OBVIOUS
<1> HIDE DEF new
<1>3. new = [version |-> new.version, closed |-> new.closed, state |-> new.state]
  BY <1>1
<1>4. new = [version |-> l.version, closed |-> TRUE, state |-> "INDEXED"]
  BY <1>2, <1>3
<1> QED
  BY <1>4 DEF new

\* mark_ingested finds the claim it made, and under it one whole document.
LEMMA MarkEffect ==
  ASSUME PaperInv, MarkIngested
  PROVE  /\ job \in Jobs /\ paper \in Papers /\ ~job.withdrawn
         /\ chunks[paper] = document /\ chunks' = chunks
         /\ \A p \in Papers : ledger'[p] =
                IF p = paper
                THEN [version |-> job.version, closed |-> TRUE, state |-> "INDEXED"]
                ELSE ledger[p]
<1>1. /\ TypeOK /\ pc = "mark" /\ pc # "idle" /\ paper \in Papers /\ job \in Jobs
      /\ ~job.withdrawn /\ chunks[paper] = document /\ ledger[paper].version = job.version
  BY OwnTypes DEF MarkIngested, PaperInv, BranchFits, ClaimHeld, Claimed, Written
<1>2. ledger \in LedgerMaps
  BY <1>1, TypesOfParts
<1>3. ledger[paper] \in [version : 0..MaxVersion, closed : BOOLEAN, state : States]
  BY <1>1, <1>2 DEF LedgerMaps
<1>4. [ledger[paper] EXCEPT !.closed = TRUE, !.state = "INDEXED"] =
          [version |-> job.version, closed |-> TRUE, state |-> "INDEXED"]
  BY <1>1, <1>3, ClosedRow
<1>5. ledger' = [ledger EXCEPT ![paper] =
          [version |-> job.version, closed |-> TRUE, state |-> "INDEXED"]]
  BY <1>1, <1>2, <1>4 DEF MarkIngested, LedgerMaps
<1>6. \A p \in Papers : ledger'[p] =
          IF p = paper THEN [version |-> job.version, closed |-> TRUE, state |-> "INDEXED"]
                       ELSE ledger[p]
  BY <1>1, <1>2, <1>5 DEF LedgerMaps
<1> QED
  BY <1>1, <1>6 DEF MarkIngested

LEMMA MarkKeeps ==
  ASSUME PaperInv, TypeOK', MarkIngested
  PROVE  PaperInv'
<1>1. /\ job \in Jobs /\ paper \in Papers /\ ~job.withdrawn
      /\ chunks[paper] = document /\ chunks' = chunks
      /\ \A p \in Papers : ledger'[p] =
             IF p = paper THEN [version |-> job.version, closed |-> TRUE, state |-> "INDEXED"]
                          ELSE ledger[p]
  BY MarkEffect
<1>2. pc # "idle" /\ Goto("canonical") /\ queue' = queue
  BY DEF MarkIngested
<1>3. RowsOfLedger'
  <2>1. job.version # 0
    BY <1>1, JobParts, BoundsAreNat DEF Versions
  <2> QED
    BY <1>1, <2>1 DEF PaperInv, RowsOfLedger
<1>4. NoMixedDocument'
  <2> SUFFICES ASSUME NEW p \in Papers, ledger'[p].closed
               PROVE  \E r \in Records :
                         /\ PaperOf[r] = p
                         /\ \A n \in Ordinals :
                                chunks'[p][n] \in {Document(r, ledger'[p].version)[n], NoChunk}
    BY DEF NoMixedDocument
  <2>1. CASE p = paper
    BY <1>1, <2>1, JobParts DEF paper, document
  <2>2. CASE p # paper
    BY <1>1, <2>2 DEF PaperInv, NoMixedDocument
  <2> QED
    BY <2>1, <2>2
<1>5. pc' = "canonical" /\ job' = job /\ paper' = paper
  BY <1>2 DEF Goto, paper
<1>6. ClaimHeld' /\ Written' /\ LoserIsOther'
  BY <1>1, <1>5 DEF ClaimHeld, Written, LoserIsOther, Claimed, Closing, Removing
<1> QED
  BY <1>1, <1>2, <1>3, <1>4, <1>6, GotoKeeps DEF Steps, Removing

LEMMA RecordWinnerKeeps ==
  ASSUME PaperInv, TypeOK', RecordCanonicalWinner
  PROVE  PaperInv'
<1>1. /\ pc = "canonical" /\ pc' \in {"loser", "winner"}
      /\ UNCHANGED <<queue, job, existing, ledger, chunks>>
      /\ pc' = "loser" => existing # NoRow /\ existing.paper # paper
  BY DEF RecordCanonicalWinner, stores
<1>2. paper' = paper /\ document' = document
  BY <1>1 DEF paper, document
<1>3. JobIsQueued' /\ IdleIsClean'
  BY <1>1 DEF PaperInv, JobIsQueued, IdleIsClean
<1>4. BranchFits' /\ ClaimHeld' /\ Written' /\ LoserIsOther'
  BY <1>1, <1>2 DEF PaperInv, BranchFits, ClaimHeld, Written, LoserIsOther,
                    Claimed, Closing, Removing
<1> QED
  BY <1>1, <1>3, <1>4, StoresKeep DEF PaperInv

LEMMA RemoveLoserKeeps ==
  ASSUME PaperInv, TypeOK', RemoveCanonicalLoser
  PROVE  PaperInv'
<1>1. /\ TypeOK /\ pc = "loser" /\ pc # "idle" /\ ~job.withdrawn
      /\ existing # NoRow /\ existing.paper # paper
      /\ ledger[paper].version = job.version /\ ledger[paper].closed
  BY DEF RemoveCanonicalLoser, PaperInv, BranchFits, ClaimHeld, Closing, LoserIsOther
<1>2. existing.paper \in Papers
  BY <1>1 DEF TypeOK, Rows
<1>3. /\ \A q \in Papers : q # existing.paper => chunks'[q] = chunks[q]
      /\ \A n \in Ordinals : chunks'[existing.paper][n] \in {chunks[existing.paper][n], NoChunk}
      /\ Goto("unlink") \/ Idle
      /\ UNCHANGED <<queue, dlq, done, ledger, canon>>
  BY <1>1, <1>2, DeleteEffect DEF RemoveCanonicalLoser
<1>4. RowsOfLedger'
  BY <1>3 DEF PaperInv, RowsOfLedger
<1>5. NoMixedDocument'
  BY <1>3, NothingMixed DEF PaperInv
<1>6. CASE Idle
  BY <1>4, <1>5, <1>6, EndKeeps
<1>7. CASE Goto("unlink")
  <2>1. pc' = "unlink" /\ job' = job /\ existing' = existing /\ paper' = paper
    BY <1>7 DEF Goto, paper
  <2>2. ClaimHeld' /\ Written' /\ LoserIsOther'
    BY <1>1, <1>3, <2>1 DEF ClaimHeld, Written, LoserIsOther, Claimed, Closing, Removing
  <2> QED
    BY <1>1, <1>3, <1>4, <1>5, <1>7, <2>2, GotoKeeps DEF Steps, Removing
<1> QED
  BY <1>3, <1>6, <1>7

LEMMA DeleteLoserRowsKeeps ==
  ASSUME PaperInv, TypeOK', DeleteLoserRows
  PROVE  PaperInv'
<1>1. /\ pc = "unlink" /\ pc # "idle" /\ ~job.withdrawn /\ Goto("winner")
      /\ UNCHANGED <<queue, ledger, chunks>>
      /\ ledger[paper].version = job.version /\ ledger[paper].closed
  BY DEF DeleteLoserRows, PaperInv, BranchFits, ClaimHeld, Closing
<1>2. pc' = "winner" /\ job' = job /\ paper' = paper
  BY <1>1 DEF Goto, paper
<1>3. ClaimHeld' /\ Written' /\ LoserIsOther'
  BY <1>1, <1>2 DEF ClaimHeld, Written, LoserIsOther, Claimed, Closing, Removing
<1> QED
  BY <1>1, <1>3, StoresKeep, GotoKeeps DEF Steps, Removing

LEMMA TombstoneKeeps ==
  ASSUME PaperInv, TypeOK', TombstonePaper
  PROVE  PaperInv'
<1>1. /\ TypeOK /\ pc = "tombstone" /\ pc # "idle" /\ paper \in Papers /\ job.withdrawn
      /\ ledger[paper].version = job.version
      /\ ~ledger[paper].closed /\ ledger[paper].state = "TOMBSTONED"
  BY OwnTypes DEF TombstonePaper, PaperInv, BranchFits, ClaimHeld, Removing
<1>2. /\ \A q \in Papers : q # paper => chunks'[q] = chunks[q]
      /\ \A n \in Ordinals : chunks'[paper][n] \in {chunks[paper][n], NoChunk}
      /\ \/ Goto("forget") /\ \A n \in Ordinals : chunks'[paper][n] = NoChunk
         \/ Idle
      /\ UNCHANGED <<queue, dlq, done, ledger, canon>>
  BY <1>1, DeleteEffect DEF TombstonePaper
<1>3. RowsOfLedger'
  BY <1>2 DEF PaperInv, RowsOfLedger
<1>4. NoMixedDocument'
  BY <1>1, <1>2, NothingMixed DEF PaperInv
<1>5. CASE Idle
  BY <1>3, <1>4, <1>5, EndKeeps
<1>6. CASE Goto("forget") /\ \A n \in Ordinals : chunks'[paper][n] = NoChunk
  <2>1. pc' = "forget" /\ job' = job /\ paper' = paper
    BY <1>6 DEF Goto, paper
  <2>2. chunks'[paper] = NoDocument
    <3>1. chunks'[paper] \in ChunkMaps
      BY <1>1 DEF TypeOK, ChunkMaps
    <3> QED
      BY <1>6, <3>1 DEF ChunkMaps, NoDocument
  <2>3. ClaimHeld' /\ Written' /\ LoserIsOther'
    BY <1>1, <1>2, <2>1, <2>2
    DEF ClaimHeld, Written, LoserIsOther, Claimed, Closing, Removing
  <2> QED
    BY <1>1, <1>2, <1>3, <1>4, <1>6, <2>3, GotoKeeps DEF Steps, Claimed, Closing
<1> QED
  BY <1>2, <1>5, <1>6

LEMMA DeleteOwnRowsKeeps ==
  ASSUME PaperInv, TypeOK', DeleteOwnRows
  PROVE  PaperInv'
<1>1. Idle /\ UNCHANGED <<ledger, chunks>>
  BY DEF DeleteOwnRows, Ack
<1> QED
  BY <1>1, StoresKeep, EndKeeps

LEMMA WorkKeeps ==
  ASSUME PaperInv, TypeOK', Work
  PROVE  PaperInv'
<1>1. ASSUME NEW j \in Jobs, Begin(j) PROVE PaperInv'
  BY <1>1, BeginKeeps
<1>2. ASSUME NEW k \in Keys, WriteRow(k) PROVE PaperInv'
  BY <1>2, WriteRowKeeps
<1> QED
  BY <1>1, <1>2, EvaluateKeeps, ClaimKeeps, BuildKeeps, ExcludeKeeps, BulkUpsertKeeps,
     DeleteStaleKeeps, MarkKeeps, RecordWinnerKeeps, RemoveLoserKeeps, DeleteLoserRowsKeeps,
     ClaimTombstoneKeeps, TombstoneKeeps, DeleteOwnRowsKeeps DEF Work

LEMMA NextPaperInv ==
  ASSUME PaperInv, [Next]_vars
  PROVE  PaperInv'
<1>1. TypeOK'
  BY NextTypes DEF PaperInv
<1>2. CASE Work
  BY <1>1, <1>2, WorkKeeps
<1>3. CASE Interrupted \/ Failed
  <2>1. Idle /\ UNCHANGED <<ledger, chunks>>
    BY <1>3 DEF Interrupted, Failed, Bury, stores
  <2> QED
    BY <1>1, <2>1, StoresKeep, EndKeeps
<1>4. CASE (\E j \in Jobs : Send(j) \/ Redrive(j)) \/ UNCHANGED vars
  <2>1. /\ queue \subseteq queue'
        /\ UNCHANGED <<pc, job, existing, row, todo, ledger, chunks>>
    BY <1>4 DEF Send, Redrive, stores, worker, vars
  <2>2. paper' = paper /\ document' = document
    BY <2>1 DEF paper, document
  <2>3. JobIsQueued' /\ IdleIsClean' /\ BranchFits'
    BY <2>1 DEF PaperInv, JobIsQueued, IdleIsClean, BranchFits
  <2>4. ClaimHeld' /\ Written' /\ LoserIsOther'
    BY <2>1, <2>2 DEF PaperInv, ClaimHeld, Written, LoserIsOther
  <2> QED
    BY <1>1, <2>1, <2>3, <2>4, StoresKeep DEF PaperInv
<1> QED
  BY <1>2, <1>3, <1>4 DEF Next

\* The inductive invariant of the pipeline: at every step of a job the ledger row of its
\* paper is the claim the worker made, and the index holds what was written so far.
THEOREM PipelineInvariance == Spec => []PaperInv
<1>1. PaperInv /\ [Next]_vars => PaperInv'
  BY NextPaperInv
<1> QED
  BY <1>1, InitPaperInv, PTL DEF Spec

\* Under a closed ledger row every chunk is of one document of the row's version, for
\* every library, and whatever was interrupted and retried between the claim and the
\* close (try_claim_upsert, bulk_upsert, delete_stale_chunks, mark_ingested).
THEOREM NeverMixed == Spec => []NoMixedDocument
<1>1. PaperInv => NoMixedDocument
  BY DEF PaperInv
<1> QED
  BY <1>1, PipelineInvariance, PTL

-----------------------------------------------------------------------------
\* RowInv: canonical rows stay within a work.

LEMMA InitRowInv ==
  ASSUME Init, NEW work
  PROVE  RowInv(work)
BY DEF Init, RowInv, CanonInv, WorkerInv, RealRow

LEMMA IdleKeepsRows ==
  ASSUME Idle, NEW work
  PROVE  WorkerInv(work)'
BY DEF Idle, WorkerInv, RealRow

\* A job goes on, neither from nor to the alias branch.
LEMMA GotoKeepsRows ==
  ASSUME NEW work, WorkerInv(work), pc \notin {"idle", "alias"},
         NEW step, step \notin {"idle", "alias"}, Goto(step)
  PROVE  WorkerInv(work)'
<1>1. pc' = step /\ job' = job /\ existing' = existing /\ row' = row /\ todo' = todo
      /\ paper' = paper
  BY DEF Goto, paper
<1> QED
  BY <1>1 DEF WorkerInv, RealRow, OfWork

\* The canonical row that a job reads is one of its keys'.
LEMMA ExistingIsRead ==
  ASSUME NEW keys \in SUBSET Keys, NEW e \in CanonicalState(keys)
  PROVE  e = NoRow \/ \E k \in keys : e = canon[k] /\ canon[k] # NoRow
BY DEF CanonicalState

LEMMA BeginKeepsRows ==
  ASSUME NEW work, SeparatesWorks(work), PaperInv, RowInv(work), NEW j \in Jobs, Begin(j)
  PROVE  RowInv(work)'
<1>1. /\ job' = j /\ paper' = PaperOf[j.record] /\ canon' = canon
      /\ existing' \in CanonicalState(KeysOf[j.record])
      /\ pc = "idle"
  BY DEF Begin, stores, paper
<1>2. /\ j.record \in Records /\ KeysOf[j.record] \in SUBSET Keys
      /\ PriorityOf[j.record] \in 0..2
  BY JobParts
<1>3. existing' = NoRow \/ \E k \in KeysOf[j.record] : existing' = canon[k] /\ canon[k] # NoRow
  BY <1>1, <1>2, ExistingIsRead
<1>4. RealRow(existing')
  BY <1>2, <1>3 DEF RowInv, CanonInv, RealRow
<1>5. existing' # NoRow => work[existing'.paper] = work[PaperOf[j.record]]
  <2> HAVE existing' # NoRow
  <2>1. PICK k \in KeysOf[j.record] : existing' = canon[k] /\ canon[k] # NoRow
    BY <1>3
  <2>2. OfWork(work, k, existing'.paper)
    BY <1>2, <2>1 DEF RowInv, CanonInv
  <2> QED
    BY <1>2, <2>2 DEF OfWork
<1>6. \A k \in KeysOf[j.record] : OfWork(work, k, PaperOf[j.record])
  BY <1>2 DEF SeparatesWorks, OfWork
<1>7. row = NoRow /\ todo = {}
  BY <1>1 DEF PaperInv, IdleIsClean
<1>8. \/ /\ PriorityOf[j.record] > 0 /\ pc' = "alias"
         /\ row' = existing' /\ todo' = KeysOf[j.record]
      \/ /\ pc' \in {"withdraw", "evaluate"} /\ row' = NoRow /\ todo' = {}
         /\ \/ ~(PriorityOf[j.record] > 0)
            \/ existing' = NoRow
            \/ PriorityOf[j.record] < existing'.priority
  BY <1>7 DEF Begin
<1>9. WorkerInv(work)'
  <2>1. CASE /\ PriorityOf[j.record] > 0 /\ pc' = "alias"
             /\ row' = existing' /\ todo' = KeysOf[j.record]
    BY <1>1, <1>4, <1>5, <1>6, <2>1 DEF WorkerInv, RealRow, OfWork
  <2>2. CASE /\ pc' \in {"withdraw", "evaluate"} /\ row' = NoRow /\ todo' = {}
             /\ \/ ~(PriorityOf[j.record] > 0)
                \/ existing' = NoRow
                \/ PriorityOf[j.record] < existing'.priority
    <3>1. \/ existing' = NoRow
          \/ PriorityOf[j.record] = 0
          \/ PriorityOf[j.record] < existing'.priority
      BY <1>2, <2>2
    <3> QED
      BY <1>1, <1>4, <1>5, <2>2, <3>1 DEF WorkerInv, RealRow
  <2> QED
    BY <1>8, <2>1, <2>2
<1>10. CanonInv(work)'
  BY <1>1 DEF RowInv, CanonInv, RealRow, OfWork
<1> QED
  BY <1>9, <1>10 DEF RowInv

LEMMA WriteRowKeepsRows ==
  ASSUME NEW work, PaperInv, RowInv(work), NEW k \in Keys, WriteRow(k)
  PROVE  RowInv(work)'
<1>1. pc \in {"alias", "winner"} /\ k \in todo
  BY DEF WriteRow
<1>2. row # NoRow => OfWork(work, k, row.paper)
  BY <1>1 DEF RowInv, WorkerInv, OfWork
<1>3. \A l \in Keys : canon'[l] = canon[l] \/ (l = k /\ canon'[l] = row)
  BY DEF WriteRow, PaperInv, TypeOK
<1>4. CanonInv(work)'
  <2> SUFFICES ASSUME NEW l \in Keys
               PROVE  /\ RealRow(canon'[l])
                      /\ canon'[l] # NoRow => OfWork(work, l, canon'[l].paper)
    BY DEF CanonInv, RealRow, OfWork
  <2>1. CASE canon'[l] = canon[l]
    BY <2>1 DEF RowInv, CanonInv
  <2>2. CASE l = k /\ canon'[l] = row
    BY <1>2, <2>2 DEF RowInv, WorkerInv
  <2> QED
    BY <1>3, <2>1, <2>2
<1>5. WorkerInv(work)'
  <2>1. CASE Ack
    BY <2>1, IdleKeepsRows DEF Ack
  <2>2. CASE todo' = todo \ {k} /\ UNCHANGED <<pc, job, existing, row>>
    BY <2>2 DEF RowInv, WorkerInv, RealRow, OfWork, paper
  <2> QED
    BY <2>1, <2>2 DEF WriteRow
<1> QED
  BY <1>4, <1>5 DEF RowInv

LEMMA RecordWinnerKeepsRows ==
  ASSUME NEW work, SeparatesWorks(work), PaperInv, RowInv(work), RecordCanonicalWinner
  PROVE  RowInv(work)'
<1>1. /\ pc = "canonical" /\ pc' \in {"loser", "winner"} /\ row' = own
      /\ UNCHANGED <<job, existing, canon>> /\ paper' = paper
  BY DEF RecordCanonicalWinner, stores, paper
<1>2. job \in Jobs /\ job.record \in Records /\ KeysOf[job.record] \in SUBSET Keys
  BY <1>1, OwnTypes, JobParts DEF PaperInv
<1>3. RealRow(row') /\ work[row'.paper] = work[paper]
  BY <1>1, <1>2 DEF own, paper, RealRow
<1>4. \A k \in KeysOf[job.record] : OfWork(work, k, paper)
  BY <1>2 DEF SeparatesWorks, OfWork, paper
<1>5. \A k \in Keys : existing # NoRow /\ canon[k].paper = existing.paper =>
          OfWork(work, k, paper)
  <2> SUFFICES ASSUME NEW k \in Keys, existing # NoRow, canon[k].paper = existing.paper
               PROVE  OfWork(work, k, paper)
    OBVIOUS
  <2>1. existing.paper \in Papers
    BY DEF PaperInv, TypeOK, Rows
  <2>2. canon[k] # NoRow
    BY <2>1, PaperIdentity DEF NoRow
  <2>3. OfWork(work, k, existing.paper) /\ work[existing.paper] = work[paper]
    BY <1>1, <2>2 DEF RowInv, CanonInv, WorkerInv
  <2> QED
    BY <2>3 DEF OfWork
<1>6. \A k \in todo' : OfWork(work, k, paper)
  BY <1>2, <1>4, <1>5 DEF RecordCanonicalWinner
<1>7. WorkerInv(work)'
  BY <1>1, <1>3, <1>6 DEF RowInv, WorkerInv, RealRow, OfWork
<1>8. CanonInv(work)'
  BY <1>1 DEF RowInv, CanonInv, RealRow, OfWork
<1> QED
  BY <1>7, <1>8 DEF RowInv

\* Deleting rows cannot bring works together.
LEMMA CanonKeeps ==
  ASSUME NEW work, CanonInv(work), \A k \in Keys : canon'[k] \in {canon[k], NoRow}
  PROVE  CanonInv(work)'
<1> SUFFICES ASSUME NEW k \in Keys
             PROVE  /\ RealRow(canon'[k])
                    /\ canon'[k] # NoRow => OfWork(work, k, canon'[k].paper)
  BY DEF CanonInv, RealRow, OfWork
<1>1. CASE canon'[k] = canon[k]
  BY <1>1 DEF CanonInv
<1>2. CASE canon'[k] = NoRow
  BY <1>2 DEF RealRow
<1> QED
  BY <1>1, <1>2

\* What the other steps of a job do to the rows.
LEMMA PlainSteps ==
  ASSUME \/ Evaluate \/ Claim \/ Build \/ Exclude \/ BulkUpsert \/ DeleteStaleChunks
         \/ MarkIngested \/ RemoveCanonicalLoser \/ DeleteLoserRows
         \/ ClaimTombstone \/ TombstonePaper \/ DeleteOwnRows
  PROVE  /\ pc \notin {"idle", "alias"}
         /\ Idle \/ \E step \in Steps \ {"alias"} : Goto(step)
         /\ canon' = canon \/ \E p : canon' = [k \in Keys |->
                IF canon[k].paper = p THEN NoRow ELSE canon[k]]
<1>1. CASE Evaluate
  BY <1>1 DEF Evaluate, Ack, stores, Steps
<1>2. CASE Claim
  BY <1>2 DEF Claim, Ack, Steps
<1>3. CASE Build
  BY <1>3 DEF Build, stores, Steps
<1>4. CASE Exclude
  BY <1>4 DEF Exclude, Bury
<1>5. CASE BulkUpsert
  BY <1>5 DEF BulkUpsert, Steps
<1>6. CASE DeleteStaleChunks
  BY <1>6 DEF DeleteStaleChunks, DeleteChunks, Steps
<1>7. CASE MarkIngested
  BY <1>7 DEF MarkIngested, Steps
<1>8. CASE RemoveCanonicalLoser
  BY <1>8 DEF RemoveCanonicalLoser, DeleteChunks, Steps
<1>9. CASE DeleteLoserRows
  BY <1>9 DEF DeleteLoserRows, Steps
<1>10. CASE ClaimTombstone
  BY <1>10 DEF ClaimTombstone, Ack, Steps
<1>11. CASE TombstonePaper
  BY <1>11 DEF TombstonePaper, DeleteChunks, Steps
<1>12. CASE DeleteOwnRows
  BY <1>12 DEF DeleteOwnRows, Ack
<1> QED
  BY <1>1, <1>2, <1>3, <1>4, <1>5, <1>6, <1>7, <1>8, <1>9, <1>10, <1>11, <1>12

LEMMA NextRowInv ==
  ASSUME NEW work, SeparatesWorks(work), PaperInv, RowInv(work), [Next]_vars
  PROVE  RowInv(work)'
<1>1. ASSUME NEW j \in Jobs, Begin(j) PROVE RowInv(work)'
  BY <1>1, BeginKeepsRows
<1>2. ASSUME NEW k \in Keys, WriteRow(k) PROVE RowInv(work)'
  BY <1>2, WriteRowKeepsRows
<1>3. CASE RecordCanonicalWinner
  BY <1>3, RecordWinnerKeepsRows
<1>4. CASE \/ Evaluate \/ Claim \/ Build \/ Exclude \/ BulkUpsert \/ DeleteStaleChunks
           \/ MarkIngested \/ RemoveCanonicalLoser \/ DeleteLoserRows
           \/ ClaimTombstone \/ TombstonePaper \/ DeleteOwnRows
  <2>1. /\ pc \notin {"idle", "alias"}
        /\ Idle \/ \E step \in Steps \ {"alias"} : Goto(step)
        /\ canon' = canon \/ \E p : canon' = [k \in Keys |->
               IF canon[k].paper = p THEN NoRow ELSE canon[k]]
    BY <1>4, PlainSteps
  <2>2. WorkerInv(work)'
    <3>1. CASE Idle
      BY <3>1, IdleKeepsRows
    <3>2. ASSUME NEW step \in Steps \ {"alias"}, Goto(step) PROVE WorkerInv(work)'
      <4>1. step \notin {"idle", "alias"}
        BY DEF Steps
      <4> QED
        BY <2>1, <3>2, <4>1, GotoKeepsRows DEF RowInv
    <3> QED
      BY <2>1, <3>1, <3>2
  <2>3. CanonInv(work)'
    <3>1. \A k \in Keys : canon'[k] \in {canon[k], NoRow}
      BY <2>1
    <3> QED
      BY <3>1, CanonKeeps DEF RowInv
  <2> QED
    BY <2>2, <2>3 DEF RowInv
<1>5. CASE Interrupted \/ Failed
  <2>1. Idle /\ canon' = canon
    BY <1>5 DEF Interrupted, Failed, Bury, stores
  <2> QED
    BY <2>1, IdleKeepsRows, CanonKeeps DEF RowInv
<1>6. CASE (\E j \in Jobs : Send(j) \/ Redrive(j)) \/ UNCHANGED vars
  <2>1. UNCHANGED <<pc, job, existing, row, todo, canon>>
    BY <1>6 DEF Send, Redrive, stores, worker, vars
  <2> QED
    BY <2>1 DEF RowInv, CanonInv, WorkerInv, RealRow, OfWork, paper
<1> QED
  BY <1>1, <1>2, <1>3, <1>4, <1>5, <1>6 DEF Next, Work

\* An arXiv paper is never the loser of another paper's job: a better source than arXiv
\* does not exist, and the work has no other arXiv record.
LEMMA ArxivNeverLoses ==
  ASSUME NEW work, SeparatesWorks(work), PaperInv, RowInv(work), pc = "loser",
         NEW r \in Arxiv
  PROVE  existing.paper # PaperOf[r]
<1> SUFFICES ASSUME existing.paper = PaperOf[r] PROVE FALSE
  OBVIOUS
<1>1. /\ existing # NoRow /\ existing.paper # paper
      /\ job \in Jobs /\ job.record \in Records /\ r \in Records /\ PriorityOf[r] = 0
      /\ PriorityOf[job.record] \in 0..2
  BY OwnTypes, JobParts DEF PaperInv, LoserIsOther, Arxiv
<1>2. existing.priority = 0
  <2>1. PICK s \in Records : PaperOf[s] = existing.paper /\ PriorityOf[s] = existing.priority
    BY <1>1 DEF RowInv, WorkerInv, RealRow
  <2>2. s = r
    BY <1>1, <2>1, PaperIdentity
  <2> QED
    BY <1>1, <2>1, <2>2
<1>3. PriorityOf[job.record] = 0
  BY <1>1, <1>2 DEF RowInv, WorkerInv
<1>4. work[PaperOf[r]] = work[PaperOf[job.record]]
  BY <1>1 DEF RowInv, WorkerInv, paper
<1>5. r = job.record
  BY <1>1, <1>3, <1>4 DEF SeparatesWorks
<1> QED
  BY <1>1, <1>5 DEF paper

-----------------------------------------------------------------------------
\* ArxivInv: what the ledger says of an arXiv paper, and who still has to do with it.

LEMMA InitArxivInv == Init => ArxivInv
<1> SUFFICES ASSUME Init, NEW r \in Arxiv PROVE ArxivOf(r)
  BY DEF ArxivInv
<1>1. ledger[PaperOf[r]] = [version |-> 0, closed |-> FALSE, state |-> "INDEXED"]
  BY DEF Init, Arxiv, Papers
<1> QED
  BY <1>1 DEF Init, ArxivOf, ClosedIsWhole, ClaimedByJob, OpenIsPending, DoneIsNoNewer

\* A step that leaves the paper alone: messages may move, and one may be finished if
\* there is nothing left to do for it.
LEMMA PaperUntouched ==
  ASSUME NEW r \in Arxiv, ArxivOf(r),
         ledger'[PaperOf[r]] = ledger[PaperOf[r]], chunks'[PaperOf[r]] = chunks[PaperOf[r]],
         done \union queue \union dlq \subseteq done' \union queue' \union dlq',
         \A j \in (queue \union dlq) \ (queue' \union dlq') :
             j.record = r /\ j.version = ledger[PaperOf[r]].version => Finished(r),
         \A j \in done' \ done : j.record = r => j.version <= ledger[PaperOf[r]].version
  PROVE  ArxivOf(r)'
<1>1. ClosedIsWhole(r)'
  BY DEF ArxivOf, ClosedIsWhole, Document
<1>2. ClaimedByJob(r)'
  BY DEF ArxivOf, ClaimedByJob
<1>3. Finished(r)' = Finished(r)
  BY DEF Finished, NoDocument
<1>4. OpenIsPending(r)'
  <2> SUFFICES ASSUME ledger'[PaperOf[r]].version > 0, ~Finished(r)'
               PROVE  \E j \in queue' \union dlq' :
                          j.record = r /\ j.version = ledger'[PaperOf[r]].version
    BY DEF OpenIsPending, Pending
  <2>1. PICK j \in queue \union dlq : j.record = r /\ j.version = ledger[PaperOf[r]].version
    BY <1>3 DEF ArxivOf, OpenIsPending, Pending
  <2>2. j \in queue' \union dlq'
    BY <1>3, <2>1
  <2> QED
    BY <2>1, <2>2
<1>5. DoneIsNoNewer(r)'
  BY DEF ArxivOf, DoneIsNoNewer
<1> QED
  BY <1>1, <1>2, <1>4, <1>5 DEF ArxivOf

\* The worker holds the claim of the paper, and its message is not finished.
LEMMA ClaimIsPending ==
  ASSUME PaperInv, NEW r \in Arxiv, ArxivOf(r), pc # "idle", job.record = r,
         job \in queue' \union dlq', done' = done,
         ~ledger'[PaperOf[r]].closed, ledger'[PaperOf[r]].version = job.version,
         job.withdrawn <=> ledger'[PaperOf[r]].state = "TOMBSTONED",
         ledger[PaperOf[r]].version <= job.version
  PROVE  ArxivOf(r)'
<1>1. ClosedIsWhole(r)'
  BY DEF ClosedIsWhole
<1>2. ClaimedByJob(r)'
  BY DEF ClaimedByJob
<1>3. OpenIsPending(r)'
  BY DEF OpenIsPending, Pending
<1>4. DoneIsNoNewer(r)'
  <2> SUFFICES ASSUME NEW j \in done, j.record = r
               PROVE  j.version <= job.version
    BY DEF DoneIsNoNewer
  <2>1. j.version <= ledger[PaperOf[r]].version
    BY DEF ArxivOf, DoneIsNoNewer
  <2>2. j.version \in Nat /\ job.version \in Nat
    BY OwnTypes, JobParts, BoundsAreNat DEF PaperInv, TypeOK, Versions
  <2>3. ledger[PaperOf[r]].version \in Nat
    BY BoundsAreNat DEF Arxiv, Papers, PaperInv, TypeOK
  <2> QED
    BY <2>1, <2>2, <2>3
<1> QED
  BY <1>1, <1>2, <1>3, <1>4 DEF ArxivOf

\* Which papers, and which messages, a step of the worker can change.
LEMMA WorkEffect ==
  ASSUME PaperInv, pc # "idle", Work
  PROVE  /\ \A q \in Papers : q # paper /\ (pc = "loser" => q # existing.paper) =>
                ledger'[q] = ledger[q] /\ chunks'[q] = chunks[q]
         /\ \/ UNCHANGED <<queue, dlq, done>>
            \/ queue' = queue \ {job} /\ done' = done \union {job} /\ dlq' = dlq
            \/ queue' = queue \ {job} /\ dlq' = dlq \union {job} /\ done' = done
<1> DEFINE Others == \A q \in Papers : q # paper /\ (pc = "loser" => q # existing.paper) =>
                         ledger'[q] = ledger[q] /\ chunks'[q] = chunks[q]
           Moves == \/ UNCHANGED <<queue, dlq, done>>
                    \/ queue' = queue \ {job} /\ done' = done \union {job} /\ dlq' = dlq
                    \/ queue' = queue \ {job} /\ dlq' = dlq \union {job} /\ done' = done
<1>1. TypeOK /\ paper \in Papers /\ ledger \in LedgerMaps
      /\ 1..SizeOf[job.record][job.version] \in SUBSET Ordinals
  BY OwnTypes, TypesOfParts DEF PaperInv
<1>2. CASE \/ \E k \in Keys : WriteRow(k)
           \/ Evaluate \/ Build \/ RecordCanonicalWinner \/ DeleteLoserRows \/ DeleteOwnRows
  <2>1. Others
    BY <1>2 DEF WriteRow, Evaluate, Build, RecordCanonicalWinner, DeleteLoserRows,
                DeleteOwnRows, stores
  <2>2. Moves
    BY <1>2 DEF WriteRow, Evaluate, Build, RecordCanonicalWinner, DeleteLoserRows,
                DeleteOwnRows, Ack
  <2> QED
    BY <2>1, <2>2
<1>3. CASE Claim \/ ClaimTombstone \/ MarkIngested \/ Exclude
  <2>1. Others
    BY <1>1, <1>3 DEF Claim, ClaimTombstone, MarkIngested, Exclude, LedgerMaps
  <2>2. Moves
    BY <1>3 DEF Claim, ClaimTombstone, MarkIngested, Exclude, Ack, Bury
  <2> QED
    BY <2>1, <2>2
<1>4. CASE BulkUpsert
  BY <1>1, <1>4, UpsertEffect
<1>5. CASE DeleteStaleChunks \/ TombstonePaper
  <2>1. PICK which \in SUBSET Ordinals, next \in Steps : DeleteChunks(paper, which, next)
    BY <1>5 DEF DeleteStaleChunks, TombstonePaper, Steps
  <2> QED
    BY <1>1, <2>1, DeleteEffect
<1>6. CASE RemoveCanonicalLoser
  <2>1. pc = "loser" /\ DeleteChunks(existing.paper, Ordinals, "unlink")
    BY <1>6 DEF RemoveCanonicalLoser
  <2>2. existing.paper \in Papers
    BY <2>1 DEF PaperInv, LoserIsOther, TypeOK, Rows
  <2> QED
    BY <1>1, <2>1, <2>2, DeleteEffect
<1>7. ASSUME NEW j \in Jobs, Begin(j) PROVE FALSE
  BY <1>7 DEF Begin
<1> QED
  BY <1>2, <1>3, <1>4, <1>5, <1>6, <1>7 DEF Work

\* A step of another record's job.
LEMMA OthersKeepArxiv ==
  ASSUME NEW work, SeparatesWorks(work), PaperInv, RowInv(work), pc # "idle", Work,
         NEW r \in Arxiv, ArxivOf(r), job.record # r
  PROVE  ArxivOf(r)'
<1>1. /\ r \in Records /\ PriorityOf[r] = 0 /\ PaperOf[r] \in Papers
      /\ job.record \in Records
  BY OwnTypes, JobParts DEF PaperInv, Arxiv, Papers
<1>2. PaperOf[r] # paper
  BY <1>1, PaperIdentity DEF paper
<1>3. ledger'[PaperOf[r]] = ledger[PaperOf[r]] /\ chunks'[PaperOf[r]] = chunks[PaperOf[r]]
  BY <1>1, <1>2, WorkEffect, ArxivNeverLoses
<1>4. \/ UNCHANGED <<queue, dlq, done>>
      \/ queue' = queue \ {job} /\ done' = done \union {job} /\ dlq' = dlq
      \/ queue' = queue \ {job} /\ dlq' = dlq \union {job} /\ done' = done
  BY WorkEffect
<1> QED
  BY <1>3, <1>4, PaperUntouched

\* Steps of the paper's own job that leave its row and its chunks alone.  An acknowledged
\* message is either older than the row or has nothing left to do.
LEMMA OwnJobPasses ==
  ASSUME PaperInv, NEW r \in Arxiv, ArxivOf(r), pc # "idle", job.record = r,
         ledger'[PaperOf[r]] = ledger[PaperOf[r]], chunks'[PaperOf[r]] = chunks[PaperOf[r]],
         dlq' = dlq,
         \/ UNCHANGED <<queue, done>>
         \/ /\ queue' = queue \ {job} /\ done' = done \union {job}
            /\ \/ job.version < ledger[PaperOf[r]].version
               \/ job.version = ledger[PaperOf[r]].version /\ Finished(r)
  PROVE  ArxivOf(r)'
<1>1. CASE UNCHANGED <<queue, done>>
  BY <1>1, PaperUntouched
<1>2. CASE /\ queue' = queue \ {job} /\ done' = done \union {job}
           /\ \/ job.version < ledger[PaperOf[r]].version
              \/ job.version = ledger[PaperOf[r]].version /\ Finished(r)
  <2>1. job.version \in Nat /\ ledger[PaperOf[r]].version \in Nat
    BY OwnTypes, JobParts, BoundsAreNat DEF Arxiv, Papers, PaperInv, TypeOK, Versions
  <2>2. done \union queue \union dlq \subseteq done' \union queue' \union dlq'
    BY <1>2
  <2>3. \A j \in (queue \union dlq) \ (queue' \union dlq') : j = job
    BY <1>2
  <2>4. \A j \in done' \ done : j = job
    BY <1>2
  <2>5. job.version <= ledger[PaperOf[r]].version
    BY <1>2, <2>1
  <2>6. job.version = ledger[PaperOf[r]].version => Finished(r)
    BY <1>2, <2>1
  <2> QED
    BY <2>2, <2>3, <2>4, <2>5, <2>6, PaperUntouched
<1> QED
  BY <1>1, <1>2

\* Claiming the paper, for its document or for its removal.
LEMMA ClaimsKeepArxiv ==
  ASSUME PaperInv, NEW r \in Arxiv, ArxivOf(r), job.record = r, Claim \/ ClaimTombstone
  PROVE  ArxivOf(r)'
<1>1. /\ pc # "idle" /\ PaperOf[r] = paper /\ paper \in Papers /\ job \in queue
      /\ ledger \in LedgerMaps /\ job.version \in Nat /\ ledger[paper].version \in Nat
      /\ chunks' = chunks /\ dlq' = dlq
      /\ pc = "claim" => ~job.withdrawn
      /\ pc = "withdraw" => job.withdrawn
  BY OwnTypes, TypesOfParts, JobParts, BoundsAreNat
  DEF Claim, ClaimTombstone, PaperInv, JobIsQueued, BranchFits, paper, TypeOK, Versions
<1>2. CASE Ack /\ UNCHANGED ledger /\ ~(ledger[paper].version <= job.version)
  <2>1. job.version < ledger[paper].version
    BY <1>1, <1>2
  <2> QED
    BY <1>1, <1>2, <2>1, OwnJobPasses DEF Ack
<1>3. ASSUME NEW state,
             ledger' = [ledger EXCEPT ![paper] =
                 [version |-> job.version, closed |-> FALSE, state |-> state]],
             UNCHANGED <<queue, done>>, ledger[paper].version <= job.version,
             job.withdrawn <=> state = "TOMBSTONED"
      PROVE  ArxivOf(r)'
  <2>1. ledger'[paper] = [version |-> job.version, closed |-> FALSE, state |-> state]
    BY <1>1, <1>3 DEF LedgerMaps
  <2>2. /\ ~ledger'[PaperOf[r]].closed /\ ledger'[PaperOf[r]].version = job.version
        /\ ledger'[PaperOf[r]].state = state
    BY <1>1, <2>1
  <2> QED
    BY <1>1, <1>3, <2>2, ClaimIsPending
<1>4. CASE Claim
  BY <1>1, <1>2, <1>3, <1>4 DEF Claim
<1>5. CASE ClaimTombstone
  BY <1>1, <1>2, <1>3, <1>5 DEF ClaimTombstone
<1> QED
  BY <1>4, <1>5

\* Under the claim: the row stays as it was claimed, or a failed build excludes it.
LEMMA WritesKeepArxiv ==
  ASSUME PaperInv, NEW r \in Arxiv, ArxivOf(r), job.record = r,
         Exclude \/ BulkUpsert \/ DeleteStaleChunks \/ TombstonePaper
  PROVE  ArxivOf(r)'
<1>1. /\ pc # "idle" /\ PaperOf[r] = paper /\ paper \in Papers /\ job \in queue
      /\ ledger \in LedgerMaps /\ job.version \in Nat
      /\ ledger[paper].version = job.version /\ ~ledger[paper].closed
      /\ job.withdrawn <=> ledger[paper].state = "TOMBSTONED"
  BY OwnTypes, TypesOfParts, JobParts, BoundsAreNat
  DEF Exclude, BulkUpsert, DeleteStaleChunks, TombstonePaper, PaperInv, JobIsQueued,
      BranchFits, ClaimHeld, Claimed, Removing, paper, Versions
<1>2. CASE Exclude
  <2>1. job \in dlq' /\ done' = done
    BY <1>2 DEF Exclude, Bury
  <2>2. /\ ledger'[paper].closed = ledger[paper].closed
        /\ ledger'[paper].version = ledger[paper].version
        /\ ledger'[paper].state # ledger[paper].state =>
               ledger[paper].state = "INDEXED" /\ ledger'[paper].state = "EXCLUDED"
    BY <1>1, <1>2 DEF Exclude, LedgerMaps
  <2>3. ledger'[paper].state = "TOMBSTONED" <=> ledger[paper].state = "TOMBSTONED"
    BY <2>2
  <2> QED
    BY <1>1, <2>1, <2>2, <2>3, ClaimIsPending
<1>3. CASE BulkUpsert \/ DeleteStaleChunks \/ TombstonePaper
  <2>1. UNCHANGED <<queue, done, ledger>>
    BY <1>3 DEF BulkUpsert, DeleteStaleChunks, TombstonePaper, DeleteChunks
  <2> QED
    BY <1>1, <2>1, ClaimIsPending
<1> QED
  BY <1>2, <1>3

\* The claim is closed over the whole document.
LEMMA MarkKeepsArxiv ==
  ASSUME PaperInv, NEW r \in Arxiv, ArxivOf(r), job.record = r, MarkIngested
  PROVE  ArxivOf(r)'
<1>1. /\ pc # "idle" /\ PaperOf[r] = paper /\ paper \in Papers /\ job \in queue
      /\ ledger[paper].version = job.version /\ ~job.withdrawn /\ chunks'[paper] = document
      /\ ledger'[paper] = [version |-> job.version, closed |-> TRUE, state |-> "INDEXED"]
  BY MarkEffect DEF MarkIngested, PaperInv, JobIsQueued, ClaimHeld, Claimed, paper
<1>2. UNCHANGED <<queue, dlq, done>>
  BY DEF MarkIngested
<1>3. /\ ledger'[PaperOf[r]].closed /\ ledger'[PaperOf[r]].version = job.version
      /\ ledger'[PaperOf[r]].state = "INDEXED" /\ ledger[PaperOf[r]].version = job.version
  BY <1>1
<1>4. ClosedIsWhole(r)'
  BY <1>1, <1>3 DEF ClosedIsWhole, document
<1>5. ClaimedByJob(r)'
  BY <1>1, <1>2, <1>3 DEF ClaimedByJob
<1>6. OpenIsPending(r)'
  BY <1>3 DEF OpenIsPending, Finished
<1>7. DoneIsNoNewer(r)'
  BY <1>2, <1>3 DEF ArxivOf, DoneIsNoNewer
<1> QED
  BY <1>4, <1>5, <1>6, <1>7 DEF ArxivOf

\* The rest of the job.
LEMMA PassesKeepArxiv ==
  ASSUME NEW work, PaperInv, RowInv(work), NEW r \in Arxiv, ArxivOf(r), job.record = r,
         \/ \E k \in Keys : WriteRow(k)
         \/ Evaluate \/ Build \/ RecordCanonicalWinner \/ RemoveCanonicalLoser
         \/ DeleteLoserRows \/ DeleteOwnRows
  PROVE  ArxivOf(r)'
<1>1. TypeOK /\ PaperOf[r] = paper /\ PriorityOf[job.record] = 0
  BY DEF PaperInv, paper, Arxiv
<1>2. ASSUME NEW k \in Keys, WriteRow(k) PROVE ArxivOf(r)'
  <2>1. pc = "winner" /\ UNCHANGED <<ledger, chunks, dlq>>
    BY <1>1, <1>2 DEF WriteRow, RowInv, WorkerInv
  <2>2. ledger[paper].version = job.version /\ Finished(r)
    BY <1>1, <2>1 DEF PaperInv, ClaimHeld, Closing, Finished
  <2>3. UNCHANGED <<queue, done>> \/ (queue' = queue \ {job} /\ done' = done \union {job})
    BY <1>2 DEF WriteRow, Ack
  <2> QED
    BY <1>1, <2>1, <2>2, <2>3, OwnJobPasses
<1>3. CASE Evaluate
  <2>1. pc # "idle" /\ UNCHANGED <<ledger, chunks, dlq>>
    BY <1>3 DEF Evaluate, stores
  <2>2. \/ UNCHANGED <<queue, done>>
        \/ Ack /\ decide_dedup(ledger[paper], job.version) = "STALE"
    BY <1>3 DEF Evaluate
  <2>3. decide_dedup(ledger[paper], job.version) = "STALE" =>
            job.version < ledger[paper].version
    BY DEF decide_dedup
  <2> QED
    BY <1>1, <2>1, <2>2, <2>3, OwnJobPasses DEF Ack
<1>4. CASE Build \/ RecordCanonicalWinner \/ DeleteLoserRows
  BY <1>1, <1>4, OwnJobPasses DEF Build, RecordCanonicalWinner, DeleteLoserRows, stores
<1>5. CASE RemoveCanonicalLoser
  <2>1. /\ pc = "loser" /\ existing \in Rows /\ existing.paper # paper
        /\ existing.paper \in Papers /\ paper \in Papers
    BY <1>5, OwnTypes DEF RemoveCanonicalLoser, PaperInv, LoserIsOther, TypeOK, Rows
  <2>2. chunks'[paper] = chunks[paper] /\ UNCHANGED <<queue, dlq, done, ledger>>
    BY <1>1, <1>5, <2>1, DeleteEffect DEF RemoveCanonicalLoser
  <2> QED
    BY <1>1, <2>1, <2>2, OwnJobPasses
<1>6. CASE DeleteOwnRows
  <2>1. /\ pc = "forget" /\ UNCHANGED <<ledger, chunks, dlq>>
        /\ queue' = queue \ {job} /\ done' = done \union {job}
    BY <1>6 DEF DeleteOwnRows, Ack
  <2>2. ledger[paper].version = job.version /\ Finished(r)
    BY <1>1, <2>1 DEF PaperInv, ClaimHeld, Removing, Written, Finished
  <2> QED
    BY <1>1, <2>1, <2>2, OwnJobPasses
<1> QED
  BY <1>2, <1>3, <1>4, <1>5, <1>6

LEMMA NextArxivInv ==
  ASSUME NEW work, SeparatesWorks(work), PaperInv, RowInv(work), ArxivInv, [Next]_vars
  PROVE  ArxivInv'
<1> SUFFICES ASSUME NEW r \in Arxiv PROVE ArxivOf(r)'
  BY DEF ArxivInv
<1>1. ArxivOf(r)
  BY DEF ArxivInv
<1>2. ASSUME NEW j \in Jobs, Begin(j) PROVE ArxivOf(r)'
  BY <1>1, <1>2, PaperUntouched DEF Begin, stores
<1>3. CASE Work /\ pc # "idle"
  <2>1. CASE job.record # r
    BY <1>1, <1>3, <2>1, OthersKeepArxiv
  <2>2. CASE job.record = r
    <3>1. ASSUME NEW j \in Jobs, Begin(j) PROVE ArxivOf(r)'
      BY <1>2, <3>1
    <3> QED
      BY <1>1, <1>3, <2>2, <3>1, ClaimsKeepArxiv, WritesKeepArxiv, MarkKeepsArxiv,
         PassesKeepArxiv DEF Work
  <2> QED
    BY <2>1, <2>2
<1>4. CASE Work /\ pc = "idle"
  <2>1. PICK j \in Jobs : Begin(j)
    BY <1>4 DEF Work, WriteRow, Evaluate, Claim, Build, Exclude, BulkUpsert,
                DeleteStaleChunks, MarkIngested, RecordCanonicalWinner, RemoveCanonicalLoser,
                DeleteLoserRows, ClaimTombstone, TombstonePaper, DeleteOwnRows
  <2> QED
    BY <1>2, <2>1
<1>5. CASE Failed
  BY <1>1, <1>5, PaperUntouched DEF Failed, Bury, stores
<1>6. CASE Interrupted \/ (\E j \in Jobs : Send(j) \/ Redrive(j)) \/ UNCHANGED vars
  <2>1. /\ UNCHANGED <<ledger, chunks, done>>
        /\ queue \union dlq \subseteq queue' \union dlq'
    BY <1>6 DEF Interrupted, Send, Redrive, stores, vars
  <2> QED
    BY <1>1, <2>1, PaperUntouched
<1> QED
  BY <1>3, <1>4, <1>5, <1>6 DEF Next

-----------------------------------------------------------------------------
\* What the library's reader may rely on for arXiv papers.

LEMMA ArxivInvariance ==
  ASSUME OneArxivRecordPerWork
  PROVE  Spec => []ArxivInv
<1>1. PICK work \in [Papers -> Papers] : SeparatesWorks(work)
  BY DEF OneArxivRecordPerWork
<1> DEFINE Both == PaperInv /\ RowInv(work) /\ ArxivInv
<1>2. Init => Both
  BY InitPaperInv, InitRowInv, InitArxivInv
<1>3. Both /\ [Next]_vars => Both'
  <2> SUFFICES ASSUME Both, [Next]_vars PROVE Both'
    OBVIOUS
  <2>1. PaperInv'
    BY NextPaperInv
  <2>2. RowInv(work)'
    BY <1>1, NextRowInv
  <2>3. ArxivInv'
    BY <1>1, NextArxivInv
  <2> QED
    BY <2>1, <2>2, <2>3
<1>4. Both => ArxivInv
  OBVIOUS
<1> HIDE DEF Both
<1> QED
  BY <1>2, <1>3, <1>4, PTL DEF Spec

\* A settled ledger row of an arXiv paper was claimed by a job that is done.
LEMMA SettledRow ==
  ASSUME PaperInv, ArxivInv, Settled, NEW r \in Arxiv, ledger[PaperOf[r]].version > 0
  PROVE  /\ Finished(r)
         /\ \E j \in done : /\ j.record = r /\ j.version = ledger[PaperOf[r]].version
                            /\ j.withdrawn <=> ledger[PaperOf[r]].state = "TOMBSTONED"
<1>1. ArxivOf(r) /\ queue = {} /\ dlq = {}
  BY DEF ArxivInv, Settled
<1>2. Finished(r)
  BY <1>1 DEF ArxivOf, OpenIsPending, Pending
<1>3. \E j \in done : /\ j.record = r /\ j.version = ledger[PaperOf[r]].version
                      /\ j.withdrawn <=> ledger[PaperOf[r]].state = "TOMBSTONED"
  BY <1>1 DEF ArxivOf, ClaimedByJob
<1> QED
  BY <1>2, <1>3

\* The newest acknowledged version of an arXiv paper is the one in the index, whatever
\* order the versions came in, and however often each was delivered or interrupted
\* (DeduplicationGuard, try_claim_upsert, try_claim_tombstone).
THEOREM NewestIsDelivered ==
  ASSUME OneArxivRecordPerWork, VersionsAreFixed
  PROVE  Spec => []NewestDelivered
<1>1. PaperInv /\ ArxivInv => NewestDelivered
  <2> SUFFICES ASSUME PaperInv, ArxivInv, Settled,
                      NEW j \in done, PriorityOf[j.record] = 0,
                      \A i \in done : i.record = j.record => i.version <= j.version
               PROVE  chunks[PaperOf[j.record]] =
                          IF j.withdrawn THEN NoDocument ELSE Document(j.record, j.version)
    BY DEF NewestDelivered
  <2> DEFINE r == j.record
             l == ledger[PaperOf[j.record]]
  <2>1. /\ done \subseteq Jobs /\ j \in Jobs /\ r \in Arxiv /\ PaperOf[r] \in Papers
        /\ j.version \in Nat \ {0} /\ l.version \in Nat
    BY JobParts, BoundsAreNat DEF PaperInv, TypeOK, Arxiv, Versions
  <2>2. j.version <= l.version
    BY <2>1 DEF ArxivInv, ArxivOf, DoneIsNoNewer
  <2>3. l.version > 0
    BY <2>1, <2>2
  <2>4. PICK i \in done : /\ i.record = r /\ i.version = l.version
                          /\ i.withdrawn <=> l.state = "TOMBSTONED"
    BY <2>1, <2>3, SettledRow
  <2>5. l.version = j.version
    BY <2>1, <2>2, <2>4
  <2>6. j.withdrawn <=> l.state = "TOMBSTONED"
    BY <2>1, <2>4, <2>5 DEF VersionsAreFixed
  <2>7. Finished(r)
    BY <2>1, <2>3, SettledRow
  <2>8. l.closed => l.state = "INDEXED"
    BY <2>1 DEF PaperInv, RowsOfLedger
  <2>9. CASE j.withdrawn
    BY <2>6, <2>7, <2>8, <2>9 DEF Finished
  <2>10. CASE ~j.withdrawn
    <3>1. l.closed
      BY <2>6, <2>7, <2>10 DEF Finished
    <3>2. ClosedIsWhole(r)
      BY <2>1 DEF ArxivInv, ArxivOf
    <3>3. chunks[PaperOf[r]] = Document(r, l.version)
      BY <3>1, <3>2 DEF ClosedIsWhole
    <3> QED
      BY <2>5, <2>10, <3>3
  <2> QED
    BY <2>9, <2>10
<1> QED
  BY <1>1, PipelineInvariance, ArxivInvariance, PTL

\* Once nothing is under way, a withdrawn arXiv paper has no chunk, an ingested one is
\* whole, and no claim was left open by a crash, an error or the DLQ.
LEMMA ArxivMatches ==
  ASSUME PaperInv, ArxivInv, Settled, NEW r \in Arxiv
  PROVE  LedgerMatches(PaperOf[r])
<1> DEFINE p == PaperOf[r]
<1>1. /\ r \in Records /\ p \in Papers /\ ledger[p].version \in Nat
      /\ ledger[p].closed => ledger[p].state = "INDEXED"
      /\ ledger[p].version = 0 => ~ledger[p].closed /\ ledger[p].state = "INDEXED"
  BY BoundsAreNat DEF Arxiv, Papers, PaperInv, RowsOfLedger, TypeOK
<1>2. ledger[p].version > 0 => Finished(r)
  BY SettledRow
<1>3. ledger[p].state = "TOMBSTONED" => chunks[p] = NoDocument
  BY <1>1, <1>2 DEF Finished
<1>4. ledger[p].closed => chunks[p] = Document(r, ledger[p].version)
  BY DEF ArxivInv, ArxivOf, ClosedIsWhole
<1>5. ledger[p].version > 0 => ledger[p].closed \/ ledger[p].state = "TOMBSTONED"
  BY <1>2 DEF Finished
<1> QED
  BY <1>1, <1>3, <1>4, <1>5 DEF LedgerMatches

-----------------------------------------------------------------------------
\* As long as nothing fails, every paper is whole or gone, the external ones too.

QuietPaper(p) ==
    /\ ledger[p].closed =>
           chunks[p] \in {NoDocument}
               \union {Document(r, ledger[p].version) : r \in {s \in Records : PaperOf[s] = p}}
    /\ ledger[p].state = "TOMBSTONED" =>
           chunks[p] = NoDocument \/ (pc = "tombstone" /\ paper = p)

QuietPapers == faults = 0 => \A p \in Papers : QuietPaper(p)

\* No error is taken back.
LEMMA NoTrouble ==
  ASSUME TypeOK, faults' = 0
  PROVE  ~Trouble
BY BoundsAreNat DEF TypeOK, Trouble

LEMMA StillQuiet ==
  ASSUME TypeOK, faults' = 0, [Next]_vars
  PROVE  faults = 0 /\ ~Interrupted /\ ~Failed /\ ~Exclude
<1>1. ~Trouble
  BY NoTrouble
<1>2. ~Interrupted /\ ~Failed /\ ~Exclude
  BY <1>1 DEF Interrupted, Failed, Exclude, Bury
<1> SUFFICES faults' = faults
  BY <1>2
<1>3. ASSUME NEW p, NEW which, NEW next, DeleteChunks(p, which, next)
      PROVE  faults' = faults
  BY <1>1, <1>3, Zenon DEF DeleteChunks
<1>4. CASE BulkUpsert
  BY <1>1, <1>4, Zenon DEF BulkUpsert
<1>5. CASE DeleteStaleChunks
  BY <1>3, <1>5, Zenon DEF DeleteStaleChunks
<1>6. CASE RemoveCanonicalLoser
  BY <1>3, <1>6, Zenon DEF RemoveCanonicalLoser
<1>7. CASE TombstonePaper
  BY <1>3, <1>7, Zenon DEF TombstonePaper
<1>8. ASSUME NEW j, Begin(j) \/ Send(j) \/ Redrive(j) PROVE faults' = faults
  BY <1>8, Zenon DEF Begin, Send, Redrive
<1>9. ASSUME NEW k, WriteRow(k) PROVE faults' = faults
  BY <1>9, Zenon DEF WriteRow
<1>10. CASE \/ Evaluate \/ Claim \/ Build \/ MarkIngested \/ RecordCanonicalWinner
            \/ DeleteLoserRows \/ ClaimTombstone \/ DeleteOwnRows
  BY <1>10, Zenon DEF Evaluate, Claim, Build, MarkIngested, RecordCanonicalWinner,
                      DeleteLoserRows, ClaimTombstone, DeleteOwnRows
<1>11. CASE UNCHANGED vars
  BY <1>11, Zenon DEF vars
<1> QED
  BY <1>2, <1>4, <1>5, <1>6, <1>7, <1>8, <1>9, <1>10, <1>11, Zenon DEF Next, Work

\* Without an error, what is to be deleted of a paper is deleted.
LEMMA DeleteAll ==
  ASSUME TypeOK, faults' = 0, NEW p \in Papers, NEW next, DeleteChunks(p, Ordinals, next)
  PROVE  /\ Goto(next) /\ chunks'[p] = NoDocument
         /\ \A q \in Papers : q # p => chunks'[q] = chunks[q]
         /\ UNCHANGED <<queue, dlq, done, ledger, canon>>
<1>1. PICK gone \in SUBSET Ordinals :
        /\ chunks' = [chunks EXCEPT ![p] =
               [n \in Ordinals |-> IF n \in gone THEN NoChunk ELSE @[n]]]
        /\ IF gone = Ordinals
           THEN Goto(next) /\ UNCHANGED faults
           ELSE Trouble /\ Idle
  BY DEF DeleteChunks
<1>2. gone = Ordinals /\ Goto(next)
  BY <1>1, NoTrouble
<1>3. [n \in Ordinals |-> IF n \in gone THEN NoChunk ELSE chunks[p][n]] = NoDocument
  BY <1>2 DEF NoDocument
<1>4. chunks'[p] = NoDocument /\ \A q \in Papers : q # p => chunks'[q] = chunks[q]
  BY <1>1, <1>3, TypesOfParts
<1> QED
  BY <1>2, <1>4 DEF DeleteChunks

LEMMA NextQuietPapers ==
  ASSUME PaperInv, QuietPapers, [Next]_vars
  PROVE  QuietPapers'
<1> SUFFICES ASSUME faults' = 0, NEW p \in Papers PROVE QuietPaper(p)'
  BY DEF QuietPapers
<1>1. /\ TypeOK /\ faults = 0 /\ QuietPaper(p) /\ ~Interrupted /\ ~Failed /\ ~Exclude
      /\ ledger \in LedgerMaps
  BY StillQuiet, TypesOfParts DEF QuietPapers, PaperInv
\* Steps that leave the paper alone, and are not those of its removal.
<1>2. ASSUME ledger'[p] = ledger[p], chunks'[p] = chunks[p], pc # "tombstone"
      PROVE  QuietPaper(p)'
  BY <1>1, <1>2 DEF QuietPaper, Document, NoDocument
<1>3. ASSUME ~ledger'[p].closed, ledger'[p].state = "INDEXED"
      PROVE  QuietPaper(p)'
  BY <1>3 DEF QuietPaper
<1>4. CASE \/ \E j \in Jobs : Begin(j)
           \/ \E k \in Keys : WriteRow(k)
           \/ Evaluate \/ Build \/ RecordCanonicalWinner \/ DeleteLoserRows \/ DeleteOwnRows
  BY <1>2, <1>4 DEF Begin, WriteRow, Evaluate, Build, RecordCanonicalWinner, DeleteLoserRows,
                    DeleteOwnRows, stores
<1>5. CASE Claim
  <2>1. /\ pc = "claim" /\ pc # "idle" /\ paper \in Papers /\ chunks' = chunks
        /\ \/ ledger' = ledger
           \/ ledger' = [ledger EXCEPT ![paper] =
                  [version |-> job.version, closed |-> FALSE, state |-> "INDEXED"]]
    BY <1>1, <1>5, OwnTypes DEF Claim
  <2>2. CASE p = paper /\ ledger' # ledger
    BY <1>1, <1>3, <2>1, <2>2 DEF LedgerMaps
  <2>3. CASE p # paper \/ ledger' = ledger
    BY <1>1, <1>2, <2>1, <2>3 DEF LedgerMaps
  <2> QED
    BY <2>2, <2>3
<1>6. CASE BulkUpsert \/ DeleteStaleChunks
  <2>1. /\ pc \in {"index", "stale"} /\ pc # "idle" /\ paper \in Papers
        /\ ~ledger[paper].closed /\ ledger[paper].state = "INDEXED"
    BY <1>1, <1>6, OwnTypes
    DEF BulkUpsert, DeleteStaleChunks, PaperInv, ClaimHeld, Claimed
  <2>2. ledger' = ledger
    BY <1>6 DEF BulkUpsert, DeleteStaleChunks, DeleteChunks
  <2>3. p # paper => chunks'[p] = chunks[p]
    BY <1>1, <1>6, <2>1, UpsertEffect, WorkEffect DEF Work
  <2>4. CASE p = paper
    BY <1>3, <2>1, <2>2, <2>4
  <2>5. CASE p # paper
    BY <1>2, <2>1, <2>2, <2>3, <2>5
  <2> QED
    BY <2>4, <2>5
<1>7. CASE MarkIngested
  <2>1. /\ job \in Jobs /\ chunks[paper] = document /\ chunks' = chunks /\ pc = "mark"
        /\ \A q \in Papers : ledger'[q] =
               IF q = paper THEN [version |-> job.version, closed |-> TRUE, state |-> "INDEXED"]
                            ELSE ledger[q]
    BY <1>7, MarkEffect DEF MarkIngested
  <2>2. CASE p = paper
    <3>1. /\ ledger'[p].version = job.version /\ ledger'[p].state = "INDEXED"
          /\ chunks'[p] = Document(job.record, ledger'[p].version)
      BY <2>1, <2>2 DEF document
    <3>2. job.record \in {s \in Records : PaperOf[s] = p}
      BY <2>1, <2>2, JobParts DEF paper
    <3> QED
      BY <3>1, <3>2 DEF QuietPaper, Document
  <2>3. CASE p # paper
    BY <1>2, <2>1, <2>3
  <2> QED
    BY <2>2, <2>3
<1>8. CASE RemoveCanonicalLoser
  <2>1. pc = "loser" /\ existing.paper \in Papers
    BY <1>1, <1>8 DEF RemoveCanonicalLoser, PaperInv, LoserIsOther, TypeOK, Rows
  <2>2. /\ chunks'[existing.paper] = NoDocument /\ ledger' = ledger
        /\ p # existing.paper => chunks'[p] = chunks[p]
    BY <1>1, <1>8, <2>1, DeleteAll DEF RemoveCanonicalLoser
  <2>3. CASE p = existing.paper
    BY <2>2, <2>3 DEF QuietPaper, NoDocument
  <2>4. CASE p # existing.paper
    BY <1>2, <2>1, <2>2, <2>4
  <2> QED
    BY <2>3, <2>4
<1>9. CASE ClaimTombstone
  <2>1. /\ pc = "withdraw" /\ pc # "idle" /\ paper \in Papers /\ chunks' = chunks
        /\ \/ ledger' = ledger
           \/ /\ ledger' = [ledger EXCEPT ![paper] =
                     [version |-> job.version, closed |-> FALSE, state |-> "TOMBSTONED"]]
              /\ Goto("tombstone")
    BY <1>1, <1>9, OwnTypes DEF ClaimTombstone
  <2>2. CASE p = paper /\ ledger' # ledger
    <3>1. ~ledger'[p].closed /\ pc' = "tombstone" /\ paper' = p
      BY <1>1, <2>1, <2>2 DEF LedgerMaps, Goto, paper
    <3> QED
      BY <3>1 DEF QuietPaper
  <2>3. CASE p # paper \/ ledger' = ledger
    BY <1>1, <1>2, <2>1, <2>3 DEF LedgerMaps
  <2> QED
    BY <2>2, <2>3
<1>10. CASE TombstonePaper
  <2>1. pc = "tombstone" /\ pc # "idle" /\ paper \in Papers
    BY <1>1, <1>10, OwnTypes DEF TombstonePaper
  <2>2. /\ chunks'[paper] = NoDocument /\ ledger' = ledger
        /\ p # paper => chunks'[p] = chunks[p]
    BY <1>1, <1>10, <2>1, DeleteAll DEF TombstonePaper
  <2>3. CASE p = paper
    BY <2>2, <2>3 DEF QuietPaper, NoDocument
  <2>4. CASE p # paper
    BY <1>1, <2>2, <2>4 DEF QuietPaper, Document, NoDocument
  <2> QED
    BY <2>3, <2>4
<1>11. CASE (\E j \in Jobs : Send(j) \/ Redrive(j)) \/ UNCHANGED vars
  <2>1. UNCHANGED <<ledger, chunks, pc, job>>
    BY <1>11 DEF Send, Redrive, stores, worker, vars
  <2> QED
    BY <1>1, <2>1 DEF QuietPaper, Document, NoDocument, paper
<1> QED
  BY <1>1, <1>4, <1>5, <1>6, <1>7, <1>8, <1>9, <1>10, <1>11 DEF Next, Work

\* Once nothing is under way, the ledger and the index agree: about every arXiv paper
\* whatever was interrupted, and about every other one as long as nothing failed
\* (mark_ingested, tombstone_paper, _remove_canonical_loser).
THEOREM LedgerAndIndexAgree ==
  ASSUME OneArxivRecordPerWork
  PROVE  Spec => []LedgerMatchesIndex
<1>1. Init => QuietPapers
  <2> SUFFICES ASSUME Init, NEW p \in Papers PROVE QuietPaper(p)
    BY DEF QuietPapers
  <2>1. ledger[p] = [version |-> 0, closed |-> FALSE, state |-> "INDEXED"]
    BY DEF Init
  <2> QED
    BY <2>1 DEF QuietPaper
<1>2. PaperInv /\ QuietPapers /\ [Next]_vars => QuietPapers'
  BY NextQuietPapers
<1>3. PaperInv /\ ArxivInv /\ QuietPapers => LedgerMatchesIndex
  <2> SUFFICES ASSUME PaperInv, ArxivInv, QuietPapers, Settled, NEW p \in Papers,
                      IsArxiv(p) \/ faults = 0
               PROVE  LedgerMatches(p)
    BY DEF LedgerMatchesIndex
  <2>1. CASE IsArxiv(p)
    BY <2>1, ArxivMatches DEF IsArxiv, Arxiv
  <2>2. CASE ~IsArxiv(p) /\ faults = 0
    BY <2>2 DEF QuietPapers, QuietPaper, Settled, LedgerMatches
  <2> QED
    BY <2>1, <2>2
<1> QED
  BY <1>1, <1>2, <1>3, PipelineInvariance, ArxivInvariance, PTL DEF Spec

-----------------------------------------------------------------------------
\* As long as nothing fails, the canonical rows agree with the index.

\* The key leads to the record's paper, by a row that is at least as good a source.
HeldAt(r, k) ==
    canon[k] # NoRow /\ canon[k].paper = PaperOf[r] /\ canon[k].priority <= PriorityOf[r]

Held(r) == \A k \in KeysOf[r] : HeldAt(r, k)

Tombstoned(p) == ledger[p].state = "TOMBSTONED"

Winning == Claimed \union Closing

\* The rows of a work name one paper.
OneName(work) ==
    \A k, l \in Keys :
        canon[k] # NoRow /\ canon[l] # NoRow /\ work[canon[k].paper] = work[canon[l].paper]
            => canon[k].paper = canon[l].paper

SearchableIsHeld ==
    \A s \in Searchable :
        Held(s) \/ (pc \in {"stale", "mark"} \union Closing /\ PaperOf[s] = paper)

\* A record of the named paper has rows at all of its keys.
NamedIsHeld ==
    \A k \in Keys : canon[k] # NoRow =>
        \/ \E c \in Records : PaperOf[c] = canon[k].paper /\ Held(c)
        \/ pc = "winner" /\ canon[k].paper = paper

\* The arXiv paper of p's work was withdrawn.
ArxivIsGone(work, p) ==
    \E c \in Records :
        work[PaperOf[c]] = work[p] /\ PriorityOf[c] = 0 /\ Tombstoned(PaperOf[c])

NamedIsThere(work) ==
    \A k \in Keys : canon[k] # NoRow =>
        \/ chunks[canon[k].paper] # NoDocument
        \/ ArxivIsGone(work, canon[k].paper)
        \/ pc \in Winning /\ work[canon[k].paper] = work[paper]
        \/ pc = "forget" /\ canon[k].paper = paper

\* A paper that was ingested and is not in the index was replaced by a better source,
\* which has stayed the winner or was arXiv and withdrawn.
GoneIsBeaten(work) ==
    \A p \in Papers : ledger[p].closed /\ chunks[p] = NoDocument =>
        /\ \A r \in Records : PaperOf[r] = p => PriorityOf[r] > 0
        /\ \/ ArxivIsGone(work, p)
           \/ \E c \in Records :
                  work[PaperOf[c]] = work[p] /\ PriorityOf[c] <= 1 /\ Held(c)
           \/ /\ pc \in Winning
              /\ work[paper] = work[p] /\ PriorityOf[job.record] <= 1

StoresAgree(work) ==
    /\ OneName(work) /\ SearchableIsHeld /\ NamedIsHeld /\ NamedIsThere(work)
    /\ GoneIsBeaten(work)

IsNamed(r) == \E k \in Keys : canon[k] # NoRow /\ canon[k].paper = r.paper

\* The row that the worker read when it began is still that of the winner.
WorkerReads(work) ==
    /\ pc = "alias" => row # NoRow /\ IsNamed(row)
    /\ pc \in Steps \ {"alias", "winner"} =>
           /\ existing # NoRow => IsNamed(existing)
           /\ \A c \in Records : Held(c) /\ work[PaperOf[c]] = work[paper] =>
                  existing # NoRow /\ existing.priority <= PriorityOf[c]

\* How the worker's paper becomes the winner.
WorkerWins(work) ==
    /\ pc = "unlink" => chunks[existing.paper] = NoDocument
    /\ pc \in {"loser", "unlink"} => KeysOf[job.record] \subseteq todo
    /\ pc \in {"loser", "unlink", "winner"} => row = own
    /\ pc = "winner" =>
           /\ \A k \in Keys : canon[k] # NoRow /\ work[canon[k].paper] = work[paper]
                  => canon[k].paper = paper
           /\ \A k \in KeysOf[job.record] \ todo : HeldAt(job.record, k)
    /\ pc \in Closing =>
           /\ \A s \in Searchable : PaperOf[s] = paper => s = job.record \/ Held(s)
           /\ chunks[paper] = NoDocument => ArxivIsGone(work, paper)

Agreement(work) == StoresAgree(work) /\ WorkerReads(work) /\ WorkerWins(work)

JoinsWorks(work) ==
    \A r, s \in Records :
        work[PaperOf[r]] = work[PaperOf[s]] <=> KeysOf[r] \intersect KeysOf[s] # {}

\* Works whose records have keys in common, two and two, are the works of the library.
LEMMA JoinedAreSeparate ==
  ASSUME OneArxivRecordPerWork, NEW work, JoinsWorks(work)
  PROVE  SeparatesWorks(work)
<1>1. PICK w \in [Papers -> Papers] : SeparatesWorks(w)
  BY DEF OneArxivRecordPerWork
<1> SUFFICES ASSUME NEW r \in Records, NEW s \in Records, PriorityOf[r] = 0, PriorityOf[s] = 0,
                    work[PaperOf[r]] = work[PaperOf[s]]
             PROVE  r = s
  BY DEF SeparatesWorks, JoinsWorks
<1>2. KeysOf[r] \intersect KeysOf[s] # {}
  BY DEF JoinsWorks
<1> QED
  BY <1>1, <1>2 DEF SeparatesWorks

\* A record has a key, and its first chunk is one.
LEMMA DocumentIsThere ==
  ASSUME NEW r \in Records, NEW v \in Versions
  PROVE  /\ Document(r, v) # NoDocument
         /\ \A n \in Ordinals : \A s \in Records : Document(r, v)[n].record = s => s = r
         /\ NoChunk.record \notin Records
<1>1. SizeOf[r][v] \in 1..MaxChunks
  BY PaperBounds DEF Ordinals
<1>2. 1 \in Ordinals /\ 1 <= SizeOf[r][v]
  BY <1>1, BoundsAreNat DEF Ordinals
<1>3. NoChunk.record \notin Records
  BY PaperIdentity DEF NoChunk
<1>4. Document(r, v)[1].record = r /\ NoDocument[1].record = NoChunk.record
  BY <1>2 DEF Document, NoDocument
<1>5. Document(r, v) # NoDocument
  BY <1>3, <1>4
<1>6. \A n \in Ordinals : \A s \in Records : Document(r, v)[n].record = s => s = r
  BY <1>3 DEF Document
<1> QED
  BY <1>3, <1>5, <1>6

LEMMA GoneIsNotSearchable ==
  ASSUME NEW s \in Searchable, chunks[PaperOf[s]] = NoDocument
  PROVE  FALSE
BY PaperIdentity DEF Searchable, NoDocument, NoChunk

\* The canonical row that a job reads is no worse than any at its keys.
LEMMA ExistingIsBest ==
  ASSUME TypeOK, NEW keys \in SUBSET Keys, NEW e \in CanonicalState(keys), NEW k \in keys,
         canon[k] # NoRow
  PROVE  e # NoRow /\ e.priority <= canon[k].priority
BY DEF CanonicalState

\* Held depends on the rows alone.
LEMMA SameRows ==
  ASSUME canon' = canon
  PROVE  /\ \A r : Held(r)' <=> Held(r)
         /\ \A r, k : HeldAt(r, k)' <=> HeldAt(r, k)
         /\ \A r : IsNamed(r)' <=> IsNamed(r)
         /\ \A work : OneName(work)' <=> OneName(work)
BY DEF Held, HeldAt, IsNamed, OneName

\* Rows are of real sources.
LEMMA RowParts ==
  ASSUME TypeOK, NEW k \in Keys, canon[k] # NoRow
  PROVE  canon[k] \in Rows /\ canon[k].paper \in Papers /\ canon[k].priority \in 0..2
BY DEF TypeOK, Rows

LEMMA RecordParts ==
  ASSUME NEW r \in Records
  PROVE  /\ PaperOf[r] \in Papers /\ PriorityOf[r] \in 0..2
         /\ KeysOf[r] \in SUBSET Keys /\ KeysOf[r] # {}
BY PaperBounds DEF Papers

\* Steps that write nothing: no exception made for a paper on its way ends with them.
LEMMA StoresStand ==
  ASSUME NEW work, StoresAgree(work), UNCHANGED <<ledger, chunks, canon>>, pc # "winner",
         pc # "forget",
         pc \in Winning => pc' \in Winning /\ job' = job,
         pc \in {"stale", "mark"} \union Closing => pc' \in {"stale", "mark"} \union Closing
  PROVE  StoresAgree(work)'
<1>1. {"stale", "mark"} \union Closing \subseteq Winning
  BY DEF Winning, Claimed, Closing
<1>2. /\ Searchable' = Searchable
      /\ \A r : Held(r)' <=> Held(r)
      /\ OneName(work)' <=> OneName(work)
      /\ \A p : ArxivIsGone(work, p)' <=> ArxivIsGone(work, p)
      /\ NoDocument' = NoDocument
  BY SameRows DEF Searchable, ArxivIsGone, Tombstoned, NoDocument
<1>3. OneName(work)'
  BY <1>2 DEF StoresAgree
<1>4. SearchableIsHeld'
  BY <1>1, <1>2 DEF StoresAgree, SearchableIsHeld, paper
<1>5. NamedIsHeld'
  BY <1>2 DEF StoresAgree, NamedIsHeld
<1>6. NamedIsThere(work)'
  BY <1>2 DEF StoresAgree, NamedIsThere, paper
<1>7. GoneIsBeaten(work)'
  BY <1>2 DEF StoresAgree, GoneIsBeaten, paper
<1> QED
  BY <1>3, <1>4, <1>5, <1>6, <1>7 DEF StoresAgree

LEMMA IdleAgrees ==
  ASSUME Idle, NEW work
  PROVE  WorkerReads(work)' /\ WorkerWins(work)'
BY DEF Idle, WorkerReads, WorkerWins, Steps, Closing

\* Until rows are written, the worker may rely on what it read.
LEMMA ReadsStand ==
  ASSUME NEW work, WorkerReads(work), canon' = canon, pc \in Steps \ {"alias", "winner"},
         job' = job, existing' = existing, pc' # "alias"
  PROVE  WorkerReads(work)'
<1>1. paper' = paper
  BY DEF paper
<1>2. \A r : (Held(r)' <=> Held(r)) /\ (IsNamed(r)' <=> IsNamed(r))
  BY SameRows
<1> QED
  BY <1>1, <1>2 DEF WorkerReads, IsNamed

LEMMA NothingWon ==
  ASSUME NEW work, pc' \notin Closing
  PROVE  WorkerWins(work)'
BY DEF WorkerWins, Closing

LEMMA BeginAgrees ==
  ASSUME NEW work, JoinsWorks(work), PaperInv, Agreement(work), NEW j \in Jobs, Begin(j)
  PROVE  Agreement(work)'
<1>1. /\ TypeOK /\ pc = "idle" /\ job' = j /\ paper' = PaperOf[j.record]
      /\ UNCHANGED <<ledger, chunks, canon>>
      /\ existing' \in CanonicalState(KeysOf[j.record])
      /\ j.record \in Records /\ KeysOf[j.record] \in SUBSET Keys
  BY JobParts DEF Begin, stores, paper, PaperInv
<1>2. StoresAgree(work)'
  BY <1>1, StoresStand DEF Agreement, Winning, Claimed, Closing
<1>3. existing' # NoRow => IsNamed(existing')
  BY <1>1, ExistingIsRead DEF IsNamed
<1>4. \A r : (Held(r)' <=> Held(r)) /\ (IsNamed(r)' <=> IsNamed(r))
  BY <1>1, SameRows
<1>5. ASSUME NEW c \in Records, Held(c), work[PaperOf[c]] = work[PaperOf[j.record]]
      PROVE  existing' # NoRow /\ existing'.priority <= PriorityOf[c]
  <2>1. PICK k \in KeysOf[c] : k \in KeysOf[j.record]
    BY <1>1, <1>5 DEF JoinsWorks
  <2>2. k \in Keys /\ canon[k] # NoRow /\ canon[k].priority <= PriorityOf[c]
    BY <1>1, <1>5, <2>1 DEF Held, HeldAt
  <2>3. existing' # NoRow /\ existing'.priority <= canon[k].priority
    BY <1>1, <2>1, <2>2, ExistingIsBest
  <2>4. existing' \in Rows
    BY <1>1, <2>3, ExistingIsRead, RowParts
  <2>5. existing'.priority \in 0..2 /\ canon[k].priority \in 0..2 /\ PriorityOf[c] \in 0..2
    BY <1>1, <2>2, <2>4, RowParts, RecordParts DEF Rows
  <2> QED
    BY <2>2, <2>3, <2>5
<1>6. \/ pc' = "alias" /\ row' = existing' /\ existing' # NoRow
      \/ pc' \in {"withdraw", "evaluate"}
  BY DEF Begin
<1>7. WorkerReads(work)'
  <2>1. pc' = "alias" => row' # NoRow /\ IsNamed(row)'
    BY <1>3, <1>4, <1>6 DEF IsNamed
  <2>2. existing' # NoRow => IsNamed(existing)'
    BY <1>3, <1>4 DEF IsNamed
  <2>3. \A c \in Records : Held(c)' /\ work[PaperOf[c]] = work[paper'] =>
            existing' # NoRow /\ existing'.priority <= PriorityOf[c]
    BY <1>1, <1>4, <1>5
  <2> QED
    BY <2>1, <2>2, <2>3 DEF WorkerReads
<1>8. WorkerWins(work)'
  BY <1>6, NothingWon DEF Closing
<1> QED
  BY <1>2, <1>7, <1>8 DEF Agreement

\* A job that ends with nothing written.
LEMMA NothingDone ==
  ASSUME NEW work, Agreement(work), UNCHANGED <<ledger, chunks, canon>>, Idle,
         pc \notin Winning, pc # "forget"
  PROVE  Agreement(work)'
BY StoresStand, IdleAgrees DEF Agreement, Winning, Claimed, Closing

LEMMA EvaluateAgrees ==
  ASSUME NEW work, PaperInv, RowInv(work), Agreement(work), Evaluate
  PROVE  Agreement(work)'
<1>1. /\ pc = "evaluate" /\ UNCHANGED <<ledger, chunks, canon>>
      /\ paper \in Papers /\ job \in Jobs /\ job.record \in Records
      /\ PriorityOf[job.record] \in 0..2
  BY OwnTypes, JobParts DEF Evaluate, stores, PaperInv
<1>2. \/ Ack
      \/ Goto("claim")
      \/ Goto("canonical") /\ decide_dedup(ledger[paper], job.version) = "DUPLICATE"
  BY DEF Evaluate
<1>3. CASE Ack
  BY <1>1, <1>3, NothingDone DEF Ack, Winning, Claimed, Closing
<1>4. CASE Goto("claim")
  <2>1. pc' = "claim" /\ job' = job /\ existing' = existing
    BY <1>4 DEF Goto
  <2>2. StoresAgree(work)'
    BY <1>1, StoresStand DEF Agreement, Winning, Claimed, Closing
  <2>3. WorkerReads(work)'
    BY <1>1, <2>1, ReadsStand DEF Agreement, Steps
  <2>4. WorkerWins(work)'
    BY <2>1, NothingWon DEF Closing
  <2> QED
    BY <2>2, <2>3, <2>4 DEF Agreement
<1>5. CASE Goto("canonical") /\ decide_dedup(ledger[paper], job.version) = "DUPLICATE"
  <2>1. pc' = "canonical" /\ job' = job /\ existing' = existing /\ paper' = paper
    BY <1>5 DEF Goto, paper
  <2>2. StoresAgree(work)'
    BY <1>1, StoresStand DEF Agreement, Winning, Claimed, Closing
  <2>3. WorkerReads(work)'
    BY <1>1, <2>1, ReadsStand DEF Agreement, Steps
  <2>4. \A s \in Searchable' : PaperOf[s] = paper' => s = job'.record \/ Held(s)'
    <3>1. Searchable' = Searchable /\ \A s : Held(s)' <=> Held(s)
      BY <1>1, SameRows DEF Searchable
    <3> QED
      BY <1>1, <3>1 DEF Agreement, StoresAgree, SearchableIsHeld, Closing
  <2>5. chunks[paper] = NoDocument => ArxivIsGone(work, paper)
    <3> SUFFICES ASSUME chunks[paper] = NoDocument, ~ArxivIsGone(work, paper) PROVE FALSE
      OBVIOUS
    <3>1. ledger[paper].closed
      BY <1>5 DEF decide_dedup
    <3>2. /\ PriorityOf[job.record] > 0
          /\ \E c \in Records : work[PaperOf[c]] = work[paper] /\ PriorityOf[c] <= 1 /\ Held(c)
      BY <1>1, <3>1 DEF Agreement, StoresAgree, GoneIsBeaten, Winning, Claimed, Closing, paper
    <3>3. PICK c \in Records :
              work[PaperOf[c]] = work[paper] /\ PriorityOf[c] <= 1 /\ Held(c)
      BY <3>2
    <3>4. existing # NoRow /\ existing.priority <= PriorityOf[c]
      BY <1>1, <3>3 DEF Agreement, WorkerReads, Steps
    <3>5. PriorityOf[job.record] < existing.priority
      BY <1>1, <3>2, <3>4 DEF RowInv, WorkerInv
    <3>6. existing.priority \in 0..2 /\ PriorityOf[c] \in 0..2
      BY <3>4, RecordParts DEF PaperInv, TypeOK, Rows
    <3> QED
      BY <1>1, <3>2, <3>3, <3>4, <3>5, <3>6
  <2>6. WorkerWins(work)'
    BY <1>1, <2>1, <2>4, <2>5 DEF WorkerWins, ArxivIsGone, Tombstoned, NoDocument
  <2> QED
    BY <2>2, <2>3, <2>6 DEF Agreement
<1> QED
  BY <1>2, <1>3, <1>4, <1>5

LEMMA ClaimAgrees ==
  ASSUME NEW work, PaperInv, Agreement(work), Claim
  PROVE  Agreement(work)'
<1>1. /\ TypeOK /\ pc = "claim" /\ pc # "idle" /\ paper \in Papers /\ UNCHANGED <<chunks, canon>>
      /\ job \in Jobs /\ job.record \in Records /\ ledger \in LedgerMaps
  BY OwnTypes, JobParts, TypesOfParts DEF Claim, PaperInv
<1>2. CASE Ack /\ UNCHANGED ledger
  BY <1>1, <1>2, NothingDone DEF Ack, Winning, Claimed, Closing
<1>3. CASE /\ ledger' = [ledger EXCEPT ![paper] =
                 [version |-> job.version, closed |-> FALSE, state |-> "INDEXED"]]
           /\ Goto("build")
  <2>1. pc' = "build" /\ job' = job /\ existing' = existing /\ paper' = paper
    BY <1>3 DEF Goto, paper
  <2>2. /\ ~ledger'[paper].closed
        /\ \A p \in Papers : p # paper => ledger'[p] = ledger[p]
    BY <1>1, <1>3 DEF LedgerMaps
  <2>3. /\ Searchable' = Searchable /\ NoDocument' = NoDocument
        /\ \A r : Held(r)' <=> Held(r)
        /\ OneName(work)' <=> OneName(work)
    BY <1>1, SameRows DEF Searchable, NoDocument
  \* The claim takes back the withdrawal of its own paper only.
  <2>4. ASSUME NEW p \in Papers, ArxivIsGone(work, p)
        PROVE  \/ ArxivIsGone(work, p)'
               \/ work[paper] = work[p] /\ PriorityOf[job.record] <= 1
    <3>1. PICK c \in Records :
              work[PaperOf[c]] = work[p] /\ PriorityOf[c] = 0 /\ Tombstoned(PaperOf[c])
      BY <2>4 DEF ArxivIsGone
    <3>2. CASE PaperOf[c] = paper
      <4>1. c = job.record
        BY <1>1, <3>1, <3>2, PaperIdentity DEF paper
      <4> QED
        BY <3>1, <3>2, <4>1
    <3>3. CASE PaperOf[c] # paper
      <4>1. ledger'[PaperOf[c]] = ledger[PaperOf[c]]
        BY <2>2, <3>3, RecordParts
      <4> QED
        BY <3>1, <4>1 DEF ArxivIsGone, Tombstoned
    <3> QED
      BY <3>2, <3>3
  <2>5. pc' \in Winning
    BY <2>1 DEF Winning, Claimed
  <2>6. SearchableIsHeld'
    BY <1>1, <2>3 DEF Agreement, StoresAgree, SearchableIsHeld, Closing
  <2>7. NamedIsHeld'
    BY <1>1, <2>3 DEF Agreement, StoresAgree, NamedIsHeld
  <2>8. NamedIsThere(work)'
    <3> SUFFICES ASSUME NEW k \in Keys, canon[k] # NoRow,
                        chunks[canon[k].paper] = NoDocument
                 PROVE  \/ ArxivIsGone(work, canon[k].paper)'
                        \/ work[canon[k].paper] = work[paper]
      BY <1>1, <2>1, <2>3, <2>5 DEF NamedIsThere, ArxivIsGone
    <3>1. ArxivIsGone(work, canon[k].paper)
      BY <1>1 DEF Agreement, StoresAgree, NamedIsThere, Winning, Claimed, Closing
    <3> QED
      BY <1>1, <2>4, <3>1, RowParts
  <2>9. GoneIsBeaten(work)'
    <3> SUFFICES ASSUME NEW p \in Papers, ledger'[p].closed, chunks[p] = NoDocument
                 PROVE  /\ \A r \in Records : PaperOf[r] = p => PriorityOf[r] > 0
                        /\ \/ ArxivIsGone(work, p)'
                           \/ \E c \in Records :
                                work[PaperOf[c]] = work[p] /\ PriorityOf[c] <= 1 /\ Held(c)
                           \/ work[paper] = work[p] /\ PriorityOf[job.record] <= 1
      BY <1>1, <2>1, <2>3, <2>5 DEF GoneIsBeaten
    <3>1. ledger[p].closed
      BY <2>2
    <3> QED
      BY <1>1, <2>4, <3>1 DEF Agreement, StoresAgree, GoneIsBeaten, Winning, Claimed, Closing
  <2>10. WorkerReads(work)' /\ WorkerWins(work)'
    BY <1>1, <2>1, ReadsStand, NothingWon DEF Agreement, Steps, Closing
  <2> QED
    BY <2>3, <2>6, <2>7, <2>8, <2>9, <2>10 DEF Agreement, StoresAgree
<1> QED
  BY <1>2, <1>3 DEF Claim

LEMMA BuildAgrees ==
  ASSUME NEW work, Agreement(work), Build
  PROVE  Agreement(work)'
<1>1. pc = "build" /\ UNCHANGED <<ledger, chunks, canon>>
  BY DEF Build, stores
<1>2. pc' \in {"index", "exclude"} /\ job' = job /\ existing' = existing
  BY DEF Build, Goto
<1>3. StoresAgree(work)'
  BY <1>1, <1>2, StoresStand DEF Agreement, Winning, Claimed, Closing
<1>4. WorkerReads(work)' /\ WorkerWins(work)'
  BY <1>1, <1>2, ReadsStand, NothingWon DEF Agreement, Steps, Closing
<1> QED
  BY <1>3, <1>4 DEF Agreement

\* Writing the document of an open claim.
LEMMA DocumentAgrees ==
  ASSUME NEW work, PaperInv, Agreement(work), faults' = 0, BulkUpsert \/ DeleteStaleChunks
  PROVE  Agreement(work)'
<1>1. /\ TypeOK /\ pc \in {"index", "stale"} /\ pc # "idle" /\ paper \in Papers
      /\ ~ledger[paper].closed
  BY OwnTypes DEF BulkUpsert, DeleteStaleChunks, PaperInv, ClaimHeld, Claimed
<1>2. pc' \in {"stale", "mark"} /\ job' = job /\ existing' = existing /\ paper' = paper
  <2>1. Goto("stale") \/ Goto("mark")
    BY <1>1, NoTrouble DEF BulkUpsert, DeleteStaleChunks, DeleteChunks
  <2> QED
    BY <2>1 DEF Goto, paper
<1>3. UNCHANGED <<ledger, canon>>
  BY DEF BulkUpsert, DeleteStaleChunks, DeleteChunks
<1>4. \A p \in Papers : p # paper => chunks'[p] = chunks[p]
  BY <1>1, UpsertEffect, WorkEffect DEF Work
<1>5. /\ NoDocument' = NoDocument
      /\ \A r : Held(r)' <=> Held(r)
      /\ OneName(work)' <=> OneName(work)
      /\ \A p : ArxivIsGone(work, p)' <=> ArxivIsGone(work, p)
  BY <1>3, SameRows DEF NoDocument, ArxivIsGone, Tombstoned
<1>6. \A s \in Searchable' : PaperOf[s] # paper => s \in Searchable
  BY <1>4, RecordParts DEF Searchable
<1>7. SearchableIsHeld'
  BY <1>2, <1>5, <1>6 DEF Agreement, StoresAgree, SearchableIsHeld
<1>8. NamedIsHeld'
  BY <1>1, <1>3, <1>5 DEF Agreement, StoresAgree, NamedIsHeld
<1>9. NamedIsThere(work)'
  <2> SUFFICES ASSUME NEW k \in Keys, canon[k] # NoRow, canon[k].paper # paper,
                      chunks'[canon[k].paper] = NoDocument, work[canon[k].paper] # work[paper]
               PROVE  ArxivIsGone(work, canon[k].paper)
    BY <1>2, <1>3, <1>5 DEF NamedIsThere, Winning, Claimed
  <2>1. chunks[canon[k].paper] = NoDocument
    BY <1>1, <1>4, RowParts
  <2> QED
    BY <1>1, <2>1 DEF Agreement, StoresAgree, NamedIsThere
<1>10. GoneIsBeaten(work)'
  <2> SUFFICES ASSUME NEW p \in Papers, ledger[p].closed, chunks'[p] = NoDocument
               PROVE  /\ \A r \in Records : PaperOf[r] = p => PriorityOf[r] > 0
                      /\ \/ ArxivIsGone(work, p)
                         \/ \E c \in Records :
                              work[PaperOf[c]] = work[p] /\ PriorityOf[c] <= 1 /\ Held(c)
                         \/ work[paper] = work[p] /\ PriorityOf[job.record] <= 1
    BY <1>2, <1>3, <1>5 DEF GoneIsBeaten, Winning, Claimed
  <2>1. chunks[p] = NoDocument
    BY <1>1, <1>4
  <2> QED
    BY <2>1 DEF Agreement, StoresAgree, GoneIsBeaten
<1>11. WorkerReads(work)' /\ WorkerWins(work)'
  BY <1>1, <1>2, <1>3, ReadsStand, NothingWon DEF Agreement, Steps, Closing
<1> QED
  BY <1>5, <1>7, <1>8, <1>9, <1>10, <1>11 DEF Agreement, StoresAgree

LEMMA MarkAgrees ==
  ASSUME NEW work, PaperInv, Agreement(work), MarkIngested
  PROVE  Agreement(work)'
<1>1. /\ job \in Jobs /\ paper \in Papers /\ chunks[paper] = document
      /\ UNCHANGED <<chunks, canon>> /\ pc = "mark"
      /\ ledger[paper].state = "INDEXED"
      /\ \A p \in Papers : ledger'[p] =
             IF p = paper THEN [version |-> job.version, closed |-> TRUE, state |-> "INDEXED"]
                          ELSE ledger[p]
  BY MarkEffect DEF MarkIngested, PaperInv, ClaimHeld, Claimed
<1>2. pc' = "canonical" /\ job' = job /\ existing' = existing /\ paper' = paper
  BY DEF MarkIngested, Goto, paper
<1>3. \A p \in Papers : ledger'[p].state = ledger[p].state
  BY <1>1
<1>4. /\ Searchable' = Searchable /\ NoDocument' = NoDocument
      /\ \A r : Held(r)' <=> Held(r)
      /\ OneName(work)' <=> OneName(work)
      /\ \A p : ArxivIsGone(work, p)' <=> ArxivIsGone(work, p)
  <2>1. \A c \in Records : Tombstoned(PaperOf[c])' <=> Tombstoned(PaperOf[c])
    BY <1>3, RecordParts DEF Tombstoned
  <2>2. \A p : ArxivIsGone(work, p)' <=> ArxivIsGone(work, p)
    BY <2>1 DEF ArxivIsGone
  <2> QED
    BY <1>1, <2>2, SameRows DEF Searchable, NoDocument
<1>5. /\ job.record \in Records /\ job.version \in Versions
      /\ chunks[paper] # NoDocument
      /\ \A n \in Ordinals : \A s \in Records : chunks[paper][n].record = s => s = job.record
  BY <1>1, JobParts, DocumentIsThere DEF document
<1>6. SearchableIsHeld'
  BY <1>1, <1>2, <1>4 DEF Agreement, StoresAgree, SearchableIsHeld, Closing
<1>7. NamedIsHeld'
  BY <1>1, <1>4 DEF Agreement, StoresAgree, NamedIsHeld
<1>8. NamedIsThere(work)'
  BY <1>1, <1>2, <1>4 DEF Agreement, StoresAgree, NamedIsThere, Winning, Closing
<1>9. GoneIsBeaten(work)'
  <2> SUFFICES ASSUME NEW p \in Papers, ledger'[p].closed, chunks[p] = NoDocument
               PROVE  /\ \A r \in Records : PaperOf[r] = p => PriorityOf[r] > 0
                      /\ \/ ArxivIsGone(work, p)
                         \/ \E c \in Records :
                              work[PaperOf[c]] = work[p] /\ PriorityOf[c] <= 1 /\ Held(c)
                         \/ work[paper] = work[p] /\ PriorityOf[job.record] <= 1
    BY <1>1, <1>2, <1>4 DEF GoneIsBeaten, Winning, Closing
  <2>1. ledger[p].closed
    BY <1>1, <1>5
  <2> QED
    BY <2>1 DEF Agreement, StoresAgree, GoneIsBeaten
<1>10. WorkerReads(work)'
  BY <1>1, <1>2, ReadsStand DEF Agreement, Steps
<1>11. WorkerWins(work)'
  <2>1. \A s \in Searchable : PaperOf[s] = paper => s = job.record
    BY <1>5 DEF Searchable
  <2> QED
    BY <1>1, <1>2, <1>4, <1>5, <2>1 DEF WorkerWins
<1> QED
  BY <1>4, <1>6, <1>7, <1>8, <1>9, <1>10, <1>11 DEF Agreement, StoresAgree

LEMMA RecordWinnerAgrees ==
  ASSUME NEW work, PaperInv, RowInv(work), Agreement(work), RecordCanonicalWinner
  PROVE  Agreement(work)'
<1>1. /\ TypeOK /\ pc = "canonical" /\ pc' \in {"loser", "winner"} /\ row' = own
      /\ UNCHANGED <<job, existing, ledger, chunks, canon>>
      /\ KeysOf[job.record] \subseteq todo'
      /\ pc' = "winner" => existing = NoRow \/ existing.paper = paper
  BY DEF RecordCanonicalWinner, stores, PaperInv
<1>2. paper' = paper /\ own' = own
  BY <1>1 DEF paper, own
<1>3. StoresAgree(work)'
  BY <1>1, StoresStand DEF Agreement, Winning, Closing
<1>4. WorkerReads(work)'
  BY <1>1, ReadsStand DEF Agreement, Steps
\* The worker's paper is the only one that the rows of its work may name.
<1>5. ASSUME pc' = "winner", NEW k \in Keys, canon[k] # NoRow,
             work[canon[k].paper] = work[paper]
      PROVE  canon[k].paper = paper
  <2>1. PICK c \in Records : PaperOf[c] = canon[k].paper /\ Held(c)
    BY <1>1, <1>5 DEF Agreement, StoresAgree, NamedIsHeld
  <2>2. existing # NoRow /\ IsNamed(existing)
    BY <1>1, <1>5, <2>1 DEF Agreement, WorkerReads, Steps
  <2>3. PICK l \in Keys : canon[l] # NoRow /\ canon[l].paper = existing.paper
    BY <2>2 DEF IsNamed
  <2>4. existing.paper = paper
    BY <1>1, <1>5, <2>2
  <2> QED
    BY <1>5, <2>3, <2>4 DEF Agreement, StoresAgree, OneName
<1>6. WorkerWins(work)'
  <2>1. /\ Searchable' = Searchable /\ NoDocument' = NoDocument
        /\ \A r : Held(r)' <=> Held(r)
        /\ \A p : ArxivIsGone(work, p)' <=> ArxivIsGone(work, p)
    BY <1>1, SameRows DEF Searchable, NoDocument, ArxivIsGone, Tombstoned
  <2>2. /\ \A s \in Searchable : PaperOf[s] = paper => s = job.record \/ Held(s)
        /\ chunks[paper] = NoDocument => ArxivIsGone(work, paper)
    BY <1>1 DEF Agreement, WorkerWins, Closing
  <2>3. KeysOf[job.record] \ todo' = {}
    BY <1>1
  <2> QED
    BY <1>1, <1>2, <1>5, <2>1, <2>2, <2>3 DEF WorkerWins
<1> QED
  BY <1>3, <1>4, <1>6 DEF Agreement

LEMMA RemoveLoserAgrees ==
  ASSUME NEW work, SeparatesWorks(work), PaperInv, RowInv(work), Agreement(work), faults' = 0,
         RemoveCanonicalLoser
  PROVE  Agreement(work)'
<1> DEFINE loser == existing.paper
<1>1. /\ TypeOK /\ pc = "loser" /\ pc # "idle" /\ paper \in Papers /\ loser \in Papers
      /\ existing # NoRow /\ loser # paper
      /\ job \in Jobs /\ job.record \in Records /\ PriorityOf[job.record] \in 0..2
      /\ existing.priority \in 0..2
  BY OwnTypes, JobParts DEF RemoveCanonicalLoser, PaperInv, LoserIsOther, TypeOK, Rows
<1>2. /\ Goto("unlink") /\ chunks'[loser] = NoDocument
      /\ \A p \in Papers : p # loser => chunks'[p] = chunks[p]
      /\ UNCHANGED <<ledger, canon>>
  BY <1>1, DeleteAll DEF RemoveCanonicalLoser
<1>3. /\ pc' = "unlink" /\ job' = job /\ existing' = existing /\ row' = row /\ todo' = todo
      /\ paper' = paper /\ own' = own
  BY <1>2 DEF Goto, paper, own
<1>4. work[loser] = work[paper] /\ PriorityOf[job.record] <= 1
  <2>1. \/ PriorityOf[job.record] = 0
        \/ PriorityOf[job.record] < existing.priority
    BY <1>1 DEF RowInv, WorkerInv
  <2>2. PriorityOf[job.record] <= 1
    BY <1>1, <2>1
  <2> QED
    BY <1>1, <2>2 DEF RowInv, WorkerInv
<1>5. \A r \in Records : PaperOf[r] = loser => PriorityOf[r] > 0
  <2> SUFFICES ASSUME NEW r \in Records, PaperOf[r] = loser PROVE PriorityOf[r] # 0
    BY RecordParts
  <2> QED
    BY <1>1, ArxivNeverLoses DEF Arxiv
<1> HIDE DEF loser
<1>6. /\ NoDocument' = NoDocument
      /\ \A r : Held(r)' <=> Held(r)
      /\ OneName(work)' <=> OneName(work)
      /\ \A p : ArxivIsGone(work, p)' <=> ArxivIsGone(work, p)
  BY <1>2, SameRows DEF NoDocument, ArxivIsGone, Tombstoned
<1>7. \A s \in Searchable' : PaperOf[s] # loser /\ s \in Searchable
  <2> TAKE s \in Searchable'
  <2>1. s \in Records /\ \E n \in Ordinals : chunks'[PaperOf[s]][n].record = s
    BY DEF Searchable
  <2>2. PaperOf[s] # loser
    BY <1>2, <2>1, PaperIdentity DEF NoDocument, NoChunk
  <2>3. s \in Searchable
    BY <1>2, <2>1, <2>2, RecordParts DEF Searchable
  <2> QED
    BY <2>2, <2>3
<1>8. SearchableIsHeld'
  BY <1>1, <1>3, <1>6, <1>7 DEF Agreement, StoresAgree, SearchableIsHeld, Closing
<1>9. NamedIsHeld'
  BY <1>1, <1>2, <1>6 DEF Agreement, StoresAgree, NamedIsHeld
<1>10. NamedIsThere(work)'
  <2> SUFFICES ASSUME NEW k \in Keys, canon[k] # NoRow, canon[k].paper # loser,
                      chunks'[canon[k].paper] = NoDocument, work[canon[k].paper] # work[paper]
               PROVE  ArxivIsGone(work, canon[k].paper)
    BY <1>2, <1>3, <1>4, <1>6 DEF NamedIsThere, Winning, Closing
  <2>1. chunks[canon[k].paper] = NoDocument
    BY <1>1, <1>2, RowParts
  <2> QED
    BY <1>1, <2>1 DEF Agreement, StoresAgree, NamedIsThere
<1>11. GoneIsBeaten(work)'
  <2> SUFFICES ASSUME NEW p \in Papers, ledger[p].closed, chunks'[p] = NoDocument
               PROVE  /\ \A r \in Records : PaperOf[r] = p => PriorityOf[r] > 0
                      /\ \/ ArxivIsGone(work, p)
                         \/ \E c \in Records :
                              work[PaperOf[c]] = work[p] /\ PriorityOf[c] <= 1 /\ Held(c)
                         \/ work[paper] = work[p] /\ PriorityOf[job.record] <= 1
    BY <1>2, <1>3, <1>6 DEF GoneIsBeaten, Winning, Closing
  <2>1. CASE p = loser
    BY <1>4, <1>5, <2>1
  <2>2. CASE p # loser
    BY <1>2, <2>2 DEF Agreement, StoresAgree, GoneIsBeaten
  <2> QED
    BY <2>1, <2>2
<1>12. WorkerReads(work)'
  BY <1>1, <1>2, <1>3, ReadsStand DEF Agreement, Steps
<1>13. WorkerWins(work)'
  <2>1. KeysOf[job.record] \subseteq todo /\ row = own
    BY <1>1 DEF Agreement, WorkerWins
  <2>2. /\ \A s \in Searchable : PaperOf[s] = paper => s = job.record \/ Held(s)
        /\ chunks[paper] = NoDocument => ArxivIsGone(work, paper)
    BY <1>1 DEF Agreement, WorkerWins, Closing
  <2>3. chunks'[paper] = chunks[paper] /\ chunks'[existing'.paper] = NoDocument
    BY <1>1, <1>2, <1>3 DEF loser
  <2> QED
    BY <1>3, <1>6, <1>7, <2>1, <2>2, <2>3 DEF WorkerWins
<1> QED
  BY <1>6, <1>8, <1>9, <1>10, <1>11, <1>12, <1>13 DEF Agreement, StoresAgree

\* Deleting the rows that name a paper leaves the records of other papers held.
LEMMA DeletedRows ==
  ASSUME NEW p, canon' = [k \in Keys |-> IF canon[k].paper = p THEN NoRow ELSE canon[k]]
  PROVE  /\ \A k \in Keys : canon'[k] # NoRow =>
                canon'[k] = canon[k] /\ canon[k] # NoRow /\ canon[k].paper # p
         /\ \A c \in Records : Held(c) /\ PaperOf[c] # p => Held(c)'
         /\ \A work : OneName(work) => OneName(work)'
<1>1. \A k \in Keys : canon'[k] # NoRow =>
          canon'[k] = canon[k] /\ canon[k] # NoRow /\ canon[k].paper # p
  OBVIOUS
<1>2. \A k \in Keys : canon[k].paper # p => canon'[k] = canon[k]
  OBVIOUS
<1>3. ASSUME NEW c \in Records, Held(c), PaperOf[c] # p PROVE Held(c)'
  BY <1>2, <1>3, RecordParts DEF Held, HeldAt
<1>4. ASSUME NEW work, OneName(work) PROVE OneName(work)'
  BY <1>1, <1>4 DEF OneName
<1> QED
  BY <1>1, <1>3, <1>4

LEMMA DeleteLoserRowsAgrees ==
  ASSUME NEW work, PaperInv, RowInv(work), Agreement(work), DeleteLoserRows
  PROVE  Agreement(work)'
<1> DEFINE loser == existing.paper
<1>1. /\ TypeOK /\ pc = "unlink" /\ pc # "idle" /\ paper \in Papers
      /\ existing # NoRow /\ loser # paper /\ work[loser] = work[paper]
      /\ job \in Jobs /\ job.record \in Records /\ PriorityOf[job.record] \in 0..2
      /\ existing.priority \in 0..2
      /\ PriorityOf[job.record] = 0 \/ PriorityOf[job.record] < existing.priority
  BY OwnTypes, JobParts
  DEF DeleteLoserRows, PaperInv, LoserIsOther, TypeOK, Rows, RowInv, WorkerInv
<1>2. /\ canon' = [k \in Keys |-> IF canon[k].paper = loser THEN NoRow ELSE canon[k]]
      /\ Goto("winner") /\ UNCHANGED <<ledger, chunks>>
  BY DEF DeleteLoserRows
<1>3. /\ pc' = "winner" /\ job' = job /\ row' = row /\ todo' = todo
      /\ paper' = paper /\ own' = own
  BY <1>2 DEF Goto, paper, own
<1>4. chunks[loser] = NoDocument /\ KeysOf[job.record] \subseteq todo /\ row = own
  BY <1>1 DEF Agreement, WorkerWins
<1>5. /\ IsNamed(existing)
      /\ \A c \in Records : Held(c) /\ work[PaperOf[c]] = work[paper] =>
             existing.priority <= PriorityOf[c]
  BY <1>1 DEF Agreement, WorkerReads, Steps
<1> HIDE DEF loser
<1>6. /\ \A k \in Keys : canon'[k] # NoRow =>
             canon'[k] = canon[k] /\ canon[k] # NoRow /\ canon[k].paper # loser
      /\ \A c \in Records : Held(c) /\ PaperOf[c] # loser => Held(c)'
      /\ OneName(work) => OneName(work)'
  BY <1>2, DeletedRows
<1>7. /\ NoDocument' = NoDocument /\ Searchable' = Searchable
      /\ \A p : ArxivIsGone(work, p)' <=> ArxivIsGone(work, p)
  BY <1>2 DEF NoDocument, Searchable, ArxivIsGone, Tombstoned
<1>8. \A s \in Searchable : PaperOf[s] # loser
  BY <1>4, GoneIsNotSearchable
<1>9. OneName(work)'
  BY <1>6 DEF Agreement, StoresAgree
<1>10. SearchableIsHeld'
  <2> SUFFICES ASSUME NEW s \in Searchable PROVE Held(s)' \/ PaperOf[s] = paper
    BY <1>3, <1>7 DEF SearchableIsHeld, Closing
  <2>1. Held(s) \/ PaperOf[s] = paper
    BY DEF Agreement, StoresAgree, SearchableIsHeld
  <2> QED
    BY <1>6, <1>8, <2>1 DEF Searchable
<1>11. NamedIsHeld'
  <2> SUFFICES ASSUME NEW k \in Keys, canon'[k] # NoRow
               PROVE  \E c \in Records : PaperOf[c] = canon'[k].paper /\ Held(c)'
    BY DEF NamedIsHeld
  <2>1. PICK c \in Records : PaperOf[c] = canon[k].paper /\ Held(c)
    BY <1>1, <1>6 DEF Agreement, StoresAgree, NamedIsHeld
  <2> QED
    BY <1>6, <2>1
<1>12. NamedIsThere(work)'
  <2> SUFFICES ASSUME NEW k \in Keys, canon'[k] # NoRow
               PROVE  \/ chunks[canon'[k].paper] # NoDocument
                      \/ ArxivIsGone(work, canon'[k].paper)
                      \/ work[canon'[k].paper] = work[paper]
    BY <1>2, <1>3, <1>7 DEF NamedIsThere, Winning, Closing
  <2> QED
    BY <1>1, <1>6 DEF Agreement, StoresAgree, NamedIsThere
<1>13. GoneIsBeaten(work)'
  <2> SUFFICES ASSUME NEW p \in Papers, ledger[p].closed, chunks[p] = NoDocument
               PROVE  /\ \A r \in Records : PaperOf[r] = p => PriorityOf[r] > 0
                      /\ \/ ArxivIsGone(work, p)
                         \/ \E c \in Records :
                              work[PaperOf[c]] = work[p] /\ PriorityOf[c] <= 1 /\ Held(c)'
                         \/ work[paper] = work[p] /\ PriorityOf[job.record] <= 1
    BY <1>2, <1>3, <1>7 DEF GoneIsBeaten, Winning, Closing
  <2>1. /\ \A r \in Records : PaperOf[r] = p => PriorityOf[r] > 0
        /\ \/ ArxivIsGone(work, p)
           \/ \E c \in Records :
                  work[PaperOf[c]] = work[p] /\ PriorityOf[c] <= 1 /\ Held(c)
           \/ work[paper] = work[p] /\ PriorityOf[job.record] <= 1
    BY DEF Agreement, StoresAgree, GoneIsBeaten
  <2>2. ASSUME NEW c \in Records, work[PaperOf[c]] = work[p], PriorityOf[c] <= 1, Held(c),
               PaperOf[c] = loser
        PROVE  work[paper] = work[p] /\ PriorityOf[job.record] <= 1
    <3>1. existing.priority <= PriorityOf[c] /\ PriorityOf[c] \in 0..2
      BY <1>1, <1>5, <2>2, RecordParts
    <3> QED
      BY <1>1, <2>2, <3>1
  <2> QED
    BY <1>6, <2>1, <2>2
<1>14. WorkerReads(work)'
  BY <1>3 DEF WorkerReads
<1>15. WorkerWins(work)'
  <2>1. ASSUME NEW k \in Keys, canon'[k] # NoRow, work[canon'[k].paper] = work[paper]
        PROVE  FALSE
    <3>1. PICK l \in Keys : canon[l] # NoRow /\ canon[l].paper = loser
      BY <1>5 DEF IsNamed, loser
    <3> QED
      BY <1>1, <1>6, <2>1, <3>1 DEF Agreement, StoresAgree, OneName
  <2>2. \A s \in Searchable : PaperOf[s] = paper => s = job.record \/ Held(s)'
    BY <1>1, <1>6, <1>8 DEF Agreement, WorkerWins, Closing, Searchable
  <2>3. chunks[paper] = NoDocument => ArxivIsGone(work, paper)
    BY <1>1 DEF Agreement, WorkerWins, Closing
  <2>4. KeysOf[job.record] \ todo = {}
    BY <1>4
  <2> QED
    BY <1>2, <1>3, <1>4, <1>7, <2>1, <2>2, <2>3, <2>4 DEF WorkerWins
<1> QED
  BY <1>9, <1>10, <1>11, <1>12, <1>13, <1>14, <1>15 DEF Agreement, StoresAgree

\* Writing a row of the paper that the rows of the work name.
LEMMA WriteRowEffect ==
  ASSUME NEW work, PaperInv, RowInv(work), OneName(work), NEW k \in Keys, WriteRow(k),
         row # NoRow,
         \A l \in Keys : canon[l] # NoRow /\ work[canon[l].paper] = work[row.paper]
             => canon[l].paper = row.paper
  PROVE  /\ \A l \in Keys : canon'[l] = canon[l] \/ (l = k /\ canon'[l] = row)
         /\ canon'[k] = row \/ (canon[k] # NoRow /\ canon[k].priority <= row.priority)
         /\ \A c \in Records : Held(c) => Held(c)'
         /\ OneName(work)'
<1>1. /\ TypeOK /\ pc \in {"alias", "winner"} /\ pc # "idle" /\ k \in todo /\ row \in Rows
      /\ canon' = [canon EXCEPT ![k] = IF @ = NoRow \/ Supersedes(row, @) THEN row ELSE @]
  BY DEF WriteRow, PaperInv, TypeOK
<1>2. /\ \A l \in Keys : l # k => canon'[l] = canon[l]
      /\ canon'[k] = IF canon[k] = NoRow \/ Supersedes(row, canon[k]) THEN row ELSE canon[k]
  BY <1>1 DEF TypeOK
<1>3. OfWork(work, k, row.paper)
  BY <1>1 DEF RowInv, WorkerInv, OfWork
<1>4. canon'[k] = row \/ (canon[k] # NoRow /\ canon[k].priority <= row.priority)
  BY <1>1, <1>2, RowParts DEF Supersedes, Rows
<1>5. ASSUME NEW c \in Records, Held(c) PROVE Held(c)'
  <2> SUFFICES ASSUME NEW l \in KeysOf[c] PROVE HeldAt(c, l)'
    BY DEF Held
  <2>1. l \in Keys /\ HeldAt(c, l) /\ PriorityOf[c] \in 0..2
    BY <1>5, RecordParts DEF Held
  <2>2. CASE canon'[l] = canon[l]
    BY <2>1, <2>2 DEF HeldAt
  <2>3. CASE l = k /\ Supersedes(row, canon[k]) /\ canon'[k] = row
    <3>1. canon[k] # NoRow /\ canon[k].paper = PaperOf[c] /\ canon[k].priority <= PriorityOf[c]
      BY <2>1, <2>3 DEF HeldAt
    <3>2. PaperOf[c] = row.paper
      BY <1>3, <2>3, <3>1 DEF OfWork
    <3>3. row.priority <= canon[k].priority /\ row.priority \in 0..2 /\ canon[k].priority \in 0..2
      BY <1>1, <2>3, <3>1, RowParts DEF Supersedes, Rows
    <3>4. row.priority <= PriorityOf[c]
      BY <2>1, <3>1, <3>3
    <3> QED
      BY <2>3, <3>2, <3>4 DEF HeldAt
  <2> QED
    BY <1>2, <2>1, <2>2, <2>3 DEF HeldAt
<1>6. OneName(work)'
  BY <1>2 DEF OneName
<1> QED
  BY <1>2, <1>4, <1>5, <1>6

\* What a written row does to the stores, except for its own paper.
LEMMA WriteRowAgrees ==
  ASSUME NEW work, JoinsWorks(work), PaperInv, RowInv(work), Agreement(work), NEW k \in Keys,
         WriteRow(k)
  PROVE  Agreement(work)'
<1>1. /\ TypeOK /\ pc \in {"alias", "winner"} /\ pc # "idle" /\ k \in todo
      /\ job \in Jobs /\ job.record \in Records /\ paper \in Papers
      /\ UNCHANGED <<ledger, chunks>>
      /\ \/ Idle /\ todo = {k}
         \/ todo' = todo \ {k} /\ UNCHANGED <<pc, job, existing, row>>
  BY OwnTypes, JobParts DEF WriteRow, PaperInv, Ack
<1>2. pc = "winner" => row = own /\ row.paper = paper /\ row.priority = PriorityOf[job.record]
  BY DEF Agreement, WorkerWins, own
<1>3. row # NoRow /\ work[row.paper] = work[paper]
  <2>1. row # NoRow
    <3>1. CASE pc = "alias"
      BY <3>1 DEF Agreement, WorkerReads
    <3>2. CASE pc = "winner"
      BY <1>1, <1>2, <3>2, PaperIdentity DEF NoRow
    <3> QED
      BY <1>1, <3>1, <3>2
  <2> QED
    BY <1>1, <2>1 DEF RowInv, WorkerInv
<1>4. \A l \in Keys : canon[l] # NoRow /\ work[canon[l].paper] = work[row.paper]
          => canon[l].paper = row.paper
  <2>1. CASE pc = "alias"
    <3>1. PICK m \in Keys : canon[m] # NoRow /\ canon[m].paper = row.paper
      BY <2>1 DEF Agreement, WorkerReads, IsNamed
    <3> QED
      BY <3>1 DEF Agreement, StoresAgree, OneName
  <2>2. CASE pc = "winner"
    BY <1>2, <1>3, <2>2 DEF Agreement, WorkerWins
  <2> QED
    BY <1>1, <2>1, <2>2
<1>5. /\ \A l \in Keys : canon'[l] = canon[l] \/ (l = k /\ canon'[l] = row)
      /\ canon'[k] = row \/ (canon[k] # NoRow /\ canon[k].priority <= row.priority)
      /\ \A c \in Records : Held(c) => Held(c)'
      /\ OneName(work)'
  BY <1>3, <1>4, WriteRowEffect DEF Agreement, StoresAgree
<1>6. /\ NoDocument' = NoDocument /\ Searchable' = Searchable
      /\ \A p : ArxivIsGone(work, p)' <=> ArxivIsGone(work, p)
  BY <1>1 DEF NoDocument, Searchable, ArxivIsGone, Tombstoned
\* The record of the job, which may be over after the step.
<1> PICK won \in Records : won = job.record
  BY <1>1
<1>7. CASE pc = "alias"
  <2>1. PICK m \in Keys : canon[m] # NoRow /\ canon[m].paper = row.paper
    BY <1>7 DEF Agreement, WorkerReads, IsNamed
  <2>2. \A s \in Searchable : Held(s)
    BY <1>7 DEF Agreement, StoresAgree, SearchableIsHeld, Closing
  <2>3. SearchableIsHeld'
    BY <1>5, <1>6, <2>2 DEF SearchableIsHeld, Searchable
  <2>4. \A l \in Keys : canon'[l] # NoRow =>
            \E n \in Keys : canon[n] # NoRow /\ canon'[l].paper = canon[n].paper
    BY <1>5, <2>1
  <2>5. NamedIsHeld'
    <3> SUFFICES ASSUME NEW l \in Keys, canon'[l] # NoRow
                 PROVE  \E c \in Records : PaperOf[c] = canon'[l].paper /\ Held(c)'
      BY DEF NamedIsHeld
    <3>1. PICK n \in Keys : canon[n] # NoRow /\ canon'[l].paper = canon[n].paper
      BY <2>4
    <3>2. PICK c \in Records : PaperOf[c] = canon[n].paper /\ Held(c)
      BY <1>7, <3>1 DEF Agreement, StoresAgree, NamedIsHeld
    <3> QED
      BY <1>5, <3>1, <3>2
  <2>6. NamedIsThere(work)'
    <3> SUFFICES ASSUME NEW l \in Keys, canon'[l] # NoRow
                 PROVE  \/ chunks[canon'[l].paper] # NoDocument
                        \/ ArxivIsGone(work, canon'[l].paper)
      BY <1>1, <1>6 DEF NamedIsThere
    <3>1. PICK n \in Keys : canon[n] # NoRow /\ canon'[l].paper = canon[n].paper
      BY <2>4
    <3>2. \/ chunks[canon[n].paper] # NoDocument
          \/ ArxivIsGone(work, canon[n].paper)
      BY <1>7, <3>1 DEF Agreement, StoresAgree, NamedIsThere, Winning, Claimed, Closing
    <3> QED
      BY <3>1, <3>2
  <2>7. GoneIsBeaten(work)'
    <3> SUFFICES ASSUME NEW p \in Papers, ledger[p].closed, chunks[p] = NoDocument
                 PROVE  /\ \A r \in Records : PaperOf[r] = p => PriorityOf[r] > 0
                        /\ \/ ArxivIsGone(work, p)
                           \/ \E c \in Records :
                                work[PaperOf[c]] = work[p] /\ PriorityOf[c] <= 1 /\ Held(c)'
      BY <1>1, <1>6 DEF GoneIsBeaten
    <3> QED
      BY <1>5, <1>7 DEF Agreement, StoresAgree, GoneIsBeaten, Winning, Claimed, Closing
  <2>8. WorkerReads(work)' /\ WorkerWins(work)'
    <3>1. CASE Idle
      BY <3>1, IdleAgrees
    <3>2. CASE UNCHANGED <<pc, job, existing, row>>
      <4>1. canon'[m] # NoRow /\ canon'[m].paper = row.paper
        BY <1>3, <1>5, <2>1
      <4>2. IsNamed(row)'
        BY <3>2, <4>1 DEF IsNamed
      <4> QED
        BY <1>3, <1>7, <3>2, <4>2 DEF WorkerReads, WorkerWins, Closing
    <3> QED
      BY <1>1, <3>1, <3>2
  <2> QED
    BY <1>5, <2>3, <2>5, <2>6, <2>7, <2>8 DEF Agreement, StoresAgree
<1>8. CASE pc = "winner"
  <2>1. /\ \A s \in Searchable : PaperOf[s] = paper => s = won \/ Held(s)
        /\ chunks[paper] = NoDocument => ArxivIsGone(work, paper)
        /\ \A l \in KeysOf[won] \ todo : HeldAt(won, l)
    BY <1>8 DEF Agreement, WorkerWins, Closing
  \* In the rows of the work there is only the worker's paper.
  <2>2. \A l \in Keys : canon'[l] # NoRow /\ work[canon'[l].paper] = work[paper] =>
            canon'[l].paper = paper
    BY <1>2, <1>3, <1>4, <1>5, <1>8
  <2>3. \A l \in Keys : canon'[l] # NoRow /\ canon'[l].paper # paper =>
            canon'[l] = canon[l]
    BY <1>2, <1>5, <1>8
  <2>4. \A l \in (KeysOf[won] \ todo) \union {k} :
            l \in KeysOf[won] => HeldAt(won, l)'
    <3> SUFFICES ASSUME NEW l \in KeysOf[won], l \notin todo \/ l = k
                 PROVE  /\ canon'[l] # NoRow /\ canon'[l].paper = paper
                        /\ canon'[l].priority <= PriorityOf[won]
      BY DEF HeldAt, paper
    <3>1. PriorityOf[won] \in 0..2 /\ l \in Keys
      BY <1>1, RecordParts
    <3>2. CASE canon'[l] = row
      BY <1>2, <1>3, <1>8, <3>1, <3>2
    <3>3. CASE l = k /\ canon'[k] = canon[k] /\ canon[k] # NoRow
               /\ canon[k].priority <= row.priority
      <4>1. OfWork(work, k, canon[k].paper)
        BY <3>3 DEF RowInv, CanonInv
      <4>2. work[canon[k].paper] = work[paper]
        BY <1>1, <3>3, <4>1 DEF OfWork, paper
      <4> QED
        BY <1>2, <1>3, <1>4, <1>8, <3>3, <4>2
    <3>4. CASE l \notin todo /\ canon'[l] = canon[l]
      BY <2>1, <3>4 DEF HeldAt, paper
    <3> QED
      BY <1>1, <1>5, <3>1, <3>2, <3>3, <3>4
  <2>5. CASE todo' = todo \ {k} /\ UNCHANGED <<pc, job, existing, row>>
    <3>1. paper' = paper /\ own' = own
      BY <2>5 DEF paper, own
    <3>2. SearchableIsHeld'
      BY <1>5, <1>6, <1>8, <2>5, <3>1
      DEF Agreement, StoresAgree, SearchableIsHeld, Searchable, Closing
    <3>3. NamedIsHeld'
      BY <1>5, <1>8, <2>3, <2>5, <3>1 DEF Agreement, StoresAgree, NamedIsHeld
    <3>4. NamedIsThere(work)'
      <4> SUFFICES ASSUME NEW l \in Keys, canon'[l] # NoRow,
                          work[canon'[l].paper] # work[paper]
                   PROVE  \/ chunks[canon'[l].paper] # NoDocument
                          \/ ArxivIsGone(work, canon'[l].paper)
        BY <1>1, <1>6, <1>8, <2>5, <3>1 DEF NamedIsThere, Winning, Closing
      <4>1. canon'[l] = canon[l]
        BY <2>3
      <4> QED
        BY <1>8, <4>1 DEF Agreement, StoresAgree, NamedIsThere
    <3>5. GoneIsBeaten(work)'
      <4> SUFFICES ASSUME NEW p \in Papers, ledger[p].closed, chunks[p] = NoDocument
                   PROVE  /\ \A r \in Records : PaperOf[r] = p => PriorityOf[r] > 0
                          /\ \/ ArxivIsGone(work, p)
                             \/ \E c \in Records :
                                  work[PaperOf[c]] = work[p] /\ PriorityOf[c] <= 1 /\ Held(c)'
                             \/ work[paper] = work[p] /\ PriorityOf[won] <= 1
        BY <1>1, <1>6, <1>8, <2>5, <3>1 DEF GoneIsBeaten, Winning, Closing
      <4> QED
        BY <1>5 DEF Agreement, StoresAgree, GoneIsBeaten
    <3>6. WorkerReads(work)'
      BY <1>8, <2>5 DEF WorkerReads
    <3>7. WorkerWins(work)'
      <4>1. \A l \in KeysOf[won] \ todo' : HeldAt(won, l)'
        BY <2>4, <2>5
      <4>2. \A s \in Searchable : PaperOf[s] = paper => s = won \/ Held(s)'
        BY <1>5, <2>1 DEF Searchable
      <4> QED
        BY <1>1, <1>2, <1>6, <1>8, <2>1, <2>2, <2>5, <3>1, <4>1, <4>2 DEF WorkerWins
    <3> QED
      BY <1>5, <3>2, <3>3, <3>4, <3>5, <3>6, <3>7 DEF Agreement, StoresAgree
  <2>6. CASE Idle /\ todo = {k}
    <3>1. Held(won)'
      BY <2>4, <2>6 DEF Held
    <3>2. SearchableIsHeld'
      <4> SUFFICES ASSUME NEW s \in Searchable PROVE Held(s)'
        BY <1>6 DEF SearchableIsHeld
      <4>1. Held(s) \/ s = won
        BY <2>1 DEF Agreement, StoresAgree, SearchableIsHeld
      <4> QED
        BY <1>5, <3>1, <4>1 DEF Searchable
    <3>3. NamedIsHeld'
      <4> SUFFICES ASSUME NEW l \in Keys, canon'[l] # NoRow
                   PROVE  \E c \in Records : PaperOf[c] = canon'[l].paper /\ Held(c)'
        BY DEF NamedIsHeld
      <4>1. CASE canon'[l].paper = paper
        BY <1>1, <3>1, <4>1 DEF paper
      <4>2. CASE canon'[l].paper # paper
        <5>1. canon'[l] = canon[l]
          BY <2>3, <4>2
        <5> QED
          BY <1>5, <4>2, <5>1 DEF Agreement, StoresAgree, NamedIsHeld
      <4> QED
        BY <4>1, <4>2
    <3>4. NamedIsThere(work)'
      <4> SUFFICES ASSUME NEW l \in Keys, canon'[l] # NoRow
                   PROVE  \/ chunks[canon'[l].paper] # NoDocument
                          \/ ArxivIsGone(work, canon'[l].paper)
        BY <1>1, <1>6 DEF NamedIsThere
      <4>1. CASE canon'[l].paper = paper
        BY <2>1, <4>1
      <4>2. CASE canon'[l].paper # paper
        <5>1. canon'[l] = canon[l] /\ work[canon'[l].paper] # work[paper]
          BY <2>2, <2>3, <4>2
        <5> QED
          BY <1>8, <5>1 DEF Agreement, StoresAgree, NamedIsThere
      <4> QED
        BY <4>1, <4>2
    <3>5. GoneIsBeaten(work)'
      <4> SUFFICES ASSUME NEW p \in Papers, ledger[p].closed, chunks[p] = NoDocument
                   PROVE  /\ \A r \in Records : PaperOf[r] = p => PriorityOf[r] > 0
                          /\ \/ ArxivIsGone(work, p)
                             \/ \E c \in Records :
                                  work[PaperOf[c]] = work[p] /\ PriorityOf[c] <= 1 /\ Held(c)'
        BY <1>1, <1>6 DEF GoneIsBeaten
      <4>1. /\ \A r \in Records : PaperOf[r] = p => PriorityOf[r] > 0
            /\ \/ ArxivIsGone(work, p)
               \/ \E c \in Records :
                      work[PaperOf[c]] = work[p] /\ PriorityOf[c] <= 1 /\ Held(c)
               \/ work[paper] = work[p] /\ PriorityOf[won] <= 1
        BY DEF Agreement, StoresAgree, GoneIsBeaten
      <4> QED
        BY <1>1, <1>5, <3>1, <4>1 DEF paper
    <3>6. WorkerReads(work)' /\ WorkerWins(work)'
      BY <2>6, IdleAgrees
    <3> QED
      BY <1>5, <3>2, <3>3, <3>4, <3>5, <3>6 DEF Agreement, StoresAgree
  <2> QED
    BY <1>1, <2>5, <2>6
<1> QED
  BY <1>1, <1>7, <1>8

LEMMA ClaimTombstoneAgrees ==
  ASSUME NEW work, PaperInv, Agreement(work), ClaimTombstone
  PROVE  Agreement(work)'
<1>1. /\ TypeOK /\ pc = "withdraw" /\ pc # "idle" /\ paper \in Papers
      /\ UNCHANGED <<chunks, canon>> /\ ledger \in LedgerMaps
  BY OwnTypes, TypesOfParts DEF ClaimTombstone, PaperInv
<1>2. CASE Ack /\ UNCHANGED ledger
  BY <1>1, <1>2, NothingDone DEF Ack, Winning, Claimed, Closing
<1>3. CASE /\ ledger' = [ledger EXCEPT ![paper] =
                 [version |-> job.version, closed |-> FALSE, state |-> "TOMBSTONED"]]
           /\ Goto("tombstone")
  <2>1. pc' = "tombstone" /\ job' = job /\ existing' = existing
    BY <1>3 DEF Goto
  <2>2. /\ ~ledger'[paper].closed /\ ledger'[paper].state = "TOMBSTONED"
        /\ \A p \in Papers : p # paper => ledger'[p] = ledger[p]
    BY <1>1, <1>3 DEF LedgerMaps
  <2>3. /\ Searchable' = Searchable /\ NoDocument' = NoDocument
        /\ \A r : Held(r)' <=> Held(r)
        /\ OneName(work)' <=> OneName(work)
    BY <1>1, SameRows DEF Searchable, NoDocument
  <2>4. \A p : ArxivIsGone(work, p) => ArxivIsGone(work, p)'
    <3>1. \A c \in Records : Tombstoned(PaperOf[c]) => Tombstoned(PaperOf[c])'
      BY <2>2, RecordParts DEF Tombstoned
    <3> QED
      BY <3>1 DEF ArxivIsGone
  <2>5. SearchableIsHeld'
    BY <1>1, <2>3 DEF Agreement, StoresAgree, SearchableIsHeld, Closing
  <2>6. NamedIsHeld'
    BY <1>1, <2>3 DEF Agreement, StoresAgree, NamedIsHeld
  <2>7. NamedIsThere(work)'
    BY <1>1, <2>3, <2>4
    DEF Agreement, StoresAgree, NamedIsThere, Winning, Claimed, Closing
  <2>8. GoneIsBeaten(work)'
    <3> SUFFICES ASSUME NEW p \in Papers, ledger'[p].closed, chunks[p] = NoDocument
                 PROVE  /\ \A r \in Records : PaperOf[r] = p => PriorityOf[r] > 0
                        /\ \/ ArxivIsGone(work, p)'
                           \/ \E c \in Records :
                                work[PaperOf[c]] = work[p] /\ PriorityOf[c] <= 1 /\ Held(c)
      BY <1>1, <2>3 DEF GoneIsBeaten
    <3>1. ledger[p].closed
      BY <2>2
    <3> QED
      BY <1>1, <2>4, <3>1 DEF Agreement, StoresAgree, GoneIsBeaten, Winning, Claimed, Closing
  <2>9. WorkerReads(work)' /\ WorkerWins(work)'
    BY <1>1, <2>1, ReadsStand, NothingWon DEF Agreement, Steps, Closing
  <2> QED
    BY <2>3, <2>5, <2>6, <2>7, <2>8, <2>9 DEF Agreement, StoresAgree
<1> QED
  BY <1>2, <1>3 DEF ClaimTombstone

LEMMA TombstoneAgrees ==
  ASSUME NEW work, PaperInv, Agreement(work), faults' = 0, TombstonePaper
  PROVE  Agreement(work)'
<1>1. /\ TypeOK /\ pc = "tombstone" /\ pc # "idle" /\ paper \in Papers
      /\ ~ledger[paper].closed
  BY OwnTypes DEF TombstonePaper, PaperInv, ClaimHeld, Removing
<1>2. /\ Goto("forget") /\ chunks'[paper] = NoDocument
      /\ \A p \in Papers : p # paper => chunks'[p] = chunks[p]
      /\ UNCHANGED <<ledger, canon>>
  BY <1>1, DeleteAll DEF TombstonePaper
<1>3. pc' = "forget" /\ job' = job /\ existing' = existing /\ paper' = paper
  BY <1>2 DEF Goto, paper
<1>4. /\ NoDocument' = NoDocument
      /\ \A r : Held(r)' <=> Held(r)
      /\ OneName(work)' <=> OneName(work)
      /\ \A p : ArxivIsGone(work, p)' <=> ArxivIsGone(work, p)
  BY <1>2, SameRows DEF NoDocument, ArxivIsGone, Tombstoned
<1>5. \A s \in Searchable' : s \in Searchable
  <2> TAKE s \in Searchable'
  <2>1. s \in Records /\ \E n \in Ordinals : chunks'[PaperOf[s]][n].record = s
    BY DEF Searchable
  <2>2. PaperOf[s] # paper
    BY <1>2, <2>1, PaperIdentity DEF NoDocument, NoChunk
  <2> QED
    BY <1>2, <2>1, <2>2, RecordParts DEF Searchable
<1>6. SearchableIsHeld'
  BY <1>1, <1>4, <1>5 DEF Agreement, StoresAgree, SearchableIsHeld, Closing
<1>7. NamedIsHeld'
  BY <1>1, <1>2, <1>4 DEF Agreement, StoresAgree, NamedIsHeld
<1>8. NamedIsThere(work)'
  <2> SUFFICES ASSUME NEW k \in Keys, canon[k] # NoRow, canon[k].paper # paper,
                      chunks'[canon[k].paper] = NoDocument
               PROVE  ArxivIsGone(work, canon[k].paper)
    BY <1>2, <1>3, <1>4 DEF NamedIsThere
  <2>1. chunks[canon[k].paper] = NoDocument
    BY <1>1, <1>2, RowParts
  <2> QED
    BY <1>1, <2>1 DEF Agreement, StoresAgree, NamedIsThere, Winning, Claimed, Closing
<1>9. GoneIsBeaten(work)'
  <2> SUFFICES ASSUME NEW p \in Papers, ledger[p].closed, chunks'[p] = NoDocument
               PROVE  /\ \A r \in Records : PaperOf[r] = p => PriorityOf[r] > 0
                      /\ \/ ArxivIsGone(work, p)
                         \/ \E c \in Records :
                              work[PaperOf[c]] = work[p] /\ PriorityOf[c] <= 1 /\ Held(c)
    BY <1>2, <1>4 DEF GoneIsBeaten
  <2>1. chunks[p] = NoDocument
    BY <1>1, <1>2
  <2> QED
    BY <1>1, <2>1 DEF Agreement, StoresAgree, GoneIsBeaten, Winning, Claimed, Closing
<1>10. WorkerReads(work)' /\ WorkerWins(work)'
  BY <1>1, <1>2, <1>3, ReadsStand, NothingWon DEF Agreement, Steps, Closing
<1> QED
  BY <1>4, <1>6, <1>7, <1>8, <1>9, <1>10 DEF Agreement, StoresAgree

LEMMA DeleteOwnRowsAgrees ==
  ASSUME NEW work, PaperInv, RowInv(work), Agreement(work), DeleteOwnRows
  PROVE  Agreement(work)'
<1>1. /\ TypeOK /\ pc = "forget" /\ pc # "idle" /\ paper \in Papers
      /\ job \in Jobs /\ job.record \in Records /\ PriorityOf[job.record] \in 0..2
      /\ chunks[paper] = NoDocument /\ ledger[paper].state = "TOMBSTONED"
  BY OwnTypes, JobParts DEF DeleteOwnRows, PaperInv, ClaimHeld, Removing, Written
<1>2. /\ canon' = [k \in Keys |-> IF canon[k].paper = paper THEN NoRow ELSE canon[k]]
      /\ Idle /\ UNCHANGED <<ledger, chunks>>
  BY DEF DeleteOwnRows, Ack
<1>3. /\ \A k \in Keys : canon'[k] # NoRow =>
             canon'[k] = canon[k] /\ canon[k] # NoRow /\ canon[k].paper # paper
      /\ \A c \in Records : Held(c) /\ PaperOf[c] # paper => Held(c)'
      /\ OneName(work) => OneName(work)'
  BY <1>2, DeletedRows
<1>4. /\ NoDocument' = NoDocument /\ Searchable' = Searchable
      /\ \A p : ArxivIsGone(work, p)' <=> ArxivIsGone(work, p)
  BY <1>2 DEF NoDocument, Searchable, ArxivIsGone, Tombstoned
<1>5. SearchableIsHeld'
  <2> SUFFICES ASSUME NEW s \in Searchable PROVE Held(s)'
    BY <1>4 DEF SearchableIsHeld
  <2>1. Held(s)
    BY <1>1 DEF Agreement, StoresAgree, SearchableIsHeld, Closing
  <2>2. PaperOf[s] # paper
    BY <1>1, GoneIsNotSearchable
  <2> QED
    BY <1>3, <2>1, <2>2 DEF Searchable
<1>6. NamedIsHeld'
  <2> SUFFICES ASSUME NEW k \in Keys, canon'[k] # NoRow
               PROVE  \E c \in Records : PaperOf[c] = canon'[k].paper /\ Held(c)'
    BY DEF NamedIsHeld
  <2>1. PICK c \in Records : PaperOf[c] = canon[k].paper /\ Held(c)
    BY <1>1, <1>3 DEF Agreement, StoresAgree, NamedIsHeld
  <2> QED
    BY <1>3, <2>1
<1>7. NamedIsThere(work)'
  <2> SUFFICES ASSUME NEW k \in Keys, canon'[k] # NoRow
               PROVE  \/ chunks[canon'[k].paper] # NoDocument
                      \/ ArxivIsGone(work, canon'[k].paper)
    BY <1>2, <1>4 DEF NamedIsThere
  <2> QED
    BY <1>1, <1>3 DEF Agreement, StoresAgree, NamedIsThere, Winning, Claimed, Closing
\* If the paper was the one that beat another, it is of arXiv.
<1>8. GoneIsBeaten(work)'
  <2> SUFFICES ASSUME NEW p \in Papers, ledger[p].closed, chunks[p] = NoDocument
               PROVE  /\ \A r \in Records : PaperOf[r] = p => PriorityOf[r] > 0
                      /\ \/ ArxivIsGone(work, p)
                         \/ \E c \in Records :
                              work[PaperOf[c]] = work[p] /\ PriorityOf[c] <= 1 /\ Held(c)'
    BY <1>2, <1>4 DEF GoneIsBeaten
  <2>1. /\ \A r \in Records : PaperOf[r] = p => PriorityOf[r] > 0
        /\ \/ ArxivIsGone(work, p)
           \/ \E c \in Records :
                  work[PaperOf[c]] = work[p] /\ PriorityOf[c] <= 1 /\ Held(c)
    BY <1>1 DEF Agreement, StoresAgree, GoneIsBeaten, Winning, Claimed, Closing
  <2>2. ASSUME NEW c \in Records, work[PaperOf[c]] = work[p], PriorityOf[c] <= 1, Held(c),
               PaperOf[c] = paper
        PROVE  ArxivIsGone(work, p)
    <3>1. existing # NoRow /\ existing.priority <= PriorityOf[c]
      BY <1>1, <2>2 DEF Agreement, WorkerReads, Steps
    <3>2. existing.priority \in 0..2 /\ PriorityOf[c] \in 0..2
      BY <1>1, <3>1, RecordParts DEF TypeOK, Rows
    <3>3. PriorityOf[job.record] = 0 \/ PriorityOf[job.record] < existing.priority
      BY <1>1, <3>1 DEF RowInv, WorkerInv
    <3>4. PriorityOf[job.record] = 0
      BY <1>1, <2>2, <3>1, <3>2, <3>3
    <3> QED
      BY <1>1, <2>2, <3>4 DEF ArxivIsGone, Tombstoned, paper
  <2> QED
    BY <1>3, <2>1, <2>2
<1>9. WorkerReads(work)' /\ WorkerWins(work)' /\ OneName(work)'
  BY <1>2, <1>3, IdleAgrees DEF Agreement, StoresAgree
<1> QED
  BY <1>5, <1>6, <1>7, <1>8, <1>9 DEF Agreement, StoresAgree

LEMMA NextAgreement ==
  ASSUME NEW work, JoinsWorks(work), SeparatesWorks(work), PaperInv, RowInv(work),
         faults = 0 => Agreement(work), [Next]_vars
  PROVE  faults' = 0 => Agreement(work)'
<1> SUFFICES ASSUME faults' = 0 PROVE Agreement(work)'
  OBVIOUS
<1>1. Agreement(work) /\ ~Interrupted /\ ~Failed /\ ~Exclude
  BY StillQuiet DEF PaperInv
<1>2. ASSUME NEW j \in Jobs, Begin(j) PROVE Agreement(work)'
  BY <1>1, <1>2, BeginAgrees
<1>3. ASSUME NEW k \in Keys, WriteRow(k) PROVE Agreement(work)'
  BY <1>1, <1>3, WriteRowAgrees
<1>4. CASE BulkUpsert \/ DeleteStaleChunks
  BY <1>1, <1>4, DocumentAgrees
<1>5. CASE \/ Evaluate \/ Claim \/ Build \/ MarkIngested \/ RecordCanonicalWinner
           \/ RemoveCanonicalLoser \/ DeleteLoserRows
           \/ ClaimTombstone \/ TombstonePaper \/ DeleteOwnRows
  BY <1>1, <1>5, EvaluateAgrees, ClaimAgrees, BuildAgrees, MarkAgrees, RecordWinnerAgrees,
     RemoveLoserAgrees, DeleteLoserRowsAgrees, ClaimTombstoneAgrees, TombstoneAgrees,
     DeleteOwnRowsAgrees
<1>6. CASE (\E j \in Jobs : Send(j) \/ Redrive(j)) \/ UNCHANGED vars
  <2>1. UNCHANGED <<ledger, chunks, canon, pc, job, existing, row, todo>>
    BY <1>6 DEF Send, Redrive, stores, worker, vars
  <2>2. /\ Searchable' = Searchable /\ NoDocument' = NoDocument
        /\ paper' = paper /\ own' = own
        /\ \A r : (Held(r)' <=> Held(r)) /\ (IsNamed(r)' <=> IsNamed(r))
        /\ \A r, k : HeldAt(r, k)' <=> HeldAt(r, k)
        /\ OneName(work)' <=> OneName(work)
        /\ \A p : ArxivIsGone(work, p)' <=> ArxivIsGone(work, p)
    BY <2>1, SameRows DEF Searchable, NoDocument, paper, own, ArxivIsGone, Tombstoned
  <2>3. SearchableIsHeld' /\ NamedIsHeld'
    BY <1>1, <2>1, <2>2 DEF Agreement, StoresAgree, SearchableIsHeld, NamedIsHeld
  <2>4. NamedIsThere(work)' /\ GoneIsBeaten(work)'
    BY <1>1, <2>1, <2>2 DEF Agreement, StoresAgree, NamedIsThere, GoneIsBeaten
  <2>5. WorkerReads(work)'
    BY <1>1, <2>1, <2>2 DEF Agreement, WorkerReads, IsNamed
  <2>6. WorkerWins(work)'
    BY <1>1, <2>1, <2>2 DEF Agreement, WorkerWins
  <2> QED
    BY <1>1, <2>2, <2>3, <2>4, <2>5, <2>6 DEF Agreement, StoresAgree
<1> QED
  BY <1>1, <1>2, <1>3, <1>4, <1>5, <1>6 DEF Next, Work

LEMMA InitAgreement ==
  ASSUME Init, NEW work
  PROVE  Agreement(work)
<1>1. \A k \in Keys : canon[k] = NoRow
  BY DEF Init
<1>2. pc = "idle" /\ \A p \in Papers : ~ledger[p].closed /\ chunks[p] = NoDocument
  BY DEF Init
<1>3. Searchable = {}
  BY <1>2, GoneIsNotSearchable, RecordParts DEF Searchable
<1> QED
  BY <1>1, <1>2, <1>3
  DEF Agreement, StoresAgree, OneName, SearchableIsHeld, NamedIsHeld, NamedIsThere,
      GoneIsBeaten, WorkerReads, WorkerWins, Steps, Closing

\* As long as nothing fails, of the records of a work one paper is searchable, it can be
\* found from each of its keys, and the canonical rows name it, unless the arXiv record
\* that had replaced it was withdrawn (_record_canonical_winner, _remove_canonical_loser,
\* upsert_canonical_dedup_state, delete_canonical_dedup_state_for_paper).
THEOREM CanonicalRowsAgree ==
  ASSUME OneArxivRecordPerWork, KeysJoinWorks
  PROVE  Spec => []CanonicalMatchesIndex
<1>1. PICK work \in [Papers -> Papers] : JoinsWorks(work)
  BY DEF KeysJoinWorks, JoinsWorks
<1>2. SeparatesWorks(work)
  BY <1>1, JoinedAreSeparate
<1> DEFINE All == PaperInv /\ RowInv(work) /\ (faults = 0 => Agreement(work))
<1>3. Init => All
  BY InitPaperInv, InitRowInv, InitAgreement
<1>4. All /\ [Next]_vars => All'
  <2> SUFFICES ASSUME All, [Next]_vars PROVE All'
    OBVIOUS
  <2>1. PaperInv'
    BY NextPaperInv
  <2>2. RowInv(work)'
    BY <1>2, NextRowInv
  <2>3. faults' = 0 => Agreement(work)'
    BY <1>1, <1>2, NextAgreement
  <2> QED
    BY <2>1, <2>2, <2>3
<1>5. All => CanonicalMatchesIndex
  <2> SUFFICES ASSUME All, Settled, faults = 0
               PROVE  OneSearchable /\ SearchableIsClaimed /\ WinnerIsSearchable
    BY DEF CanonicalMatchesIndex
  <2>1. pc = "idle" /\ Agreement(work)
    BY DEF Settled
  <2>2. \A s \in Searchable : s \in Records /\ Held(s)
    BY <2>1 DEF Agreement, StoresAgree, SearchableIsHeld, Closing, Searchable
  <2>3. OneSearchable
    BY <2>2, RecordParts DEF OneSearchable, Held, HeldAt
  <2>4. SearchableIsClaimed
    BY <2>2 DEF SearchableIsClaimed, Held, HeldAt
  <2>5. WinnerIsSearchable
    <3> SUFFICES ASSUME NEW k \in Keys, canon[k] # NoRow, chunks[canon[k].paper] = NoDocument
                 PROVE  \E r, s \in Records :
                           /\ PaperOf[s] = canon[k].paper
                           /\ KeysOf[r] \intersect KeysOf[s] # {}
                           /\ PriorityOf[r] = 0 /\ ledger[PaperOf[r]].state = "TOMBSTONED"
      BY DEF WinnerIsSearchable
    <3>1. PICK s \in Records : PaperOf[s] = canon[k].paper
      BY <2>1 DEF Agreement, StoresAgree, NamedIsHeld
    <3>2. ArxivIsGone(work, canon[k].paper)
      BY <2>1 DEF Agreement, StoresAgree, NamedIsThere, Winning, Claimed, Closing
    <3>3. PICK r \in Records : /\ work[PaperOf[r]] = work[canon[k].paper]
                               /\ PriorityOf[r] = 0 /\ Tombstoned(PaperOf[r])
      BY <3>2 DEF ArxivIsGone
    <3> QED
      BY <1>1, <3>1, <3>3 DEF JoinsWorks, Tombstoned
  <2> QED
    BY <2>3, <2>4, <2>5
<1> HIDE DEF All
<1> QED
  BY <1>3, <1>4, <1>5, PTL DEF Spec
=============================================================================
