--------------------------- MODULE PaperIngestion ---------------------------
(***************************************************************************)
(* What U1's worker does with one paper job: it finds out whether another  *)
(* source already holds the paper, claims the version in the dedup ledger, *)
(* builds the document, writes its chunks, closes the claim, and makes the *)
(* paper the canonical winner of its alias keys, removing the paper it     *)
(* replaces.  The ledger, the canonical rows (Postgres) and the chunks     *)
(* (OpenSearch) are written one after the other with no transaction around *)
(* them: a crash or a retriable error between two writes puts the job back *)
(* in the queue, any other error sends it to the DLQ, from which an        *)
(* operator returns it.                                                    *)
(*                                                                         *)
(* One worker runs one job at a time (max_capacity=1 in the stack; the     *)
(* ledger's claim says that it assumes it).  Queues are sets: messages may *)
(* arrive in any order and again.  A job carries a record of a source, its *)
(* version, and whether the record says it was withdrawn.  A chunk is its  *)
(* ordinal in the paper (chunk ids do not name the version) and holds a    *)
(* piece of the document of one record and version.  The watermark is in   *)
(* HarvestWatermark; full text, doc-model cache, assets and the list of    *)
(* seen sources are left out: nothing in the pipeline reads them back.     *)
(***************************************************************************)
EXTENDS Naturals, FiniteSets

CONSTANTS
    Jobs,        \* [record, version, withdrawn] messages that sources send
    Keys,        \* canonical keys: doi, arXiv id, title + author + year
    PaperOf,     \* the paper id of each record
    PriorityOf,  \* source_priority of each record: 0 arXiv, 1 Semantic Scholar, 2 OpenAlex
    KeysOf,      \* the alias keys of each record
    SizeOf,      \* number of chunks of the document of a record and version
    MaxVersion,  \* bound: versions of a record
    MaxChunks,   \* bound: chunks of a document
    MaxSends,    \* bound: messages sent
    MaxFaults    \* bound: errors and crashes

Records == DOMAIN PaperOf
Papers == {PaperOf[r] : r \in Records}
Ordinals == 1..MaxChunks
Versions == 1..MaxVersion

ASSUME PaperBounds ==
    /\ PriorityOf \in [Records -> 0..2]
    /\ KeysOf \in [Records -> (SUBSET Keys) \ {{}}]
    /\ Jobs \subseteq [record : Records, version : Versions, withdrawn : BOOLEAN]
    /\ SizeOf \in [Records -> [Versions -> Ordinals]]
    /\ {MaxVersion, MaxChunks, MaxSends, MaxFaults} \subseteq Nat

\* The paper id of an arXiv record is its arXiv id; that of another record is "src-" and
\* a hash of its first key.
ASSUME PaperIdentity ==
    /\ "none" \notin Papers \union Records
    /\ \A r, s \in Records : PriorityOf[r] = 0 /\ PaperOf[s] = PaperOf[r] => s = r

VARIABLES
    queue,     \* jobs in the ingestion queue
    dlq,       \* jobs in the dead-letter queue
    ledger,    \* dedup_state by paper; version 0 stands for no row
    chunks,    \* what the search index holds, by paper and ordinal
    canon,     \* canonical_dedup_state by key
    pc,        \* where the worker is in the job
    job,       \* the job it is at
    existing,  \* the canonical row it read when it began
    row,       \* the canonical row it is about to write
    todo,      \* the keys it has yet to write that row to
    done,      \* jobs that were acknowledged as successful
    sends, faults

stores == <<ledger, chunks, canon>>
worker == <<pc, job, existing, row, todo>>
vars == <<queue, dlq, stores, worker, done, sends, faults>>

NoJob == [record |-> "none", version |-> 0, withdrawn |-> FALSE]
NoRow == [paper |-> "none", priority |-> 3, version |-> 0]
NoChunk == [record |-> "none", version |-> 0]
Rows == [paper : Papers, priority : 0..2, version : Versions]
States == {"INDEXED", "EXCLUDED", "TOMBSTONED"}
Steps == {"alias", "evaluate", "claim", "build", "exclude", "index", "stale", "mark",
          "canonical", "loser", "unlink", "winner",
          "withdraw", "tombstone", "forget"}

\* The document of a record and version: the chunk at each ordinal.
Document(r, v) ==
    [n \in Ordinals |-> IF n <= SizeOf[r][v] THEN [record |-> r, version |-> v] ELSE NoChunk]

NoDocument == [n \in Ordinals |-> NoChunk]

paper == PaperOf[job.record]
document == Document(job.record, job.version)
own == [paper |-> paper, priority |-> PriorityOf[job.record], version |-> job.version]

TypeOK ==
    /\ queue \in SUBSET Jobs /\ dlq \in SUBSET Jobs /\ done \in SUBSET Jobs
    /\ ledger \in [Papers -> [version : 0..MaxVersion, closed : BOOLEAN, state : States]]
    /\ chunks \in [Papers ->
            [Ordinals -> [record : Records, version : Versions] \union {NoChunk}]]
    /\ canon \in [Keys -> Rows \union {NoRow}]
    /\ pc \in Steps \union {"idle"}
    /\ job \in Jobs \union {NoJob} /\ (pc = "idle") = (job = NoJob)
    /\ existing \in Rows \union {NoRow} /\ row \in Rows \union {NoRow}
    /\ todo \in SUBSET Keys
    /\ sends \in 0..MaxSends /\ faults \in 0..MaxFaults

Init ==
    /\ queue = {} /\ dlq = {} /\ done = {}
    /\ ledger = [p \in Papers |-> [version |-> 0, closed |-> FALSE, state |-> "INDEXED"]]
    /\ chunks = [p \in Papers |-> NoDocument]
    /\ canon = [k \in Keys |-> NoRow]
    /\ pc = "idle" /\ job = NoJob /\ existing = NoRow /\ row = NoRow /\ todo = {}
    /\ sends = 0 /\ faults = 0

-----------------------------------------------------------------------------
\* Pure decisions of the control plane.

\* Mutant: a row of the same version is a duplicate although its claim is open.
decide_dedup_open(state, version) ==
    CASE state.version = 0 -> "NEW"
      [] state.version > 0 /\ version < state.version -> "STALE"
      [] state.version > 0 /\ version = state.version /\ state.state = "INDEXED" -> "DUPLICATE"
      [] OTHER -> "CHANGED"

\* decide_dedup; the fingerprint is a hash of paper id and version, so that a row
\* of the same version has it exactly when its claim was closed.
decide_dedup(state, version) ==
    CASE state.version = 0 -> "NEW"
      [] state.version > 0 /\ version < state.version -> "STALE"
      [] state.version > 0 /\ version = state.version
           /\ state.closed /\ state.state = "INDEXED" -> "DUPLICATE"
      [] OTHER -> "CHANGED"

\* _CANONICAL_SUPERSEDES: a better source, or the same and not an older version.
Supersedes(new, old) ==
    \/ new.priority < old.priority
    \/ new.priority = old.priority /\ new.version >= old.version

\* _canonical_state_for_keys: a row of the best source among the keys.
CanonicalState(keys) ==
    LET rows == {canon[k] : k \in keys} \ {NoRow}
    IN  IF rows = {} THEN {NoRow}
        ELSE {s \in rows : \A t \in rows : s.priority <= t.priority}

-----------------------------------------------------------------------------
\* The queue and the ends of a job.

Goto(step) == pc' = step /\ UNCHANGED <<job, existing, row, todo>>

Idle ==
    /\ pc' = "idle" /\ job' = NoJob /\ existing' = NoRow /\ row' = NoRow /\ todo' = {}

\* A source sends a job, or sends it again.
Send(j) ==
    /\ sends < MaxSends
    /\ sends' = sends + 1
    /\ queue' = queue \union {j}
    /\ UNCHANGED <<dlq, stores, worker, done, faults>>

\* process_message: the job ran to its end and is acknowledged.
Ack ==
    /\ queue' = queue \ {job}
    /\ done' = done \union {job}
    /\ Idle

\* One more error.
Trouble ==
    /\ faults < MaxFaults
    /\ faults' = faults + 1

\* The DLQ takes the job and it is acknowledged.
Bury ==
    /\ Trouble
    /\ queue' = queue \ {job}
    /\ dlq' = dlq \union {job}
    /\ Idle

\* A crash of the worker, or a retriable error: no acknowledgement.
Interrupted ==
    /\ pc # "idle"
    /\ Trouble
    /\ Idle
    /\ UNCHANGED <<queue, dlq, stores, done, sends>>

\* A permanent error outside the build, or one outside the failure taxonomy (the
\* control plane's own errors are): straight to the DLQ from wherever it happens.
Failed ==
    /\ pc # "idle"
    /\ Bury
    /\ UNCHANGED <<stores, done, sends>>

\* An operator returns a dead-lettered job to the queue.
Redrive(j) ==
    /\ j \in dlq
    /\ dlq' = dlq \ {j}
    /\ queue' = queue \union {j}
    /\ UNCHANGED <<stores, worker, done, sends, faults>>

-----------------------------------------------------------------------------
\* The steps of a job.

\* ingest_one: read the canonical state of the keys.  A source other than arXiv
\* that cannot replace the winner only leaves its aliases.
Begin(j) ==
    /\ pc = "idle"
    /\ j \in queue
    /\ job' = j
    /\ existing' \in CanonicalState(KeysOf[j.record])
    /\ IF /\ PriorityOf[j.record] > 0
          /\ existing' # NoRow
          /\ ~(PriorityOf[j.record] < existing'.priority)
       THEN pc' = "alias" /\ row' = existing' /\ todo' = KeysOf[j.record]
       ELSE /\ pc' = IF j.withdrawn THEN "withdraw" ELSE "evaluate"
            /\ UNCHANGED <<row, todo>>
    /\ UNCHANGED <<queue, dlq, stores, done, sends, faults>>

\* Mutant: the job ends in the middle of its keys.
WriteRow_unfinished(k) ==
    /\ pc \in {"alias", "winner"}
    /\ k \in todo
    /\ canon' = [canon EXCEPT ![k] = IF @ = NoRow \/ Supersedes(row, @) THEN row ELSE @]
    /\ pc' = "idle" /\ todo' = todo \ {k}
    /\ UNCHANGED <<job, existing, row, queue, done, dlq, ledger, chunks, sends, faults>>

\* upsert_canonical_dedup_state of the next key, of a duplicate or of a winner.
WriteRow(k) ==
    /\ pc \in {"alias", "winner"}
    /\ k \in todo
    /\ canon' = [canon EXCEPT ![k] = IF @ = NoRow \/ Supersedes(row, @) THEN row ELSE @]
    /\ IF todo = {k}
       THEN Ack
       ELSE todo' = todo \ {k} /\ UNCHANGED <<pc, job, existing, row, queue, done>>
    /\ UNCHANGED <<dlq, ledger, chunks, sends, faults>>

\* DeduplicationGuard.evaluate.
Evaluate ==
    /\ pc = "evaluate"
    /\ LET decision == decide_dedup(ledger[paper], job.version) IN
           CASE decision = "STALE" -> Ack
             [] decision = "DUPLICATE" -> Goto("canonical") /\ UNCHANGED <<queue, done>>
             [] OTHER -> Goto("claim") /\ UNCHANGED <<queue, done>>
    /\ UNCHANGED <<dlq, stores, sends, faults>>

\* try_claim_upsert, a compare-and-set on the version.
Claim ==
    /\ pc = "claim"
    /\ IF ledger[paper].version <= job.version
       THEN /\ ledger' = [ledger EXCEPT ![paper] =
                   [version |-> job.version, closed |-> FALSE, state |-> "INDEXED"]]
            /\ Goto("build")
            /\ UNCHANGED <<queue, done>>
       ELSE Ack /\ UNCHANGED ledger
    /\ UNCHANGED <<dlq, chunks, canon, sends, faults>>

\* The doc-model build succeeds, or fails for good.
Build ==
    /\ pc = "build"
    /\ \/ Goto("index")
       \/ faults < MaxFaults /\ Goto("exclude")
    /\ UNCHANGED <<queue, dlq, stores, done, sends, faults>>

\* mark_excluded, best effort, and the DLQ.
Exclude ==
    /\ pc = "exclude"
    /\ \/ UNCHANGED ledger
       \/ ledger' = [ledger EXCEPT ![paper].state =
                        IF /\ ledger[paper].version = job.version
                           /\ ~ledger[paper].closed
                           /\ @ = "INDEXED"
                        THEN "EXCLUDED" ELSE @]
    /\ Bury
    /\ UNCHANGED <<chunks, canon, done, sends>>

\* Mutant: a new version is written over the old one without removing its tail.
BulkUpsert_keeps_tail ==
    /\ pc = "index"
    /\ chunks' = [chunks EXCEPT ![paper] =
           [n \in Ordinals |-> IF n <= SizeOf[job.record][job.version] THEN document[n] ELSE @[n]]]
    /\ Goto("mark")
    /\ UNCHANGED <<queue, dlq, ledger, canon, done, sends, faults>>

\* bulk_upsert; a partial failure of the bulk request is retriable.
BulkUpsert ==
    /\ pc = "index"
    /\ \E written \in SUBSET (1..SizeOf[job.record][job.version]) :
        /\ chunks' = [chunks EXCEPT ![paper] =
               [n \in Ordinals |-> IF n \in written THEN document[n] ELSE @[n]]]
        /\ IF written = 1..SizeOf[job.record][job.version]
           THEN Goto("stale") /\ UNCHANGED faults
           ELSE Trouble /\ Idle
    /\ UNCHANGED <<queue, dlq, ledger, canon, done, sends>>

\* A delete_by_query of some chunks of a paper, all of them or, to be retried, a part.
DeleteChunks(p, which, next) ==
    /\ \E gone \in SUBSET which :
        /\ chunks' = [chunks EXCEPT ![p] =
               [n \in Ordinals |-> IF n \in gone THEN NoChunk ELSE @[n]]]
        /\ IF gone = which
           THEN Goto(next) /\ UNCHANGED faults
           ELSE Trouble /\ Idle
    /\ UNCHANGED <<queue, dlq, ledger, canon, done, sends>>

\* delete_stale_chunks: every ordinal that the new document does not have.
DeleteStaleChunks ==
    /\ pc = "stale"
    /\ DeleteChunks(paper, Ordinals \ (1..SizeOf[job.record][job.version]), "mark")

\* mark_ingested closes the claim if the row still has the version.
MarkIngested ==
    /\ pc = "mark"
    /\ ledger' = [ledger EXCEPT ![paper] =
           IF @.version = job.version THEN [@ EXCEPT !.closed = TRUE, !.state = "INDEXED"]
                                      ELSE @]
    /\ Goto("canonical")
    /\ UNCHANGED <<queue, dlq, chunks, canon, done, sends, faults>>

\* Mutant: the winner is recorded and the loser stays in the index.
RecordCanonicalWinner_keeps_loser ==
    /\ pc = "canonical"
    /\ row' = own
    /\ pc' = "winner" /\ todo' = KeysOf[job.record]
    /\ UNCHANGED <<queue, dlq, stores, job, existing, done, sends, faults>>

\* _record_canonical_winner: whether there is a loser; its alias keys are kept.
RecordCanonicalWinner ==
    /\ pc = "canonical"
    /\ row' = own
    /\ IF existing # NoRow /\ existing.paper # paper
       THEN /\ pc' = "loser"
            /\ todo' = KeysOf[job.record]
                         \union {k \in Keys : canon[k].paper = existing.paper}
       ELSE pc' = "winner" /\ todo' = KeysOf[job.record]
    /\ UNCHANGED <<queue, dlq, stores, job, existing, done, sends, faults>>

\* _remove_canonical_loser: its chunks go, its ledger row stays.
RemoveCanonicalLoser ==
    /\ pc = "loser"
    /\ DeleteChunks(existing.paper, Ordinals, "unlink")

\* delete_canonical_dedup_state_for_paper of the loser.
DeleteLoserRows ==
    /\ pc = "unlink"
    /\ canon' = [k \in Keys |-> IF canon[k].paper = existing.paper THEN NoRow ELSE canon[k]]
    /\ Goto("winner")
    /\ UNCHANGED <<queue, dlq, ledger, chunks, done, sends, faults>>

\* Mutant: the tombstone does not raise the version.
ClaimTombstone_without_version ==
    /\ pc = "withdraw"
    /\ ledger' = [ledger EXCEPT ![paper].closed = FALSE, ![paper].state = "TOMBSTONED"]
    /\ Goto("tombstone")
    /\ UNCHANGED <<queue, done, dlq, chunks, canon, sends, faults>>

\* try_claim_tombstone.
ClaimTombstone ==
    /\ pc = "withdraw"
    /\ IF ledger[paper].version <= job.version
       THEN /\ ledger' = [ledger EXCEPT ![paper] =
                   [version |-> job.version, closed |-> FALSE, state |-> "TOMBSTONED"]]
            /\ Goto("tombstone")
            /\ UNCHANGED <<queue, done>>
       ELSE Ack /\ UNCHANGED ledger
    /\ UNCHANGED <<dlq, chunks, canon, sends, faults>>

\* tombstone_paper.
TombstonePaper ==
    /\ pc = "tombstone"
    /\ DeleteChunks(paper, Ordinals, "forget")

\* delete_canonical_dedup_state_for_paper of the withdrawn paper.
DeleteOwnRows ==
    /\ pc = "forget"
    /\ canon' = [k \in Keys |-> IF canon[k].paper = paper THEN NoRow ELSE canon[k]]
    /\ Ack
    /\ UNCHANGED <<dlq, ledger, chunks, sends, faults>>

Work ==
    \/ \E j \in Jobs : Begin(j)
    \/ \E k \in Keys : WriteRow(k)
    \/ Evaluate \/ Claim \/ Build \/ Exclude \/ BulkUpsert \/ DeleteStaleChunks
    \/ MarkIngested \/ RecordCanonicalWinner \/ RemoveCanonicalLoser \/ DeleteLoserRows
    \/ ClaimTombstone \/ TombstonePaper \/ DeleteOwnRows

Next ==
    \/ Work
    \/ \E j \in Jobs : Send(j) \/ Redrive(j)
    \/ Interrupted \/ Failed

Spec == Init /\ [][Next]_vars

-----------------------------------------------------------------------------
\* Properties.

Settled == queue = {} /\ dlq = {} /\ pc = "idle"

\* What a library of records may be like: records with a key in common are of one work,
\* of which arXiv has one record; a version of a record is withdrawn or is not.
SeparatesWorks(work) ==
    \A r, s \in Records :
        /\ KeysOf[r] \intersect KeysOf[s] # {} => work[PaperOf[r]] = work[PaperOf[s]]
        /\ (/\ PriorityOf[r] = 0 /\ PriorityOf[s] = 0
            /\ work[PaperOf[r]] = work[PaperOf[s]]) => r = s

OneArxivRecordPerWork == \E work \in [Papers -> Papers] : SeparatesWorks(work)

\* Records of one work all have keys in common, two and two, and no others.
KeysJoinWorks ==
    \E work \in [Papers -> Papers] : \A r, s \in Records :
        work[PaperOf[r]] = work[PaperOf[s]] <=> KeysOf[r] \intersect KeysOf[s] # {}

VersionsAreFixed ==
    \A i, j \in Jobs :
        i.record = j.record /\ i.version = j.version => i.withdrawn = j.withdrawn

\* The records whose chunks the index holds.
Searchable == {r \in Records : \E n \in Ordinals : chunks[PaperOf[r]][n].record = r}

\* An ingested paper is never served as a mixture: under a closed ledger row every
\* chunk belongs to one document of the row's version, whatever was interrupted.
NoMixedDocument ==
    \A p \in Papers :
        ledger[p].closed =>
            \E r \in Records :
                /\ PaperOf[r] = p
                /\ \A n \in Ordinals :
                       chunks[p][n] \in {Document(r, ledger[p].version)[n], NoChunk}

IsArxiv(p) == \E r \in Records : PaperOf[r] = p /\ PriorityOf[r] = 0

\* A withdrawn paper has no chunk, an ingested one is there complete or, replaced by
\* another source, gone, and no claim of an arXiv paper is left half open (an external
\* one may be: its retry can find that arXiv took over).
LedgerMatches(p) ==
    LET records == {r \in Records : PaperOf[r] = p} IN
    /\ ledger[p].state = "TOMBSTONED" => chunks[p] = NoDocument
    /\ ledger[p].closed =>
           chunks[p] \in {NoDocument}
               \union {Document(r, ledger[p].version) : r \in records}
    /\ (ledger[p].version > 0 /\ IsArxiv(p))
           => ledger[p].closed \/ ledger[p].state = "TOMBSTONED"

\* Once nothing is under way, the ledger and the index agree: for an arXiv paper whatever
\* was interrupted, for any other as long as nothing fails.  (An external paper can stay in
\* the index in part: arXiv replaces it, the removal is interrupted, and the version that
\* would retry it is overtaken by its withdrawal.)
LedgerMatchesIndex ==
    Settled => \A p \in Papers : IsArxiv(p) \/ faults = 0 => LedgerMatches(p)

\* In whatever order the versions of an arXiv paper came, and however often, the
\* index ends with the newest one that was acknowledged.
NewestDelivered ==
    Settled =>
        \A j \in done :
            (/\ PriorityOf[j.record] = 0
             /\ \A i \in done : i.record = j.record => i.version <= j.version)
            => chunks[PaperOf[j.record]] =
                   IF j.withdrawn THEN NoDocument ELSE Document(j.record, j.version)

\* BR-C3: of the records that share a key with each other, one paper is searchable.
OneSearchable ==
    Settled =>
        \A r, s \in Searchable :
            KeysOf[r] \intersect KeysOf[s] # {} => PaperOf[r] = PaperOf[s]

\* Every searchable record is reachable from each of its keys through a row that is
\* at least as good a source: the next duplicate is recognised.
SearchableIsClaimed ==
    \A r \in Searchable : \A k \in KeysOf[r] :
        canon[k] # NoRow /\ canon[k].priority <= PriorityOf[r]

\* A canonical winner has its document in the index, unless the arXiv record of the work,
\* which had replaced it, was withdrawn since.
WinnerIsSearchable ==
    \A k \in Keys :
        \/ canon[k] = NoRow
        \/ chunks[canon[k].paper] # NoDocument
        \/ \E r, s \in Records :
               /\ PaperOf[s] = canon[k].paper /\ KeysOf[r] \intersect KeysOf[s] # {}
               /\ PriorityOf[r] = 0 /\ ledger[PaperOf[r]].state = "TOMBSTONED"

\* As long as nothing fails, the canonical rows and the index agree.
CanonicalMatchesIndex ==
    Settled /\ faults = 0 => OneSearchable /\ SearchableIsClaimed /\ WinnerIsSearchable
=============================================================================
