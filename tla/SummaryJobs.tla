---------------------------- MODULE SummaryJobs ----------------------------
(***************************************************************************)
(* The summaries and translations of one paper: the orchestrator's run on   *)
(* the request path and on the worker path, the two job queues (SQS with a  *)
(* worker process, or a thread pool in the API process), the two-tier store *)
(* and the rebuild of a doc-model that an older parser built.               *)
(*                                                                          *)
(* A client learns the outcome of a background job only by asking again:    *)
(* `pending` carries no job id, and the store is the hand-off.  One request *)
(* shape (paper, version, task, persona, scope) is modelled for every user; *)
(* what tells two cache keys apart is then the user's prompt-enforced terms *)
(* (their signature, 0 for none) and the parser generation of the source.   *)
(***************************************************************************)
EXTENDS Integers, FiniteSets

CONSTANTS
    Users,        \* the users who ask for this paper
    Workers,      \* the worker process's loop, or the pool's threads
    Routes,       \* the length routes the paper's sources may have
    Signatures,   \* signatures of a user's prompt-enforced terms, 0 for none
    MaxAsks,      \* bound: questions asked
    MaxEdits,     \* bound: edits of prompt-enforced terms
    MaxQueued,    \* bound: jobs of one user waiting at once
    MaxFaults     \* bound: failures, losses and duplicates

Gens == {"stale", "current"}
Sources == {"plain"} \cup Gens

ASSUME SummaryAssumption ==
    /\ Users \cap Workers = {} /\ "shared" \notin Users
    /\ Routes \subseteq [Sources -> {"inline", "job", "over_cap", "absent"}]
    /\ Signatures \subseteq Nat /\ 0 \in Signatures
    /\ MaxAsks \in Nat /\ MaxEdits \in Nat /\ MaxQueued \in Nat \ {0} /\ MaxFaults \in Nat

VARIABLES
    adapter,    \* "sqs" or "local": the job queue this deployment wires
    route,      \* the length route of each source of the paper
    doc,        \* the stored doc-model: "none", or the generation of its parser
    glossary,   \* the signature of each user's prompt-enforced terms
    transient,  \* the keys whose Redis entry is an abstain
    durable,    \* the S3 tier, by cache key
    run,        \* per client and per worker: the orchestrator run in progress
    client,     \* per user: "idle", "waiting" or "answered"
    answer,     \* the last answer a user got, with what the request had read
    queued,     \* per user: jobs waiting
    inflight,   \* per user: a live entry of the queue adapter's dedup map
    running,    \* per user: the pool's _running set
    lapsed,     \* per user: a claim of the pool has lapsed before its job started
    degraded,   \* the API process's cost guard is not normal
    asks, edits, faults

vars == <<adapter, route, doc, glossary, transient, durable, run, client, answer,
          queued, inflight, running, lapsed, degraded, asks, edits, faults>>

Threads == Users \cup Workers
Nobody == "shared"
Keys == [owner : Users \cup {Nobody}, sig : Signatures, gen : Gens]

-----------------------------------------------------------------------------
(* Stored payloads.  A result remembers the source and the terms it was made *)
(* from; both are inside the artifact, not in its key.                       *)

Payload(kind, src, sig, owner) == [kind |-> kind, src |-> src, sig |-> sig, owner |-> owner]
Notice(kind) == Payload(kind, "plain", 0, Nobody)
Miss == Notice("none")
Abstain == Notice("abstain")
Payloads == [kind : {"none", "abstain", "result", "degraded", "unavailable", "error"},
             src : Sources, sig : Signatures, owner : Users \cup {Nobody}]

\* Mutant: every artifact is filed under the current generation.
GenOf_always_current(src) == "current"

\* _docmodel_generation of the parser of a source; a source without doc-model counts as
\* the current one.
GenOf(src) == IF src = "plain" THEN "current" ELSE src

\* An artifact without enforced terms is shared by every user.
OwnerOf(u, sig) == IF sig > 0 THEN u ELSE Nobody

\* Mutant: the key does not name the terms.
CacheKey_without_terms(u, sig, gen) == [owner |-> Nobody, sig |-> 0, gen |-> gen]

\* build_cache_key.
CacheKey(u, sig, gen) == [owner |-> OwnerOf(u, sig), sig |-> sig, gen |-> gen]

\* Read-through: Redis, then S3.  A Redis entry is a copy of the S3 object (kept
\* or dropped by the clock, refilled by a read) or an abstain, which hides it.
Get(k) == IF k \in transient THEN Abstain ELSE durable[k]

-----------------------------------------------------------------------------
RunAt(pc, user, sig, src, began) ==
    [pc |-> pc, user |-> user, sig |-> sig, src |-> src, began |-> began]
IdleRun == RunAt("idle", Nobody, 0, "plain", "none")

Init ==
    /\ adapter \in {"sqs", "local"} /\ route \in Routes
    /\ doc \in {"none", "stale"}
    /\ glossary = [u \in Users |-> 0]
    /\ transient = {} /\ durable = [k \in Keys |-> Miss]
    /\ run = [t \in Threads |-> IdleRun]
    /\ client = [u \in Users |-> "idle"]
    /\ answer = [u \in Users |-> [payload |-> Miss, sig |-> 0, began |-> "none"]]
    /\ queued = [u \in Users |-> 0]
    /\ inflight = [u \in Users |-> FALSE] /\ running = [u \in Users |-> FALSE]
    /\ lapsed = [u \in Users |-> FALSE]
    /\ degraded = FALSE
    /\ asks = 0 /\ edits = 0 /\ faults = 0

Fault == faults < MaxFaults /\ faults' = faults + 1

-----------------------------------------------------------------------------
(* The end of a run.  A client is told; a worker's return value is dropped, *)
(* its message is acked, and the pool releases the claim.                   *)

Release(u) ==
    IF adapter = "local"
      THEN /\ inflight' = [inflight EXCEPT ![u] = FALSE]
           /\ running' = [running EXCEPT ![u] = FALSE]
      ELSE UNCHANGED <<inflight, running>>

Tell(u, payload, sig, began) ==
    /\ client' = [client EXCEPT ![u] = "answered"]
    /\ answer' = [answer EXCEPT ![u] = [payload |-> payload, sig |-> sig, began |-> began]]

Finish(t, payload, sig, began) ==
    /\ run' = [run EXCEPT ![t] = IdleRun]
    /\ \/ /\ t \in Users
          /\ Tell(t, payload, sig, began)
          /\ UNCHANGED <<inflight, running>>
       \/ /\ t \in Workers
          /\ Release(run[t].user)
          /\ UNCHANGED <<client, answer>>

-----------------------------------------------------------------------------
(* SummaryJobQueuePort.enqueue.  The SQS adapter remembers a job only once   *)
(* it is sent and forgets it after 90 s; the pool claims first, and a job    *)
(* that is running counts as claimed whatever the clock says.                *)

\* Mutant: a running job whose entry lapsed does not count.
Claimed_by_clock(u) == inflight[u]

Claimed(u) == inflight[u] \/ (adapter = "local" /\ running[u])

Enqueue(u, sent) ==
    \/ Claimed(u) /\ sent /\ UNCHANGED <<queued, inflight>>
    \/ /\ ~Claimed(u) /\ sent
       /\ queued' = [queued EXCEPT ![u] = @ + 1]
       /\ inflight' = [inflight EXCEPT ![u] = TRUE]
    \/ /\ ~Claimed(u) /\ ~sent /\ adapter = "sqs"
       /\ UNCHANGED <<queued, inflight>>

-----------------------------------------------------------------------------
(* run, step by step.                                                        *)

Ask(u) ==
    /\ client[u] # "waiting" /\ asks < MaxAsks
    /\ asks' = asks + 1
    /\ client' = [client EXCEPT ![u] = "waiting"]
    /\ answer' = [answer EXCEPT ![u] = [payload |-> Miss, sig |-> 0, began |-> "none"]]
    /\ UNCHANGED <<adapter, route, doc, glossary, transient, durable, run, queued,
                   inflight, running, lapsed, degraded, edits, faults>>

RunUser(t) == IF t \in Users THEN t ELSE run[t].user

Begins(t) ==
    IF t \in Users THEN client[t] = "waiting" /\ run[t].pc = "idle" ELSE run[t].pc = "begin"

\* The worker process builds its own cost guard, which no spend ever reaches;
\* the pool's threads use the one of the API process.
CostDegraded(t) == degraded /\ (t \in Users \/ adapter = "local")

\* A read of the store misses where there is nothing, and where it fails.
Misses(found) == (found.kind = "none" /\ UNCHANGED faults) \/ Fault

\* Resolve the glossary, look under the current generation's key, pass the cost gate.
Resolve(t) ==
    LET u == RunUser(t)
        sig == glossary[u]
        k == CacheKey(u, sig, "current")
    IN  /\ Begins(t)
        /\ \/ Get(k).kind # "none" /\ Finish(t, Get(k), sig, doc) /\ UNCHANGED faults
           \/ /\ Misses(Get(k)) /\ CostDegraded(t)
              /\ Finish(t, Notice("degraded"), sig, doc)
           \/ /\ Misses(Get(k)) /\ ~CostDegraded(t)
              /\ run' = [run EXCEPT ![t] =
                            RunAt("select", u, sig, "plain", IF t \in Users THEN doc ELSE "none")]
              /\ UNCHANGED <<client, answer, inflight, running>>
        /\ UNCHANGED <<adapter, route, doc, glossary, transient, durable,
                       queued, lapsed, degraded, asks, edits>>

\* Pick the source: the doc-model, else plain text or the abstract.
Select == IF doc = "none" THEN "plain" ELSE doc

\* The key of a run's artifact is that of its source's own generation; where it
\* is not the current one, the store is read again under it.
RunKey(t, src) == CacheKey(run[t].user, run[t].sig, GenOf(src))

SecondGet(t, src) == IF src = "stale" THEN Get(RunKey(t, src)) ELSE Miss

\* What ends the run before anything is generated, if anything does.
EarlyEnd(src, found) ==
    IF route[src] = "absent" THEN Notice("unavailable")
    ELSE IF found.kind # "none" THEN found
    ELSE IF route[src] = "over_cap" THEN Abstain ELSE Miss

\* The second read may fail, which is a miss, and the message may not be sent.
Dispatch(t) ==
    /\ run[t].pc = "select"
    /\ \E found \in {SecondGet(t, Select), Miss}, sent \in BOOLEAN :
        LET end == EarlyEnd(Select, found) IN
        /\ IF found = SecondGet(t, Select) /\ sent THEN UNCHANGED faults ELSE Fault
        /\ \/ /\ end.kind # "none" /\ sent
              /\ Finish(t, end, run[t].sig, run[t].began)
              /\ UNCHANGED queued
           \/ /\ end.kind = "none" /\ route[Select] = "job" /\ t \in Users
              /\ Enqueue(t, sent)
              /\ run' = [run EXCEPT ![t] = IdleRun]
              /\ UNCHANGED <<client, answer, running>>
           \/ /\ end.kind = "none" /\ sent /\ (route[Select] = "inline" \/ t \in Workers)
              /\ run' = [run EXCEPT ![t] =
                            RunAt("generate", run[t].user, run[t].sig, Select, run[t].began)]
              /\ UNCHANGED <<client, answer, queued, inflight, running>>
    /\ UNCHANGED <<adapter, route, doc, glossary, transient, durable, lapsed, degraded,
                   asks, edits>>

\* Mutant: an abstain is not stored.
PutTransient_never(t) == transient

\* _abstain: only the worker path stores it, and only in the hot tier.
PutTransient(t) == IF t \in Workers THEN transient \cup {RunKey(t, run[t].src)} ELSE transient

\* Two attempts against the model and the gate end in a result, which is written
\* through, or in an abstain.
Generate(t) ==
    LET made == Payload("result", run[t].src, run[t].sig, OwnerOf(run[t].user, run[t].sig)) IN
    /\ run[t].pc = "generate"
    /\ \/ /\ transient' = transient \ {RunKey(t, run[t].src)}
          /\ durable' = [durable EXCEPT ![RunKey(t, run[t].src)] = made]
          /\ Finish(t, made, run[t].sig, run[t].began)
       \/ /\ transient' = PutTransient(t)
          /\ Finish(t, Abstain, run[t].sig, run[t].began)
          /\ UNCHANGED durable
    /\ UNCHANGED <<adapter, route, doc, glossary, queued, lapsed, degraded, asks, edits, faults>>

-----------------------------------------------------------------------------
(* The workers, and what the clock does.                                     *)

Ready(w, u) == run[w].pc = "idle" /\ queued[u] > 0

Start(w, u) ==
    /\ run' = [run EXCEPT ![w] = RunAt("begin", u, 0, "plain", "none")]
    /\ running' = IF adapter = "local" THEN [running EXCEPT ![u] = TRUE] ELSE running

Take(w, u) ==
    /\ Ready(w, u)
    /\ queued' = [queued EXCEPT ![u] = @ - 1]
    /\ Start(w, u)
    /\ UNCHANGED <<adapter, route, doc, glossary, transient, durable, client, answer,
                   inflight, lapsed, degraded, asks, edits, faults>>

\* A dedup entry reaches its time: 90 s after the send, or the pool's 900 s backstop.
ClaimLapses(u) ==
    /\ inflight[u] /\ queued[u] < MaxQueued
    /\ inflight' = [inflight EXCEPT ![u] = FALSE]
    /\ lapsed' = [lapsed EXCEPT ![u] = @ \/ (adapter = "local" /\ queued[u] > 0)]
    /\ UNCHANGED <<adapter, route, doc, glossary, transient, durable, run, client, answer,
                   queued, running, degraded, asks, edits, faults>>

\* An abstain reaches its 120 s or is evicted.  A waiting client asks every 3 s:
\* one that misses it counts as a fault.
AbstainExpires(k) ==
    /\ k \in transient
    /\ transient' = transient \ {k}
    /\ IF \E u \in Users : client[u] = "waiting" THEN Fault ELSE UNCHANGED faults
    /\ UNCHANGED <<adapter, route, doc, glossary, durable, run, client, answer,
                   queued, inflight, running, lapsed, degraded, asks, edits>>

-----------------------------------------------------------------------------
(* The rest of the system: U1's builder, the rich view, the user's glossary, *)
(* the cost guard.                                                           *)

\* U1 stores a doc-model of the current parser.  Builds are asked for, best-effort,
\* by every run that selects an older one and by the rich view on a miss or an
\* older one; the view may be opened at any time, so a build may end at any time.
Build ==
    /\ doc # "current"
    /\ doc' = "current"
    /\ UNCHANGED <<adapter, route, glossary, transient, durable, run, client, answer, queued,
                   inflight, running, lapsed, degraded, asks, edits, faults>>

UpsertTerm(u, sig) ==
    /\ edits < MaxEdits /\ sig # glossary[u]
    /\ edits' = edits + 1
    /\ glossary' = [glossary EXCEPT ![u] = sig]
    /\ UNCHANGED <<adapter, route, doc, transient, durable, run, client, answer, queued,
                   inflight, running, lapsed, degraded, asks, faults>>

CostChanges ==
    /\ degraded' = ~degraded
    /\ IF degraded THEN UNCHANGED faults ELSE Fault
    /\ UNCHANGED <<adapter, route, doc, glossary, transient, durable, run, client, answer,
                   queued, inflight, running, lapsed, asks, edits>>

-----------------------------------------------------------------------------
(* Failures.                                                                 *)

\* A store or reader call raises.  A client gets an error; an SQS message is
\* left for redelivery, or goes to the dead-letter queue; the pool drops the job.
Raises(t) ==
    /\ run[t].pc # "idle" /\ Fault
    /\ Finish(t, Notice("error"), run[t].sig, run[t].began)
    /\ \/ /\ t \in Workers /\ adapter = "sqs"
          /\ queued' = [queued EXCEPT ![run[t].user] = @ + 1]
       \/ UNCHANGED queued
    /\ UNCHANGED <<adapter, route, doc, glossary, transient, durable, lapsed, degraded,
                   asks, edits>>

\* SQS delivers a message and keeps it.
DeliverTwice(w, u) ==
    /\ adapter = "sqs" /\ Ready(w, u) /\ Fault
    /\ Start(w, u)
    /\ UNCHANGED <<adapter, route, doc, glossary, transient, durable, client, answer,
                   queued, inflight, lapsed, degraded, asks, edits>>

\* The API process restarts: its requests and its dedup map are gone and, where
\* it runs the pool, so are the jobs.  A waiting client asks again.
Restart ==
    LET gone == IF adapter = "local" THEN Threads ELSE Users IN
    /\ Fault
    /\ run' = [t \in Threads |-> IF t \in gone THEN IdleRun ELSE run[t]]
    /\ inflight' = [u \in Users |-> FALSE]
    /\ running' = [u \in Users |-> FALSE]
    /\ lapsed' = [u \in Users |-> FALSE]
    /\ queued' = IF adapter = "local" THEN [u \in Users |-> 0] ELSE queued
    /\ UNCHANGED <<adapter, route, doc, glossary, transient, durable, client, answer,
                   degraded, asks, edits>>

-----------------------------------------------------------------------------
Next ==
    \/ \E u \in Users : Ask(u)
    \/ \E t \in Threads : Resolve(t)
    \/ \E t \in Threads : Dispatch(t)
    \/ \E t \in Threads : Generate(t)
    \/ \E w \in Workers, u \in Users : Take(w, u)
    \/ \E u \in Users : ClaimLapses(u)
    \/ \E k \in Keys : AbstainExpires(k)
    \/ Build
    \/ \E u \in Users, sig \in Signatures : UpsertTerm(u, sig)
    \/ CostChanges
    \/ \E t \in Threads : Raises(t)
    \/ \E w \in Workers, u \in Users : DeliverTwice(w, u)
    \/ Restart

Advance(t) == Resolve(t) \/ Dispatch(t) \/ Generate(t)

Spec == Init /\ [][Next]_vars

\* A waiting client keeps asking, a request and a worker keep going, and the
\* clock reaches the end of a claim.  Nothing is assumed of the builder, of
\* what the model answers, or of the cost guard.
Fairness ==
    /\ \A t \in Threads : WF_vars(Advance(t))
    /\ \A w \in Workers : WF_vars(\E u \in Users : Take(w, u))
    /\ \A u \in Users : WF_vars(ClaimLapses(u))

FairSpec == Spec /\ Fairness

-----------------------------------------------------------------------------
TypeOK ==
    /\ adapter \in {"sqs", "local"} /\ route \in Routes
    /\ doc \in {"none"} \cup Gens
    /\ glossary \in [Users -> Signatures]
    /\ transient \subseteq Keys /\ durable \in [Keys -> Payloads]
    /\ run \in [Threads -> [pc : {"idle", "begin", "select", "generate"},
                            user : Users \cup {Nobody}, sig : Signatures, src : Sources,
                            began : {"none"} \cup Gens]]
    /\ client \in [Users -> {"idle", "waiting", "answered"}]
    /\ answer \in [Users -> [payload : Payloads, sig : Signatures, began : {"none"} \cup Gens]]
    /\ queued \in [Users -> Nat]
    /\ inflight \in [Users -> BOOLEAN] /\ running \in [Users -> BOOLEAN]
    /\ lapsed \in [Users -> BOOLEAN] /\ degraded \in BOOLEAN
    /\ asks \in 0..MaxAsks /\ edits \in 0..MaxEdits /\ faults \in 0..MaxFaults

\* An artifact made from the doc-model of an older parser is never served to a
\* request that began once the rebuilt doc-model was stored, although jobs that
\* read the old one may still be writing (service/orchestrator.py: the write key).
NoStaleServed ==
    \A u \in Users :
        answer[u].payload.kind = "result" /\ answer[u].payload.src = "stale"
            => answer[u].began # "current"

\* A user is served an artifact made with the prompt-enforced terms the request
\* resolved and with nobody else's, although a job resolves them again and the
\* user may have edited them meanwhile (domain/cache_key.py: signature and owner).
TermsAreOwn ==
    \A u \in Users :
        answer[u].payload.kind = "result"
            => /\ answer[u].payload.sig = answer[u].sig
               /\ answer[u].payload.owner = OwnerOf(u, answer[u].sig)

\* In the pool one user's artifact is generated by one thread at a time, however
\* long it takes, unless a claim ran out while its job was still waiting
\* (adapters/local_summary_job.py: _running).
OneRunPerClaim ==
    adapter = "local" =>
        \A w1, w2 \in Workers :
            (w1 # w2 /\ run[w1].pc # "idle" /\ run[w2].pc # "idle"
                     /\ run[w1].user = run[w2].user)
                => lapsed[run[w1].user]

\* A client that was told `pending` gets an answer: a result, an abstain with its
\* reason, or a degraded or unavailable notice, and never polls for ever.
PollAnswered == \A u \in Users : (client[u] = "waiting") ~> (client[u] = "answered")
=============================================================================
