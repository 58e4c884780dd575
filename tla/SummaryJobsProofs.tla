------------------------- MODULE SummaryJobsProofs -------------------------
(***************************************************************************)
(* Proofs about SummaryJobs, for any users, workers, lengths and terms.     *)
(*                                                                          *)
(* None of the three invariants is inductive.  What a client is served was  *)
(* written by some other run long before, so the invariant speaks of every  *)
(* stored object (Filed), and of what a run in progress has read of the     *)
(* doc-model and the glossary (Honest).  OneRunPerClaim needs how a claim,  *)
(* a waiting job and a running one relate in the pool (Pool).               *)
(***************************************************************************)
EXTENDS SummaryJobs, TLAPS

\* Every stored object is a result filed under its own terms, and under the
\* older generation if it was made from an older doc-model.
Filed ==
    \A k \in Keys : durable[k].kind # "none" =>
        /\ durable[k].kind = "result"
        /\ durable[k].sig = k.sig /\ durable[k].owner = k.owner
        /\ durable[k].src = "stale" => k.gen = "stale"

\* A run is for a user, a client's run for the client; a client that began after
\* the rebuild works on the rebuilt doc-model.
Honest ==
    /\ \A t \in Threads : run[t].pc # "idle" => run[t].user \in Users
    /\ \A u \in Users : run[u].pc # "idle" =>
          /\ run[u].pc # "begin" /\ run[u].user = u
          /\ run[u].began = "current" => doc = "current"
          /\ run[u].pc = "generate" /\ run[u].src = "stale" => run[u].began # "current"

Busy(w, u) == run[w].pc # "idle" /\ run[w].user = u

\* While no claim of the user has lapsed early, a waiting job is the only one
\* and holds the claim, and a running job is the only one and is marked.
Pool ==
    adapter = "local" => \A u \in Users : ~lapsed[u] =>
        /\ queued[u] > 0 => queued[u] = 1 /\ inflight[u] /\ \A w \in Workers : ~Busy(w, u)
        /\ \A w \in Workers : Busy(w, u) => running[u] = TRUE
        /\ \A w1, w2 \in Workers : Busy(w1, u) /\ Busy(w2, u) => w1 = w2

\* The part of TypeOK that the end of a run can disturb.
RunTypes ==
    /\ run \in [Threads -> [pc : {"idle", "begin", "select", "generate"},
                            user : Users \cup {Nobody}, sig : Signatures, src : Sources,
                            began : {"none"} \cup Gens]]
    /\ client \in [Users -> {"idle", "waiting", "answered"}]
    /\ answer \in [Users -> [payload : Payloads, sig : Signatures, began : {"none"} \cup Gens]]
    /\ inflight \in [Users -> BOOLEAN] /\ running \in [Users -> BOOLEAN]

IInv == TypeOK /\ Filed /\ Honest /\ Pool /\ NoStaleServed /\ TermsAreOwn

-----------------------------------------------------------------------------
LEMMA KeyType ==
    ASSUME NEW u \in Users, NEW sig \in Signatures, NEW gen \in Gens
    PROVE  /\ CacheKey(u, sig, gen) \in Keys
           /\ CacheKey(u, sig, gen).sig = sig
           /\ CacheKey(u, sig, gen).gen = gen
           /\ CacheKey(u, sig, gen).owner = OwnerOf(u, sig)
           /\ OwnerOf(u, sig) \in Users \cup {Nobody}
BY DEF CacheKey, OwnerOf, Keys

LEMMA NoticeType ==
    /\ \A kind \in {"none", "abstain", "degraded", "unavailable", "error"} :
          Notice(kind) \in Payloads /\ Notice(kind).kind = kind
    /\ Miss = Notice("none") /\ Abstain = Notice("abstain")
BY SummaryAssumption DEF Notice, Payload, Payloads, Miss, Abstain, Sources

\* What a run may tell its client: a payload that is no result, or one with the
\* run's own terms, and none made from an older doc-model after the rebuild.
Fit(u, payload, sig, began) ==
    /\ payload \in Payloads /\ sig \in Signatures /\ began \in {"none"} \cup Gens
    /\ payload.kind = "result" =>
          /\ payload.sig = sig /\ payload.owner = OwnerOf(u, sig)
          /\ payload.src = "stale" => began # "current"

\* What the store returns under a user's key.
LEMMA GetFits ==
    ASSUME TypeOK, Filed, NEW u \in Users, NEW sig \in Signatures, NEW gen \in Gens,
           NEW began \in {"none"} \cup Gens, gen = "current" \/ began # "current"
    PROVE  Fit(u, Get(CacheKey(u, sig, gen)), sig, began)
<1> DEFINE k == CacheKey(u, sig, gen)
<1>1. /\ k \in Keys /\ k.sig = sig /\ k.gen = gen /\ k.owner = OwnerOf(u, sig)
  BY KeyType
<1> HIDE DEF k
<1>2. CASE k \in transient
  <2>1. Get(k) = Abstain
    BY <1>2 DEF Get
  <2>2. Get(k) \in Payloads /\ Get(k).kind = "abstain"
    BY <2>1, NoticeType
  <2> QED
    BY <2>2 DEF Fit, k
<1>3. CASE k \notin transient
  <2>1. Get(k) = durable[k] /\ durable[k] \in Payloads
    BY <1>1, <1>3 DEF Get, TypeOK
  <2> QED
    BY <1>1, <2>1 DEF Fit, Filed, k
<1> QED
  BY <1>2, <1>3

-----------------------------------------------------------------------------
(* The end of a run, shared by four actions.                                *)

LEMMA FinishKeeps ==
    ASSUME IInv, NEW t \in Threads, NEW payload, NEW sig, NEW began,
           Finish(t, payload, sig, began),
           t \in Users => Fit(t, payload, sig, began),
           t \in Workers => run[t].pc # "idle",
           UNCHANGED <<adapter, doc, lapsed>>,
           queued' = queued \/ adapter = "sqs"
    PROVE  /\ RunTypes'
           /\ Honest' /\ Pool' /\ NoStaleServed' /\ TermsAreOwn'
<1>0. TypeOK /\ Honest /\ Pool /\ NoStaleServed /\ TermsAreOwn /\ Users \cap Workers = {}
  BY SummaryAssumption DEF IInv
<1>1. run' = [run EXCEPT ![t] = IdleRun]
  BY DEF Finish
<1>2. IdleRun.pc = "idle" /\ IdleRun \in [pc : {"idle", "begin", "select", "generate"},
         user : Users \cup {Nobody}, sig : Signatures, src : Sources, began : {"none"} \cup Gens]
  BY SummaryAssumption DEF IdleRun, RunAt, Sources
<1>3. run' \in [Threads -> [pc : {"idle", "begin", "select", "generate"},
         user : Users \cup {Nobody}, sig : Signatures, src : Sources, began : {"none"} \cup Gens]]
  BY <1>0, <1>1, <1>2 DEF TypeOK
<1>4. Honest'
  BY <1>0, <1>1, <1>2 DEF Honest, TypeOK, Threads
<1>5. \A w \in Workers, u \in Users : Busy(w, u)' => Busy(w, u) /\ w # t
  BY <1>0, <1>1, <1>2 DEF Busy, TypeOK, Threads
<1>6. CASE t \in Users
  <2>1. /\ t \notin Workers /\ UNCHANGED <<inflight, running>>
        /\ client' = [client EXCEPT ![t] = "answered"]
        /\ answer' = [answer EXCEPT ![t] = [payload |-> payload, sig |-> sig, began |-> began]]
    BY <1>0, <1>6 DEF Finish, Tell
  <2>2. Pool'
    BY <1>0, <1>5, <2>1 DEF Pool
  <2>3. /\ client' \in [Users -> {"idle", "waiting", "answered"}]
        /\ answer' \in [Users -> [payload : Payloads, sig : Signatures, began : {"none"} \cup Gens]]
        /\ inflight' \in [Users -> BOOLEAN] /\ running' \in [Users -> BOOLEAN]
    BY <1>0, <1>6, <2>1 DEF TypeOK, Fit
  <2>4. NoStaleServed' /\ TermsAreOwn'
    BY <1>0, <1>6, <2>1 DEF NoStaleServed, TermsAreOwn, TypeOK, Fit
  <2> QED
    BY <1>3, <1>4, <2>2, <2>3, <2>4 DEF RunTypes
<1>7. CASE t \in Workers
  <2>1. /\ t \notin Users /\ UNCHANGED <<client, answer>> /\ Release(run[t].user)
        /\ run[t].user \in Users
    BY <1>0, <1>7 DEF Finish, Honest
  <2>2. NoStaleServed' /\ TermsAreOwn'
    BY <1>0, <2>1 DEF NoStaleServed, TermsAreOwn
  <2>3. inflight' \in [Users -> BOOLEAN] /\ running' \in [Users -> BOOLEAN]
    BY <1>0, <2>1 DEF TypeOK, Release
  <2>4. Pool'
    <3> SUFFICES ASSUME adapter = "local", NEW u \in Users, ~lapsed[u]
                 PROVE  /\ queued[u] > 0 => queued[u] = 1 /\ inflight'[u]
                                              /\ \A w \in Workers : ~Busy(w, u)'
                        /\ \A w \in Workers : Busy(w, u)' => running'[u] = TRUE
                        /\ \A w1, w2 \in Workers : Busy(w1, u)' /\ Busy(w2, u)' => w1 = w2
      BY DEF Pool
    <3>1. /\ queued[u] > 0 => queued[u] = 1 /\ inflight[u] /\ \A w \in Workers : ~Busy(w, u)
          /\ \A w \in Workers : Busy(w, u) => running[u] = TRUE
          /\ \A w1, w2 \in Workers : Busy(w1, u) /\ Busy(w2, u) => w1 = w2
      BY <1>0 DEF Pool
    <3>2. /\ inflight' = [inflight EXCEPT ![run[t].user] = FALSE]
          /\ running' = [running EXCEPT ![run[t].user] = FALSE]
      BY <2>1 DEF Release
    <3>3. CASE u = run[t].user
      <4>1. Busy(t, u)
        BY <1>7, <3>3 DEF Busy
      <4>2. ~(queued[u] > 0) /\ \A w \in Workers : ~Busy(w, u)'
        BY <1>5, <1>7, <3>1, <4>1
      <4> QED
        BY <4>2
    <3>4. CASE u # run[t].user
      <4>1. inflight'[u] = inflight[u] /\ running'[u] = running[u]
        BY <1>0, <3>2, <3>4 DEF TypeOK
      <4> QED
        BY <1>5, <3>1, <4>1
    <3> QED
      BY <3>3, <3>4
  <2> QED
    BY <1>0, <1>3, <1>4, <2>1, <2>2, <2>3, <2>4 DEF TypeOK, RunTypes
<1> QED
  BY <1>6, <1>7 DEF Threads

-----------------------------------------------------------------------------
(* One lemma per action.                                                    *)

\* A step that touches no run, answer or store leaves most of the invariant alone.
LEMMA Quiet ==
    ASSUME IInv, TypeOK', UNCHANGED <<durable, run, answer>>,
           doc' = doc \/ doc' = "current"
    PROVE  Filed' /\ Honest' /\ NoStaleServed' /\ TermsAreOwn'
BY DEF IInv, Filed, Honest, NoStaleServed, TermsAreOwn

LEMMA AskKeeps ==
    ASSUME IInv, NEW u \in Users, Ask(u)
    PROVE  IInv'
<1>0. TypeOK
  BY DEF IInv
<1>1. [payload |-> Miss, sig |-> 0, began |-> "none"]
          \in [payload : Payloads, sig : Signatures, began : {"none"} \cup Gens]
      /\ Miss.kind = "none"
  BY NoticeType, SummaryAssumption
<1>2. answer' = [answer EXCEPT ![u] = [payload |-> Miss, sig |-> 0, began |-> "none"]]
  BY DEF Ask
<1>3. answer' \in [Users -> [payload : Payloads, sig : Signatures, began : {"none"} \cup Gens]]
  BY <1>0, <1>1, <1>2 DEF TypeOK
<1>4. TypeOK'
  BY <1>0, <1>3, SummaryAssumption DEF TypeOK, Ask
<1>5. Filed' /\ Honest'
  BY DEF IInv, Filed, Honest, Ask
<1>6. Pool'
  BY DEF IInv, Pool, Busy, Ask
<1>7. NoStaleServed' /\ TermsAreOwn'
  BY <1>0, <1>1, <1>2 DEF IInv, NoStaleServed, TermsAreOwn, TypeOK
<1> QED
  BY <1>4, <1>5, <1>6, <1>7 DEF IInv

LEMMA ResolveKeeps ==
    ASSUME IInv, NEW t \in Threads, Resolve(t)
    PROVE  IInv'
<1> DEFINE u == RunUser(t)
           sig == glossary[u]
           k == CacheKey(u, sig, "current")
<1>0. TypeOK /\ Filed /\ Honest /\ Pool
  BY DEF IInv
<1>1. u \in Users /\ (t \in Users => u = t) /\ Begins(t)
  BY <1>0 DEF Resolve, RunUser, Begins, Honest, Threads
<1>2. sig \in Signatures
  BY <1>0, <1>1 DEF TypeOK
<1>3. /\ UNCHANGED <<adapter, route, doc, glossary, transient, durable, queued, lapsed, degraded,
                     asks, edits>>
      /\ UNCHANGED faults \/ Fault
  BY DEF Resolve, Misses
<1>10. faults' \in 0..MaxFaults
  BY <1>0, <1>3, SummaryAssumption DEF Fault, TypeOK
<1>4. doc \in {"none"} \cup Gens /\ "current" \in Gens
  BY <1>0 DEF TypeOK, Gens
<1>5. t \in Workers => run[t].pc = "begin"
  BY <1>1, SummaryAssumption DEF Begins
<1>6. ASSUME NEW payload, Finish(t, payload, sig, doc), t \in Users => Fit(t, payload, sig, doc)
      PROVE  IInv'
  <2>1. /\ RunTypes'
        /\ Honest' /\ Pool' /\ NoStaleServed' /\ TermsAreOwn'
    BY <1>3, <1>5, <1>6, FinishKeeps
  <2>2. TypeOK'
    BY <1>0, <1>3, <1>10, <2>1 DEF TypeOK, RunTypes
  <2>3. Filed'
    BY <1>0, <1>3 DEF Filed
  <2> QED
    BY <2>1, <2>2, <2>3 DEF IInv
<1>7. CASE Get(k).kind # "none" /\ Finish(t, Get(k), sig, doc)
  <2>1. Fit(u, Get(k), sig, doc)
    BY <1>0, <1>1, <1>2, <1>4, GetFits
  <2> QED
    BY <1>1, <1>6, <1>7, <2>1
<1>8. CASE Finish(t, Notice("degraded"), sig, doc)
  <2>1. Fit(u, Notice("degraded"), sig, doc)
    BY <1>2, <1>4, NoticeType DEF Fit
  <2> QED
    BY <1>1, <1>6, <1>8, <2>1
<1>9. CASE /\ run' = [run EXCEPT ![t] =
                         RunAt("select", u, sig, "plain", IF t \in Users THEN doc ELSE "none")]
           /\ UNCHANGED <<client, answer, inflight, running>>
  <2>1. run' \in [Threads -> [pc : {"idle", "begin", "select", "generate"},
                            user : Users \cup {Nobody}, sig : Signatures, src : Sources,
                            began : {"none"} \cup Gens]]
    BY <1>0, <1>1, <1>2, <1>4, <1>9 DEF TypeOK, Sources, RunAt
  <2>2. TypeOK'
    BY <1>0, <1>3, <1>9, <1>10, <2>1 DEF TypeOK
  <2>3. Filed'
    BY <1>0, <1>3 DEF Filed
  <2>4. run'[t].pc = "select" /\ run'[t].user = u /\ run'[t].src = "plain"
        /\ (t \in Users => run'[t].began = doc) /\ \A x \in Threads \ {t} : run'[x] = run[x]
    BY <1>0, <1>9 DEF TypeOK, RunAt
  <2>5. Honest'
    BY <1>0, <1>1, <1>3, <2>4 DEF Honest, Threads
  <2>6. \A w \in Workers, x \in Users : Busy(w, x)' <=> Busy(w, x)
    <3> SUFFICES ASSUME NEW w \in Workers, NEW x \in Users
                 PROVE  Busy(w, x)' <=> Busy(w, x)
      OBVIOUS
    <3>1. CASE w = t
      <4>1. run[t].user = u
        BY <3>1, SummaryAssumption DEF RunUser
      <4> QED
        BY <1>5, <2>4, <3>1, <4>1 DEF Busy
    <3> QED
      BY <2>4, <3>1 DEF Busy, Threads
  <2>7. Pool'
    BY <1>0, <1>3, <1>9, <2>6 DEF Pool
  <2>8. NoStaleServed' /\ TermsAreOwn'
    BY <1>9 DEF IInv, NoStaleServed, TermsAreOwn
  <2> QED
    BY <2>2, <2>3, <2>5, <2>7, <2>8 DEF IInv
<1> HIDE DEF k, sig, u
<1> QED
  BY <1>7, <1>8, <1>9 DEF Resolve, k, sig, u

LEMMA DispatchKeeps ==
    ASSUME IInv, NEW t \in Threads, Dispatch(t)
    PROVE  IInv'
<1> DEFINE src == Select
<1> PICK found \in {SecondGet(t, src), Miss}, sent \in BOOLEAN :
        LET end == EarlyEnd(src, found) IN
        /\ IF found = SecondGet(t, src) /\ sent THEN UNCHANGED faults ELSE Fault
        /\ \/ /\ end.kind # "none" /\ sent
              /\ Finish(t, end, run[t].sig, run[t].began)
              /\ UNCHANGED queued
           \/ /\ end.kind = "none" /\ route[src] = "job" /\ t \in Users
              /\ Enqueue(t, sent)
              /\ run' = [run EXCEPT ![t] = IdleRun]
              /\ UNCHANGED <<client, answer, running>>
           \/ /\ end.kind = "none" /\ sent /\ (route[src] = "inline" \/ t \in Workers)
              /\ run' = [run EXCEPT ![t] =
                            RunAt("generate", run[t].user, run[t].sig, src, run[t].began)]
              /\ UNCHANGED <<client, answer, queued, inflight, running>>
  BY DEF Dispatch
<1> DEFINE end == EarlyEnd(src, found)
<1>0. TypeOK /\ Filed /\ Honest /\ Pool /\ Users \cap Workers = {}
  BY SummaryAssumption DEF IInv
<1>1. run[t].pc = "select" /\ run[t].user \in Users /\ (t \in Users => run[t].user = t)
  BY <1>0 DEF Dispatch, Honest
<1>2. UNCHANGED <<adapter, route, doc, glossary, transient, durable, lapsed, degraded, asks, edits>>
  BY DEF Dispatch
<1>3. src \in Sources /\ (src = "stale" => doc = "stale")
  BY <1>0 DEF Select, TypeOK, Sources, Gens
<1>4. run[t].sig \in Signatures /\ run[t].began \in {"none"} \cup Gens
  BY <1>0 DEF TypeOK
<1>9. faults' \in 0..MaxFaults
  BY <1>0, SummaryAssumption DEF Fault, TypeOK
<1>5. Filed'
  BY <1>0, <1>2 DEF Filed
<1>6. CASE Finish(t, end, run[t].sig, run[t].began) /\ UNCHANGED queued
  <2>1. ASSUME t \in Users
        PROVE  Fit(t, end, run[t].sig, run[t].began)
    <3>1. end \in {SecondGet(t, src), Notice("unavailable"), Abstain, Miss}
      BY DEF EarlyEnd
    <3>2. CASE end \in {Notice("unavailable"), Abstain, Miss}
      BY <1>4, <3>2, NoticeType DEF Fit
    <3>3. CASE src = "stale" /\ end = Get(CacheKey(t, run[t].sig, "stale"))
      <4>1. run[t].began # "current"
        BY <1>0, <1>1, <1>3, <2>1, <3>3 DEF Honest
      <4> QED
        BY <1>0, <1>4, <2>1, <3>3, <4>1, GetFits DEF Gens
    <3> QED
      BY <1>1, <2>1, <3>1, <3>2, <3>3 DEF SecondGet, RunKey, GenOf
  <2>2. RunTypes' /\ Honest' /\ Pool' /\ NoStaleServed' /\ TermsAreOwn'
    BY <1>1, <1>2, <1>6, <2>1, FinishKeeps
  <2>3. TypeOK'
    BY <1>0, <1>2, <1>6, <1>9, <2>2 DEF TypeOK, RunTypes
  <2> QED
    BY <1>5, <2>2, <2>3 DEF IInv
<1>7. CASE /\ t \in Users /\ Enqueue(t, sent)
           /\ run' = [run EXCEPT ![t] = IdleRun] /\ UNCHANGED <<client, answer, running>>
  <2>1. IdleRun.pc = "idle" /\ run' \in [Threads -> [pc : {"idle", "begin", "select", "generate"},
           user : Users \cup {Nobody}, sig : Signatures, src : Sources, began : {"none"} \cup Gens]]
    BY <1>0, <1>7, SummaryAssumption DEF TypeOK, IdleRun, RunAt, Sources
  <2>2. queued' \in [Users -> Nat] /\ inflight' \in [Users -> BOOLEAN]
    <3>1. CASE UNCHANGED <<queued, inflight>>
      BY <1>0, <3>1 DEF TypeOK
    <3>2. CASE queued' = [queued EXCEPT ![t] = @ + 1] /\ inflight' = [inflight EXCEPT ![t] = TRUE]
      BY <1>0, <1>7, <3>2 DEF TypeOK
    <3> QED
      BY <1>7, <3>1, <3>2 DEF Enqueue
  <2>3. TypeOK'
    BY <1>0, <1>2, <1>7, <1>9, <2>1, <2>2 DEF TypeOK
  <2>4. Honest'
    BY <1>0, <1>2, <1>7, <2>1 DEF Honest, TypeOK, Threads
  <2>5. \A w \in Workers, u \in Users : Busy(w, u)' <=> Busy(w, u)
    BY <1>0, <1>7 DEF Busy, TypeOK, Threads
  <2>6. Pool'
    <3> SUFFICES ASSUME adapter = "local", NEW u \in Users, ~lapsed[u]
                 PROVE  /\ queued'[u] > 0 => queued'[u] = 1 /\ inflight'[u]
                                              /\ \A w \in Workers : ~Busy(w, u)
                        /\ \A w \in Workers : Busy(w, u) => running[u] = TRUE
                        /\ \A w1, w2 \in Workers : Busy(w1, u) /\ Busy(w2, u) => w1 = w2
      BY <1>2, <1>7, <2>5 DEF Pool
    <3>1. /\ queued[u] > 0 => queued[u] = 1 /\ inflight[u] /\ \A w \in Workers : ~Busy(w, u)
          /\ \A w \in Workers : Busy(w, u) => running[u] = TRUE
          /\ \A w1, w2 \in Workers : Busy(w1, u) /\ Busy(w2, u) => w1 = w2
      BY <1>0 DEF Pool
    <3>2. CASE UNCHANGED <<queued, inflight>>
      BY <3>1, <3>2
    <3>3. CASE /\ ~Claimed(t) /\ queued' = [queued EXCEPT ![t] = @ + 1]
               /\ inflight' = [inflight EXCEPT ![t] = TRUE]
      <4>1. ~inflight[t] /\ ~running[t] /\ queued[t] \in Nat
        BY <1>0, <1>7, <3>3 DEF Claimed, TypeOK
      <4>2. CASE u = t
        <5>1. queued[u] = 0 /\ \A w \in Workers : ~Busy(w, u)
          BY <3>1, <4>1, <4>2
        <5>2. queued'[u] = 1 /\ inflight'[u] = TRUE
          BY <1>0, <1>7, <3>3, <4>2, <5>1 DEF TypeOK
        <5> QED
          BY <5>1, <5>2
      <4>3. CASE u # t
        <5>1. queued'[u] = queued[u] /\ inflight'[u] = inflight[u]
          BY <1>0, <3>3, <4>3 DEF TypeOK
        <5> QED
          BY <3>1, <5>1
      <4> QED
        BY <4>2, <4>3
    <3> QED
      BY <1>7, <3>2, <3>3 DEF Enqueue
  <2>7. NoStaleServed' /\ TermsAreOwn'
    BY <1>7 DEF IInv, NoStaleServed, TermsAreOwn
  <2> QED
    BY <1>5, <2>3, <2>4, <2>6, <2>7 DEF IInv
<1>8. CASE /\ run' = [run EXCEPT ![t] =
                         RunAt("generate", run[t].user, run[t].sig, src, run[t].began)]
           /\ UNCHANGED <<client, answer, queued, inflight, running>>
  <2>1. run' \in [Threads -> [pc : {"idle", "begin", "select", "generate"},
           user : Users \cup {Nobody}, sig : Signatures, src : Sources, began : {"none"} \cup Gens]]
    BY <1>0, <1>3, <1>8 DEF TypeOK, RunAt
  <2>2. TypeOK'
    BY <1>0, <1>2, <1>8, <1>9, <2>1 DEF TypeOK
  <2>3. /\ run'[t].pc = "generate" /\ run'[t].user = run[t].user /\ run'[t].src = src
        /\ run'[t].began = run[t].began /\ \A x \in Threads \ {t} : run'[x] = run[x]
    BY <1>0, <1>8 DEF TypeOK, RunAt
  <2>4. Honest'
    BY <1>0, <1>1, <1>2, <1>3, <2>3 DEF Honest, Threads
  <2>5. \A w \in Workers, u \in Users : Busy(w, u)' <=> Busy(w, u)
    BY <1>1, <2>3 DEF Busy, Threads
  <2>6. Pool'
    BY <1>0, <1>2, <1>8, <2>5 DEF Pool
  <2>7. NoStaleServed' /\ TermsAreOwn'
    BY <1>8 DEF IInv, NoStaleServed, TermsAreOwn
  <2> QED
    BY <1>5, <2>2, <2>4, <2>6, <2>7 DEF IInv
<1> HIDE DEF src, end
<1> QED
  BY <1>6, <1>7, <1>8 DEF end

LEMMA GenerateKeeps ==
    ASSUME IInv, NEW t \in Threads, Generate(t)
    PROVE  IInv'
<1> DEFINE made == Payload("result", run[t].src, run[t].sig, OwnerOf(run[t].user, run[t].sig))
           k == RunKey(t, run[t].src)
<1>0. TypeOK /\ Filed /\ Honest
  BY DEF IInv
<1>1. run[t].pc = "generate" /\ run[t].user \in Users /\ (t \in Users => run[t].user = t)
  BY <1>0 DEF Generate, Honest
<1>2. UNCHANGED <<adapter, route, doc, glossary, queued, lapsed, degraded, asks, edits, faults>>
  BY DEF Generate
<1>3. /\ run[t].sig \in Signatures /\ run[t].began \in {"none"} \cup Gens
      /\ run[t].src \in Sources /\ GenOf(run[t].src) \in Gens
  BY <1>0 DEF TypeOK, GenOf, Sources, Gens
<1>4. /\ k \in Keys /\ k.sig = run[t].sig /\ k.gen = GenOf(run[t].src)
      /\ k.owner = OwnerOf(run[t].user, run[t].sig) /\ k.owner \in Users \cup {Nobody}
  BY <1>1, <1>3, KeyType DEF RunKey
<1>5. /\ made \in Payloads /\ made.kind = "result" /\ made.src = run[t].src
      /\ made.sig = run[t].sig /\ made.owner = k.owner
  BY <1>3, <1>4 DEF Payload, Payloads
<1>6. t \in Users => Fit(t, made, run[t].sig, run[t].began)
  BY <1>0, <1>1, <1>3, <1>4, <1>5 DEF Fit, Honest
<1>7. Fit(t, Abstain, run[t].sig, run[t].began)
  BY <1>3, NoticeType DEF Fit
<1>8. transient' \subseteq Keys
  BY <1>0, <1>4 DEF Generate, PutTransient, TypeOK
<1> HIDE DEF made, k
<1>9. CASE durable' = [durable EXCEPT ![k] = made] /\ Finish(t, made, run[t].sig, run[t].began)
  <2>1. RunTypes' /\ Honest' /\ Pool' /\ NoStaleServed' /\ TermsAreOwn'
    BY <1>1, <1>2, <1>6, <1>9, FinishKeeps
  <2>2. durable' \in [Keys -> Payloads]
    BY <1>0, <1>4, <1>5, <1>9 DEF TypeOK
  <2>3. TypeOK'
    BY <1>0, <1>2, <1>8, <2>1, <2>2 DEF TypeOK, RunTypes
  <2>4. Filed'
    BY <1>0, <1>4, <1>5, <1>9 DEF Filed, TypeOK, GenOf
  <2> QED
    BY <2>1, <2>3, <2>4 DEF IInv
<1>10. CASE UNCHANGED durable /\ Finish(t, Abstain, run[t].sig, run[t].began)
  <2>1. RunTypes' /\ Honest' /\ Pool' /\ NoStaleServed' /\ TermsAreOwn'
    BY <1>1, <1>2, <1>7, <1>10, FinishKeeps
  <2>2. TypeOK'
    BY <1>0, <1>2, <1>8, <1>10, <2>1 DEF TypeOK, RunTypes
  <2>3. Filed'
    BY <1>0, <1>10 DEF Filed
  <2> QED
    BY <2>1, <2>2, <2>3 DEF IInv
<1> QED
  BY <1>9, <1>10 DEF Generate, made, k

\* A worker that starts a job of a user none of whose jobs is running.
LEMMA StartKeeps ==
    ASSUME IInv, NEW w \in Workers, NEW u \in Users, run[w].pc = "idle", Start(w, u),
           UNCHANGED <<doc, durable, answer>>
    PROVE  /\ run' \in [Threads -> [pc : {"idle", "begin", "select", "generate"},
                user : Users \cup {Nobody}, sig : Signatures, src : Sources,
                began : {"none"} \cup Gens]]
           /\ running' \in [Users -> BOOLEAN]
           /\ Filed' /\ Honest' /\ NoStaleServed' /\ TermsAreOwn'
           /\ \A x \in Workers, v \in Users : Busy(x, v)' <=> Busy(x, v) \/ (x = w /\ v = u)
<1>0. TypeOK /\ Filed /\ Honest /\ Users \cap Workers = {} /\ 0 \in Signatures
  BY SummaryAssumption DEF IInv
<1>1. run' = [run EXCEPT ![w] = RunAt("begin", u, 0, "plain", "none")]
  BY DEF Start
<1>2. /\ run' \in [Threads -> [pc : {"idle", "begin", "select", "generate"},
                user : Users \cup {Nobody}, sig : Signatures, src : Sources,
                began : {"none"} \cup Gens]]
      /\ run'[w].pc = "begin" /\ run'[w].user = u /\ \A x \in Threads \ {w} : run'[x] = run[x]
  BY <1>0, <1>1 DEF TypeOK, RunAt, Sources, Threads
<1>3. running' \in [Users -> BOOLEAN]
  BY <1>0 DEF Start, TypeOK
<1>4. Honest'
  BY <1>0, <1>2 DEF Honest, Threads
<1>5. \A x \in Workers, v \in Users : Busy(x, v)' <=> Busy(x, v) \/ (x = w /\ v = u)
  BY <1>2 DEF Busy, Threads
<1>6. Filed' /\ NoStaleServed' /\ TermsAreOwn'
  BY DEF IInv, Filed, NoStaleServed, TermsAreOwn
<1> QED
  BY <1>2, <1>3, <1>4, <1>5, <1>6

LEMMA TakeKeeps ==
    ASSUME IInv, NEW w \in Workers, NEW u \in Users, Take(w, u)
    PROVE  IInv'
<1>0. TypeOK /\ Pool /\ queued[u] \in Nat /\ queued[u] > 0 /\ run[w].pc = "idle"
  BY DEF IInv, TypeOK, Take, Ready
<1>1. /\ queued' = [queued EXCEPT ![u] = @ - 1] /\ Start(w, u)
      /\ UNCHANGED <<adapter, route, doc, glossary, transient, durable, client, answer,
                     inflight, lapsed, degraded, asks, edits, faults>>
  BY DEF Take
<1>2. /\ run' \in [Threads -> [pc : {"idle", "begin", "select", "generate"},
                user : Users \cup {Nobody}, sig : Signatures, src : Sources,
                began : {"none"} \cup Gens]]
      /\ running' \in [Users -> BOOLEAN]
      /\ Filed' /\ Honest' /\ NoStaleServed' /\ TermsAreOwn'
      /\ \A x \in Workers, v \in Users : Busy(x, v)' <=> Busy(x, v) \/ (x = w /\ v = u)
  BY <1>0, <1>1, StartKeeps
<1>3. queued[u] - 1 \in Nat
  BY <1>0
<1>4. queued' \in [Users -> Nat]
  BY <1>0, <1>1, <1>3 DEF TypeOK
<1>5. TypeOK'
  BY <1>0, <1>1, <1>2, <1>4 DEF TypeOK
<1>6. Pool'
  <2> SUFFICES ASSUME adapter = "local", NEW v \in Users, ~lapsed[v]
               PROVE  /\ queued'[v] > 0 => queued'[v] = 1 /\ inflight[v]
                                            /\ \A x \in Workers : ~Busy(x, v)'
                      /\ \A x \in Workers : Busy(x, v)' => running'[v] = TRUE
                      /\ \A x, y \in Workers : Busy(x, v)' /\ Busy(y, v)' => x = y
    BY <1>1 DEF Pool
  <2>1. /\ queued[v] > 0 => queued[v] = 1 /\ inflight[v] /\ \A x \in Workers : ~Busy(x, v)
        /\ \A x \in Workers : Busy(x, v) => running[v] = TRUE
        /\ \A x, y \in Workers : Busy(x, v) /\ Busy(y, v) => x = y
    BY <1>0 DEF Pool
  <2>2. running' = [running EXCEPT ![u] = TRUE]
    BY <1>1 DEF Start
  <2>3. CASE v = u
    <3>1. queued[v] = 1 /\ \A x \in Workers : ~Busy(x, v)
      BY <1>0, <2>1, <2>3
    <3>2. queued'[v] = 0 /\ running'[v] = TRUE
      BY <1>0, <1>1, <2>2, <2>3, <3>1 DEF TypeOK
    <3> QED
      BY <1>2, <2>3, <3>1, <3>2
  <2>4. CASE v # u
    <3>1. queued'[v] = queued[v] /\ running'[v] = running[v]
      BY <1>0, <1>1, <2>2, <2>4 DEF TypeOK
    <3> QED
      BY <1>2, <2>1, <2>4, <3>1
  <2> QED
    BY <2>3, <2>4
<1> QED
  BY <1>2, <1>5, <1>6 DEF IInv

LEMMA DeliverTwiceKeeps ==
    ASSUME IInv, NEW w \in Workers, NEW u \in Users, DeliverTwice(w, u)
    PROVE  IInv'
<1>0. TypeOK /\ run[w].pc = "idle" /\ adapter = "sqs" /\ Fault /\ Start(w, u)
  BY DEF IInv, DeliverTwice, Ready
<1>1. UNCHANGED <<adapter, route, doc, glossary, transient, durable, client, answer,
                  queued, inflight, lapsed, degraded, asks, edits>>
  BY DEF DeliverTwice
<1>2. /\ run' \in [Threads -> [pc : {"idle", "begin", "select", "generate"},
                user : Users \cup {Nobody}, sig : Signatures, src : Sources,
                began : {"none"} \cup Gens]]
      /\ running' \in [Users -> BOOLEAN]
      /\ Filed' /\ Honest' /\ NoStaleServed' /\ TermsAreOwn'
  BY <1>0, <1>1, StartKeeps
<1>3. faults' \in 0..MaxFaults
  BY <1>0, SummaryAssumption DEF Fault, TypeOK
<1>4. TypeOK'
  BY <1>0, <1>1, <1>2, <1>3 DEF TypeOK
<1>5. Pool'
  BY <1>0, <1>1 DEF Pool
<1> QED
  BY <1>2, <1>4, <1>5 DEF IInv

LEMMA ClaimLapsesKeeps ==
    ASSUME IInv, NEW u \in Users, ClaimLapses(u)
    PROVE  IInv'
<1>0. TypeOK /\ Pool
  BY DEF IInv
<1>1. /\ inflight' = [inflight EXCEPT ![u] = FALSE]
      /\ lapsed' = [lapsed EXCEPT ![u] = @ \/ (adapter = "local" /\ queued[u] > 0)]
      /\ UNCHANGED <<adapter, route, doc, glossary, transient, durable, run, client, answer,
                     queued, running, degraded, asks, edits, faults>>
  BY DEF ClaimLapses
<1>2. inflight' \in [Users -> BOOLEAN] /\ lapsed' \in [Users -> BOOLEAN]
  BY <1>0, <1>1 DEF TypeOK
<1>3. TypeOK'
  BY <1>0, <1>1, <1>2 DEF TypeOK
<1>4. Pool'
  <2> SUFFICES ASSUME adapter = "local", NEW v \in Users, ~lapsed'[v]
               PROVE  /\ queued[v] > 0 => queued[v] = 1 /\ inflight'[v]
                                           /\ \A w \in Workers : ~Busy(w, v)
                      /\ \A w \in Workers : Busy(w, v) => running[v] = TRUE
                      /\ \A x, y \in Workers : Busy(x, v) /\ Busy(y, v) => x = y
    BY <1>1 DEF Pool, Busy
  <2>1. ~lapsed[v] /\ (v = u => ~(queued[v] > 0)) /\ (v # u => inflight'[v] = inflight[v])
    BY <1>0, <1>1 DEF TypeOK
  <2> QED
    BY <1>0, <2>1 DEF Pool
<1> QED
  BY <1>1, <1>3, <1>4, Quiet DEF IInv

LEMMA SurroundingsKeep ==
    ASSUME IInv,
           \/ \E k \in Keys : AbstainExpires(k)
           \/ Build
           \/ \E u \in Users, sig \in Signatures : UpsertTerm(u, sig)
           \/ CostChanges
    PROVE  IInv'
<1>0. TypeOK /\ Pool
  BY DEF IInv
<1>1. UNCHANGED <<adapter, route, durable, run, client, answer, queued, inflight, running, lapsed,
                  asks>>
  BY DEF AbstainExpires, Build, UpsertTerm, CostChanges
<1>2. Fault => faults' \in 0..MaxFaults
  BY <1>0, SummaryAssumption DEF Fault, TypeOK
<1>3. TypeOK'
  <2>1. CASE \E k \in Keys : AbstainExpires(k)
    BY <1>0, <1>1, <1>2, <2>1 DEF AbstainExpires, TypeOK
  <2>2. CASE Build
    BY <1>0, <1>1, <2>2 DEF Build, TypeOK, Gens
  <2>3. CASE \E u \in Users, sig \in Signatures : UpsertTerm(u, sig)
    <3> PICK u \in Users, sig \in Signatures : UpsertTerm(u, sig)
      BY <2>3
    <3>1. glossary' \in [Users -> Signatures] /\ edits' \in 0..MaxEdits
      BY <1>0, SummaryAssumption DEF UpsertTerm, TypeOK
    <3> QED
      BY <1>0, <1>1, <3>1 DEF UpsertTerm, TypeOK
  <2>4. CASE CostChanges
    <3>1. degraded' \in BOOLEAN /\ faults' \in 0..MaxFaults
      BY <1>0, <1>2, <2>4 DEF CostChanges, TypeOK
    <3> QED
      BY <1>0, <1>1, <2>4, <3>1 DEF CostChanges, TypeOK
  <2> QED
    BY <2>1, <2>2, <2>3, <2>4
<1>4. doc' = doc \/ doc' = "current"
  BY DEF AbstainExpires, Build, UpsertTerm, CostChanges
<1>5. Pool'
  BY <1>0, <1>1 DEF Pool, Busy
<1> QED
  BY <1>1, <1>3, <1>4, <1>5, Quiet DEF IInv

LEMMA RaisesKeeps ==
    ASSUME IInv, NEW t \in Threads, Raises(t)
    PROVE  IInv'
<1>0. TypeOK /\ Filed /\ run[t].pc # "idle" /\ Fault /\ run[t].user \in Users
  BY DEF IInv, Raises, Honest
<1>1. /\ Finish(t, Notice("error"), run[t].sig, run[t].began)
      /\ UNCHANGED <<adapter, route, doc, glossary, transient, durable, lapsed, degraded, asks, edits>>
      /\ \/ adapter = "sqs" /\ queued' = [queued EXCEPT ![run[t].user] = @ + 1]
         \/ UNCHANGED queued
  BY DEF Raises
<1>2. Fit(t, Notice("error"), run[t].sig, run[t].began)
  BY <1>0, NoticeType DEF Fit, TypeOK
<1>3. RunTypes' /\ Honest' /\ Pool' /\ NoStaleServed' /\ TermsAreOwn'
  BY <1>0, <1>1, <1>2, FinishKeeps
<1>4. queued' \in [Users -> Nat]
  BY <1>0, <1>1 DEF TypeOK
<1>5. faults' \in 0..MaxFaults
  BY <1>0, SummaryAssumption DEF Fault, TypeOK
<1>6. TypeOK'
  BY <1>0, <1>1, <1>3, <1>4, <1>5 DEF TypeOK, RunTypes
<1>7. Filed'
  BY <1>0, <1>1 DEF Filed
<1> QED
  BY <1>3, <1>6, <1>7 DEF IInv

LEMMA RestartKeeps ==
    ASSUME IInv, Restart
    PROVE  IInv'
<1> DEFINE gone == IF adapter = "local" THEN Threads ELSE Users
<1>0. TypeOK /\ Filed /\ Honest
  BY DEF IInv
<1>1. /\ Fault /\ run' = [t \in Threads |-> IF t \in gone THEN IdleRun ELSE run[t]]
      /\ inflight' = [u \in Users |-> FALSE] /\ running' = [u \in Users |-> FALSE]
      /\ lapsed' = [u \in Users |-> FALSE]
      /\ queued' = IF adapter = "local" THEN [u \in Users |-> 0] ELSE queued
      /\ UNCHANGED <<adapter, route, doc, glossary, transient, durable, client, answer,
                     degraded, asks, edits>>
  BY DEF Restart
<1>2. IdleRun.pc = "idle" /\ IdleRun \in [pc : {"idle", "begin", "select", "generate"},
         user : Users \cup {Nobody}, sig : Signatures, src : Sources, began : {"none"} \cup Gens]
  BY SummaryAssumption DEF IdleRun, RunAt, Sources
<1>3. run' \in [Threads -> [pc : {"idle", "begin", "select", "generate"},
         user : Users \cup {Nobody}, sig : Signatures, src : Sources, began : {"none"} \cup Gens]]
  BY <1>0, <1>1, <1>2 DEF TypeOK
<1>4. faults' \in 0..MaxFaults /\ queued' \in [Users -> Nat]
  BY <1>0, <1>1, SummaryAssumption DEF Fault, TypeOK
<1>5. TypeOK'
  BY <1>0, <1>1, <1>3, <1>4 DEF TypeOK
<1>6. Filed' /\ NoStaleServed' /\ TermsAreOwn'
  BY <1>1 DEF IInv, Filed, NoStaleServed, TermsAreOwn
<1>7. Honest'
  BY <1>0, <1>1, <1>2 DEF Honest, Threads
<1>8. Pool'
  BY <1>1, <1>2 DEF Pool, Busy, Threads
<1> QED
  BY <1>5, <1>6, <1>7, <1>8 DEF IInv

-----------------------------------------------------------------------------
LEMMA InitIInv == Init => IInv
<1> SUFFICES ASSUME Init PROVE IInv
  OBVIOUS
<1>1. /\ Miss \in Payloads /\ Miss.kind = "none" /\ 0 \in Signatures
      /\ IdleRun.pc = "idle" /\ IdleRun \in [pc : {"idle", "begin", "select", "generate"},
         user : Users \cup {Nobody}, sig : Signatures, src : Sources, began : {"none"} \cup Gens]
  BY NoticeType, SummaryAssumption DEF IdleRun, RunAt, Sources
<1>2. TypeOK
  <2>1. durable \in [Keys -> Payloads] /\ transient \subseteq Keys
    BY <1>1 DEF Init
  <2>2. answer \in [Users -> [payload : Payloads, sig : Signatures, began : {"none"} \cup Gens]]
    BY <1>1 DEF Init
  <2>3. run \in [Threads -> [pc : {"idle", "begin", "select", "generate"},
         user : Users \cup {Nobody}, sig : Signatures, src : Sources, began : {"none"} \cup Gens]]
    BY <1>1 DEF Init
  <2>4. asks \in 0..MaxAsks /\ edits \in 0..MaxEdits /\ faults \in 0..MaxFaults
    BY SummaryAssumption DEF Init
  <2> QED
    BY <1>1, <2>1, <2>2, <2>3, <2>4 DEF Init, TypeOK, Gens
<1>3. Filed /\ Honest /\ Pool /\ NoStaleServed /\ TermsAreOwn
  BY <1>1 DEF Init, Filed, Honest, Pool, Busy, Threads, NoStaleServed, TermsAreOwn
<1> QED
  BY <1>2, <1>3 DEF IInv

LEMMA StutterKeeps ==
    ASSUME IInv, UNCHANGED vars
    PROVE  IInv'
<1>1. TypeOK'
  BY DEF IInv, TypeOK, vars
<1>2. Pool'
  BY DEF IInv, Pool, Busy, vars
<1> QED
  BY <1>1, <1>2, Quiet DEF IInv, vars

\* The inductive invariant of the summary jobs: types, what is filed under
\* which key, what a run has read, and the pool's claims.
THEOREM Invariance == Spec => []IInv
<1>1. ASSUME IInv, [Next]_vars
      PROVE  IInv'
  BY <1>1, AskKeeps, ResolveKeeps, DispatchKeeps, GenerateKeeps, TakeKeeps, ClaimLapsesKeeps,
     SurroundingsKeep, RaisesKeeps, DeliverTwiceKeeps, RestartKeeps, StutterKeeps DEF Next
<1> QED
  BY <1>1, InitIInv, PTL DEF Spec

\* The state keeps its types, the queue's counters included
\* (service/orchestrator.py, adapters/local_summary_job.py, worker.py).
THEOREM TypeCorrect == Spec => []TypeOK
<1>1. IInv => TypeOK
  BY DEF IInv
<1> QED
  BY <1>1, Invariance, PTL

\* No artifact of an older doc-model is served to a request that began after the
\* rebuild, for any number of users and workers (service/orchestrator.py: _source_doc_parser).
THEOREM StaleIsNeverServed == Spec => []NoStaleServed
<1>1. IInv => NoStaleServed
  BY DEF IInv
<1> QED
  BY <1>1, Invariance, PTL

\* Every user is served artifacts of the terms the request resolved, never those
\* of another user (domain/cache_key.py: build_cache_key).
THEOREM TermsNeverLeak == Spec => []TermsAreOwn
<1>1. IInv => TermsAreOwn
  BY DEF IInv
<1> QED
  BY <1>1, Invariance, PTL

\* Two threads of the pool never generate for one user at once unless a claim
\* ran out before its job started (adapters/local_summary_job.py: _running).
THEOREM PoolRunsOnce == Spec => []OneRunPerClaim
<1>1. IInv => OneRunPerClaim
  <2> SUFFICES ASSUME IInv, adapter = "local", NEW w1 \in Workers, NEW w2 \in Workers,
                      w1 # w2, run[w1].pc # "idle", run[w1].user = run[w2].user,
                      run[w2].pc # "idle", ~lapsed[run[w1].user]
               PROVE  FALSE
    BY DEF OneRunPerClaim
  <2>1. run[w1].user \in Users
    BY DEF IInv, Honest, Threads
  <2> QED
    BY <2>1 DEF IInv, Pool, Busy
<1> QED
  BY <1>1, Invariance, PTL
=============================================================================
