----------------------------- MODULE AgentQuota -----------------------------
(***************************************************************************)
(* The daily quota of evidence turns of one user: enforce_evidence_turn_   *)
(* quota and refund_evidence_turn_quota (agent_quota.py) around the handler*)
(* POST /turns (controller.py), over the shared Redis counter of           *)
(* RedisRateLimiter (rate_limit.py).  Each action is one Redis command, or *)
(* one decision of the handler; requests of the user run concurrently in   *)
(* several API processes.  Every request is counted, also one that is then *)
(* denied with 429.                                                        *)
(***************************************************************************)
EXTENDS Integers, FiniteSets

CONSTANTS
    Requests,    \* POST /turns requests of the user
    Limit,       \* DOCSURI_AGENT_EVIDENCE_DAILY_LIMIT
    MaxFaults    \* bound: Redis commands that fail and processes that die

ASSUME QuotaBounds == IsFiniteSet(Requests) /\ Limit \in Nat \ {0} /\ MaxFaults \in Nat

VARIABLES
    exists, count, ttl,  \* the key ratelimit:agent:evidence:{user}: its value, has it a TTL
    at,                  \* of each request: its next step, or its outcome
    live,                \* requests charged since the key last expired and not refunded
    faults

key == <<exists, count, ttl>>
quotaVars == <<exists, count, ttl, at, live, faults>>

Outcomes == {"accepted", "denied", "refused", "refunded", "gone"}

QuotaTypeOK ==
    /\ exists \in BOOLEAN
    /\ count \in -Cardinality(Requests) .. Cardinality(Requests)
    /\ ttl \in BOOLEAN
    /\ at \in [Requests -> {"incr", "expire", "granted", "decr", "delete"} \cup Outcomes]
    /\ live \subseteq Requests
    /\ faults \in 0..MaxFaults
    /\ ttl => exists
    /\ ~exists => count = 0

QuotaInit ==
    /\ exists = FALSE
    /\ count = 0
    /\ ttl = FALSE
    /\ at = [q \in Requests |-> "incr"]
    /\ live = {}
    /\ faults = 0

Goto(q, step) == at' = [at EXCEPT ![q] = step]

-----------------------------------------------------------------------------
(* allow                                                                   *)

\* mutant: the window is opened only by the request that exhausts it
FirstUse_AtLimit(n) == n = Limit
FirstUse(n) == n = 1

\* INCR creates the key, without a TTL, if there is none
Incr(q) ==
    /\ at[q] = "incr"
    /\ exists' = TRUE
    /\ count' = count + 1
    /\ live' = live \cup {q}
    /\ Goto(q, IF FirstUse(count + 1) THEN "expire"
               ELSE IF count + 1 <= Limit THEN "granted" ELSE "denied")
    /\ UNCHANGED <<ttl, faults>>

\* EXPIRE does nothing to a key that is gone
SetExpiry(q) ==
    /\ at[q] = "expire"
    /\ ttl' = exists
    /\ Goto(q, "granted")
    /\ UNCHANGED <<exists, count, live, faults>>

\* the 24 h window of the first use ends
WindowExpires ==
    /\ ttl
    /\ exists' = FALSE /\ count' = 0 /\ ttl' = FALSE
    /\ live' = {}
    /\ UNCHANGED <<at, faults>>

-----------------------------------------------------------------------------
(* create_turn: what becomes of a granted request.                         *)

\* 202
Accept(q) ==
    /\ at[q] = "granted"
    /\ Goto(q, "accepted")
    /\ UNCHANGED <<key, live, faults>>

\* 409 busy session, 503 no executor or failed dispatch: the charge is returned
RefuseWithRefund(q) ==
    /\ at[q] = "granted"
    /\ Goto(q, "decr")
    /\ UNCHANGED <<key, live, faults>>

\* 422 malformed attachment, 404 unknown session: no refund
RefuseWithoutRefund(q) ==
    /\ at[q] = "granted"
    /\ Goto(q, "refused")
    /\ UNCHANGED <<key, live, faults>>

-----------------------------------------------------------------------------
(* refund                                                                  *)

\* mutant: the charge is returned by counting up
Decr_Up(q) ==
    /\ at[q] = "decr"
    /\ exists' = TRUE
    /\ count' = count + 1
    /\ live' = live \ {q}
    /\ Goto(q, "refunded")
    /\ UNCHANGED <<ttl, faults>>

\* DECR creates the key, without a TTL, if the window has expired meanwhile
Decr(q) ==
    /\ at[q] = "decr"
    /\ exists' = TRUE
    /\ count' = count - 1
    /\ live' = live \ {q}
    /\ Goto(q, IF count - 1 <= 0 THEN "delete" ELSE "refunded")
    /\ UNCHANGED <<ttl, faults>>

Delete(q) ==
    /\ at[q] = "delete"
    /\ exists' = FALSE /\ count' = 0 /\ ttl' = FALSE
    /\ Goto(q, "refunded")
    /\ UNCHANGED <<live, faults>>

-----------------------------------------------------------------------------
(* Faults.  A Redis command raises: either it had no effect, or it had and *)
(* its answer was lost (the socket times out after a second).  allow fails *)
(* open without going on to EXPIRE, refund swallows the failure without    *)
(* going on to DELETE.  Or the process dies between two commands.          *)

Fault == faults < MaxFaults /\ faults' = faults + 1

CommandRaises(q) ==
    /\ Fault
    /\ \/ at[q] \in {"incr", "expire"} /\ Goto(q, "granted")
       \/ at[q] \in {"decr", "delete"} /\ Goto(q, "refunded")
    /\ UNCHANGED <<key, live>>

AnswerLost(q) ==
    /\ Fault
    /\ \/ /\ at[q] = "incr"
          /\ exists' = TRUE /\ count' = count + 1
          /\ live' = live \cup {q}
          /\ Goto(q, "granted")
       \/ /\ at[q] = "decr"
          /\ exists' = TRUE /\ count' = count - 1
          /\ live' = live \ {q}
          /\ Goto(q, "refunded")
    /\ UNCHANGED ttl

ProcessDies(q) ==
    /\ Fault
    /\ at[q] \in {"expire", "granted", "decr", "delete"}
    /\ Goto(q, "gone")
    /\ UNCHANGED <<key, live>>

Fail(q) == CommandRaises(q) \/ AnswerLost(q) \/ ProcessDies(q)

-----------------------------------------------------------------------------
Step(q) ==
    \/ Incr(q) \/ SetExpiry(q)
    \/ Accept(q) \/ RefuseWithRefund(q) \/ RefuseWithoutRefund(q)
    \/ Decr(q) \/ Delete(q)

QuotaNext == WindowExpires \/ \E q \in Requests : Step(q) \/ Fail(q)

QuotaSpec == QuotaInit /\ [][QuotaNext]_quotaVars

\* Redis expires keys and a request that has begun goes on, unless it dies.
QuotaFairSpec ==
    /\ QuotaSpec
    /\ WF_quotaVars(WindowExpires)
    /\ \A q \in Requests : WF_quotaVars(at[q] # "incr" /\ Step(q))

-----------------------------------------------------------------------------
(* Correctness.                                                            *)

\* No race of requests and refunds costs the user more than the requests that
\* were charged in the window and not refunded.
NeverOvercharged == count <= Cardinality(live)

\* Not so in the code: "a fixed 24 h window from the first use", the counter does not outlive its
\* window, so nobody is denied forever.
WindowAlwaysEnds == exists ~> ~exists

\* As long as no command and no process fails, it does so: every key gets its TTL
\* or is deleted, whatever the order of INCR, EXPIRE, DECR, DELETE and the expiry
\* in concurrent requests.
WindowEnds == exists ~> (~exists \/ faults > 0)
=============================================================================
