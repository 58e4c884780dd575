--------------------------- MODULE EvidenceTurns ---------------------------
(***************************************************************************)
(* The life of a turn of the evidence agent (U11).                         *)
(*                                                                         *)
(* API handlers (controller.py, service.py) accept a turn as a pending row,*)
(* commit, and hand a message to an executor; executors (worker.py,        *)
(* turn_control.py) receive messages at least once, run the loop with a    *)
(* heartbeat at every super-step boundary, and write the result with a     *)
(* conditional UPDATE.  A turn whose executor died is closed by whoever    *)
(* reads it next.  Every action is one committed transaction, or one call  *)
(* to the queue or to the checkpoint store.                                *)
(*                                                                         *)
(* A result is kept as the row's status column.  Time is kept as the age   *)
(* of a pending row's last sign of life, saturating at its limit, so that  *)
(* no bound on the clock is needed; heartbeat_at of a closed row is never  *)
(* read and not kept.                                                      *)
(***************************************************************************)
EXTENDS Naturals, FiniteSets

CONSTANTS
    Sessions, Turns,   \* ids the database hands out
    Clients,           \* API requests that may be in progress at once
    Executors,         \* worker processes
    NoSession, NoTurn, \* absent references
    StaleAfter,        \* ticks after which a heartbeat is stale
    UnpickedFactor,    \* _UNPICKED_STALE_FACTOR
    MaxFaults          \* bound: crashes and failed writes in a behaviour

ASSUME NoRef == NoSession \notin Sessions /\ NoTurn \notin Turns
ASSUME Limits == /\ StaleAfter \in Nat \ {0}
                 /\ UnpickedFactor \in Nat \ {0}
                 /\ MaxFaults \in Nat

VARIABLES
    session,  \* status of each evidence_sessions row
    home, status, cancel, \* evidence_turns: session_id, status, cancel_requested
    life,     \* evidence_turns: heartbeat_at, or created_at if it is null
    ckpt,     \* turns that have a checkpoint snapshot
    msg,      \* the queue: "unsent", "queued" (may be delivered again), "gone"
    api,      \* the request each client is in the middle of
    exec,     \* the job each executor is in the middle of
    faults    \* crashes and failed writes so far

rows == <<home, status, cancel, life>>
vars == <<session, home, status, cancel, life, ckpt, msg, api, exec, faults>>

Closed == {"ok", "abstain", "error"}
Results == {"none", "pending"} \cup Closed
MaxAge == StaleAfter * UnpickedFactor

TypeOK ==
    /\ session \in [Sessions -> {"none", "active", "deleted"}]
    /\ home \in [Turns -> Sessions \cup {NoSession}]
    /\ status \in [Turns -> Results]
    /\ cancel \in [Turns -> BOOLEAN]
    /\ life \in [Turns -> [picked : BOOLEAN, age : 0..MaxAge]]
    /\ ckpt \in SUBSET Turns
    /\ msg \in [Turns -> {"unsent", "queued", "gone"}]
    /\ api \in [Clients -> [pc : {"idle", "stale", "close", "add", "insert", "dispatch",
                                  "undo", "cancel", "drop"},
                            op : {"none", "accept", "read", "delete"},
                            session : Sessions \cup {NoSession},
                            turn : Turns \cup {NoTurn}, result : Results]]
    /\ exec \in [Executors -> [pc : {"idle", "start", "begin", "boundary", "work",
                                     "finish", "ack"},
                               turn : Turns \cup {NoTurn}, result : Results]]
    /\ faults \in 0..MaxFaults

Picked(n) == [picked |-> TRUE, age |-> n]
Unpicked(n) == [picked |-> FALSE, age |-> n]
IdleRequest == [pc |-> "idle", op |-> "none", session |-> NoSession,
                turn |-> NoTurn, result |-> "none"]
IdleJob == [pc |-> "idle", turn |-> NoTurn, result |-> "none"]

Init ==
    /\ session = [s \in Sessions |-> "none"]
    /\ home = [t \in Turns |-> NoSession]
    /\ status = [t \in Turns |-> "none"]
    /\ cancel = [t \in Turns |-> FALSE]
    /\ life = [t \in Turns |-> Unpicked(0)]
    /\ ckpt = {}
    /\ msg = [t \in Turns |-> "unsent"]
    /\ api = [c \in Clients |-> IdleRequest]
    /\ exec = [e \in Executors |-> IdleJob]
    /\ faults = 0

-----------------------------------------------------------------------------
(* The repository: conditional writes on one row.                          *)

Pending(t) == status[t] = "pending"
Free(s) == \A t \in Turns : home[t] = s => ~Pending(t)

\* mutant: only turns with a heartbeat can be stale
Stale_PickedOnly(t) == Pending(t) /\ life[t].picked /\ life[t].age >= StaleAfter

\* mutant: the UPDATE is not conditional on the row being pending
update_turn_result_Unconditional(t, r) ==
    /\ status' = [status EXCEPT ![t] = r]
    /\ UNCHANGED <<home, cancel, life>>

\* mutant: no partial unique index
add_turn_NoIndex(s, t) ==
    /\ status[t] = "none"
    /\ home' = [home EXCEPT ![t] = s]
    /\ status' = [status EXCEPT ![t] = "pending"]
    /\ UNCHANGED <<cancel, life>>

\* the age limit: of created_at until an executor has picked the turn up
Limit(t) == IF life[t].picked THEN StaleAfter ELSE MaxAge
Stale(t) == Pending(t) /\ life[t].age >= Limit(t)

update_turn_result(t, r) ==
    /\ status' = IF Pending(t) THEN [status EXCEPT ![t] = r] ELSE status
    /\ life' = IF Pending(t) THEN [life EXCEPT ![t] = Unpicked(0)] ELSE life
    /\ UNCHANGED <<home, cancel>>

heartbeat(t) ==
    /\ life' = IF Pending(t) THEN [life EXCEPT ![t] = Picked(0)] ELSE life
    /\ UNCHANGED <<home, status, cancel>>

\* INSERT under the partial unique index "one pending turn per session"
add_turn(s, t) ==
    /\ status[t] = "none"
    /\ Free(s)
    /\ home' = [home EXCEPT ![t] = s]
    /\ status' = [status EXCEPT ![t] = "pending"]
    /\ UNCHANGED <<cancel, life>>

-----------------------------------------------------------------------------
(* API handlers.                                                           *)

Request(c, op, pc, s, t, r) ==
    api' = [api EXCEPT ![c] = [pc |-> pc, op |-> op, session |-> s,
                               turn |-> t, result |-> r]]
Return(c) == api' = [api EXCEPT ![c] = IdleRequest]
Idle(c) == api[c].pc = "idle"

\* accept_turn without a session id: session and turn in one transaction
AcceptInNewSession(c, s, t) ==
    /\ Idle(c)
    /\ session[s] = "none"
    /\ session' = [session EXCEPT ![s] = "active"]
    /\ add_turn(s, t)
    /\ Request(c, "accept", "dispatch", s, t, "none")
    /\ UNCHANGED <<ckpt, msg, exec, faults>>

\* accept_turn in a session: the pre-check that also discovers orphans.
\* A session that is not active (404) and a live active turn (409) end here.
AcceptTurn(c, s) ==
    /\ Idle(c)
    /\ session[s] = "active"
    /\ \/ /\ Free(s)
          /\ Request(c, "accept", "add", s, NoTurn, "none")
       \/ \E t \in Turns :
            /\ home[t] = s
            /\ Stale(t)
            /\ Request(c, "accept", "stale", s, t, "none")
    /\ UNCHANGED <<session, rows, ckpt, msg, exec, faults>>

\* GET /turns/{id} and every poll of the event stream.  A turn that is not
\* stale is reported as it stands, which changes nothing.
GetTurn(c, t) ==
    /\ Idle(c)
    /\ Stale(t)
    /\ Request(c, "read", "stale", NoSession, t, "none")
    /\ UNCHANGED <<session, rows, ckpt, msg, exec, faults>>

\* POST /turns/{id}/cancel, up to the decision what the turn's state is
CancelTurn(c, t) ==
    /\ Idle(c)
    /\ Pending(t)
    /\ Request(c, "read", IF Stale(t) THEN "stale" ELSE "cancel", NoSession, t, "none")
    /\ UNCHANGED <<session, rows, ckpt, msg, exec, faults>>

\* finalize_if_stale, first half: the last snapshot becomes a partial answer
LoadCheckpoint(c) ==
    /\ api[c].pc = "stale"
    /\ \E r \in Closed :
         /\ r # "error" => api[c].turn \in ckpt
         /\ Request(c, api[c].op, "close", api[c].session, api[c].turn, r)
    /\ UNCHANGED <<session, rows, ckpt, msg, exec, faults>>

\* finalize_if_stale, second half: the conditional UPDATE, after which the
\* handler takes its own result for the stored one, whatever the UPDATE hit
CloseStale(c) ==
    LET t == api[c].turn IN
    /\ api[c].pc = "close"
    /\ update_turn_result(t, api[c].result)
    /\ IF api[c].op = "accept"
         THEN Request(c, "accept", "add", api[c].session, NoTurn, "none")
         ELSE Return(c)
    /\ UNCHANGED <<session, ckpt, msg, exec, faults>>

\* add_turn reads the session again; deleted meanwhile is a 404
CheckSession(c) ==
    /\ api[c].pc = "add"
    /\ IF session[api[c].session] = "active"
         THEN Request(c, "accept", "insert", api[c].session, NoTurn, "none")
         ELSE Return(c)
    /\ UNCHANGED <<session, rows, ckpt, msg, exec, faults>>

\* the INSERT and the commit, or SessionBusy from the unique index
InsertTurn(c, t) ==
    LET s == api[c].session IN
    /\ api[c].pc = "insert"
    /\ \/ /\ add_turn(s, t)
          /\ Request(c, "accept", "dispatch", s, t, "none")
       \/ /\ ~Free(s)
          /\ Return(c)
          /\ UNCHANGED rows
    /\ UNCHANGED <<session, ckpt, msg, exec, faults>>

\* dispatch after the commit; a send that raises may have reached the queue
Dispatch(c) ==
    LET t == api[c].turn
        Send == msg' = [msg EXCEPT ![t] = "queued"]
    IN
    /\ api[c].pc = "dispatch"
    /\ \/ Send /\ Return(c)
       \/ (Send \/ UNCHANGED msg) /\ Request(c, "accept", "undo", api[c].session, t, "none")
    /\ UNCHANGED <<session, rows, ckpt, exec, faults>>

DispatchFailed(c) ==
    /\ api[c].pc = "undo"
    /\ update_turn_result(api[c].turn, "error")
    /\ Return(c)
    /\ UNCHANGED <<session, ckpt, msg, exec, faults>>

\* request_cancel: the flag is set only while the row is still pending
RequestCancel(c) ==
    LET t == api[c].turn IN
    /\ api[c].pc = "cancel"
    /\ cancel' = IF Pending(t) THEN [cancel EXCEPT ![t] = TRUE] ELSE cancel
    /\ UNCHANGED <<home, status, life>>
    /\ Return(c)
    /\ UNCHANGED <<session, ckpt, msg, exec, faults>>

\* soft delete and commit, then the checkpoints of the session's turns
DeleteSession(c, s) ==
    /\ Idle(c)
    /\ session[s] = "active"
    /\ session' = [session EXCEPT ![s] = "deleted"]
    /\ Request(c, "delete", "drop", s, NoTurn, "none")
    /\ UNCHANGED <<rows, ckpt, msg, exec, faults>>

DropCheckpoints(c) ==
    /\ api[c].pc = "drop"
    /\ \/ ckpt' = {t \in ckpt : home[t] # api[c].session}
       \/ UNCHANGED ckpt    \* clean-up failed and was logged
    /\ Return(c)
    /\ UNCHANGED <<session, rows, msg, exec, faults>>

-----------------------------------------------------------------------------
(* Executors.                                                              *)

At(e, pc) == exec[e].pc = pc
Job(e, pc, t, r) == exec' = [exec EXCEPT ![e] = [pc |-> pc, turn |-> t, result |-> r]]
Goto(e, pc) == Job(e, pc, exec[e].turn, "none")
Done(e, r) == Job(e, "finish", exec[e].turn, r)
JobOver(e) == exec' = [exec EXCEPT ![e] = IdleJob]

\* SQS delivers a message until it is deleted, also while another executor works
\* on it, and _prepare_turn decides in one short transaction whether to run the
\* turn.  (Holding a received message for a while is receiving it later: if the
\* message is deleted meanwhile, the turn is closed and nothing happens.)
ReceiveAndPrepare(e, t) ==
    /\ At(e, "idle")
    /\ msg[t] = "queued"
    /\ \/ /\ session[home[t]] # "active"
          /\ update_turn_result(t, "error")
          /\ Job(e, "ack", t, "none")
       \/ /\ session[home[t]] = "active"
          /\ Job(e, IF Pending(t) THEN "start" ELSE "ack", t, "none")
          /\ UNCHANGED rows
    /\ UNCHANGED <<session, ckpt, msg, api, faults>>

\* process_job: a turn cancelled between acceptance and pick-up is not run.
\* A heartbeat that fails is read as "not cancelled" (here and below).
FirstHeartbeat(e) ==
    LET t == exec[e].turn IN
    /\ At(e, "start")
    /\ \/ /\ heartbeat(t)
          /\ IF cancel[t] THEN Done(e, "abstain") ELSE Goto(e, "begin")
          /\ UNCHANGED faults
       \/ /\ faults < MaxFaults
          /\ faults' = faults + 1
          /\ Goto(e, "begin")
          /\ UNCHANGED rows
    /\ UNCHANGED <<session, ckpt, msg, api>>

\* run_loop drops the thread's snapshot before it invokes the graph
BeginLoop(e) ==
    /\ At(e, "begin")
    /\ ckpt' = ckpt \ {exec[e].turn}
    /\ Goto(e, "boundary")
    /\ UNCHANGED <<session, rows, msg, api, faults>>

\* should_stop at a super-step boundary: cancellation comes before shutdown.
\* SIGTERM may have come at any moment; a process that got one finishes its job
\* and is replaced, which for the others is an executor that stays idle.  The
\* snapshot the graph saved on its way here (its input's, or that of the previous
\* super-step) is in the store by now.
Boundary(e) ==
    LET t == exec[e].turn
        Stop == Done(e, "ok") \/ Done(e, "abstain")    \* by the evidence at hand
        Continue == Stop \/ Goto(e, "work")
    IN
    /\ At(e, "boundary")
    /\ ckpt' = ckpt \cup {t}
    /\ \/ /\ heartbeat(t)
          /\ IF cancel[t] THEN Stop ELSE Continue
          /\ UNCHANGED faults
       \/ /\ faults < MaxFaults
          /\ faults' = faults + 1
          /\ Continue
          /\ UNCHANGED rows
    /\ UNCHANGED <<session, msg, api>>

\* a super-step after which the loop goes on
SuperStep(e) ==
    /\ At(e, "work")
    /\ Goto(e, "boundary")
    /\ UNCHANGED <<session, rows, ckpt, msg, api, faults>>

\* the super-step after which the loop ends (its budget bounds their number)
LastStep(e) ==
    /\ At(e, "work")
    /\ ckpt' = ckpt \cup {exec[e].turn}
    /\ Done(e, "ok") \/ Done(e, "abstain")
    /\ UNCHANGED <<session, rows, msg, api, faults>>

\* anything raised between the first heartbeat and the result
RunnerFails(e) ==
    /\ exec[e].pc \in {"begin", "boundary", "work"}
    /\ Done(e, "error")
    /\ UNCHANGED <<session, rows, ckpt, msg, api, faults>>

Finish(e) ==
    /\ At(e, "finish")
    /\ update_turn_result(exec[e].turn, exec[e].result)
    /\ Goto(e, "ack")
    /\ UNCHANGED <<session, ckpt, msg, api, faults>>

\* mutant: a job whose result could not be written is acknowledged
FinishFails_Acked(e) ==
    /\ At(e, "finish")
    /\ faults < MaxFaults
    /\ faults' = faults + 1
    /\ Goto(e, "ack")
    /\ UNCHANGED <<session, rows, ckpt, msg, api>>

\* a result that cannot be written leaves the message for redelivery
FinishFails(e) ==
    /\ At(e, "finish")
    /\ faults < MaxFaults
    /\ faults' = faults + 1
    /\ JobOver(e)
    /\ UNCHANGED <<session, rows, ckpt, msg, api>>

Ack(e) ==
    /\ At(e, "ack")
    /\ msg' = [msg EXCEPT ![exec[e].turn] = "gone"]
    /\ JobOver(e)
    /\ UNCHANGED <<session, rows, ckpt, api, faults>>

-----------------------------------------------------------------------------
(* The environment: time and crashes.                                      *)

Tick ==
    LET aging == {t \in Turns : Pending(t) /\ life[t].age < Limit(t)} IN
    /\ aging # {}
    /\ life' = [t \in Turns |->
                   IF t \in aging
                     THEN [picked |-> life[t].picked, age |-> life[t].age + 1]
                     ELSE life[t]]
    /\ UNCHANGED <<session, home, status, cancel, ckpt, msg, api, exec, faults>>

ExecutorDies(e) ==
    /\ ~At(e, "idle")
    /\ faults < MaxFaults
    /\ faults' = faults + 1
    /\ JobOver(e)
    /\ UNCHANGED <<session, rows, ckpt, msg, api>>

ClientDies(c) ==
    /\ ~Idle(c)
    /\ faults < MaxFaults
    /\ faults' = faults + 1
    /\ Return(c)
    /\ UNCHANGED <<session, rows, ckpt, msg, exec>>

-----------------------------------------------------------------------------
HandlerStep(c) ==
    \/ LoadCheckpoint(c) \/ CloseStale(c) \/ CheckSession(c)
    \/ \E t \in Turns : InsertTurn(c, t)
    \/ Dispatch(c) \/ DispatchFailed(c) \/ RequestCancel(c) \/ DropCheckpoints(c)

NewRequest(c) ==
    \/ \E s \in Sessions, t \in Turns : AcceptInNewSession(c, s, t)
    \/ \E s \in Sessions : AcceptTurn(c, s) \/ DeleteSession(c, s)
    \/ \E t \in Turns : GetTurn(c, t) \/ CancelTurn(c, t)

JobStep(e) ==
    \/ FirstHeartbeat(e) \/ BeginLoop(e) \/ Boundary(e)
    \/ SuperStep(e) \/ LastStep(e) \/ Finish(e) \/ Ack(e)

ExecutorEvent(e) ==
    \/ \E t \in Turns : ReceiveAndPrepare(e, t)
    \/ RunnerFails(e) \/ FinishFails(e)
    \/ ExecutorDies(e)

Next ==
    \/ \E c \in Clients : HandlerStep(c) \/ NewRequest(c) \/ ClientDies(c)
    \/ \E e \in Executors : JobStep(e) \/ ExecutorEvent(e)
    \/ Tick

Spec == Init /\ [][Next]_vars

(* A handler and a job that have started go on to their end unless the     *)
(* process dies (EvidenceLoop shows that the loop ends), time passes, and  *)
(* an unfinished turn keeps being polled (the event stream does so every   *)
(* poll_seconds while a client waits).                                     *)
Fairness ==
    /\ \A c \in Clients : WF_vars(HandlerStep(c))
    /\ \A e \in Executors : WF_vars(JobStep(e)) /\ SF_vars(LastStep(e))
    /\ \A t \in Turns : SF_vars(\E c \in Clients : GetTurn(c, t))
    /\ WF_vars(Tick)

FairSpec == Spec /\ Fairness

-----------------------------------------------------------------------------
(* Correctness.                                                            *)

\* A session never has two pending turns, although two API tasks may both pass
\* the pre-check of accept_turn: it is the session lock of the design (5.4).
OnePendingPerSession ==
    \A t, u \in Turns :
        Pending(t) /\ Pending(u) /\ home[t] = home[u] => t = u

\* A message is deleted from the queue only when its turn is closed: whatever
\* failed or was delivered twice, no acknowledged turn is left pending.
AckedIsClosed == \A t \in Turns : msg[t] = "gone" => status[t] \in Closed

\* The references that handlers, jobs and messages hold are to rows that exist,
\* and a job is acknowledged, or a result written, only with a closed outcome.
\* With TypeOK and the two invariants above it is inductive.
References ==
    /\ \A t \in Turns :
         /\ status[t] # "none" => home[t] \in Sessions
         /\ status[t] = "none" => msg[t] = "unsent"
    /\ \A c \in Clients :
         /\ api[c].pc \in {"stale", "close", "dispatch", "undo", "cancel"} =>
               api[c].turn \in Turns /\ status[api[c].turn] # "none"
         /\ api[c].pc = "close" => api[c].result \in Closed
         /\ api[c].pc \in {"add", "insert", "dispatch", "drop"} \/ api[c].op = "accept" =>
               api[c].session \in Sessions
    /\ \A e \in Executors :
         /\ exec[e].pc # "idle" =>
               exec[e].turn \in Turns /\ status[exec[e].turn] # "none"
         /\ exec[e].pc = "finish" => exec[e].result \in Closed
         /\ exec[e].pc = "ack" => status[exec[e].turn] \in Closed

Inv == TypeOK /\ References /\ OnePendingPerSession /\ AckedIsClosed

\* The first terminal result wins: two executors, a stale reader and a failed
\* dispatch may all write to one turn, and none overwrites another.
FirstResultStays ==
    [][\A t \in Turns : status[t] \in Closed => status'[t] = status[t]]_vars

\* The rows implement the abstract ledger: opened once, in a free session,
\* and closed once.
Ledger == INSTANCE TurnLedger WITH result <- status
LedgerSpec == Ledger!Spec

\* Not so in the code: finalize_if_stale returns True "if it closed the turn", and its caller then
\* shows the result it computed: that result is the stored one.
FinalizedIsStored ==
    [][\A c \in Clients :
         api[c].pc = "close" /\ CloseStale(c) => status'[api[c].turn] = api[c].result]_vars

\* An accepted turn does not stay pending forever, and so never locks its
\* session forever, whichever process died at whichever step.
EveryTurnCloses == \A t \in Turns : Pending(t) ~> status[t] \in Closed
=============================================================================
