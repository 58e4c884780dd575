------------------------ MODULE EvidenceTurnsProofs ------------------------
(***************************************************************************)
(* For every number of sessions, turns, API requests and executors: the    *)
(* turn rows of EvidenceTurns satisfy Inv, the first terminal result of a  *)
(* turn stays, and the rows implement TurnLedger.                          *)
(***************************************************************************)
EXTENDS EvidenceTurns, TLAPS

\* The saturating ages stay within the type.
LEMMA AgeLimits == MaxAge \in Nat /\ StaleAfter \in Nat /\ StaleAfter <= MaxAge
<1>1. /\ StaleAfter \in Nat /\ StaleAfter >= 1
      /\ UnpickedFactor \in Nat /\ UnpickedFactor >= 1
  BY Limits
<1>2. StaleAfter * UnpickedFactor \in Nat
  BY <1>1
<1>3. StaleAfter <= StaleAfter * UnpickedFactor
  BY <1>1, SMT
<1> QED
  BY <1>1, <1>2, <1>3 DEF MaxAge

\* A step that writes no row and no message keeps what relates rows to each other.
LEMMA RowsUnchanged ==
  ASSUME Inv, UNCHANGED <<rows, msg>>
  PROVE  OnePendingPerSession' /\ AckedIsClosed'
BY DEF Inv, OnePendingPerSession, AckedIsClosed, Pending, rows

\* no session, turn or message at the start
LEMMA InitInv == Init => Inv
BY NoRef, AgeLimits, Limits DEF Init, Inv, TypeOK, References, OnePendingPerSession,
     AckedIsClosed,
     Pending, IdleRequest, IdleJob, Unpicked, Closed, Results


\* _resolve_session: a session of its own, so no turn in it yet
LEMMA AcceptInNewSessionInv ==
  ASSUME Inv, NEW c \in Clients, NEW s \in Sessions, NEW t \in Turns, AcceptInNewSession(c, s, t)
  PROVE  Inv'
<1> USE NoRef, AgeLimits, Limits DEF Inv, rows, AcceptInNewSession, add_turn, Free,
     Pending, Request
<1>1. TypeOK'
  BY DEF TypeOK, References, Closed, Results
<1>2. References'
  BY DEF TypeOK, References, Closed, Results
<1>3. OnePendingPerSession'
  BY DEF TypeOK, References, OnePendingPerSession, Pending
<1>4. AckedIsClosed'
  BY DEF TypeOK, References, AckedIsClosed, Closed, Pending
<1> QED
  BY <1>1, <1>2, <1>3, <1>4

\* accept_turn: the pre-check reads, nothing is written
LEMMA AcceptTurnInv ==
  ASSUME Inv, NEW c \in Clients, NEW s \in Sessions, AcceptTurn(c, s)
  PROVE  Inv'
<1> USE NoRef, AgeLimits, Limits DEF Inv, rows
<1>1. TypeOK' /\ References'
  <2>1. CASE Free(s) /\ Request(c, "accept", "add", s, NoTurn, "none")
    <3>1. TypeOK'
      BY <2>1 DEF TypeOK, References, Closed, Results, AcceptTurn, Free, Stale, Pending,
           Request
    <3>2. References'
      BY <2>1 DEF TypeOK, References, Closed, Results, AcceptTurn, Free, Stale, Pending,
           Request
    <3> QED
      BY <3>1, <3>2
  <2>2. CASE \E t \in Turns : home[t] = s /\ Stale(t) /\ Request(c, "accept", "stale", s, t, "none")
    <3>1. TypeOK'
      BY <2>2 DEF TypeOK, References, Closed, Results, AcceptTurn, Free, Stale, Pending,
           Request
    <3>2. References'
      BY <2>2 DEF TypeOK, References, Closed, Results, AcceptTurn, Free, Stale, Pending,
           Request
    <3> QED
      BY <3>1, <3>2
  <2> QED
    BY <2>1, <2>2 DEF AcceptTurn
<1>3. OnePendingPerSession' /\ AckedIsClosed'
  BY RowsUnchanged DEF AcceptTurn
<1> QED
  BY <1>1, <1>3

\* GET /turns: reads the row it may have to close
LEMMA GetTurnInv ==
  ASSUME Inv, NEW c \in Clients, NEW t \in Turns, GetTurn(c, t)
  PROVE  Inv'
<1> USE NoRef, AgeLimits, Limits DEF Inv, rows, GetTurn, Stale, Pending, Request
<1>1. TypeOK'
  BY DEF TypeOK, References, Closed, Results
<1>2. References'
  BY DEF TypeOK, References, Closed, Results
<1>3. OnePendingPerSession' /\ AckedIsClosed'
  BY RowsUnchanged
<1> QED
  BY <1>1, <1>2, <1>3

\* POST /cancel: reads the row it may have to close or mark
LEMMA CancelTurnInv ==
  ASSUME Inv, NEW c \in Clients, NEW t \in Turns, CancelTurn(c, t)
  PROVE  Inv'
<1> USE NoRef, AgeLimits, Limits DEF Inv, rows, CancelTurn, Pending, Request
<1>1. TypeOK'
  BY DEF TypeOK, References, Closed, Results
<1>2. References'
  BY DEF TypeOK, References, Closed, Results
<1>3. OnePendingPerSession' /\ AckedIsClosed'
  BY RowsUnchanged
<1> QED
  BY <1>1, <1>2, <1>3

\* delete_session removes rows, so it cannot add a pending one
LEMMA DeleteSessionInv ==
  ASSUME Inv, NEW c \in Clients, NEW s \in Sessions, DeleteSession(c, s)
  PROVE  Inv'
<1> USE NoRef, AgeLimits, Limits DEF Inv, rows, DeleteSession, Request
<1>1. TypeOK'
  BY DEF TypeOK, References, Closed, Results
<1>2. References'
  BY DEF TypeOK, References, Closed, Results
<1>3. OnePendingPerSession' /\ AckedIsClosed'
  BY RowsUnchanged
<1> QED
  BY <1>1, <1>2, <1>3

\* finalize_if_stale reads the snapshot
LEMMA LoadCheckpointInv ==
  ASSUME Inv, NEW c \in Clients, LoadCheckpoint(c)
  PROVE  Inv'
<1> USE NoRef, AgeLimits, Limits DEF Inv, rows, LoadCheckpoint, Request
<1>1. TypeOK'
  BY DEF TypeOK, References, Closed, Results
<1>2. References'
  BY DEF TypeOK, References, Closed, Results
<1>3. OnePendingPerSession' /\ AckedIsClosed'
  BY RowsUnchanged
<1> QED
  BY <1>1, <1>2, <1>3

\* finalize_if_stale closes a pending row or hits none
LEMMA CloseStaleInv ==
  ASSUME Inv, NEW c \in Clients, CloseStale(c)
  PROVE  Inv'
<1> USE NoRef, AgeLimits, Limits DEF Inv, rows
<1>1. TypeOK' /\ References'
  <2>1. CASE api[c].op = "accept" /\ Request(c, "accept", "add", api[c].session, NoTurn, "none")
    <3>1. TypeOK'
      BY <2>1 DEF TypeOK, References, Closed, Results, CloseStale, update_turn_result,
           Unpicked, Pending, Request
    <3>2. References'
      BY <2>1 DEF TypeOK, References, Closed, Results, CloseStale, update_turn_result,
           Unpicked, Pending, Request
    <3> QED
      BY <3>1, <3>2
  <2>2. CASE api[c].op # "accept" /\ Return(c)
    <3>1. TypeOK'
      BY <2>2 DEF TypeOK, References, Closed, Results, CloseStale, update_turn_result,
           Unpicked, Pending, Return, IdleRequest
    <3>2. References'
      BY <2>2 DEF TypeOK, References, Closed, Results, CloseStale, update_turn_result,
           Unpicked, Pending, Return, IdleRequest
    <3> QED
      BY <3>1, <3>2
  <2> QED
    BY <2>1, <2>2 DEF CloseStale
<1>3. OnePendingPerSession'
  BY DEF CloseStale, update_turn_result, Unpicked, Request, Return, IdleRequest, TypeOK,
       References, OnePendingPerSession, Pending
<1>4. AckedIsClosed'
  BY DEF CloseStale, update_turn_result, Unpicked, Request, Return, IdleRequest, TypeOK,
       References, AckedIsClosed, Closed, Pending
<1> QED
  BY <1>1, <1>3, <1>4

\* add_turn looks its session up
LEMMA CheckSessionInv ==
  ASSUME Inv, NEW c \in Clients, CheckSession(c)
  PROVE  Inv'
<1> USE NoRef, AgeLimits, Limits DEF Inv, rows, CheckSession, Request, Return, IdleRequest
<1>1. TypeOK'
  BY DEF TypeOK, References, Closed, Results
<1>2. References'
  BY DEF TypeOK, References, Closed, Results
<1>3. OnePendingPerSession' /\ AckedIsClosed'
  BY RowsUnchanged
<1> QED
  BY <1>1, <1>2, <1>3

\* the partial unique index: the INSERT goes through only in a free session
LEMMA InsertTurnInv ==
  ASSUME Inv, NEW c \in Clients, NEW t \in Turns, InsertTurn(c, t)
  PROVE  Inv'
<1> USE NoRef, AgeLimits, Limits DEF Inv, rows
<1>1. TypeOK' /\ References'
  <2>1. CASE add_turn(api[c].session, t) /\ Request(c, "accept", "dispatch", api[c].session, t, "none")
    <3>1. TypeOK'
      BY <2>1 DEF TypeOK, References, Closed, Results, InsertTurn, add_turn, Free, Pending,
           Request
    <3>2. References'
      BY <2>1 DEF TypeOK, References, Closed, Results, InsertTurn, add_turn, Free, Pending,
           Request
    <3> QED
      BY <3>1, <3>2
  <2>2. CASE ~Free(api[c].session) /\ Return(c) /\ UNCHANGED rows
    <3>1. TypeOK'
      BY <2>2 DEF TypeOK, References, Closed, Results, InsertTurn, Pending, Return,
           IdleRequest
    <3>2. References'
      BY <2>2 DEF TypeOK, References, Closed, Results, InsertTurn, Pending, Return,
           IdleRequest
    <3> QED
      BY <3>1, <3>2
  <2> QED
    BY <2>1, <2>2 DEF InsertTurn
<1>3. OnePendingPerSession'
  BY DEF InsertTurn, add_turn, Free, Request, Return, IdleRequest, TypeOK, References,
       OnePendingPerSession, Pending
<1>4. AckedIsClosed'
  BY DEF InsertTurn, add_turn, Free, Request, Return, IdleRequest, TypeOK, References,
       AckedIsClosed, Closed, Pending
<1> QED
  BY <1>1, <1>3, <1>4

\* the message is sent, or dispatch raises and the row is closed next
LEMMA DispatchInv ==
  ASSUME Inv, NEW c \in Clients, Dispatch(c)
  PROVE  Inv'
<1> USE NoRef, AgeLimits, Limits DEF Inv, rows
<1>1. TypeOK' /\ References'
  <2>1. CASE msg' = [msg EXCEPT ![api[c].turn] = "queued"] /\ Return(c)
    <3>1. TypeOK'
      BY <2>1 DEF TypeOK, References, Closed, Results, Dispatch, Return, IdleRequest
    <3>2. References'
      BY <2>1 DEF TypeOK, References, Closed, Results, Dispatch, Return, IdleRequest
    <3> QED
      BY <3>1, <3>2
  <2>2. CASE /\ msg' = [msg EXCEPT ![api[c].turn] = "queued"]
               /\ Request(c, "accept", "undo", api[c].session, api[c].turn, "none")
    <3>1. TypeOK'
      BY <2>2 DEF TypeOK, References, Closed, Results, Dispatch, Request
    <3>2. References'
      BY <2>2 DEF TypeOK, References, Closed, Results, Dispatch, Request
    <3> QED
      BY <3>1, <3>2
  <2>3. CASE UNCHANGED msg /\ Request(c, "accept", "undo", api[c].session, api[c].turn, "none")
    <3>1. TypeOK'
      BY <2>3 DEF TypeOK, References, Closed, Results, Dispatch, Request
    <3>2. References'
      BY <2>3 DEF TypeOK, References, Closed, Results, Dispatch, Request
    <3> QED
      BY <3>1, <3>2
  <2> QED
    BY <2>1, <2>2, <2>3 DEF Dispatch
<1>3. OnePendingPerSession'
  BY DEF Dispatch, Request, Return, IdleRequest, TypeOK, References, OnePendingPerSession,
       Pending
<1>4. AckedIsClosed'
  BY DEF Dispatch, Request, Return, IdleRequest, TypeOK, References, AckedIsClosed, Closed,
       Pending
<1> QED
  BY <1>1, <1>3, <1>4

\* a failed dispatch closes its own turn
LEMMA DispatchFailedInv ==
  ASSUME Inv, NEW c \in Clients, DispatchFailed(c)
  PROVE  Inv'
<1> USE NoRef, AgeLimits, Limits DEF Inv, rows, DispatchFailed, update_turn_result,
     Unpicked, Pending, Return, IdleRequest
<1>1. TypeOK'
  BY DEF TypeOK, References, Closed, Results
<1>2. References'
  BY DEF TypeOK, References, Closed, Results
<1>3. OnePendingPerSession'
  BY DEF TypeOK, References, OnePendingPerSession, Pending
<1>4. AckedIsClosed'
  BY DEF TypeOK, References, AckedIsClosed, Closed, Pending
<1> QED
  BY <1>1, <1>2, <1>3, <1>4

\* cancel_requested alone changes
LEMMA RequestCancelInv ==
  ASSUME Inv, NEW c \in Clients, RequestCancel(c)
  PROVE  Inv'
<1> USE NoRef, AgeLimits, Limits DEF Inv, rows, RequestCancel, Pending, Return, IdleRequest
<1>1. TypeOK'
  BY DEF TypeOK, References, Closed, Results
<1>2. References'
  BY DEF TypeOK, References, Closed, Results
<1>3. OnePendingPerSession'
  BY DEF TypeOK, References, OnePendingPerSession, Pending
<1>4. AckedIsClosed'
  BY DEF TypeOK, References, AckedIsClosed, Closed, Pending
<1> QED
  BY <1>1, <1>2, <1>3, <1>4

\* snapshots are no part of what rows promise
LEMMA DropCheckpointsInv ==
  ASSUME Inv, NEW c \in Clients, DropCheckpoints(c)
  PROVE  Inv'
<1> USE NoRef, AgeLimits, Limits DEF Inv, rows, DropCheckpoints, Return, IdleRequest
<1>1. TypeOK'
  BY DEF TypeOK, References, Closed, Results
<1>2. References'
  BY DEF TypeOK, References, Closed, Results
<1>3. OnePendingPerSession' /\ AckedIsClosed'
  BY RowsUnchanged
<1> QED
  BY <1>1, <1>2, <1>3

\* an API process dies between two commits: the rows stay
LEMMA ClientDiesInv ==
  ASSUME Inv, NEW c \in Clients, ClientDies(c)
  PROVE  Inv'
<1> USE NoRef, AgeLimits, Limits DEF Inv, rows, ClientDies, Return, IdleRequest
<1>1. TypeOK'
  BY DEF TypeOK, References, Closed, Results
<1>2. References'
  BY DEF TypeOK, References, Closed, Results
<1>3. OnePendingPerSession' /\ AckedIsClosed'
  BY RowsUnchanged
<1> QED
  BY <1>1, <1>2, <1>3

\* _prepare_turn: a closed turn is acknowledged, a pending one is run
LEMMA ReceiveAndPrepareInv ==
  ASSUME Inv, NEW e \in Executors, NEW t \in Turns, ReceiveAndPrepare(e, t)
  PROVE  Inv'
<1> USE NoRef, AgeLimits, Limits DEF Inv, rows
<1>1. TypeOK' /\ References'
  <2>1. CASE session[home[t]] # "active" /\ update_turn_result(t, "error") /\ Job(e, "ack", t, "none")
    <3>1. TypeOK'
      BY <2>1 DEF TypeOK, References, Closed, Results, ReceiveAndPrepare, At, Job,
           update_turn_result, Unpicked, Pending
    <3>2. References'
      BY <2>1 DEF TypeOK, References, Closed, Results, ReceiveAndPrepare, At, Job,
           update_turn_result, Unpicked, Pending
    <3> QED
      BY <3>1, <3>2
  <2>2. CASE UNCHANGED rows /\ Job(e, IF Pending(t) THEN "start" ELSE "ack", t, "none")
    <3>1. TypeOK'
      BY <2>2 DEF TypeOK, References, Closed, Results, ReceiveAndPrepare, At, Job, Pending
    <3>2. References'
      BY <2>2 DEF TypeOK, References, Closed, Results, ReceiveAndPrepare, At, Job, Pending
    <3> QED
      BY <3>1, <3>2
  <2> QED
    BY <2>1, <2>2 DEF ReceiveAndPrepare
<1>3. OnePendingPerSession'
  BY DEF ReceiveAndPrepare, At, Job, update_turn_result, Unpicked, TypeOK, References,
       OnePendingPerSession, Pending
<1>4. AckedIsClosed'
  BY DEF ReceiveAndPrepare, At, Job, update_turn_result, Unpicked, TypeOK, References,
       AckedIsClosed, Closed, Pending
<1> QED
  BY <1>1, <1>3, <1>4

\* the first heartbeat touches a pending row alone
LEMMA FirstHeartbeatInv ==
  ASSUME Inv, NEW e \in Executors, FirstHeartbeat(e)
  PROVE  Inv'
<1> USE NoRef, AgeLimits, Limits DEF Inv, rows
<1>1. TypeOK' /\ References'
  <2>1. CASE cancel[exec[e].turn] /\ heartbeat(exec[e].turn) /\ Done(e, "abstain") /\ UNCHANGED faults
    <3>1. TypeOK'
      BY <2>1 DEF TypeOK, References, Closed, Results, FirstHeartbeat, At, Done, Job,
           heartbeat, Picked, Pending
    <3>2. References'
      BY <2>1 DEF TypeOK, References, Closed, Results, FirstHeartbeat, At, Done, Job,
           heartbeat, Picked, Pending
    <3> QED
      BY <3>1, <3>2
  <2>2. CASE heartbeat(exec[e].turn) /\ Goto(e, "begin") /\ UNCHANGED faults
    <3>1. TypeOK'
      BY <2>2 DEF TypeOK, References, Closed, Results, FirstHeartbeat, At, Goto, Job,
           heartbeat, Picked, Pending
    <3>2. References'
      BY <2>2 DEF TypeOK, References, Closed, Results, FirstHeartbeat, At, Goto, Job,
           heartbeat, Picked, Pending
    <3> QED
      BY <3>1, <3>2
  <2>3. CASE faults < MaxFaults /\ faults' = faults + 1 /\ Goto(e, "begin") /\ UNCHANGED rows
    <3>1. TypeOK'
      BY <2>3 DEF TypeOK, References, Closed, Results, FirstHeartbeat, At, Goto, Job,
           Pending
    <3>2. References'
      BY <2>3 DEF TypeOK, References, Closed, Results, FirstHeartbeat, At, Goto, Job,
           Pending
    <3> QED
      BY <3>1, <3>2
  <2> QED
    BY <2>1, <2>2, <2>3 DEF FirstHeartbeat
<1>3. OnePendingPerSession'
  BY DEF FirstHeartbeat, At, Goto, Done, Job, heartbeat, Picked, TypeOK, References,
       OnePendingPerSession, Pending
<1>4. AckedIsClosed'
  BY DEF FirstHeartbeat, At, Goto, Done, Job, heartbeat, Picked, TypeOK, References,
       AckedIsClosed, Closed, Pending
<1> QED
  BY <1>1, <1>3, <1>4

\* run_loop starts from an empty snapshot
LEMMA BeginLoopInv ==
  ASSUME Inv, NEW e \in Executors, BeginLoop(e)
  PROVE  Inv'
<1> USE NoRef, AgeLimits, Limits DEF Inv, rows, BeginLoop, At, Goto, Job
<1>1. TypeOK'
  BY DEF TypeOK, References, Closed, Results
<1>2. References'
  BY DEF TypeOK, References, Closed, Results
<1>3. OnePendingPerSession' /\ AckedIsClosed'
  BY RowsUnchanged
<1> QED
  BY <1>1, <1>2, <1>3

\* should_stop: heartbeat, cancel flag and shutdown between two super-steps
LEMMA BoundaryInv ==
  ASSUME Inv, NEW e \in Executors, Boundary(e)
  PROVE  Inv'
<1> USE NoRef, AgeLimits, Limits DEF Inv, rows
<1>1. TypeOK' /\ References'
  <2>1. CASE heartbeat(exec[e].turn) /\ Done(e, "ok") /\ UNCHANGED faults
    <3>1. TypeOK'
      BY <2>1 DEF TypeOK, References, Closed, Results, Boundary, At, Done, Job, heartbeat,
           Picked, Pending
    <3>2. References'
      BY <2>1 DEF TypeOK, References, Closed, Results, Boundary, At, Done, Job, heartbeat,
           Picked, Pending
    <3> QED
      BY <3>1, <3>2
  <2>2. CASE heartbeat(exec[e].turn) /\ Done(e, "abstain") /\ UNCHANGED faults
    <3>1. TypeOK'
      BY <2>2 DEF TypeOK, References, Closed, Results, Boundary, At, Done, Job, heartbeat,
           Picked, Pending
    <3>2. References'
      BY <2>2 DEF TypeOK, References, Closed, Results, Boundary, At, Done, Job, heartbeat,
           Picked, Pending
    <3> QED
      BY <3>1, <3>2
  <2>3. CASE heartbeat(exec[e].turn) /\ Goto(e, "work") /\ UNCHANGED faults
    <3>1. TypeOK'
      BY <2>3 DEF TypeOK, References, Closed, Results, Boundary, At, Goto, Job, heartbeat,
           Picked, Pending
    <3>2. References'
      BY <2>3 DEF TypeOK, References, Closed, Results, Boundary, At, Goto, Job, heartbeat,
           Picked, Pending
    <3> QED
      BY <3>1, <3>2
  <2>4. CASE faults < MaxFaults /\ faults' = faults + 1 /\ Done(e, "ok") /\ UNCHANGED rows
    <3>1. TypeOK'
      BY <2>4 DEF TypeOK, References, Closed, Results, Boundary, At, Done, Job, Pending
    <3>2. References'
      BY <2>4 DEF TypeOK, References, Closed, Results, Boundary, At, Done, Job, Pending
    <3> QED
      BY <3>1, <3>2
  <2>5. CASE faults < MaxFaults /\ faults' = faults + 1 /\ Done(e, "abstain") /\ UNCHANGED rows
    <3>1. TypeOK'
      BY <2>5 DEF TypeOK, References, Closed, Results, Boundary, At, Done, Job, Pending
    <3>2. References'
      BY <2>5 DEF TypeOK, References, Closed, Results, Boundary, At, Done, Job, Pending
    <3> QED
      BY <3>1, <3>2
  <2>6. CASE faults < MaxFaults /\ faults' = faults + 1 /\ Goto(e, "work") /\ UNCHANGED rows
    <3>1. TypeOK'
      BY <2>6 DEF TypeOK, References, Closed, Results, Boundary, At, Goto, Job, Pending
    <3>2. References'
      BY <2>6 DEF TypeOK, References, Closed, Results, Boundary, At, Goto, Job, Pending
    <3> QED
      BY <3>1, <3>2
  <2> QED
    BY <2>1, <2>2, <2>3, <2>4, <2>5, <2>6 DEF Boundary
<1>3. OnePendingPerSession'
  BY DEF Boundary, At, Goto, Done, Job, heartbeat, Picked, TypeOK, References,
       OnePendingPerSession, Pending
<1>4. AckedIsClosed'
  BY DEF Boundary, At, Goto, Done, Job, heartbeat, Picked, TypeOK, References,
       AckedIsClosed, Closed, Pending
<1> QED
  BY <1>1, <1>3, <1>4

\* a super-step writes its snapshot
LEMMA SuperStepInv ==
  ASSUME Inv, NEW e \in Executors, SuperStep(e)
  PROVE  Inv'
<1> USE NoRef, AgeLimits, Limits DEF Inv, rows, SuperStep, At, Goto, Job
<1>1. TypeOK'
  BY DEF TypeOK, References, Closed, Results
<1>2. References'
  BY DEF TypeOK, References, Closed, Results
<1>3. OnePendingPerSession' /\ AckedIsClosed'
  BY RowsUnchanged
<1> QED
  BY <1>1, <1>2, <1>3

\* the loop has its result, not yet stored
LEMMA LastStepInv ==
  ASSUME Inv, NEW e \in Executors, LastStep(e)
  PROVE  Inv'
<1> USE NoRef, AgeLimits, Limits DEF Inv, rows, LastStep, At, Done, Job
<1>1. TypeOK'
  BY DEF TypeOK, References, Closed, Results
<1>2. References'
  BY DEF TypeOK, References, Closed, Results
<1>3. OnePendingPerSession' /\ AckedIsClosed'
  BY RowsUnchanged
<1> QED
  BY <1>1, <1>2, <1>3

\* the runner raises: the result to store is the error
LEMMA RunnerFailsInv ==
  ASSUME Inv, NEW e \in Executors, RunnerFails(e)
  PROVE  Inv'
<1> USE NoRef, AgeLimits, Limits DEF Inv, rows, RunnerFails, Done, Job
<1>1. TypeOK'
  BY DEF TypeOK, References, Closed, Results
<1>2. References'
  BY DEF TypeOK, References, Closed, Results
<1>3. OnePendingPerSession' /\ AckedIsClosed'
  BY RowsUnchanged
<1> QED
  BY <1>1, <1>2, <1>3

\* finish: the conditional UPDATE, after which the turn is not pending
LEMMA FinishInv ==
  ASSUME Inv, NEW e \in Executors, Finish(e)
  PROVE  Inv'
<1> USE NoRef, AgeLimits, Limits DEF Inv, rows, Finish, At, Goto, Job, update_turn_result,
     Unpicked, Pending
<1>1. TypeOK'
  BY DEF TypeOK, References, Closed, Results
<1>2. References'
  BY DEF TypeOK, References, Closed, Results
<1>3. OnePendingPerSession'
  BY DEF TypeOK, References, OnePendingPerSession, Pending
<1>4. AckedIsClosed'
  BY DEF TypeOK, References, AckedIsClosed, Closed, Pending
<1> QED
  BY <1>1, <1>2, <1>3, <1>4

\* the UPDATE fails: the message stays for redelivery
LEMMA FinishFailsInv ==
  ASSUME Inv, NEW e \in Executors, FinishFails(e)
  PROVE  Inv'
<1> USE NoRef, AgeLimits, Limits DEF Inv, rows, FinishFails, At, JobOver, IdleJob
<1>1. TypeOK'
  BY DEF TypeOK, References, Closed, Results
<1>2. References'
  BY DEF TypeOK, References, Closed, Results
<1>3. OnePendingPerSession' /\ AckedIsClosed'
  BY RowsUnchanged
<1> QED
  BY <1>1, <1>2, <1>3

\* only a turn that is not pending is acknowledged
LEMMA AckInv ==
  ASSUME Inv, NEW e \in Executors, Ack(e)
  PROVE  Inv'
<1> USE NoRef, AgeLimits, Limits DEF Inv, rows, Ack, At, JobOver, IdleJob
<1>1. TypeOK'
  BY DEF TypeOK, References, Closed, Results
<1>2. References'
  BY DEF TypeOK, References, Closed, Results
<1>3. OnePendingPerSession'
  BY DEF TypeOK, References, OnePendingPerSession, Pending
<1>4. AckedIsClosed'
  BY DEF TypeOK, References, AckedIsClosed, Closed, Pending
<1> QED
  BY <1>1, <1>2, <1>3, <1>4

\* an executor dies: its message becomes visible again
LEMMA ExecutorDiesInv ==
  ASSUME Inv, NEW e \in Executors, ExecutorDies(e)
  PROVE  Inv'
<1> USE NoRef, AgeLimits, Limits DEF Inv, rows, ExecutorDies, At, JobOver, IdleJob
<1>1. TypeOK'
  BY DEF TypeOK, References, Closed, Results
<1>2. References'
  BY DEF TypeOK, References, Closed, Results
<1>3. OnePendingPerSession' /\ AckedIsClosed'
  BY RowsUnchanged
<1> QED
  BY <1>1, <1>2, <1>3

\* time passes: ages grow up to their cap
LEMMA TickInv ==
  ASSUME Inv, Tick
  PROVE  Inv'
<1> USE NoRef, AgeLimits DEF Inv, Tick
<1>1. TypeOK'
  <2>1. life' \in [Turns -> [picked : BOOLEAN, age : 0..MaxAge]]
    <3>1. ASSUME NEW t \in Turns, Pending(t), life[t].age < Limit(t)
          PROVE  [picked |-> life[t].picked, age |-> life[t].age + 1]
                   \in [picked : BOOLEAN, age : 0..MaxAge]
      BY <3>1 DEF TypeOK, Limit
    <3> QED
      BY <3>1 DEF TypeOK
  <2> QED
    BY <2>1 DEF TypeOK
<1>2. References'
  BY DEF References
<1>3. OnePendingPerSession' /\ AckedIsClosed'
  BY DEF OnePendingPerSession, AckedIsClosed, Pending
<1> QED
  BY <1>1, <1>2, <1>3

\* a step that changes nothing
LEMMA StutterInv ==
  ASSUME Inv, UNCHANGED vars
  PROVE  Inv'
BY DEF Inv, vars, TypeOK, References, OnePendingPerSession, AckedIsClosed, Pending

\* every step of API requests, executors and time
LEMMA NextInv == Inv /\ [Next]_vars => Inv'
<1> SUFFICES ASSUME Inv, [Next]_vars PROVE Inv'
  OBVIOUS
<1>1. ASSUME NEW c \in Clients, HandlerStep(c) PROVE Inv'
  BY <1>1, LoadCheckpointInv, CloseStaleInv, CheckSessionInv, InsertTurnInv, DispatchInv,
     DispatchFailedInv, RequestCancelInv, DropCheckpointsInv DEF HandlerStep
<1>2. ASSUME NEW c \in Clients, NewRequest(c) PROVE Inv'
  BY <1>2, AcceptInNewSessionInv, AcceptTurnInv, DeleteSessionInv, GetTurnInv, CancelTurnInv
     DEF NewRequest
<1>3. ASSUME NEW e \in Executors, JobStep(e) PROVE Inv'
  BY <1>3, FirstHeartbeatInv, BeginLoopInv, BoundaryInv, SuperStepInv, LastStepInv, FinishInv,
     AckInv DEF JobStep
<1>4. ASSUME NEW e \in Executors, ExecutorEvent(e) PROVE Inv'
  BY <1>4, ReceiveAndPrepareInv, RunnerFailsInv, FinishFailsInv, ExecutorDiesInv
     DEF ExecutorEvent
<1> QED
  BY <1>1, <1>2, <1>3, <1>4, ClientDiesInv, TickInv, StutterInv DEF Next

\* Type correctness, the session lock and the promise behind an acknowledgement
\* hold in every reachable state, for any number of processes.
THEOREM Invariance == Spec => []Inv
<1>1. Init => Inv
  BY InitInv
<1>2. Inv /\ [Next]_vars => Inv'
  BY NextInv
<1> QED
  BY <1>1, <1>2, PTL DEF Spec

\* Two API tasks never leave two pending turns in one session.
THEOREM SessionLock == Spec => []OnePendingPerSession
<1>1. Inv => OnePendingPerSession
  BY DEF Inv
<1> QED
  BY <1>1, Invariance, PTL

\* No message is deleted while its turn is pending.
THEOREM AckAfterClose == Spec => []AckedIsClosed
<1>1. Inv => AckedIsClosed
  BY DEF Inv
<1> QED
  BY <1>1, Invariance, PTL

\* Every variable of the turn protocol keeps its type, the messages of turns
\* included (repository.py, worker.py).
THEOREM TurnTypes == Spec => []TypeOK
<1>1. Inv => TypeOK
  BY DEF Inv
<1> QED
  BY <1>1, Invariance, PTL

\* Whatever is redelivered, deleted or dies, the rows that requests, executors and
\* messages refer to exist, and an executor writes or acknowledges only with a closed
\* outcome in hand (worker.py: process_job, run_worker).
THEOREM NothingDangles == Spec => []References
<1>1. Inv => References
  BY DEF Inv
<1> QED
  BY <1>1, Invariance, PTL

-----------------------------------------------------------------------------
(* The rows implement TurnLedger.                                          *)

\* The conditional UPDATE closes a pending turn or does nothing.
LEMMA UpdateIsClose ==
  ASSUME Inv, NEW t \in Turns, NEW r \in Closed, update_turn_result(t, r)
  PROVE  Ledger!Close(t) \/ UNCHANGED <<home, status>>
BY DEF update_turn_result, Pending, Ledger!Close, Closed, Ledger!Closed

\* The INSERT opens a turn in a free session.
LEMMA AddIsOpen ==
  ASSUME NEW s \in Sessions, NEW t \in Turns, add_turn(s, t)
  PROVE  Ledger!Open(s, t)
BY DEF add_turn, Free, Pending, Ledger!Open

\* What one step of the system does to the rows.
LEMMA StepIsLedgerStep ==
  ASSUME Inv, [Next]_vars
  PROVE  [Ledger!Next]_(Ledger!vars)
<1> USE DEF Ledger!Next, Ledger!vars
<1>1. CASE \E c \in Clients : HandlerStep(c)
  <2> PICK c \in Clients : HandlerStep(c)
    BY <1>1
  <2>1. CASE CloseStale(c)
    BY <2>1, UpdateIsClose DEF CloseStale, Inv, References
  <2>2. CASE DispatchFailed(c)
    BY <2>2, UpdateIsClose DEF DispatchFailed, Inv, References, Closed
  <2>3. CASE \E t \in Turns : InsertTurn(c, t)
    <3>1. PICK t \in Turns : InsertTurn(c, t)
      BY <2>3
    <3>2. api[c].session \in Sessions
      BY <3>1 DEF InsertTurn, Inv, References
    <3> QED
      BY <3>1, <3>2, AddIsOpen DEF InsertTurn, rows
  <2> QED
    BY <2>1, <2>2, <2>3 DEF HandlerStep, LoadCheckpoint, CheckSession, Dispatch,
       RequestCancel, DropCheckpoints, rows
<1>2. CASE \E c \in Clients : NewRequest(c)
  BY <1>2, AddIsOpen DEF NewRequest, AcceptInNewSession, AcceptTurn, DeleteSession, GetTurn,
     CancelTurn, rows
<1>3. CASE \E c \in Clients : ClientDies(c)
  BY <1>3 DEF ClientDies, rows
<1>4. CASE \E e \in Executors : JobStep(e)
  <2> PICK e \in Executors : JobStep(e)
    BY <1>4
  <2>1. CASE Finish(e)
    BY <2>1, UpdateIsClose DEF Finish, At, Inv, References
  <2> QED
    BY <2>1 DEF JobStep, FirstHeartbeat, BeginLoop, Boundary, SuperStep, LastStep, Ack,
       heartbeat, rows
<1>5. CASE \E e \in Executors : ExecutorEvent(e)
  <2>1. ASSUME NEW e \in Executors, NEW t \in Turns, ReceiveAndPrepare(e, t)
        PROVE  [Ledger!Next]_(Ledger!vars)
    BY <2>1, UpdateIsClose DEF ReceiveAndPrepare, Closed, rows
  <2> QED
    BY <1>5, <2>1 DEF ExecutorEvent, RunnerFails, FinishFails, ExecutorDies, rows
<1>6. CASE Tick \/ UNCHANGED vars
  BY <1>6 DEF Tick, vars
<1> QED
  BY <1>1, <1>2, <1>3, <1>4, <1>5, <1>6 DEF Next

\* Every behaviour of API handlers and executors, crashes and duplicate deliveries
\* included, is one of the ledger: a turn is opened once and closed once.
THEOREM Refinement == Spec => LedgerSpec
<1>1. Init => Ledger!Init
  BY DEF Init, Ledger!Init
<1>2. Inv /\ [Next]_vars => [Ledger!Next]_(Ledger!vars)
  BY StepIsLedgerStep
<1> QED
  BY <1>1, <1>2, Invariance, PTL DEF Spec, LedgerSpec, Ledger!Spec

\* The first terminal result of a turn is never overwritten.
THEOREM FirstResultWins == Spec => FirstResultStays
<1>1. ASSUME Inv, [Next]_vars, NEW t \in Turns, status[t] \in Closed
      PROVE  status'[t] = status[t]
  <2>1. [Ledger!Next]_(Ledger!vars)
    BY <1>1, StepIsLedgerStep
  <2> QED
    BY <1>1, <2>1 DEF Ledger!Next, Ledger!vars, Ledger!Open, Ledger!Close, Closed, Inv, TypeOK
<1>2. Inv /\ [Next]_vars =>
        [\A t \in Turns : status[t] \in Closed => status'[t] = status[t]]_vars
  BY <1>1
<1> QED
  BY <1>2, Invariance, PTL DEF Spec, FirstResultStays
=============================================================================
