-------------------------- MODULE TurnEventStream --------------------------
(***************************************************************************)
(* The event stream of one evidence turn.                                  *)
(*                                                                         *)
(* Executors append trace rows, each in a transaction of its own, and then *)
(* write the result (turn_control.py, loop._record).  The stream of        *)
(* GET /turns/{id}/events polls: it reads the turn's state first and the   *)
(* rows above its cursor second (READ COMMITTED: two snapshots), sends the *)
(* rows, and the result if the state was terminal (controller.py,          *)
(* streaming.py).  A client that loses the stream connects again with the  *)
(* last seq it received, and finally polls GET /turns/{id} (apiClient.ts,  *)
(* sse.ts).  The turn's message may be delivered to a second executor,     *)
(* whose rows are numbered from 1 again.                                   *)
(***************************************************************************)
EXTENDS Naturals

CONSTANTS
    Runs,            \* deliveries of the turn's message to an executor
    SlowRuns,        \* a live executor may miss its heartbeats long enough to look dead
    MaxSeq,          \* bound: tool calls a run records
    MaxConnects      \* EVIDENCE_STREAM_RETRIES

ASSUME SlowRunsType == SlowRuns \in BOOLEAN
ASSUME Bounds == MaxSeq \in Nat /\ MaxConnects \in Nat

VARIABLES
    pc, seq,                \* of each run: what it does, len(state.trace)
    trace,                  \* rows of evidence_trace
    closed,                 \* the turn's row is no longer pending
    spc, cursor,            \* the server's generator: its step, the last seq sent,
    terminal, rows,         \*   the state it read, the rows it read and has to send
    got, after,             \* the client: rows received, the last seq received,
    tries, outcome          \*   connections made, how it learned the result

executor == <<pc, seq, trace>>
server == <<spc, cursor, terminal, rows>>
browser == <<got, after, tries, outcome>>
vars == <<pc, seq, trace, closed, spc, cursor, terminal, rows,
          got, after, tries, outcome>>

Row == [run : Runs, seq : 1..MaxSeq]

TypeOK ==
    /\ pc \in [Runs -> {"idle", "run", "done", "lost", "dead"}]
    /\ seq \in [Runs -> 0..MaxSeq]
    /\ trace \in SUBSET Row
    /\ closed \in BOOLEAN
    /\ spc \in {"off", "state", "rows", "send"}
    /\ cursor \in 0..MaxSeq
    /\ terminal \in BOOLEAN
    /\ rows \in SUBSET Row
    /\ got \in SUBSET Row
    /\ after \in 0..MaxSeq
    /\ tries \in 0..MaxConnects
    /\ outcome \in {"none", "stream", "polled", "gave up"}

Init ==
    /\ pc = [r \in Runs |-> "idle"]
    /\ seq = [r \in Runs |-> 0]
    /\ trace = {}
    /\ closed = FALSE
    /\ spc = "off"
    /\ cursor = 0
    /\ terminal = FALSE
    /\ rows = {}
    /\ got = {}
    /\ after = 0
    /\ tries = 0
    /\ outcome = "none"

-----------------------------------------------------------------------------
(* Executors and stale readers.                                            *)

\* a delivery is run only if the turn is still pending
StartRun(r) ==
    /\ pc[r] = "idle"
    /\ ~closed
    /\ pc' = [pc EXCEPT ![r] = "run"]
    /\ UNCHANGED <<seq, trace, closed, server, browser>>

\* a tool call is recorded; a row that cannot be written is lost, not its number
Record(r) ==
    /\ pc[r] = "run"
    /\ seq[r] < MaxSeq
    /\ seq' = [seq EXCEPT ![r] = @ + 1]
    /\ \/ trace' = trace \cup {[run |-> r, seq |-> seq[r] + 1]}
       \/ UNCHANGED trace
    /\ UNCHANGED <<pc, closed, server, browser>>

\* the result, after the last row; the first one is stored
Finish(r) ==
    /\ pc[r] = "run"
    /\ pc' = [pc EXCEPT ![r] = IF closed THEN "lost" ELSE "done"]
    /\ closed' = TRUE
    /\ UNCHANGED <<seq, trace, server, browser>>

Die(r) ==
    /\ pc[r] = "run"
    /\ pc' = [pc EXCEPT ![r] = "dead"]
    /\ UNCHANGED <<seq, trace, closed, server, browser>>

\* some reader finds the turn's last sign of life too old and closes it
\* (EvidenceTurns has the steps)
CloseStale ==
    /\ ~closed
    /\ SlowRuns \/ \A r \in Runs : pc[r] # "run"
    /\ closed' = TRUE
    /\ UNCHANGED <<executor, server, browser>>

-----------------------------------------------------------------------------
(* The stream.                                                             *)

\* the client connects, again with the last seq it received
Connect ==
    /\ spc = "off" /\ outcome = "none"
    /\ tries < MaxConnects
    /\ tries' = tries + 1
    /\ spc' = "state" /\ cursor' = after /\ terminal' = FALSE /\ rows' = {}
    /\ UNCHANGED <<executor, closed, got, after, outcome>>

ReadState ==
    /\ spc = "state"
    /\ terminal' = closed
    /\ spc' = "rows"
    /\ UNCHANGED <<executor, closed, cursor, rows, browser>>

ReadRows ==
    /\ spc = "rows"
    /\ rows' = {w \in trace : w.seq > cursor}
    /\ spc' = "send"
    /\ UNCHANGED <<executor, closed, cursor, terminal, browser>>

\* mutant: the cursor stays where the connection began
SendRow_NoCursor ==
    /\ spc = "send"
    /\ \E w \in rows :
         /\ \A v \in rows : w.seq <= v.seq
         /\ rows' = rows \ {w}
         /\ got' = got \cup {w}
         /\ after' = IF w.seq > after THEN w.seq ELSE after
    /\ UNCHANGED <<executor, closed, spc, cursor, terminal, tries, outcome>>

\* one progress frame, in the order of seq; the client keeps the largest it saw
SendRow ==
    /\ spc = "send"
    /\ \E w \in rows :
         /\ \A v \in rows : w.seq <= v.seq
         /\ rows' = rows \ {w}
         /\ cursor' = IF w.seq > cursor THEN w.seq ELSE cursor
         /\ got' = got \cup {w}
         /\ after' = IF w.seq > after THEN w.seq ELSE after
    /\ UNCHANGED <<executor, closed, spc, terminal, tries, outcome>>

\* mutant: the result is sent when the turn is closed by now
SendResult_StateNow ==
    /\ spc = "send" /\ rows = {}
    /\ closed
    /\ spc' = "off"
    /\ outcome' = "stream"
    /\ UNCHANGED <<executor, closed, cursor, terminal, rows, got, after, tries>>

SendResult ==
    /\ spc = "send" /\ rows = {}
    /\ terminal
    /\ spc' = "off"
    /\ outcome' = "stream"
    /\ UNCHANGED <<executor, closed, cursor, terminal, rows, got, after, tries>>

PollAgain ==
    /\ spc = "send" /\ rows = {}
    /\ ~terminal
    /\ spc' = "state"
    /\ UNCHANGED <<executor, closed, cursor, terminal, rows, browser>>

\* the connection breaks, the server fails, or the stream's time is up
Drop ==
    /\ spc # "off"
    /\ spc' = "off"
    /\ UNCHANGED <<executor, closed, cursor, terminal, rows, browser>>

\* mutant: no fallback once the connections are used up
PollTurn_Missing == FALSE /\ UNCHANGED vars

\* the last resort: GET /turns/{id} until it is closed, or for 15 minutes
PollTurn ==
    /\ spc = "off" /\ outcome = "none"
    /\ tries = MaxConnects
    /\ outcome' = IF closed THEN "polled" ELSE "gave up"
    /\ UNCHANGED <<executor, closed, server, got, after, tries>>

-----------------------------------------------------------------------------
StreamStep == ReadState \/ ReadRows \/ SendRow \/ SendResult \/ PollAgain

Next ==
    \/ \E r \in Runs : StartRun(r) \/ Record(r) \/ Finish(r) \/ Die(r)
    \/ CloseStale
    \/ Connect \/ StreamStep \/ Drop \/ PollTurn

Spec == Init /\ [][Next]_vars

(* The generator and the client keep going.  Nothing is asked of executors *)
(* and stale readers: EvidenceTurns shows that every turn is closed.       *)
FairSpec == Spec /\ WF_vars(StreamStep) /\ WF_vars(Connect) /\ WF_vars(PollTurn)

-----------------------------------------------------------------------------
(* Correctness.                                                            *)

\* A client that was sent the result has been sent every progress row, however
\* often it reconnected and whatever was committed between the two reads of a
\* poll.  It holds while one run writes the turn's rows.
Complete == outcome = "stream" => trace \subseteq got

\* Not so in the code: "executors commit the trace before the result, so the rows read after a
\* terminal state are complete": a client that was sent the result has every row
\* of the run whose result it is.
RowsOfResult == outcome = "stream" => \A w \in trace : pc[w.run] = "done" => w \in got

\* A row is sent after the rows of all earlier calls and never twice, also
\* across reconnections.
FramesInOrder ==
    [][spc = "send" /\ spc' = "send" =>
         \A w \in rows \ rows' : \A v \in got : v.seq < w.seq]_vars

\* Once the turn is closed its reader learns of it, or had given up before.
ResultArrives == closed ~> outcome # "none"

-----------------------------------------------------------------------------
(* Why Complete holds for one run that is not taken for dead: rows are     *)
(* written in the order of seq and none after the turn is closed, so the   *)
(* cursor never passes a row that is still to come.                        *)

SeqBounds == \A w \in trace : w.seq <= seq[w.run]
ClosedIsQuiet == closed => \A r \in Runs : pc[r] # "run"
TerminalIsClosed == /\ spc \in {"rows", "send"} /\ terminal => closed
                    /\ outcome = "stream" => closed
CursorIsAfter == spc # "off" => cursor = after
NothingAhead == after = 0 \/ \E w \in trace : w.seq = after
GotIsBelow == \A w \in got : w.seq <= after
NothingSkipped == \A w \in trace : w.seq <= after => w \in got
ReadIsFresh == spc = "send" =>
    /\ rows \subseteq trace
    /\ \A w \in rows : w.seq > cursor
    /\ \A v \in trace : v.seq > cursor /\ v \notin rows =>
                          ~terminal /\ \A w \in rows : w.seq < v.seq

StreamInv ==
    /\ TypeOK /\ SeqBounds /\ ClosedIsQuiet /\ TerminalIsClosed /\ CursorIsAfter
    /\ NothingAhead /\ GotIsBelow /\ NothingSkipped /\ ReadIsFresh /\ Complete
=============================================================================
