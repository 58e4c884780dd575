----------------------- MODULE TurnEventStreamProofs -----------------------
(***************************************************************************)
(* The event stream is complete when one run writes the turn's rows and is *)
(* not taken for dead while it lives, for any number of tool calls and any *)
(* number of reconnections.  StreamInv of TurnEventStream is inductive     *)
(* under that hypothesis; TurnEventStream_redelivery shows that it is      *)
(* needed.                                                                 *)
(***************************************************************************)
EXTENDS TurnEventStream, TLAPS

\* the hypothesis: the turn's message is delivered once, to a healthy executor
OneHealthyRun == (\A r, q \in Runs : r = q) /\ ~SlowRuns

\* the types of TypeOK as the arithmetic below uses them
LEMMA Types ==
  ASSUME StreamInv
  PROVE  /\ seq \in [Runs -> 0..MaxSeq]
         /\ \A r \in Runs : seq[r] \in Nat
         /\ \A w \in trace : w \in Row /\ w.run \in Runs /\ w.seq \in 1..MaxSeq /\ w.seq \in Nat
         /\ cursor \in 0..MaxSeq /\ cursor \in Nat
         /\ after \in 0..MaxSeq /\ after \in Nat
         /\ tries \in 0..MaxConnects
         /\ \A w \in got : w.seq \in Nat
<1>1. /\ seq \in [Runs -> 0..MaxSeq] /\ trace \in SUBSET Row /\ got \in SUBSET Row
      /\ cursor \in 0..MaxSeq /\ after \in 0..MaxSeq /\ tries \in 0..MaxConnects
  BY Zenon DEF StreamInv, TypeOK
<1>2. \A w \in trace : w \in Row /\ w.run \in Runs /\ w.seq \in 1..MaxSeq
  BY <1>1 DEF Row
<1>3. \A w \in trace : w.seq \in Nat
  BY <1>2, Bounds
<1>4. cursor \in Nat /\ after \in Nat /\ \A r \in Runs : seq[r] \in Nat
  BY <1>1, Bounds
<1>5. \A w \in got : w.seq \in 1..MaxSeq
  BY <1>1 DEF Row
<1>6. \A w \in got : w.seq \in Nat
  BY <1>5, Bounds
<1> QED
  BY <1>1, <1>2, <1>3, <1>4, <1>6, Zenon

\* a new row is numbered above every row of the turn, and above the cursor
LEMMA NewRowIsLast ==
  ASSUME OneHealthyRun, StreamInv, NEW r \in Runs
  PROVE  /\ \A w \in trace : w.seq < seq[r] + 1
         /\ after < seq[r] + 1
<1>1. \A w \in trace : w.run \in Runs /\ w.seq \in Nat /\ w.run = r
  BY Types DEF OneHealthyRun
<1>2. seq[r] \in Nat /\ after \in Nat
  BY Types
<1>3. \A w \in trace : w.seq <= seq[r]
  BY <1>1 DEF StreamInv, SeqBounds
<1>4. \A w \in trace : w.seq < seq[r] + 1
  BY <1>1, <1>2, <1>3
<1>5. after < seq[r] + 1
  BY <1>2, <1>4 DEF StreamInv, NothingAhead
<1> QED
  BY <1>4, <1>5

\* nothing is written, read or sent
LEMMA InitStream == OneHealthyRun /\ Init => StreamInv
<1> SUFFICES ASSUME Init PROVE StreamInv
  OBVIOUS
<1>1. TypeOK
  <2>1. seq \in [Runs -> 0..MaxSeq] /\ 0 \in 0..MaxSeq /\ 0 \in 0..MaxConnects
    BY Bounds DEF Init
  <2>2. pc \in [Runs -> {"idle", "run", "done", "lost", "dead"}]
    BY DEF Init
  <2> QED
    BY <2>1, <2>2, Zenon DEF Init, TypeOK
<1>2. SeqBounds /\ ClosedIsQuiet /\ TerminalIsClosed /\ CursorIsAfter /\ Complete
  BY DEF Init, SeqBounds, ClosedIsQuiet, TerminalIsClosed, CursorIsAfter, Complete
<1>3. NothingAhead /\ GotIsBelow /\ NothingSkipped /\ ReadIsFresh
  BY DEF Init, NothingAhead, GotIsBelow, NothingSkipped, ReadIsFresh
<1> QED
  BY <1>1, <1>2, <1>3 DEF StreamInv

\* a step of an executor or a stale reader that writes no row
LEMMA ExecutorStream ==
  ASSUME OneHealthyRun, StreamInv,
         CloseStale \/ \E r \in Runs : StartRun(r) \/ Finish(r) \/ Die(r)
  PROVE  StreamInv'
<1>0. /\ UNCHANGED <<seq, trace, spc, cursor, terminal, rows, got, after, tries, outcome>>
      /\ closed => closed'
      /\ closed' \in BOOLEAN
      /\ pc' \in [Runs -> {"idle", "run", "done", "lost", "dead"}]
  BY DEF StreamInv, TypeOK, CloseStale, StartRun, Finish, Die, executor, server, browser
<1>1. TypeOK'
  BY <1>0 DEF StreamInv, TypeOK
<1>2. ClosedIsQuiet'
  <2>1. CASE CloseStale
    BY <2>1 DEF CloseStale, OneHealthyRun, ClosedIsQuiet, executor
  <2>2. CASE \E r \in Runs : StartRun(r) \/ Finish(r) \/ Die(r)
    <3>1. PICK r \in Runs : StartRun(r) \/ Finish(r) \/ Die(r)
      BY <2>2
    <3>2. \A q \in Runs : q = r
      BY DEF OneHealthyRun
    <3> QED
      BY <3>1, <3>2 DEF StreamInv, TypeOK, ClosedIsQuiet, StartRun, Finish, Die
  <2> QED
    BY <2>1, <2>2
<1>3. (SeqBounds /\ TerminalIsClosed /\ CursorIsAfter /\ Complete)'
  BY <1>0 DEF StreamInv, SeqBounds, TerminalIsClosed, CursorIsAfter, Complete
<1>4. (NothingAhead /\ GotIsBelow /\ NothingSkipped /\ ReadIsFresh)'
  BY <1>0 DEF StreamInv, NothingAhead, GotIsBelow, NothingSkipped, ReadIsFresh
<1> QED
  BY <1>1, <1>2, <1>3, <1>4 DEF StreamInv

\* a tool call is recorded: its row is above everything read or sent so far
LEMMA RecordStream ==
  ASSUME OneHealthyRun, StreamInv, NEW r \in Runs, Record(r)
  PROVE  StreamInv'
<1> DEFINE new == [run |-> r, seq |-> seq[r] + 1]
<1>1. /\ UNCHANGED <<pc, closed, spc, cursor, terminal, rows, got, after, tries, outcome>>
      /\ trace' \subseteq trace \cup {new} /\ trace \subseteq trace'
      /\ seq' = [seq EXCEPT ![r] = seq[r] + 1]
      /\ seq[r] < MaxSeq /\ pc[r] = "run"
  BY DEF Record, server, browser
<1>2. seq[r] \in Nat /\ seq[r] + 1 \in 1..MaxSeq /\ seq[r] + 1 \in 0..MaxSeq
  BY <1>1, Types, Bounds
<1>3. ~closed
  BY <1>1 DEF StreamInv, ClosedIsQuiet
<1>4. /\ \A w \in trace : w.seq < seq[r] + 1
      /\ after < seq[r] + 1
  BY NewRowIsLast
<1>5. new \in Row /\ new.run = r /\ new.seq = seq[r] + 1
  BY <1>2 DEF Row
<1>6. seq' \in [Runs -> 0..MaxSeq]
  BY <1>1, <1>2, Types
<1>7. TypeOK'
  <2>1. trace' \in SUBSET Row
    BY <1>1, <1>5, Types
  <2> QED
    BY <1>1, <1>6, <2>1, Zenon DEF StreamInv, TypeOK
<1>8. SeqBounds'
  <2>1. ASSUME NEW w \in trace' PROVE w.seq <= seq'[w.run]
    <3>1. CASE w = new
      <4>1. w.run = r /\ w.seq = seq[r] + 1
        BY <3>1, <1>5
      <4>2. seq'[r] = seq[r] + 1
        BY <1>1, Types
      <4> QED
        BY <4>1, <4>2, <1>2
    <3>2. CASE w \in trace
      <4>1. w.run \in Runs /\ w.seq \in Nat /\ w.run = r
        BY <3>2, Types DEF OneHealthyRun
      <4>2. seq'[r] = seq[r] + 1
        BY <1>1, Types
      <4> QED
        BY <4>1, <4>2, <3>2, <1>2, <1>4
    <3> QED
      BY <3>1, <3>2, <1>1
  <2> QED
    BY <2>1 DEF SeqBounds
<1>9. (ClosedIsQuiet /\ TerminalIsClosed /\ CursorIsAfter /\ Complete)'
  BY <1>1, <1>3 DEF StreamInv, ClosedIsQuiet, TerminalIsClosed, CursorIsAfter, Complete
<1>10. NothingAhead' /\ GotIsBelow'
  BY <1>1 DEF StreamInv, NothingAhead, GotIsBelow
<1>11. NothingSkipped'
  <2>1. after \in Nat
    BY Types
  <2>2. ~(new.seq <= after)
    BY <2>1, <1>2, <1>4, <1>5
  <2> QED
    BY <1>1, <2>2 DEF StreamInv, NothingSkipped
<1>12. ReadIsFresh'
  <2>1. SUFFICES ASSUME spc = "send"
                 PROVE  /\ rows \subseteq trace'
                        /\ \A w \in rows : w.seq > cursor
                        /\ \A v \in trace' : v.seq > cursor /\ v \notin rows =>
                                 ~terminal /\ \A w \in rows : w.seq < v.seq
    BY <1>1 DEF ReadIsFresh
  <2>2. /\ rows \subseteq trace
        /\ \A w \in rows : w.seq > cursor
        /\ \A v \in trace : v.seq > cursor /\ v \notin rows =>
                 ~terminal /\ \A w \in rows : w.seq < v.seq
    BY <2>1 DEF StreamInv, ReadIsFresh
  <2>3. ~terminal
    BY <2>1, <1>3 DEF StreamInv, TerminalIsClosed
  <2>4. \A w \in rows : w.seq < new.seq
    BY <2>2, <1>4, <1>5
  <2> QED
    BY <2>2, <2>3, <2>4, <1>1
<1> QED
  BY <1>7, <1>8, <1>9, <1>10, <1>11, <1>12 DEF StreamInv

\* one frame: the least row read and not sent is the next row of the turn
LEMMA SendRowStream ==
  ASSUME OneHealthyRun, StreamInv, SendRow
  PROVE  StreamInv'
<1>1. PICK w \in rows :
        /\ \A v \in rows : w.seq <= v.seq
        /\ rows' = rows \ {w}
        /\ cursor' = (IF w.seq > cursor THEN w.seq ELSE cursor)
        /\ got' = got \cup {w}
        /\ after' = (IF w.seq > after THEN w.seq ELSE after)
  BY DEF SendRow
<1>2. /\ UNCHANGED <<pc, seq, trace, closed, spc, terminal, tries, outcome>>
      /\ spc = "send"
  BY DEF SendRow, executor
<1>3. /\ rows \subseteq trace
      /\ \A x \in rows : x.seq > cursor
      /\ \A v \in trace : v.seq > cursor /\ v \notin rows =>
               ~terminal /\ \A x \in rows : x.seq < v.seq
  BY <1>2 DEF StreamInv, ReadIsFresh
<1>4. cursor' = w.seq /\ after' = w.seq
  BY <1>1, <1>2, <1>3 DEF StreamInv, CursorIsAfter
<1>5. \A v \in trace : v \in Row /\ v.seq \in 1..MaxSeq /\ v.seq \in Nat
  BY Types
<1>6. w \in trace /\ w \in Row /\ w.seq \in 1..MaxSeq /\ w.seq \in Nat
  BY <1>1, <1>3, <1>5
<1>7. \A v \in trace : v.seq = w.seq => v = w
  <2>1. ASSUME NEW v \in trace, v.seq = w.seq PROVE v = w
    <3>1. v \in Row /\ w \in Row
      BY <1>5, <1>6
    <3>2. v.run = w.run
      BY <3>1 DEF OneHealthyRun, Row
    <3> QED
      BY <3>1, <3>2, <2>1 DEF Row
  <2> QED
    BY <2>1
<1>8. TypeOK'
  <2>1. w.seq \in 0..MaxSeq
    BY <1>6, Bounds
  <2>2. rows' \in SUBSET Row /\ got' \in SUBSET Row
    BY <1>1, <1>6 DEF StreamInv, TypeOK
  <2> QED
    BY <1>2, <1>4, <2>1, <2>2, Zenon DEF StreamInv, TypeOK
<1>9. (SeqBounds /\ ClosedIsQuiet /\ TerminalIsClosed /\ CursorIsAfter /\ Complete)'
  BY <1>1, <1>2, <1>4
  DEF StreamInv, SeqBounds, ClosedIsQuiet, TerminalIsClosed, CursorIsAfter, Complete
<1>10. NothingAhead' /\ GotIsBelow'
  <2>1. w.seq > after
    BY <1>1, <1>2, <1>3 DEF StreamInv, CursorIsAfter
  <2>2. \A v \in got : v.seq \in Nat /\ v.seq <= after
    BY Types DEF StreamInv, GotIsBelow
  <2>3. after \in Nat
    BY Types
  <2>4. \A v \in got \cup {w} : v.seq <= w.seq
    BY <2>1, <2>2, <2>3, <1>6
  <2> QED
    BY <2>4, <1>1, <1>2, <1>4, <1>6 DEF NothingAhead, GotIsBelow
<1>11. NothingSkipped'
  <2>1. ASSUME NEW v \in trace, v.seq <= w.seq PROVE v \in got \cup {w}
    <3>1. cursor \in Nat /\ v.seq \in Nat /\ w.seq \in Nat /\ cursor = after
      BY <1>2, <1>5, <1>6, Types DEF StreamInv, CursorIsAfter
    <3>2. CASE v.seq <= cursor
      BY <3>1, <3>2 DEF StreamInv, NothingSkipped
    <3>3. CASE v.seq > cursor /\ v \in rows
      <4>1. v.seq = w.seq
        BY <3>1, <3>3, <2>1, <1>1
      <4> QED
        BY <4>1, <1>7
    <3>4. CASE v.seq > cursor /\ v \notin rows
      <4>1. w.seq < v.seq
        BY <3>4, <1>1, <1>3
      <4> QED
        BY <4>1, <3>1, <2>1
    <3> QED
      BY <3>1, <3>2, <3>3, <3>4
  <2> QED
    BY <2>1, <1>1, <1>2, <1>4 DEF NothingSkipped
<1>12. ReadIsFresh'
  <2>1. ASSUME NEW x \in rows \ {w} PROVE x.seq > w.seq
    <3>1. x \in trace /\ x.seq \in Nat /\ w.seq \in Nat /\ x.seq # w.seq /\ w.seq <= x.seq
      BY <1>1, <1>3, <1>5, <1>6, <1>7, Bounds
    <3> QED
      BY <3>1
  <2>2. ASSUME NEW v \in trace, v.seq > w.seq, v \notin rows \ {w}
        PROVE  ~terminal /\ \A x \in rows \ {w} : x.seq < v.seq
    <3>1. v \notin rows
      BY <2>2, <1>6, Bounds
    <3>2. v.seq > cursor
      <4>1. v.seq \in Nat /\ w.seq \in Nat /\ cursor \in Nat /\ w.seq > cursor
        BY <1>1, <1>3, <1>5, <1>6, Types
      <4> QED
        BY <4>1, <2>2
    <3> QED
      BY <3>1, <3>2, <1>3
  <2> QED
    BY <2>1, <2>2, <1>1, <1>2, <1>3, <1>4 DEF ReadIsFresh
<1> QED
  BY <1>8, <1>9, <1>10, <1>11, <1>12 DEF StreamInv

\* the other steps of the stream and of the client send no row
LEMMA PollStream ==
  ASSUME OneHealthyRun, StreamInv,
         Connect \/ ReadState \/ ReadRows \/ SendResult \/ PollAgain \/ Drop \/ PollTurn
  PROVE  StreamInv'
<1>0. /\ UNCHANGED <<pc, seq, trace, closed, got, after>>
      /\ spc' \in {"off", "state", "rows", "send"}
  BY DEF StreamInv, TypeOK, Connect, ReadState, ReadRows, SendResult, PollAgain, Drop,
         PollTurn, executor, server, browser
<1>1. /\ cursor' \in 0..MaxSeq /\ terminal' \in BOOLEAN /\ rows' \in SUBSET Row
      /\ outcome' \in {"none", "stream", "polled", "gave up"}
  BY DEF StreamInv, TypeOK, Connect, ReadState, ReadRows, SendResult, PollAgain, Drop,
         PollTurn, server, browser
<1>2. tries' \in 0..MaxConnects
  <2>1. CASE Connect
    BY <2>1, Types, Bounds DEF Connect
  <2>2. CASE ~Connect
    BY <2>2, Types
    DEF ReadState, ReadRows, SendResult, PollAgain, Drop, PollTurn, browser
  <2> QED
    BY <2>1, <2>2
<1>3. TypeOK'
  BY <1>0, <1>1, <1>2, Zenon DEF StreamInv, TypeOK
<1>4. (SeqBounds /\ ClosedIsQuiet /\ NothingAhead /\ GotIsBelow /\ NothingSkipped)'
  BY <1>0 DEF StreamInv, SeqBounds, ClosedIsQuiet, NothingAhead, GotIsBelow, NothingSkipped
<1>5. (TerminalIsClosed /\ CursorIsAfter)'
  <2>1. CursorIsAfter'
    BY <1>0
    DEF StreamInv, CursorIsAfter, Connect, ReadState, ReadRows, SendResult, PollAgain,
        Drop, PollTurn, server
  <2>0. closed' = closed
    BY <1>0
  <2>2. CASE ReadState
    <3>1. terminal' = closed
      BY <2>2 DEF ReadState
    <3>2. outcome' = outcome
      BY <2>2 DEF ReadState, browser
    <3> QED
      BY <2>0, <2>1, <3>1, <3>2, Zenon DEF StreamInv, TerminalIsClosed
  <2>3. CASE ReadRows \/ SendResult \/ PollTurn
    <3>1. /\ terminal' = terminal
          /\ spc' \in {"rows", "send"} => spc \in {"rows", "send"}
          /\ outcome' = "stream" => outcome = "stream" \/ (spc = "send" /\ terminal)
      BY <2>3 DEF ReadRows, SendResult, PollTurn, server, browser
    <3>2. spc = "send" => spc \in {"rows", "send"}
      OBVIOUS
    <3> QED
      BY <2>0, <2>1, <3>1, <3>2, Zenon DEF StreamInv, TerminalIsClosed
  <2>4. CASE Connect \/ PollAgain \/ Drop
    BY <2>1, <2>4, <1>0
    DEF Connect, PollAgain, Drop, browser, StreamInv, TerminalIsClosed
  <2> QED
    BY <2>1, <2>2, <2>3, <2>4
<1>6. ReadIsFresh'
  <2>1. CASE ReadRows
    <3>1. rows' = {w \in trace : w.seq > cursor} /\ cursor' = cursor /\ trace' = trace
      BY <2>1, <1>0 DEF ReadRows
    <3> QED
      BY <3>1 DEF ReadIsFresh
  <2>2. CASE PollTurn
    BY <2>2, <1>0 DEF PollTurn, server, StreamInv, ReadIsFresh
  <2>3. CASE ~ReadRows /\ ~PollTurn
    BY <2>3 DEF ReadIsFresh, Connect, ReadState, SendResult, PollAgain, Drop
  <2> QED
    BY <2>1, <2>2, <2>3
<1>7. Complete'
  <2>1. CASE SendResult
    <3>1. \A w \in trace : ~(w.seq > cursor)
      BY <2>1 DEF SendResult, StreamInv, ReadIsFresh
    <3>2. \A w \in trace : w.seq \in Nat
      BY Types
    <3>3. cursor = after /\ cursor \in Nat
      BY <2>1, Types DEF SendResult, StreamInv, CursorIsAfter
    <3>4. \A w \in trace : w.seq <= after
      BY <3>1, <3>2, <3>3
    <3> QED
      BY <3>4, <1>0 DEF StreamInv, NothingSkipped, Complete
  <2>2. CASE ~SendResult
    BY <2>2, <1>0
    DEF StreamInv, Complete, Connect, ReadState, ReadRows, PollAgain, Drop, PollTurn,
        browser
  <2> QED
    BY <2>1, <2>2
<1> QED
  BY <1>3, <1>4, <1>5, <1>6, <1>7 DEF StreamInv

\* every step of the run, the stale readers, the server and the browser
LEMMA NextStream == OneHealthyRun /\ StreamInv /\ [Next]_vars => StreamInv'
<1> SUFFICES ASSUME OneHealthyRun, StreamInv, [Next]_vars PROVE StreamInv'
  OBVIOUS
<1>1. CASE UNCHANGED vars
  BY <1>1
  DEF vars, StreamInv, TypeOK, SeqBounds, ClosedIsQuiet, TerminalIsClosed, CursorIsAfter,
      NothingAhead, GotIsBelow, NothingSkipped, ReadIsFresh, Complete
<1>2. CASE Next
  BY <1>2, ExecutorStream, RecordStream, SendRowStream, PollStream DEF Next, StreamStep
<1> QED
  BY <1>1, <1>2

\* StreamInv holds throughout when one healthy run writes the rows.
THEOREM StreamInvariance ==
  ASSUME OneHealthyRun
  PROVE  Spec => []StreamInv
<1>1. Init => StreamInv
  BY InitStream
<1>2. StreamInv /\ [Next]_vars => StreamInv'
  BY NextStream
<1> QED
  BY <1>1, <1>2, PTL DEF Spec

\* Progress of an evidence turn: with one healthy run, a client that is sent the
\* result has been sent every row, whatever MaxSeq and MaxConnects are.
THEOREM StreamIsComplete ==
  ASSUME OneHealthyRun
  PROVE  Spec => []Complete
<1>1. StreamInv => Complete
  BY DEF StreamInv
<1> QED
  BY <1>1, StreamInvariance, PTL

\* With one healthy run the rows, the cursor and the last row seen keep their types: the
\* reader never points past what can be written.
THEOREM StreamTypes ==
  ASSUME OneHealthyRun
  PROVE  Spec => []TypeOK
<1>1. StreamInv => TypeOK
  BY DEF StreamInv
<1> QED
  BY <1>1, StreamInvariance, PTL

\* With one healthy run every progress frame is new and in the order of the calls,
\* also across reconnections.
THEOREM FramesAreOrdered ==
  ASSUME OneHealthyRun
  PROVE  Spec => FramesInOrder
<1> DEFINE Ordered == spc = "send" /\ spc' = "send" =>
                        \A w \in rows \ rows' : \A v \in got : v.seq < w.seq
<1>1. ASSUME StreamInv, spc = "send", NEW w \in rows, NEW v \in got
      PROVE  v.seq < w.seq
  <2>1. w \in trace /\ w.seq > cursor
    BY <1>1 DEF StreamInv, ReadIsFresh
  <2>2. cursor = after /\ v.seq <= after
    BY <1>1 DEF StreamInv, CursorIsAfter, GotIsBelow
  <2>3. w.seq \in Nat /\ v.seq \in Nat /\ after \in Nat
    BY <1>1, <2>1, Types
  <2> QED
    BY <2>1, <2>2, <2>3
<1>2. StreamInv /\ [Next]_vars => [Ordered]_vars
  BY <1>1
<1> QED
  BY <1>2, StreamInvariance, PTL DEF Spec, FramesInOrder
=============================================================================
