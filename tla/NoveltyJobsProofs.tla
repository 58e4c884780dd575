-------------------------- MODULE NoveltyJobsProofs --------------------------
(***************************************************************************)
(* A novelty job and its conversation for any number of workers, messages  *)
(* of the user, kinds of artifacts, iterations and faults.  JobInv is what *)
(* makes the end of a job honest although every worker writes from a       *)
(* snapshot, and lasting although the store's check and its UPDATE are     *)
(* apart: what a snapshot, the kinds a loop has saved and the outcome it   *)
(* is about to write say of the stored job, and that, while nothing fails, *)
(* the lease keeps every other writer away.  ChatInv follows each message  *)
(* of the user to a decision or to an agent's row.                         *)
(***************************************************************************)
EXTENDS NoveltyJobs, TLAPS

Waiting == queue \union processing

LoopSteps == {"start", "begin", "cancelling", "evidence", "iterate", "persist",
              "report", "end", "late"}

\* What a worker at a step works on.
MessageRight(l) ==
    /\ l.pc \in LoopSteps => l.msg = "loop"
    /\ l.pc \in {"turn", "reply", "settle", "refuse"} => l.msg \in Chats
    /\ l.pc \in {"fail", "failing", "stop"} => l.msg \in {"loop", NoMessage}
    /\ l.pc \in {"lock", "drop"} => l.msg \in Messages

\* What the outcome of a loop, decided some steps before it is written, rests on.
OutcomeRight(l, r) ==
    /\ l.pc \in {"lock", "start"} => l.outcome = "none"
    /\ l.pc = "report" => l.outcome = "completed"
    /\ l.pc = "end" => l.outcome \in Terminal
    /\ l.outcome = "completed" => Required \subseteq l.kinds
    /\ l.outcome = "cancelled" => r.state = Deleted \/ r.cancel
    /\ l.pc = "cancelling" => l.job.cancel

\* What a snapshot still says of the stored job.
SnapshotRight(l, r, s) ==
    /\ l.job.state \in Active \union Eligible
    /\ l.job.state = "completed" => r.state = Deleted \/ Required \subseteq s
    /\ l.pc \in {"evidence", "iterate", "persist", "report"} => l.job.state = "investigating"
    /\ l.pc \in {"turn", "reply", "settle"} \/ (l.pc = "lock" /\ l.msg \in Chats) =>
          l.job.state \in Eligible
    /\ r.state = Deleted \/ l.kinds \subseteq s

\* A worker with its local state l, beside the row r and the artifacts s.
Right(l, r, s) ==
    /\ MessageRight(l) /\ OutcomeRight(l, r) /\ SnapshotRight(l, r, s)
    /\ l.columns # {} => l.pc \in Updating

Fits(w) == Right(work[w], row, saved)

\* Before the job's own message is sent, nobody works on the job but the sweep.
Unsent ==
    /\ creation \in {"stored", "awaiting", "body", "uploaded"} =>
          /\ row.state \in {"received", "failed", Deleted}
          /\ Waiting = {} /\ \A w \in Workers : work[w].msg = NoMessage
          /\ \A u \in Chats : request[u] \notin {"on demand", "enqueue", "sorry"}
    /\ creation = "body" => "state" \notin update
    /\ update # {} => creation \in {"refused", "body"}

\* A chat message is sent once, when its row is stored.
SentOnce ==
    /\ \A u \in Chats : u \in Waiting => request[u] \in {"sorry", "done"}
    /\ \A w \in Workers : work[w].msg \in Chats => request[work[w].msg] \in {"sorry", "done"}

\* While nothing fails, whoever runs has the lease, and an UPDATE that sets the state
\* finds the row as active as it was read.
Exclusive ==
    faults = 0 =>
        /\ creation # "refused"
        /\ \A w \in Workers :
              /\ work[w].pc \in Running => lease = w
              /\ "state" \in work[w].columns => row.state \in Active \union {Deleted}
              /\ work[w].job.state \in Terminal => row.state \in {work[w].job.state, Deleted}

\* A user's row of the conversation is one of the messages.
Spoken == {e \in Entries : e.by = "user" => e.about \in Chats}

JobInv ==
    /\ TypeOK /\ Unsent /\ SentOnce /\ EndIsHonest /\ Exclusive
    /\ chat \in Seq(Spoken)
    /\ \A w \in Workers : Fits(w)

\* A message of the user has its row once it is posted, and a reply comes after it.
ChatFits ==
    row.state # Deleted =>
        /\ \A u \in Chats :
              request[u] \in {"check", "enqueue", "sorry", "tell", "done"} => u \in UserRows(0)
        /\ \A j \in DOMAIN chat, u \in Chats : chat[j] = [by |-> "agent", about |-> u] =>
              \E i \in DOMAIN chat : i < j /\ chat[i] = [by |-> "user", about |-> u]

\* What a loop or a turn has seen of the conversation, and left in it.
DrainedFits(w) ==
    row.state # Deleted =>
        /\ work[w].pc \in {"settle", "close", "drop"} /\ work[w].msg \in Chats =>
              AgentFollows(work[w].msg) \/ faults # 0
        /\ work[w].cursor <= Len(chat)
        /\ \A i \in DOMAIN chat :
              i <= work[w].cursor /\ chat[i].by = "user" => chat[i].about \in read

\* A message will be, or was, taken up; or the loop that has just ended still looks.
LooksAt(w, u) ==
    /\ work[w].pc = "late"
    /\ \E i \in DOMAIN chat : work[w].cursor < i /\ chat[i] = [by |-> "user", about |-> u]

Noticed(u) ==
    u \in read \/ u \in Waiting \/ AgentFollows(u) \/ \E w \in Workers : LooksAt(w, u)

SteeringInv ==
    faults = 0 /\ row.state \in Eligible =>
        \A u \in Chats : request[u] = "done" => Noticed(u)

ChatInv == ChatFits /\ SteeringInv /\ \A w \in Workers : DrainedFits(w)

Locals == [pc : Places, msg : Messages \union {NoMessage}, job : Rows,
           kinds : SUBSET Required, cursor : Nat, outcome : Terminal \union {"none"},
           columns : SUBSET Columns]

-----------------------------------------------------------------------------
\* Facts about the values of the model.

LEMMA StatesDiffer ==
  /\ Deleted \notin Active /\ Deleted \notin Terminal
  /\ \A s \in Active : s \notin Terminal
  /\ Eligible \subseteq Terminal
BY DEF Deleted, Active, Terminal, Eligible

LEMMA BoundsAreNat == MaxIter \in Nat /\ MaxIter > 0 /\ MaxSteps \in Nat /\ MaxFaults \in Nat
BY NoveltyBounds

LEMMA ValuesDiffer ==
  /\ "loop" \notin Chats /\ NoMessage \notin Messages /\ NoMessage \notin Chats
  /\ Notice \notin Chats
BY NoveltyBounds DEF Messages, NoMessage

LEMMA NewRowIsRow == NewRow \in Rows /\ NewRow.state = "received" /\ ~NewRow.cancel
BY BoundsAreNat DEF NewRow, Rows, Active

LEMMA FreshIsLocal ==
  ASSUME NEW at \in Places
  PROVE  /\ Fresh(at) \in Locals
         /\ Fresh(at).pc = at /\ Fresh(at).msg = NoMessage /\ Fresh(at).job = NewRow
         /\ Fresh(at).kinds = {} /\ Fresh(at).cursor = 0 /\ Fresh(at).outcome = "none"
         /\ Fresh(at).columns = {}
BY NewRowIsRow DEF Fresh, Locals

LEMMA WorkerTypes ==
  ASSUME TypeOK, NEW w \in Workers
  PROVE  work[w] \in Locals /\ work \in [Workers -> Locals]
BY DEF TypeOK, Locals

\* The row that an UPDATE leaves.
LEMMA WrittenRow ==
  ASSUME row \in Rows, NEW job \in Rows, NEW columns, Writes(job, columns)
  PROVE  /\ row' \in Rows /\ row.state # Deleted
         /\ row'.state = IF "state" \in columns THEN job.state ELSE row.state
         /\ row'.cancel <=> row.cancel \/ job.cancel
<1> DEFINE flag == row.cancel \/ job.cancel
           state == IF "state" \in columns THEN job.state ELSE row.state
<1>1. flag \in BOOLEAN
  OBVIOUS
<1>2. PICK iter \in {job.iter, row.iter} :
          row' = [state |-> state, cancel |-> flag, iter |-> iter]
  BY DEF Writes
<1>3. row.state # Deleted
  BY DEF Writes
<1> HIDE DEF flag
<1>4. /\ row' \in Rows /\ row'.state = state /\ row'.cancel = flag
  BY <1>1, <1>2 DEF Rows
<1>5. row'.cancel <=> row.cancel \/ job.cancel
  BY <1>4 DEF flag
<1> QED
  BY <1>3, <1>4, <1>5

\* What a worker that has ended a loop or a call still knows.
LEMMA Remembered ==
  ASSUME NEW l \in Locals
  PROVE  /\ Remembers(l) \in Locals
         /\ Remembers(l).pc = l.pc /\ Remembers(l).msg = l.msg
         /\ Remembers(l).cursor \in {0, l.cursor}
         /\ Remembers(l).columns \in {{}, l.columns}
         /\ Remembers(l).job \in {NewRow, l.job}
         /\ l.pc = "late" => Remembers(l).cursor = l.cursor
         /\ \/ Remembers(l) = l
            \/ /\ l.pc \in {"late", "fail", "close", "stop"}
               /\ Remembers(l).job = NewRow /\ Remembers(l).kinds = {}
               /\ Remembers(l).outcome = "none" /\ Remembers(l).columns = {}
<1>1. CASE l.pc = "late"
  <2> DEFINE f == Fresh("late")
             k == [f EXCEPT !.msg = l.msg, !.cursor = l.cursor]
  <2>1. /\ f \in Locals /\ f.pc = "late" /\ f.job = NewRow /\ f.kinds = {}
        /\ f.outcome = "none" /\ f.columns = {}
    BY FreshIsLocal DEF Places, Running
  <2> HIDE DEF f
  <2>2. /\ k \in Locals /\ k.pc = "late" /\ k.msg = l.msg /\ k.cursor = l.cursor
        /\ k.job = NewRow /\ k.kinds = {} /\ k.outcome = "none" /\ k.columns = {}
    BY <2>1 DEF Locals
  <2>3. Remembers(l) = k
    BY <1>1 DEF Remembers, f
  <2> HIDE DEF k
  <2> QED
    BY <1>1, <2>2, <2>3
<1>2. CASE l.pc \in {"fail", "close", "stop"}
  <2> DEFINE f == Fresh(l.pc)
             k == [f EXCEPT !.msg = l.msg]
  <2>1. /\ f \in Locals /\ f.pc = l.pc /\ f.job = NewRow /\ f.kinds = {}
        /\ f.outcome = "none" /\ f.columns = {} /\ f.cursor = 0
    BY <1>2, FreshIsLocal DEF Places, Running
  <2> HIDE DEF f
  <2>2. /\ k \in Locals /\ k.pc = l.pc /\ k.msg = l.msg /\ k.cursor = 0
        /\ k.job = NewRow /\ k.kinds = {} /\ k.outcome = "none" /\ k.columns = {}
    BY <2>1 DEF Locals
  <2>3. Remembers(l) = k
    BY <1>2 DEF Remembers, f
  <2> HIDE DEF k
  <2> QED
    BY <1>2, <2>2, <2>3
<1>3. CASE l.pc \notin {"late", "fail", "close", "stop"}
  BY <1>3 DEF Remembers
<1> QED
  BY <1>1, <1>2, <1>3

-----------------------------------------------------------------------------
\* What a step can do to the store.

\* An UPDATE that bears out what it says.
Overwrite ==
    /\ \E job \in Rows, columns \in SUBSET Columns :
          /\ Writes(job, columns)
          /\ "state" \in columns =>
                /\ job.state # Deleted
                /\ job.state = "completed" => Required \subseteq saved
                /\ job.state = "cancelled" => row.cancel \/ job.cancel
    /\ UNCHANGED <<saved, chat>>

\* The cancel flag.
Raise ==
    /\ row.state # Deleted
    /\ row' = [row EXCEPT !.cancel = TRUE]
    /\ UNCHANGED <<saved, chat>>

Removal == row' = [NewRow EXCEPT !.state = Deleted] /\ saved' = {} /\ chat' = << >>

Addition ==
    /\ row' = row
    /\ saved' = saved \/ \E kinds \in SUBSET Required : Saves(kinds)
    /\ chat' = chat \/ \E e \in Spoken : Says(e.by, e.about)

LEMMA NothingStored ==
  ASSUME UNCHANGED store
  PROVE  Addition
BY DEF store, Addition

\* One row more in the conversation.
LEMMA OneMoreRow ==
  ASSUME NEW by \in {"user", "agent"}, NEW about \in Chats \union {Notice},
         by = "user" => about \in Chats, Says(by, about), row' = row, saved' = saved
  PROVE  Addition
<1> DEFINE e == [by |-> by, about |-> about]
<1>1. e \in Spoken /\ e.by = by /\ e.about = about
  BY DEF Entries, Spoken
<1> QED
  BY <1>1 DEF Addition

\* A reply, or the loss of it.
LEMMA NotifyStores ==
  ASSUME NEW about \in Chats \union {Notice}, NEW lost, Notifies(about, lost),
         row' = row, saved' = saved
  PROVE  Addition
<1>1. CASE Says("agent", about)
  BY <1>1, OneMoreRow
<1>2. CASE chat' = chat
  BY <1>2 DEF Addition
<1> QED
  BY <1>1, <1>2 DEF Notifies

LEMMA PostStores ==
  ASSUME NEW u \in Chats, Post(u)
  PROVE  Addition
<1>1. CASE PostRead(u) \/ PostEnqueue(u)
  BY <1>1, NothingStored DEF PostRead, PostEnqueue
<1>2. CASE PostAppend(u)
  BY <1>2, OneMoreRow DEF PostAppend
<1>3. CASE PostCheck(u)
  BY <1>3, NotifyStores DEF PostCheck, Addition
<1>4. CASE PostSorry(u)
  BY <1>4, NotifyStores DEF PostSorry
<1>5. CASE PostTell(u)
  BY <1>5, NotifyStores DEF PostTell
<1> QED
  BY <1>1, <1>2, <1>3, <1>4, <1>5 DEF Post

LEMMA ApiJobIs ==
  /\ ApiJob \in Rows /\ ApiJob.state \in {"received", "failed"} /\ ~ApiJob.cancel
  /\ creation # "refused" => ApiJob = NewRow
<1> DEFINE job == [NewRow EXCEPT !.state = "failed"]
<1>1. job \in Rows /\ job.state = "failed" /\ ~job.cancel
  BY NewRowIsRow DEF Rows, Terminal
<1> HIDE DEF job
<1>2. ApiJob = IF creation = "refused" THEN job ELSE NewRow
  BY DEF ApiJob, job
<1> QED
  BY <1>1, <1>2, NewRowIsRow

LEMMA ApiStores ==
  ASSUME TypeOK, Api
  PROVE  Addition \/ Overwrite \/ Raise \/ Removal
<1>1. CASE Enqueue \/ UploadRead \/ UploadEnqueue \/ ApiUpdate
  BY <1>1, NothingStored DEF Enqueue, UploadRead, UploadEnqueue, ApiUpdate
<1>2. CASE ApiCommit
  <2>1. UNCHANGED <<saved, chat>> /\ update \in SUBSET Columns
    BY <1>2 DEF ApiCommit, TypeOK
  <2>2. CASE row' = row
    BY <2>1, <2>2 DEF Addition
  <2>3. CASE Writes(ApiJob, update)
    BY <2>1, <2>3, ApiJobIs DEF Overwrite, Deleted
  <2> QED
    BY <1>2, <2>2, <2>3 DEF ApiCommit
<1>3. CASE Delete
  BY <1>3 DEF Delete, Removal
<1>4. CASE Cancel
  BY <1>4 DEF Cancel, Raise
<1> QED
  BY <1>1, <1>2, <1>3, <1>4 DEF Api

\* What a worker is about to write.
LEMMA TargetIs ==
  ASSUME JobInv, NEW w \in Workers, work[w].pc \in Updating
  PROVE  /\ Target(w) \in Rows
         /\ Target(w).cancel = work[w].job.cancel
         /\ work[w].pc = "cancelling" => Target(w).state = "cancelled" /\ Target(w).cancel
         /\ work[w].pc = "begin" => Target(w).state = "investigating"
         /\ work[w].pc = "report" => Target(w).state = "reporting"
         /\ work[w].pc = "end" => Target(w).state = work[w].outcome
         /\ work[w].pc = "failing" => Target(w).state = "failed"
         /\ work[w].pc = "persist" => Target(w).state = "investigating"
         /\ work[w].pc = "settle" =>
               Target(w).state = work[w].job.state /\ Target(w).state \in Eligible
         /\ Target(w).state # Deleted
         /\ row.state # Deleted =>
               /\ Target(w).state = "completed" => Required \subseteq saved
               /\ Target(w).state = "cancelled" => row.cancel \/ Target(w).cancel
<1> DEFINE job == work[w].job
<1>1. TypeOK /\ work[w] \in Locals /\ Fits(w) /\ job \in Rows
  BY WorkerTypes DEF JobInv, Locals
<1>2. /\ work[w].pc = "end" => work[w].outcome \in Terminal
      /\ work[w].outcome = "completed" => Required \subseteq work[w].kinds
      /\ work[w].outcome = "cancelled" => row.state = Deleted \/ row.cancel
      /\ work[w].pc = "cancelling" => job.cancel
  BY <1>1 DEF Fits, Right, OutcomeRight
<1>3. /\ job.state \in Active \union Eligible
      /\ job.state = "completed" => row.state = Deleted \/ Required \subseteq saved
      /\ work[w].pc = "persist" => job.state = "investigating"
      /\ work[w].pc = "settle" => job.state \in Eligible
      /\ row.state = Deleted \/ work[w].kinds \subseteq saved
  BY <1>1 DEF Fits, Right, SnapshotRight
<1>4. ASSUME NEW state \in Active \union Terminal
      PROVE  LET t == [job EXCEPT !.state = state] IN
                t \in Rows /\ t.state = state /\ t.cancel = job.cancel
  BY <1>1 DEF Rows
<1>5. {"cancelled", "investigating", "reporting", "failed"} \subseteq Active \union Terminal
  BY DEF Active, Terminal
<1>6. CASE work[w].pc = "cancelling"
  <2>1. Target(w) = [job EXCEPT !.state = "cancelled"]
    BY <1>6 DEF Target
  <2> QED
    BY <1>2, <1>4, <1>5, <1>6, <2>1 DEF Deleted
<1>7. CASE work[w].pc = "begin"
  <2>1. Target(w) = [job EXCEPT !.state = "investigating"]
    BY <1>7 DEF Target
  <2> QED
    BY <1>4, <1>5, <1>7, <2>1 DEF Deleted
<1>8. CASE work[w].pc = "report"
  <2>1. Target(w) = [job EXCEPT !.state = "reporting"]
    BY <1>8 DEF Target
  <2> QED
    BY <1>4, <1>5, <1>8, <2>1 DEF Deleted
<1>9. CASE work[w].pc = "end"
  <2>1. Target(w) = [job EXCEPT !.state = work[w].outcome]
    BY <1>9 DEF Target
  <2>2. /\ Target(w) \in Rows /\ Target(w).state = work[w].outcome
        /\ Target(w).cancel = job.cancel
    BY <1>2, <1>4, <1>9, <2>1
  <2> QED
    BY <1>2, <1>3, <1>9, <2>2, StatesDiffer
<1>10. CASE work[w].pc = "failing"
  <2>1. Target(w) = [job EXCEPT !.state = "failed"]
    BY <1>10 DEF Target
  <2> QED
    BY <1>4, <1>5, <1>10, <2>1 DEF Deleted
<1>11. CASE work[w].pc \in {"persist", "settle"}
  <2>1. Target(w) = job
    BY <1>11 DEF Target
  <2>2. job.state # "cancelled" /\ job.state # Deleted
    BY <1>3 DEF Active, Eligible, Deleted
  <2> QED
    BY <1>1, <1>3, <1>11, <2>1, <2>2
<1> QED
  BY <1>6, <1>7, <1>8, <1>9, <1>10, <1>11 DEF Updating

LEMMA CommitStores ==
  ASSUME JobInv, NEW w \in Workers, Commit(w)
  PROVE  Addition \/ Overwrite
<1>1. UNCHANGED <<saved, chat>>
  BY DEF Commit
<1>2. work[w].columns \in SUBSET Columns /\ work[w].pc \in Updating
  BY WorkerTypes DEF Commit, JobInv, Fits, Right, Locals
<1>3. CASE row' = row
  BY <1>1, <1>3 DEF Addition
<1>4. CASE Writes(Target(w), work[w].columns)
  <2>1. row.state # Deleted
    BY <1>4 DEF Writes
  <2> QED
    BY <1>1, <1>2, <1>4, <2>1, TargetIs DEF Overwrite
<1> QED
  BY <1>3, <1>4 DEF Commit

\* What a worker stores beside its UPDATE.
LEMMA StepStores ==
  ASSUME JobInv, NEW w \in Workers, Step(w)
  PROVE  Addition \/ Overwrite
<1>1. TypeOK /\ Fits(w)
  BY DEF JobInv
<1>2. ASSUME \/ \E m \in Messages : Consume(w, m)
             \/ Lock(w) \/ Drop(w) \/ Close(w) \/ Stop(w) \/ Update(w) \/ MarkFailed(w)
             \/ Start(w)
      PROVE  Addition
  BY <1>2, NothingStored DEF Consume, Lock, Drop, Close, Stop, Update, MarkFailed, Start
<1>3. CASE Refuse(w)
  BY <1>3, NotifyStores DEF Refuse
<1>4. ASSUME FormEvidence(w) \/ Iterate(w) \/ Turn(w)
      PROVE  Addition
  <2>1. row' = row /\ chat' = chat
    BY <1>4 DEF FormEvidence, Iterate, Turn
  <2>2. \A got \in Stores : got \subseteq Required
    BY DEF Stores
  <2>3. saved' = saved \/ \E got \in SUBSET Required : Saves(got)
    BY <1>4, <2>2 DEF FormEvidence, Iterate, Turn, Leave
  <2> QED
    BY <2>1, <2>3 DEF Addition
<1>5. CASE LateNotice(w)
  BY <1>5, NotifyStores DEF LateNotice, Addition
<1>6. CASE Reply(w)
  <2>1. work[w].msg \in Chats
    BY <1>1, <1>6 DEF Reply, Fits, Right, MessageRight
  <2> QED
    BY <1>6, <2>1, NotifyStores DEF Reply
<1> QED
  BY <1>2, <1>3, <1>4, <1>5, <1>6, CommitStores DEF Step

LEMMA StoreEffect ==
  ASSUME JobInv, [Next]_vars
  PROVE  Addition \/ Overwrite \/ Raise \/ Removal
<1>1. CASE \/ LeaseExpires \/ LeaseLost \/ UNCHANGED vars
           \/ \E w \in Workers : Crash(w) \/ Restart(w) \/ Sweep(w)
  BY <1>1, NothingStored DEF LeaseExpires, LeaseLost, Crash, Restart, Sweep, vars
<1> QED
  BY <1>1, ApiStores, PostStores, StepStores DEF Next, JobInv

\* What any step keeps: a deleted job is not brought back, a cancellation is not taken
\* back, and artifacts go with the job only.
Lasting ==
    /\ row.state = Deleted => row'.state = Deleted
    /\ row.cancel => row'.cancel \/ row'.state = Deleted
    /\ saved \subseteq saved' \/ row'.state = Deleted

LEMMA StoreLasts ==
  ASSUME TypeOK, Addition \/ Overwrite \/ Raise \/ Removal
  PROVE  Lasting
<1>1. row \in Rows
  BY DEF TypeOK
<1>2. CASE Addition
  BY <1>2 DEF Addition, Lasting, Saves, Keeps
<1>3. CASE Overwrite
  <2>1. PICK job \in Rows, columns \in SUBSET Columns : Writes(job, columns)
    BY <1>3 DEF Overwrite
  <2>2. row.state # Deleted /\ (row'.cancel <=> row.cancel \/ job.cancel)
    BY <1>1, <2>1, WrittenRow
  <2> QED
    BY <1>3, <2>2 DEF Overwrite, Lasting
<1>4. CASE Raise
  <2>1. row.cancel => row'.cancel
    BY <1>1, <1>4 DEF Raise, Rows
  <2> QED
    BY <1>4, <2>1 DEF Raise, Lasting
<1>5. CASE Removal
  <2>1. row'.state = Deleted
    BY <1>5 DEF Removal, NewRow
  <2> QED
    BY <2>1 DEF Lasting
<1> QED
  BY <1>2, <1>3, <1>4, <1>5

LEMMA StoreTypes ==
  ASSUME TypeOK, chat \in Seq(Spoken), Addition \/ Overwrite \/ Raise \/ Removal
  PROVE  row' \in Rows /\ saved' \subseteq Required /\ chat' \in Seq(Spoken)
<1>1. row \in Rows /\ saved \subseteq Required /\ chat \in Seq(Spoken)
  BY DEF TypeOK
<1>2. CASE Addition
  <2>1. ASSUME NEW e \in Spoken, Says(e.by, e.about) PROVE chat' \in Seq(Spoken)
    <3>1. [by |-> e.by, about |-> e.about] \in Spoken
      BY <2>1 DEF Entries, Spoken
    <3> QED
      BY <1>1, <2>1, <3>1 DEF Says, Keeps
  <2> QED
    BY <1>1, <1>2, <2>1 DEF Addition, Saves, Keeps
<1>3. CASE Overwrite
  BY <1>1, <1>3, WrittenRow DEF Overwrite
<1>4. CASE Raise
  <2>1. row' \in Rows
    BY <1>1, <1>4 DEF Raise, Rows, Terminal
  <2> QED
    BY <1>1, <1>4, <2>1 DEF Raise
<1>5. CASE Removal
  <2>1. row' \in Rows
    BY <1>5, NewRowIsRow DEF Removal, Rows
  <2> QED
    BY <1>5, <2>1 DEF Removal
<1> QED
  BY <1>2, <1>3, <1>4, <1>5

LEMMA StoreIsHonest ==
  ASSUME TypeOK, EndIsHonest, Addition \/ Overwrite \/ Raise \/ Removal
  PROVE  EndIsHonest'
<1>1. row \in Rows
  BY DEF TypeOK
<1>2. CASE Addition
  <2>1. row.state = Deleted => saved' = saved /\ chat' = chat
    BY <1>2 DEF Addition, Saves, Says, Keeps
  <2>2. row.state # Deleted => saved \subseteq saved'
    BY <1>2 DEF Addition, Saves, Keeps
  <2> QED
    BY <1>2, <2>1, <2>2 DEF Addition, EndIsHonest, Deleted
<1>3. CASE Overwrite
  <2>1. PICK job \in Rows, columns \in SUBSET Columns :
          /\ Writes(job, columns)
          /\ "state" \in columns =>
                /\ job.state # Deleted
                /\ job.state = "completed" => Required \subseteq saved
                /\ job.state = "cancelled" => row.cancel \/ job.cancel
    BY <1>3 DEF Overwrite
  <2>2. /\ row.state # Deleted
        /\ row'.state = IF "state" \in columns THEN job.state ELSE row.state
        /\ row'.cancel <=> row.cancel \/ job.cancel
    BY <1>1, <2>1, WrittenRow
  <2>3. CASE "state" \in columns
    BY <1>3, <2>1, <2>2, <2>3 DEF Overwrite, EndIsHonest
  <2>4. CASE "state" \notin columns
    BY <1>3, <2>2, <2>4 DEF Overwrite, EndIsHonest
  <2> QED
    BY <2>3, <2>4
<1>4. CASE Raise
  <2>1. row'.state = row.state /\ row'.cancel
    BY <1>1, <1>4 DEF Raise, Rows
  <2> QED
    BY <1>4, <2>1 DEF Raise, EndIsHonest
<1>5. CASE Removal
  <2>1. row'.state = Deleted /\ saved' = {} /\ chat' = << >>
    BY <1>5 DEF Removal, NewRow
  <2> QED
    BY <2>1 DEF EndIsHonest, Deleted
<1> QED
  BY <1>2, <1>3, <1>4, <1>5

-----------------------------------------------------------------------------
\* What a step does to the worker that takes it.

\* A worker goes on as l, and is right in what it holds.
Takes(w, l) ==
    /\ work' = [work EXCEPT ![w] = l]
    /\ Right(l, row', saved')
    /\ l.msg \in {work[w].msg, NoMessage} \union queue
    /\ l.columns \in {{}, work[w].columns} \/ Update(w)
    /\ l.job.state \in {work[w].job.state, row.state} \union Active
    /\ \/ l.cursor \in {0, work[w].cursor}
       \/ /\ l.cursor = Len(chat) /\ chat' = chat
          /\ read' \in {read \union UserRows(0), read \union UserRows(work[w].cursor)}

LEMMA StaysRight ==
  ASSUME Lasting, NEW l, Right(l, row, saved)
  PROVE  Right(l, row', saved')
<1>1. OutcomeRight(l, row')
  BY DEF Right, OutcomeRight, Lasting
<1>2. SnapshotRight(l, row', saved')
  BY DEF Right, SnapshotRight, Lasting
<1> QED
  BY <1>1, <1>2 DEF Right

\* A worker that stands still is not betrayed by what others store.
LEMMA OthersFit ==
  ASSUME Lasting, NEW v \in Workers, Fits(v), work'[v] = work[v]
  PROVE  Fits(v)'
BY StaysRight DEF Fits

\* A worker that holds nothing holds nothing wrong.
LEMMA EmptyIsRight ==
  ASSUME NEW l, MessageRight(l), l.pc \in {"idle", "dead", "late", "fail", "close", "stop"},
         l.job = NewRow, l.kinds = {}, l.outcome = "none", l.columns = {}, NEW r, NEW s
  PROVE  Right(l, r, s) /\ l.job.state \in Active
<1>1. l.job.state = "received" /\ "received" \in Active
  BY NewRowIsRow DEF Active
<1>2. OutcomeRight(l, r)
  BY DEF OutcomeRight
<1>3. SnapshotRight(l, r, s)
  BY <1>1 DEF SnapshotRight
<1> QED
  BY <1>1, <1>2, <1>3 DEF Right

LEMMA FreshTakes ==
  ASSUME NEW w \in Workers, NEW at \in {"idle", "dead", "fail"}, Become(w, Fresh(at))
  PROVE  \E l \in Locals : Takes(w, l) /\ l.pc = at /\ l.msg = NoMessage
<1> DEFINE l == Fresh(at)
<1>1. /\ l \in Locals /\ l.pc = at /\ l.msg = NoMessage /\ l.job = NewRow /\ l.kinds = {}
      /\ l.cursor = 0 /\ l.outcome = "none" /\ l.columns = {}
  BY FreshIsLocal DEF Places, Running, Updating
<1>2. work' = [work EXCEPT ![w] = l]
  BY DEF Become
<1> HIDE DEF l
<1>3. MessageRight(l)
  BY <1>1 DEF MessageRight, LoopSteps
<1>4. Right(l, row', saved') /\ l.job.state \in Active
  BY <1>1, <1>3, EmptyIsRight
<1> QED
  BY <1>1, <1>2, <1>4 DEF Takes

\* A worker that goes on with its message, with what it has learned.
LEMMA BecomeTakes ==
  ASSUME NEW w \in Workers, NEW l \in Locals, Become(w, l), Right(l, row', saved'),
         l.msg = work[w].msg, l.columns \in {{}, work[w].columns} \/ Update(w),
         l.job.state \in {work[w].job.state, row.state} \union Active,
         \/ l.cursor \in {0, work[w].cursor}
         \/ /\ l.cursor = Len(chat) /\ chat' = chat
            /\ read' \in {read \union UserRows(0), read \union UserRows(work[w].cursor)}
  PROVE  \E k \in Locals : Takes(w, k) /\ k.pc = l.pc /\ k.msg = work[w].msg
BY DEF Takes, Become

LEMMA GoesTakes ==
  ASSUME NEW w \in Workers, NEW l \in Locals, Goes(w, l), MessageRight(l),
         \/ l.pc \in {"late", "fail", "close", "stop"}
         \/ Right(l, row', saved')
            /\ l.job.state \in {work[w].job.state, row.state} \union Active,
         l.msg = work[w].msg, l.columns \in {{}, work[w].columns},
         \/ l.cursor \in {0, work[w].cursor}
         \/ /\ l.cursor = Len(chat) /\ chat' = chat
            /\ read' \in {read \union UserRows(0), read \union UserRows(work[w].cursor)}
  PROVE  \E k \in Locals : /\ Takes(w, k) /\ k.pc = l.pc /\ k.msg = work[w].msg
                           /\ k.columns \in {{}, l.columns}
                           /\ l.pc = "late" => k.cursor = l.cursor
<1> DEFINE k == Remembers(l)
<1>1. /\ k \in Locals /\ k.pc = l.pc /\ k.msg = l.msg /\ k.cursor \in {0, l.cursor}
      /\ k.columns \in {{}, l.columns}
      /\ l.pc = "late" => k.cursor = l.cursor
      /\ \/ k = l
         \/ /\ l.pc \in {"late", "fail", "close", "stop"}
            /\ k.job = NewRow /\ k.kinds = {} /\ k.outcome = "none" /\ k.columns = {}
  BY Remembered
<1>2. l.pc \in {"late", "fail", "close", "stop"} =>
         k.job = NewRow /\ k.kinds = {} /\ k.outcome = "none" /\ k.columns = {}
  <2>1. /\ Fresh("late").job = NewRow /\ Fresh("late").kinds = {}
        /\ Fresh("late").outcome = "none" /\ Fresh("late").columns = {}
        /\ Fresh(l.pc).job = NewRow /\ Fresh(l.pc).kinds = {}
        /\ Fresh(l.pc).outcome = "none" /\ Fresh(l.pc).columns = {}
    BY DEF Fresh
  <2> QED
    BY <2>1 DEF Remembers, Fresh
<1>3. work' = [work EXCEPT ![w] = k]
  BY DEF Goes, Become
<1> HIDE DEF k
<1>4. MessageRight(k)
  BY <1>1 DEF MessageRight
<1>5. /\ Right(k, row', saved')
      /\ k.job.state \in {work[w].job.state, row.state} \union Active
  <2>1. CASE l.pc \in {"late", "fail", "close", "stop"}
    <3>1. Right(k, row', saved') /\ k.job.state \in Active
      BY <1>1, <1>2, <1>4, <2>1, EmptyIsRight
    <3> QED
      BY <3>1
  <2>2. CASE l.pc \notin {"late", "fail", "close", "stop"}
    BY <1>1, <2>2
  <2> QED
    BY <2>1, <2>2
<1> QED
  BY <1>1, <1>3, <1>5 DEF Takes

\* A worker that only moves on keeps what it holds.
LEMMA GotoTakes ==
  ASSUME JobInv, Lasting, NEW w \in Workers, NEW at \in Places, Goto(w, at),
         work[w].columns = {}, Right([work[w] EXCEPT !.pc = at], row, saved)
  PROVE  \E k \in Locals : Takes(w, k) /\ k.pc = at /\ k.msg = work[w].msg
<1> DEFINE l == [work[w] EXCEPT !.pc = at]
<1>1. work[w] \in Locals /\ work \in [Workers -> Locals]
  BY WorkerTypes DEF JobInv
<1>2. /\ l \in Locals /\ l.pc = at /\ l.msg = work[w].msg /\ l.job = work[w].job
      /\ l.cursor = work[w].cursor /\ l.columns = work[w].columns
  BY <1>1 DEF Locals
<1>3. Become(w, l)
  BY <1>1 DEF Goto, Become
<1>4. Right(l, row, saved)
  OBVIOUS
<1> HIDE DEF l
<1>5. Right(l, row', saved')
  BY <1>4, StaysRight
<1> QED
  BY <1>2, <1>3, <1>5, BecomeTakes

LEMMA GotoRight ==
  ASSUME JobInv, NEW w \in Workers, work[w].columns = {},
         NEW at \in {"drop", "turn", "cancelling", "start", "close"},
         at = "drop" => work[w].msg \in Messages,
         at = "turn" => work[w].msg \in Chats /\ work[w].job.state \in Eligible,
         at \in {"cancelling", "start"} => work[w].msg = "loop" /\ work[w].outcome = "none",
         at = "cancelling" => work[w].job.cancel
  PROVE  Right([work[w] EXCEPT !.pc = at], row, saved)
<1> DEFINE l == [work[w] EXCEPT !.pc = at]
<1>1. work[w] \in Locals /\ Fits(w)
  BY WorkerTypes DEF JobInv
<1>2. /\ l.pc = at /\ l.msg = work[w].msg /\ l.job = work[w].job /\ l.kinds = work[w].kinds
      /\ l.outcome = work[w].outcome /\ l.columns = {}
  BY <1>1 DEF Locals
<1> HIDE DEF l
<1>3. MessageRight(l)
  BY <1>2 DEF MessageRight, LoopSteps
<1>4. OutcomeRight(l, row)
  BY <1>1, <1>2 DEF Fits, Right, OutcomeRight
<1>5. SnapshotRight(l, row, saved)
  BY <1>1, <1>2 DEF Fits, Right, SnapshotRight
<1>6. Right(l, row, saved)
  BY <1>2, <1>3, <1>4, <1>5 DEF Right
<1> QED
  BY <1>6 DEF l

\* A worker takes the job as it is stored.
LEMMA ConsumeTakes ==
  ASSUME JobInv, NEW w \in Workers, NEW m \in Messages, Consume(w, m)
  PROVE  \E l \in Locals : /\ Takes(w, l) /\ l.pc \in {"drop", "refuse", "lock"} /\ l.msg = m
                           /\ l.pc = "drop" /\ m \in Chats => row.state = Deleted \/ Answered(m)
<1>1. TypeOK /\ row \in Rows /\ EndIsHonest /\ saved \subseteq Required
  BY DEF JobInv, TypeOK
<1> DEFINE at == CASE row.state = Deleted \/ (m = "loop" /\ row.state \in Terminal) -> "drop"
                   [] m # "loop" /\ row.state \notin Eligible \union {Deleted} -> "refuse"
                   [] m # "loop" /\ row.state \in Eligible /\ Answered(m) -> "drop"
                   [] OTHER -> "lock"
           f == Fresh(at)
           job == IF at = "lock" THEN row ELSE f.job
           l == [f EXCEPT !.msg = m, !.job = job]
<1>2. at \in {"drop", "refuse", "lock"}
  OBVIOUS
<1>3. /\ at = "refuse" => m # "loop"
      /\ at = "drop" /\ m # "loop" => row.state = Deleted \/ Answered(m)
      /\ at = "lock" => /\ row.state # Deleted
                        /\ m = "loop" => row.state \notin Terminal
                        /\ m # "loop" => row.state \in Eligible
  BY Zenon
<1>4. work' = [work EXCEPT ![w] = l] /\ m \in queue /\ row' = row /\ saved' = saved
  BY DEF Consume, Become, store
<1> HIDE DEF at
<1>5. /\ f \in Locals /\ f.pc = at /\ f.job = NewRow /\ f.kinds = {} /\ f.cursor = 0
      /\ f.outcome = "none" /\ f.columns = {}
  BY <1>2, FreshIsLocal DEF Places
<1> HIDE DEF f
<1>6. job \in Rows /\ (at = "lock" => job = row) /\ (at # "lock" => job = NewRow)
  BY <1>1, <1>5, NewRowIsRow
<1> HIDE DEF job
<1>7. /\ l \in Locals /\ l.pc = at /\ l.msg = m /\ l.job = job /\ l.kinds = {}
      /\ l.cursor = 0 /\ l.outcome = "none" /\ l.columns = {}
  BY <1>5, <1>6 DEF Locals
<1> HIDE DEF l
<1>8. m # "loop" => m \in Chats
  BY DEF Messages
<1>9. MessageRight(l)
  BY <1>2, <1>3, <1>7, <1>8 DEF MessageRight, LoopSteps
<1>10. OutcomeRight(l, row)
  BY <1>2, <1>7 DEF OutcomeRight
<1>11. job.state \in Active \union Eligible
  <2>1. CASE at = "lock"
    <3>1. row.state \in Active \union Terminal \union {Deleted}
      BY <1>1 DEF Rows
    <3> QED
      BY <1>3, <1>6, <2>1, <3>1 
  <2>2. CASE at # "lock"
    BY <1>6, <2>2, NewRowIsRow DEF Active
  <2> QED
    BY <2>1, <2>2
<1>12. SnapshotRight(l, row, saved)
  <2>1. job.state = "completed" => Required \subseteq saved
    <3>1. CASE at = "lock"
      BY <1>1, <1>6, <3>1 DEF EndIsHonest
    <3>2. CASE at # "lock"
      BY <1>6, <3>2, NewRowIsRow
    <3> QED
      BY <3>1, <3>2
  <2>2. at = "lock" /\ m \in Chats => job.state \in Eligible
    BY <1>3, <1>6, ValuesDiffer
  <2> QED
    BY <1>2, <1>7, <1>11, <2>1, <2>2 DEF SnapshotRight
<1>13. Right(l, row', saved')
  BY <1>4, <1>7, <1>9, <1>10, <1>12 DEF Right
<1>14. l.job.state \in {row.state} \union Active
  BY <1>6, <1>7, NewRowIsRow DEF Active
<1>15. Takes(w, l)
  BY <1>4, <1>7, <1>13, <1>14 DEF Takes
<1> QED
  BY <1>2, <1>3, <1>7, <1>15, ValuesDiffer

\* The steps around a call: the lease, the ack, a job looked up to be failed.
LEMMA CallTakes ==
  ASSUME JobInv, Lasting, NEW w \in Workers,
         \/ Lock(w) \/ Refuse(w) \/ Drop(w) \/ Close(w) \/ Stop(w) \/ MarkFailed(w)
         \/ Crash(w) \/ Restart(w) \/ Sweep(w)
  PROVE  \E l \in Locals :
            /\ Takes(w, l)
            /\ l.pc \in {"idle", "dead"} \/ (l.pc = "fail" /\ Sweep(w))
               \/ (l.pc = "drop" /\ Refuse(w)) \/ (l.pc \in {"close", "failing"} /\ MarkFailed(w))
               \/ (l.pc \in {"turn", "cancelling", "start"} /\ Lock(w) /\ lease' = w)
            /\ l.pc \in {"drop", "close", "failing", "turn", "cancelling", "start"} =>
                  l.msg = work[w].msg
            /\ l.pc \in {"idle", "dead", "fail"} => l.msg = NoMessage
<1>1. TypeOK /\ Fits(w) /\ work[w] \in Locals /\ work \in [Workers -> Locals] /\ row \in Rows
  BY WorkerTypes DEF JobInv, TypeOK
<1>2. ASSUME NEW at \in {"idle", "dead", "fail"}, Become(w, Fresh(at)),
             at = "fail" => Sweep(w)
      PROVE  \E l \in Locals :
                /\ Takes(w, l) /\ l.msg = NoMessage
                /\ l.pc \in {"idle", "dead"} \/ (l.pc = "fail" /\ Sweep(w))
  BY <1>2, FreshTakes
<1>3. CASE Drop(w) \/ Close(w) \/ Stop(w) \/ Crash(w) \/ Restart(w) \/ Sweep(w)
  BY <1>2, <1>3 DEF Drop, Close, Stop, Crash, Restart, Sweep
<1>4. work[w].pc \in {"lock", "refuse", "fail"} => work[w].columns = {}
  BY <1>1 DEF Fits, Right, Updating
<1>5. CASE Refuse(w)
  <2>1. work[w].pc = "refuse" /\ Goto(w, "drop")
    BY <1>5 DEF Refuse
  <2>2. work[w].msg \in Messages
    BY <1>1, <2>1 DEF Fits, Right, MessageRight, Messages
  <2>3. Right([work[w] EXCEPT !.pc = "drop"], row, saved)
    BY <1>4, <2>1, <2>2, GotoRight
  <2>4. \E l \in Locals : Takes(w, l) /\ l.pc = "drop" /\ l.msg = work[w].msg
    BY <1>4, <2>1, <2>3, GotoTakes DEF Places
  <2> QED
    BY <1>5, <2>4
<1>6. CASE Lock(w)
  <2>1. work[w].pc = "lock" /\ work[w].msg \in Messages /\ work[w].outcome = "none"
    BY <1>1, <1>6 DEF Lock, Fits, Right, MessageRight, OutcomeRight
  <2>2. CASE Become(w, Fresh("idle"))
    BY <1>2, <2>2
  <2>3. CASE lease' = w /\ Goto(w, CASE work[w].msg # "loop" -> "turn"
                         [] work[w].msg = "loop" /\ work[w].job.cancel -> "cancelling"
                         [] OTHER -> "start")
    <3>1. PICK at \in {"turn", "cancelling", "start"} :
              /\ Goto(w, at)
              /\ at = "turn" => work[w].msg # "loop"
              /\ at \in {"cancelling", "start"} => work[w].msg = "loop"
              /\ at = "cancelling" => work[w].job.cancel
      BY <2>3
    <3>2. work[w].msg # "loop" => work[w].msg \in Chats /\ work[w].job.state \in Eligible
      BY <1>1, <2>1 DEF Messages, Fits, Right, SnapshotRight
    <3>3. at \in Places
      BY DEF Places, Running, Updating
    <3>4. Right([work[w] EXCEPT !.pc = at], row, saved)
      BY <1>4, <2>1, <3>1, <3>2, GotoRight
    <3> QED
      BY <1>4, <1>6, <2>1, <2>3, <3>1, <3>3, <3>4, GotoTakes
  <2> QED
    BY <1>6, <2>2, <2>3 DEF Lock
<1>7. CASE MarkFailed(w)
  <2>1. work[w].pc = "fail" /\ row' = row /\ saved' = saved
    BY <1>7 DEF MarkFailed, store
  <2>2. CASE Goto(w, "close")
    <3>1. Right([work[w] EXCEPT !.pc = "close"], row, saved)
      BY <1>4, <2>1, GotoRight
    <3> QED
      BY <1>4, <1>7, <2>1, <2>2, <3>1, GotoTakes DEF Places, Running
  <2>3. CASE row.state \in Active /\ Become(w, [work[w] EXCEPT !.job = row, !.pc = "failing"])
    <3> DEFINE l == [work[w] EXCEPT !.job = row, !.pc = "failing"]
    <3>1. Become(w, l)
      BY <2>3
    <3>2. /\ l \in Locals /\ l.pc = "failing" /\ l.msg = work[w].msg /\ l.job = row
          /\ l.kinds = work[w].kinds /\ l.outcome = work[w].outcome /\ l.columns = {}
          /\ l.cursor = work[w].cursor
      BY <1>1, <1>4, <2>1 DEF Locals, Places, Running, Updating
    <3> HIDE DEF l
    <3>3. MessageRight(l)
      BY <1>1, <2>1, <3>2 DEF Fits, Right, MessageRight, LoopSteps
    <3>4. OutcomeRight(l, row)
      BY <1>1, <3>2 DEF Fits, Right, OutcomeRight
    <3>5. SnapshotRight(l, row, saved)
      <4>1. row.state # "completed"
        BY <2>3 DEF Active
      <4> QED
        BY <1>1, <2>3, <3>2, <4>1 DEF Fits, Right, SnapshotRight
    <3>6. Right(l, row', saved')
      BY <2>1, <3>2, <3>3, <3>4, <3>5 DEF Right
    <3>7. \E k \in Locals : Takes(w, k) /\ k.pc = l.pc /\ k.msg = work[w].msg
      BY <3>1, <3>2, <3>6, BecomeTakes
    <3> QED
      BY <1>7, <3>2, <3>7
  <2> QED
    BY <1>7, <2>2, <2>3 DEF MarkFailed
<1> QED
  BY <1>3, <1>5, <1>6, <1>7

\* What follows a write, or a write that raised.
LEMMA AfterIs ==
  ASSUME NEW w \in Workers, work[w].pc \in Updating, NEW written \in BOOLEAN,
         work[w].outcome \in Terminal \union {"none"}
  PROVE  LET at == After(w, written) IN
         /\ at \in {"evidence", "iterate", "report", "end", "late", "fail", "close", "stop"}
         /\ at \in {"evidence", "iterate"} =>
               work[w].pc = "persist" \/ (work[w].pc = "begin" /\ written)
         /\ at = "report" => work[w].pc = "persist" /\ work[w].outcome = "completed"
         /\ at = "end" => \/ work[w].pc = "persist" /\ work[w].outcome \in Terminal
                          \/ work[w].pc = "report" /\ written
         /\ at = "late" => work[w].pc \in {"report", "end"}
         /\ at = "fail" => work[w].pc \in {"cancelling", "begin"}
         /\ at = "close" => work[w].pc \in {"cancelling", "settle", "failing"}
         /\ at = "stop" => work[w].pc = "failing"
         /\ work[w].pc = "end" => at = "late"
<1> DEFINE at == After(w, written)
<1>1. CASE work[w].pc = "cancelling"
  <2>1. at = IF written THEN "close" ELSE "fail"
    BY <1>1 DEF After
  <2> QED
    BY <1>1, <2>1
<1>2. CASE work[w].pc = "begin"
  <2>1. /\ at \in {"fail", "evidence", "iterate"}
        /\ at # "fail" => written
    BY <1>2 DEF After
  <2> QED
    BY <1>2, <2>1
<1>3. CASE work[w].pc = "persist"
  <2>1. \/ at = "iterate" /\ work[w].outcome = "none"
        \/ at = "report" /\ work[w].outcome = "completed"
        \/ at = "end" /\ work[w].outcome \notin {"none", "completed"}
    BY <1>3 DEF After
  <2> QED
    BY <1>3, <2>1
<1>4. CASE work[w].pc = "report"
  <2>1. at = IF written THEN "end" ELSE "late"
    BY <1>4 DEF After
  <2> QED
    BY <1>4, <2>1
<1>5. CASE work[w].pc = "end"
  <2>1. at = "late"
    BY <1>5 DEF After
  <2> QED
    BY <1>5, <2>1
<1>6. CASE work[w].pc = "settle"
  <2>1. at = "close"
    BY <1>6 DEF After
  <2> QED
    BY <1>6, <2>1
<1>7. CASE work[w].pc = "failing"
  <2>1. at = IF written THEN "close" ELSE "stop"
    BY <1>7 DEF After
  <2> QED
    BY <1>7, <2>1
<1> QED
  BY <1>1, <1>2, <1>3, <1>4, <1>5, <1>6, <1>7 DEF Updating

\* A worker goes on after update_job has written, or raised.
LEMMA WriterTakes ==
  ASSUME JobInv, Lasting, NEW w \in Workers, work[w].pc \in Updating,
         NEW written \in BOOLEAN,
         IF written THEN Written(w) ELSE Raised(w)
  PROVE  \E k \in Locals :
            /\ Takes(w, k) /\ k.pc = After(w, written) /\ k.msg = work[w].msg
            /\ k.columns = {}
            /\ k.pc = "late" => k.cursor = work[w].cursor
<1> DEFINE at == After(w, written)
           job == IF written THEN Target(w) ELSE work[w].job
           l == [work[w] EXCEPT !.job = job, !.columns = {}, !.pc = at]
<1>1. TypeOK /\ Fits(w) /\ work[w] \in Locals
  BY WorkerTypes DEF JobInv
<1>2. work[w].outcome \in Terminal \union {"none"} /\ work[w].job \in Rows
  BY <1>1 DEF Locals
<1>3. /\ at \in {"evidence", "iterate", "report", "end", "late", "fail", "close", "stop"}
      /\ at \in {"evidence", "iterate"} =>
            work[w].pc = "persist" \/ (work[w].pc = "begin" /\ written)
      /\ at = "report" => work[w].pc = "persist" /\ work[w].outcome = "completed"
      /\ at = "end" => \/ work[w].pc = "persist" /\ work[w].outcome \in Terminal
                       \/ work[w].pc = "report" /\ written
      /\ at = "late" => work[w].pc \in {"report", "end"}
      /\ at = "fail" => work[w].pc \in {"cancelling", "begin"}
      /\ at = "close" => work[w].pc \in {"cancelling", "settle", "failing"}
      /\ at = "stop" => work[w].pc = "failing"
  BY <1>2, AfterIs
<1>4. job \in Rows
  BY <1>2, TargetIs
<1>5. /\ work[w].pc \in {"persist", "begin"} /\ (written \/ work[w].pc = "persist") =>
            job.state = "investigating"
      /\ work[w].pc = "report" /\ written => job.state = "reporting"
  BY <1>1, TargetIs DEF Fits, Right, SnapshotRight
<1>6. Goes(w, l)
  <2>1. CASE written
    <3>1. Goes(w, [work[w] EXCEPT !.job = Target(w), !.columns = {}, !.pc = After(w, TRUE)])
      BY <2>1 DEF Written
    <3> QED
      BY <2>1, <3>1
  <2>2. CASE ~written
    <3>1. [work[w] EXCEPT !.columns = {}, !.pc = After(w, FALSE)] = l
      BY <1>1, <2>2 DEF Locals
    <3>2. Goes(w, [work[w] EXCEPT !.columns = {}, !.pc = After(w, FALSE)])
      BY <2>2 DEF Raised
    <3> QED
      BY <3>1, <3>2
  <2> QED
    BY <2>1, <2>2
<1> HIDE DEF at, job
<1>7. /\ l \in Locals /\ l.pc = at /\ l.msg = work[w].msg /\ l.job = job
      /\ l.kinds = work[w].kinds /\ l.outcome = work[w].outcome /\ l.columns = {}
      /\ l.cursor = work[w].cursor
  BY <1>1, <1>3, <1>4 DEF Locals, Places, Running, Updating
<1> HIDE DEF l
<1>8. MessageRight(l)
  BY <1>1, <1>3, <1>7 DEF Fits, Right, MessageRight, LoopSteps
<1>9. ASSUME at \notin {"late", "fail", "close", "stop"}
      PROVE  Right(l, row', saved') /\ job.state \in Active
  <2>1. job.state \in {"investigating", "reporting"}
    BY <1>3, <1>5, <1>9
  <2>2. OutcomeRight(l, row)
    <3>1. work[w].pc = "report" => work[w].outcome = "completed"
      BY <1>1 DEF Fits, Right, OutcomeRight
    <3>2. at = "end" => work[w].outcome \in Terminal
      BY <1>3, <3>1 DEF Terminal, Eligible
    <3>3. /\ work[w].outcome = "completed" => Required \subseteq work[w].kinds
          /\ work[w].outcome = "cancelled" => row.state = Deleted \/ row.cancel
      BY <1>1 DEF Fits, Right, OutcomeRight
    <3> QED
      BY <1>3, <1>7, <1>9, <3>2, <3>3 DEF OutcomeRight
  <2>3. SnapshotRight(l, row, saved)
    <3>1. row.state = Deleted \/ work[w].kinds \subseteq saved
      BY <1>1 DEF Fits, Right, SnapshotRight
    <3>2. at \in {"evidence", "iterate", "report"} => job.state = "investigating"
      BY <1>3, <1>5
    <3> QED
      BY <1>3, <1>7, <1>9, <2>1, <3>1, <3>2 DEF SnapshotRight, Active
  <2>4. Right(l, row, saved)
    BY <1>7, <1>8, <2>2, <2>3 DEF Right
  <2> QED
    BY <2>1, <2>4, StaysRight DEF Active
<1>10. \E k \in Locals : /\ Takes(w, k) /\ k.pc = l.pc /\ k.msg = work[w].msg
                         /\ k.columns \in {{}, l.columns}
                         /\ l.pc = "late" => k.cursor = l.cursor
  BY <1>6, <1>7, <1>8, <1>9, GoesTakes
<1> QED
  BY <1>7, <1>10 DEF at

\* update_job looks at the row, or commits its UPDATE.
LEMMA UpdateTakes ==
  ASSUME JobInv, Lasting, NEW w \in Workers, Update(w)
  PROVE  \E k \in Locals :
            /\ Takes(w, k) /\ k.msg = work[w].msg
            /\ \/ k.pc = work[w].pc /\ k.columns = Differing(Target(w))
                  /\ Accepts(Target(w).state)
               \/ k.pc = After(w, FALSE) /\ k.columns = {}
<1>1. TypeOK /\ Fits(w) /\ work[w] \in Locals /\ work[w].pc \in Updating
      /\ row' = row /\ saved' = saved
  BY WorkerTypes DEF JobInv, Update, store
<1>2. CASE Raised(w)
  BY <1>1, <1>2, WriterTakes
<1>3. CASE /\ Accepts(Target(w).state)
           /\ Become(w, [work[w] EXCEPT !.columns = Differing(Target(w))])
  <2> DEFINE columns == Differing(Target(w))
             l == [work[w] EXCEPT !.columns = columns]
  <2>1. columns \in SUBSET Columns
    BY DEF Differing, Columns
  <2>2. Become(w, l)
    BY <1>3
  <2> HIDE DEF columns
  <2>3. /\ l \in Locals /\ l.pc = work[w].pc /\ l.msg = work[w].msg /\ l.job = work[w].job
        /\ l.kinds = work[w].kinds /\ l.outcome = work[w].outcome /\ l.columns = columns
        /\ l.cursor = work[w].cursor
    BY <1>1, <2>1 DEF Locals
  <2> HIDE DEF l
  <2>4. Right(l, row', saved')
    BY <1>1, <2>3 DEF Fits, Right, MessageRight, OutcomeRight, SnapshotRight
  <2>5. \E k \in Locals : Takes(w, k) /\ k.pc = l.pc /\ k.msg = work[w].msg
                          /\ k.columns = l.columns
    BY <2>2, <2>3, <2>4 DEF Takes, Become
  <2> QED
    BY <1>3, <2>3, <2>5 DEF columns
<1> QED
  BY <1>2, <1>3 DEF Update

\* run_loop begins: a snapshot of an active job, and the kinds that are stored.
LEMMA StartTakes ==
  ASSUME JobInv, NEW w \in Workers, Start(w)
  PROVE  \E k \in Locals : Takes(w, k) /\ k.msg = work[w].msg
<1>1. /\ TypeOK /\ Fits(w) /\ work[w] \in Locals /\ saved \subseteq Required
      /\ work[w].pc = "start" /\ UNCHANGED store
  <2>1. TypeOK /\ Fits(w)
    BY DEF JobInv
  <2>2. work[w] \in Locals
    BY <2>1, WorkerTypes
  <2>3. saved \subseteq Required
    BY <2>1 DEF TypeOK
  <2> QED
    BY <2>1, <2>2, <2>3 DEF Start
<1>2. Len(chat) \in Nat
  <2>1. chat \in Seq(Spoken)
    BY DEF JobInv
  <2> QED
    BY <2>1
<1> DEFINE at == IF work[w].job.state = "reporting" THEN "fail" ELSE "begin"
           cursor == Len(chat)
           l == [work[w] EXCEPT !.kinds = saved, !.cursor = cursor, !.pc = at]
<1>3. Goes(w, l) /\ read' = read \union UserRows(0) /\ chat' = chat /\ row' = row /\ saved' = saved
  BY DEF Start, store
<1>4. at \in {"fail", "begin"}
  OBVIOUS
<1> HIDE DEF at
<1>5. cursor \in Nat /\ cursor = Len(chat)
  BY <1>2
<1> HIDE DEF cursor
<1>6. /\ l \in Locals /\ l.pc = at /\ l.msg = work[w].msg /\ l.job = work[w].job
      /\ l.kinds = saved /\ l.cursor = cursor /\ l.outcome = work[w].outcome
      /\ l.columns = work[w].columns
  BY <1>1, <1>4, <1>5 DEF Locals, Places, Running, Updating
<1> HIDE DEF l
<1>7. work[w].outcome = "none" /\ work[w].columns = {} /\ work[w].msg = "loop"
  <2>1. work[w].outcome = "none"
    BY <1>1 DEF Fits, Right, OutcomeRight
  <2>2. work[w].columns = {}
    BY <1>1 DEF Fits, Right, Updating
  <2>3. work[w].msg = "loop"
    BY <1>1 DEF Fits, Right, MessageRight, LoopSteps
  <2> QED
    BY <2>1, <2>2, <2>3
<1>8. MessageRight(l)
  BY <1>4, <1>6, <1>7 DEF MessageRight
<1>9. OutcomeRight(l, row')
  BY <1>4, <1>6, <1>7 DEF OutcomeRight
<1>10. SnapshotRight(l, row', saved')
  BY <1>1, <1>3, <1>4, <1>6 DEF Fits, Right, SnapshotRight
<1>11. Right(l, row', saved')
  BY <1>6, <1>7, <1>8, <1>9, <1>10 DEF Right
<1>12. \E k \in Locals : /\ Takes(w, k) /\ k.pc = l.pc /\ k.msg = work[w].msg
                         /\ l.pc = "late" => k.cursor = l.cursor
  BY <1>3, <1>5, <1>6, <1>8, <1>11, GoesTakes
<1> QED
  BY <1>12

\* A loop or a turn that has learned something about the artifacts, or about its end.
LEMMA LearnsTakes ==
  ASSUME JobInv, Lasting, NEW w \in Workers, NEW l \in Locals, Become(w, l),
         work[w].pc \in {"evidence", "iterate", "turn"},
         l.pc \in {"persist", "report", "end", "reply"},
         l.msg = work[w].msg, l.columns = work[w].columns,
         l.job.state = work[w].job.state,
         l.pc = "reply" <=> work[w].pc = "turn",
         l.pc = "report" => l.outcome = "completed",
         l.pc = "end" => l.outcome # "none",
         l.outcome = "completed" => Required \subseteq l.kinds,
         l.outcome = "cancelled" => row.state = Deleted \/ row.cancel,
         row'.state = Deleted \/ l.kinds \subseteq saved',
         \/ l.cursor = work[w].cursor
         \/ /\ l.cursor = Len(chat) /\ chat' = chat
            /\ read' \in {read \union UserRows(0), read \union UserRows(work[w].cursor)}
  PROVE  \E k \in Locals : Takes(w, k) /\ k.pc = l.pc /\ k.msg = work[w].msg
<1>1. TypeOK /\ Fits(w) /\ work[w] \in Locals
  BY WorkerTypes DEF JobInv
<1>2. work[w].columns = {}
  BY <1>1 DEF Fits, Right, Updating
<1>3. MessageRight(l)
  BY <1>1 DEF Fits, Right, MessageRight, LoopSteps
<1>4. OutcomeRight(l, row')
  <2>1. l.outcome \in Terminal \union {"none"}
    BY DEF Locals
  <2> QED
    BY <2>1 DEF OutcomeRight, Lasting
<1>5. SnapshotRight(l, row', saved')
  <2>1. /\ l.job.state \in Active \union Eligible
        /\ l.job.state = "completed" => row.state = Deleted \/ Required \subseteq saved
        /\ work[w].pc \in {"evidence", "iterate"} => l.job.state = "investigating"
        /\ work[w].pc = "turn" => l.job.state \in Eligible
    BY <1>1 DEF Fits, Right, SnapshotRight
  <2>2. l.job.state = "completed" => row'.state = Deleted \/ Required \subseteq saved'
    BY <2>1 DEF Lasting
  <2> QED
    BY <2>1, <2>2 DEF SnapshotRight
<1>6. Right(l, row', saved')
  BY <1>2, <1>3, <1>4, <1>5 DEF Right
<1> QED
  BY <1>6, BecomeTakes

\* A loop or a turn that stops for a reason the store bears out.
LEMMA LeaveTakes ==
  ASSUME JobInv, Lasting, NEW w \in Workers,
         work[w].pc \in {"evidence", "iterate", "turn"},
         NEW outcome \in {"partial", "cancelled"}, NEW at \in {"persist", "end", "reply"},
         Leave(w, outcome, at), at = "reply" <=> work[w].pc = "turn",
         outcome = "cancelled" => row.cancel
  PROVE  \E k \in Locals : Takes(w, k) /\ k.pc = at /\ k.msg = work[w].msg
<1> DEFINE l == [work[w] EXCEPT !.outcome = outcome, !.pc = at]
<1>1. TypeOK /\ Fits(w) /\ work[w] \in Locals
  BY WorkerTypes DEF JobInv
<1>2. outcome \in Terminal /\ at # "report" /\ outcome \notin {"none", "completed"}
  BY DEF Terminal, Eligible
<1>3. Become(w, l)
  BY DEF Leave
<1>4. /\ l \in Locals /\ l.pc = at /\ l.msg = work[w].msg /\ l.job = work[w].job
      /\ l.kinds = work[w].kinds /\ l.cursor = work[w].cursor /\ l.outcome = outcome
      /\ l.columns = work[w].columns
  BY <1>1, <1>2 DEF Locals, Places, Running, Updating
<1> HIDE DEF l
<1>5. row'.state = Deleted \/ l.kinds \subseteq saved'
  BY <1>1, <1>4 DEF Fits, Right, SnapshotRight, Lasting
<1>6. \E k \in Locals : Takes(w, k) /\ k.pc = l.pc /\ k.msg = work[w].msg
  BY <1>2, <1>3, <1>4, <1>5, LearnsTakes
<1> QED
  BY <1>4, <1>6

\* What a step of the loop stores is in the store, or the job is gone.
LEMMA StoredKinds ==
  ASSUME JobInv, row' = row, NEW w \in Workers, NEW got \in Stores, Saves(got)
  PROVE  /\ got \subseteq Required
         /\ row'.state = Deleted \/ work[w].kinds \union got \subseteq saved'
<1>1. row.state = Deleted \/ work[w].kinds \subseteq saved
  BY DEF JobInv, Fits, Right, SnapshotRight
<1>2. got \subseteq Required
  BY DEF Stores
<1> QED
  BY <1>1, <1>2 DEF Saves, Keeps

LEMMA FormEvidenceTakes ==
  ASSUME JobInv, Lasting, NEW w \in Workers, FormEvidence(w)
  PROVE  \E k \in Locals : Takes(w, k) /\ k.msg = work[w].msg
<1>1. /\ TypeOK /\ Fits(w) /\ work[w] \in Locals /\ work[w].job \in Rows
      /\ work[w].pc = "evidence" /\ row' = row
  BY WorkerTypes DEF JobInv, FormEvidence, Locals
<1>2. CASE row.cancel /\ Leave(w, "cancelled", "persist")
  BY <1>1, <1>2, LeaveTakes
<1>3. CASE Leave(w, "partial", "persist")
  BY <1>1, <1>3, LeaveTakes
<1>4. ASSUME NEW got \in Stores,
             NEW ending \in {<<"none", "persist">>, <<"failed", "end">>}, Saves(got),
             Become(w, [work[w] EXCEPT !.kinds = @ \union got, !.outcome = ending[1],
                                       !.pc = ending[2]])
      PROVE  \E k \in Locals : Takes(w, k) /\ k.msg = work[w].msg
  <2> DEFINE kinds == work[w].kinds \union got
             outcome == ending[1]
             at == ending[2]
             l == [work[w] EXCEPT !.kinds = kinds, !.outcome = outcome, !.pc = at]
  <2>1. /\ outcome \in {"none", "failed"} /\ at \in {"persist", "end"}
        /\ at = "end" => outcome = "failed"
    OBVIOUS
  <2>2. kinds \subseteq Required /\ (row'.state = Deleted \/ kinds \subseteq saved')
    BY <1>1, <1>4, StoredKinds DEF Locals
  <2>3. Become(w, l)
    BY <1>4
  <2> HIDE DEF kinds, outcome, at
  <2>4. outcome \in Terminal \union {"none"} /\ outcome \notin {"completed", "cancelled"}
    BY <2>1 DEF Terminal
  <2>5. /\ l \in Locals /\ l.pc = at /\ l.msg = work[w].msg /\ l.job = work[w].job
        /\ l.kinds = kinds /\ l.cursor = work[w].cursor /\ l.outcome = outcome
        /\ l.columns = work[w].columns
    BY <1>1, <2>1, <2>2, <2>4 DEF Locals, Places, Running, Updating
  <2> HIDE DEF l
  <2>6. \E k \in Locals : Takes(w, k) /\ k.pc = l.pc /\ k.msg = work[w].msg
    BY <1>1, <2>1, <2>2, <2>3, <2>4, <2>5, LearnsTakes
  <2> QED
    BY <2>6
<1> QED
  BY <1>2, <1>3, <1>4 DEF FormEvidence

\* A decision: an end that claims completeness has seen every kind.
LEMMA IterateTakes ==
  ASSUME JobInv, Lasting, NEW w \in Workers, Iterate(w)
  PROVE  \E k \in Locals : Takes(w, k) /\ k.msg = work[w].msg
<1>1. /\ TypeOK /\ Fits(w) /\ work[w] \in Locals /\ work[w].job \in Rows
      /\ work[w].pc = "iterate" /\ row' = row /\ chat' = chat
  BY WorkerTypes DEF JobInv, Iterate, Locals
<1>2. CASE row.cancel /\ Leave(w, "cancelled", "end")
  BY <1>1, <1>2, LeaveTakes
<1>3. CASE Leave(w, "partial", "end")
  BY <1>1, <1>3, LeaveTakes
<1>4. ASSUME work[w].job.iter < MaxIter, read' = read \union UserRows(work[w].cursor),
             NEW got \in Stores, NEW outcome \in {"none", "completed", "partial", "failed"},
             NEW at \in {"persist", "report", "end"},
             Decide(w, got, outcome, at), Saves(got),
             Become(w, [work[w] EXCEPT !.job.iter = @ + 1, !.cursor = Len(chat),
                                       !.kinds = @ \union got, !.outcome = outcome,
                                       !.pc = at])
      PROVE  \E k \in Locals : Takes(w, k) /\ k.msg = work[w].msg
  <2> DEFINE kinds == work[w].kinds \union got
             job == [work[w].job EXCEPT !.iter = @ + 1]
             cursor == Len(chat)
             l == [work[w] EXCEPT !.job = job, !.cursor = cursor, !.kinds = kinds,
                                  !.outcome = outcome, !.pc = at]
  <2>1. /\ at = "report" => outcome = "completed"
        /\ at = "end" => outcome = "failed"
        /\ outcome = "completed" => Required \subseteq kinds
    BY <1>4 DEF Decide
  <2>2. kinds \subseteq Required /\ (row'.state = Deleted \/ kinds \subseteq saved')
    BY <1>1, <1>4, StoredKinds DEF Locals
  <2>3. cursor \in Nat /\ cursor = Len(chat)
    BY DEF JobInv
  <2>4. job \in Rows /\ job.state = work[w].job.state
    <3>1. work[w].job.iter + 1 \in 0..MaxIter
      BY <1>1, <1>4, BoundsAreNat DEF Rows
    <3> QED
      BY <1>1, <3>1 DEF Rows
  <2>5. Become(w, l)
    BY <1>1, <1>4 DEF Locals
  <2> HIDE DEF kinds, job, cursor
  <2>6. outcome \in Terminal \union {"none"} /\ outcome # "cancelled"
    BY DEF Terminal, Eligible
  <2>7. /\ l \in Locals /\ l.pc = at /\ l.msg = work[w].msg /\ l.job = job
        /\ l.kinds = kinds /\ l.cursor = cursor /\ l.outcome = outcome
        /\ l.columns = work[w].columns
    BY <1>1, <2>2, <2>3, <2>4, <2>6 DEF Locals, Places, Running, Updating
  <2> HIDE DEF l
  <2>8. \E k \in Locals : Takes(w, k) /\ k.pc = l.pc /\ k.msg = work[w].msg
    <3>1. at = "end" => outcome # "none"
      BY <2>1
    <3>2. at # "reply"
      OBVIOUS
    <3> QED
      BY <1>1, <1>4, <2>1, <2>2, <2>3, <2>4, <2>5, <2>6, <2>7, <3>1, <3>2, LearnsTakes
  <2> QED
    BY <2>8
<1> QED
  BY <1>1, <1>2, <1>3, <1>4 DEF Iterate

LEMMA TurnTakes ==
  ASSUME JobInv, Lasting, NEW w \in Workers, Turn(w)
  PROVE  \E k \in Locals : Takes(w, k) /\ k.pc = "reply" /\ k.msg = work[w].msg
<1>1. /\ TypeOK /\ Fits(w) /\ work[w] \in Locals /\ work[w].job \in Rows
      /\ work[w].pc = "turn" /\ row' = row
  BY WorkerTypes DEF JobInv, Turn, Locals
<1>2. CASE Leave(w, "partial", "reply")
  BY <1>1, <1>2, LeaveTakes
<1>3. ASSUME NEW n \in 1..MaxSteps, work[w].job.iter + n <= MaxIter,
             Become(w, [work[w] EXCEPT !.job.iter = @ + n, !.pc = "reply"])
      PROVE  \E k \in Locals : Takes(w, k) /\ k.pc = "reply" /\ k.msg = work[w].msg
  <2> DEFINE job == [work[w].job EXCEPT !.iter = @ + n]
             l == [work[w] EXCEPT !.job = job, !.pc = "reply"]
  <2>1. job \in Rows /\ job.state = work[w].job.state
    <3>1. work[w].job.iter + n \in 0..MaxIter
      BY <1>1, <1>3, BoundsAreNat DEF Rows
    <3> QED
      BY <1>1, <3>1 DEF Rows
  <2>2. Become(w, l)
    BY <1>1, <1>3 DEF Locals
  <2> HIDE DEF job
  <2>3. /\ l \in Locals /\ l.pc = "reply" /\ l.msg = work[w].msg /\ l.job = job
        /\ l.kinds = work[w].kinds /\ l.cursor = work[w].cursor
        /\ l.outcome = work[w].outcome /\ l.columns = work[w].columns
    BY <1>1, <2>1 DEF Locals, Places, Running, Updating
  <2> HIDE DEF l
  <2>4. /\ l.outcome = "completed" => Required \subseteq l.kinds
        /\ l.outcome = "cancelled" => row.state = Deleted \/ row.cancel
        /\ row'.state = Deleted \/ l.kinds \subseteq saved'
    BY <1>1, <2>3 DEF Fits, Right, OutcomeRight, SnapshotRight, Lasting
  <2>5. \E k \in Locals : Takes(w, k) /\ k.pc = l.pc /\ k.msg = work[w].msg
    BY <1>1, <2>1, <2>2, <2>3, <2>4, LearnsTakes
  <2> QED
    BY <2>3, <2>5
<1> QED
  BY <1>2, <1>3 DEF Turn

\* A worker that has spoken, or lost what it wanted to say.
LEMMA SpeaksTakes ==
  ASSUME JobInv, Lasting, NEW w \in Workers, LateNotice(w) \/ Reply(w)
  PROVE  \E k \in Locals : Takes(w, k) /\ k.msg = work[w].msg /\ k.pc \in {"close", "settle"}
<1>1. /\ TypeOK /\ Fits(w) /\ work[w] \in Locals /\ work[w].pc \in {"late", "reply"}
      /\ row' = row /\ saved' = saved
  BY WorkerTypes DEF JobInv, LateNotice, Reply
<1>2. PICK at \in {"close", "settle"} :
         /\ Goes(w, [work[w] EXCEPT !.pc = at]) /\ (at = "settle" => work[w].pc = "reply")
  BY DEF LateNotice, Reply
<1> DEFINE l == [work[w] EXCEPT !.pc = at]
<1>3. /\ l \in Locals /\ l.pc = at /\ l.msg = work[w].msg /\ l.job = work[w].job
      /\ l.kinds = work[w].kinds /\ l.cursor = work[w].cursor
      /\ l.outcome = work[w].outcome /\ l.columns = work[w].columns
  BY <1>1 DEF Locals, Places, Running, Updating
<1>4. Goes(w, l)
  BY <1>2
<1> HIDE DEF l
<1>5. work[w].columns = {}
  BY <1>1 DEF Fits, Right, Updating
<1>6. MessageRight(l)
  BY <1>1, <1>2, <1>3 DEF Fits, Right, MessageRight, LoopSteps
<1>7. OutcomeRight(l, row)
  BY <1>1, <1>3 DEF Fits, Right, OutcomeRight
<1>8. SnapshotRight(l, row, saved)
  BY <1>1, <1>2, <1>3 DEF Fits, Right, SnapshotRight
<1>9. Right(l, row', saved')
  BY <1>1, <1>3, <1>5, <1>6, <1>7, <1>8 DEF Right
<1>10. \E k \in Locals : /\ Takes(w, k) /\ k.pc = l.pc /\ k.msg = work[w].msg
                         /\ l.pc = "late" => k.cursor = l.cursor
  BY <1>3, <1>4, <1>6, <1>9, GoesTakes
<1> QED
  BY <1>3, <1>10

\* A commit: the worker goes on as one that has written, or as one that could not.
LEMMA CommitTakes ==
  ASSUME JobInv, Lasting, NEW w \in Workers, Commit(w)
  PROVE  \E k \in Locals :
            /\ Takes(w, k) /\ k.msg = work[w].msg /\ k.columns = {}
            /\ k.pc \in {After(w, TRUE), After(w, FALSE)}
            /\ k.pc = "late" => k.cursor = work[w].cursor
<1>1. work[w].pc \in Updating
  BY DEF Commit, JobInv, Fits, Right
<1>2. CASE Written(w)
  BY <1>1, <1>2, WriterTakes
<1>3. CASE Raised(w)
  BY <1>1, <1>3, WriterTakes
<1> QED
  BY <1>2, <1>3 DEF Commit

LEMMA StepTakes ==
  ASSUME JobInv, Lasting, NEW w \in Workers, Step(w) \/ Crash(w) \/ Restart(w) \/ Sweep(w)
  PROVE  \E l \in Locals : Takes(w, l)
<1>1. CASE \E m \in Messages : Consume(w, m)
  BY <1>1, ConsumeTakes
<1>2. CASE \/ Lock(w) \/ Refuse(w) \/ Drop(w) \/ Close(w) \/ Stop(w) \/ MarkFailed(w)
           \/ Crash(w) \/ Restart(w) \/ Sweep(w)
  BY <1>2, CallTakes
<1>3. CASE Update(w)
  BY <1>3, UpdateTakes
<1>4. CASE Commit(w)
  BY <1>4, CommitTakes
<1>5. CASE Start(w) \/ FormEvidence(w) \/ Iterate(w)
  BY <1>5, StartTakes, FormEvidenceTakes, IterateTakes
<1>6. CASE LateNotice(w) \/ Reply(w)
  BY <1>6, SpeaksTakes
<1>7. CASE Turn(w)
  BY <1>7, TurnTakes
<1> QED
  BY <1>1, <1>2, <1>3, <1>4, <1>5, <1>6, <1>7 DEF Step

\* Who moves: one worker, or nobody.
LEMMA OneMoves ==
  ASSUME JobInv, Lasting, [Next]_vars
  PROVE  \/ work' = work
            /\ (Api \/ (\E u \in Chats : Post(u)) \/ LeaseExpires \/ LeaseLost \/ UNCHANGED vars)
         \/ \E w \in Workers :
               /\ Step(w) \/ Crash(w) \/ Restart(w) \/ Sweep(w)
               /\ \E l \in Locals : Takes(w, l) /\ work'[w] = l
               /\ \A v \in Workers \ {w} : work'[v] = work[v]
               /\ work' \in [Workers -> Locals]
<1>1. work \in [Workers -> Locals]
  BY DEF JobInv, TypeOK, Locals
<1>2. ASSUME NEW w \in Workers, Step(w) \/ Crash(w) \/ Restart(w) \/ Sweep(w)
      PROVE  /\ \E l \in Locals : Takes(w, l) /\ work'[w] = l
             /\ \A v \in Workers \ {w} : work'[v] = work[v]
             /\ work' \in [Workers -> Locals]
  <2>1. PICK l \in Locals : Takes(w, l)
    BY <1>2, StepTakes
  <2>2. work' = [work EXCEPT ![w] = l]
    BY <2>1 DEF Takes
  <2>3. work'[w] = l
    BY <1>1, <2>2
  <2>4. \A v \in Workers \ {w} : work'[v] = work[v]
    BY <1>1, <2>2
  <2>5. work' \in [Workers -> Locals]
    BY <1>1, <2>2
  <2> QED
    BY <2>1, <2>3, <2>4, <2>5
<1>3. Api => work' = work
  BY DEF Api, Enqueue, UploadRead, ApiUpdate, ApiCommit, UploadEnqueue, Cancel, Delete
<1>4. \A u \in Chats : Post(u) => work' = work
  BY DEF Post, PostRead, PostAppend, PostCheck, PostEnqueue, PostSorry, PostTell
<1>5. LeaseExpires \/ LeaseLost \/ UNCHANGED vars => work' = work
  BY DEF LeaseExpires, LeaseLost, vars
<1> QED
  BY <1>2, <1>3, <1>4, <1>5 DEF Next

LEMMA WorkersFit ==
  ASSUME JobInv, Lasting, [Next]_vars
  PROVE  work' \in [Workers -> Locals] /\ \A w \in Workers : Fits(w)'
<1>1. work \in [Workers -> Locals] /\ \A w \in Workers : Fits(w)
  BY DEF JobInv, TypeOK, Locals
<1>2. CASE work' = work
  BY <1>1, <1>2, OthersFit
<1>3. ASSUME NEW w \in Workers, NEW l \in Locals, Takes(w, l), work'[w] = l,
             \A v \in Workers \ {w} : work'[v] = work[v]
      PROVE  \A v \in Workers : Fits(v)'
  <2>1. Fits(w)'
    BY <1>3 DEF Takes, Fits
  <2> QED
    BY <1>1, <1>3, <2>1, OthersFit
<1> QED
  BY <1>1, <1>2, <1>3, OneMoves

-----------------------------------------------------------------------------
\* Who writes the state of the job.

LEMMA NoFaultSoFar ==
  ASSUME JobInv, [Next]_vars
  PROVE  /\ Trouble \/ UNCHANGED faults
         /\ faults' = 0 => faults = 0 /\ ~Trouble
<1>1. Trouble \/ UNCHANGED faults
  <2>1. ASSUME NEW w \in Workers, Step(w) \/ Crash(w) \/ Restart(w) \/ Sweep(w)
        PROVE  Trouble \/ UNCHANGED faults
    BY <2>1 DEF Step, Consume, Refuse, Drop, Lock, Close, Stop, Crash, Restart, Sweep, Update,
       Commit, MarkFailed, Start, FormEvidence, Iterate, LateNotice, Turn, Reply, Notifies,
       history
  <2>2. ASSUME NEW u \in Chats, Post(u) PROVE Trouble \/ UNCHANGED faults
    BY <2>2 DEF Post, PostRead, PostAppend, PostCheck, PostEnqueue, PostSorry, PostTell,
       Notifies, history
  <2>3. CASE Api \/ LeaseExpires \/ LeaseLost \/ UNCHANGED vars
    BY <2>3 DEF Api, Enqueue, UploadRead, ApiUpdate, ApiCommit, UploadEnqueue, Cancel, Delete,
       LeaseExpires, LeaseLost, vars, history
  <2> QED
    BY <2>1, <2>2, <2>3 DEF Next
<1>2. faults \in Nat
  <2>1. faults \in 0..MaxFaults
    BY DEF JobInv, TypeOK
  <2> QED
    BY <2>1, BoundsAreNat
<1>3. faults' = 0 => ~Trouble
  BY <1>2 DEF Trouble
<1> QED
  BY <1>1, <1>3

LEMMA WhoWrites ==
  ASSUME [Next]_vars, row' # row
  PROVE  ApiCommit \/ Delete \/ Cancel \/ \E w \in Workers : Commit(w)
<1>1. ASSUME NEW w \in Workers, Step(w) PROVE Commit(w)
  BY <1>1 DEF Step, Consume, Refuse, Drop, Lock, Close, Stop, Update, MarkFailed, Start,
     FormEvidence, Iterate, LateNotice, Turn, Reply, store
<1>2. ASSUME NEW w \in Workers, Crash(w) \/ Restart(w) \/ Sweep(w) PROVE FALSE
  BY <1>2 DEF Crash, Restart, Sweep, store
<1>3. ASSUME NEW u \in Chats, Post(u) PROVE FALSE
  BY <1>3 DEF Post, PostRead, PostAppend, PostCheck, PostEnqueue, PostSorry, PostTell, store
<1>4. ASSUME Api PROVE ApiCommit \/ Delete \/ Cancel
  BY <1>4 DEF Api, Enqueue, UploadRead, ApiUpdate, UploadEnqueue, store
<1>5. ASSUME LeaseExpires \/ LeaseLost \/ UNCHANGED vars PROVE FALSE
  BY <1>5 DEF LeaseExpires, LeaseLost, vars, store
<1> QED
  BY <1>1, <1>2, <1>3, <1>4, <1>5 DEF Next

\* Only an UPDATE that was to set the state changes it.
LEMMA StateWritten ==
  ASSUME JobInv, [Next]_vars, row'.state # row.state, row'.state # Deleted
  PROVE  \/ /\ ApiCommit /\ creation = "refused" /\ "state" \in update
            /\ row'.state = "failed"
         \/ \E w \in Workers : /\ Commit(w) /\ "state" \in work[w].columns
                               /\ row.state # Deleted /\ row'.state = Target(w).state
<1>1. TypeOK /\ row \in Rows /\ Unsent
  BY DEF JobInv, TypeOK
<1>2. CASE ApiCommit
  <2>1. Writes(ApiJob, update)
    BY <1>2 DEF ApiCommit
  <2>2. "state" \in update /\ row'.state = ApiJob.state
    BY <1>1, <2>1, ApiJobIs, WrittenRow
  <2>3. creation = "refused"
    BY <1>1, <2>2 DEF Unsent
  <2>4. ApiJob.state = "failed"
    BY <2>3 DEF ApiJob, NewRow
  <2> QED
    BY <1>2, <2>2, <2>3, <2>4
<1>3. CASE Delete
  BY <1>3 DEF Delete, NewRow
<1>4. CASE Cancel
  BY <1>1, <1>4 DEF Cancel, Rows
<1>5. ASSUME NEW w \in Workers, Commit(w)
      PROVE  "state" \in work[w].columns /\ row.state # Deleted /\ row'.state = Target(w).state
  <2>1. Writes(Target(w), work[w].columns)
    BY <1>5 DEF Commit
  <2>2. work[w].pc \in Updating
    BY <1>5 DEF Commit, JobInv, Fits, Right
  <2> QED
    BY <1>1, <2>1, <2>2, TargetIs, WrittenRow
<1> QED
  BY <1>2, <1>3, <1>4, <1>5, WhoWrites

\* Where the state of the UPDATE of a row that has ended may be set.
LEMMA DiffersNot ==
  ASSUME row.state \in Terminal, NEW job, Accepts(job.state)
  PROVE  "state" \notin Differing(job)
BY DEF Accepts, Differing

\* An UPDATE is made by update_job only.
LEMMA ColumnsRead ==
  ASSUME JobInv, Lasting, [Next]_vars, NEW v \in Workers
  PROVE  \/ work'[v].columns \in {{}, work[v].columns}
         \/ /\ Accepts(Target(v).state) /\ row' = row
            /\ work'[v].columns = Differing(Target(v))
<1>1. CASE work'[v] = work[v]
  BY <1>1
<1>2. ASSUME NEW l \in Locals, Takes(v, l), work'[v] = l, ~Update(v)
      PROVE  work'[v].columns \in {{}, work[v].columns}
  BY <1>2 DEF Takes
<1>3. CASE Update(v)
  <2>1. PICK k \in Locals :
            /\ Takes(v, k)
            /\ \/ k.columns = Differing(Target(v)) /\ Accepts(Target(v).state)
               \/ k.columns = {}
    BY <1>3, UpdateTakes
  <2>2. work'[v] = k
    BY <2>1 DEF Takes, JobInv, TypeOK
  <2>3. row' = row
    BY <1>3 DEF Update, store
  <2> QED
    BY <2>1, <2>2, <2>3
<1> QED
  BY <1>1, <1>2, <1>3, OneMoves

\* A job that has ended stays as it is while no UPDATE is under way that says otherwise.
LEMMA SettledStays ==
  ASSUME JobInv, Lasting, [Next]_vars, row.state \in Terminal, Settled
  PROVE  row'.state = Deleted \/ (row'.state = row.state /\ Settled')
<1>1. row'.state \in {row.state, Deleted}
  BY StateWritten DEF Settled
<1>2. "state" \notin update'
  <2>1. CASE UNCHANGED update
    BY <2>1 DEF Settled
  <2>2. CASE ApiUpdate
    <3>1. CASE Accepts(ApiJob.state) /\ update' = Differing(ApiJob)
      BY <3>1, DiffersNot
    <3>2. CASE UNCHANGED update
      BY <2>1, <3>2
    <3> QED
      BY <2>2, <3>1, <3>2 DEF ApiUpdate
  <2>3. CASE ApiCommit
    BY <2>3 DEF ApiCommit
  <2>4. ASSUME NEW w \in Workers, Step(w) \/ Crash(w) \/ Restart(w) \/ Sweep(w)
        PROVE  UNCHANGED update
    BY <2>4 DEF Step, Consume, Refuse, Drop, Lock, Close, Stop, Crash, Restart, Sweep, Update,
       Commit, MarkFailed, Start, FormEvidence, Iterate, LateNotice, Turn, Reply, api
  <2>5. ASSUME NEW u \in Chats, Post(u) PROVE UNCHANGED update
    BY <2>5 DEF Post, PostRead, PostAppend, PostCheck, PostEnqueue, PostSorry, PostTell
  <2>6. CASE \/ Enqueue \/ UploadRead \/ UploadEnqueue \/ Cancel \/ Delete
             \/ LeaseExpires \/ LeaseLost \/ UNCHANGED vars
    BY <2>1, <2>6 DEF Enqueue, UploadRead, UploadEnqueue, Cancel, Delete, LeaseExpires,
       LeaseLost, vars, api
  <2> QED
    BY <2>1, <2>2, <2>3, <2>4, <2>5, <2>6 DEF Next, Api
<1>3. ASSUME NEW v \in Workers PROVE "state" \notin work'[v].columns
  <2>1. "state" \notin work[v].columns
    BY DEF Settled
  <2>2. Accepts(Target(v).state) => "state" \notin Differing(Target(v))
    BY DiffersNot
  <2> QED
    BY <2>1, <2>2, ColumnsRead
<1> QED
  BY <1>1, <1>2, <1>3 DEF Settled

\* While nothing fails, an end that is written is settled.
LEMMA FaultlessIsSettled ==
  ASSUME JobInv, faults = 0, row.state \in Terminal
  PROVE  Settled
<1>1. Unsent /\ Exclusive
  BY DEF JobInv
<1>2. "state" \notin update
  BY <1>1 DEF Unsent, Exclusive
<1> QED
  BY <1>1, <1>2, StatesDiffer DEF Exclusive, Settled

-----------------------------------------------------------------------------
\* The queue, the lease, the API and what loops have read.

\* Where messages are and who may send them, of the type invariant.
AroundTypes ==
    /\ input \in Inputs
    /\ queue \subseteq Messages /\ processing \subseteq Messages
    /\ queue \intersect processing = {}
    /\ lease \in Workers \union {NoOne}
    /\ creation \in {"stored", "refused", "awaiting", "body", "uploaded", "done"}
    /\ update \subseteq Columns
    /\ request \in [Chats -> {"new", "steering", "on demand", "closed",
                              "check", "enqueue", "sorry", "tell", "done"}]
    /\ read \subseteq Chats /\ unsaid \subseteq Chats
    /\ faults \in 0..MaxFaults

LEMMA TypesSplit ==
  TypeOK <=> /\ AroundTypes /\ row \in Rows /\ saved \subseteq Required
             /\ chat \in Seq(Entries) /\ work \in [Workers -> Locals]
BY DEF TypeOK, AroundTypes, Locals

LEMMA MoreFaults ==
  ASSUME faults \in 0..MaxFaults, Trouble \/ UNCHANGED faults
  PROVE  faults' \in 0..MaxFaults
BY BoundsAreNat DEF Trouble

LEMMA UserRowsAreChats ==
  ASSUME chat \in Seq(Spoken), NEW cursor
  PROVE  UserRows(cursor) \subseteq Chats
<1>1. \A j \in DOMAIN chat : chat[j] \in Spoken
  OBVIOUS
<1> QED
  BY <1>1 DEF UserRows, Spoken

LEMMA SeqOfSpoken ==
  ASSUME NEW s \in Seq(Spoken)
  PROVE  s \in Seq(Entries)
BY DEF Spoken

\* Workers only move messages.
LEMMA WorkerAround ==
  ASSUME JobInv, [Next]_vars, NEW w \in Workers, Step(w) \/ Crash(w) \/ Restart(w) \/ Sweep(w)
  PROVE  /\ AroundTypes' /\ Waiting' \subseteq Waiting /\ UNCHANGED api
<1>1. AroundTypes
  BY TypesSplit DEF JobInv
<1>2. /\ queue' \subseteq Messages /\ processing' \subseteq Messages
      /\ queue' \intersect processing' = {} /\ Waiting' \subseteq Waiting
      /\ lease' \in Workers \union {NoOne}
  <2>1. CASE UNCHANGED broker
    BY <1>1, <2>1 DEF AroundTypes, Waiting, broker
  <2>2. CASE \E m \in Messages : Consume(w, m)
    BY <1>1, <2>2 DEF AroundTypes, Waiting, Consume
  <2>3. CASE Lock(w)
    BY <1>1, <2>3 DEF AroundTypes, Waiting, Lock
  <2>4. CASE Close(w)
    BY <1>1, <2>4 DEF AroundTypes, Waiting, Close
  <2>5. CASE Restart(w)
    BY <1>1, <2>5 DEF AroundTypes, Waiting, Restart
  <2>6. CASE Drop(w) \/ Stop(w)
    BY <1>1, <2>6 DEF AroundTypes, Waiting, Drop, Stop
  <2>7. CASE Sweep(w)
    BY <1>1, <2>7 DEF AroundTypes, Waiting, Sweep
  <2> QED
    BY <2>1, <2>2, <2>3, <2>4, <2>5, <2>6, <2>7 DEF Step, Crash, Refuse, Update, Commit,
       MarkFailed, Start, FormEvidence, Iterate, LateNotice, Turn, Reply
<1>3. UNCHANGED <<input, api>>
  BY DEF Step, Consume, Refuse, Drop, Lock, Close, Stop, Crash, Restart, Sweep, Update,
     Commit, MarkFailed, Start, FormEvidence, Iterate, LateNotice, Turn, Reply
<1>4. read' \subseteq Chats
  <2>1. \A cursor : UserRows(cursor) \subseteq Chats
    BY UserRowsAreChats DEF JobInv
  <2>2. read \subseteq Chats
    BY <1>1 DEF AroundTypes
  <2>3. read' = read \/ read' = read \union UserRows(0)
        \/ read' = read \union UserRows(work[w].cursor)
    BY DEF Step, Consume, Refuse, Drop, Lock, Close, Stop, Crash, Restart, Sweep, Update,
       Commit, MarkFailed, Start, FormEvidence, Iterate, LateNotice, Turn, Reply, Leave, history
  <2> QED
    BY <2>1, <2>2, <2>3
<1>5. unsaid' \subseteq Chats
  <2>1. CASE UNCHANGED unsaid
    BY <1>1, <2>1 DEF AroundTypes
  <2>2. CASE Refuse(w) \/ Reply(w)
    <3>1. work[w].msg \in Chats
      BY <2>2 DEF Refuse, Reply, JobInv, Fits, Right, MessageRight
    <3>2. unsaid' \in {unsaid, unsaid \union {work[w].msg}}
      BY <2>2 DEF Refuse, Reply, Notifies
    <3> QED
      BY <1>1, <3>1, <3>2 DEF AroundTypes
  <2>3. CASE LateNotice(w)
    BY <1>1, <2>3 DEF AroundTypes, LateNotice, Notifies
  <2> QED
    BY <2>1, <2>2, <2>3 DEF Step, Consume, Drop, Lock, Close, Stop, Crash, Restart, Sweep,
       Update, Commit, MarkFailed, Start, FormEvidence, Iterate, Turn, history
<1>6. faults' \in 0..MaxFaults
  BY <1>1, MoreFaults, NoFaultSoFar DEF AroundTypes
<1> QED
  BY <1>1, <1>2, <1>3, <1>4, <1>5, <1>6 DEF AroundTypes, api

\* The job's own message is sent where it has never been.
LEMMA CreationAround ==
  ASSUME JobInv, [Next]_vars, Api \/ LeaseExpires \/ LeaseLost
  PROVE  /\ AroundTypes' /\ UNCHANGED <<work, request>>
         /\ Waiting' \subseteq Waiting \union {"loop"}
         /\ creation' \in {"stored", "awaiting", "body", "uploaded"} =>
               creation \in {"stored", "awaiting", "body", "uploaded"} /\ Waiting' = Waiting
         /\ creation' = "body" => "state" \notin update'
         /\ update' # {} => creation' \in {"refused", "body"}
         /\ ~Trouble => (creation' = "refused" => creation = "refused")
<1>1. AroundTypes
  BY TypesSplit DEF JobInv
<1>2. Unsent
  BY DEF JobInv
<1>3. faults' \in 0..MaxFaults
  BY <1>1, MoreFaults, NoFaultSoFar DEF AroundTypes
<1>4. CASE Enqueue \/ UploadEnqueue
  <2>1. Waiting = {} /\ update = {}
    BY <1>2, <1>4 DEF Enqueue, UploadEnqueue, Unsent
  <2>2. queue' \in {queue, queue \union {"loop"}} /\ processing' = processing
    BY <1>4 DEF Enqueue, UploadEnqueue
  <2>3. creation' \in {"refused", "done"} /\ (~Trouble => creation' = "done")
    BY <1>4 DEF Enqueue, UploadEnqueue
  <2>4. UNCHANGED <<input, lease, work, update, request, read, unsaid>>
    BY <1>4 DEF Enqueue, UploadEnqueue
  <2> QED
    BY <1>1, <1>3, <2>1, <2>2, <2>3, <2>4 DEF AroundTypes, Waiting, Messages
<1>5. CASE UploadRead
  <2>1. update = {}
    BY <1>2, <1>5 DEF UploadRead, Unsent
  <2> QED
    BY <1>1, <1>3, <1>5, <2>1 DEF UploadRead, AroundTypes, Waiting, broker, history
<1>6. CASE ApiUpdate
  <2>1. Differing(ApiJob) \subseteq Columns
    BY DEF Differing, Columns
  <2>2. /\ creation \in {"refused", "body"} /\ update = {}
        /\ UNCHANGED <<input, queue, processing, lease, work, request, read, unsaid>>
    BY <1>6 DEF ApiUpdate, broker, history
  <2>3. \/ Accepts(ApiJob.state) /\ update' = Differing(ApiJob) /\ creation' = creation
        \/ creation' = "done" /\ update' = update
    BY <1>6 DEF ApiUpdate
  <2>4. Accepts(ApiJob.state) /\ creation = "body" => "state" \notin Differing(ApiJob)
    <3> SUFFICES ASSUME Accepts(ApiJob.state), creation = "body"
                 PROVE  "state" \notin Differing(ApiJob)
      OBVIOUS
    <3>1. ApiJob.state = "received"
      BY ApiJobIs, NewRowIsRow
    <3>2. row.state \in {"received", "failed", Deleted}
      BY <1>2 DEF Unsent
    <3>3. row.state = "received"
      BY <3>1, <3>2 DEF Accepts, Terminal
    <3> QED
      BY <3>1, <3>3 DEF Differing
  <2> QED
    BY <1>1, <1>3, <2>1, <2>2, <2>3, <2>4 DEF AroundTypes, Waiting
<1>7. CASE ApiCommit
  <2>1. creation \in {"refused", "body"} /\ update' = {}
    BY <1>2, <1>7 DEF ApiCommit, Unsent
  <2>2. UNCHANGED <<input, queue, processing, lease, work, request, read, unsaid>>
    BY <1>7 DEF ApiCommit, broker
  <2>3. /\ creation' \in {"uploaded", "done", "awaiting"}
        /\ creation' # "done" => creation = "body"
    BY <1>7 DEF ApiCommit
  <2> QED
    BY <1>1, <1>3, <2>1, <2>2, <2>3 DEF AroundTypes, Waiting
<1>8. CASE Cancel \/ Delete \/ LeaseExpires \/ LeaseLost
  <2>1. UNCHANGED <<input, queue, processing, work, creation, update, request, read, unsaid>>
    BY <1>8 DEF Cancel, Delete, LeaseExpires, LeaseLost, broker, api, history
  <2>2. lease' \in {lease, NoOne}
    BY <1>8 DEF Cancel, Delete, LeaseExpires, LeaseLost, broker
  <2> QED
    BY <1>1, <1>2, <1>3, <2>1, <2>2 DEF AroundTypes, Waiting, Unsent
<1> QED
  BY <1>4, <1>5, <1>6, <1>7, <1>8 DEF Api

\* A turn is queued for a message whose row is there, and once.
LEMMA PostAround ==
  ASSUME JobInv, [Next]_vars, NEW u \in Chats, Post(u)
  PROVE  /\ AroundTypes' /\ UNCHANGED <<work, creation, update, lease, row>>
         /\ \/ Waiting' = Waiting
            \/ /\ Waiting' = Waiting \union {u} /\ request'[u] \in {"sorry", "done"}
               /\ request[u] = "enqueue"
         /\ \A v \in Chats : /\ request[v] \in {"sorry", "done"} => request'[v] \in {"sorry", "done"}
                             /\ v # u => request'[v] = request[v]
         /\ request'[u] \in {"on demand", "enqueue", "sorry"} =>
               row.state \in Eligible \/ request[u] \in {"on demand", "enqueue", "sorry"}
<1>1. AroundTypes
  BY TypesSplit DEF JobInv
<1>2. SentOnce
  BY DEF JobInv
<1>3. faults' \in 0..MaxFaults
  BY <1>1, MoreFaults, NoFaultSoFar DEF AroundTypes
<1>4. UNCHANGED <<input, processing, lease, work, creation, update, read, row>>
  BY DEF Post, PostRead, PostAppend, PostCheck, PostEnqueue, PostSorry, PostTell, broker, store,
     history
<1>5. PICK at \in {"steering", "on demand", "closed", "check", "enqueue", "sorry", "tell", "done"} :
          request' = [request EXCEPT ![u] = at]
  BY DEF Post, PostRead, PostAppend, PostCheck, PostEnqueue, PostSorry, PostTell
<1>6. /\ request' \in [Chats -> {"new", "steering", "on demand", "closed",
                                 "check", "enqueue", "sorry", "tell", "done"}]
      /\ request'[u] = at /\ \A v \in Chats : v # u => request'[v] = request[v]
  BY <1>1, <1>5 DEF AroundTypes
<1>7. unsaid' \subseteq Chats
  BY <1>1 DEF AroundTypes, Post, PostRead, PostAppend, PostCheck, PostEnqueue, PostSorry,
     PostTell, Notifies, history
<1>8. /\ request[u] # "done" /\ (request[u] = "sorry" => request'[u] = "done")
      /\ request'[u] \in {"enqueue", "sorry"} => request[u] \in {"on demand", "enqueue"}
  <2>1. CASE PostRead(u)
    <3>1. request'[u] \in {"steering", "on demand", "closed", "done"} /\ request[u] = "new"
      BY <1>1, <2>1 DEF PostRead, AroundTypes
    <3> QED
      BY <3>1
  <2>2. CASE PostAppend(u)
    <3>1. /\ request'[u] \in {"check", "enqueue", "tell", "done"}
          /\ request'[u] = "enqueue" => request[u] = "on demand"
          /\ request[u] \in {"steering", "on demand", "closed"}
      BY <1>1, <2>2 DEF PostAppend, AroundTypes
    <3> QED
      BY <3>1
  <2>3. CASE PostEnqueue(u)
    <3>1. request'[u] \in {"done", "sorry"} /\ request[u] = "enqueue"
      BY <1>1, <2>3 DEF PostEnqueue, AroundTypes
    <3> QED
      BY <3>1
  <2>4. CASE PostCheck(u) \/ PostSorry(u) \/ PostTell(u)
    <3>1. request'[u] = "done" /\ request[u] \in {"check", "sorry", "tell"}
      BY <1>1, <2>4 DEF PostCheck, PostSorry, PostTell, AroundTypes
    <3> QED
      BY <3>1
  <2> QED
    BY <2>1, <2>2, <2>3, <2>4 DEF Post
<1>9. request'[u] = "on demand" => row.state \in Eligible
  <2>1. CASE PostRead(u)
    <3>1. request'[u] = CASE row.state \in Active -> "steering"
             [] row.state \in Eligible -> "on demand"
             [] row.state = Deleted -> "done"
             [] OTHER -> "closed"
      BY <1>1, <2>1 DEF PostRead, AroundTypes
    <3> QED
      BY <3>1
  <2>2. CASE ~PostRead(u)
    <3>1. request'[u] # "on demand"
      BY <1>1, <2>2 DEF Post, PostAppend, PostCheck, PostEnqueue, PostSorry, PostTell, AroundTypes
    <3> QED
      BY <3>1
  <2> QED
    BY <2>1, <2>2
<1>10. \/ queue' = queue
       \/ /\ queue' = queue \union {u} /\ request'[u] \in {"sorry", "done"}
          /\ request[u] = "enqueue"
  BY <1>1 DEF AroundTypes, Post, PostRead, PostAppend, PostCheck, PostEnqueue, PostSorry,
     PostTell, broker
<1>11. request[u] = "enqueue" => u \notin Waiting
  BY <1>2 DEF SentOnce
<1>12. /\ queue' \subseteq Messages /\ queue' \intersect processing' = {}
       /\ processing' \subseteq Messages
  BY <1>1, <1>4, <1>10, <1>11 DEF AroundTypes, Waiting, Messages
<1>13. \/ Waiting' = Waiting
       \/ /\ Waiting' = Waiting \union {u} /\ request'[u] \in {"sorry", "done"}
          /\ request[u] = "enqueue"
  BY <1>4, <1>10 DEF Waiting
<1>14. AroundTypes'
  BY <1>1, <1>3, <1>4, <1>6, <1>7, <1>12 DEF AroundTypes
<1> QED
  BY <1>4, <1>6, <1>8, <1>9, <1>13, <1>14


\* Before the job's own message is sent, only the sweep ends the job.
LEMMA UnsentRow ==
  ASSUME JobInv, [Next]_vars, creation \in {"stored", "awaiting", "body", "uploaded"}
  PROVE  row'.state \in {"received", "failed", Deleted}
<1>1. /\ row.state \in {"received", "failed", Deleted}
      /\ \A w \in Workers : work[w].msg = NoMessage
  BY DEF JobInv, Unsent
<1>2. ASSUME NEW w \in Workers, Commit(w) PROVE Target(w).state = "failed"
  <2>1. Fits(w) /\ work[w].pc \in Updating
    BY <1>2 DEF Commit, JobInv, Fits, Right
  <2>2. work[w].msg \notin Chats /\ work[w].msg # "loop"
    BY <1>1, ValuesDiffer DEF Messages
  <2>3. work[w].pc = "failing"
    BY <2>1, <2>2 DEF Fits, Right, MessageRight, LoopSteps, Updating
  <2> QED
    BY <2>1, <2>3, TargetIs
<1> QED
  BY <1>1, <1>2, StateWritten

LEMMA AroundStep ==
  ASSUME JobInv, Lasting, [Next]_vars
  PROVE  AroundTypes' /\ Unsent' /\ SentOnce'
<1>1. AroundTypes /\ Unsent /\ SentOnce
  BY TypesSplit DEF JobInv
<1>2. ASSUME NEW w \in Workers, Step(w) \/ Crash(w) \/ Restart(w) \/ Sweep(w)
      PROVE AroundTypes' /\ Unsent' /\ SentOnce'
  <2>1. AroundTypes' /\ Waiting' \subseteq Waiting /\ UNCHANGED api
    BY <1>2, WorkerAround
  <2>2. \A v \in Workers : work'[v].msg \in {work[v].msg, NoMessage} \union queue
    BY OneMoves DEF Takes
  <2>3. SentOnce'
    BY <1>1, <2>1, <2>2, ValuesDiffer DEF SentOnce, Waiting, api
  <2>4. Unsent'
    BY <1>1, <2>1, <2>2, UnsentRow DEF Unsent, Waiting, api
  <2> QED
    BY <2>1, <2>3, <2>4
<1>3. CASE Api \/ LeaseExpires \/ LeaseLost
  <2>1. /\ AroundTypes' /\ UNCHANGED <<work, request>>
        /\ Waiting' \subseteq Waiting \union {"loop"}
        /\ creation' \in {"stored", "awaiting", "body", "uploaded"} =>
              creation \in {"stored", "awaiting", "body", "uploaded"} /\ Waiting' = Waiting
        /\ creation' = "body" => "state" \notin update'
        /\ update' # {} => creation' \in {"refused", "body"}
    BY <1>3, CreationAround
  <2>2. SentOnce'
    BY <1>1, <2>1, ValuesDiffer DEF SentOnce
  <2>3. Unsent'
    BY <1>1, <2>1, UnsentRow DEF Unsent
  <2> QED
    BY <2>1, <2>2, <2>3
<1>4. ASSUME NEW u \in Chats, Post(u) PROVE AroundTypes' /\ Unsent' /\ SentOnce'
  <2>1. /\ AroundTypes' /\ UNCHANGED <<work, creation, update, lease, row>>
        /\ \/ Waiting' = Waiting
           \/ /\ Waiting' = Waiting \union {u} /\ request'[u] \in {"sorry", "done"}
              /\ request[u] = "enqueue"
        /\ \A v \in Chats : /\ request[v] \in {"sorry", "done"} => request'[v] \in {"sorry", "done"}
                            /\ v # u => request'[v] = request[v]
        /\ request'[u] \in {"on demand", "enqueue", "sorry"} =>
              row.state \in Eligible \/ request[u] \in {"on demand", "enqueue", "sorry"}
    BY <1>4, PostAround
  <2>2. SentOnce'
    BY <1>1, <2>1 DEF SentOnce
  <2>3. {"received", "failed", Deleted} \intersect Eligible = {}
    BY DEF Eligible, Deleted
  <2>4. Unsent'
    BY <1>1, <2>1, <2>3 DEF Unsent
  <2> QED
    BY <2>1, <2>2, <2>4
<1>5. CASE UNCHANGED vars
  BY <1>1, <1>5 DEF AroundTypes, Unsent, SentOnce, Waiting, vars, broker, api, store, history
<1> QED
  BY <1>2, <1>3, <1>4, <1>5 DEF Next

-----------------------------------------------------------------------------
\* The lease.

\* While nothing fails, a worker that runs has the lease: it takes it when it is free, and
\* no other releases it.
LEMMA WorkerLease ==
  ASSUME JobInv, Lasting, [Next]_vars, ~Trouble,
         \A w \in Workers : work[w].pc \in Running => lease = w
  PROVE  \A w \in Workers : work'[w].pc \in Running => lease' = w
<1>1. TypeOK /\ work \in [Workers -> Locals] /\ NoOne \notin Workers
  BY NoveltyBounds DEF JobInv, TypeOK, Locals
<1>2. ASSUME work' = work,
             Api \/ (\E u \in Chats : Post(u)) \/ LeaseExpires \/ LeaseLost \/ UNCHANGED vars
      PROVE  \A w \in Workers : work'[w].pc \in Running => lease' = w
  <2>1. Api \/ (\E u \in Chats : Post(u)) \/ UNCHANGED vars => UNCHANGED lease
    BY DEF vars, broker, Api, Enqueue, UploadRead, ApiUpdate, ApiCommit, UploadEnqueue,
       Cancel, Delete, Post, PostRead, PostAppend, PostCheck, PostEnqueue, PostSorry, PostTell
  <2>2. CASE LeaseExpires
    <3>1. lease \in Workers /\ work[lease].pc \notin Running
      BY <1>1, <2>2 DEF LeaseExpires, TypeOK
    <3> QED
      BY <1>2, <3>1
  <2>3. ~LeaseLost
    BY DEF LeaseLost
  <2> QED
    BY <1>2, <2>1, <2>2, <2>3
<1>3. ASSUME NEW w \in Workers, Step(w) \/ Crash(w) \/ Restart(w) \/ Sweep(w),
             NEW l \in Locals, Takes(w, l), work'[w] = l,
             \A v \in Workers \ {w} : work'[v] = work[v]
      PROVE  \A v \in Workers : work'[v].pc \in Running => lease' = v
  <2>1. CASE UNCHANGED lease /\ (work[w].pc \in Running \/ work'[w].pc \notin Running)
    BY <1>3, <2>1
  <2>2. CASE lease = NoOne /\ lease' = w
    BY <1>1, <1>3, <2>2
  <2>3. CASE work[w].pc \in Running /\ work'[w].pc \notin Running
    BY <1>3, <2>3
  <2>4. {"idle", "dead", "drop", "refuse", "lock"} \intersect Running = {}
    BY DEF Running, Updating
  <2>5. ASSUME NEW m \in Messages, Consume(w, m)
        PROVE  UNCHANGED lease /\ work'[w].pc \notin Running
    <3>1. \E k \in Locals : Takes(w, k) /\ k.pc \in {"drop", "refuse", "lock"}
      BY <2>5, ConsumeTakes
    <3> QED
      BY <1>1, <2>4, <2>5, <3>1 DEF Consume, Takes
  <2>6. ASSUME Refuse(w) \/ Drop(w) \/ Close(w) \/ Stop(w) \/ Restart(w)
        PROVE  work'[w].pc \notin Running
    <3>1. \E k \in Locals : Takes(w, k) /\ k.pc \in {"drop", "idle", "dead"}
      <4>1. PICK k \in Locals :
              /\ Takes(w, k)
              /\ k.pc \in {"idle", "dead"} \/ (k.pc = "fail" /\ Sweep(w))
                 \/ (k.pc = "drop" /\ Refuse(w)) \/ (k.pc \in {"close", "failing"} /\ MarkFailed(w))
                 \/ (k.pc \in {"turn", "cancelling", "start"} /\ Lock(w) /\ lease' = w)
        BY <2>6, CallTakes
      <4>2. ~Sweep(w) /\ ~MarkFailed(w) /\ ~Lock(w)
        BY <2>6 DEF Sweep, MarkFailed, Lock, Refuse, Drop, Close, Stop, Restart
      <4> QED
        BY <4>1, <4>2
    <3> QED
      BY <1>1, <2>4, <3>1 DEF Takes
  <2>7. CASE Lock(w)
    <3>1. CASE lease = NoOne
      BY <2>2, <2>7, <3>1 DEF Lock
    <3>2. CASE lease # NoOne
      <4>1. Become(w, Fresh("idle")) /\ UNCHANGED lease
        BY <2>7, <3>2 DEF Lock
      <4>2. work'[w].pc = "idle"
        BY <1>1, <4>1, FreshIsLocal DEF Become, Places
      <4> QED
        BY <2>1, <2>4, <4>1, <4>2
    <3> QED
      BY <3>1, <3>2
  <2>8. CASE Sweep(w)
    BY <2>2, <2>8 DEF Sweep
  <2>9. CASE Close(w) \/ Stop(w)
    BY <2>3, <2>6, <2>9 DEF Close, Stop, Running
  <2>10. CASE Refuse(w) \/ Drop(w) \/ Restart(w)
    BY <2>1, <2>6, <2>10 DEF Refuse, Drop, Restart, broker
  <2>11. ~Crash(w)
    BY DEF Crash
  <2>12. CASE \/ Update(w) \/ Commit(w) \/ MarkFailed(w) \/ Start(w) \/ FormEvidence(w)
              \/ Iterate(w) \/ LateNotice(w) \/ Turn(w) \/ Reply(w)
    <3>1. UNCHANGED lease
      BY <2>12 DEF Update, Commit, MarkFailed, Start, FormEvidence, Iterate, LateNotice, Turn,
         Reply, broker
    <3>2. work[w].pc \in Running
      <4>1. Commit(w) => work[w].pc \in Updating
        BY DEF Commit, JobInv, Fits, Right
      <4> QED
        BY <2>12, <4>1 DEF Update, MarkFailed, Start, FormEvidence, Iterate, LateNotice, Turn,
           Reply, Running
    <3> QED
      BY <2>1, <3>1, <3>2
  <2> QED
    BY <1>3, <2>1, <2>5, <2>7, <2>8, <2>9, <2>10, <2>11, <2>12 DEF Step
<1> QED
  BY <1>2, <1>3, OneMoves

\* While nothing fails, nobody else writes the state of a job that is being written.
LEMMA ExclusiveStep ==
  ASSUME JobInv, Lasting, [Next]_vars
  PROVE  Exclusive'
<1> SUFFICES ASSUME faults' = 0
             PROVE  /\ creation' # "refused"
                    /\ \A w \in Workers :
                          /\ work'[w].pc \in Running => lease' = w
                          /\ "state" \in work'[w].columns => row'.state \in Active \union {Deleted}
                          /\ work'[w].job.state \in Terminal =>
                                row'.state \in {work'[w].job.state, Deleted}
  BY DEF Exclusive
<1>1. faults = 0 /\ ~Trouble
  BY NoFaultSoFar
<1>2. /\ creation # "refused"
      /\ \A w \in Workers :
            /\ work[w].pc \in Running => lease = w
            /\ "state" \in work[w].columns => row.state \in Active \union {Deleted}
            /\ work[w].job.state \in Terminal => row.state \in {work[w].job.state, Deleted}
  BY <1>1 DEF JobInv, Exclusive
<1>3. creation' # "refused"
  <2>1. ASSUME NEW w \in Workers, Step(w) \/ Crash(w) \/ Restart(w) \/ Sweep(w)
        PROVE  UNCHANGED creation
    BY <2>1, WorkerAround DEF api
  <2>2. Api \/ LeaseExpires \/ LeaseLost => (creation' = "refused" => creation = "refused")
    BY <1>1, CreationAround
  <2>3. ASSUME NEW u \in Chats, Post(u) PROVE UNCHANGED creation
    BY <2>3, PostAround
  <2>4. UNCHANGED vars => UNCHANGED creation
    BY DEF vars, api
  <2> QED
    BY <1>2, <2>1, <2>2, <2>3, <2>4 DEF Next
<1>4. \A w \in Workers : work'[w].pc \in Running => lease' = w
  BY <1>1, <1>2, WorkerLease
<1>5. row.state \in Terminal => row'.state \in {row.state, Deleted}
  BY <1>1, FaultlessIsSettled, SettledStays
<1>6. row'.state \in Terminal /\ row.state \notin Terminal =>
        \E w \in Workers : Commit(w) /\ "state" \in work[w].columns
  BY <1>2, StateWritten, StatesDiffer
<1>7. ASSUME NEW v \in Workers, "state" \in work'[v].columns
      PROVE  row'.state \in Active \union {Deleted}
  <2>1. row' \in Rows
    BY StoreEffect, StoreTypes DEF JobInv
  <2>2. row.state \in Active \union {Deleted}
    <3>1. CASE "state" \in work[v].columns
      BY <1>2, <3>1
    <3>2. CASE Accepts(Target(v).state) /\ "state" \in Differing(Target(v))
      <4>1. row.state \notin Terminal
        BY <3>2, DiffersNot
      <4> QED
        BY <4>1 DEF JobInv, TypeOK, Rows
    <3> QED
      BY <1>7, <3>1, <3>2, ColumnsRead
  <2>3. SUFFICES ASSUME row'.state \in Terminal PROVE FALSE
    BY <2>1 DEF Rows
  <2>4. PICK w \in Workers : Commit(w) /\ "state" \in work[w].columns
    BY <1>6, <2>2, <2>3, StatesDiffer
  <2>5. work[w].pc \in Running /\ row' # row
    BY <2>2, <2>3, <2>4, StatesDiffer DEF Commit, JobInv, Fits, Right, Running
  <2>6. CASE v = w
    <3>1. \E k \in Locals : Takes(w, k) /\ k.columns = {}
      BY <2>4, CommitTakes
    <3>2. work'[w].columns = {}
      BY <3>1 DEF Takes, JobInv, TypeOK
    <3> QED
      BY <1>7, <2>6, <3>2
  <2>7. CASE v # w
    <3>1. "state" \in work[v].columns
      BY <1>7, <2>5, ColumnsRead
    <3>2. work[v].pc \in Running
      BY <3>1 DEF JobInv, Fits, Right, Running
    <3> QED
      BY <1>2, <2>5, <2>7, <3>2
  <2> QED
    BY <2>6, <2>7
<1>8. ASSUME NEW v \in Workers, work'[v].job.state \in Terminal
      PROVE  row'.state \in {work'[v].job.state, Deleted}
  <2>1. work'[v].job.state \in {work[v].job.state, row.state}
    BY <1>8, OneMoves, StatesDiffer DEF Takes
  <2>2. row.state \in {work'[v].job.state, Deleted}
    BY <1>2, <1>8, <2>1
  <2> QED
    BY <1>5, <1>8, <2>2 DEF Lasting
<1> QED
  BY <1>3, <1>4, <1>7, <1>8

-----------------------------------------------------------------------------
\* The job.

LEMMA InitJobInv == Init => JobInv
<1> SUFFICES ASSUME Init PROVE JobInv
  OBVIOUS
<1>1. \A w \in Workers : work[w] = Fresh("idle")
  BY DEF Init
<1>2. /\ Fresh("idle") \in Locals /\ Fresh("idle").pc = "idle" /\ Fresh("idle").msg = NoMessage
      /\ Fresh("idle").job = NewRow /\ Fresh("idle").kinds = {}
      /\ Fresh("idle").outcome = "none" /\ Fresh("idle").columns = {}
  BY FreshIsLocal DEF Places
<1>3. work \in [Workers -> Locals]
  BY <1>2 DEF Init
<1>4. 0 \in 0..MaxFaults
  BY BoundsAreNat
<1>5. AroundTypes
  BY <1>4 DEF AroundTypes, Init, Messages
<1>6. row \in Rows /\ row.state = "received" /\ saved = {} /\ chat = << >>
  BY NewRowIsRow DEF Init
<1>7. chat \in Seq(Spoken) /\ chat \in Seq(Entries)
  BY <1>6
<1>8. TypeOK
  BY <1>3, <1>5, <1>6, <1>7, TypesSplit
<1>9. Waiting = {} /\ update = {} /\ creation \in {"awaiting", "stored"}
      /\ \A u \in Chats : request[u] = "new"
  BY DEF Init, Waiting
<1>10. SentOnce
  BY <1>1, <1>2, <1>9, ValuesDiffer DEF SentOnce
<1>11. Unsent
  BY <1>1, <1>2, <1>6, <1>9 DEF Unsent
<1>12. EndIsHonest
  BY <1>6 DEF EndIsHonest, Deleted
<1>13. "received" \in Active /\ NewRow.state = "received"
  BY NewRowIsRow DEF Active
<1>14. Exclusive
  BY <1>1, <1>2, <1>9, <1>13, StatesDiffer DEF Exclusive, Running, Updating
<1>15. \A w \in Workers : Fits(w)
  BY <1>1, <1>2, EmptyIsRight DEF Fits, MessageRight, LoopSteps
<1> QED
  BY <1>7, <1>8, <1>10, <1>11, <1>12, <1>14, <1>15 DEF JobInv

LEMMA NextJobInv ==
  ASSUME JobInv, [Next]_vars
  PROVE  JobInv' /\ Lasting
<1>1. TypeOK /\ EndIsHonest /\ chat \in Seq(Spoken)
  BY DEF JobInv
<1>2. Addition \/ Overwrite \/ Raise \/ Removal
  BY StoreEffect
<1>3. Lasting
  BY <1>1, <1>2, StoreLasts
<1>4. row' \in Rows /\ saved' \subseteq Required /\ chat' \in Seq(Spoken)
  BY <1>1, <1>2, StoreTypes
<1>5. EndIsHonest'
  BY <1>1, <1>2, StoreIsHonest
<1>6. work' \in [Workers -> Locals] /\ \A w \in Workers : Fits(w)'
  BY <1>3, WorkersFit
<1>7. AroundTypes' /\ Unsent' /\ SentOnce'
  BY <1>3, AroundStep
<1>8. chat' \in Seq(Entries)
  BY <1>4, SeqOfSpoken
<1>9. TypeOK'
  BY <1>4, <1>6, <1>7, <1>8 DEF TypeOK, AroundTypes, Locals
<1>10. Exclusive'
  BY <1>3, ExclusiveStep
<1> QED
  BY <1>3, <1>4, <1>5, <1>6, <1>7, <1>9, <1>10 DEF JobInv

\* The job, its snapshots and the queue stay consistent in every behaviour, for any number
\* of workers and messages.
THEOREM JobInvariance == Spec => []JobInv
<1>1. JobInv /\ [Next]_vars => JobInv'
  BY NextJobInv
<1> QED
  BY <1>1, InitJobInv, PTL DEF Spec

\* Every variable keeps its type.
THEOREM NoveltyTypes == Spec => []TypeOK
<1>1. JobInv => TypeOK
  BY DEF JobInv
<1> QED
  BY <1>1, JobInvariance, PTL

\* What the end of a job says is so: a worker decides it some steps before it writes it,
\* from what it remembers, while others write, cancel and delete.
THEOREM EndsAreHonest == Spec => []EndIsHonest
<1>1. JobInv => EndIsHonest
  BY DEF JobInv
<1> QED
  BY <1>1, JobInvariance, PTL

\* An end lasts, although update_job looks at the row one step before it writes it: while
\* nothing fails, the lease keeps other writers of the state away; and once no UPDATE of
\* the state is under way that was made from an earlier row, its check does.
THEOREM EndsStay == Spec => EndStays
<1>1. ASSUME JobInv, [Next]_vars
      PROVE  [/\ row.state = Deleted => row'.state = Deleted
              /\ row.state \in Terminal /\ (Settled \/ faults' = 0) =>
                    \/ row'.state = Deleted
                    \/ row'.state = row.state /\ (Settled => Settled')]_vars
  <2>1. Lasting
    BY <1>1, NextJobInv
  <2>2. row.state \in Terminal /\ faults' = 0 => Settled
    BY <1>1, NoFaultSoFar, FaultlessIsSettled
  <2>3. row.state \in Terminal /\ Settled =>
           row'.state = Deleted \/ (row'.state = row.state /\ Settled')
    BY <1>1, <2>1, SettledStays
  <2> QED
    BY <2>1, <2>2, <2>3 DEF Lasting
<1> QED
  BY <1>1, JobInvariance, PTL DEF Spec, EndStays
-----------------------------------------------------------------------------
\* The conversation.

\* Rows are only added, while the job is there.
Grows ==
    /\ Len(chat) <= Len(chat')
    /\ \A i \in 1..Len(chat) : chat'[i] = chat[i]

LEMMA ChatIsSeq ==
  ASSUME JobInv
  PROVE  /\ chat \in Seq(Spoken) /\ Len(chat) \in Nat /\ DOMAIN chat = 1..Len(chat)
         /\ \A i \in DOMAIN chat : chat[i] \in Spoken
BY DEF JobInv

LEMMA OneRowMore ==
  ASSUME JobInv, NEW by, NEW about, Says(by, about), row.state # Deleted
  PROVE  /\ Len(chat') = Len(chat) + 1 /\ DOMAIN chat' = 1..Len(chat) + 1
         /\ chat'[Len(chat) + 1] = [by |-> by, about |-> about]
         /\ \A i \in 1..Len(chat) : chat'[i] = chat[i]
<1>1. chat' = Append(chat, [by |-> by, about |-> about])
  BY DEF Says, Keeps
<1> QED
  BY <1>1, ChatIsSeq

LEMMA ChatGrows ==
  ASSUME JobInv, JobInv', [Next]_vars, row'.state # Deleted
  PROVE  Grows
<1>1. row.state # Deleted
  BY NextJobInv DEF Lasting
<1>2. Len(chat) \in Nat
  BY ChatIsSeq
<1>3. CASE chat' = chat
  BY <1>2, <1>3 DEF Grows
<1>4. CASE \E e \in Spoken : Says(e.by, e.about)
  <2>1. PICK e \in Spoken : Says(e.by, e.about)
    BY <1>4
  <2>2. Len(chat') = Len(chat) + 1 /\ \A i \in 1..Len(chat) : chat'[i] = chat[i]
    BY <1>1, <2>1, OneRowMore
  <2> QED
    BY <1>2, <2>2 DEF Grows
<1>5. CASE Removal
  BY <1>5 DEF Removal, NewRow
<1> QED
  BY <1>3, <1>4, <1>5, StoreEffect DEF Addition, Overwrite, Raise

\* What is in the conversation stays there.
LEMMA RowsStay ==
  ASSUME JobInv, JobInv', Grows
  PROVE  /\ \A i \in DOMAIN chat : i \in DOMAIN chat' /\ chat'[i] = chat[i]
         /\ \A u : Answered(u) => Answered(u)'
         /\ \A u : u \in UserRows(0) => u \in UserRows(0)'
         /\ \A u \in Chats : AgentFollows(u) => AgentFollows(u)'
<1>1. \A i \in DOMAIN chat : i \in DOMAIN chat' /\ chat'[i] = chat[i]
  <2>1. /\ Len(chat) \in Nat /\ DOMAIN chat = 1..Len(chat)
        /\ Len(chat') \in Nat /\ DOMAIN chat' = 1..Len(chat')
    BY DEF JobInv
  <2> QED
    BY <2>1 DEF Grows
<1>2. \A u : Answered(u) => Answered(u)'
  BY <1>1 DEF Answered
<1>3. \A u : u \in UserRows(0) => u \in UserRows(0)'
  BY <1>1 DEF UserRows
<1>4. \A u \in Chats : AgentFollows(u) => AgentFollows(u)'
  BY <1>1 DEF AgentFollows
<1> QED
  BY <1>1, <1>2, <1>3, <1>4

\* A user's row is where the conversation has it.
LEMMA UserRowIs ==
  ASSUME JobInv, NEW u \in UserRows(0)
  PROVE  \E i \in DOMAIN chat : chat[i] = [by |-> "user", about |-> u]
<1>1. PICK i \in DOMAIN chat : chat[i].by = "user" /\ chat[i].about = u
  BY DEF UserRows
<1>2. chat[i] \in [by : {"user", "agent"}, about : Chats \union {Notice}]
  BY ChatIsSeq DEF Spoken, Entries
<1> QED
  BY <1>1, <1>2

LEMMA UserRowCounts ==
  ASSUME JobInv, NEW u, NEW i \in DOMAIN chat, chat[i] = [by |-> "user", about |-> u]
  PROVE  u \in UserRows(0)
BY ChatIsSeq DEF UserRows

\* An agent's row now, for a message that has its row, follows it.
LEMMA AgentSpeaks ==
  ASSUME JobInv, row.state # Deleted, NEW u \in UserRows(0), NEW about, Says("agent", about)
  PROVE  AgentFollows(u)'
<1>1. PICK i \in DOMAIN chat : chat[i] = [by |-> "user", about |-> u]
  BY UserRowIs
<1>2. /\ DOMAIN chat' = 1..Len(chat) + 1
      /\ chat'[Len(chat) + 1] = [by |-> "agent", about |-> about]
      /\ \A k \in 1..Len(chat) : chat'[k] = chat[k]
  BY OneRowMore
<1>3. Len(chat) \in Nat /\ i \in 1..Len(chat)
  BY ChatIsSeq
<1>4. /\ i \in DOMAIN chat' /\ Len(chat) + 1 \in DOMAIN chat' /\ i < Len(chat) + 1
      /\ chat'[i] = [by |-> "user", about |-> u] /\ chat'[Len(chat) + 1].by = "agent"
  BY <1>1, <1>2, <1>3
<1> QED
  BY <1>4 DEF AgentFollows

\* A message that is answered was followed by the answer.
LEMMA AnswerFollows ==
  ASSUME ChatFits, row.state # Deleted, NEW u \in Chats, Answered(u)
  PROVE  AgentFollows(u)
<1>1. PICK j \in DOMAIN chat : chat[j] = [by |-> "agent", about |-> u]
  BY DEF Answered
<1>2. PICK i \in DOMAIN chat : i < j /\ chat[i] = [by |-> "user", about |-> u]
  BY <1>1 DEF ChatFits
<1> QED
  BY <1>1, <1>2 DEF AgentFollows

\* The rows of a conversation that grew are those before or the one that was said.
LEMMA NewRowsAreSaid ==
  ASSUME JobInv, NEW by, NEW about, Says(by, about), row.state # Deleted,
         NEW j \in DOMAIN chat'
  PROVE  j \in DOMAIN chat \/ (chat'[j] = [by |-> by, about |-> about] /\ j = Len(chat) + 1)
<1>1. /\ DOMAIN chat' = 1..Len(chat) + 1
      /\ chat'[Len(chat) + 1] = [by |-> by, about |-> about]
  BY OneRowMore
<1>2. Len(chat) \in Nat /\ DOMAIN chat = 1..Len(chat)
  BY ChatIsSeq
<1>3. j \in 1..Len(chat) \/ j = Len(chat) + 1
  BY <1>1, <1>2
<1> QED
  BY <1>1, <1>2, <1>3

Posted == {"check", "enqueue", "sorry", "tell", "done"}

\* A message is posted by its row.
LEMMA PostingSays ==
  ASSUME JobInv, [Next]_vars, row.state # Deleted, NEW u \in Chats,
         request[u] \notin Posted, request'[u] \in Posted
  PROVE  Says("user", u)
<1>1. request' # request
  BY DEF Posted
<1>2. PICK v \in Chats : Post(v)
  <2>1. \A w \in Workers : Step(w) \/ Crash(w) \/ Restart(w) \/ Sweep(w) => request' = request
    BY WorkerAround DEF api
  <2>2. Api \/ LeaseExpires \/ LeaseLost => request' = request
    BY CreationAround
  <2>3. UNCHANGED vars => request' = request
    BY DEF vars, api
  <2> QED
    BY <1>1, <2>1, <2>2, <2>3 DEF Next
<1>3. DOMAIN request = Chats
  BY DEF JobInv, TypeOK
<1>4. v = u
  <2>1. \E at : request' = [request EXCEPT ![v] = at]
    BY <1>2 DEF Post, PostRead, PostAppend, PostCheck, PostEnqueue, PostSorry, PostTell
  <2> QED
    BY <1>3, <2>1
<1>5. CASE PostRead(u)
  <2>1. request'[u] \in {"steering", "on demand", "closed"}
    BY <1>3, <1>5 DEF PostRead
  <2> QED
    BY <2>1 DEF Posted
<1>6. CASE PostAppend(u)
  BY <1>6 DEF PostAppend
<1>7. CASE PostCheck(u) \/ PostEnqueue(u) \/ PostSorry(u) \/ PostTell(u)
  BY <1>7 DEF PostCheck, PostEnqueue, PostSorry, PostTell, Posted
<1> QED
  BY <1>2, <1>4, <1>5, <1>6, <1>7 DEF Post

\* What is added is a user's row, a notice, or an answer to a message that has its row.
LEMMA WhatIsSaid ==
  ASSUME JobInv, ChatFits, [Next]_vars, row.state # Deleted
  PROVE  \/ chat' = chat
         \/ row'.state = Deleted
         \/ \E u \in Chats : Says("user", u)
         \/ \E about \in UserRows(0) \union {Notice} : Says("agent", about)
<1>1. ASSUME NEW u \in Chats, Post(u), chat' # chat
      PROVE  \/ Says("user", u)
             \/ \E about \in UserRows(0) \union {Notice} : Says("agent", about)
  <2>1. CASE PostRead(u) \/ PostEnqueue(u)
    BY <1>1, <2>1 DEF PostRead, PostEnqueue, store
  <2>2. CASE PostAppend(u)
    BY <2>2 DEF PostAppend
  <2>3. CASE PostCheck(u) \/ PostSorry(u)
    <3>1. u \in UserRows(0)
      BY <2>3 DEF PostCheck, PostSorry, ChatFits
    <3>2. Says("agent", u)
      BY <1>1, <2>3 DEF PostCheck, PostSorry, Notifies
    <3> QED
      BY <3>1, <3>2
  <2>4. CASE PostTell(u)
    BY <1>1, <2>4 DEF PostTell, Notifies
  <2> QED
    BY <1>1, <2>1, <2>2, <2>3, <2>4 DEF Post
<1>2. ASSUME NEW w \in Workers, Step(w), chat' # chat
      PROVE  \E about \in UserRows(0) \union {Notice} : Says("agent", about)
  <2>1. Refuse(w) \/ LateNotice(w) \/ Reply(w)
    BY <1>2 DEF Step, Consume, Lock, Drop, Close, Stop, Update, Commit, MarkFailed, Start,
       FormEvidence, Iterate, Turn, store
  <2>2. CASE Refuse(w) \/ LateNotice(w)
    BY <1>2, <2>2 DEF Refuse, LateNotice, Notifies
  <2>3. CASE Reply(w)
    <3>1. work[w].msg \in Chats
      BY <2>3 DEF Reply, JobInv, Fits, Right, MessageRight
    <3>2. work[w].msg \in UserRows(0)
      BY <3>1 DEF JobInv, SentOnce, ChatFits
    <3> QED
      BY <1>2, <2>3, <3>2 DEF Reply, Notifies
  <2> QED
    BY <2>1, <2>2, <2>3
<1>3. Delete => row'.state = Deleted
  BY DEF Delete, NewRow
<1>4. ASSUME NEW w \in Workers, Crash(w) \/ Restart(w) \/ Sweep(w) PROVE chat' = chat
  BY <1>4 DEF Crash, Restart, Sweep, store
<1>5. CASE \/ Enqueue \/ UploadRead \/ ApiUpdate \/ ApiCommit \/ UploadEnqueue
           \/ Cancel \/ LeaseExpires \/ LeaseLost \/ UNCHANGED vars
  BY <1>5 DEF Enqueue, UploadRead, ApiUpdate, ApiCommit, UploadEnqueue, Cancel,
     LeaseExpires, LeaseLost, vars, store
<1> QED
  BY <1>1, <1>2, <1>3, <1>4, <1>5 DEF Next, Api

LEMMA ChatFitsStep ==
  ASSUME JobInv, JobInv', ChatFits, [Next]_vars
  PROVE  ChatFits'
<1> SUFFICES ASSUME row'.state # Deleted
             PROVE  /\ \A u \in Chats : request'[u] \in Posted => u \in UserRows(0)'
                    /\ \A j \in DOMAIN chat', u \in Chats :
                          chat'[j] = [by |-> "agent", about |-> u] =>
                             \E i \in DOMAIN chat' :
                                i < j /\ chat'[i] = [by |-> "user", about |-> u]
  BY DEF ChatFits, Posted
<1>1. row.state # Deleted /\ Grows
  BY NextJobInv, ChatGrows DEF Lasting
<1>2. /\ \A i \in DOMAIN chat : i \in DOMAIN chat' /\ chat'[i] = chat[i]
      /\ \A u : u \in UserRows(0) => u \in UserRows(0)'
  BY <1>1, RowsStay
<1>3. ASSUME NEW u \in Chats, request'[u] \in Posted PROVE u \in UserRows(0)'
  <2>1. CASE request[u] \in Posted
    BY <1>1, <1>2, <2>1 DEF ChatFits, Posted
  <2>2. CASE request[u] \notin Posted
    <3>1. Says("user", u)
      BY <1>1, <1>3, <2>2, PostingSays
    <3>2. /\ DOMAIN chat' = 1..Len(chat) + 1
          /\ chat'[Len(chat) + 1] = [by |-> "user", about |-> u]
      BY <1>1, <3>1, OneRowMore
    <3>3. Len(chat) \in Nat
      BY ChatIsSeq
    <3>4. /\ Len(chat) + 1 \in DOMAIN chat' /\ Len(chat) + 1 > 0
          /\ chat'[Len(chat) + 1].by = "user" /\ chat'[Len(chat) + 1].about = u
      BY <3>2, <3>3
    <3> QED
      BY <3>4 DEF UserRows
  <2> QED
    BY <2>1, <2>2
<1>4. ASSUME NEW j \in DOMAIN chat', NEW u \in Chats,
             chat'[j] = [by |-> "agent", about |-> u]
      PROVE  \E i \in DOMAIN chat' : i < j /\ chat'[i] = [by |-> "user", about |-> u]
  <2>1. CASE j \in DOMAIN chat
    <3>1. PICK i \in DOMAIN chat : i < j /\ chat[i] = [by |-> "user", about |-> u]
      BY <1>1, <1>2, <1>4, <2>1 DEF ChatFits
    <3> QED
      BY <1>2, <3>1
  <2>2. CASE j \notin DOMAIN chat
    <3>1. PICK by, about : /\ Says(by, about)
                           /\ by = "agent" => about \in UserRows(0) \union {Notice}
      BY <1>1, <2>2, WhatIsSaid
    <3>2. chat'[j] = [by |-> by, about |-> about] /\ j = Len(chat) + 1
      BY <1>1, <2>2, <3>1, NewRowsAreSaid
    <3>3. by = "agent" /\ about = u
      BY <1>4, <3>2
    <3>4. u # Notice
      BY NoveltyBounds
    <3>5. PICK i \in DOMAIN chat : chat[i] = [by |-> "user", about |-> u]
      BY <3>1, <3>3, <3>4, UserRowIs
    <3>6. i < j
      BY <3>2, ChatIsSeq
    <3> QED
      BY <1>2, <3>5, <3>6
  <2> QED
    BY <2>1, <2>2
<1> QED
  BY <1>3, <1>4

\* What a worker has seen of the conversation stays true.
LEMMA ReadGrows ==
  ASSUME [Next]_vars
  PROVE  read \subseteq read'
<1>1. ASSUME NEW w \in Workers, Step(w) \/ Crash(w) \/ Restart(w) \/ Sweep(w)
      PROVE  read \subseteq read'
  BY <1>1 DEF Step, Consume, Refuse, Drop, Lock, Close, Stop, Crash, Restart, Sweep, Update,
     Commit, MarkFailed, Start, FormEvidence, Iterate, LateNotice, Turn, Reply, Leave, history
<1>2. ASSUME NEW u \in Chats, Post(u) PROVE read' = read
  BY <1>2 DEF Post, PostRead, PostAppend, PostCheck, PostEnqueue, PostSorry, PostTell, history
<1>3. CASE Api \/ LeaseExpires \/ LeaseLost \/ UNCHANGED vars
  BY <1>3 DEF Api, Enqueue, UploadRead, ApiUpdate, ApiCommit, UploadEnqueue, Cancel,
     Delete, LeaseExpires, LeaseLost, vars, history
<1> QED
  BY <1>1, <1>2, <1>3 DEF Next


-----------------------------------------------------------------------------
\* What a worker has seen of the conversation, and said in it.

\* A user's row is before a cursor or among the rows after it.
LEMMA UserRowFound ==
  ASSUME JobInv, NEW i \in DOMAIN chat, chat[i].by = "user", NEW cursor \in Nat
  PROVE  chat[i].about \in UserRows(0) /\ (i <= cursor \/ chat[i].about \in UserRows(cursor))
<1>1. i \in Nat /\ i > 0
  BY ChatIsSeq
<1>2. i <= cursor \/ i > cursor
  BY <1>1
<1> QED
  BY <1>1, <1>2 DEF UserRows

\* A cursor that stays where it was, or goes to the end with what was read.
LEMMA CursorFits ==
  ASSUME JobInv, JobInv', [Next]_vars, NEW w \in Workers, DrainedFits(w),
         row'.state # Deleted, NEW cursor \in Nat,
         \/ cursor \in {0, work[w].cursor}
         \/ /\ cursor = Len(chat) /\ chat' = chat
            /\ read' \in {read \union UserRows(0), read \union UserRows(work[w].cursor)}
  PROVE  /\ cursor <= Len(chat')
         /\ \A i \in DOMAIN chat' : i <= cursor /\ chat'[i].by = "user" => chat'[i].about \in read'
<1>1. row.state # Deleted /\ Grows
  BY NextJobInv, ChatGrows DEF Lasting
<1>2. /\ work[w].cursor <= Len(chat) /\ work[w].cursor \in Nat
      /\ \A i \in DOMAIN chat :
            i <= work[w].cursor /\ chat[i].by = "user" => chat[i].about \in read
  BY <1>1, WorkerTypes DEF DrainedFits, JobInv, Locals
<1>3. /\ Len(chat) \in Nat /\ DOMAIN chat = 1..Len(chat)
      /\ Len(chat') \in Nat /\ DOMAIN chat' = 1..Len(chat')
  BY DEF JobInv
<1>4. Len(chat) <= Len(chat') /\ \A i \in 1..Len(chat) : chat'[i] = chat[i]
  BY <1>1 DEF Grows
<1>5. CASE cursor = 0
  BY <1>3, <1>5
<1>6. CASE cursor = work[w].cursor
  <2>1. cursor <= Len(chat')
    BY <1>2, <1>3, <1>4, <1>6
  <2>2. ASSUME NEW i \in DOMAIN chat', i <= cursor, chat'[i].by = "user"
        PROVE  chat'[i].about \in read'
    <3>1. i \in 1..Len(chat)
      BY <1>2, <1>3, <1>6, <2>2
    <3> QED
      BY <1>2, <1>3, <1>4, <1>6, <2>2, <3>1, ReadGrows
  <2> QED
    BY <2>1, <2>2
<1>7. CASE /\ cursor = Len(chat) /\ chat' = chat
           /\ read' \in {read \union UserRows(0), read \union UserRows(work[w].cursor)}
  <2>1. ASSUME NEW i \in DOMAIN chat, chat[i].by = "user" PROVE chat[i].about \in read'
    <3>1. /\ chat[i].about \in UserRows(0)
          /\ i <= work[w].cursor \/ chat[i].about \in UserRows(work[w].cursor)
      BY <1>2, <2>1, UserRowFound
    <3> QED
      BY <1>2, <1>7, <2>1, <3>1
  <2> QED
    BY <1>3, <1>7, <2>1
<1> QED
  BY <1>5, <1>6, <1>7

\* A turn that is about to be acknowledged was answered, unless the reply was lost.
LEMMA TurnIsAnswered ==
  ASSUME JobInv, JobInv', ChatFits, [Next]_vars, row'.state # Deleted, faults' = 0,
         NEW w \in Workers, DrainedFits(w),
         Step(w) \/ Crash(w) \/ Restart(w) \/ Sweep(w),
         NEW u \in Chats, work'[w].msg = u, work'[w].pc \in {"settle", "close", "drop"}
  PROVE  AgentFollows(u)'
<1>1. row.state # Deleted /\ Lasting /\ faults = 0 /\ ~Trouble
  BY NextJobInv, NoFaultSoFar DEF Lasting
<1>2. ASSUME AgentFollows(u) PROVE AgentFollows(u)'
  BY <1>2, ChatGrows, RowsStay
<1>3. work \in [Workers -> Locals] /\ u # "loop" /\ u # NoMessage
  BY WorkerTypes, ValuesDiffer DEF JobInv
<1>4. CASE work[w].msg = u /\ work[w].pc \in {"settle", "close", "drop"}
  BY <1>1, <1>2, <1>4 DEF DrainedFits
<1>5. ASSUME work[w].msg = u, NEW about, Says("agent", about)
      PROVE  AgentFollows(u)'
  <2>1. u \in UserRows(0)
    BY <1>1, <1>5 DEF JobInv, SentOnce, ChatFits
  <2> QED
    BY <1>1, <1>5, <2>1, AgentSpeaks
<1>6. work[w].msg = u =>
         /\ work[w].pc \notin LoopSteps \union {"fail", "failing", "stop"}
  BY <1>3 DEF JobInv, Fits, Right, MessageRight
<1>7. ASSUME NEW m \in Messages, Consume(w, m) PROVE AgentFollows(u)'
  <2>1. PICK l \in Locals : /\ Takes(w, l) /\ l.pc \in {"drop", "refuse", "lock"} /\ l.msg = m
                            /\ l.pc = "drop" /\ m \in Chats => row.state = Deleted \/ Answered(m)
    BY <1>7, ConsumeTakes
  <2>2. work'[w] = l
    BY <1>3, <2>1 DEF Takes
  <2>3. Answered(u)
    BY <1>1, <2>1, <2>2
  <2> QED
    BY <1>1, <1>2, <2>3, AnswerFollows
<1>8. CASE \/ Lock(w) \/ Refuse(w) \/ Drop(w) \/ Close(w) \/ Stop(w) \/ MarkFailed(w)
           \/ Crash(w) \/ Restart(w) \/ Sweep(w)
  <2>1. PICK l \in Locals :
            /\ Takes(w, l)
            /\ l.pc \in {"idle", "dead"} \/ (l.pc = "fail" /\ Sweep(w))
               \/ (l.pc = "drop" /\ Refuse(w)) \/ (l.pc \in {"close", "failing"} /\ MarkFailed(w))
               \/ (l.pc \in {"turn", "cancelling", "start"} /\ Lock(w) /\ lease' = w)
            /\ l.pc \in {"drop", "close", "failing", "turn", "cancelling", "start"} =>
                  l.msg = work[w].msg
    BY <1>1, <1>8, CallTakes
  <2>2. work'[w] = l
    BY <1>3, <2>1 DEF Takes
  <2>3. work[w].msg = u /\ (Refuse(w) \/ MarkFailed(w))
    BY <2>1, <2>2
  <2>4. ~MarkFailed(w)
    BY <1>6, <2>3 DEF MarkFailed
  <2>5. Says("agent", Notice)
    BY <1>1, <2>3, <2>4 DEF Refuse, Notifies
  <2> QED
    BY <1>5, <2>3, <2>5
<1>9. CASE Update(w) \/ Commit(w)
  <2>1. PICK l \in Locals : /\ Takes(w, l) /\ l.msg = work[w].msg
                            /\ l.pc \in {work[w].pc, After(w, TRUE), After(w, FALSE)}
    BY <1>1, <1>9, UpdateTakes, CommitTakes
  <2>2. work'[w] = l
    BY <1>3, <2>1 DEF Takes
  <2>3. work[w].pc \in Updating /\ work[w].outcome \in Terminal \union {"none"}
    BY <1>3, <1>9 DEF Update, Commit, JobInv, Fits, Right, Locals
  <2>4. {work[w].pc, After(w, TRUE), After(w, FALSE)} \intersect {"settle", "close", "drop"} # {}
          => work[w].pc \in {"cancelling", "settle", "failing"}
    BY <2>3, AfterIs DEF Updating
  <2>5. work[w].pc = "settle"
    BY <1>6, <2>1, <2>2, <2>4 DEF LoopSteps
  <2> QED
    BY <1>4, <2>1, <2>2, <2>5
<1>10. CASE Start(w) \/ FormEvidence(w) \/ Iterate(w) \/ LateNotice(w)
  <2>1. \E l \in Locals : Takes(w, l) /\ l.msg = work[w].msg
    BY <1>1, <1>10, StartTakes, FormEvidenceTakes, IterateTakes, SpeaksTakes
  <2>2. work[w].msg = u
    BY <1>3, <2>1 DEF Takes
  <2>3. work[w].pc \in LoopSteps
    BY <1>10 DEF Start, FormEvidence, Iterate, LateNotice, LoopSteps
  <2> QED
    BY <1>6, <2>2, <2>3
<1>11. CASE Turn(w)
  <2>1. \E l \in Locals : Takes(w, l) /\ l.pc = "reply"
    BY <1>1, <1>11, TurnTakes
  <2>2. work'[w].pc = "reply"
    BY <1>3, <2>1 DEF Takes
  <2> QED
    BY <2>2
<1>12. CASE Reply(w)
  <2>1. \E l \in Locals : Takes(w, l) /\ l.msg = work[w].msg
    BY <1>1, <1>12, SpeaksTakes
  <2>2. work[w].msg = u
    BY <1>3, <2>1 DEF Takes
  <2>3. Says("agent", work[w].msg)
    BY <1>1, <1>12 DEF Reply, Notifies
  <2> QED
    BY <1>5, <2>2, <2>3
<1> QED
  BY <1>7, <1>8, <1>9, <1>10, <1>11, <1>12 DEF Step

LEMMA DrainedStep ==
  ASSUME JobInv, JobInv', ChatFits, [Next]_vars, \A w \in Workers : DrainedFits(w)
  PROVE  \A w \in Workers : DrainedFits(w)'
<1> SUFFICES ASSUME NEW v \in Workers, row'.state # Deleted
             PROVE  /\ work'[v].pc \in {"settle", "close", "drop"} /\ work'[v].msg \in Chats =>
                          AgentFollows(work[v].msg)' \/ faults' # 0
                    /\ work'[v].cursor <= Len(chat')
                    /\ \A i \in DOMAIN chat' : i <= work'[v].cursor /\ chat'[i].by = "user"
                          => chat'[i].about \in read'
  BY DEF DrainedFits
<1>1. row.state # Deleted /\ Lasting
  BY NextJobInv DEF Lasting
<1>2. work'[v].cursor \in Nat
  BY DEF JobInv, TypeOK
<1>3. ASSUME NEW u \in Chats, work'[v].msg = u, work'[v].pc \in {"settle", "close", "drop"},
             faults' = 0
      PROVE  AgentFollows(u)'
  <2>1. CASE work'[v] = work[v]
    <3>1. AgentFollows(u)
      BY <1>1, <1>3, <2>1, NoFaultSoFar DEF DrainedFits
    <3> QED
      BY <3>1, ChatGrows, RowsStay
  <2>2. CASE Step(v) \/ Crash(v) \/ Restart(v) \/ Sweep(v)
    BY <1>3, <2>2, TurnIsAnswered
  <2> QED
    BY <1>1, <2>1, <2>2, OneMoves
<1>4. ASSUME work'[v].pc \in {"settle", "close", "drop"}, work'[v].msg \in Chats, faults' = 0
      PROVE  AgentFollows(work[v].msg)'
  <2>1. PICK u \in Chats : work'[v].msg = u
    BY <1>4
  <2>2. AgentFollows(u)'
    BY <1>3, <1>4, <2>1
  <2> QED
    BY <2>1, <2>2 DEF AgentFollows
<1>5. \/ work'[v].cursor \in {0, work[v].cursor}
      \/ /\ work'[v].cursor = Len(chat) /\ chat' = chat
         /\ read' \in {read \union UserRows(0), read \union UserRows(work[v].cursor)}
  BY <1>1, OneMoves DEF Takes
<1>6. ASSUME NEW cursor \in Nat, work'[v].cursor = cursor
      PROVE  /\ cursor <= Len(chat')
             /\ \A i \in DOMAIN chat' : i <= cursor /\ chat'[i].by = "user"
                   => chat'[i].about \in read'
  BY <1>5, <1>6, CursorFits
<1> QED
  BY <1>2, <1>4, <1>6

-----------------------------------------------------------------------------
\* A message accepted while the loop ends.

\* While nothing fails, only the loop's own last write makes a job completed or partial.
LEMMA EndMakesEligible ==
  ASSUME JobInv, [Next]_vars, faults' = 0, row.state \notin Eligible, row'.state \in Eligible
  PROVE  /\ row.state # Deleted /\ request' = request /\ chat' = chat
         /\ \E w \in Workers : work'[w].pc = "late" /\ work'[w].cursor = work[w].cursor
<1>1. Lasting /\ faults = 0
  BY NextJobInv, NoFaultSoFar
<1>2. {"received", "investigating", "reporting", "failed", "cancelled", Deleted}
        \intersect Eligible = {}
  BY DEF Eligible, Deleted
<1>3. PICK w \in Workers : Commit(w) /\ row.state # Deleted /\ row'.state = Target(w).state
  BY <1>2, StateWritten
<1>4. request' = request /\ chat' = chat
  BY <1>3 DEF Commit, api
<1>5. work[w].pc \in Updating /\ work[w].outcome \in Terminal \union {"none"}
  BY <1>3, WorkerTypes DEF Commit, JobInv, Fits, Right, Locals
<1>6. work[w].pc # "settle"
  <2> SUFFICES ASSUME work[w].pc = "settle" PROVE FALSE
    OBVIOUS
  <2>1. Target(w).state = work[w].job.state
    BY <1>5, TargetIs
  <2>2. work[w].job.state \in Terminal
    BY <1>3, <2>1, StatesDiffer
  <2>3. row.state = work[w].job.state
    BY <1>1, <1>3, <2>2 DEF JobInv, Exclusive
  <2> QED
    BY <1>3, <2>1, <2>3
<1>7. work[w].pc = "end"
  BY <1>2, <1>3, <1>5, <1>6, TargetIs DEF Updating
<1>8. After(w, TRUE) = "late" /\ After(w, FALSE) = "late"
  BY <1>5, <1>7, AfterIs
<1>9. PICK k \in Locals : Takes(w, k) /\ k.pc = "late" /\ k.cursor = work[w].cursor
  BY <1>1, <1>3, <1>8, CommitTakes
<1>10. work'[w] = k
  BY <1>9 DEF Takes, JobInv, TypeOK
<1> QED
  BY <1>3, <1>4, <1>9, <1>10

\* A message leaves the queue for good when it is answered, a lost reply aside.
LEMMA WaitingEnds ==
  ASSUME JobInv, \A w \in Workers : DrainedFits(w), [Next]_vars, row'.state # Deleted,
         faults = 0, NEW u \in Chats, u \in Waiting, u \notin Waiting'
  PROVE  AgentFollows(u)
<1>1. row.state # Deleted
  BY NextJobInv DEF Lasting
<1>2. ASSUME NEW w \in Workers, Close(w) \/ Drop(w) PROVE AgentFollows(u)
  <2>1. work[w].msg = u /\ work[w].pc \in {"close", "drop"}
    BY <1>2 DEF Close, Drop, Waiting
  <2> QED
    BY <1>1, <2>1 DEF DrainedFits
<1>3. ASSUME NEW w \in Workers, \/ \E m \in Messages : Consume(w, m)
                                \/ Lock(w) \/ Restart(w)
      PROVE  FALSE
  BY <1>3 DEF Consume, Lock, Restart, Waiting
<1>4. ASSUME queue \subseteq queue', processing' = processing PROVE FALSE
  BY <1>4 DEF Waiting
<1>5. ASSUME NEW w \in Workers, Step(w) PROVE AgentFollows(u)
  BY <1>2, <1>3, <1>4, <1>5 DEF Step, Refuse, Stop, Update, Commit, MarkFailed, Start,
     FormEvidence, Iterate, LateNotice, Turn, Reply, broker
<1>6. ASSUME \/ Api \/ LeaseExpires \/ LeaseLost \/ UNCHANGED vars
             \/ \E v \in Chats : Post(v)
             \/ \E w \in Workers : Crash(w) \/ Sweep(w)
      PROVE  FALSE
  <2>1. queue \subseteq queue' /\ processing' = processing
    BY <1>6 DEF Api, Enqueue, UploadRead, ApiUpdate, ApiCommit, UploadEnqueue, Cancel,
       Delete, LeaseExpires, LeaseLost, Crash, Sweep, Post, PostRead, PostAppend, PostCheck,
       PostEnqueue, PostSorry, PostTell, vars, broker
  <2> QED
    BY <1>4, <2>1
<1> QED
  BY <1>3, <1>5, <1>6 DEF Next

\* A loop that has ended looks for late messages, unless it is stopped before.
LEMMA LateLooks ==
  ASSUME JobInv, JobInv', [Next]_vars, row'.state # Deleted,
         NEW u \in Chats, NEW w \in Workers, LooksAt(w, u)
  PROVE  LooksAt(w, u)' \/ LateNotice(w) \/ Crash(w)
<1>1. Grows /\ Lasting
  BY ChatGrows, NextJobInv
<1>2. \A i \in DOMAIN chat : i \in DOMAIN chat' /\ chat'[i] = chat[i]
  BY <1>1, RowsStay
<1>3. work[w].pc = "late" /\ work[w].columns = {}
  BY DEF LooksAt, JobInv, Fits, Right, Updating
<1>4. CASE work'[w] = work[w]
  BY <1>2, <1>4 DEF LooksAt
<1>5. CASE Step(w) \/ Restart(w) \/ Sweep(w)
  BY <1>3, <1>5 DEF Step, Restart, Sweep, Consume, Refuse, Drop, Lock, Close, Stop, Update,
     Updating, Commit, MarkFailed, Start, FormEvidence, Iterate, Turn, Reply
<1> QED
  BY <1>1, <1>4, <1>5, OneMoves

\* Posting ends with the message queued, or with an agent's row after it, when the job has
\* ended; a fault aside.
LEMMA PostingEnds ==
  ASSUME JobInv, JobInv', ChatFits, [Next]_vars, ~Trouble, row.state \in Eligible, row' = row,
         NEW u \in Chats, Post(u), request'[u] = "done"
  PROVE  u \in Waiting' \/ AgentFollows(u)'
<1>1. row.state # Deleted /\ row.state \in Terminal /\ row.state \notin Active
  BY StatesDiffer
<1>2. DOMAIN request = Chats
  BY DEF JobInv, TypeOK
<1>3. ~PostRead(u)
  <2>1. PostRead(u) => request'[u] \in {"steering", "on demand", "closed"}
    BY <1>1, <1>2 DEF PostRead
  <2> QED
    BY <2>1
<1>4. ~PostAppend(u)
  <2>1. PostAppend(u) => request'[u] \in {"check", "enqueue", "tell"}
    BY <1>1, <1>2 DEF PostAppend
  <2> QED
    BY <2>1
<1>5. PostCheck(u) \/ PostEnqueue(u) \/ PostSorry(u) \/ PostTell(u)
  BY <1>3, <1>4 DEF Post
<1>6. u \in UserRows(0)
  BY <1>1, <1>5 DEF PostCheck, PostEnqueue, PostSorry, PostTell, ChatFits
<1>7. CASE PostCheck(u) /\ Followed(u)
  <2>1. chat' = chat
    BY <1>7 DEF PostCheck
  <2>2. AgentFollows(u)
    BY <1>7 DEF Followed, AgentFollows
  <2> QED
    BY <2>1, <2>2 DEF AgentFollows
<1>8. CASE PostCheck(u) /\ ~Followed(u)
  <2>1. Says("agent", u)
    BY <1>1, <1>8 DEF PostCheck, Notifies
  <2> QED
    BY <1>1, <1>6, <2>1, AgentSpeaks
<1>9. CASE PostEnqueue(u)
  <2>1. queue' = queue \union {u}
    BY <1>9 DEF PostEnqueue
  <2> QED
    BY <2>1 DEF Waiting
<1>10. CASE PostSorry(u) \/ PostTell(u)
  <2>1. \E about : Says("agent", about)
    BY <1>10 DEF PostSorry, PostTell, Notifies
  <2> QED
    BY <1>1, <1>6, <2>1, AgentSpeaks
<1> QED
  BY <1>5, <1>7, <1>8, <1>9, <1>10

LEMMA SteeringStep ==
  ASSUME JobInv, JobInv', ChatInv, [Next]_vars
  PROVE  SteeringInv'
<1> SUFFICES ASSUME faults' = 0, row'.state \in Eligible,
                    NEW u \in Chats, request'[u] = "done"
             PROVE  Noticed(u)'
  BY DEF SteeringInv
<1>1. faults = 0 /\ ~Trouble
  BY NoFaultSoFar
<1>2. row'.state # Deleted /\ row.state # Deleted
  BY StatesDiffer, NextJobInv DEF Lasting
<1>3. /\ \A i \in DOMAIN chat : i \in DOMAIN chat' /\ chat'[i] = chat[i]
      /\ AgentFollows(u) => AgentFollows(u)'
  BY <1>2, ChatGrows, RowsStay
<1>4. CASE row.state \notin Eligible
  <2>1. request' = request /\ chat' = chat
    BY <1>4, EndMakesEligible
  <2>2. PICK w \in Workers : work'[w].pc = "late" /\ work'[w].cursor = work[w].cursor
    BY <1>4, EndMakesEligible
  <2>3. u \in UserRows(0)
    BY <1>2, <2>1 DEF ChatInv, ChatFits
  <2>4. PICK i \in DOMAIN chat : chat[i] = [by |-> "user", about |-> u]
    BY <2>3, UserRowIs
  <2>5. CASE i <= work[w].cursor
    <3>1. u \in read
      BY <1>2, <2>4, <2>5 DEF ChatInv, DrainedFits
    <3> QED
      BY <3>1, ReadGrows DEF Noticed
  <2>6. CASE ~(i <= work[w].cursor)
    <3>1. work[w].cursor \in Nat
      BY WorkerTypes DEF JobInv, Locals
    <3>2. work[w].cursor < i
      BY <2>6, <3>1, ChatIsSeq
    <3>3. LooksAt(w, u)'
      BY <2>1, <2>2, <2>4, <3>2 DEF LooksAt
    <3> QED
      BY <3>3 DEF Noticed
  <2> QED
    BY <2>5, <2>6
<1>5. CASE row.state \in Eligible /\ request[u] = "done"
  <2>1. Noticed(u)
    BY <1>1, <1>5 DEF ChatInv, SteeringInv
  <2>2. CASE u \in read
    BY <2>2, ReadGrows DEF Noticed
  <2>3. CASE u \in Waiting
    <3>1. CASE u \in Waiting'
      BY <3>1 DEF Noticed
    <3>2. CASE u \notin Waiting'
      <4>1. AgentFollows(u)
        BY <1>1, <1>2, <2>3, <3>2, WaitingEnds DEF ChatInv
      <4> QED
        BY <1>3, <4>1 DEF Noticed
    <3> QED
      BY <3>1, <3>2
  <2>4. CASE AgentFollows(u)
    BY <1>3, <2>4 DEF Noticed
  <2>5. ASSUME NEW w \in Workers, LooksAt(w, u) PROVE Noticed(u)'
    <3>1. ~Crash(w)
      BY <1>1 DEF Crash
    <3>2. CASE LooksAt(w, u)'
      BY <3>2 DEF Noticed
    <3>3. CASE LateNotice(w)
      <4>1. PICK i \in DOMAIN chat :
                work[w].cursor < i /\ chat[i] = [by |-> "user", about |-> u]
        BY <2>5 DEF LooksAt
      <4>2. i > work[w].cursor
        <5>1. work[w].cursor \in Nat
          BY WorkerTypes DEF JobInv, Locals
        <5> QED
          BY <4>1, <5>1, ChatIsSeq
      <4>3. UserRows(work[w].cursor) # {}
        BY <4>1, <4>2 DEF UserRows
      <4>4. Says("agent", Notice)
        BY <1>1, <3>3, <4>3 DEF LateNotice, Notifies
      <4>5. u \in UserRows(0)
        BY <4>1, UserRowCounts
      <4>6. AgentFollows(u)'
        BY <1>2, <4>4, <4>5, AgentSpeaks
      <4> QED
        BY <4>6 DEF Noticed
    <3> QED
      BY <1>2, <2>5, <3>1, <3>2, <3>3, LateLooks
  <2> QED
    BY <2>1, <2>2, <2>3, <2>4, <2>5 DEF Noticed
<1>6. CASE row.state \in Eligible /\ request[u] # "done"
  <2>1. request' # request
    BY <1>6
  <2>2. PICK v \in Chats : Post(v)
    <3>1. \A w \in Workers : Step(w) \/ Crash(w) \/ Restart(w) \/ Sweep(w) => request' = request
      BY WorkerAround DEF api
    <3>2. Api \/ LeaseExpires \/ LeaseLost => request' = request
      BY CreationAround
    <3>3. UNCHANGED vars => request' = request
      BY DEF vars, api
    <3> QED
      BY <2>1, <3>1, <3>2, <3>3 DEF Next
  <2>3. v = u /\ row' = row
    BY <1>6, <2>2, PostAround
  <2>4. u \in Waiting' \/ AgentFollows(u)'
    BY <1>1, <1>6, <2>2, <2>3, PostingEnds DEF ChatInv
  <2> QED
    BY <2>4 DEF Noticed
<1> QED
  BY <1>4, <1>5, <1>6

LEMMA InitChatInv == Init => ChatInv
<1> SUFFICES ASSUME Init PROVE ChatInv
  OBVIOUS
<1>1. /\ row.state = "received" /\ chat = << >> /\ Len(chat) = 0
      /\ \A u \in Chats : request[u] = "new"
  BY NewRowIsRow DEF Init
<1>2. \A w \in Workers : work[w].pc = "idle" /\ work[w].cursor = 0
  BY FreshIsLocal DEF Init, Places
<1>3. ChatFits
  BY <1>1 DEF ChatFits
<1>4. SteeringInv
  BY <1>1 DEF SteeringInv, Eligible
<1>5. \A w \in Workers : DrainedFits(w)
  BY <1>1, <1>2 DEF DrainedFits
<1> QED
  BY <1>3, <1>4, <1>5 DEF ChatInv

\* Every message of the user is followed to a decision or to an agent's row.
THEOREM ChatInvariance == Spec => [](JobInv /\ ChatInv)
<1>1. ASSUME JobInv, ChatInv, [Next]_vars PROVE JobInv' /\ ChatInv'
  <2>1. JobInv'
    BY <1>1, NextJobInv
  <2>2. ChatFits' /\ SteeringInv'
    BY <1>1, <2>1, ChatFitsStep, SteeringStep DEF ChatInv
  <2>3. \A w \in Workers : DrainedFits(w)'
    BY <1>1, <2>1, DrainedStep DEF ChatInv
  <2> QED
    BY <2>1, <2>2, <2>3 DEF ChatInv
<1> QED
  BY <1>1, InitJobInv, InitChatInv, PTL DEF Spec

\* No steering message disappears in silence when the loop ends by itself, whatever the
\* interleaving of the post, the loop's drains, its last write and its late look.
THEOREM NoSteeringLost == Spec => []NoSilentLoss
<1>1. JobInv /\ ChatInv => NoSilentLoss
  <2> SUFFICES ASSUME JobInv, ChatInv, faults = 0, row.state \in Eligible,
                      \A w \in Workers : work[w].pc \notin {"report", "end", "late"},
                      NEW u \in Chats, request[u] = "done"
               PROVE  u \in read \/ u \in queue \union processing \/ AgentFollows(u)
    BY DEF NoSilentLoss
  <2>1. Noticed(u)
    BY DEF ChatInv, SteeringInv
  <2>2. \A w \in Workers : ~LooksAt(w, u)
    BY DEF LooksAt
  <2> QED
    BY <2>1, <2>2 DEF Noticed, Waiting
<1> QED
  BY <1>1, ChatInvariance, PTL
=============================================================================
