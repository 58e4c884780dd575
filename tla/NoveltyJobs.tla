----------------------------- MODULE NoveltyJobs -----------------------------
(***************************************************************************)
(* U12: one novelty job from its creation to its end and beyond.  The API  *)
(* stores the job and queues it, at once or when the manuscript it is      *)
(* about was uploaded, takes the user's messages and the requests to       *)
(* cancel and to delete it; workers take messages off the queue, hold the  *)
(* execution lease of the job while they run its loop or answer one chat   *)
(* turn, and sweep jobs that nobody works on.                              *)
(*                                                                         *)
(* The loop and the turn are the control of run_loop and run_turn: what    *)
(* the model and the tools answer is any of the outcomes the code tells    *)
(* apart.  A message of the queue is the string "loop" or the chat message *)
(* a turn is about.  The queue is the Redis one: consume moves a message   *)
(* to the processing list, which every worker shares and which a starting  *)
(* worker returns to the queue as a whole.  Its order is not modelled.     *)
(* The lease has no owner in the code: any release removes it.  The model  *)
(* remembers who took it only to say when it expires by itself.            *)
(* One statement of the store is one step: update_job reads the row, looks *)
(* at its state and, a step later, updates the columns in which the job    *)
(* differs from the row it has read.  A deleted job takes its artifacts    *)
(* and messages with it, and their foreign keys refuse later ones.  The    *)
(* trace and the export to Notion are left out; so is a second upload      *)
(* beside the first.                                                       *)
(***************************************************************************)
EXTENDS Naturals, Sequences, FiniteSets

CONSTANTS
    Workers,          \* worker processes (max_capacity=2 in the stack)
    Chats,            \* messages the user sends
    Kinds,            \* REQUIRED_ARTIFACT_KINDS without evidence
    Inputs,           \* what jobs are made of: a topic in natural language, a manuscript
    MaxIter,          \* LoopBudget.max_iterations
    MaxSteps,         \* max_turn_steps
    MaxFaults         \* bound: crashes, store errors and lost leases

Evidence == "evidence"
Required == Kinds \union {Evidence}
Active == {"received", "investigating", "reporting"}
Eligible == {"completed", "partial"}
Terminal == Eligible \union {"failed", "cancelled"}
Deleted == "deleted"
Messages == {"loop"} \union Chats
Notice == "notice"
NoOne == "no one"
NoMessage == "no message"
Columns == {"updated_at", "state", "loop_run"}

ASSUME NoveltyBounds ==
    /\ {MaxIter, MaxSteps} \subseteq Nat \ {0} /\ MaxFaults \in Nat
    /\ Inputs \subseteq {"language", "manuscript"}
    /\ Evidence \notin Kinds /\ {"loop", Notice, NoMessage} \intersect Chats = {}
    /\ NoOne \notin Workers

VARIABLES
    input,       \* what the job is made of
    row,         \* the job's row: state, cancel flag, iterations consumed
    saved,       \* kinds of the artifacts stored
    chat,        \* the conversation: user messages, agent replies and notices
    queue,       \* messages waiting
    processing,  \* messages in the processing list
    lease,       \* who took the execution lease
    work,        \* what each worker is at
    creation,    \* where the API is in creating the job or taking its manuscript
    update,      \* columns of the UPDATE that the API is about to send, if it is
    request,     \* where each POST of a chat message is
    read,        \* user messages that a loop has drained for its next decision
    unsaid,      \* turns whose reply, or whose notice, the store refused
    faults

store == <<row, saved, chat>>
broker == <<queue, processing, lease>>
api == <<creation, update, request>>
history == <<read, unsaid, faults>>
vars == <<input, store, broker, work, api, history>>

Rows == [state : Active \union Terminal \union {Deleted}, cancel : BOOLEAN, iter : 0..MaxIter]
NewRow == [state |-> "received", cancel |-> FALSE, iter |-> 0]
Entries == [by : {"user", "agent"}, about : Chats \union {Notice}]
Updating == {"cancelling", "begin", "persist", "report", "end", "settle", "failing"}
Running == Updating \union {"start", "evidence", "iterate", "late", "turn", "reply", "fail",
                            "close", "stop"}
Places == Running \union {"idle", "dead", "lock", "refuse", "drop"}

\* A worker's local state: its message, its snapshot of the job, the context's
\* saved_kinds and steering_cursor, the outcome of the loop, and the columns of the
\* UPDATE it is about to send, if it is: updated_at is always one of them.
Fresh(at) == [pc |-> at, msg |-> NoMessage, job |-> NewRow, kinds |-> {}, cursor |-> 0,
              outcome |-> "none", columns |-> {}]

TypeOK ==
    /\ input \in Inputs
    /\ row \in Rows
    /\ saved \subseteq Required
    /\ chat \in Seq(Entries)
    /\ queue \subseteq Messages /\ processing \subseteq Messages
    /\ queue \intersect processing = {}
    /\ lease \in Workers \union {NoOne}
    /\ work \in [Workers -> [pc : Places, msg : Messages \union {NoMessage}, job : Rows,
                             kinds : SUBSET Required, cursor : Nat,
                             outcome : Terminal \union {"none"},
                             columns : SUBSET Columns]]
    /\ creation \in {"stored", "refused", "awaiting", "body", "uploaded", "done"}
    /\ update \subseteq Columns
    /\ request \in [Chats -> {"new", "steering", "on demand", "closed",
                              "check", "enqueue", "sorry", "tell", "done"}]
    /\ read \subseteq Chats /\ unsaid \subseteq Chats
    /\ faults \in 0..MaxFaults

Init ==
    /\ row = NewRow /\ saved = {} /\ chat = << >>
    /\ queue = {} /\ processing = {} /\ lease = NoOne
    /\ work = [w \in Workers |-> Fresh("idle")]
    /\ input \in Inputs
    /\ creation = IF input = "manuscript" THEN "awaiting" ELSE "stored"
    /\ update = {} /\ request = [u \in Chats |-> "new"]
    /\ read = {} /\ unsaid = {} /\ faults = 0

-----------------------------------------------------------------------------
\* The store.

\* update_job refuses to leave a terminal state and to write a job that is not there.
\* The row it looks at is the one it has read: session.get takes no lock.
Accepts(state) ==
    /\ row.state # Deleted
    /\ row.state \in Terminal => row.state = state

\* The columns that its UPDATE will set.
Differing(job) ==
    {"updated_at"} \union (IF row.state # job.state THEN {"state"} ELSE {})
                   \union (IF row.iter # job.iter THEN {"loop_run"} ELSE {})

\* The UPDATE, by primary key.  The cancel flag is a latch.  loop_run is compared as a
\* whole: with the same iterations it may still differ, and be set.
Writes(job, columns) ==
    /\ row.state # Deleted
    /\ \E iter \in {job.iter} \union (IF "loop_run" \in columns THEN {} ELSE {row.iter}) :
          row' = [state |-> IF "state" \in columns THEN job.state ELSE row.state,
                  cancel |-> row.cancel \/ job.cancel, iter |-> iter]

\* The foreign key of messages and artifacts: with the job gone, nothing is added.
Keeps(rows, added) == IF row.state = Deleted THEN rows ELSE added

Says(by, about) == chat' = Keeps(chat, Append(chat, [by |-> by, about |-> about]))
Saves(kinds) == saved' = Keeps(saved, saved \union kinds)

\* An agent row says in_reply_to which message it answers; a notice says nothing.
Answered(u) == \E i \in DOMAIN chat : chat[i] = [by |-> "agent", about |-> u]

\* The users' messages after a cursor.
UserRows(cursor) ==
    {chat[i].about : i \in {j \in DOMAIN chat : j > cursor /\ chat[j].by = "user"}}

\* Whether some agent row follows the user's message, among the next five rows.
Followed(u) ==
    \E i, j \in DOMAIN chat :
        /\ chat[i] = [by |-> "user", about |-> u]
        /\ chat[j].by = "agent" /\ i < j /\ j <= i + 5

Trouble ==
    /\ faults < MaxFaults
    /\ faults' = faults + 1

\* append_agent_message is best effort: a row that cannot be stored is logged.
Notifies(about, lost) ==
    \/ Says("agent", about) /\ UNCHANGED <<unsaid, faults>>
    \/ Trouble /\ unsaid' = unsaid \union lost /\ UNCHANGED chat

-----------------------------------------------------------------------------
\* The API.

\* create_job after the row is stored: the message is queued, or the enqueue raises,
\* with the message queued or not.
Enqueue ==
    /\ creation = "stored"
    /\ \/ creation' = "done" /\ queue' = queue \union {"loop"} /\ UNCHANGED faults
       \/ creation' = "refused" /\ queue' \in {queue, queue \union {"loop"}} /\ Trouble
       \/ creation' = "done" /\ UNCHANGED queue /\ Trouble
    /\ UNCHANGED <<input, store, processing, lease, work, update, request, read, unsaid>>

\* upload_manuscript: the job waits for its manuscript and has not begun.
UploadRead ==
    /\ creation = "awaiting" /\ row.state = "received"
    /\ creation' = "body"
    /\ UNCHANGED <<input, store, broker, work, update, request, history>>

\* What the API writes: the job failed, when its dispatch was refused; the job as it was
\* read, when the body of the manuscript has arrived and is stored.
ApiJob == IF creation = "refused" THEN [NewRow EXCEPT !.state = "failed"] ELSE NewRow

\* update_job in _enqueue_or_fail and in upload_manuscript: the row is read.
ApiUpdate ==
    /\ creation \in {"refused", "body"} /\ update = {}
    /\ IF Accepts(ApiJob.state)
       THEN update' = Differing(ApiJob) /\ UNCHANGED creation
       ELSE creation' = "done" /\ UNCHANGED update
    /\ UNCHANGED <<input, store, broker, work, request, history>>

\* Its commit.  If it raises, the refused job is left to the sweep, and the manuscript
\* may be sent again unless the row says that it is there.
ApiCommit ==
    /\ update # {}
    /\ update' = {}
    /\ \/ /\ Writes(ApiJob, update)
          /\ \/ /\ creation' = IF creation = "body" THEN "uploaded" ELSE "done"
                /\ UNCHANGED faults
             \/ creation' = "done" /\ Trouble
       \/ row.state = Deleted /\ creation' = "done" /\ UNCHANGED <<row, faults>>
       \/ /\ creation' = IF creation = "body" THEN "awaiting" ELSE "done"
          /\ Trouble /\ UNCHANGED row
    /\ UNCHANGED <<input, saved, chat, broker, work, request, read, unsaid>>

\* An enqueue that raises is not caught, and the manuscript cannot be sent again.
UploadEnqueue ==
    /\ creation = "uploaded"
    /\ creation' = "done"
    /\ \/ queue' = queue \union {"loop"} /\ UNCHANGED faults
       \/ queue' \in {queue, queue \union {"loop"}} /\ Trouble
    /\ UNCHANGED <<input, store, processing, lease, work, update, request, read, unsaid>>

\* delete_job, whatever the job is at.
Delete ==
    /\ row.state # Deleted
    /\ row' = [NewRow EXCEPT !.state = Deleted]
    /\ saved' = {} /\ chat' = << >>
    /\ UNCHANGED <<input, broker, work, api, history>>

\* request_cancel raises the flag; the job had not ended when cancel_job looked.
Cancel ==
    /\ row.state # Deleted
    /\ row' = [row EXCEPT !.cancel = TRUE]
    /\ UNCHANGED <<input, saved, chat, broker, work, api, history>>

\* add_message: the state read decides what the message is.
PostRead(u) ==
    /\ request[u] = "new"
    /\ request' = [request EXCEPT ![u] =
           CASE row.state \in Active -> "steering"
             [] row.state \in Eligible -> "on demand"
             [] row.state = Deleted -> "done"
             [] OTHER -> "closed"]
    /\ UNCHANGED <<input, store, broker, work, creation, update, history>>

PostAppend(u) ==
    /\ request[u] \in {"steering", "on demand", "closed"}
    /\ Says("user", u)
    /\ request' = [request EXCEPT ![u] =
           CASE row.state = Deleted -> "done"
             [] row.state # Deleted /\ @ = "steering" -> "check"
             [] row.state # Deleted /\ @ = "on demand" -> "enqueue"
             [] OTHER -> "tell"]
    /\ UNCHANGED <<input, row, saved, broker, work, creation, update, history>>

\* _notice_if_terminated_meanwhile: the job is read again after the append.
PostCheck(u) ==
    /\ request[u] = "check"
    /\ request' = [request EXCEPT ![u] = "done"]
    /\ IF row.state \in Terminal /\ ~Followed(u)
       THEN Notifies(u, {})
       ELSE UNCHANGED <<chat, unsaid, faults>>
    /\ UNCHANGED <<input, row, saved, broker, work, creation, update, read>>

\* _enqueue_turn: the message is queued, or the enqueue raises, with the message queued
\* or not.
PostEnqueue(u) ==
    /\ request[u] = "enqueue"
    /\ \/ /\ request' = [request EXCEPT ![u] = "done"]
          /\ queue' = queue \union {u}
          /\ UNCHANGED faults
       \/ /\ request' = [request EXCEPT ![u] = "sorry"]
          /\ queue' \in {queue, queue \union {u}}
          /\ Trouble
    /\ UNCHANGED <<input, store, processing, lease, work, creation, update, read, unsaid>>

\* A turn that was not queued is answered at once, so that it will not run if it was.
PostSorry(u) ==
    /\ request[u] = "sorry"
    /\ request' = [request EXCEPT ![u] = "done"]
    /\ Notifies(u, {})
    /\ UNCHANGED <<input, row, saved, broker, work, creation, update, read>>

\* A failed or cancelled job takes no turn.
PostTell(u) ==
    /\ request[u] = "tell"
    /\ request' = [request EXCEPT ![u] = "done"]
    /\ Notifies(Notice, {})
    /\ UNCHANGED <<input, row, saved, broker, work, creation, update, read>>

-----------------------------------------------------------------------------
\* A worker and the queue.

Become(w, local) == work' = [work EXCEPT ![w] = local]
Goto(w, at) == work' = [work EXCEPT ![w].pc = at]

\* What a worker still knows: a loop that has ended its cursor, a call that has returned
\* nothing.
Remembers(local) ==
    CASE local.pc = "late" -> [Fresh("late") EXCEPT !.msg = local.msg, !.cursor = local.cursor]
      [] local.pc \in {"fail", "close", "stop"} -> [Fresh(local.pc) EXCEPT !.msg = local.msg]
      [] OTHER -> local

Goes(w, local) == Become(w, Remembers(local))

\* consume, then process_message up to the lease: what it reads of the job and of
\* the conversation is read before it holds the lease.  A turn of a job that cannot
\* take it any more is refused; a job or a message that is gone, a job that has ended
\* and a turn that was answered need nothing but the ack.
Consume(w, m) ==
    /\ work[w].pc = "idle"
    /\ m \in queue
    /\ queue' = queue \ {m}
    /\ processing' = processing \union {m}
    /\ LET at == CASE row.state = Deleted \/ (m = "loop" /\ row.state \in Terminal) -> "drop"
                   [] m # "loop" /\ row.state \notin Eligible \union {Deleted} -> "refuse"
                   [] m # "loop" /\ row.state \in Eligible /\ Answered(m) -> "drop"
                   [] OTHER -> "lock"
       IN  Become(w, [Fresh(at) EXCEPT !.msg = m, !.job = IF at = "lock" THEN row ELSE @])
    /\ UNCHANGED <<input, store, lease, api, history>>

Refuse(w) ==
    /\ work[w].pc = "refuse"
    /\ Notifies(Notice, {work[w].msg})
    /\ Goto(w, "drop")
    /\ UNCHANGED <<input, row, saved, broker, api, read>>

\* The ack of a message that took no lease.
Drop(w) ==
    /\ work[w].pc = "drop"
    /\ processing' = processing \ {work[w].msg}
    /\ Become(w, Fresh("idle"))
    /\ UNCHANGED <<input, store, queue, lease, api, history>>

\* _acquire_or_backoff: the lease, or the message goes back if it is still there.
Lock(w) ==
    /\ work[w].pc = "lock"
    /\ IF lease = NoOne
       THEN /\ lease' = w
            /\ Goto(w, CASE work[w].msg # "loop" -> "turn"
                         [] work[w].msg = "loop" /\ work[w].job.cancel -> "cancelling"
                         [] OTHER -> "start")
            /\ UNCHANGED <<queue, processing>>
       ELSE /\ queue' = queue \union ({work[w].msg} \intersect processing)
            /\ processing' = processing \ {work[w].msg}
            /\ Become(w, Fresh("idle"))
            /\ UNCHANGED lease
    /\ UNCHANGED <<input, store, api, history>>

\* ack, if there is a message, and release; the release does not look at whose lease it is.
Close(w) ==
    /\ work[w].pc = "close"
    /\ processing' = processing \ {work[w].msg}
    /\ lease' = NoOne
    /\ Become(w, Fresh("idle"))
    /\ UNCHANGED <<input, store, queue, api, history>>

\* _mark_failed has raised: the lease is released, and the worker ends.
Stop(w) ==
    /\ work[w].pc = "stop"
    /\ lease' = NoOne
    /\ Become(w, Fresh("dead"))
    /\ UNCHANGED <<input, store, queue, processing, api, history>>

\* A worker stops at any point; its message and its lease stay behind.
Crash(w) ==
    /\ work[w].pc # "dead"
    /\ Trouble
    /\ Become(w, Fresh("dead"))
    /\ UNCHANGED <<input, store, broker, api, read, unsaid>>

\* Mutant: recovery copies the processing list and does not clear it.
Restart_copies(w) ==
    /\ work[w].pc = "dead"
    /\ queue' = queue \union processing
    /\ Become(w, Fresh("idle"))
    /\ UNCHANGED <<input, store, processing, lease, api, history>>


\* run_worker begins with recover_processing, which takes the messages of the
\* workers that still run, too.
Restart(w) ==
    /\ work[w].pc = "dead"
    /\ queue' = queue \union processing
    /\ processing' = {}
    /\ Become(w, Fresh("idle"))
    /\ UNCHANGED <<input, store, lease, api, history>>

\* The lease of a worker that is gone expires.
LeaseExpires ==
    /\ lease # NoOne
    /\ work[lease].pc \notin Running
    /\ lease' = NoOne
    /\ UNCHANGED <<input, store, queue, processing, work, api, history>>

\* A running worker loses its lease: renewals fail for longer than the TTL.
LeaseLost ==
    /\ lease # NoOne
    /\ work[lease].pc \in Running
    /\ Trouble
    /\ lease' = NoOne
    /\ UNCHANGED <<input, store, queue, processing, work, api, read, unsaid>>

\* Mutant: only jobs that were started are swept.
Sweep_started(w) ==
    /\ work[w].pc = "idle" /\ queue = {} /\ lease = NoOne
    /\ row.state \in Active \ {"received"}
    /\ lease' = w
    /\ Become(w, Fresh("fail"))
    /\ UNCHANGED <<input, store, queue, processing, api, history>>

\* sweep_stale_jobs, by a worker that finds the queue empty: it takes the lease.
Sweep(w) ==
    /\ work[w].pc = "idle" /\ queue = {} /\ lease = NoOne
    /\ row.state \in Active
    /\ lease' = w
    /\ Become(w, Fresh("fail"))
    /\ UNCHANGED <<input, store, queue, processing, api, history>>

-----------------------------------------------------------------------------
\* A worker writes the job.

\* What it writes: _transition to a state, or the snapshot it holds.
Target(w) ==
    CASE work[w].pc = "cancelling" -> [work[w].job EXCEPT !.state = "cancelled"]
      [] work[w].pc = "begin" -> [work[w].job EXCEPT !.state = "investigating"]
      [] work[w].pc = "report" -> [work[w].job EXCEPT !.state = "reporting"]
      [] work[w].pc = "end" -> [work[w].job EXCEPT !.state = work[w].outcome]
      [] work[w].pc = "failing" -> [work[w].job EXCEPT !.state = "failed"]
      [] OTHER -> work[w].job

\* What follows.  A run_loop that cannot begin and a _finalize_cancelled that raises fail
\* the job; run_loop drops an outcome that it cannot write; persist_progress goes on.
After(w, written) ==
    CASE work[w].pc = "cancelling" -> IF written THEN "close" ELSE "fail"
      [] work[w].pc = "begin" ->
            IF ~written THEN "fail"
            ELSE IF input = "language" /\ Evidence \notin work[w].kinds
                 THEN "evidence" ELSE "iterate"
      [] work[w].pc = "persist" ->
            CASE work[w].outcome = "none" -> "iterate"
              [] work[w].outcome = "completed" -> "report"
              [] OTHER -> "end"
      [] work[w].pc = "report" -> IF written THEN "end" ELSE "late"
      [] work[w].pc = "end" -> "late"
      [] work[w].pc = "settle" -> "close"
      [] work[w].pc = "failing" -> IF written THEN "close" ELSE "stop"

Written(w) ==
    Goes(w, [work[w] EXCEPT !.job = Target(w), !.columns = {}, !.pc = After(w, TRUE)])
Raised(w) ==
    Goes(w, [work[w] EXCEPT !.columns = {}, !.pc = After(w, FALSE)])

\* Mutant: the last write wins.
Update_any(w) ==
    /\ work[w].pc \in Updating /\ work[w].columns = {}
    /\ IF row.state # Deleted
       THEN Become(w, [work[w] EXCEPT !.columns = Differing(Target(w))])
       ELSE Raised(w)
    /\ UNCHANGED <<input, store, broker, api, history>>

\* update_job: the row is read.
Update(w) ==
    /\ work[w].pc \in Updating /\ work[w].columns = {}
    /\ IF Accepts(Target(w).state)
       THEN Become(w, [work[w] EXCEPT !.columns = Differing(Target(w))])
       ELSE Raised(w)
    /\ UNCHANGED <<input, store, broker, api, history>>

\* Its commit: the row may be gone; the store may fail, with the row written or not.
Commit(w) ==
    /\ work[w].columns # {}
    /\ \/ Writes(Target(w), work[w].columns) /\ Written(w) /\ UNCHANGED faults
       \/ row.state = Deleted /\ Raised(w) /\ UNCHANGED <<row, faults>>
       \/ /\ Writes(Target(w), work[w].columns) \/ UNCHANGED row
          /\ Raised(w) /\ Trouble
    /\ UNCHANGED <<input, saved, chat, broker, api, read, unsaid>>

\* _mark_failed: the job is read again; one that has ended, or is gone, is left alone.
MarkFailed(w) ==
    /\ work[w].pc = "fail"
    /\ IF row.state \in Active
       THEN Become(w, [work[w] EXCEPT !.job = row, !.pc = "failing"])
       ELSE Goto(w, "close")
    /\ UNCHANGED <<input, store, broker, api, history>>

-----------------------------------------------------------------------------
\* run_loop.

\* seed_context, before the move to INVESTIGATING, which a job found REPORTING refuses.
Start(w) ==
    /\ work[w].pc = "start"
    /\ read' = read \union UserRows(0)
    /\ Goes(w, [work[w] EXCEPT
           !.kinds = saved, !.cursor = Len(chat),
           !.pc = IF work[w].job.state = "reporting" THEN "fail" ELSE "begin"])
    /\ UNCHANGED <<input, store, broker, api, unsaid, faults>>

\* Leave the loop before the next decision.
Leave(w, outcome, at) ==
    /\ Become(w, [work[w] EXCEPT !.outcome = outcome, !.pc = at])
    /\ UNCHANGED <<input, saved, read>>

\* What execute_step can store: nothing, or one kind that passes the gate.  A store
\* that refuses raises, which ends the loop as failed.
Stores == {{}} \union {{k} : k \in IF row.state = Deleted THEN {} ELSE Required}

\* _forced_form_evidence: evidence first, unless the user has cancelled.
FormEvidence(w) ==
    /\ work[w].pc = "evidence"
    /\ \/ row.cancel /\ Leave(w, "cancelled", "persist")
       \/ ~row.cancel /\ Leave(w, "partial", "persist")
       \/ /\ ~row.cancel
          /\ \E got \in {{}, {Evidence}}, ending \in {<<"none", "persist">>, <<"failed", "end">>} :
                /\ got \in Stores
                /\ Saves(got)
                /\ Become(w, [work[w] EXCEPT !.kinds = @ \union got, !.outcome = ending[1],
                                             !.pc = ending[2]])
          /\ UNCHANGED read
    /\ UNCHANGED <<input, row, chat, broker, api, unsaid, faults>>

\* Mutant: the proposal to end is believed.
Decide_believes(w, got, outcome, at) ==
    LET complete == Required \subseteq work[w].kinds \union got IN
    CASE outcome = "completed" -> at = "report" /\ got = {}
      [] outcome = "none" -> ~complete /\ at = "persist"
      [] outcome = "partial" -> got = {} /\ at = "persist"
      [] outcome = "failed" -> at = "end"

\* One decision: a proposal to end, taken only when every required kind is there; a
\* call of a tool; a call the budget denies; an error.
Decide(w, got, outcome, at) ==
    LET complete == Required \subseteq work[w].kinds \union got IN
    CASE outcome = "completed" -> complete /\ (at = "persist" \/ (at = "report" /\ got = {}))
      [] outcome = "none" -> ~complete /\ at = "persist"
      [] outcome = "partial" -> got = {} /\ at = "persist"
      [] outcome = "failed" -> at = "end"

\* One turn of _drive: cancelled, out of iterations, or a decision after the
\* user's new messages were drained.
Iterate(w) ==
    /\ work[w].pc = "iterate"
    /\ \/ row.cancel /\ Leave(w, "cancelled", "end")
       \/ ~row.cancel /\ work[w].job.iter >= MaxIter /\ Leave(w, "partial", "end")
       \/ /\ ~row.cancel /\ work[w].job.iter < MaxIter
          /\ read' = read \union UserRows(work[w].cursor)
          /\ \E got \in Stores, outcome \in {"none", "completed", "partial", "failed"},
                at \in {"persist", "report", "end"} :
                /\ Decide(w, got, outcome, at)
                /\ Saves(got)
                /\ Become(w, [work[w] EXCEPT !.job.iter = @ + 1, !.cursor = Len(chat),
                                             !.kinds = @ \union got, !.outcome = outcome,
                                             !.pc = at])
    /\ UNCHANGED <<input, row, chat, broker, api, unsaid, faults>>

\* Mutant: the loop ends without a look at what arrived last.
LateNotice_never(w) ==
    /\ work[w].pc = "late"
    /\ Goes(w, [work[w] EXCEPT !.pc = "close"])
    /\ UNCHANGED <<input, store, broker, api, history>>

\* _notice_unconsumed_steering: messages after the last drain get one notice.
LateNotice(w) ==
    /\ work[w].pc = "late"
    /\ IF UserRows(work[w].cursor) # {}
       THEN Notifies(Notice, {})
       ELSE UNCHANGED <<chat, unsaid, faults>>
    /\ Goes(w, [work[w] EXCEPT !.pc = "close"])
    /\ UNCHANGED <<input, row, saved, broker, api, read>>

-----------------------------------------------------------------------------
\* run_turn.

\* Out of budget, or up to max_steps iterations of the job's budget, in which at most
\* one artifact is stored on request, and evidence by its tool.
Turn(w) ==
    /\ work[w].pc = "turn"
    /\ \/ work[w].job.iter >= MaxIter /\ Leave(w, "partial", "reply")
       \/ \E n \in 1..MaxSteps, got \in Stores, evidence \in Stores \intersect {{}, {Evidence}} :
             /\ work[w].job.iter + n <= MaxIter
             /\ Cardinality(got \union evidence) <= n
             /\ Saves(got \union evidence)
             /\ Become(w, [work[w] EXCEPT !.job.iter = @ + n, !.pc = "reply"])
             /\ UNCHANGED read
    /\ UNCHANGED <<input, row, chat, broker, api, unsaid, faults>>

\* _finish: the reply names the message it answers.  After it the iterations are
\* charged to the job.
Reply(w) ==
    /\ work[w].pc = "reply"
    /\ Notifies(work[w].msg, {work[w].msg})
    /\ Goes(w, [work[w] EXCEPT !.pc = IF work[w].outcome = "partial"
                                      THEN "close" ELSE "settle"])
    /\ UNCHANGED <<input, row, saved, broker, api, read>>

-----------------------------------------------------------------------------
Step(w) ==
    \/ \E m \in Messages : Consume(w, m)
    \/ Lock(w) \/ Refuse(w) \/ Drop(w) \/ Close(w) \/ Stop(w)
    \/ Update(w) \/ Commit(w) \/ MarkFailed(w)
    \/ Start(w) \/ FormEvidence(w) \/ Iterate(w) \/ LateNotice(w)
    \/ Turn(w) \/ Reply(w)

Post(u) ==
    \/ PostRead(u) \/ PostAppend(u) \/ PostCheck(u)
    \/ PostEnqueue(u) \/ PostSorry(u) \/ PostTell(u)

Api == Enqueue \/ UploadRead \/ ApiUpdate \/ ApiCommit \/ UploadEnqueue \/ Cancel \/ Delete

Next ==
    \/ Api
    \/ \E u \in Chats : Post(u)
    \/ \E w \in Workers : Step(w) \/ Crash(w) \/ Restart(w) \/ Sweep(w)
    \/ LeaseExpires \/ LeaseLost

Spec == Init /\ [][Next]_vars

\* Workers go on and are restarted, leases run out and idle workers sweep.
FairSpec ==
    /\ Spec
    /\ \A w \in Workers : WF_vars(Step(w)) /\ WF_vars(Restart(w)) /\ WF_vars(Sweep(w))
    /\ WF_vars(LeaseExpires)

-----------------------------------------------------------------------------
\* Properties.

\* No UPDATE is under way that was made from a row read before and sets the state.
Settled ==
    /\ "state" \notin update
    /\ \A w \in Workers : "state" \notin work[w].columns

\* A job that ended keeps its state until it is deleted (BR-RA5), whoever writes late: a
\* late upload, a worker that lost its lease, a redelivered loop, a turn, the sweep.
\* While nothing fails, the lease sees to it; and if something did, the check of
\* update_job does, as soon as the writers that had passed it are through.
EndStays ==
    [][/\ row.state = Deleted => row'.state = Deleted
       /\ row.state \in Terminal /\ (Settled \/ faults' = 0) =>
             \/ row'.state = Deleted
             \/ row'.state = row.state /\ (Settled => Settled')]_vars

\* What a job's end says is so (BR-RA1, BR-RA8, BR-NV18): a completed job has every
\* required artifact in the store, whatever was interrupted and redelivered; a cancelled
\* one was cancelled by its user; a deleted one has left nothing behind, although the
\* worker that runs its loop or answers its turn learns nothing of it and goes on.
EndIsHonest ==
    /\ row.state = "completed" => Required \subseteq saved
    /\ row.state = "cancelled" => row.cancel
    /\ row.state = Deleted => saved = {} /\ chat = << >>

AgentFollows(u) ==
    \E i, j \in DOMAIN chat :
        chat[i] = [by |-> "user", about |-> u] /\ chat[j].by = "agent" /\ i < j

\* No steering message disappears in silence when the loop ends by itself: it was
\* drained for a decision, or an agent row follows it.
NoSilentLoss ==
    (/\ faults = 0
     /\ row.state \in Eligible
     /\ \A w \in Workers : work[w].pc \notin {"report", "end", "late"})
    => \A u \in Chats :
           request[u] = "done" /\ u \in UserRows(0) =>
               \/ u \in read \/ u \in queue \union processing \/ AgentFollows(u)

\* Every job ends for good, one whose manuscript never came, too: by its loop, by its
\* cancellation, by its deletion or by the sweep.
JobEnds == <>[](row.state \notin Active)


\* Not so in the code: the first terminal write wins.  update_job's check and its UPDATE
\* are apart, so that the sweep may fail a job that its worker, without a lease, has just
\* completed.
TerminalIsFinal == [][row.state \in Terminal => row'.state \in {row.state, Deleted}]_vars

\* Not so in the code (PBT-RA2): the consumption of the budget never decreases.
BudgetNeverRefunds == [][row'.iter >= row.iter]_vars

\* Not so in the code: a turn has one reply.
AnsweredOnce ==
    \A i, j \in DOMAIN chat :
        chat[i] = chat[j] /\ chat[i].by = "agent" /\ chat[i].about # Notice => i = j
=============================================================================
