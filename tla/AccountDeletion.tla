--------------------------- MODULE AccountDeletion ---------------------------
(***************************************************************************)
(* U3: the end of an account.  A user's request deactivates it and leaves  *)
(* a deletion record; within the grace period, and until the purge has     *)
(* come by, the owner may recover it; after the period a daily run         *)
(* announces the deletion, removes the owner's data and the account, and   *)
(* marks the record.  A purge that keeps failing is set aside.             *)
(*                                                                         *)
(* Requests and the run are transactions on one Postgres database, READ    *)
(* COMMITTED, with awaits inside (a password hash, a call of Redis or of   *)
(* EventBridge): a request reads the account, later writes to it, which    *)
(* locks the row, and later commits or rolls back.  The object mapper      *)
(* writes a row only where the request has changed what it had read.       *)
(* Sessions, credentials and tokens are left out: nothing here reads them  *)
(* back.  A request that begins stands for one that proved who it is.      *)
(***************************************************************************)
EXTENDS Naturals, FiniteSets

CONSTANTS
    Accounts,
    Requests,       \* requests that the API handles at a time
    MaxAttempts,    \* MAX_PURGE_ATTEMPTS, 5 in the code
    MaxRequests,    \* bound: requests to delete or to recover an account
    MaxFaults       \* bound: crashes of the run and failures it cannot record

NoAccount == "no account"

ASSUME DeletionBounds ==
    /\ NoAccount \notin Accounts
    /\ MaxAttempts \in Nat \ {0}
    /\ MaxRequests \in Nat /\ MaxFaults \in Nat

VARIABLES
    account,     \* the status of each account
    record,      \* account_deletions by account
    data,        \* accounts that own data
    events,      \* accounts whose AccountDeleted was published
    request,     \* what each request is at
    run,         \* what the purge run is at
    begun, faults

database == <<account, record, data>>
vars == <<database, events, request, run, begun, faults>>

Record(state, due, attempts) == [state |-> state, due |-> due, attempts |-> attempts]
NoRecord == Record("none", FALSE, 0)
NewRecord == Record("DEACTIVATED", FALSE, 0)

\* A request: the account, the status it read, whether it will insert a record.
RequestAt(at, of, seen, insert) == [at |-> at, of |-> of, seen |-> seen, insert |-> insert]
NoRequest == RequestAt("idle", NoAccount, "ACTIVE", FALSE)

\* The run: the account it is at, the accounts left, no commit since the list was read.
RunAt(at, of, due, fresh) == [at |-> at, of |-> of, due |-> due, fresh |-> fresh]
NoRun == RunAt("off", NoAccount, {}, TRUE)

TypeOK ==
    /\ account \in [Accounts -> {"ACTIVE", "DEACTIVATED", "gone"}]
    /\ record \in [Accounts -> [state : {"none", "DEACTIVATED", "PURGED", "PURGE_FAILED"},
                                due : BOOLEAN, attempts : 0..MaxAttempts]]
    /\ data \subseteq Accounts /\ events \subseteq Accounts
    /\ request \in [Requests ->
            [at : {"idle", "delete", "deactivate", "reactivate", "recover"},
             of : Accounts \union {NoAccount}, seen : {"ACTIVE", "DEACTIVATED"},
             insert : BOOLEAN]]
    /\ \A q \in Requests : request[q].of = NoAccount => request[q].at = "idle"
    /\ run \in [at : {"off", "next", "publish", "purge", "failed"},
                of : Accounts \union {NoAccount}, due : SUBSET Accounts, fresh : BOOLEAN]
    /\ run.at \in {"publish", "purge", "failed"} => run.of \in Accounts
    /\ begun \in 0..MaxRequests /\ faults \in 0..MaxFaults

Init ==
    /\ account = [a \in Accounts |-> "ACTIVE"]
    /\ record = [a \in Accounts |-> NoRecord]
    /\ data = Accounts /\ events = {}
    /\ request = [q \in Requests |-> NoRequest]
    /\ run = NoRun
    /\ begun = 0 /\ faults = 0

-----------------------------------------------------------------------------
\* Requests.

\* A request that has written to the row of the account and not ended yet.
Holds(q, a) ==
    /\ request[q].of = a
    /\ \/ request[q].at = "deactivate" /\ request[q].seen = "ACTIVE"
       \/ request[q].at = "recover"

Free(a) == \A q \in Requests : ~Holds(q, a)

Begin(q, local) ==
    /\ request[q].at = "idle"
    /\ begun < MaxRequests
    /\ begun' = begun + 1
    /\ request' = [request EXCEPT ![q] = local]

Become(q, local) == request' = [request EXCEPT ![q] = local]

\* request_deletion reads the account; it then waits for the password hash.
DeleteRead(q, a) ==
    /\ account[a] # "gone"
    /\ Begin(q, RequestAt("delete", a, account[a], FALSE))
    /\ UNCHANGED <<database, events, run, faults>>

\* The status is set, which writes unless it was read as DEACTIVATED, and the record
\* of an earlier request is reused.  A write that finds no row raises.
DeleteWrite(q) ==
    /\ request[q].at = "delete"
    /\ LET a == request[q].of
           writes == request[q].seen = "ACTIVE"
       IN  /\ writes => Free(a)
           /\ Become(q, IF writes /\ account[a] = "gone"
                        THEN NoRequest
                        ELSE RequestAt("deactivate", a, request[q].seen,
                                       record[a].state = "none"))
    /\ UNCHANGED <<database, events, run, begun, faults>>

\* The sessions are gone and the request commits; a second record of the account
\* violates its key.
DeleteCommit(q) ==
    /\ request[q].at = "deactivate"
    /\ LET a == request[q].of IN
       IF request[q].insert /\ record[a].state # "none"
       THEN UNCHANGED <<account, record>>
       ELSE /\ account' = IF request[q].seen = "ACTIVE"
                          THEN [account EXCEPT ![a] = "DEACTIVATED"] ELSE account
            /\ record' = IF request[q].insert
                         THEN [record EXCEPT ![a] = NewRecord] ELSE record
    /\ Become(q, NoRequest)
    /\ UNCHANGED <<data, events, run, begun, faults>>

\* authenticate with reactivate: the account is read before the password is checked.
ReactivateRead(q, a) ==
    /\ account[a] = "DEACTIVATED"
    /\ Begin(q, RequestAt("reactivate", a, "DEACTIVATED", FALSE))
    /\ UNCHANGED <<database, events, run, faults>>

\* Only an account whose record is DEACTIVATED is recovered: its row is written and
\* its record deleted.
ReactivateWrite(q) ==
    /\ request[q].at = "reactivate"
    /\ LET a == request[q].of
           recoverable == record[a].state = "DEACTIVATED" /\ account[a] # "gone"
       IN  /\ recoverable => Free(a)
           /\ Become(q, IF recoverable THEN RequestAt("recover", a, "DEACTIVATED", FALSE)
                                       ELSE NoRequest)
    /\ UNCHANGED <<database, events, run, begun, faults>>

\* Mutant: the record is removed and the status forgotten.
ReactivateCommit_record_only(q) ==
    /\ request[q].at = "recover"
    /\ record' = [record EXCEPT ![request[q].of] = NoRecord]
    /\ Become(q, NoRequest)
    /\ UNCHANGED <<account, data, events, run, begun, faults>>

\* The new session is issued and the recovery commits.
ReactivateCommit(q) ==
    /\ request[q].at = "recover"
    /\ account' = [account EXCEPT ![request[q].of] = "ACTIVE"]
    /\ record' = [record EXCEPT ![request[q].of] = NoRecord]
    /\ Become(q, NoRequest)
    /\ UNCHANGED <<data, events, run, begun, faults>>

\* The password is wrong, the session store fails or the process dies: rollback.
Rollback(q) ==
    /\ request[q].at # "idle"
    /\ Become(q, NoRequest)
    /\ UNCHANGED <<database, events, run, begun, faults>>

-----------------------------------------------------------------------------
\* The purge run.

\* purge_after passes.
GraceElapses(a) ==
    /\ record[a].state = "DEACTIVATED" /\ ~record[a].due
    /\ record' = [record EXCEPT ![a] = Record("DEACTIVATED", TRUE, @.attempts)]
    /\ UNCHANGED <<account, data, events, request, run, begun, faults>>

\* get_due_deletions, once, at the start of the run.
RunStarts ==
    /\ run.at = "off"
    /\ \E a \in Accounts : record[a].state = "DEACTIVATED" /\ record[a].due
    /\ run' = RunAt("next", NoAccount,
           {a \in Accounts : record[a].state = "DEACTIVATED" /\ record[a].due}, TRUE)
    /\ UNCHANGED <<database, events, request, begun, faults>>

\* The next record of the list.  Every commit and rollback expires the records read
\* before: one that was deleted since raises, outside the try, and ends the run.
Take(a) ==
    /\ run.at = "next"
    /\ a \in run.due
    /\ run' = IF ~run.fresh /\ record[a].state = "none"
              THEN NoRun
              ELSE RunAt("publish", a, run.due \ {a}, run.fresh)
    /\ UNCHANGED <<database, events, request, begun, faults>>

\* Mutant: a publication that fails does not stop the purge.
Publish_best_effort ==
    /\ run.at = "publish"
    /\ events' \in {events, events \union {run.of}}
    /\ run' = RunAt("purge", run.of, run.due, run.fresh)
    /\ UNCHANGED <<database, request, begun, faults>>

\* publish; a call that fails may have published.
Publish ==
    /\ run.at = "publish"
    /\ \/ events' = events \union {run.of} /\ run' = RunAt("purge", run.of, run.due, run.fresh)
       \/ /\ events' \in {events, events \union {run.of}}
          /\ run' = RunAt("failed", run.of, run.due, run.fresh)
    /\ UNCHANGED <<database, request, begun, faults>>

NextRecord == run' = RunAt("next", NoAccount, run.due, FALSE)

\* The owner's data, the account and the mark of the record, in one transaction that
\* waits for the account's row, or fails as a whole.
Purge ==
    /\ run.at = "purge"
    /\ \/ /\ Free(run.of)
          /\ data' = data \ {run.of}
          /\ account' = [account EXCEPT ![run.of] = "gone"]
          /\ record' = [record EXCEPT ![run.of] =
                IF @.state = "none" THEN @ ELSE Record("PURGED", @.due, @.attempts)]
          /\ NextRecord
       \/ run' = RunAt("failed", run.of, run.due, run.fresh) /\ UNCHANGED database
    /\ UNCHANGED <<events, request, begun, faults>>

\* Mutant: a failure is logged and not counted.
RecordFailure_uncounted ==
    /\ run.at = "failed"
    /\ NextRecord
    /\ UNCHANGED <<database, events, request, begun, faults>>

\* Rollback, and in a transaction of its own one more attempt, the last of which sets
\* the record aside; the run goes on even if that fails.
RecordFailure ==
    /\ run.at = "failed"
    /\ \/ /\ record' = [record EXCEPT ![run.of] =
                IF @.state = "none" THEN @
                ELSE Record(IF @.attempts + 1 >= MaxAttempts THEN "PURGE_FAILED" ELSE @.state,
                            @.due, @.attempts + 1)]
          /\ UNCHANGED faults
       \/ faults < MaxFaults /\ faults' = faults + 1 /\ UNCHANGED record
    /\ NextRecord
    /\ UNCHANGED <<account, data, events, request, begun>>

RunEnds ==
    /\ run.at = "next" /\ run.due = {}
    /\ run' = NoRun
    /\ UNCHANGED <<database, events, request, begun, faults>>

\* The task is stopped; what it had not committed is rolled back.
Crash ==
    /\ run.at # "off"
    /\ faults < MaxFaults
    /\ faults' = faults + 1
    /\ run' = NoRun
    /\ UNCHANGED <<database, events, request, begun>>

-----------------------------------------------------------------------------
RunStep == (\E a \in Accounts : Take(a)) \/ Publish \/ Purge \/ RecordFailure \/ RunEnds

RequestStep(q) ==
    \/ DeleteWrite(q) \/ DeleteCommit(q)
    \/ ReactivateWrite(q) \/ ReactivateCommit(q)
    \/ Rollback(q)

Next ==
    \/ \E a \in Accounts : GraceElapses(a)
    \/ \E q \in Requests :
          RequestStep(q) \/ \E a \in Accounts : DeleteRead(q, a) \/ ReactivateRead(q, a)
    \/ RunStarts \/ RunStep \/ Crash

Spec == Init /\ [][Next]_vars

\* A run starts every day and works through its list, requests end.
FairSpec ==
    /\ Spec
    /\ WF_vars(RunStarts) /\ WF_vars(RunStep)
    /\ \A q \in Requests : WF_vars(RequestStep(q))

-----------------------------------------------------------------------------
\* Properties.

\* A purge is whole, whatever failed or stopped on the way: an account that is gone was
\* announced to the other units and left no data, and no record says PURGED of an
\* account that is still there (BR-A11).
PurgeIsWhole ==
    \A a \in Accounts :
        /\ account[a] = "gone" => a \in events /\ a \notin data
        /\ record[a].state = "PURGED" => account[a] = "gone"

\* A deactivated account is never in limbo: it has the record by which it is recovered,
\* purged or found by an operator, whatever requests and runs overlap.
DeactivatedIsTracked ==
    \A a \in Accounts :
        account[a] = "DEACTIVATED" => record[a].state \in {"DEACTIVATED", "PURGE_FAILED"}

\* A due deletion comes to an end, however often the purge of this or of another
\* account fails: it is purged, set aside or withdrawn.
DueSettles ==
    \A a \in Accounts :
        (record[a].state = "DEACTIVATED" /\ record[a].due) ~>
            (record[a].state # "DEACTIVATED" \/ ~record[a].due)

\* Not so in the code: an account that was recovered is not purged.
RecoveredIsKept ==
    [][\A a \in Accounts : account[a] = "ACTIVE" => account'[a] # "gone"]_vars

\* Not so in the code: during its grace period an account and its data stay.
GraceKeepsAccount ==
    [][\A a \in Accounts :
          account[a] = "DEACTIVATED" /\ ~record[a].due =>
              account'[a] # "gone" /\ (a \in data => a \in data')]_vars
=============================================================================
