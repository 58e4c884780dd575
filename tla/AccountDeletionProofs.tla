----------------------- MODULE AccountDeletionProofs -----------------------
(***************************************************************************)
(* Proofs about AccountDeletion, for any accounts, requests and faults.     *)
(*                                                                          *)
(* Neither property is inductive.  A request acts on what it read before    *)
(* other requests and the run changed the rows; what saves it is the lock   *)
(* on the account's row, from its write to its commit (Locked).  The run    *)
(* acts on a list it read once; what it may still find there is in Listed.  *)
(***************************************************************************)
EXTENDS AccountDeletion, TLAPS

\* The row lock: one holder, whose account is still there and, unless it is about
\* to insert the deletion record, has one.
Locked ==
    /\ \A a \in Accounts, q1, q2 \in Requests : Holds(q1, a) /\ Holds(q2, a) => q1 = q2
    /\ \A a \in Accounts, q \in Requests : Holds(q, a) => account[a] # "gone"
    /\ \A q \in Requests :
          request[q].at = "deactivate" /\ request[q].seen = "ACTIVE" /\ ~request[q].insert
              => record[request[q].of].state # "none"

\* The run's list: an account on it was recovered or still waits for its purge, the
\* one at hand is off the list, and it is purged only once it is announced.
Listed ==
    /\ \A a \in run.due : record[a].state \in {"none", "DEACTIVATED"}
    /\ run.at \in {"publish", "purge", "failed"} =>
          run.of \notin run.due /\ record[run.of].state \in {"none", "DEACTIVATED"}
    /\ run.at = "purge" => run.of \in events
    /\ \A a \in Accounts : record[a].state = "DEACTIVATED" => record[a].attempts < MaxAttempts

IInv == TypeOK /\ Locked /\ Listed /\ PurgeIsWhole /\ DeactivatedIsTracked

-----------------------------------------------------------------------------
RecordSet == [state : {"none", "DEACTIVATED", "PURGED", "PURGE_FAILED"},
              due : BOOLEAN, attempts : 0..MaxAttempts]
RequestSet == [at : {"idle", "delete", "deactivate", "reactivate", "recover"},
               of : Accounts \union {NoAccount}, seen : {"ACTIVE", "DEACTIVATED"},
               insert : BOOLEAN]
RunSet == [at : {"off", "next", "publish", "purge", "failed"},
           of : Accounts \union {NoAccount}, due : SUBSET Accounts, fresh : BOOLEAN]

LEMMA Constructors ==
    /\ \A state \in {"none", "DEACTIVATED", "PURGED", "PURGE_FAILED"}, due \in BOOLEAN,
         n \in 0..MaxAttempts :
           /\ Record(state, due, n) \in RecordSet
           /\ Record(state, due, n).state = state
           /\ Record(state, due, n).attempts = n
    /\ NoRecord \in RecordSet /\ NoRecord.state = "none"
    /\ NewRecord \in RecordSet /\ NewRecord.state = "DEACTIVATED" /\ NewRecord.attempts = 0
    /\ NoRequest \in RequestSet /\ NoRequest.at = "idle"
    /\ NoRun \in RunSet /\ NoRun.at = "off" /\ NoRun.due = {}
BY DeletionBounds DEF Record, NoRecord, NewRecord, NoRequest, RequestAt, NoRun, RunAt,
   RecordSet, RequestSet, RunSet

\* A request that is at nothing, or at an account.
Fits(local) == local \in RequestSet /\ (local.of = NoAccount => local.at = "idle")

\* Holds, of a request's local state.
Holding(local, a) ==
    /\ local.of = a
    /\ \/ local.at = "deactivate" /\ local.seen = "ACTIVE"
       \/ local.at = "recover"

\* A request moves and the database stays: it may take the lock of a free row.
LEMMA RequestMoves ==
    ASSUME IInv, NEW q \in Requests, NEW local, Become(q, local), Fits(local),
           UNCHANGED <<database, events, run, faults>>, begun' \in 0..MaxRequests,
           \A a \in Accounts : Holding(local, a) => Free(a) /\ account[a] # "gone",
           local.at = "deactivate" /\ local.seen = "ACTIVE" /\ ~local.insert
               => record[local.of].state # "none"
    PROVE  IInv'
<1>0. TypeOK /\ Locked
  BY DEF IInv
<1>1. request' = [request EXCEPT ![q] = local]
      /\ UNCHANGED <<account, record, data, events, run, faults>>
  BY DEF Become, database
<1>2. request'[q] = local /\ \A r \in Requests \ {q} : request'[r] = request[r]
  BY <1>0, <1>1 DEF TypeOK
<1>3. TypeOK'
  <2>1. request' \in [Requests -> RequestSet]
    BY <1>0, <1>1 DEF TypeOK, Fits, RequestSet
  <2>2. \A r \in Requests : request'[r].of = NoAccount => request'[r].at = "idle"
    BY <1>0, <1>2 DEF TypeOK, Fits
  <2> QED
    BY <1>0, <1>1, <2>1, <2>2 DEF TypeOK, RequestSet
<1>4. \A r \in Requests, a \in Accounts :
          Holds(r, a)' => IF r = q THEN Holding(local, a) ELSE Holds(r, a)
  BY <1>2 DEF Holds, Holding
<1>5. Locked'
  <2>1. \A a \in Accounts, q1, q2 \in Requests : Holds(q1, a)' /\ Holds(q2, a)' => q1 = q2
    BY <1>0, <1>4 DEF Locked, Free
  <2>2. \A a \in Accounts, r \in Requests : Holds(r, a)' => account'[a] # "gone"
    BY <1>0, <1>1, <1>4 DEF Locked
  <2>3. \A r \in Requests :
          request'[r].at = "deactivate" /\ request'[r].seen = "ACTIVE" /\ ~request'[r].insert
              => record'[request'[r].of].state # "none"
    BY <1>0, <1>1, <1>2 DEF Locked
  <2> QED
    BY <2>1, <2>2, <2>3 DEF Locked
<1>6. Listed' /\ PurgeIsWhole' /\ DeactivatedIsTracked'
  BY <1>1 DEF IInv, Listed, PurgeIsWhole, DeactivatedIsTracked
<1> QED
  BY <1>3, <1>5, <1>6 DEF IInv

LEMMA EndsQuietly ==
    ASSUME IInv, NEW q \in Requests, Become(q, NoRequest),
           UNCHANGED <<database, events, run, faults, begun>>
    PROVE  IInv'
<1>1. Fits(NoRequest) /\ \A a \in Accounts : ~Holding(NoRequest, a)
  BY Constructors DEF Fits, Holding
<1>2. begun' \in 0..MaxRequests
  BY DEF IInv, TypeOK
<1> QED
  BY <1>1, <1>2, Constructors, RequestMoves

LEMMA ReadKeeps ==
    ASSUME IInv, NEW q \in Requests, NEW a \in Accounts, DeleteRead(q, a) \/ ReactivateRead(q, a)
    PROVE  IInv'
<1>0. TypeOK /\ begun < MaxRequests /\ begun' = begun + 1
      /\ UNCHANGED <<database, events, run, faults>>
  BY DEF IInv, DeleteRead, ReactivateRead, Begin
<1>1. begun' \in 0..MaxRequests
  BY <1>0, DeletionBounds DEF TypeOK
<1>2. ASSUME NEW local, Become(q, local), Fits(local), local.at \in {"delete", "reactivate"}
      PROVE  IInv'
  <2>1. \A b \in Accounts : ~Holding(local, b)
    BY <1>2 DEF Holding
  <2> QED
    BY <1>0, <1>1, <1>2, <2>1, RequestMoves
<1>3. CASE DeleteRead(q, a)
  <2>1. Become(q, RequestAt("delete", a, account[a], FALSE)) /\ account[a] # "gone"
    BY <1>3 DEF DeleteRead, Begin, Become
  <2>2. /\ Fits(RequestAt("delete", a, account[a], FALSE))
        /\ RequestAt("delete", a, account[a], FALSE).at = "delete"
    BY <1>0, <2>1, DeletionBounds DEF Fits, RequestAt, RequestSet, TypeOK
  <2> QED
    BY <1>2, <2>1, <2>2
<1>4. CASE ReactivateRead(q, a)
  <2>1. Become(q, RequestAt("reactivate", a, "DEACTIVATED", FALSE))
    BY <1>4 DEF ReactivateRead, Begin, Become
  <2>2. /\ Fits(RequestAt("reactivate", a, "DEACTIVATED", FALSE))
        /\ RequestAt("reactivate", a, "DEACTIVATED", FALSE).at = "reactivate"
    BY DeletionBounds DEF Fits, RequestAt, RequestSet
  <2> QED
    BY <1>2, <2>1, <2>2
<1> QED
  BY <1>3, <1>4

LEMMA WriteKeeps ==
    ASSUME IInv, NEW q \in Requests, DeleteWrite(q) \/ ReactivateWrite(q)
    PROVE  IInv'
<1> DEFINE a == request[q].of
<1>0. TypeOK /\ UNCHANGED <<database, events, run, begun, faults>> /\ begun' \in 0..MaxRequests
  BY DEF IInv, TypeOK, DeleteWrite, ReactivateWrite
<1>1. a \in Accounts /\ request[q].seen \in {"ACTIVE", "DEACTIVATED"}
  BY <1>0 DEF TypeOK, DeleteWrite, ReactivateWrite
<1>2. CASE Become(q, NoRequest)
  BY <1>0, <1>2, EndsQuietly
<1>3. CASE /\ Become(q, RequestAt("deactivate", a, request[q].seen, record[a].state = "none"))
           /\ request[q].seen = "ACTIVE" => Free(a) /\ account[a] # "gone"
  <2> DEFINE local == RequestAt("deactivate", a, request[q].seen, record[a].state = "none")
  <2>1. /\ Fits(local) /\ local.of = a /\ local.at = "deactivate" /\ local.seen = request[q].seen
        /\ ~local.insert => record[a].state # "none"
    BY <1>1, DeletionBounds DEF Fits, RequestAt, RequestSet
  <2>2. Become(q, local)
    BY <1>3
  <2> HIDE DEF local
  <2>3. \A b \in Accounts : Holding(local, b) => Free(b) /\ account[b] # "gone"
    BY <1>3, <2>1 DEF Holding
  <2> QED
    BY <1>0, <2>1, <2>2, <2>3, RequestMoves
<1>4. CASE /\ Become(q, RequestAt("recover", a, "DEACTIVATED", FALSE))
           /\ Free(a) /\ account[a] # "gone"
  <2> DEFINE local == RequestAt("recover", a, "DEACTIVATED", FALSE)
  <2>1. Fits(local) /\ local.of = a /\ local.at = "recover"
    BY <1>1, DeletionBounds DEF Fits, RequestAt, RequestSet
  <2>2. Become(q, local)
    BY <1>4
  <2> HIDE DEF local
  <2>3. \A b \in Accounts : Holding(local, b) => Free(b) /\ account[b] # "gone"
    BY <1>4, <2>1 DEF Holding
  <2> QED
    BY <1>0, <2>1, <2>2, <2>3, RequestMoves
<1>5. CASE DeleteWrite(q)
  BY <1>2, <1>3, <1>5 DEF DeleteWrite
<1>6. CASE ReactivateWrite(q)
  BY <1>2, <1>4, <1>6 DEF ReactivateWrite
<1> QED
  BY <1>5, <1>6

\* A request commits: what that does to the lock.
LEMMA CommitUnlocks ==
    ASSUME IInv, NEW q \in Requests, Become(q, NoRequest)
    PROVE  /\ request' \in [Requests -> RequestSet]
           /\ \A r \in Requests : request'[r].of = NoAccount => request'[r].at = "idle"
           /\ \A r \in Requests : request'[r].at # "idle" => r # q /\ request'[r] = request[r]
           /\ \A r \in Requests, a \in Accounts : Holds(r, a)' => r # q /\ Holds(r, a)
<1>0. TypeOK
  BY DEF IInv
<1>1. request' = [request EXCEPT ![q] = NoRequest] /\ NoRequest.at = "idle"
  BY Constructors DEF Become
<1>2. request' \in [Requests -> RequestSet]
  BY <1>0, <1>1, Constructors DEF TypeOK, RequestSet
<1>3. /\ \A r \in Requests : request'[r].of = NoAccount => request'[r].at = "idle"
      /\ \A r \in Requests : request'[r].at # "idle" => r # q /\ request'[r] = request[r]
  BY <1>0, <1>1 DEF TypeOK
<1>4. \A r \in Requests, a \in Accounts : Holds(r, a)' => r # q /\ Holds(r, a)
  BY <1>3 DEF Holds
<1> QED
  BY <1>2, <1>3, <1>4

LEMMA DeleteCommitKeeps ==
    ASSUME IInv, NEW q \in Requests, DeleteCommit(q)
    PROVE  IInv'
<1> DEFINE a == request[q].of
<1>0. TypeOK /\ Locked /\ Listed /\ PurgeIsWhole /\ DeactivatedIsTracked
  BY DEF IInv
<1>1. /\ request[q].at = "deactivate" /\ Become(q, NoRequest)
      /\ UNCHANGED <<data, events, run, begun, faults>>
  BY DEF DeleteCommit
<1>2. a \in Accounts
  BY <1>0, <1>1 DEF TypeOK
<1>3. CASE UNCHANGED <<account, record>>
  BY <1>1, <1>3, EndsQuietly DEF database
<1>4. CASE /\ request[q].insert => record[a].state = "none"
           /\ account' = IF request[q].seen = "ACTIVE"
                         THEN [account EXCEPT ![a] = "DEACTIVATED"] ELSE account
           /\ record' = IF request[q].insert THEN [record EXCEPT ![a] = NewRecord] ELSE record
  <2>1. /\ request' \in [Requests -> RequestSet]
        /\ \A r \in Requests : request'[r].of = NoAccount => request'[r].at = "idle"
        /\ \A r \in Requests : request'[r].at # "idle" => r # q /\ request'[r] = request[r]
        /\ \A r \in Requests, b \in Accounts : Holds(r, b)' => r # q /\ Holds(r, b)
    BY <1>1, CommitUnlocks
  <2>2. request[q].seen = "ACTIVE" => Holds(q, a)
    BY <1>1 DEF Holds
  <2>3. /\ account' \in [Accounts -> {"ACTIVE", "DEACTIVATED", "gone"}]
        /\ record' \in [Accounts -> RecordSet]
    BY <1>0, <1>2, <1>4, Constructors DEF TypeOK, RecordSet
  <2>4. TypeOK'
    BY <1>0, <1>1, <2>1, <2>3 DEF TypeOK, RecordSet, RequestSet
  <2>5. \A b \in Accounts : /\ record'[b].state \in {record[b].state, "DEACTIVATED"}
                            /\ record'[b] # record[b] => /\ b = a /\ record[b].state = "none"
                                                        /\ record'[b] = NewRecord
    BY <1>0, <1>4, Constructors DEF TypeOK
  <2>6. \A b \in Accounts : account'[b] # account[b] =>
                               b = a /\ request[q].seen = "ACTIVE" /\ account'[b] = "DEACTIVATED"
    BY <1>0, <1>4 DEF TypeOK
  <2>7. Locked'
    <3>1. \A b \in Accounts, q1, q2 \in Requests : Holds(q1, b)' /\ Holds(q2, b)' => q1 = q2
      BY <1>0, <2>1 DEF Locked
    <3>2. \A b \in Accounts, r \in Requests : Holds(r, b)' => account'[b] # "gone"
      BY <1>0, <2>1, <2>6 DEF Locked
    <3>3. ASSUME NEW r \in Requests, request'[r].at = "deactivate", request'[r].seen = "ACTIVE",
                 ~request'[r].insert
          PROVE  record'[request'[r].of].state # "none"
      <4>1. request'[r] = request[r] /\ request[r].of \in Accounts
        BY <1>0, <2>1, <3>3 DEF TypeOK
      <4>2. record[request[r].of].state # "none"
        BY <1>0, <3>3, <4>1 DEF Locked
      <4> QED
        BY <2>5, <4>1, <4>2
    <3> QED
      BY <3>1, <3>2, <3>3 DEF Locked
  <2>8. Listed'
    <3>1. \A b \in Accounts : record'[b].state = "DEACTIVATED" => record'[b].attempts < MaxAttempts
      BY <1>0, <2>5, Constructors, DeletionBounds DEF Listed
    <3>2. \A b \in Accounts : record[b].state \in {"none", "DEACTIVATED"}
                                 => record'[b].state \in {"none", "DEACTIVATED"}
      BY <2>5
    <3>3. run.due \subseteq Accounts /\ (run.at \in {"publish", "purge", "failed"} => run.of \in Accounts)
      BY <1>0 DEF TypeOK
    <3> QED
      BY <1>0, <1>1, <3>1, <3>2, <3>3 DEF Listed
  <2>9. PurgeIsWhole'
    <3>1. account[a] = "gone" => account'[a] = "gone"
      BY <1>0, <1>2, <2>2, <2>6 DEF Locked
    <3> QED
      BY <1>0, <1>1, <2>5, <2>6, <3>1, Constructors DEF PurgeIsWhole
  <2>10. DeactivatedIsTracked'
    <3> SUFFICES ASSUME NEW b \in Accounts, account'[b] = "DEACTIVATED"
                 PROVE  record'[b].state \in {"DEACTIVATED", "PURGE_FAILED"}
      BY DEF DeactivatedIsTracked
    <3>1. CASE account[b] = "DEACTIVATED"
      BY <1>0, <2>5, <3>1 DEF DeactivatedIsTracked
    <3>2. CASE account[b] # "DEACTIVATED"
      <4>1. b = a /\ request[q].seen = "ACTIVE"
        BY <2>6, <3>2
      <4>2. account[a] # "gone" /\ (~request[q].insert => record[a].state # "none")
        BY <1>0, <1>1, <1>2, <2>2, <4>1 DEF Locked
      <4>3. CASE request[q].insert
        BY <1>0, <1>2, <1>4, <4>1, <4>3, Constructors DEF TypeOK
      <4>4. CASE ~request[q].insert
        <5>1. record' = record /\ record[a].state # "none" /\ record[a].state # "PURGED"
          BY <1>0, <1>2, <1>4, <4>2, <4>4 DEF PurgeIsWhole
        <5> QED
          BY <1>0, <1>2, <4>1, <5>1 DEF TypeOK
      <4> QED
        BY <4>3, <4>4
    <3> QED
      BY <3>1, <3>2
  <2> QED
    BY <2>4, <2>7, <2>8, <2>9, <2>10 DEF IInv
<1> QED
  BY <1>3, <1>4 DEF DeleteCommit

LEMMA ReactivateCommitKeeps ==
    ASSUME IInv, NEW q \in Requests, ReactivateCommit(q)
    PROVE  IInv'
<1> DEFINE a == request[q].of
<1>0. TypeOK /\ Locked /\ Listed /\ PurgeIsWhole /\ DeactivatedIsTracked
  BY DEF IInv
<1>1. /\ request[q].at = "recover" /\ Become(q, NoRequest)
      /\ account' = [account EXCEPT ![a] = "ACTIVE"]
      /\ record' = [record EXCEPT ![a] = NoRecord]
      /\ UNCHANGED <<data, events, run, begun, faults>>
  BY DEF ReactivateCommit
<1>2. a \in Accounts /\ Holds(q, a)
  BY <1>0, <1>1 DEF TypeOK, Holds
<1>3. /\ request' \in [Requests -> RequestSet]
      /\ \A r \in Requests : request'[r].of = NoAccount => request'[r].at = "idle"
      /\ \A r \in Requests : request'[r].at # "idle" => r # q /\ request'[r] = request[r]
      /\ \A r \in Requests, b \in Accounts : Holds(r, b)' => r # q /\ Holds(r, b)
  BY <1>1, CommitUnlocks
<1>4. /\ account' \in [Accounts -> {"ACTIVE", "DEACTIVATED", "gone"}]
      /\ record' \in [Accounts -> RecordSet]
  BY <1>0, <1>1, <1>2, Constructors DEF TypeOK, RecordSet
<1>5. TypeOK'
  BY <1>0, <1>1, <1>3, <1>4 DEF TypeOK, RecordSet, RequestSet
<1>6. /\ record'[a].state = "none" /\ account'[a] = "ACTIVE"
      /\ \A b \in Accounts \ {a} : record'[b] = record[b] /\ account'[b] = account[b]
  BY <1>0, <1>1, <1>2, Constructors DEF TypeOK
<1>7. Locked'
  <2>1. \A b \in Accounts, q1, q2 \in Requests : Holds(q1, b)' /\ Holds(q2, b)' => q1 = q2
    BY <1>0, <1>3 DEF Locked
  <2>2. \A b \in Accounts, r \in Requests : Holds(r, b)' => account'[b] # "gone"
    BY <1>0, <1>3, <1>6 DEF Locked
  <2>3. ASSUME NEW r \in Requests, request'[r].at = "deactivate", request'[r].seen = "ACTIVE",
               ~request'[r].insert
        PROVE  record'[request'[r].of].state # "none"
    <3>1. r # q /\ request'[r] = request[r] /\ request[r].of \in Accounts
      BY <1>0, <1>3, <2>3 DEF TypeOK
    <3>2. record[request[r].of].state # "none"
      BY <1>0, <2>3, <3>1 DEF Locked
    <3>3. Holds(r, request[r].of)
      BY <2>3, <3>1 DEF Holds
    <3>4. request[r].of # a
      BY <1>0, <1>2, <3>1, <3>3 DEF Locked
    <3> QED
      BY <1>6, <3>1, <3>2, <3>4
  <2> QED
    BY <2>1, <2>2, <2>3 DEF Locked
<1>8. Listed'
  <2>1. run.due \subseteq Accounts /\ (run.at \in {"publish", "purge", "failed"} => run.of \in Accounts)
    BY <1>0 DEF TypeOK
  <2> QED
    BY <1>0, <1>1, <1>6, <2>1 DEF Listed
<1>9. PurgeIsWhole' /\ DeactivatedIsTracked'
  BY <1>0, <1>1, <1>6 DEF PurgeIsWhole, DeactivatedIsTracked
<1> QED
  BY <1>5, <1>7, <1>8, <1>9 DEF IInv

-----------------------------------------------------------------------------
(* The run.                                                                 *)

\* The run moves and the database stays.
LEMMA RunMoves ==
    ASSUME IInv, run' \in RunSet, run'.at \in {"publish", "purge", "failed"} => run'.of \in Accounts,
           events \subseteq events', events' \subseteq Accounts, faults' \in 0..MaxFaults,
           UNCHANGED <<database, request, begun>>,
           \A a \in run'.due : record[a].state \in {"none", "DEACTIVATED"},
           run'.at \in {"publish", "purge", "failed"} =>
               run'.of \notin run'.due /\ record[run'.of].state \in {"none", "DEACTIVATED"},
           run'.at = "purge" => run'.of \in events'
    PROVE  IInv'
<1>0. TypeOK /\ Locked /\ Listed /\ PurgeIsWhole /\ DeactivatedIsTracked
      /\ UNCHANGED <<account, record, data>>
  BY DEF IInv, database
<1>1. TypeOK'
  BY <1>0 DEF TypeOK, RunSet
<1>2. Locked'
  BY <1>0 DEF Locked, Holds
<1>3. Listed' /\ PurgeIsWhole' /\ DeactivatedIsTracked'
  BY <1>0 DEF Listed, PurgeIsWhole, DeactivatedIsTracked
<1> QED
  BY <1>1, <1>2, <1>3 DEF IInv

LEMMA RunTyped ==
    ASSUME TypeOK
    PROVE  /\ run.at \in {"off", "next", "publish", "purge", "failed"}
           /\ run.due \subseteq Accounts /\ run.fresh \in BOOLEAN
           /\ run.at \in {"publish", "purge", "failed"} => run.of \in Accounts
           /\ events \subseteq Accounts /\ faults \in 0..MaxFaults
BY DEF TypeOK

LEMMA RunAtTyped ==
    ASSUME NEW at \in {"off", "next", "publish", "purge", "failed"},
           NEW of \in Accounts \union {NoAccount}, NEW due \in SUBSET Accounts, NEW fresh \in BOOLEAN
    PROVE  /\ RunAt(at, of, due, fresh) \in RunSet
           /\ RunAt(at, of, due, fresh).at = at /\ RunAt(at, of, due, fresh).of = of
           /\ RunAt(at, of, due, fresh).due = due
BY DEF RunAt, RunSet

LEMMA RunStops ==
    ASSUME IInv, run' = NoRun, faults' \in 0..MaxFaults, UNCHANGED <<database, events, request, begun>>
    PROVE  IInv'
<1>1. events \subseteq Accounts
  BY DEF IInv, TypeOK
<1> QED
  BY <1>1, Constructors, RunMoves

LEMMA RunEndsKeeps ==
    ASSUME IInv, RunEnds \/ Crash
    PROVE  IInv'
<1>1. faults' \in 0..MaxFaults
  BY DeletionBounds DEF IInv, TypeOK, RunEnds, Crash
<1> QED
  BY <1>1, RunStops DEF RunEnds, Crash

LEMMA RunStartsKeeps ==
    ASSUME IInv, RunStarts
    PROVE  IInv'
<1> DEFINE due == {a \in Accounts : record[a].state = "DEACTIVATED" /\ record[a].due}
<1>0. TypeOK /\ run' = RunAt("next", NoAccount, due, TRUE)
      /\ UNCHANGED <<database, events, request, begun, faults>>
  BY DEF IInv, RunStarts
<1>1. due \in SUBSET Accounts /\ \A a \in due : record[a].state \in {"none", "DEACTIVATED"}
  OBVIOUS
<1> HIDE DEF due
<1>2. run' \in RunSet /\ run'.at = "next" /\ run'.due = due
  BY <1>0, <1>1 DEF RunAt, RunSet
<1> QED
  BY <1>0, <1>1, <1>2, RunTyped, RunMoves

LEMMA TakeKeeps ==
    ASSUME IInv, NEW a \in Accounts, Take(a)
    PROVE  IInv'
<1>0. TypeOK /\ Listed /\ a \in run.due /\ UNCHANGED <<database, events, request, begun, faults>>
  BY DEF IInv, Take
<1>1. CASE run' = NoRun
  BY <1>0, <1>1, RunTyped, RunStops
<1>2. CASE run' = RunAt("publish", a, run.due \ {a}, run.fresh)
  <2>1. run.due \ {a} \in SUBSET Accounts /\ run.fresh \in BOOLEAN
    BY <1>0, RunTyped
  <2>2. run' \in RunSet /\ run'.at = "publish" /\ run'.of = a /\ run'.due = run.due \ {a}
    BY <1>2, <2>1, RunAtTyped
  <2>3. /\ \A b \in run.due \ {a} : record[b].state \in {"none", "DEACTIVATED"}
        /\ record[a].state \in {"none", "DEACTIVATED"}
    BY <1>0 DEF Listed
  <2> QED
    BY <1>0, <2>2, <2>3, RunTyped, RunMoves
<1> QED
  BY <1>1, <1>2 DEF Take

\* The run stays at its account and its list.
LEMMA StaysAtAccount ==
    ASSUME IInv, NEW at \in {"purge", "failed"}, run.at \in {"publish", "purge", "failed"},
           run' = RunAt(at, run.of, run.due, run.fresh),
           events \subseteq events', events' \subseteq Accounts, at = "purge" => run.of \in events',
           UNCHANGED <<database, request, begun, faults>>
    PROVE  IInv'
<1>0. TypeOK /\ Listed
  BY DEF IInv
<1>1. run' \in RunSet /\ run'.at = at /\ run'.of = run.of /\ run'.due = run.due /\ run.of \in Accounts
      /\ faults' \in 0..MaxFaults
  BY <1>0, RunTyped, RunAtTyped
<1> QED
  BY <1>0, <1>1, RunMoves DEF Listed

LEMMA PublishKeeps ==
    ASSUME IInv, Publish
    PROVE  IInv'
<1>0. TypeOK /\ run.at = "publish" /\ run.of \in Accounts /\ events \subseteq Accounts
      /\ UNCHANGED <<database, request, begun, faults>>
  BY RunTyped DEF IInv, Publish
<1>1. events \subseteq events' /\ events' \subseteq Accounts
  BY <1>0 DEF Publish
<1>2. CASE run' = RunAt("purge", run.of, run.due, run.fresh) /\ run.of \in events'
  BY <1>0, <1>1, <1>2, StaysAtAccount
<1>3. CASE run' = RunAt("failed", run.of, run.due, run.fresh)
  BY <1>0, <1>1, <1>3, StaysAtAccount
<1> QED
  BY <1>2, <1>3 DEF Publish

\* A record of the list's account at hand, or of one that is due, is rewritten.
LEMMA GraceElapsesKeeps ==
    ASSUME IInv, NEW a \in Accounts, GraceElapses(a)
    PROVE  IInv'
<1>0. TypeOK /\ Locked /\ Listed /\ PurgeIsWhole /\ DeactivatedIsTracked
  BY DEF IInv
<1>1. /\ record[a].state = "DEACTIVATED" /\ record[a].attempts \in 0..MaxAttempts
      /\ record' = [record EXCEPT ![a] = Record("DEACTIVATED", TRUE, record[a].attempts)]
      /\ UNCHANGED <<account, data, events, request, run, begun, faults>>
  BY <1>0 DEF GraceElapses, TypeOK
<1>2. record' \in [Accounts -> RecordSet]
  BY <1>0, <1>1, Constructors DEF TypeOK, RecordSet
<1>3. \A b \in Accounts : record'[b].state = record[b].state /\ record'[b].attempts = record[b].attempts
  <2> DEFINE new == Record("DEACTIVATED", TRUE, record[a].attempts)
  <2>1. new.state = "DEACTIVATED" /\ new.attempts = record[a].attempts
    BY <1>1, Constructors
  <2>2. record' = [record EXCEPT ![a] = new]
    BY <1>1
  <2> HIDE DEF new
  <2> QED
    BY <1>0, <1>1, <2>1, <2>2 DEF TypeOK
<1>4. TypeOK'
  BY <1>0, <1>1, <1>2 DEF TypeOK, RecordSet
<1>5. Locked'
  <2>1. \A q \in Requests : request[q].at = "deactivate" => request[q].of \in Accounts
    BY <1>0 DEF TypeOK
  <2> QED
    BY <1>0, <1>1, <1>3, <2>1 DEF Locked, Holds
<1>6. Listed'
  BY <1>0, <1>1, <1>3, RunTyped DEF Listed
<1>7. PurgeIsWhole' /\ DeactivatedIsTracked'
  BY <1>0, <1>1, <1>3 DEF PurgeIsWhole, DeactivatedIsTracked
<1> QED
  BY <1>4, <1>5, <1>6, <1>7 DEF IInv

\* The run is done with its account and goes on to the next.
LEMMA Proceeds ==
    ASSUME TypeOK, Listed, NextRecord
    PROVE  run' \in RunSet /\ run'.at = "next" /\ run'.due = run.due
<1>1. run.due \in SUBSET Accounts /\ run' = RunAt("next", NoAccount, run.due, FALSE)
  BY RunTyped DEF NextRecord
<1> QED
  BY <1>1 DEF RunAt, RunSet

LEMMA PurgeKeeps ==
    ASSUME IInv, Purge
    PROVE  IInv'
<1> DEFINE a == run.of
<1>0. TypeOK /\ Locked /\ Listed /\ PurgeIsWhole /\ DeactivatedIsTracked
  BY DEF IInv
<1>1. /\ run.at = "purge" /\ UNCHANGED <<events, request, begun, faults>>
      /\ a \in Accounts /\ a \in events /\ a \notin run.due
  BY <1>0, RunTyped DEF Purge, Listed
<1>2. CASE run' = RunAt("failed", run.of, run.due, run.fresh) /\ UNCHANGED database
  BY <1>0, <1>1, <1>2, RunTyped, StaysAtAccount
<1>3. CASE /\ Free(a) /\ data' = data \ {a} /\ account' = [account EXCEPT ![a] = "gone"]
           /\ record' = [record EXCEPT ![a] = IF record[a].state = "none" THEN record[a]
                             ELSE Record("PURGED", record[a].due, record[a].attempts)]
           /\ NextRecord
  <2>1. record[a] \in RecordSet /\ record[a].due \in BOOLEAN /\ record[a].attempts \in 0..MaxAttempts
    BY <1>0, <1>1 DEF TypeOK, RecordSet
  <2> DEFINE new == IF record[a].state = "none" THEN record[a]
                    ELSE Record("PURGED", record[a].due, record[a].attempts)
  <2>2. /\ new \in RecordSet /\ new.state \in {"none", "PURGED"}
        /\ new.state = "none" => record[a].state = "none"
    BY <2>1, Constructors
  <2>3. record' = [record EXCEPT ![a] = new]
    BY <1>3
  <2> HIDE DEF new
  <2>4. /\ account' \in [Accounts -> {"ACTIVE", "DEACTIVATED", "gone"}]
        /\ record' \in [Accounts -> RecordSet]
    BY <1>0, <1>1, <1>3, <2>2, <2>3 DEF TypeOK, RecordSet
  <2>5. /\ account'[a] = "gone" /\ record'[a].state \in {"none", "PURGED"}
        /\ record'[a].state = "none" => record[a].state = "none"
        /\ \A b \in Accounts \ {a} : account'[b] = account[b] /\ record'[b] = record[b]
    BY <1>0, <1>1, <1>3, <2>2, <2>3 DEF TypeOK
  <2>6. run' \in RunSet /\ run'.at = "next" /\ run'.due = run.due
    BY <1>0, <1>3, Proceeds
  <2>7. TypeOK'
    BY <1>0, <1>1, <1>3, <2>4, <2>6 DEF TypeOK, RecordSet, RunSet
  <2>8. Locked'
    <3>1. \A b \in Accounts, r \in Requests : Holds(r, b)' <=> Holds(r, b)
      BY <1>1 DEF Holds
    <3>2. \A b \in Accounts, r \in Requests : Holds(r, b) => b # a
      BY <1>3 DEF Free
    <3>3. ASSUME NEW r \in Requests, request[r].at = "deactivate", request[r].seen = "ACTIVE",
                 ~request[r].insert
          PROVE  record'[request[r].of].state # "none"
      <4>1. request[r].of \in Accounts /\ record[request[r].of].state # "none"
        BY <1>0, <3>3 DEF TypeOK, Locked
      <4> QED
        BY <2>5, <4>1
    <3> QED
      BY <1>0, <1>1, <2>5, <3>1, <3>2, <3>3 DEF Locked
  <2>9. Listed'
    BY <1>0, <1>1, <2>5, <2>6, RunTyped DEF Listed
  <2>10. PurgeIsWhole' /\ DeactivatedIsTracked'
    BY <1>0, <1>1, <1>3, <2>5 DEF PurgeIsWhole, DeactivatedIsTracked
  <2> QED
    BY <2>7, <2>8, <2>9, <2>10 DEF IInv
<1> QED
  BY <1>2, <1>3 DEF Purge

LEMMA RecordFailureKeeps ==
    ASSUME IInv, RecordFailure
    PROVE  IInv'
<1> DEFINE a == run.of
           n == record[a].attempts + 1
<1>0. TypeOK /\ Locked /\ Listed /\ PurgeIsWhole /\ DeactivatedIsTracked
  BY DEF IInv
<1>1. /\ run.at = "failed" /\ NextRecord /\ UNCHANGED <<account, data, events, request, begun>>
      /\ a \in Accounts /\ a \notin run.due /\ record[a].state \in {"none", "DEACTIVATED"}
  BY <1>0, RunTyped DEF RecordFailure, Listed
<1>2. run' \in RunSet /\ run'.at = "next" /\ run'.due = run.due
  BY <1>0, <1>1, Proceeds
<1>3. faults' \in 0..MaxFaults
  BY <1>0, DeletionBounds DEF RecordFailure, TypeOK
<1>4. CASE UNCHANGED record
  BY <1>0, <1>1, <1>2, <1>3, <1>4, RunTyped, RunMoves DEF database, Listed
<1>5. CASE record' = [record EXCEPT ![a] = IF record[a].state = "none" THEN record[a]
                          ELSE Record(IF n >= MaxAttempts THEN "PURGE_FAILED" ELSE record[a].state,
                                      record[a].due, n)]
  <2>1. /\ record[a] \in RecordSet /\ record[a].due \in BOOLEAN
        /\ record[a].state = "DEACTIVATED" => n \in 0..MaxAttempts
    BY <1>0, <1>1, DeletionBounds DEF TypeOK, RecordSet, Listed
  <2>2. /\ record' \in [Accounts -> RecordSet]
        /\ record[a].state = "none" <=> record'[a].state = "none"
        /\ record'[a].state \in {"none", "DEACTIVATED", "PURGE_FAILED"}
        /\ record'[a].state = "DEACTIVATED" => record'[a].attempts < MaxAttempts
        /\ \A b \in Accounts \ {a} : record'[b] = record[b]
    <3> DEFINE new == Record(IF n >= MaxAttempts THEN "PURGE_FAILED" ELSE record[a].state,
                             record[a].due, n)
    <3>1. CASE record[a].state = "none"
      <4>1. record' = record
        BY <1>0, <1>1, <1>5, <3>1 DEF TypeOK
      <4> QED
        BY <1>0, <3>1, <4>1 DEF TypeOK, RecordSet
    <3>2. CASE record[a].state = "DEACTIVATED"
      <4>1. /\ new \in RecordSet /\ new.attempts = n
            /\ new.state = IF n >= MaxAttempts THEN "PURGE_FAILED" ELSE "DEACTIVATED"
        BY <2>1, <3>2, Constructors
      <4>2. n >= MaxAttempts \/ n < MaxAttempts
        BY <2>1, <3>2, DeletionBounds
      <4>3. record' = [record EXCEPT ![a] = new]
        BY <1>5, <3>2
      <4> HIDE DEF new, n
      <4>4. record' \in [Accounts -> RecordSet] /\ record'[a] = new
            /\ \A b \in Accounts \ {a} : record'[b] = record[b]
        BY <1>0, <1>1, <4>1, <4>3 DEF TypeOK, RecordSet
      <4> QED
        BY <3>2, <4>1, <4>2, <4>4
    <3> QED
      BY <1>1, <3>1, <3>2
  <2>3. TypeOK'
    BY <1>0, <1>1, <1>2, <1>3, <2>2 DEF TypeOK, RecordSet, RunSet
  <2>4. Locked'
    <3>1. \A r \in Requests : request[r].at = "deactivate" => request[r].of \in Accounts
      BY <1>0 DEF TypeOK
    <3> QED
      BY <1>0, <1>1, <2>2, <3>1 DEF Locked, Holds
  <2>5. Listed'
    BY <1>0, <1>1, <1>2, <2>2, RunTyped DEF Listed
  <2>6. PurgeIsWhole' /\ DeactivatedIsTracked'
    BY <1>0, <1>1, <2>2 DEF PurgeIsWhole, DeactivatedIsTracked
  <2> QED
    BY <2>3, <2>4, <2>5, <2>6 DEF IInv
<1> QED
  BY <1>4, <1>5 DEF RecordFailure

-----------------------------------------------------------------------------
LEMMA InitIInv == Init => IInv
<1> SUFFICES ASSUME Init PROVE IInv
  OBVIOUS
<1>1. /\ record \in [Accounts -> RecordSet] /\ request \in [Requests -> RequestSet]
      /\ \A a \in Accounts : record[a].state = "none"
      /\ \A q \in Requests : request[q].at = "idle"
      /\ run \in RunSet /\ run.at = "off" /\ run.due = {}
  BY Constructors DEF Init
<1>2. TypeOK
  BY <1>1, DeletionBounds DEF Init, TypeOK, RecordSet, RequestSet, RunSet
<1>3. Locked /\ Listed /\ PurgeIsWhole /\ DeactivatedIsTracked
  BY <1>1 DEF Init, Locked, Holds, Listed, PurgeIsWhole, DeactivatedIsTracked
<1> QED
  BY <1>2, <1>3 DEF IInv

LEMMA StutterKeeps ==
    ASSUME IInv, UNCHANGED vars
    PROVE  IInv'
<1>1. UNCHANGED <<account, record, data, events, request, run, begun, faults>>
  BY DEF vars, database
<1> QED
  BY <1>1 DEF IInv, TypeOK, Locked, Holds, Listed, PurgeIsWhole, DeactivatedIsTracked

\* The inductive invariant of the end of an account: types, the row lock, and what
\* the run's list may still hold.
THEOREM Invariance == Spec => []IInv
<1>1. ASSUME IInv, [Next]_vars
      PROVE  IInv'
  <2>1. ASSUME NEW q \in Requests, RequestStep(q) PROVE IInv'
    <3>1. CASE Rollback(q)
      BY <3>1, <1>1, EndsQuietly DEF Rollback
    <3> QED
      BY <1>1, <2>1, <3>1, WriteKeeps, DeleteCommitKeeps, ReactivateCommitKeeps DEF RequestStep
  <2>2. ASSUME RunStep PROVE IInv'
    BY <1>1, <2>2, TakeKeeps, PublishKeeps, PurgeKeeps, RecordFailureKeeps, RunEndsKeeps DEF RunStep
  <2> QED
    BY <1>1, <2>1, <2>2, GraceElapsesKeeps, ReadKeeps, RunStartsKeeps, RunEndsKeeps, StutterKeeps
       DEF Next
<1> QED
  BY <1>1, InitIInv, PTL DEF Spec

\* The state keeps its types; the attempts of a purge never exceed their limit,
\* although the list the run works from may be out of date
\* (services/account_deletion.py: purge_job).
THEOREM TypeCorrect == Spec => []TypeOK
<1>1. IInv => TypeOK
  BY DEF IInv
<1> QED
  BY <1>1, Invariance, PTL

\* An account that is gone was announced and left no data, and no record says
\* PURGED of one that is there (services/account_deletion.py: purge_job).
THEOREM PurgesAreWhole == Spec => []PurgeIsWhole
<1>1. IInv => PurgeIsWhole
  BY DEF IInv
<1> QED
  BY <1>1, Invariance, PTL

\* A deactivated account always has its deletion record, whatever requests and
\* runs overlap (services/account_deletion.py, services/auth.py).
THEOREM NoLimbo == Spec => []DeactivatedIsTracked
<1>1. IInv => DeactivatedIsTracked
  BY DEF IInv
<1> QED
  BY <1>1, Invariance, PTL
=============================================================================
