---------------------------- MODULE BusinessServer ----------------------------
(***************************************************************************)
(* The handlers of BusinessServer that change activities and their members, *)
(* run by the IO threads of the TcpServer over the one MYSQL connection     *)
(* they share.  A handler is a program of SQL statements; other threads'    *)
(* statements come between any two of them.  One statement is one step: the *)
(* client library is taken to serialise calls, which it does not promise.   *)
(*                                                                          *)
(* The connection is one session of the database: it has one transaction at *)
(* most, START TRANSACTION commits the one that is open, and a statement of *)
(* another thread belongs to whatever transaction is open.                  *)
(***************************************************************************)
EXTENDS ActivityTables, Sequences, SequencesExt

CONSTANTS Threads,      \* the IO threads there may be
          Caps,         \* values of max_participants
          Batches,      \* the lists of users in one request
          MaxRequests   \* bound: requests served

ASSUME BusinessAssumption ==
  /\ Acts = 1..Cardinality(Acts) /\ MaxRequests \in Nat /\ IsFiniteSet(Threads)
  /\ Caps \subseteq Nat /\ Batches \subseteq Seq(Users)

VARIABLES
  workers,      \* the IO threads of this run (setThreadNum)
  db,           \* the tables as the session sees them
  undo,         \* the tables when the open transaction began, or None
  unregistered, \* ids no user has had yet
  nextAct,      \* AUTO_INCREMENT of activities, which no ROLLBACK takes back
  job,          \* [Threads -> what the handler has left to do]
  served        \* how many requests have been taken

vars == <<workers, db, undo, unregistered, nextAct, job, served>>

None == [none |-> TRUE]
Idle == [req |-> None, todo |-> <<>>, made |-> {}]

\* The tables as they are if the connection is lost now.
Committed == IF undo = None THEN db ELSE undo

-----------------------------------------------------------------------------
(* The requests, with fields the client chose; the role check isAuthorized  *)
(* is on a field of the request too and is taken to be passed.              *)

Requests ==
  [op : {"apply", "leave"}, act : Acts, user : Users]
    \union [op : {"approve"}, act : Acts, user : Users, verdict : {"approved", "rejected"}]
    \union [op : {"assign", "confirm"}, act : Acts, users : Batches]
    \union [op : {"settle"}, act : Acts,
            results : UNION {{[i \in DOMAIN b |-> [user |-> b[i], ok |-> i \notin bad]] :
                               bad \in SUBSET DOMAIN b} : b \in Batches}]
    \union [op : {"add"}, cap : Caps, weeks : {<<TRUE>>, <<TRUE, TRUE>>, <<TRUE, FALSE>>}]
    \union [op : {"update"}, act : Acts, cap : Caps]
    \union [op : {"deleteActivity"}, act : Acts]
    \union [op : {"register"}, users : (SUBSET Users) \ {{}}]
    \union [op : {"deleteMember"}, users : {{u} : u \in Users}]
    \union [op : {"batchDelete"}, users : {Range(b) : b \in Batches}]

Start == <<[do |-> "START"]>>
Commit == <<[do |-> "COMMIT"]>>
Rollback == <<[do |-> "ROLLBACK"]>>
Transaction(body) == Start \o body \o Commit

-----------------------------------------------------------------------------
(* The handlers: their statements, in their order.                          *)

Apply(r) == <<[do |-> "mayApply", act |-> r.act],
              [do |-> "pend", act |-> r.act, user |-> r.user]>>

Leave(r) == <<[do |-> "mayLeave", act |-> r.act],
              [do |-> "quit", act |-> r.act, user |-> r.user]>>

MutRecord(r) ==             \* approves by what the request says, not by the row
  <<[do |-> "join", act |-> r.act, user |-> r.user, type |-> "applied"]>>

\* UPDATE activity_applications, then INSERT INTO activity_members ... SELECT.
Record(r) ==
  <<[do |-> "verdict", act |-> r.act, user |-> r.user, verdict |-> r.verdict]>>
    \o IF r.verdict = "approved"
       THEN <<[do |-> "sync", act |-> r.act, user |-> r.user]>> ELSE <<>>

Approve(r) == Transaction(Record(r))

Assign(r) == Transaction([i \in DOMAIN r.users |->
  [do |-> "join", act |-> r.act, user |-> r.users[i], type |-> "assigned"]])

SignAll(r) == [i \in DOMAIN r.results |-> [do |-> "sign", act |-> r.act, res |-> r.results[i]]]

MutSettle(r) ==             \* locks the activity before the transaction
  <<[do |-> "lock", act |-> r.act]>> \o Transaction(SignAll(r))

Settle(r) == Transaction(SignAll(r) \o <<[do |-> "lock", act |-> r.act]>>)

Add(r) == Transaction([i \in DOMAIN r.weeks |->
  [do |-> "insert", cap |-> r.cap, week |-> r.weeks[i]]])

DeleteMember(r) == Transaction(<<r>>)

\* One statement does the whole request.
ConfirmAssign(r) == <<r>>
UpdateActivity(r) == <<r>>
DeleteActivity(r) == <<r>>
BatchDelete(r) == <<r>>
BulkRegister(r) == <<r>>

Program(r) ==
  CASE r.op = "apply" -> Apply(r)
    [] r.op = "leave" -> Leave(r)
    [] r.op = "approve" -> Approve(r)
    [] r.op = "assign" -> Assign(r)
    [] r.op = "confirm" -> ConfirmAssign(r)
    [] r.op = "settle" -> Settle(r)
    [] r.op = "add" -> Add(r)
    [] r.op = "update" -> UpdateActivity(r)
    [] r.op = "deleteActivity" -> DeleteActivity(r)
    [] r.op = "deleteMember" -> DeleteMember(r)
    [] r.op = "batchDelete" -> BatchDelete(r)
    [] r.op = "register" -> BulkRegister(r)

\* The names Program gives its statements, those of a whole request included.
Kind(s) == IF "do" \in DOMAIN s THEN s.do ELSE s.op

-----------------------------------------------------------------------------
(* One statement.                                                           *)

\* A precondition read from the tables that makes the handler return.
Refused(s) == \/ Kind(s) = "mayApply" /\ ~MayApply(db, s.act)
              \/ Kind(s) = "mayLeave" /\ ~MayLeave(db, s.act)

\* An error of the database: a foreign key, a unique key or a CHECK, a range.
Fails(s) ==
  \/ Kind(s) = "join" /\ ~CanJoin(db, s.act, s.user)
  \/ Kind(s) = "sync" /\ db.apps[s.act, s.user] # "none"
       /\ (~CanJoin(db, s.act, s.user) \/ IsMember(db, s.act, s.user))
  \/ Kind(s) = "sign" /\ ~CanSign(db, s.act, s.res)
  \/ Kind(s) = "insert" /\ ~s.week
  \/ Kind(s) = "confirm" /\ \E u \in Range(s.users) : ~CanJoin(db, s.act, u)

Run(s) ==
  CASE Kind(s) \in {"mayApply", "mayLeave"} -> db
    [] Kind(s) = "pend" -> [db EXCEPT !.apps[<<s.act, s.user>>] = "pending"]
    [] Kind(s) = "quit" -> Without(db, {<<s.act, s.user>>})
    [] Kind(s) = "verdict" ->
         IF db.apps[s.act, s.user] = "none" THEN db
         ELSE [db EXCEPT !.apps[<<s.act, s.user>>] = s.verdict]
    [] Kind(s) = "sync" -> IF db.apps[s.act, s.user] = "none" THEN db
                           ELSE Join(db, s.act, s.user, "applied")
    [] Kind(s) = "join" -> Join(db, s.act, s.user, s.type)
    [] Kind(s) = "sign" -> Sign(db, s.act, s.res.user)
    [] Kind(s) = "lock" -> [db EXCEPT !.status[s.act] = IF @ = "none" THEN @ ELSE "settled"]
    [] Kind(s) = "insert" -> [db EXCEPT !.status[nextAct] = "recruiting", !.cap[nextAct] = s.cap]
    [] Kind(s) \in {"confirm", "update", "deleteActivity", "deleteMember", "batchDelete",
                     "register"} -> Effect(db, s, {})

MutAfterError(todo) ==      \* leaves without a ROLLBACK
  IF Kind(Head(todo)) = "sync" THEN Tail(todo) ELSE <<>>

\* What a handler does when a statement fails: handleApproveApplication goes
\* on, the others end, with a ROLLBACK if they began a transaction.
AfterError(todo) ==
  IF Kind(Head(todo)) = "sync" THEN Tail(todo)
  ELSE IF Last(todo) = Commit[1] THEN Rollback ELSE <<>>

-----------------------------------------------------------------------------
Init ==
  /\ workers \in (SUBSET Threads) \ {{}}
  /\ unregistered \in (SUBSET Users) \ {Users}
  /\ \E c \in Caps :
       db = [users   |-> Users \ unregistered,
             status  |-> [a \in Acts |-> IF a = 1 THEN "recruiting" ELSE "none"],
             cap     |-> [a \in Acts |-> IF a = 1 THEN c ELSE 0],
             apps    |-> [p \in Pairs |-> "none"],
             members |-> [p \in Pairs |-> "none"],
             signed  |-> {}]
  /\ undo = None /\ nextAct = 2
  /\ job = [t \in Threads |-> Idle] /\ served = 0

\* Activities that handlers have yet to insert.
Inserts(t) == {i \in DOMAIN job[t].todo : Kind(job[t].todo[i]) = "insert"}
Promised == Cardinality(UNION {{t} \X Inserts(t) : t \in Threads})

\* dispatchAction calls the handler. Ids for an "add" and for new users are
\* bounded by Acts and Users.
Receive(t, r) ==
  /\ t \in workers /\ job[t] = Idle /\ served < MaxRequests
  /\ r.op = "add" => nextAct + Promised + Len(r.weeks) - 1 \in Acts
  /\ job' = [job EXCEPT ![t] = [req |-> r, todo |-> Program(r), made |-> {}]]
  /\ r.op = "register" => r.users \subseteq unregistered
  /\ unregistered' = IF r.op = "register" THEN unregistered \ r.users ELSE unregistered
  /\ served' = served + 1
  /\ UNCHANGED <<workers, db, undo, nextAct>>

\* A handler with nothing left to do answers and is done.
Left(j, todo, made) == IF todo = <<>> THEN Idle ELSE [j EXCEPT !.todo = todo, !.made = made]

Control(t) ==               \* START TRANSACTION, COMMIT, ROLLBACK
  /\ job[t].todo # <<>>
  /\ LET s == Head(job[t].todo) IN
       /\ Kind(s) \in {"START", "COMMIT", "ROLLBACK"}
       /\ undo' = IF Kind(s) = "START" THEN db ELSE None
       /\ db' = IF Kind(s) = "ROLLBACK" THEN Committed ELSE db
       /\ job' = [job EXCEPT ![t] = Left(@, Tail(@.todo), @.made)]
  /\ UNCHANGED <<workers, unregistered, nextAct, served>>

Statement(t) ==
  /\ job[t].todo # <<>>
  /\ LET s == Head(job[t].todo) IN
       /\ Kind(s) \notin {"START", "COMMIT", "ROLLBACK"}
       /\ ~Refused(s) /\ ~Fails(s)
       /\ db' = Run(s)
       /\ nextAct' = IF Kind(s) = "insert" THEN nextAct + 1 ELSE nextAct
       /\ job' = [job EXCEPT ![t] = Left(@, Tail(@.todo),
                    IF Kind(s) = "insert" THEN @.made \union {nextAct} ELSE @.made)]
  /\ UNCHANGED <<workers, undo, unregistered, served>>

Error(t) ==
  /\ job[t].todo # <<>>
  /\ LET s == Head(job[t].todo) IN
       \/ Refused(s) /\ job' = [job EXCEPT ![t] = Idle]
       \/ Fails(s) /\ job' = [job EXCEPT ![t] = Left(@, AfterError(@.todo), @.made)]
  /\ UNCHANGED <<workers, db, undo, unregistered, nextAct, served>>

\* The process ends, for instance by an exception no handler catches, and is
\* started again: the database undoes the open transaction.
Crash ==
  /\ \E t \in workers : job[t] # Idle
  /\ db' = Committed /\ undo' = None
  /\ job' = [t \in Threads |-> Idle]
  /\ UNCHANGED <<workers, unregistered, nextAct, served>>

Next == \/ \E t \in Threads : Control(t) \/ Statement(t) \/ Error(t)
        \/ \E t \in Threads, r \in Requests : Receive(t, r)
        \/ Crash

Spec == Init /\ [][Next]_vars

-----------------------------------------------------------------------------
(* No handler leaves the shared session in a transaction: one is open only  *)
(* while some handler still has its COMMIT or ROLLBACK before it, so when   *)
(* all are idle what they answered for is durable.                          *)
NoTransactionLeftOpen ==
  undo # None => \E t \in Threads :
    job[t] # Idle /\ <<Last(job[t].todo)>> \in {Commit, Rollback}

(* Nobody is a member by application without an application on record,      *)
(* whatever the threads do to each other's transactions.                    *)
AppliedHasApplication ==
  \A p \in Pairs : db.members[p] = "applied" => db.apps[p] # "none"

(* Members and what they signed for are rows of existing activities and     *)
(* users, in tables of the right types, through deletions, rollbacks and    *)
(* crashes.                                                                 *)
MembersExist ==
  \A d \in {db, Committed} : d \in Database /\ \A p \in Pairs :
    (d.members[p] # "none" \/ p \in d.signed)
      => /\ Exists(d, p[1]) /\ p[2] \in d.users /\ d.members[p] # "none"

(* With one IO thread every request is atomic: what it leaves, also after   *)
(* an error or a crash between two of its statements, is its whole effect   *)
(* or nothing of it.                                                        *)
AtomicRequests ==
  [][Cardinality(workers) = 1 =>
       \E t \in workers : /\ job[t].req # None
                           /\ Committed' = Effect(Committed, job[t].req, job[t].made)]_Committed

(* "All of the repeated activities are created or all fail" (comment in     *)
(* handleAddActivity): when it has failed and rolled back, none of the      *)
(* activities it inserted is left. The code breaks it: another thread's     *)
(* START TRANSACTION or COMMIT commits the first ones before the ROLLBACK.  *)
FailedAddLeavesNothing ==
  [][\A t \in Threads :
       (job[t].req # None /\ job[t].todo = Rollback /\ job'[t] = Idle)
         => \A a \in job[t].made : ~Exists(db', a)]_vars
=============================================================================
