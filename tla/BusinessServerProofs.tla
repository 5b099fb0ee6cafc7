------------------------- MODULE BusinessServerProofs -------------------------
(***************************************************************************)
(* The handlers of BusinessServer, for any number of IO threads, users,     *)
(* activities and requests: the shared session is never left in a           *)
(* transaction, and the rows of the tables go on fitting together whatever  *)
(* the threads do to each other's transactions. With one IO thread each     *)
(* request is atomic.                                                       *)
(***************************************************************************)
EXTENDS BusinessServer, SequenceTheorems, FiniteSetTheorems, TLAPS

-----------------------------------------------------------------------------
(* Types.                                                                   *)

\* The requests that are one statement, or (deleteMember) one in a transaction.
WholeOps == {"confirm", "update", "deleteActivity", "deleteMember", "batchDelete", "register"}
Whole == {r \in Requests : r.op \in WholeOps}

Statements ==
  [do : {"START", "COMMIT", "ROLLBACK"}]
    \union [do : {"mayApply", "mayLeave", "lock"}, act : Acts]
    \union [do : {"pend", "quit", "sync"}, act : Acts, user : Users]
    \union [do : {"verdict"}, act : Acts, user : Users, verdict : {"approved", "rejected"}]
    \union [do : {"join"}, act : Acts, user : Users, type : {"assigned"}]
    \union [do : {"sign"}, act : Acts, res : [user : Users, ok : BOOLEAN]]
    \union [do : {"insert"}, cap : Caps, week : BOOLEAN]
    \union Whole

Controls == {"START", "COMMIT", "ROLLBACK"}
Checks == {"mayApply", "mayLeave"}
Kinds == Controls \union Checks \union WholeOps
           \union {"lock", "pend", "quit", "sync", "verdict", "join", "sign", "insert"}

(* A statement carries the arguments that its kind needs.                   *)
Typed(s) ==
  LET k == Kind(s) IN
  /\ k \in Kinds
  /\ k \in Checks \union {"lock", "pend", "quit", "sync", "verdict", "join", "sign",
                          "confirm", "update", "deleteActivity"} => s.act \in Acts
  /\ k \in {"pend", "quit", "sync", "verdict", "join"} => s.user \in Users
  /\ k = "verdict" => s.verdict \in {"approved", "rejected"}
  /\ k = "join" => s.type = "assigned"
  /\ k = "sign" => s.res.user \in Users
  /\ k \in {"insert", "update"} => s.cap \in Nat
  /\ k = "register" => s.users \subseteq Users
  /\ k \in WholeOps => s.op = k

(* The fields of a request, as the client may choose them.                  *)
LEMMA WholeTyped ==
  ASSUME NEW r \in Whole
  PROVE  Typed(r) /\ Kind(r) = r.op
<1>1. r.op \in WholeOps /\ r \in Requests
  BY DEF Whole
<1>2. Kind(r) = r.op
  BY <1>1 DEF Kind, Requests, WholeOps
<1>3. r.op \in {"confirm", "update", "deleteActivity"} => r.act \in Acts
  BY <1>1 DEF Requests
<1>4. r.op = "update" => r.cap \in Nat
  BY <1>1, BusinessAssumption DEF Requests
<1>5. r.op = "register" => r.users \subseteq Users
  BY <1>1 DEF Requests
<1> QED  BY <1>1, <1>2, <1>3, <1>4, <1>5 DEF Typed, Kinds, WholeOps, Checks

(* So do all the statements.                                                *)
LEMMA StatementTyped ==
  ASSUME NEW s \in Statements
  PROVE  Typed(s)
<1>1. CASE s \in Whole
  BY <1>1, WholeTyped
<1>2. CASE s \notin Whole
  <2>1. Kind(s) = s.do
    BY <1>2 DEF Statements, Kind
  <2> QED  BY <1>2, <2>1, BusinessAssumption
           DEF Statements, Typed, Kinds, WholeOps, Checks, Controls
<1> QED  BY <1>1, <1>2

-----------------------------------------------------------------------------
(* The programs of the handlers.                                            *)

Ends(todo) == <<Last(todo)>> \in {Commit, Rollback}

(* What a handler has left to do, at any point: a START has its COMMIT at   *)
(* the end; a check, after which the handler may just return, is in no      *)
(* transaction; and a ROLLBACK is the last thing it does.                   *)
Shape(todo) ==
  /\ todo \in Seq(Statements)
  /\ \A i \in 1..Len(todo) :
       /\ Kind(todo[i]) = "START" => <<Last(todo)>> = Commit
       /\ Kind(todo[i]) \in Checks => ~Ends(todo)
       /\ Kind(todo[i]) = "ROLLBACK" => todo = Rollback

(* A transaction is START, its statements and COMMIT.                       *)
LEMMA TransactionIs ==
  ASSUME NEW body \in Seq(Statements)
  PROVE  /\ Transaction(body) \in Seq(Statements)
         /\ Len(body) \in Nat /\ Len(Transaction(body)) = 2 + Len(body)
         /\ Transaction(body)[1] = [do |-> "START"]
         /\ \A i \in 1..Len(body) : Transaction(body)[i + 1] = body[i]
         /\ Transaction(body)[2 + Len(body)] = [do |-> "COMMIT"]
<1> DEFINE all == Transaction(body)
<1>1. /\ [do |-> "START"] \in Statements /\ [do |-> "COMMIT"] \in Statements
      /\ Kind([do |-> "START"]) = "START" /\ Kind([do |-> "COMMIT"]) = "COMMIT"
  BY DEF Statements, Kind
<1>2. Start \in Seq(Statements) /\ Len(Start) = 1 /\ Start[1] = [do |-> "START"]
  BY <1>1 DEF Start
<1>3. Commit \in Seq(Statements) /\ Len(Commit) = 1 /\ Commit[1] = [do |-> "COMMIT"]
  BY <1>1 DEF Commit
<1>4. Len(body) \in Nat
  BY LenProperties
<1> DEFINE part == Start \o body
<1>5. /\ part \in Seq(Statements) /\ Len(part) = 1 + Len(body)
      /\ \A i \in 1..(1 + Len(body)) :
           part[i] = IF i <= 1 THEN Start[i] ELSE body[i - 1]
  <2> HIDE DEF part
  <2>1. /\ Start \o body \in Seq(Statements) /\ Len(Start \o body) = Len(Start) + Len(body)
        /\ \A i \in 1..(Len(Start) + Len(body)) : (Start \o body)[i] =
             IF i <= Len(Start) THEN Start[i] ELSE body[i - Len(Start)]
    BY <1>2, ConcatProperties
  <2> QED  BY <1>2, <2>1 DEF part
<1> HIDE DEF part
<1>6. /\ part \o Commit \in Seq(Statements) /\ Len(part \o Commit) = 2 + Len(body)
      /\ \A i \in 1..(2 + Len(body)) : (part \o Commit)[i] =
           IF i <= 1 + Len(body) THEN part[i] ELSE Commit[i - (1 + Len(body))]
  <2>1. /\ part \o Commit \in Seq(Statements) /\ Len(part \o Commit) = Len(part) + Len(Commit)
        /\ \A i \in 1..(Len(part) + Len(Commit)) : (part \o Commit)[i] =
             IF i <= Len(part) THEN part[i] ELSE Commit[i - Len(part)]
    BY <1>3, <1>5, ConcatProperties
  <2>2. Len(part) + Len(Commit) = 2 + Len(body)
    BY <1>3, <1>4, <1>5
  <2> QED  BY <1>5, <2>1, <2>2
<1>7. all = part \o Commit
  BY DEF Transaction, part
<1> HIDE DEF all
<1>8. all[1] = [do |-> "START"]
  BY <1>2, <1>4, <1>5, <1>6, <1>7
<1>9. ASSUME NEW i \in 1..Len(body)
      PROVE  all[i + 1] = body[i]
  <2>1. /\ i + 1 \in 1..(2 + Len(body)) /\ i + 1 <= 1 + Len(body)
        /\ i + 1 \in 1..(1 + Len(body)) /\ ~(i + 1 <= 1) /\ (i + 1) - 1 = i
    BY <1>4
  <2>2. all[i + 1] = part[i + 1]
    BY <1>6, <1>7, <2>1
  <2>3. part[i + 1] = body[(i + 1) - 1]
    BY <1>5, <2>1
  <2> QED  BY <2>1, <2>2, <2>3
<1>10. all[2 + Len(body)] = [do |-> "COMMIT"]
  <2>1. /\ 2 + Len(body) \in 1..(2 + Len(body)) /\ ~(2 + Len(body) <= 1 + Len(body))
        /\ (2 + Len(body)) - (1 + Len(body)) = 1
    BY <1>4
  <2>2. all[2 + Len(body)] = Commit[1]
    BY <1>6, <1>7, <2>1
  <2> QED  BY <1>3, <2>2
<1> QED  BY <1>4, <1>6, <1>7, <1>8, <1>9, <1>10 DEF all

(* It has the shape when the statements in it are neither checks nor        *)
(* controls themselves.                                                     *)
LEMMA TransactionShape ==
  ASSUME NEW body \in Seq(Statements),
         \A i \in 1..Len(body) : Kind(body[i]) \notin Controls \union Checks
  PROVE  Transaction(body) # <<>> /\ Shape(Transaction(body))
<1> DEFINE all == Transaction(body)
<1>1. /\ all \in Seq(Statements) /\ Len(body) \in Nat /\ Len(all) = 2 + Len(body)
      /\ all[1] = [do |-> "START"] /\ \A i \in 1..Len(body) : all[i + 1] = body[i]
      /\ all[2 + Len(body)] = [do |-> "COMMIT"]
  BY TransactionIs
<1> HIDE DEF all
<1>2. <<Last(all)>> = Commit
  BY <1>1 DEF Last, Commit
<1>3. ASSUME NEW i \in 1..Len(all)
      PROVE  Kind(all[i]) \notin Checks \union {"ROLLBACK"}
  <2>1. CASE i = 1
    BY <1>1, <2>1 DEF Kind, Checks
  <2>2. CASE i = 2 + Len(body)
    BY <1>1, <2>2 DEF Kind, Checks
  <2>3. CASE i # 1 /\ i # 2 + Len(body)
    <3>1. i - 1 \in 1..Len(body) /\ (i - 1) + 1 = i
      BY <1>1, <2>3
    <3>2. all[i] = body[i - 1]
      BY <1>1, <3>1
    <3> QED  BY <3>1, <3>2 DEF Controls
  <2> QED  BY <2>1, <2>2, <2>3
<1>4. all # <<>>
  BY <1>1, EmptySeq
<1> QED  BY <1>1, <1>2, <1>3, <1>4 DEF Shape, all

(* What is left after the first statement keeps the shape and the end.      *)
LEMMA TailShape ==
  ASSUME NEW todo, Shape(todo), todo # <<>>
  PROVE  /\ Head(todo) \in Statements /\ Head(todo) = todo[1] /\ 1 \in 1..Len(todo)
         /\ Tail(todo) # <<>> => Shape(Tail(todo)) /\ Last(Tail(todo)) = Last(todo)
         /\ Tail(todo) = <<>> => Head(todo) = Last(todo)
<1>1. todo \in Seq(Statements)
  BY DEF Shape
<1>2. Len(todo) \in Nat /\ Len(todo) # 0
  BY <1>1, EmptySeq
<1>3. /\ Head(todo) \in Statements /\ Tail(todo) \in Seq(Statements)
      /\ Head(todo) = todo[1] /\ Len(Tail(todo)) = Len(todo) - 1
      /\ \A i \in 1..(Len(todo) - 1) : Tail(todo)[i] = todo[i + 1]
  BY <1>1, <1>2, HeadTailProperties
<1>4. ASSUME Tail(todo) # <<>>
      PROVE  Shape(Tail(todo)) /\ Last(Tail(todo)) = Last(todo)
  <2>1. Len(Tail(todo)) # 0
    BY <1>3, <1>4, EmptySeq
  <2>2. Len(todo) - 1 \in 1..(Len(todo) - 1) /\ Len(todo) - 1 + 1 = Len(todo)
    BY <1>2, <1>3, <2>1
  <2>3. Last(Tail(todo)) = Last(todo)
    BY <1>3, <2>2 DEF Last
  <2>4. ASSUME NEW i \in 1..Len(Tail(todo))
        PROVE  i + 1 \in 1..Len(todo) /\ Tail(todo)[i] = todo[i + 1] /\ todo # Rollback
    <3>1. Len(Rollback) = 1
      BY DEF Rollback
    <3>2. Len(todo) \in Nat /\ Len(Tail(todo)) = Len(todo) - 1 /\ Len(todo) - 1 # 0
      BY <1>2, <1>3, <2>1
    <3>3. i \in 1..(Len(todo) - 1) /\ i + 1 \in 1..Len(todo) /\ Len(todo) # 1
      BY <3>2
    <3>4. Tail(todo)[i] = todo[i + 1]
      BY <1>3, <3>3
    <3> QED  BY <3>1, <3>3, <3>4
  <2> QED  BY <1>3, <2>3, <2>4 DEF Shape, Ends
<1>5. ASSUME Tail(todo) = <<>>
      PROVE  Head(todo) = Last(todo)
  BY <1>2, <1>3, <1>5, EmptySeq DEF Last
<1> QED  BY <1>2, <1>3, <1>4, <1>5

(* The statement of a whole request is of none of the kinds Shape is about. *)
LEMMA WholeShape ==
  ASSUME NEW r \in Whole
  PROVE  <<r>> # <<>> /\ Shape(<<r>>)
<1>1. r \in Statements
  BY DEF Statements
<1>2. Kind(r) \in WholeOps
  BY WholeTyped DEF Whole
<1>3. Kind(r) \notin Controls \union Checks
  BY <1>2 DEF Controls, Checks, WholeOps
<1> QED  BY <1>1, <1>3 DEF Shape, Controls, Checks

\* The statements of a request between its START and its COMMIT.
Transactions == {"approve", "assign", "settle", "add", "deleteMember"}
Body(r) ==
  CASE r.op = "approve" -> Record(r)
    [] r.op = "assign" -> [i \in DOMAIN r.users |->
         [do |-> "join", act |-> r.act, user |-> r.users[i], type |-> "assigned"]]
    [] r.op = "settle" -> SignAll(r) \o <<[do |-> "lock", act |-> r.act]>>
    [] r.op = "add" -> [i \in DOMAIN r.weeks |->
         [do |-> "insert", cap |-> r.cap, week |-> r.weeks[i]]]
    [] r.op = "deleteMember" -> <<r>>

\* Statements, none of which is a control or a check.
Plain(body) == /\ body \in Seq(Statements)
               /\ \A i \in 1..Len(body) : Kind(body[i]) \notin Controls \union Checks

(* handleApproveApplication: the verdict, and if it is yes the membership.  *)
LEMMA ApproveBody ==
  ASSUME NEW r \in Requests, r.op = "approve"
  PROVE  /\ Plain(Body(r)) /\ Program(r) = Transaction(Body(r))
         /\ r.act \in Acts /\ r.user \in Users /\ r.verdict \in {"approved", "rejected"}
         /\ Len(Body(r)) = IF r.verdict = "approved" THEN 2 ELSE 1
         /\ Body(r)[1] =
              [do |-> "verdict", act |-> r.act, user |-> r.user, verdict |-> r.verdict]
         /\ r.verdict = "approved" =>
              Body(r)[2] = [do |-> "sync", act |-> r.act, user |-> r.user]
<1>1. r.act \in Acts /\ r.user \in Users /\ r.verdict \in {"approved", "rejected"}
  BY DEF Requests
<1> DEFINE ver == [do |-> "verdict", act |-> r.act, user |-> r.user, verdict |-> r.verdict]
           syn == [do |-> "sync", act |-> r.act, user |-> r.user]
<1>2. ver \in Statements /\ syn \in Statements
  BY <1>1 DEF Statements
<1>3. Kind(ver) \notin Controls \union Checks /\ Kind(syn) \notin Controls \union Checks
  BY DEF Kind, Controls, Checks
<1>4. Body(r) = <<ver>> \o IF r.verdict = "approved" THEN <<syn>> ELSE <<>>
  BY DEF Body, Record
<1> HIDE DEF ver, syn
<1>5. /\ Body(r) \in Seq(Statements) /\ Body(r)[1] = ver
      /\ Len(Body(r)) = IF r.verdict = "approved" THEN 2 ELSE 1
      /\ r.verdict = "approved" => Body(r)[2] = syn
      /\ \A i \in 1..Len(Body(r)) : Kind(Body(r)[i]) \notin Controls \union Checks
  <2>1. <<ver>> \in Seq(Statements) /\ <<ver>> \o <<>> = <<ver>>
    BY <1>2, ConcatEmptySeq
  <2>2. CASE r.verdict = "approved"
    <3>1. Body(r) = <<ver>> \o <<syn>>
      BY <1>4, <2>2
    <3>2. Body(r) = Append(<<ver>>, syn)
      BY <1>2, <2>1, <3>1, AppendIsConcat
    <3>3. /\ Body(r) \in Seq(Statements) /\ Len(Body(r)) = 2
          /\ Body(r)[1] = ver /\ Body(r)[2] = syn
      BY <1>2, <2>1, <3>2, AppendProperties
    <3> QED  BY <1>3, <2>2, <3>3
  <2>3. CASE r.verdict # "approved"
    <3>1. Body(r) = <<ver>>
      BY <1>4, <2>1, <2>3
    <3> QED  BY <1>3, <2>1, <2>3, <3>1
  <2> QED  BY <2>2, <2>3
<1>6. Program(r) = Transaction(Body(r))
  BY DEF Program, Approve, Body
<1> QED  BY <1>1, <1>5, <1>6 DEF Plain, ver, syn

(* handleAssignMembers: one row for each user of the list.                  *)
LEMMA AssignBody ==
  ASSUME NEW r \in Requests, r.op = "assign"
  PROVE  /\ Plain(Body(r)) /\ Program(r) = Transaction(Body(r))
         /\ r.act \in Acts /\ r.users \in Seq(Users) /\ Len(Body(r)) = Len(r.users)
         /\ \A i \in 1..Len(r.users) : Body(r)[i] =
              [do |-> "join", act |-> r.act, user |-> r.users[i], type |-> "assigned"]
<1>1. r.act \in Acts /\ r.users \in Seq(Users)
  BY BusinessAssumption DEF Requests
<1> DEFINE body == [i \in DOMAIN r.users |->
             [do |-> "join", act |-> r.act, user |-> r.users[i], type |-> "assigned"]]
<1>2. \A i \in 1..Len(r.users) : r.users[i] \in Users
  BY <1>1, ElementOfSeq
<1>3. DOMAIN r.users = 1..Len(r.users) /\ Len(r.users) \in Nat
  BY <1>1, LenProperties
<1>4. \A i \in 1..Len(r.users) :
        body[i] \in Statements /\ Kind(body[i]) \notin Controls \union Checks
  BY <1>1, <1>2, <1>3 DEF Statements, Kind, Controls, Checks
<1>5. body \in Seq(Statements) /\ Len(body) = Len(r.users)
  <2>1. DOMAIN body = 1..Len(r.users)
    BY <1>3
  <2>2. body \in [1..Len(r.users) -> Statements]
    BY <1>3, <1>4
  <2> HIDE DEF body
  <2> QED  BY <1>3, <2>1, <2>2
<1>6. Body(r) = body /\ Program(r) = Transaction(body)
  BY DEF Program, Assign, Body
<1>7. \A i \in 1..Len(r.users) : body[i] =
        [do |-> "join", act |-> r.act, user |-> r.users[i], type |-> "assigned"]
  BY <1>3
<1> HIDE DEF body
<1> QED  BY <1>1, <1>4, <1>5, <1>6, <1>7 DEF Plain

(* handleSettleActivity: one row for each result, then the status.          *)
LEMMA SettleBody ==
  ASSUME NEW r \in Requests, r.op = "settle"
  PROVE  /\ Plain(Body(r)) /\ Program(r) = Transaction(Body(r))
         /\ r.act \in Acts /\ r.results \in Seq([user : Users, ok : BOOLEAN])
         /\ Len(Body(r)) = Len(r.results) + 1
         /\ \A i \in 1..Len(r.results) : Body(r)[i] =
              [do |-> "sign", act |-> r.act, res |-> r.results[i]]
         /\ Body(r)[Len(r.results) + 1] = [do |-> "lock", act |-> r.act]
<1>1. r.act \in Acts
  BY DEF Requests
<1>2. r.results \in Seq([user : Users, ok : BOOLEAN])
  <2> DEFINE Outcomes(b) == {[i \in DOMAIN b |-> [user |-> b[i], ok |-> i \notin bad]] :
                               bad \in SUBSET DOMAIN b}
  <2>1. r.results \in UNION {Outcomes(b) : b \in Batches}
    BY DEF Requests
  <2> HIDE DEF Outcomes
  <2>2. PICK b \in Batches : r.results \in Outcomes(b)
    BY <2>1
  <2>3. PICK bad : r.results = [i \in DOMAIN b |-> [user |-> b[i], ok |-> i \notin bad]]
    BY <2>2 DEF Outcomes
  <2>4. /\ b \in Seq(Users) /\ DOMAIN b = 1..Len(b) /\ Len(b) \in Nat
        /\ \A i \in 1..Len(b) : b[i] \in Users
    BY BusinessAssumption, ElementOfSeq, LenProperties
  <2> DEFINE Sign1 == [user : Users, ok : BOOLEAN]
  <2>5. r.results \in [1..Len(b) -> Sign1]
    BY <2>3, <2>4
  <2> HIDE DEF Sign1
  <2>6. r.results \in Seq(Sign1)
    BY <2>4, <2>5
  <2> QED  BY <2>6 DEF Sign1
<1> DEFINE S == SignAll(r)
           lock == [do |-> "lock", act |-> r.act]
<1>3. /\ DOMAIN r.results = 1..Len(r.results) /\ Len(r.results) \in Nat
      /\ \A i \in 1..Len(r.results) : r.results[i] \in [user : Users, ok : BOOLEAN]
  BY <1>2, LenProperties, ElementOfSeq
<1>4. \A i \in 1..Len(r.results) :
        S[i] \in Statements /\ Kind(S[i]) \notin Controls \union Checks
  BY <1>1, <1>3 DEF SignAll, Statements, Kind, Controls, Checks
<1>5. S \in Seq(Statements) /\ Len(S) = Len(r.results)
  <2>1. DOMAIN S = 1..Len(r.results)
    BY <1>3 DEF SignAll
  <2>2. S \in [1..Len(r.results) -> Statements]
    BY <1>3, <1>4 DEF SignAll
  <2> HIDE DEF S
  <2> QED  BY <1>3, <2>1, <2>2
<1>6. lock \in Statements /\ Kind(lock) \notin Controls \union Checks
  BY <1>1 DEF Statements, Kind, Controls, Checks
<1>7. /\ Body(r) = S \o <<lock>> /\ Program(r) = Transaction(S \o <<lock>>)
      /\ \A i \in 1..Len(r.results) : S[i] = [do |-> "sign", act |-> r.act, res |-> r.results[i]]
  BY <1>3 DEF Program, Settle, Body, SignAll
<1> HIDE DEF S, lock
<1>8. S \o <<lock>> = Append(S, lock)
  BY <1>5, <1>6
<1>9. /\ Append(S, lock) \in Seq(Statements) /\ Len(Append(S, lock)) = Len(S) + 1
      /\ \A i \in 1..Len(S) : Append(S, lock)[i] = S[i]
      /\ Append(S, lock)[Len(S) + 1] = lock
  BY <1>5, <1>6, AppendProperties
<1>10. \A i \in 1..Len(Append(S, lock)) :
         Kind(Append(S, lock)[i]) \notin Controls \union Checks
  BY <1>3, <1>4, <1>5, <1>6, <1>9
<1>11. Append(S, lock)[Len(r.results) + 1] = [do |-> "lock", act |-> r.act]
  BY <1>5, <1>9 DEF lock
<1> QED  BY <1>1, <1>2, <1>5, <1>7, <1>8, <1>9, <1>10, <1>11 DEF Plain

(* handleAddActivity: one row for each week.                                *)
LEMMA AddBody ==
  ASSUME NEW r \in Requests, r.op = "add"
  PROVE  /\ Plain(Body(r)) /\ Program(r) = Transaction(Body(r))
         /\ r.weeks \in Seq(BOOLEAN) /\ Len(Body(r)) = Len(r.weeks)
         /\ \A i \in 1..Len(r.weeks) : Body(r)[i] =
              [do |-> "insert", cap |-> r.cap, week |-> r.weeks[i]]
<1>1. r.cap \in Caps /\ r.weeks \in {<<TRUE>>, <<TRUE, TRUE>>, <<TRUE, FALSE>>}
  BY DEF Requests
<1>2. r.weeks \in Seq(BOOLEAN)
  <2>1. <<TRUE>> \in Seq(BOOLEAN)
    OBVIOUS
  <2>2. <<TRUE, TRUE>> \in Seq(BOOLEAN)
    OBVIOUS
  <2>3. <<TRUE, FALSE>> \in Seq(BOOLEAN)
    OBVIOUS
  <2> QED  BY <1>1, <2>1, <2>2, <2>3, Zenon
<1> DEFINE body == [i \in DOMAIN r.weeks |->
             [do |-> "insert", cap |-> r.cap, week |-> r.weeks[i]]]
<1>3. /\ DOMAIN r.weeks = 1..Len(r.weeks) /\ Len(r.weeks) \in Nat
      /\ \A i \in 1..Len(r.weeks) : r.weeks[i] \in BOOLEAN
  BY <1>2, LenProperties, ElementOfSeq
<1>4. \A i \in 1..Len(r.weeks) :
        body[i] \in Statements /\ Kind(body[i]) \notin Controls \union Checks
  BY <1>1, <1>3 DEF Statements, Kind, Controls, Checks
<1>5. body \in Seq(Statements) /\ Len(body) = Len(r.weeks)
  <2>1. DOMAIN body = 1..Len(r.weeks)
    BY <1>3
  <2>2. body \in [1..Len(r.weeks) -> Statements]
    BY <1>3, <1>4
  <2> HIDE DEF body
  <2> QED  BY <1>3, <2>1, <2>2
<1>6. Body(r) = body /\ Program(r) = Transaction(body)
  BY DEF Program, Add, Body
<1>7. \A i \in 1..Len(r.weeks) : body[i] =
        [do |-> "insert", cap |-> r.cap, week |-> r.weeks[i]]
  BY <1>3
<1> HIDE DEF body
<1> QED  BY <1>2, <1>4, <1>5, <1>6, <1>7 DEF Plain

(* handleDeleteMember: one statement, in a transaction all the same.        *)
LEMMA DeleteBody ==
  ASSUME NEW r \in Requests, r.op = "deleteMember"
  PROVE  /\ Plain(Body(r)) /\ Program(r) = Transaction(Body(r))
         /\ Len(Body(r)) = 1 /\ Body(r)[1] = r /\ Kind(r) = "deleteMember"
<1>1. r \in Whole /\ r \in Statements
  BY DEF Whole, WholeOps, Statements
<1>2. Kind(r) = "deleteMember"
  BY <1>1, WholeTyped
<1>3. Body(r) = <<r>> /\ Program(r) = Transaction(<<r>>)
  BY DEF Body, Program, DeleteMember
<1> QED  BY <1>1, <1>2, <1>3 DEF Plain, Controls, Checks

(* The requests with a transaction.                                         *)
LEMMA BodyProperties ==
  ASSUME NEW r \in Requests, r.op \in Transactions
  PROVE  Plain(Body(r)) /\ Program(r) = Transaction(Body(r))
BY ApproveBody, AssignBody, SettleBody, AddBody, DeleteBody DEF Transactions

(* Every handler's program has the shape.                                   *)
LEMMA ProgramShape ==
  ASSUME NEW r \in Requests
  PROVE  Program(r) # <<>> /\ Shape(Program(r))
<1>1. CASE r.op \in WholeOps /\ r.op # "deleteMember"
  <2>1. r \in Whole
    BY <1>1 DEF Whole
  <2>2. Program(r) = <<r>>
    BY <1>1 DEF Program, WholeOps, ConfirmAssign, UpdateActivity, DeleteActivity,
                BatchDelete, BulkRegister
  <2> QED  BY <2>1, <2>2, WholeShape
<1>2. CASE r.op \in {"apply", "leave"}
  <2>1. r.act \in Acts /\ r.user \in Users
    BY <1>2 DEF Requests
  <2> DEFINE check == [do |-> IF r.op = "apply" THEN "mayApply" ELSE "mayLeave", act |-> r.act]
             write == [do |-> IF r.op = "apply" THEN "pend" ELSE "quit",
                       act |-> r.act, user |-> r.user]
  <2>2. Program(r) = <<check, write>>
    BY <1>2 DEF Program, Apply, Leave
  <2>3. check \in Statements /\ write \in Statements
    BY <1>2, <2>1 DEF Statements
  <2>4. Kind(check) \in Checks /\ Kind(write) \notin Checks \union Controls
    BY <1>2 DEF Kind, Checks, Controls
  <2>5. write.do \notin {"COMMIT", "ROLLBACK"}
    BY <1>2
  <2>6. write # Commit[1] /\ write # Rollback[1]
    BY <2>5 DEF Commit, Rollback
  <2> HIDE DEF check, write
  <2>7. ~Ends(<<check, write>>)
    BY <2>6 DEF Ends, Last, Commit, Rollback
  <2>8. \A i \in 1..Len(<<check, write>>) : Kind(<<check, write>>[i]) \notin Controls
    BY <2>4 DEF Checks, Controls
  <2>9. <<check, write>> \in Seq(Statements) /\ <<check, write>> # <<>>
    BY <2>3
  <2> QED  BY <2>2, <2>7, <2>8, <2>9 DEF Shape, Controls
<1>3. CASE r.op \in Transactions
  BY <1>3, BodyProperties, TransactionShape DEF Plain
<1> QED  BY <1>1, <1>2, <1>3 DEF Requests, WholeOps, Transactions

-----------------------------------------------------------------------------
(* The tables.                                                              *)

(* The rows fit together: the two invariants of the tables, with types.     *)
Fits(d) ==
  /\ d \in Database
  /\ \A p \in Pairs : d.members[p] = "applied" => d.apps[p] # "none"
  /\ \A p \in Pairs :
       (d.members[p] # "none" \/ p \in d.signed)
         => Exists(d, p[1]) /\ p[2] \in d.users /\ d.members[p] # "none"

(* A pair is named by its activity and its user.                            *)
LEMMA PairProperties ==
  /\ \A p \in Pairs : p[1] \in Acts /\ p[2] \in Users /\ p = <<p[1], p[2]>>
  /\ \A a \in Acts, u \in Users : <<a, u>> \in Pairs
BY DEF Pairs

(* Deleting rows of activity_members (leave, and the cascades).             *)
LEMMA WithoutFits ==
  ASSUME NEW d, d \in Database, NEW gone,
         \A p \in Pairs : d.members[p] = "applied" => d.apps[p] # "none",
         \A p \in Pairs : (d.members[p] # "none" \/ p \in d.signed) =>
           /\ d.members[p] # "none"
           /\ p \in gone \/ (Exists(d, p[1]) /\ p[2] \in d.users)
  PROVE  Fits(Without(d, gone))
<1> DEFINE e == Without(d, gone)
<1>1. /\ e.users = d.users /\ e.status = d.status /\ e.cap = d.cap /\ e.apps = d.apps
      /\ e.members = [p \in Pairs |-> IF p \in gone THEN "none" ELSE d.members[p]]
      /\ e.signed = d.signed \ gone
  BY DEF Without, Database
<1>2. e \in Database
  BY DEF Without, Database
<1> HIDE DEF e
<1>3. \A p \in Pairs : e.members[p] = IF p \in gone THEN "none" ELSE d.members[p]
  BY <1>1
<1> QED  BY <1>1, <1>2, <1>3 DEF Fits, Exists, e

(* A row of activity_members for an activity and a user that exist; one     *)
(* "applied" only with an application.                                      *)
LEMMA JoinFits ==
  ASSUME NEW d, Fits(d), NEW a \in Acts, NEW u \in Users, CanJoin(d, a, u),
         NEW type \in {"assigned", "applied"},
         type = "applied" => d.apps[<<a, u>>] # "none"
  PROVE  Fits(Join(d, a, u, type))
<1> DEFINE e == Join(d, a, u, type)
<1>1. <<a, u>> \in Pairs
  BY PairProperties
<1>2. /\ e.users = d.users /\ e.status = d.status /\ e.cap = d.cap /\ e.apps = d.apps
      /\ e.signed = d.signed /\ e.members = [d.members EXCEPT ![<<a, u>>] = type]
  BY DEF Join, Database, Fits
<1>3. d.members \in [Pairs -> {"none", "assigned", "applied"}] /\ d \in Database
  BY DEF Fits, Database
<1>4. \A p \in Pairs : e.members[p] = IF p = <<a, u>> THEN type ELSE d.members[p]
  BY <1>1, <1>2, <1>3
<1>5. e \in Database
  BY <1>3 DEF Join, Database
<1>6. Exists(d, <<a, u>>[1]) /\ <<a, u>>[2] \in d.users
  BY DEF CanJoin
<1> HIDE DEF e
<1> QED  BY <1>2, <1>4, <1>5, <1>6 DEF Fits, Exists, e

\* The updates of Run, by name.
WithVerdict(d, a, u, v) == [d EXCEPT !.apps[<<a, u>>] = v]
Settled(d, a) == [d EXCEPT !.status[a] = IF @ = "none" THEN @ ELSE "settled"]
Inserted(d, a, c) == [d EXCEPT !.status[a] = "recruiting", !.cap[a] = c]
Limited(d, a, c) == [d EXCEPT !.cap[a] = c]

(* Applications are only ever added to or changed.                          *)
LEMMA ApplicationFits ==
  ASSUME NEW d, Fits(d), NEW a \in Acts, NEW u \in Users,
         NEW v \in {"pending", "approved", "rejected"}
  PROVE  Fits(WithVerdict(d, a, u, v))
<1> DEFINE e == [d EXCEPT !.apps[<<a, u>>] = v]
<1>1. <<a, u>> \in Pairs
  BY PairProperties
<1>2. /\ e.users = d.users /\ e.status = d.status /\ e.cap = d.cap
      /\ e.members = d.members /\ e.signed = d.signed
      /\ e.apps = [d.apps EXCEPT ![<<a, u>>] = v]
  BY DEF Fits, Database
<1>3. d.apps \in [Pairs -> {"none", "pending", "approved", "rejected"}] /\ d \in Database
  BY DEF Fits, Database
<1>4. \A p \in Pairs : e.apps[p] = IF p = <<a, u>> THEN v ELSE d.apps[p]
  BY <1>1, <1>2, <1>3
<1>5. e \in Database
  BY <1>3 DEF Database
<1> HIDE DEF e
<1> QED  BY <1>2, <1>4, <1>5 DEF Fits, Exists, e, WithVerdict

(* A sign-in is for a member.                                               *)
LEMMA SignFits ==
  ASSUME NEW d, Fits(d), NEW a \in Acts, NEW u \in Users
  PROVE  Fits(Sign(d, a, u))
<1>1. CASE IsMember(d, a, u)
  <2> DEFINE e == [d EXCEPT !.signed = @ \union {<<a, u>>}]
  <2>1. <<a, u>> \in Pairs /\ d \in Database /\ d.members[<<a, u>>] # "none"
    BY <1>1, PairProperties DEF IsMember, Fits
  <2>2. /\ e.users = d.users /\ e.status = d.status /\ e.cap = d.cap /\ e.apps = d.apps
        /\ e.members = d.members /\ e.signed = d.signed \union {<<a, u>>}
    BY DEF Fits, Database
  <2>3. e \in Database
    BY <2>1 DEF Database
  <2>4. Sign(d, a, u) = e
    BY <1>1 DEF Sign
  <2> HIDE DEF e
  <2> QED  BY <2>1, <2>2, <2>3, <2>4 DEF Fits, Exists
<1>2. CASE ~IsMember(d, a, u)
  BY <1>2 DEF Sign
<1> QED  BY <1>1, <1>2

(* Only the column of the records of those who signed in is replaced.       *)
LEMMA SignedTables ==
  ASSUME NEW d \in Database, NEW ps \in SUBSET Pairs
  PROVE  LET e == [d EXCEPT !.signed = ps] IN
         /\ e \in Database /\ e.users = d.users /\ e.status = d.status
         /\ e.cap = d.cap /\ e.apps = d.apps /\ e.members = d.members
         /\ e.signed = ps
BY DEF Database

(* Whether an activity exists, and its limit, may change as long as none    *)
(* that has members goes.                                                   *)
LEMMA ActivityFits ==
  ASSUME NEW d, Fits(d), NEW e, e \in Database,
         e.users = d.users /\ e.apps = d.apps /\ e.members = d.members /\ e.signed = d.signed,
         \A a \in Acts : Exists(d, a) => Exists(e, a)
  PROVE  Fits(e)
BY PairProperties DEF Fits

(* The new rows of an activity or its limit: settling, inserting, updating. *)
LEMMA SettleInsertUpdateFit ==
  ASSUME NEW d, Fits(d), NEW a, NEW c \in Nat
  PROVE  Fits(Settled(d, a)) /\ Fits(Inserted(d, a, c)) /\ Fits(Limited(d, a, c))
<1>1. /\ d \in Database
      /\ d.status \in [Acts -> {"none", "recruiting", "settled"}] /\ d.cap \in [Acts -> Nat]
  BY DEF Fits, Database
<1>2. Fits(Settled(d, a))
  <2> DEFINE e == [d EXCEPT !.status[a] = IF @ = "none" THEN @ ELSE "settled"]
  <2>1. /\ e.users = d.users /\ e.apps = d.apps /\ e.members = d.members
        /\ e.signed = d.signed /\ e.cap = d.cap
        /\ e.status = [d.status EXCEPT ![a] =
                         IF d.status[a] = "none" THEN d.status[a] ELSE "settled"]
    BY <1>1 DEF Database
  <2>2. e.status \in [Acts -> {"none", "recruiting", "settled"}]
        /\ \A b \in Acts : d.status[b] # "none" => e.status[b] # "none"
    <3>1. CASE a \in Acts
      BY <1>1, <2>1, <3>1
    <3>2. CASE a \notin Acts
      BY <1>1, <2>1, <3>2
    <3> QED  BY <3>1, <3>2
  <2>3. e \in Database
    BY <1>1, <2>1, <2>2 DEF Database
  <2> HIDE DEF e
  <2>4. Fits(e)
    BY <2>1, <2>2, <2>3, ActivityFits DEF Exists
  <2> QED  BY <2>4 DEF e, Settled
<1>3. Fits(Inserted(d, a, c))
  <2> DEFINE e == [d EXCEPT !.status[a] = "recruiting", !.cap[a] = c]
  <2>1. /\ e.users = d.users /\ e.apps = d.apps /\ e.members = d.members
        /\ e.signed = d.signed
        /\ e.cap = [d.cap EXCEPT ![a] = c] /\ e.status = [d.status EXCEPT ![a] = "recruiting"]
    BY <1>1 DEF Database
  <2>2. /\ e.status \in [Acts -> {"none", "recruiting", "settled"}] /\ e.cap \in [Acts -> Nat]
        /\ \A b \in Acts : d.status[b] # "none" => e.status[b] # "none"
    <3> HIDE DEF e
    <3>1. CASE a \in Acts
      BY <1>1, <2>1, <3>1
    <3>2. CASE a \notin Acts
      BY <1>1, <2>1, <3>2
    <3> QED  BY <3>1, <3>2
  <2>3. e \in Database
    BY <1>1, <2>1, <2>2 DEF Database
  <2> HIDE DEF e
  <2>4. Fits(e)
    BY <2>1, <2>2, <2>3, ActivityFits DEF Exists
  <2> QED  BY <2>4 DEF e, Inserted
<1>4. Fits(Limited(d, a, c))
  <2> DEFINE e == [d EXCEPT !.cap[a] = c]
  <2>1. /\ e.users = d.users /\ e.apps = d.apps /\ e.members = d.members
        /\ e.signed = d.signed /\ e.status = d.status
        /\ e.cap = [d.cap EXCEPT ![a] = c]
    BY <1>1 DEF Database
  <2>2. e.cap \in [Acts -> Nat]
    <3> HIDE DEF e
    <3>1. d.cap \in [Acts -> Nat]
      BY <1>1
    <3> QED  BY <2>1, <3>1
  <2>3. e \in Database
    BY <1>1, <2>1, <2>2 DEF Database
  <2> HIDE DEF e
  <2>4. Fits(e)
    BY <2>1, <2>3, ActivityFits DEF Exists
  <2> QED  BY <2>4 DEF e, Limited
<1> QED  BY <1>2, <1>3, <1>4

(* The requests of one statement keep the rows fitting: the cascades take   *)
(* the members of what they delete, and confirmAssign only names users of   *)
(* whom each exists.                                                        *)
LEMMA WholeFits ==
  ASSUME NEW d, Fits(d), NEW r \in Statements, Kind(r) \in WholeOps,
         Kind(r) = "confirm" => \A u \in Range(r.users) : CanJoin(d, r.act, u)
  PROVE  Fits(Effect(d, r, {}))
<1>1. /\ r.op \in WholeOps /\ r.op = Kind(r)
      /\ r.op \in {"confirm", "update", "deleteActivity"} => r.act \in Acts
      /\ r.op = "update" => r.cap \in Nat
      /\ r.op = "register" => r.users \subseteq Users
  BY StatementTyped DEF Typed
<1>2. CASE r.op = "confirm"
  <2> DEFINE e == [d EXCEPT !.members = [p \in Pairs |->
                     IF p \in {r.act} \X Range(r.users) /\ @[p] = "none"
                     THEN "assigned" ELSE @[p]]]
  <2>1. Effect(d, r, {}) = e
    BY <1>1, <1>2 DEF Effect
  <2>2. d \in Database /\ d.members \in [Pairs -> {"none", "assigned", "applied"}]
    BY DEF Fits, Database
  <2>3. /\ e.users = d.users /\ e.status = d.status /\ e.cap = d.cap /\ e.apps = d.apps
        /\ e.signed = d.signed
        /\ e.members = [p \in Pairs |->
             IF p \in {r.act} \X Range(r.users) /\ d.members[p] = "none"
             THEN "assigned" ELSE d.members[p]]
    BY <2>2 DEF Database
  <2>4. e.members \in [Pairs -> {"none", "assigned", "applied"}]
    BY <2>2, <2>3
  <2>5. e \in Database
    BY <2>2, <2>3, <2>4 DEF Database
  <2> HIDE DEF e
  <2>6. \A p \in Pairs : \/ e.members[p] = d.members[p]
                         \/ /\ e.members[p] = "assigned"
                            /\ p[1] = r.act /\ p[2] \in Range(r.users)
    BY <2>3
  <2>7. \A u \in Range(r.users) : Exists(d, r.act) /\ u \in d.users
    BY <1>1, <1>2 DEF CanJoin
  <2> QED  BY <2>1, <2>3, <2>5, <2>6, <2>7 DEF Fits, Exists
<1>3. CASE r.op = "update"
  <2>1. Effect(d, r, {}) = IF Exists(d, r.act) THEN Limited(d, r.act, r.cap) ELSE d
    BY <1>1, <1>3 DEF Effect, Limited
  <2> QED  BY <1>1, <1>3, <2>1, SettleInsertUpdateFit
<1>4. CASE r.op = "deleteActivity"
  <2> DEFINE e == [d EXCEPT !.status[r.act] = "none"]
  <2>1. d \in Database /\ d.status \in [Acts -> {"none", "recruiting", "settled"}]
    BY DEF Fits, Database
  <2>2. /\ e.users = d.users /\ e.apps = d.apps /\ e.members = d.members
        /\ e.signed = d.signed /\ e.cap = d.cap
        /\ e.status = [d.status EXCEPT ![r.act] = "none"]
    BY <2>1 DEF Database
  <2>3. /\ e.status \in [Acts -> {"none", "recruiting", "settled"}]
        /\ \A a \in Acts : a # r.act => e.status[a] = d.status[a]
    BY <1>1, <1>4, <2>1, <2>2
  <2>4. e \in Database
    BY <2>1, <2>2, <2>3 DEF Database
  <2>5. Effect(d, r, {}) = Without(e, {r.act} \X Users)
    BY <1>1, <1>4 DEF Effect, DeleteAct
  <2> HIDE DEF e
  <2>6. \A p \in Pairs : p \in {r.act} \X Users \/ p[1] # r.act
    BY PairProperties
  <2>7. \A p \in Pairs : (e.members[p] # "none" \/ p \in e.signed) =>
          /\ e.members[p] # "none"
          /\ p \in {r.act} \X Users \/ (Exists(e, p[1]) /\ p[2] \in e.users)
    BY <2>2, <2>3, <2>6, PairProperties DEF Fits, Exists
  <2>8. \A p \in Pairs : e.members[p] = "applied" => e.apps[p] # "none"
    BY <2>2 DEF Fits
  <2>9. Fits(Without(e, {r.act} \X Users))
    BY <2>4, <2>7, <2>8, WithoutFits
  <2> QED  BY <2>5, <2>9
<1>5. CASE r.op \in {"deleteMember", "batchDelete"}
  <2> DEFINE e == [d EXCEPT !.users = @ \ r.users]
  <2>1. d \in Database /\ d.users \subseteq Users
    BY DEF Fits, Database
  <2>2. /\ e.users = d.users \ r.users /\ e.apps = d.apps /\ e.members = d.members
        /\ e.signed = d.signed /\ e.cap = d.cap /\ e.status = d.status
    BY <2>1 DEF Database
  <2>3. e \in Database
    BY <2>1, <2>2 DEF Database
  <2>4. Effect(d, r, {}) = Without(e, Acts \X r.users)
    BY <1>1, <1>5 DEF Effect, DeleteUsers
  <2> HIDE DEF e
  <2>5. \A p \in Pairs : p \in Acts \X r.users \/ p[2] \notin r.users
    BY PairProperties
  <2>6. \A p \in Pairs : (e.members[p] # "none" \/ p \in e.signed) =>
          /\ e.members[p] # "none"
          /\ p \in Acts \X r.users \/ (Exists(e, p[1]) /\ p[2] \in e.users)
    BY <2>2, <2>5 DEF Fits, Exists
  <2>7. \A p \in Pairs : e.members[p] = "applied" => e.apps[p] # "none"
    BY <2>2 DEF Fits
  <2>8. Fits(Without(e, Acts \X r.users))
    BY <2>3, <2>6, <2>7, WithoutFits
  <2> QED  BY <2>4, <2>8
<1>6. CASE r.op = "register"
  <2> DEFINE e == [d EXCEPT !.users = @ \union r.users]
  <2>1. d \in Database /\ d.users \subseteq Users
    BY DEF Fits, Database
  <2>2. /\ e.users = d.users \union r.users /\ e.apps = d.apps /\ e.members = d.members
        /\ e.signed = d.signed /\ e.cap = d.cap /\ e.status = d.status
    BY <2>1 DEF Database
  <2>3. e \in Database
    BY <1>1, <1>6, <2>1, <2>2 DEF Database
  <2>4. Effect(d, r, {}) = e
    BY <1>1, <1>6 DEF Effect
  <2> HIDE DEF e
  <2> QED  BY <2>2, <2>3, <2>4 DEF Fits, Exists
<1> QED  BY <1>1, <1>2, <1>3, <1>4, <1>5, <1>6 DEF WholeOps

(* A statement that succeeds keeps the rows fitting.                        *)
LEMMA RunFits ==
  ASSUME Fits(db), nextAct \in Nat, NEW s \in Statements, Kind(s) \notin Controls, ~Fails(s)
  PROVE  Fits(Run(s))
<1> DEFINE k == Kind(s)
<1>1. Typed(s)
  BY StatementTyped
<1>2. CASE k \in Checks
  BY <1>2 DEF Run, Checks
<1>3. CASE k = "pend"
  <2>1. s.act \in Acts /\ s.user \in Users
    BY <1>1, <1>3 DEF Typed
  <2>2. Run(s) = WithVerdict(db, s.act, s.user, "pending")
    BY <1>3 DEF Run, WithVerdict
  <2> QED  BY <2>1, <2>2, ApplicationFits
<1>4. CASE k = "quit"
  <2>1. Run(s) = Without(db, {<<s.act, s.user>>})
    BY <1>4 DEF Run
  <2> QED  BY <2>1, WithoutFits DEF Fits
<1>5. CASE k = "verdict"
  <2>1. s.act \in Acts /\ s.user \in Users /\ s.verdict \in {"approved", "rejected"}
    BY <1>1, <1>5 DEF Typed
  <2>2. Run(s) = IF db.apps[s.act, s.user] = "none" THEN db
                 ELSE WithVerdict(db, s.act, s.user, s.verdict)
    BY <1>5 DEF Run, WithVerdict
  <2> QED  BY <2>1, <2>2, ApplicationFits
<1>6. CASE k = "sync"
  <2>1. s.act \in Acts /\ s.user \in Users
    BY <1>1, <1>6 DEF Typed
  <2>2. Run(s) = IF db.apps[s.act, s.user] = "none" THEN db
                 ELSE Join(db, s.act, s.user, "applied")
    BY <1>6 DEF Run
  <2>3. db.apps[s.act, s.user] # "none" => CanJoin(db, s.act, s.user)
    BY <1>6 DEF Fails
  <2> QED  BY <2>1, <2>2, <2>3, JoinFits
<1>7. CASE k = "join"
  <2>1. s.act \in Acts /\ s.user \in Users /\ s.type = "assigned"
    BY <1>1, <1>7 DEF Typed
  <2>2. Run(s) = Join(db, s.act, s.user, s.type)
    BY <1>7 DEF Run
  <2>3. CanJoin(db, s.act, s.user)
    BY <1>7 DEF Fails
  <2> QED  BY <2>1, <2>2, <2>3, JoinFits
<1>8. CASE k = "sign"
  <2>1. s.act \in Acts /\ s.res.user \in Users
    BY <1>1, <1>8 DEF Typed
  <2>2. Run(s) = Sign(db, s.act, s.res.user)
    BY <1>8 DEF Run
  <2> QED  BY <2>1, <2>2, SignFits
<1>9. CASE k = "lock"
  <2>1. Run(s) = Settled(db, s.act)
    BY <1>9 DEF Run, Settled
  <2> QED  BY <2>1, SettleInsertUpdateFit
<1>10. CASE k = "insert"
  <2>1. s.cap \in Nat
    BY <1>1, <1>10 DEF Typed
  <2>2. Run(s) = Inserted(db, nextAct, s.cap)
    BY <1>10 DEF Run, Inserted
  <2> QED  BY <2>1, <2>2, SettleInsertUpdateFit
<1>11. CASE k \in WholeOps
  <2>1. Run(s) = Effect(db, s, {})
    BY <1>11 DEF Run, WholeOps
  <2>2. k = "confirm" => \A u \in Range(s.users) : CanJoin(db, s.act, u)
    BY DEF Fails
  <2> QED  BY <1>11, <2>1, <2>2, WholeFits
<1>12. k \in Kinds
  BY <1>1 DEF Typed
<1> QED  BY <1>2, <1>3, <1>4, <1>5, <1>6, <1>7, <1>8, <1>9, <1>10, <1>11, <1>12 DEF Kinds

-----------------------------------------------------------------------------
(* The inductive invariant.                                                 *)

Jobs == [req : Requests \union {None}, todo : Seq(Statements), made : SUBSET Nat]

JobOK(j) == j \in Jobs /\ (j.todo # <<>> => Shape(j.todo))

\* Thread t still has the end of a transaction before it.
WillEnd(t) == job[t].todo # <<>> /\ Ends(job[t].todo)

(* The rows fit together in the session and in what a crash would leave;    *)
(* every handler has a well-shaped rest to do; and an open transaction is   *)
(* one that some handler is going to end. The shape is what makes the last  *)
(* inductive: without it a handler might return between START and COMMIT.   *)
IInv ==
  /\ Fits(db) /\ (undo # None => Fits(undo))
  /\ nextAct \in Nat
  /\ job \in [Threads -> Jobs] /\ \A t \in Threads : JobOK(job[t])
  /\ undo # None => \E t \in Threads : WillEnd(t)

(* A job goes on with a well-shaped rest, or is done.                       *)
LEMMA LeftProperties ==
  ASSUME NEW j \in Jobs, NEW todo \in Seq(Statements), NEW made \in SUBSET Nat,
         todo # <<>> => Shape(todo)
  PROVE  JobOK(Left(j, todo, made)) /\ Left(j, todo, made).todo = todo
<1>1. CASE todo = <<>>
  <2>1. Idle \in Jobs /\ Idle.todo = <<>>
    <3>1. <<>> \in Seq(Statements)
      BY EmptySeq
    <3> QED  BY <3>1 DEF Idle, Jobs
  <2> QED  BY <1>1, <2>1 DEF Left, JobOK
<1>2. CASE todo # <<>>
  <2> DEFINE k == [j EXCEPT !.todo = todo, !.made = made]
  <2>1. k \in Jobs /\ k.todo = todo
    BY DEF Jobs
  <2>2. Left(j, todo, made) = k
    BY <1>2 DEF Left
  <2> QED  BY <1>2, <2>1, <2>2 DEF JobOK
<1> QED  BY <1>1, <1>2

(* One thread goes on: the others still end what they would have ended.     *)
LEMMA OneJobStep ==
  ASSUME IInv, NEW t \in Threads, NEW k, JobOK(k), job' = [job EXCEPT ![t] = k]
  PROVE  /\ job' \in [Threads -> Jobs] /\ \A u \in Threads : JobOK(job'[u])
         /\ job'[t] = k
         /\ (undo # None /\ (WillEnd(t) => k.todo # <<>> /\ Ends(k.todo)))
              => \E u \in Threads : WillEnd(u)'
<1>1. job \in [Threads -> Jobs] /\ k \in Jobs
  BY DEF IInv, JobOK
<1>2. \A u \in Threads : job'[u] = IF u = t THEN k ELSE job[u]
  BY <1>1
<1>3. job' \in [Threads -> Jobs]
  BY <1>1
<1>4. \A u \in Threads : JobOK(job'[u])
  BY <1>2 DEF IInv
<1>5. ASSUME undo # None, WillEnd(t) => k.todo # <<>> /\ Ends(k.todo)
      PROVE  \E u \in Threads : WillEnd(u)'
  <2>1. PICK w \in Threads : WillEnd(w)
    BY <1>5 DEF IInv
  <2> QED  BY <1>2, <1>5, <2>1 DEF WillEnd, Ends
<1> QED  BY <1>2, <1>3, <1>4, <1>5

-----------------------------------------------------------------------------
(* The invariant, step by step.                                             *)

(* It holds at the start: empty tables but for one activity, and idle       *)
(* threads.                                                                 *)
LEMMA InitInv == Init => IInv
<1> SUFFICES ASSUME Init
             PROVE  IInv
  OBVIOUS
<1>1. Fits(db)
  <2>1. PICK c \in Caps :
          db = [users   |-> Users \ unregistered,
                status  |-> [a \in Acts |-> IF a = 1 THEN "recruiting" ELSE "none"],
                cap     |-> [a \in Acts |-> IF a = 1 THEN c ELSE 0],
                apps    |-> [p \in Pairs |-> "none"],
                members |-> [p \in Pairs |-> "none"],
                signed  |-> {}]
    BY DEF Init
  <2>2. c \in Nat
    BY BusinessAssumption
  <2>3. db \in Database
    BY <2>1, <2>2 DEF Database
  <2>4. db.signed = {} /\ \A p \in Pairs : db.members[p] = "none"
    BY <2>1
  <2> QED  BY <2>3, <2>4 DEF Fits
<1>2. Idle \in Jobs /\ Idle.todo = <<>>
  <2>1. <<>> \in Seq(Statements)
    BY EmptySeq
  <2> QED  BY <2>1 DEF Idle, Jobs
<1>3. undo = None /\ nextAct \in Nat /\ job = [t \in Threads |-> Idle]
  BY DEF Init
<1> QED  BY <1>1, <1>2, <1>3 DEF IInv, JobOK

(* START, COMMIT and ROLLBACK.                                              *)
LEMMA ControlInv ==
  ASSUME IInv, NEW t \in Threads, Control(t)
  PROVE  IInv'
<1> DEFINE todo == job[t].todo
           k    == Left(job[t], Tail(todo), job[t].made)
<1>1. /\ job[t] \in Jobs /\ JobOK(job[t]) /\ todo # <<>> /\ Shape(todo)
      /\ job[t].made \in SUBSET Nat /\ todo \in Seq(Statements)
  BY DEF IInv, JobOK, Jobs, Control
<1>2. /\ Head(todo) = todo[1] /\ 1 \in 1..Len(todo)
      /\ Tail(todo) # <<>> => Shape(Tail(todo)) /\ Last(Tail(todo)) = Last(todo)
      /\ Tail(todo) = <<>> => Head(todo) = Last(todo)
  <2> HIDE DEF todo
  <2> QED  BY <1>1, TailShape
<1>3. Tail(todo) \in Seq(Statements)
  <2> HIDE DEF todo
  <2> QED  BY <1>1, HeadTailProperties
<1>4. JobOK(k) /\ k.todo = Tail(todo)
  <2> HIDE DEF todo
  <2> QED  BY <1>1, <1>2, <1>3, LeftProperties
<1>5. /\ job' = [job EXCEPT ![t] = k]
      /\ Kind(Head(todo)) \in {"START", "COMMIT", "ROLLBACK"}
      /\ undo' = IF Kind(Head(todo)) = "START" THEN db ELSE None
      /\ db' = IF Kind(Head(todo)) = "ROLLBACK" THEN Committed ELSE db
      /\ nextAct' = nextAct
  BY DEF Control
<1>6. /\ job' \in [Threads -> Jobs] /\ \A u \in Threads : JobOK(job'[u])
      /\ job'[t] = k
  <2> HIDE DEF k
  <2> QED  BY <1>4, <1>5, OneJobStep
<1>7. Fits(db') /\ (undo' # None => Fits(undo'))
  BY <1>5 DEF IInv, Committed
<1>8. ASSUME undo' # None
      PROVE  WillEnd(t)'
  <2>1. Kind(Head(todo)) = "START"
    BY <1>5, <1>8
  <2>2. <<Last(todo)>> = Commit
    BY <1>1, <1>2, <2>1 DEF Shape
  <2>3. Kind(Last(todo)) = "COMMIT"
    BY <2>2 DEF Commit, Kind
  <2>4. Tail(todo) # <<>> /\ Last(Tail(todo)) = Last(todo)
    BY <1>2, <2>1, <2>3
  <2>5. job'[t].todo = Tail(todo)
    BY <1>4, <1>6
  <2>6. job'[t].todo # <<>> /\ Ends(job'[t].todo)
    BY <2>2, <2>4, <2>5 DEF Ends
  <2> QED  BY <2>6 DEF WillEnd, Ends
<1> QED  BY <1>5, <1>6, <1>7, <1>8 DEF IInv

(* A statement that succeeds.                                               *)
LEMMA StatementInv ==
  ASSUME IInv, NEW t \in Threads, Statement(t)
  PROVE  IInv'
<1> DEFINE todo == job[t].todo
           s    == Head(todo)
           made == IF Kind(s) = "insert" THEN job[t].made \union {nextAct} ELSE job[t].made
           k    == Left(job[t], Tail(todo), made)
<1>1. /\ job[t] \in Jobs /\ todo # <<>> /\ Shape(todo)
      /\ made \in SUBSET Nat /\ todo \in Seq(Statements)
  BY DEF IInv, JobOK, Jobs, Statement
<1>2. /\ s \in Statements /\ s = todo[1] /\ 1 \in 1..Len(todo)
      /\ Tail(todo) # <<>> => Shape(Tail(todo)) /\ Last(Tail(todo)) = Last(todo)
      /\ Tail(todo) = <<>> => s = Last(todo)
  <2> HIDE DEF todo
  <2> QED  BY <1>1, TailShape
<1>3. Tail(todo) \in Seq(Statements)
  <2> HIDE DEF todo
  <2> QED  BY <1>1, HeadTailProperties
<1>4. JobOK(k) /\ k.todo = Tail(todo)
  <2> HIDE DEF todo, made
  <2> QED  BY <1>1, <1>2, <1>3, LeftProperties
<1>5. /\ job' = [job EXCEPT ![t] = k]
      /\ Kind(s) \notin Controls /\ ~Fails(s)
      /\ db' = Run(s) /\ undo' = undo
      /\ nextAct' = IF Kind(s) = "insert" THEN nextAct + 1 ELSE nextAct
  BY DEF Statement, Controls
<1> HIDE DEF k, made, s
<1>6. ASSUME WillEnd(t)
      PROVE  k.todo # <<>> /\ Ends(k.todo)
  <2>1. Kind(Last(todo)) \in Controls
    BY <1>6 DEF WillEnd, Ends, Commit, Rollback, Kind, Controls
  <2>2. Tail(todo) # <<>> /\ Last(Tail(todo)) = Last(todo)
    BY <1>2, <1>5, <2>1
  <2> QED  BY <1>4, <1>6, <2>2 DEF WillEnd, Ends
<1>7. /\ job' \in [Threads -> Jobs] /\ \A u \in Threads : JobOK(job'[u])
      /\ undo # None => \E u \in Threads : WillEnd(u)'
  BY <1>4, <1>5, <1>6, OneJobStep
<1>8. Fits(db') /\ nextAct' \in Nat
  BY <1>2, <1>5, RunFits DEF IInv
<1> QED  BY <1>5, <1>7, <1>8 DEF IInv

(* A check that refuses, and a statement that fails: the handler returns or *)
(* rolls back, but never returns from within a transaction.                 *)
LEMMA ErrorInv ==
  ASSUME IInv, NEW t \in Threads, Error(t)
  PROVE  IInv'
<1> DEFINE todo == job[t].todo
           s    == Head(todo)
<1>1. /\ job[t] \in Jobs /\ todo # <<>> /\ Shape(todo)
      /\ job[t].made \in SUBSET Nat /\ todo \in Seq(Statements)
  BY DEF IInv, JobOK, Jobs, Error
<1>2. /\ s \in Statements /\ s = todo[1] /\ 1 \in 1..Len(todo)
      /\ Tail(todo) # <<>> => Shape(Tail(todo)) /\ Last(Tail(todo)) = Last(todo)
      /\ Tail(todo) = <<>> => s = Last(todo)
  <2> HIDE DEF todo
  <2> QED  BY <1>1, TailShape
<1>3. Tail(todo) \in Seq(Statements)
  <2> HIDE DEF todo
  <2> QED  BY <1>1, HeadTailProperties
<1>4. db' = db /\ undo' = undo /\ nextAct' = nextAct
  BY DEF Error
<1>5. ASSUME NEW k, JobOK(k), job' = [job EXCEPT ![t] = k],
             WillEnd(t) => k.todo # <<>> /\ Ends(k.todo)
      PROVE  IInv'
  BY <1>4, <1>5, OneJobStep DEF IInv
<1>6. JobOK(Idle)
  <2>1. <<>> \in Seq(Statements)
    BY EmptySeq
  <2> QED  BY <2>1 DEF Idle, Jobs, JobOK
<1>7. CASE Refused(s) /\ job' = [job EXCEPT ![t] = Idle]
  <2>1. Kind(todo[1]) \in Checks
    BY <1>2, <1>7 DEF Refused, Checks
  <2>2. ~Ends(todo)
    BY <1>1, <1>2, <2>1 DEF Shape
  <2>3. ~WillEnd(t)
    BY <2>2 DEF WillEnd
  <2> QED  BY <1>5, <1>6, <1>7, <2>3
<1>8. CASE Fails(s) /\ job' = [job EXCEPT ![t] = Left(@, AfterError(@.todo), @.made)]
  <2> DEFINE rest == AfterError(todo)
             k    == Left(job[t], rest, job[t].made)
  <2>1. Kind(s) \in {"join", "sync", "sign", "insert", "confirm"}
    BY <1>8 DEF Fails
  <2>2. <<Last(todo)>> = Commit <=> Last(todo) = Commit[1]
    BY DEF Commit
  <2>3. Rollback \in Seq(Statements) /\ Shape(Rollback) /\ Rollback # <<>> /\ Ends(Rollback)
    <3>1. [do |-> "ROLLBACK"] \in Statements /\ Kind([do |-> "ROLLBACK"]) = "ROLLBACK"
      BY DEF Statements, Kind
    <3> QED  BY <3>1 DEF Rollback, Shape, Ends, Last, Checks
  <2>4. rest = IF Kind(s) = "sync" THEN Tail(todo)
               ELSE IF Last(todo) = Commit[1] THEN Rollback ELSE <<>>
    BY DEF AfterError
  <2>5. rest \in Seq(Statements) /\ (rest # <<>> => Shape(rest))
    BY <1>2, <1>3, <2>3, <2>4, EmptySeq
  <2>6. ASSUME WillEnd(t)
        PROVE  rest # <<>> /\ Ends(rest)
    <3>1. Kind(Last(todo)) \in Controls
      BY <2>6 DEF WillEnd, Ends, Commit, Rollback, Kind, Controls
    <3>2. Tail(todo) # <<>> /\ Last(Tail(todo)) = Last(todo) /\ s # Last(todo)
      BY <1>2, <2>1, <3>1 DEF Controls
    <3>3. todo # Rollback
      BY <3>2, <2>1, <1>1 DEF Rollback, Last
    <3>4. <<Last(todo)>> # Rollback
      <4>1. SUFFICES ASSUME <<Last(todo)>> = Rollback
                     PROVE  FALSE
        OBVIOUS
      <4>2. Kind(Last(todo)) = "ROLLBACK"
        BY <4>1 DEF Rollback, Kind
      <4>3. Len(todo) \in 1..Len(todo) /\ Last(todo) = todo[Len(todo)]
        BY <1>1, <1>2, LenProperties DEF Last
      <4> QED  BY <1>1, <3>3, <4>2, <4>3 DEF Shape
    <3>5. <<Last(todo)>> = Commit
      BY <2>6, <3>4 DEF WillEnd, Ends
    <3>6. Last(todo) = Commit[1] /\ Ends(Tail(todo))
      BY <2>2, <3>2, <3>5 DEF Ends
    <3> QED  BY <2>3, <2>4, <3>2, <3>6
  <2> HIDE DEF rest, todo
  <2>7. JobOK(k) /\ k.todo = rest
    BY <1>1, <2>5, LeftProperties
  <2>8. job' = [job EXCEPT ![t] = k]
    BY <1>8 DEF rest, todo
  <2> HIDE DEF k
  <2> QED  BY <1>5, <2>6, <2>7, <2>8
<1> QED  BY <1>7, <1>8 DEF Error

(* A request: its program has the shape, and the thread that takes it was   *)
(* idle, so it was not the one to end a transaction.                        *)
LEMMA ReceiveInv ==
  ASSUME IInv, NEW t \in Threads, NEW r \in Requests, Receive(t, r)
  PROVE  IInv'
<1> DEFINE k == [req |-> r, todo |-> Program(r), made |-> {}]
<1>1. Program(r) # <<>> /\ Shape(Program(r))
  BY ProgramShape
<1>2. k \in Jobs
  BY <1>1 DEF Jobs, Shape
<1>3. JobOK(k)
  BY <1>1, <1>2 DEF JobOK
<1>4. job' = [job EXCEPT ![t] = k] /\ job[t] = Idle
      /\ db' = db /\ undo' = undo /\ nextAct' = nextAct
  BY DEF Receive
<1>5. ~WillEnd(t)
  BY <1>4 DEF WillEnd, Idle
<1> HIDE DEF k
<1>6. /\ job' \in [Threads -> Jobs] /\ \A u \in Threads : JobOK(job'[u])
      /\ undo # None => \E u \in Threads : WillEnd(u)'
  BY <1>3, <1>4, <1>5, OneJobStep
<1> QED  BY <1>4, <1>6 DEF IInv

(* A crash: the database undoes the open transaction, the threads start     *)
(* idle.                                                                    *)
LEMMA CrashInv ==
  ASSUME IInv, Crash
  PROVE  IInv'
<1>1. Idle \in Jobs /\ Idle.todo = <<>>
  <2>1. <<>> \in Seq(Statements)
    BY EmptySeq
  <2> QED  BY <2>1 DEF Idle, Jobs
<1>2. /\ db' = Committed /\ undo' = None /\ nextAct' = nextAct
      /\ job' = [t \in Threads |-> Idle]
  BY DEF Crash
<1>3. Fits(db')
  BY <1>2 DEF IInv, Committed
<1>4. job' \in [Threads -> Jobs] /\ \A t \in Threads : JobOK(job'[t])
  BY <1>1, <1>2 DEF JobOK
<1> QED  BY <1>2, <1>3, <1>4 DEF IInv

(* The invariant holds in every state.                                      *)
LEMMA Invariance == Spec => []IInv
<1>1. IInv /\ [Next]_vars => IInv'
  <2> SUFFICES ASSUME IInv, [Next]_vars
               PROVE  IInv'
    OBVIOUS
  <2>1. CASE \E t \in Threads : Control(t) \/ Statement(t) \/ Error(t)
    BY <2>1, ControlInv, StatementInv, ErrorInv
  <2>2. CASE \E t \in Threads, r \in Requests : Receive(t, r)
    BY <2>2, ReceiveInv
  <2>3. CASE Crash
    BY <2>3, CrashInv
  <2>4. CASE UNCHANGED vars
    BY <2>4 DEF vars, IInv, WillEnd
  <2> QED  BY <2>1, <2>2, <2>3, <2>4 DEF Next
<1> QED  BY <1>1, InitInv, PTL DEF Spec

(* Whenever the shared session is in a transaction, some handler still has  *)
(* its COMMIT or ROLLBACK before it, whatever fails, is refused or crashes, *)
(* and however many threads run handlers.                                   *)
THEOREM TransactionsEnd == Spec => []NoTransactionLeftOpen
<1>1. IInv => NoTransactionLeftOpen
  BY DEF IInv, WillEnd, Ends, NoTransactionLeftOpen, Idle
<1> QED  BY <1>1, Invariance, PTL

(* Every member "applied" has an application on record: approvals insert    *)
(* what the row says (handleApproveApplication), and no transaction undone  *)
(* takes the application without the member.                                *)
THEOREM ApplicationsOnRecord == Spec => []AppliedHasApplication
<1>1. IInv => AppliedHasApplication
  BY DEF IInv, Fits, AppliedHasApplication
<1> QED  BY <1>1, Invariance, PTL

(* Members and sign-ins are always of activities and users that exist, in   *)
(* the session and in what a crash would leave.                             *)
THEOREM RowsExist == Spec => []MembersExist
<1>1. IInv => MembersExist
  BY DEF IInv, Fits, MembersExist, Committed
<1> QED  BY <1>1, Invariance, PTL

-----------------------------------------------------------------------------
(* One IO thread. What its handler does to the tables is told by how many   *)
(* of its statements have been executed.                                    *)

\* None of the first n statements of the transaction of r failed on d (but the
\* membership of an approval, after which the handler goes on).
Could(d, r, n) ==
  CASE r.op = "assign" -> \A i \in 1..n : CanJoin(d, r.act, r.users[i])
    [] r.op = "settle" ->
         \A i \in 1..n : i <= Len(r.results) => CanSign(d, r.act, r.results[i])
    [] r.op = "add" -> \A i \in 1..n : r.weeks[i]
    [] OTHER -> TRUE

\* The pairs of the first n users of an assignment, and those signed for by the
\* first n results of a settlement.
Assigned(r, n) == {<<r.act, r.users[i]>> : i \in 1..n}
SignedFor(d, r, n) ==
  {<<r.act, r.results[i].user>> : i \in
     {j \in 1..n : j <= Len(r.results) /\ IsMember(d, r.act, r.results[j].user)}}

WithAssigned(d, ps) ==
  [d EXCEPT !.members = [p \in Pairs |-> IF p \in ps THEN "assigned" ELSE @[p]]]
WithSigned(d, ps) == [d EXCEPT !.signed = @ \union ps]
WithActivities(d, as, c) ==
  [d EXCEPT !.status = [a \in Acts |-> IF a \in as THEN "recruiting" ELSE @[a]],
            !.cap = [a \in Acts |-> IF a \in as THEN c ELSE @[a]]]

PartOfApproval(d, r, n) ==
  LET e == WithVerdict(d, r.act, r.user, r.verdict) IN
  IF n = 0 \/ d.apps[r.act, r.user] = "none" THEN d
  ELSE IF n = 1 THEN e ELSE Approved(e, r.act, r.user)

\* The tables d after the first n statements of the transaction of r, which has
\* inserted the activities made.
Part(d, r, n, made) ==
  CASE r.op = "approve" -> PartOfApproval(d, r, n)
    [] r.op = "assign" -> WithAssigned(d, Assigned(r, n))
    [] r.op = "settle" -> LET e == WithSigned(d, SignedFor(d, r, n)) IN
                          IF n <= Len(r.results) THEN e ELSE Settled(e, r.act)
    [] r.op = "add" -> WithActivities(d, made, r.cap)
    [] r.op = "deleteMember" -> IF n = 0 THEN d ELSE DeleteUsers(d, r.users)

\* The handler of r, which has inserted the activities made, is about to execute
\* statement p of its program.
About(r, made, p) ==
  IF r.op \in Transactions
  THEN IF p = 1 THEN undo = None /\ made = {}
       ELSE /\ undo # None /\ Could(undo, r, p - 2)
            /\ db = Part(undo, r, p - 2, made)
  ELSE /\ undo = None
       /\ p = 2 => /\ r.op = "apply" => MayApply(db, r.act)
                   /\ r.op = "leave" => MayLeave(db, r.act)

\* The thread w is alone: between two handlers no transaction is open, and the
\* one that runs is somewhere in its program or about to roll back.
Solitary(w) ==
  /\ \A t \in Threads : t # w => job[t] = Idle
  /\ job[w].todo = <<>> => job[w] = Idle /\ undo = None
  /\ job[w].todo # <<>> =>
       /\ job[w].req \in Requests
       /\ \/ \E p \in 1..Len(Program(job[w].req)) :
               /\ job[w].todo = SubSeq(Program(job[w].req), p, Len(Program(job[w].req)))
               /\ About(job[w].req, job[w].made, p)
          \/ job[w].todo = Rollback /\ undo # None

Alone == workers \subseteq Threads /\ \A w \in Threads : workers = {w} => Solitary(w)

(* Tables are what their columns are.                                       *)
LEMMA SameTables ==
  ASSUME NEW d \in Database, NEW e \in Database,
         d.users = e.users /\ d.status = e.status /\ d.cap = e.cap /\ d.apps = e.apps,
         d.members = e.members /\ d.signed = e.signed
  PROVE  d = e
BY DEF Database

(* The columns of the tables of Part.                                       *)
LEMMA PartColumns ==
  ASSUME NEW d \in Database
  PROVE  /\ \A ps : LET e == WithAssigned(d, ps) IN
              /\ e \in Database /\ e.users = d.users /\ e.status = d.status
              /\ e.cap = d.cap /\ e.apps = d.apps /\ e.signed = d.signed
              /\ e.members = [p \in Pairs |-> IF p \in ps THEN "assigned" ELSE d.members[p]]
         /\ \A ps \in SUBSET Pairs : LET e == WithSigned(d, ps) IN
              /\ e \in Database /\ e.users = d.users /\ e.status = d.status
              /\ e.cap = d.cap /\ e.apps = d.apps /\ e.members = d.members
              /\ e.signed = d.signed \union ps
         /\ \A as : \A c \in Nat : LET e == WithActivities(d, as, c) IN
              /\ e \in Database /\ e.users = d.users /\ e.apps = d.apps
              /\ e.members = d.members /\ e.signed = d.signed
              /\ e.status = [a \in Acts |-> IF a \in as THEN "recruiting" ELSE d.status[a]]
              /\ e.cap = [a \in Acts |-> IF a \in as THEN c ELSE d.cap[a]]
<1>1. /\ d.members \in [Pairs -> {"none", "assigned", "applied"}] /\ d.signed \subseteq Pairs
      /\ d.status \in [Acts -> {"none", "recruiting", "settled"}] /\ d.cap \in [Acts -> Nat]
  BY DEF Database
<1>2. ASSUME NEW ps
      PROVE  LET e == WithAssigned(d, ps) IN
              /\ e \in Database /\ e.users = d.users /\ e.status = d.status
              /\ e.cap = d.cap /\ e.apps = d.apps /\ e.signed = d.signed
              /\ e.members = [p \in Pairs |-> IF p \in ps THEN "assigned" ELSE d.members[p]]
  <2> DEFINE f == [p \in Pairs |-> IF p \in ps THEN "assigned" ELSE d.members[p]]
  <2>1. f \in [Pairs -> {"none", "assigned", "applied"}]
    BY <1>1
  <2>2. WithAssigned(d, ps) = [d EXCEPT !.members = f]
    BY DEF WithAssigned
  <2> HIDE DEF f
  <2>3. LET e == [d EXCEPT !.members = f] IN
              /\ e \in Database /\ e.users = d.users /\ e.status = d.status
              /\ e.cap = d.cap /\ e.apps = d.apps /\ e.signed = d.signed
              /\ e.members = f
    BY <2>1 DEF Database
  <2> QED  BY <2>2, <2>3 DEF f
<1>3. ASSUME NEW ps \in SUBSET Pairs
      PROVE  LET e == WithSigned(d, ps) IN
              /\ e \in Database /\ e.users = d.users /\ e.status = d.status
              /\ e.cap = d.cap /\ e.apps = d.apps /\ e.members = d.members
              /\ e.signed = d.signed \union ps
  BY <1>1 DEF WithSigned, Database
<1>4. ASSUME NEW as, NEW c \in Nat
      PROVE  LET e == WithActivities(d, as, c) IN
              /\ e \in Database /\ e.users = d.users /\ e.apps = d.apps
              /\ e.members = d.members /\ e.signed = d.signed
              /\ e.status = [a \in Acts |-> IF a \in as THEN "recruiting" ELSE d.status[a]]
              /\ e.cap = [a \in Acts |-> IF a \in as THEN c ELSE d.cap[a]]
  <2> DEFINE f == [a \in Acts |-> IF a \in as THEN "recruiting" ELSE d.status[a]]
             g == [a \in Acts |-> IF a \in as THEN c ELSE d.cap[a]]
  <2>1. f \in [Acts -> {"none", "recruiting", "settled"}] /\ g \in [Acts -> Nat]
    BY <1>1
  <2>2. WithActivities(d, as, c) = [d EXCEPT !.status = f, !.cap = g]
    BY DEF WithActivities
  <2> HIDE DEF f, g
  <2>3. LET e == [d EXCEPT !.status = f, !.cap = g] IN
              /\ e \in Database /\ e.users = d.users /\ e.apps = d.apps
              /\ e.members = d.members /\ e.signed = d.signed
              /\ e.status = f /\ e.cap = g
    BY <2>1 DEF Database
  <2> QED  BY <2>2, <2>3 DEF f, g
<1> QED  BY <1>2, <1>3, <1>4

\* What the statement s, number n + 1 of the transaction of r, does to the tables.
GoesOn(d, r, n, made, s) ==
  /\ ~Fails(s) =>
       /\ Could(d, r, n + 1)
       /\ Run(s) = Part(d, r, n + 1,
                        IF Kind(s) = "insert" THEN made \union {nextAct} ELSE made)
  /\ Fails(s) /\ Kind(s) = "sync" => Could(d, r, n + 1) /\ db = Part(d, r, n + 1, made)

(* One more member is assigned.                                             *)
LEMMA AssignStep ==
  ASSUME NEW d \in Database, NEW r \in Requests, r.op = "assign",
         NEW n \in Nat, n < Len(Body(r)), NEW made,
         Could(d, r, n), db = Part(d, r, n, made)
  PROVE  GoesOn(d, r, n, made, Body(r)[n + 1])
<1> DEFINE u == r.users[n + 1]
           s == Body(r)[n + 1]
           A == Assigned(r, n)
           C == Assigned(r, n + 1)
<1>1. /\ r.act \in Acts /\ r.users \in Seq(Users) /\ n + 1 \in 1..Len(r.users)
      /\ s = [do |-> "join", act |-> r.act, user |-> u, type |-> "assigned"]
      /\ u \in Users
  <2>1. /\ r.act \in Acts /\ r.users \in Seq(Users) /\ Len(Body(r)) = Len(r.users)
        /\ \A i \in 1..Len(r.users) : Body(r)[i] =
              [do |-> "join", act |-> r.act, user |-> r.users[i], type |-> "assigned"]
    BY AssignBody
  <2>2. Len(r.users) \in Nat
    BY <2>1, LenProperties
  <2>3. n + 1 \in 1..Len(r.users)
    BY <2>1, <2>2
  <2> QED  BY <2>1, <2>3, ElementOfSeq
<1>2. Kind(s) = "join" /\ s.act = r.act /\ s.user = u /\ s.type = "assigned"
  BY <1>1 DEF Kind
<1>3. C = A \union {<<r.act, u>>}
  <2>1. \A i : i \in 1..(n + 1) <=> i \in 1..n \/ i = n + 1
    OBVIOUS
  <2> QED  BY <2>1 DEF Assigned
<1>4. db = WithAssigned(d, A) /\ Part(d, r, n + 1, made) = WithAssigned(d, C)
  BY DEF Part
<1> HIDE DEF s, u, A, C
<1>5. /\ db \in Database /\ db.users = d.users /\ db.status = d.status
      /\ db.cap = d.cap /\ db.apps = d.apps /\ db.signed = d.signed
      /\ db.members = [p \in Pairs |-> IF p \in A THEN "assigned" ELSE d.members[p]]
  BY <1>4, PartColumns
<1> DEFINE e == Join(db, r.act, u, "assigned")
           f == WithAssigned(d, C)
<1>6. /\ f \in Database /\ f.users = d.users /\ f.status = d.status
      /\ f.cap = d.cap /\ f.apps = d.apps /\ f.signed = d.signed
      /\ f.members = [p \in Pairs |-> IF p \in C THEN "assigned" ELSE d.members[p]]
  BY PartColumns
<1>7. Run(s) = e /\ (~Fails(s) => CanJoin(db, r.act, u))
  BY <1>2 DEF Run, Fails
<1>8. <<r.act, u>> \in Pairs
  BY <1>1, PairProperties
<1>9. /\ e \in Database /\ e.users = d.users /\ e.status = d.status
      /\ e.cap = d.cap /\ e.apps = d.apps /\ e.signed = d.signed
      /\ e.members = [db.members EXCEPT ![<<r.act, u>>] = "assigned"]
  BY <1>5, <1>8 DEF Join, Database
<1> HIDE DEF e, f
<1>10. e.members = f.members
  <2>1. DOMAIN db.members = Pairs
    BY <1>5
  <2>2. \A p \in Pairs : e.members[p] = f.members[p]
    BY <1>3, <1>5, <1>6, <1>8, <1>9
  <2>3. e.members \in [Pairs -> {"none", "assigned", "applied"}]
        /\ f.members \in [Pairs -> {"none", "assigned", "applied"}]
    BY <1>6, <1>9 DEF Database
  <2> QED  BY <2>2, <2>3
<1>11. e = f
  BY <1>6, <1>9, <1>10, SameTables
<1>12. CanJoin(db, r.act, u) => Could(d, r, n + 1)
  <2>1. \A i \in 1..(n + 1) : i \in 1..n \/ i = n + 1
    OBVIOUS
  <2>2. CanJoin(db, r.act, u) => CanJoin(d, r.act, u)
    BY <1>5 DEF CanJoin, Exists
  <2> QED  BY <2>1, <2>2 DEF Could, u
<1>13. s = Body(r)[n + 1]
  BY DEF s
<1> QED  BY <1>2, <1>4, <1>7, <1>11, <1>12, <1>13 DEF GoesOn, f

(* One more result is signed for, or the status is set behind the last.     *)
LEMMA SettleStep ==
  ASSUME NEW d \in Database, NEW r \in Requests, r.op = "settle",
         NEW n \in Nat, n < Len(Body(r)), NEW made,
         Could(d, r, n), db = Part(d, r, n, made)
  PROVE  GoesOn(d, r, n, made, Body(r)[n + 1])
<1> DEFINE s == Body(r)[n + 1]
           A == SignedFor(d, r, n)
           C == SignedFor(d, r, n + 1)
           m == Len(r.results)
<1>1. /\ r.act \in Acts /\ m \in Nat /\ n <= m
      /\ \A i \in 1..m : r.results[i] \in [user : Users, ok : BOOLEAN]
      /\ \A i \in 1..m : Body(r)[i] = [do |-> "sign", act |-> r.act, res |-> r.results[i]]
      /\ Body(r)[m + 1] = [do |-> "lock", act |-> r.act]
  <2>1. /\ r.act \in Acts /\ r.results \in Seq([user : Users, ok : BOOLEAN])
        /\ Len(Body(r)) = m + 1
        /\ \A i \in 1..m : Body(r)[i] = [do |-> "sign", act |-> r.act, res |-> r.results[i]]
        /\ Body(r)[m + 1] = [do |-> "lock", act |-> r.act]
    BY SettleBody
  <2>2. m \in Nat /\ \A i \in 1..m : r.results[i] \in [user : Users, ok : BOOLEAN]
    BY <2>1, LenProperties, ElementOfSeq
  <2>3. n <= m
    BY <2>1, <2>2
  <2> QED  BY <2>1, <2>2, <2>3
<1>2. A \in SUBSET Pairs /\ C \in SUBSET Pairs
  <2>1. \A i \in 1..m : <<r.act, r.results[i].user>> \in Pairs
    BY <1>1, PairProperties
  <2>2. \A k \in Nat : \A i \in {j \in 1..k : j <= m} : i \in 1..m
    BY <1>1
  <2>3. \A k \in Nat : SignedFor(d, r, k) \subseteq Pairs
    BY <2>1, <2>2 DEF SignedFor
  <2> QED  BY <2>3
<1>3. db = WithSigned(d, A)
  BY <1>1 DEF Part
<1>4. /\ db \in Database /\ db.users = d.users /\ db.status = d.status
      /\ db.cap = d.cap /\ db.apps = d.apps /\ db.members = d.members
      /\ db.signed = d.signed \union A
  <2> HIDE DEF A
  <2> QED  BY <1>2, <1>3, PartColumns
<1>5. CASE n < m
  <2> DEFINE x == r.results[n + 1]
             u == x.user
  <2>1. n + 1 \in 1..m /\ n + 1 <= m
    BY <1>1, <1>5
  <2>2. x \in [user : Users, ok : BOOLEAN] /\ s = [do |-> "sign", act |-> r.act, res |-> x]
    BY <1>1, <2>1
  <2>3. C = IF IsMember(d, r.act, u) THEN A \union {<<r.act, u>>} ELSE A
    <3>1. \A i : i \in 1..(n + 1) <=> i \in 1..n \/ i = n + 1
      OBVIOUS
    <3> QED  BY <2>1, <3>1 DEF SignedFor
  <2>4. Part(d, r, n + 1, made) = WithSigned(d, C)
    BY <2>1 DEF Part
  <2> DEFINE f == WithSigned(d, C)
  <2> HIDE DEF x, s, A, C
  <2>5. /\ f \in Database /\ f.users = d.users /\ f.status = d.status
        /\ f.cap = d.cap /\ f.apps = d.apps /\ f.members = d.members
        /\ f.signed = d.signed \union C
    BY <1>2, PartColumns
  <2> HIDE DEF f
  <2>6. Kind(s) = "sign" /\ s.act = r.act /\ s.res = x
    BY <2>2 DEF Kind
  <2>7. Run(s) = Sign(db, r.act, u)
    BY <2>6 DEF Run
  <2>8. IsMember(db, r.act, u) <=> IsMember(d, r.act, u)
    BY <1>4 DEF IsMember
  <2>9. Sign(db, r.act, u) = f
    <3>1. CASE IsMember(d, r.act, u)
      <4> DEFINE e == [db EXCEPT !.signed = @ \union {<<r.act, u>>}]
      <4>1. Sign(db, r.act, u) = e
        BY <2>8, <3>1 DEF Sign
      <4>2. <<r.act, u>> \in Pairs
        BY <1>1, <2>2, PairProperties
      <4>3. /\ e \in Database /\ e.users = d.users /\ e.status = d.status
            /\ e.cap = d.cap /\ e.apps = d.apps /\ e.members = d.members
            /\ e.signed = db.signed \union {<<r.act, u>>}
        <5>1. PICK ps : ps = db.signed \union {<<r.act, u>>}
          OBVIOUS
        <5>2. ps \in SUBSET Pairs
          <6>1. db.signed \in SUBSET Pairs
            BY <1>4 DEF Database
          <6> QED  BY <4>2, <5>1, <6>1
        <5>3. e = [db EXCEPT !.signed = ps]
          BY <5>1
        <5> HIDE DEF e
        <5>4. /\ e \in Database /\ e.users = db.users /\ e.status = db.status
              /\ e.cap = db.cap /\ e.apps = db.apps /\ e.members = db.members
              /\ e.signed = ps
          BY <1>4, <5>2, <5>3, SignedTables
        <5> QED  BY <1>4, <5>1, <5>4
      <4> HIDE DEF e
      <4>4. e.signed = f.signed
        BY <1>4, <2>3, <2>5, <3>1, <4>3
      <4>5. e = f
        BY <2>5, <4>3, <4>4, SameTables
      <4> QED  BY <4>1, <4>5
    <3>2. CASE ~IsMember(d, r.act, u)
      <4>1. Sign(db, r.act, u) = db
        BY <2>8, <3>2 DEF Sign
      <4>2. C = A
        BY <2>3, <3>2
      <4> QED  BY <1>3, <4>1, <4>2 DEF f
    <3> QED  BY <3>1, <3>2
  <2>10. ~Fails(s) => Could(d, r, n + 1)
    <3>1. ~Fails(s) => CanSign(db, r.act, x)
      BY <2>6 DEF Fails
    <3>2. CanSign(db, r.act, x) => CanSign(d, r.act, x)
      BY <2>8 DEF CanSign
    <3>3. \A i \in 1..(n + 1) : i \in 1..n \/ i = n + 1
      OBVIOUS
    <3> QED  BY <3>1, <3>2, <3>3 DEF Could, x
  <2>11. s = Body(r)[n + 1]
    BY DEF s
  <2> QED  BY <2>4, <2>6, <2>7, <2>9, <2>10, <2>11 DEF GoesOn, f
<1>6. CASE ~(n < m)
  <2>1. n = m /\ ~(n + 1 <= m)
    BY <1>1, <1>6
  <2>2. s = [do |-> "lock", act |-> r.act]
    BY <1>1, <2>1
  <2>3. C = A
    <3>1. \A i : (i \in 1..(n + 1) /\ i <= m) <=> (i \in 1..n /\ i <= m)
      BY <1>1, <2>1
    <3> QED  BY <3>1 DEF SignedFor
  <2>4. Part(d, r, n + 1, made) = Settled(WithSigned(d, C), r.act)
    BY <2>1 DEF Part
  <2>5. Could(d, r, n + 1)
    <3>1. \A i \in 1..(n + 1) : i <= m => i \in 1..n
      BY <1>1, <2>1
    <3> QED  BY <3>1 DEF Could
  <2>6. Kind(s) = "lock" /\ s.act = r.act
    BY <2>2 DEF Kind
  <2>7. Run(s) = Settled(db, r.act)
    BY <2>6 DEF Run, Settled
  <2> QED  BY <1>3, <2>3, <2>4, <2>5, <2>6, <2>7 DEF GoesOn
<1> QED  BY <1>5, <1>6

(* One more activity is inserted.                                           *)
LEMMA AddStep ==
  ASSUME NEW d \in Database, NEW r \in Requests, r.op = "add",
         NEW n \in Nat, n < Len(Body(r)), NEW made,
         Could(d, r, n), db = Part(d, r, n, made)
  PROVE  GoesOn(d, r, n, made, Body(r)[n + 1])
<1> DEFINE s == Body(r)[n + 1]
           c == r.cap
           more == made \union {nextAct}
<1>1. /\ Len(r.weeks) \in Nat /\ n + 1 \in 1..Len(r.weeks)
      /\ s = [do |-> "insert", cap |-> c, week |-> r.weeks[n + 1]]
  <2>1. /\ r.weeks \in Seq(BOOLEAN) /\ Len(Body(r)) = Len(r.weeks)
        /\ \A i \in 1..Len(r.weeks) : Body(r)[i] =
              [do |-> "insert", cap |-> r.cap, week |-> r.weeks[i]]
    BY AddBody
  <2>2. Len(r.weeks) \in Nat
    BY <2>1, LenProperties
  <2> QED  BY <2>1, <2>2
<1>2. Kind(s) = "insert" /\ s.cap = c /\ s.week = r.weeks[n + 1]
  BY <1>1 DEF Kind
<1>3. c \in Nat
  BY BusinessAssumption DEF Requests
<1>4. db = WithActivities(d, made, c) /\ Part(d, r, n + 1, more) = WithActivities(d, more, c)
  BY DEF Part
<1> HIDE DEF s, c, more
<1>5. /\ db \in Database /\ db.users = d.users /\ db.apps = d.apps
      /\ db.members = d.members /\ db.signed = d.signed
      /\ db.status = [a \in Acts |-> IF a \in made THEN "recruiting" ELSE d.status[a]]
      /\ db.cap = [a \in Acts |-> IF a \in made THEN c ELSE d.cap[a]]
  BY <1>3, <1>4, PartColumns
<1> DEFINE e == [db EXCEPT !.status[nextAct] = "recruiting", !.cap[nextAct] = c]
           f == WithActivities(d, more, c)
<1>6. /\ f \in Database /\ f.users = d.users /\ f.apps = d.apps
      /\ f.members = d.members /\ f.signed = d.signed
      /\ f.status = [a \in Acts |-> IF a \in more THEN "recruiting" ELSE d.status[a]]
      /\ f.cap = [a \in Acts |-> IF a \in more THEN c ELSE d.cap[a]]
  BY <1>3, PartColumns
<1>7. Run(s) = e
  BY <1>2 DEF Run
<1>8. /\ e.users = d.users /\ e.apps = d.apps /\ e.members = d.members
      /\ e.signed = d.signed
      /\ e.cap = [db.cap EXCEPT ![nextAct] = c]
      /\ e.status = [db.status EXCEPT ![nextAct] = "recruiting"]
      /\ db.cap \in [Acts -> Nat] /\ db.status \in [Acts -> {"none", "recruiting", "settled"}]
  BY <1>5 DEF Database
<1>9. e \in Database
  <2>1. e.cap \in [Acts -> Nat] /\ e.status \in [Acts -> {"none", "recruiting", "settled"}]
    <3>1. \A g \in [Acts -> Nat] : [g EXCEPT ![nextAct] = c] \in [Acts -> Nat]
      BY <1>3
    <3>2. \A g \in [Acts -> {"none", "recruiting", "settled"}] :
            [g EXCEPT ![nextAct] = "recruiting"] \in [Acts -> {"none", "recruiting", "settled"}]
      OBVIOUS
    <3> HIDE DEF e
    <3> QED  BY <1>8, <3>1, <3>2
  <2> QED  BY <1>5, <2>1 DEF Database
<1> HIDE DEF e, f
<1>10. e.cap = f.cap /\ e.status = f.status
  <2>1. \A a \in Acts : e.cap[a] = f.cap[a] /\ e.status[a] = f.status[a]
    BY <1>5, <1>6, <1>8 DEF more
  <2>2. /\ e.cap \in [Acts -> Nat] /\ f.cap \in [Acts -> Nat]
        /\ e.status \in [Acts -> {"none", "recruiting", "settled"}]
        /\ f.status \in [Acts -> {"none", "recruiting", "settled"}]
    BY <1>6, <1>9 DEF Database
  <2> QED  BY <2>1, <2>2
<1>11. e = f
  BY <1>6, <1>8, <1>9, <1>10, SameTables
<1>12. ~Fails(s) => Could(d, r, n + 1)
  <2>1. ~Fails(s) => r.weeks[n + 1]
    BY <1>2 DEF Fails
  <2>2. \A i \in 1..(n + 1) : i \in 1..n \/ i = n + 1
    OBVIOUS
  <2> QED  BY <2>1, <2>2 DEF Could
<1>13. s = Body(r)[n + 1]
  BY DEF s
<1> QED  BY <1>2, <1>4, <1>7, <1>11, <1>12, <1>13 DEF GoesOn, f, more

(* The verdict, and then the membership, which may fail and leaves it out.  *)
LEMMA ApproveStep ==
  ASSUME NEW d \in Database, NEW r \in Requests, r.op = "approve",
         NEW n \in Nat, n < Len(Body(r)), NEW made,
         Could(d, r, n), db = Part(d, r, n, made)
  PROVE  GoesOn(d, r, n, made, Body(r)[n + 1])
<1> DEFINE s == Body(r)[n + 1]
           e == WithVerdict(d, r.act, r.user, r.verdict)
<1>1. /\ r.act \in Acts /\ r.user \in Users /\ r.verdict \in {"approved", "rejected"}
      /\ Len(Body(r)) = IF r.verdict = "approved" THEN 2 ELSE 1
      /\ Body(r)[1] = [do |-> "verdict", act |-> r.act, user |-> r.user, verdict |-> r.verdict]
      /\ r.verdict = "approved" =>
           Body(r)[2] = [do |-> "sync", act |-> r.act, user |-> r.user]
  BY ApproveBody
<1>2. Could(d, r, n + 1)
  BY DEF Could
<1> DEFINE none == d.apps[r.act, r.user] = "none"
<1>3. \A k \in Nat : Part(d, r, k, made) =
        IF k = 0 \/ none THEN d ELSE IF k = 1 THEN e ELSE Approved(e, r.act, r.user)
  <2>1. \A k : Part(d, r, k, made) = PartOfApproval(d, r, k)
    BY DEF Part
  <2> QED  BY <2>1 DEF PartOfApproval
<1>4. /\ none => \A k \in Nat : Part(d, r, k, made) = d
      /\ Part(d, r, 0, made) = d
      /\ ~none => Part(d, r, 1, made) = e /\ Part(d, r, 2, made) = Approved(e, r.act, r.user)
  <2> HIDE DEF none, e
  <2> QED  BY <1>3
<1> HIDE DEF s, e, none
<1>5. CASE n = 0
  <2>1. db = d
    BY <1>5, <1>4
  <2>3. /\ Kind(Body(r)[1]) = "verdict" /\ Body(r)[1].act = r.act
        /\ Body(r)[1].user = r.user /\ Body(r)[1].verdict = r.verdict
    BY <1>1 DEF Kind
  <2>4. Run(Body(r)[1]) = Part(d, r, 1, made)
    <3>1. CASE none
      <4>1. Run(Body(r)[1]) = d
        BY <2>1, <2>3, <3>1 DEF Run, none
      <4> QED  BY <1>4, <3>1, <4>1
    <3>2. CASE ~none
      <4>1. Run(Body(r)[1]) = e
        BY <2>1, <2>3, <3>2 DEF Run, WithVerdict, e, none
      <4> QED  BY <1>4, <3>2, <4>1
    <3> QED  BY <3>1, <3>2
  <2>5. n + 1 = 1 /\ Kind(s) = "verdict" /\ Run(s) = Part(d, r, 1, made)
    <3>1. n + 1 = 1
      BY <1>5
    <3> QED  BY <2>3, <2>4, <3>1 DEF s
  <2>6. s = Body(r)[n + 1]
    BY DEF s
  <2> QED  BY <1>2, <2>5, <2>6 DEF GoesOn
<1>6. CASE n # 0
  <2>1. n = 1 /\ r.verdict = "approved"
    BY <1>1, <1>6
  <2>2. /\ Kind(Body(r)[2]) = "sync" /\ Body(r)[2].act = r.act /\ Body(r)[2].user = r.user
    BY <1>1, <2>1 DEF Kind
  <2>5. CASE none
    <3>1. db = d /\ Part(d, r, 2, made) = d
      BY <1>4, <2>1, <2>5
    <3>2. Run(Body(r)[2]) = d
      BY <2>2, <2>5, <3>1 DEF Run, none
    <3> QED  BY <1>2, <2>1, <2>2, <3>1, <3>2 DEF GoesOn
  <2>6. CASE ~none
    <3>1. db = e /\ Part(d, r, 2, made) = Approved(db, r.act, r.user)
      BY <1>4, <2>1, <2>6
    <3>2. db.apps[r.act, r.user] # "none"
      <4>1. <<r.act, r.user>> \in Pairs
        BY <1>1, PairProperties
      <4>2. e.apps = [d.apps EXCEPT ![<<r.act, r.user>>] = r.verdict] /\ DOMAIN d.apps = Pairs
        BY DEF WithVerdict, Database, e
      <4>3. e.apps[<<r.act, r.user>>] = r.verdict
        BY <4>1, <4>2
      <4> QED  BY <1>1, <3>1, <4>3
    <3>3. Fails(Body(r)[2]) <=>
            ~CanJoin(db, r.act, r.user) \/ IsMember(db, r.act, r.user)
      BY <2>2, <3>2 DEF Fails
    <3>4. Run(Body(r)[2]) = Join(db, r.act, r.user, "applied")
      BY <2>2, <3>2 DEF Run
    <3>5. Approved(db, r.act, r.user) =
            IF Fails(Body(r)[2]) THEN db ELSE Join(db, r.act, r.user, "applied")
      BY <3>3 DEF Approved
    <3> QED  BY <1>2, <2>1, <2>2, <3>1, <3>4, <3>5 DEF GoesOn
  <2> QED  BY <2>5, <2>6
<1> QED  BY <1>5, <1>6

(* The members are deleted at once.                                         *)
LEMMA DeleteStep ==
  ASSUME NEW d \in Database, NEW r \in Requests, r.op = "deleteMember",
         NEW n \in Nat, n < Len(Body(r)), NEW made,
         Could(d, r, n), db = Part(d, r, n, made)
  PROVE  GoesOn(d, r, n, made, Body(r)[n + 1])
<1>1. Len(Body(r)) = 1 /\ Body(r)[1] = r /\ Kind(r) = "deleteMember"
  BY DeleteBody
<1>2. n = 0
  BY <1>1
<1>3. db = d /\ Part(d, r, 1, made) = DeleteUsers(d, r.users) /\ Could(d, r, 1)
  BY <1>2 DEF Part, Could
<1>4. Run(r) = DeleteUsers(d, r.users)
  BY <1>1, <1>3 DEF Run, Effect
<1> QED  BY <1>1, <1>2, <1>3, <1>4 DEF GoesOn

(* So every statement of a transaction goes on from what is done.           *)
LEMMA BodyStep ==
  ASSUME NEW d \in Database, NEW r \in Requests, r.op \in Transactions,
         NEW n \in Nat, n < Len(Body(r)), NEW made,
         Could(d, r, n), db = Part(d, r, n, made)
  PROVE  GoesOn(d, r, n, made, Body(r)[n + 1])
BY ApproveStep, AssignStep, SettleStep, AddStep, DeleteStep DEF Transactions

(* Before its first statement a transaction has done nothing.               *)
LEMMA PartAtStart ==
  ASSUME NEW d \in Database, NEW r \in Requests, r.op \in Transactions
  PROVE  Part(d, r, 0, {}) = d /\ Could(d, r, 0)
<1>1. Could(d, r, 0)
  BY DEF Could
<1>2. /\ d.members \in [Pairs -> {"none", "assigned", "applied"}] /\ d.signed \subseteq Pairs
      /\ d.status \in [Acts -> {"none", "recruiting", "settled"}] /\ d.cap \in [Acts -> Nat]
  BY DEF Database
<1>3. CASE r.op \in {"approve", "deleteMember"}
  <2>1. PartOfApproval(d, r, 0) = d
    BY DEF PartOfApproval
  <2>2. Part(d, r, 0, {}) = d
    BY <1>3, <2>1 DEF Part
  <2> QED  BY <1>1, <2>2
<1>4. CASE r.op = "assign"
  <2> DEFINE e == WithAssigned(d, {})
  <2>1. Assigned(r, 0) = {}
    BY DEF Assigned
  <2>2. Part(d, r, 0, {}) = e
    BY <1>4, <2>1 DEF Part
  <2>3. /\ e \in Database /\ e.users = d.users /\ e.status = d.status
        /\ e.cap = d.cap /\ e.apps = d.apps /\ e.signed = d.signed
        /\ e.members = [p \in Pairs |-> IF p \in {} THEN "assigned" ELSE d.members[p]]
    BY PartColumns
  <2> HIDE DEF e
  <2>4. e.members = d.members
    BY <1>2, <2>3
  <2> QED  BY <1>1, <2>2, <2>3, <2>4, SameTables
<1>5. CASE r.op = "settle"
  <2> DEFINE e == WithSigned(d, {})
  <2>1. SignedFor(d, r, 0) = {}
    BY DEF SignedFor
  <2>2. 0 <= Len(r.results)
    BY <1>5, SettleBody, LenProperties
  <2>3. Part(d, r, 0, {}) = e
    BY <1>5, <2>1, <2>2 DEF Part
  <2>4. /\ e \in Database /\ e.users = d.users /\ e.status = d.status
        /\ e.cap = d.cap /\ e.apps = d.apps /\ e.members = d.members
        /\ e.signed = d.signed \union {}
    BY PartColumns
  <2> HIDE DEF e
  <2>5. e.signed = d.signed
    BY <2>4
  <2> QED  BY <1>1, <2>3, <2>4, <2>5, SameTables
<1>6. CASE r.op = "add"
  <2> DEFINE e == WithActivities(d, {}, r.cap)
  <2>1. r.cap \in Nat
    BY <1>6, BusinessAssumption DEF Requests
  <2>2. Part(d, r, 0, {}) = e
    BY <1>6 DEF Part
  <2>3. /\ e \in Database /\ e.users = d.users /\ e.apps = d.apps
        /\ e.members = d.members /\ e.signed = d.signed
        /\ e.status = [a \in Acts |-> IF a \in {} THEN "recruiting" ELSE d.status[a]]
        /\ e.cap = [a \in Acts |-> IF a \in {} THEN r.cap ELSE d.cap[a]]
    BY <2>1, PartColumns
  <2> HIDE DEF e
  <2>4. e.status = d.status /\ e.cap = d.cap
    BY <1>2, <2>3
  <2> QED  BY <1>1, <2>2, <2>3, <2>4, SameTables
<1> QED  BY <1>1, <1>3, <1>4, <1>5, <1>6 DEF Transactions

\* The sign-ins and the status in one update.
SettledWith(d, a, ps) ==
  [d EXCEPT !.signed = @ \union ps,
            !.status[a] = IF @ = "none" THEN @ ELSE "settled"]

(* Settling in one update and settling after the sign-ins is the same.      *)
LEMMA SettledColumns ==
  ASSUME NEW d \in Database, NEW a, NEW ps \in SUBSET Pairs
  PROVE  Settled(WithSigned(d, ps), a) = SettledWith(d, a, ps)
<1> DEFINE st == [d.status EXCEPT ![a] = IF @ = "none" THEN @ ELSE "settled"]
           e  == WithSigned(d, ps)
           x  == Settled(e, a)
           y  == SettledWith(d, a, ps)
<1>1. st \in [Acts -> {"none", "recruiting", "settled"}]
  BY DEF Database
<1>2. /\ e \in Database /\ e.users = d.users /\ e.status = d.status
      /\ e.cap = d.cap /\ e.apps = d.apps /\ e.members = d.members
      /\ e.signed = d.signed \union ps
  BY PartColumns
<1>3. y = [d EXCEPT !.signed = @ \union ps, !.status = st]
  BY DEF SettledWith
<1> HIDE DEF e
<1>4. x = [e EXCEPT !.status = st]
  BY <1>2 DEF Settled
<1> HIDE DEF st, x, y
<1>5. /\ x \in Database /\ x.users = d.users /\ x.status = st
      /\ x.cap = d.cap /\ x.apps = d.apps /\ x.members = d.members
      /\ x.signed = d.signed \union ps
  BY <1>1, <1>2, <1>4 DEF Database
<1>6. /\ y \in Database /\ y.users = d.users /\ y.status = st
      /\ y.cap = d.cap /\ y.apps = d.apps /\ y.members = d.members
      /\ y.signed = d.signed \union ps
  BY <1>1, <1>3 DEF Database
<1>7. x = y
  BY <1>5, <1>6, SameTables
<1> QED  BY <1>7 DEF x, y, e

(* When none of its statements has failed, a transaction has done all that  *)
(* its request asks for.                                                    *)
LEMMA PartAtEnd ==
  ASSUME NEW d \in Database, NEW r \in Requests, r.op \in Transactions, NEW made,
         Could(d, r, Len(Body(r)))
  PROVE  Part(d, r, Len(Body(r)), made) = Effect(d, r, made)
<1> DEFINE n == Len(Body(r))
<1>1. CASE r.op = "approve"
  <2> DEFINE e    == WithVerdict(d, r.act, r.user, r.verdict)
             none == d.apps[r.act, r.user] = "none"
             yes  == r.verdict = "approved"
  <2>1. n = IF yes THEN 2 ELSE 1
    BY <1>1, ApproveBody
  <2>2. Part(d, r, n, made) = PartOfApproval(d, r, n)
    BY <1>1 DEF Part
  <2>3. PartOfApproval(d, r, n) =
          IF n = 0 \/ none THEN d ELSE IF n = 1 THEN e ELSE Approved(e, r.act, r.user)
    BY DEF PartOfApproval
  <2>4. Effect(d, r, made) =
          IF none THEN d ELSE IF yes THEN Approved(e, r.act, r.user) ELSE e
    BY <1>1 DEF Effect, WithVerdict
  <2> HIDE DEF e, none, yes, n
  <2>5. PartOfApproval(d, r, n) = Effect(d, r, made)
    <3>1. CASE none
      BY <2>3, <2>4, <3>1
    <3>2. CASE ~none /\ yes
      BY <2>1, <2>3, <2>4, <3>2
    <3>3. CASE ~none /\ ~yes
      BY <2>1, <2>3, <2>4, <3>3
    <3> QED  BY <3>1, <3>2, <3>3
  <2> QED  BY <2>2, <2>5 DEF n
<1>2. CASE r.op = "assign"
  <2> DEFINE us == r.users
  <2>1. /\ r.act \in Acts /\ us \in Seq(Users) /\ n = Len(us)
        /\ DOMAIN us = 1..Len(us)
    BY <1>2, AssignBody, LenProperties
  <2>2. Range(us) = {us[i] : i \in 1..Len(us)}
    BY <2>1 DEF Range
  <2>3. Assigned(r, n) = {r.act} \X Range(us)
    BY <2>1, <2>2 DEF Assigned
  <2>4. \A u \in Range(us) : CanJoin(d, r.act, u)
    BY <1>2, <2>1, <2>2 DEF Could
  <2>5. Effect(d, r, made) = WithAssigned(d, {r.act} \X Range(us))
    BY <1>2, <2>4 DEF Effect, WithAssigned
  <2>6. Part(d, r, n, made) = WithAssigned(d, Assigned(r, n))
    BY <1>2 DEF Part
  <2> QED  BY <2>3, <2>5, <2>6
<1>3. CASE r.op = "settle"
  <2> DEFINE xs == r.results
             ps == {<<r.act, x.user>> : x \in {y \in Range(xs) : IsMember(d, r.act, y.user)}}
  <2>1. /\ r.act \in Acts /\ xs \in Seq([user : Users, ok : BOOLEAN]) /\ n = Len(xs) + 1
        /\ DOMAIN xs = 1..Len(xs) /\ Len(xs) \in Nat
    BY <1>3, SettleBody, LenProperties
  <2>2. Range(xs) = {xs[i] : i \in 1..Len(xs)}
    BY <2>1 DEF Range
  <2>3. \A j : (j \in 1..n /\ j <= Len(xs)) <=> j \in 1..Len(xs)
    BY <2>1
  <2>4. SignedFor(d, r, n) = ps
    BY <2>2, <2>3 DEF SignedFor
  <2>5. ps \in SUBSET Pairs
    <3>1. \A i \in 1..Len(xs) : xs[i] \in [user : Users, ok : BOOLEAN]
      BY <2>1, ElementOfSeq
    <3>2. \A x \in Range(xs) : x.user \in Users
      BY <2>2, <3>1
    <3> QED  BY <2>1, <3>2, PairProperties
  <2>6. \A x \in Range(xs) : CanSign(d, r.act, x)
    BY <1>3, <2>2, <2>3 DEF Could
  <2>7. Effect(d, r, made) = SettledWith(d, r.act, ps)
    BY <1>3, <2>6 DEF Effect, SettledWith
  <2>8. Part(d, r, n, made) = Settled(WithSigned(d, SignedFor(d, r, n)), r.act)
    <3>1. ~(n <= Len(r.results))
      BY <2>1
    <3> HIDE DEF n
    <3> QED  BY <1>3, <3>1 DEF Part
  <2> HIDE DEF ps, n
  <2>9. Settled(WithSigned(d, ps), r.act) = SettledWith(d, r.act, ps)
    BY <2>5, SettledColumns
  <2> QED  BY <2>4, <2>7, <2>8, <2>9 DEF n
<1>4. CASE r.op = "add"
  <2>1. \A w \in Range(r.weeks) : w
    <3>1. n = Len(r.weeks) /\ DOMAIN r.weeks = 1..Len(r.weeks)
      BY <1>4, AddBody, LenProperties
    <3>2. \A i \in DOMAIN r.weeks : r.weeks[i]
      BY <1>4, <3>1 DEF Could
    <3> QED  BY <3>2 DEF Range
  <2> QED  BY <1>4, <2>1 DEF Effect, Part, WithActivities
<1>5. CASE r.op = "deleteMember"
  <2>1. n = 1
    BY <1>5, DeleteBody
  <2> QED  BY <1>5, <2>1 DEF Effect, Part
<1> QED  BY <1>1, <1>2, <1>3, <1>4, <1>5 DEF Transactions

(* What is left of a program from one of its statements on.                 *)
LEMMA RestProperties ==
  ASSUME NEW P \in Seq(Statements), NEW p \in 1..Len(P)
  PROVE  LET rest == SubSeq(P, p, Len(P)) IN
         /\ rest \in Seq(Statements) /\ rest # <<>>
         /\ Head(rest) = P[p] /\ Last(rest) = P[Len(P)]
         /\ Tail(rest) = SubSeq(P, p + 1, Len(P))
         /\ p = Len(P) => Tail(rest) = <<>>
         /\ p # Len(P) => p + 1 \in 1..Len(P) /\ SubSeq(P, p + 1, Len(P)) # <<>>
<1> DEFINE n == Len(P)
           rest == SubSeq(P, p, n)
<1>1. n \in Nat /\ p \in Int /\ n \in Int /\ p <= n /\ n \in p..n /\ \A i \in p..n : P[i] \in Statements
  <2>1. n \in Nat
    BY LenProperties
  <2>2. \A i \in p..n : i \in 1..n
    BY <2>1
  <2>3. \A i \in 1..n : P[i] \in Statements
    BY ElementOfSeq
  <2> QED  BY <2>1, <2>2, <2>3
<1>2. /\ rest \in Seq(Statements) /\ Len(rest) = n - p + 1
      /\ \A i \in 1..(n - p + 1) : rest[i] = P[p + i - 1]
  <2> HIDE DEF n
  <2> QED  BY <1>1, SubSeqProperties
<1>3. Head(rest) = P[p] /\ Tail(rest) = SubSeq(P, p + 1, n)
  BY <1>1, HeadTailOfSubSeq
<1> HIDE DEF n, rest
<1>4. rest # <<>>
  BY <1>1, <1>2, EmptySeq
<1>5. Last(rest) = P[n]
  <2>1. n - p + 1 \in 1..(n - p + 1) /\ p + (n - p + 1) - 1 = n
    BY <1>1
  <2> QED  BY <1>2, <2>1 DEF Last
<1>6. p = n => SubSeq(P, p + 1, n) = <<>>
  BY <1>1, SubSeqEmpty
<1>7. ASSUME p # n
      PROVE  p + 1 \in 1..n /\ SubSeq(P, p + 1, n) # <<>>
  <2>1. p + 1 \in 1..n /\ p + 1 \in Int /\ p + 1 <= n /\ \A i \in (p + 1)..n : P[i] \in Statements
    BY <1>1, <1>7
  <2>2. Len(SubSeq(P, p + 1, n)) = n - (p + 1) + 1
    BY <1>1, <2>1, SubSeqProperties
  <2>3. n - (p + 1) + 1 # 0
    BY <1>1, <2>1
  <2> QED  BY <2>1, <2>2, <2>3, EmptySeq
<1> QED  BY <1>2, <1>3, <1>4, <1>5, <1>6, <1>7 DEF n, rest

(* The statements of a program with a transaction, by their number.         *)
LEMMA TransactionAt ==
  ASSUME NEW r \in Requests, r.op \in Transactions, NEW p \in 1..Len(Program(r))
  PROVE  LET P == Program(r)
             n == Len(Body(r)) IN
         /\ n \in Nat /\ Len(P) = 2 + n
         /\ P[Len(P)] = Commit[1]
         /\ p = 1 => Kind(P[p]) = "START"
         /\ p = Len(P) => Kind(P[p]) = "COMMIT"
         /\ p # 1 /\ p # Len(P) =>
              /\ p - 2 \in Nat /\ p - 2 < n /\ P[p] = Body(r)[(p - 2) + 1]
              /\ Kind(P[p]) \notin Controls \union Checks
<1> DEFINE P == Program(r)
           B == Body(r)
           n == Len(B)
<1>1. /\ \A i \in 1..n : Kind(B[i]) \notin Controls \union Checks
      /\ n \in Nat /\ Len(P) = 2 + n
      /\ P[1] = [do |-> "START"] /\ \A i \in 1..n : P[i + 1] = B[i]
      /\ P[2 + n] = [do |-> "COMMIT"]
  <2>1. B \in Seq(Statements) /\ \A i \in 1..n : Kind(B[i]) \notin Controls \union Checks
    BY BodyProperties DEF Plain
  <2>2. P = Transaction(B)
    BY BodyProperties
  <2> HIDE DEF P, B
  <2> QED  BY <2>1, <2>2, TransactionIs
<1> HIDE DEF P, B, n
<1>2. P[Len(P)] = Commit[1]
  BY <1>1 DEF Commit
<1>3. p = 1 => Kind(P[p]) = "START"
  BY <1>1 DEF Kind
<1>4. p = Len(P) => Kind(P[p]) = "COMMIT"
  BY <1>1 DEF Kind
<1>5. ASSUME p # 1, p # Len(P)
      PROVE  /\ p - 2 \in Nat /\ p - 2 < n /\ P[p] = B[(p - 2) + 1]
             /\ Kind(P[p]) \notin Controls \union Checks
  <2>1. p \in 1..Len(P)
    BY DEF P
  <2>2. p - 2 \in Nat /\ p - 2 < n /\ p - 1 \in 1..n /\ (p - 1) + 1 = p /\ (p - 2) + 1 = p - 1
    BY <1>1, <1>5, <2>1
  <2> QED  BY <1>1, <2>2
<1> QED  BY <1>1, <1>2, <1>3, <1>4, <1>5 DEF P, n, B

(* The programs without one: a check and a write, or the request itself.    *)
LEMMA PlainAt ==
  ASSUME NEW r \in Requests, r.op \notin Transactions
  PROVE  LET P == Program(r) IN
         /\ \A i \in 1..Len(P) :
              Kind(P[i]) \notin Controls \union {"sync", "join", "sign", "insert"}
         /\ \/ /\ r.op \in WholeOps /\ Len(P) = 1 /\ P[1] = r /\ Kind(r) = r.op
            \/ /\ r.op = "apply" /\ Len(P) = 2
               /\ Kind(P[1]) = "mayApply" /\ P[1].act = r.act
               /\ Kind(P[2]) = "pend" /\ P[2].act = r.act /\ P[2].user = r.user
            \/ /\ r.op = "leave" /\ Len(P) = 2
               /\ Kind(P[1]) = "mayLeave" /\ P[1].act = r.act
               /\ Kind(P[2]) = "quit" /\ P[2].act = r.act /\ P[2].user = r.user
<1> DEFINE P == Program(r)
<1>1. CASE r.op \in WholeOps
  <2>1. r \in Whole
    BY <1>1 DEF Whole
  <2>2. P = <<r>>
    BY <1>1 DEF Program, WholeOps, Transactions, ConfirmAssign, UpdateActivity,
                DeleteActivity, BatchDelete, BulkRegister
  <2>3. Kind(r) = r.op
    BY <2>1, WholeTyped
  <2> QED  BY <1>1, <2>2, <2>3 DEF WholeOps, Controls
<1>2. CASE r.op = "apply"
  <2>1. P = Apply(r)
    BY <1>2 DEF Program
  <2>2. Len(P) = 2 /\ P[1] = [do |-> "mayApply", act |-> r.act]
        /\ P[2] = [do |-> "pend", act |-> r.act, user |-> r.user]
    BY <2>1 DEF Apply
  <2> HIDE DEF P
  <2>3. /\ Kind(P[1]) = "mayApply" /\ P[1].act = r.act
        /\ Kind(P[2]) = "pend" /\ P[2].act = r.act /\ P[2].user = r.user
    BY <2>2 DEF Kind
  <2>4. \A i \in 1..Len(P) :
          Kind(P[i]) \notin Controls \union {"sync", "join", "sign", "insert"}
    BY <2>2, <2>3 DEF Controls
  <2> QED  BY <1>2, <2>2, <2>3, <2>4 DEF P
<1>3. CASE r.op = "leave"
  <2>1. P = Leave(r)
    BY <1>3 DEF Program
  <2>2. Len(P) = 2 /\ P[1] = [do |-> "mayLeave", act |-> r.act]
        /\ P[2] = [do |-> "quit", act |-> r.act, user |-> r.user]
    BY <2>1 DEF Leave
  <2> HIDE DEF P
  <2>3. /\ Kind(P[1]) = "mayLeave" /\ P[1].act = r.act
        /\ Kind(P[2]) = "quit" /\ P[2].act = r.act /\ P[2].user = r.user
    BY <2>2 DEF Kind
  <2>4. \A i \in 1..Len(P) :
          Kind(P[i]) \notin Controls \union {"sync", "join", "sign", "insert"}
    BY <2>2, <2>3 DEF Controls
  <2> QED  BY <1>3, <2>2, <2>3, <2>4 DEF P
<1>4. r.op \in WholeOps \union {"apply", "leave"} \union Transactions
  BY DEF Requests, WholeOps, Transactions
<1> QED  BY <1>1, <1>2, <1>3, <1>4

(* Tables and requests are not None.                                        *)
LEMMA NotNone ==
  /\ \A d \in Database : d # None
  /\ \A r \in Requests : r # None
<1>1. "none" \in DOMAIN None /\ "op" \notin DOMAIN None
  BY DEF None
<1>2. \A d \in Database : "none" \notin DOMAIN d
  BY DEF Database
<1>3. ASSUME NEW r \in Requests
      PROVE  "op" \in DOMAIN r
  <2>1. \/ \E A, B, C : r \in [op : A, act : B, user : C]
        \/ \E A, B, C, D : r \in [op : A, act : B, user : C, verdict : D]
        \/ \E A, B, C : r \in [op : A, act : B, users : C]
        \/ \E A, B, C : r \in [op : A, act : B, results : C]
        \/ \E A, B, C : r \in [op : A, cap : B, weeks : C]
        \/ \E A, B, C : r \in [op : A, act : B, cap : C]
        \/ \E A, B : r \in [op : A, act : B]
        \/ \E A, B : r \in [op : A, users : B]
    BY Zenon DEF Requests
  <2> QED  BY <2>1
<1> QED  BY <1>1, <1>2, <1>3

-----------------------------------------------------------------------------
(* The steps of the thread that is alone.                                   *)

\* What AtomicRequests asks of a step of it.
AtomicStep(w) ==
  Committed' # Committed =>
    job[w].req # None /\ Committed' = Effect(Committed, job[w].req, job[w].made)

(* A thread with something left to do is the one.                           *)
LEMMA TheOne ==
  ASSUME NEW w \in Threads, Solitary(w), NEW t \in Threads, job[t].todo # <<>>
  PROVE  t = w
BY DEF Solitary, Idle

(* It is done, and no transaction is open.                                  *)
LEMMA IsDone ==
  ASSUME IInv, NEW w \in Threads, Solitary(w),
         undo' = None, job' = [job EXCEPT ![w] = Idle]
  PROVE  Solitary(w)'
<1>1. \A t \in Threads : job'[t] = IF t = w THEN Idle ELSE job[t]
  BY DEF IInv
<1>2. \A t \in Threads : job'[t] = Idle
  BY <1>1 DEF Solitary
<1>3. Idle.todo = <<>>
  BY DEF Idle
<1> QED  BY <1>2, <1>3 DEF Solitary

(* It goes on with the next statement.                                      *)
LEMMA IsAhead ==
  ASSUME IInv, NEW w \in Threads, Solitary(w),
         NEW r \in Requests, job[w].req = r, NEW made \in SUBSET Nat,
         NEW p \in 1..Len(Program(r)), p # Len(Program(r)),
         job' = [job EXCEPT ![w] =
                   Left(job[w], SubSeq(Program(r), p + 1, Len(Program(r))), made)],
         About(r, made, p + 1)'
  PROVE  Solitary(w)'
<1> DEFINE P == Program(r)
           rest == SubSeq(P, p + 1, Len(P))
           k == [job[w] EXCEPT !.todo = rest, !.made = made]
<1>1. P \in Seq(Statements)
  BY ProgramShape DEF Shape
<1>2. p + 1 \in 1..Len(P) /\ rest # <<>>
  <2> HIDE DEF P
  <2>1. p \in 1..Len(P) /\ p # Len(P)
    BY DEF P
  <2> QED  BY <1>1, <2>1, RestProperties
<1>3. job' = [job EXCEPT ![w] = k]
  BY <1>2 DEF Left
<1>4. k.req = r /\ k.todo = rest /\ k.made = made
  BY DEF IInv, Jobs
<1> HIDE DEF k, rest
<1>5. \A t \in Threads : job'[t] = IF t = w THEN k ELSE job[t]
  BY <1>3 DEF IInv
<1>6. job'[w] = k /\ \A t \in Threads : t # w => job'[t] = Idle
  BY <1>5 DEF Solitary
<1>7. /\ job'[w].req \in Requests /\ job'[w].todo # <<>>
      /\ p + 1 \in 1..Len(Program(job'[w].req))
      /\ job'[w].todo = SubSeq(Program(job'[w].req), p + 1, Len(Program(job'[w].req)))
      /\ job'[w].req = r /\ job'[w].made = made
  BY <1>2, <1>4, <1>6 DEF rest
<1>8. About(job[w].req, job[w].made, p + 1)'
  BY <1>7 DEF About
<1> QED  BY <1>6, <1>7, <1>8 DEF Solitary

(* It is about to roll back the open transaction.                           *)
LEMMA IsGivingUp ==
  ASSUME IInv, NEW w \in Threads, Solitary(w), job[w].req \in Requests, undo' # None,
         job' = [job EXCEPT ![w] = Left(job[w], Rollback, job[w].made)]
  PROVE  Solitary(w)'
<1> DEFINE k == [job[w] EXCEPT !.todo = Rollback, !.made = job[w].made]
<1>1. Rollback # <<>>
  BY DEF Rollback
<1>2. job' = [job EXCEPT ![w] = k]
  BY <1>1 DEF Left
<1>3. k.req = job[w].req /\ k.todo = Rollback
  BY DEF IInv, Jobs
<1> HIDE DEF k
<1>4. \A t \in Threads : job'[t] = IF t = w THEN k ELSE job[t]
  BY <1>2 DEF IInv
<1> QED  BY <1>1, <1>3, <1>4 DEF Solitary

(* It takes a request.                                                      *)
LEMMA ReceiveAlone ==
  ASSUME IInv, NEW w \in Threads, Solitary(w), NEW r \in Requests, Receive(w, r)
  PROVE  Solitary(w)' /\ AtomicStep(w)
<1> DEFINE P == Program(r)
           k == [req |-> r, todo |-> P, made |-> {}]
<1>1. P \in Seq(Statements) /\ P # <<>> /\ 1 \in 1..Len(P)
  <2>1. P \in Seq(Statements) /\ P # <<>>
    BY ProgramShape DEF Shape
  <2>2. Len(P) \in Nat /\ Len(P) # 0
    BY <2>1, EmptySeq
  <2> QED  BY <2>1, <2>2
<1>2. P = SubSeq(P, 1, Len(P))
  <2> HIDE DEF P
  <2> QED  BY <1>1, SubSeqFull
<1>3. /\ job' = [job EXCEPT ![w] = k] /\ job[w] = Idle
      /\ db' = db /\ undo' = undo
  BY DEF Receive
<1>4. undo = None
  BY <1>3 DEF Solitary, Idle
<1>5. k.req = r /\ k.todo = P /\ k.made = {}
  OBVIOUS
<1> HIDE DEF k, P
<1>6. \A t \in Threads : job'[t] = IF t = w THEN k ELSE job[t]
  BY <1>3 DEF IInv
<1>7. job'[w] = k /\ \A t \in Threads : t # w => job'[t] = Idle
  BY <1>6 DEF Solitary
<1>8. About(job[w].req, job[w].made, 1)'
  BY <1>3, <1>4, <1>5, <1>7 DEF About
<1>9. /\ job'[w].req = r /\ job'[w].todo = P /\ P = Program(r)
  BY <1>5, <1>7 DEF P
<1> QED  BY <1>1, <1>2, <1>3, <1>7, <1>8, <1>9 DEF Solitary, AtomicStep, Committed

(* A crash undoes what the thread has not committed.                        *)
LEMMA CrashAlone ==
  ASSUME IInv, NEW w \in Threads, Solitary(w), Crash
  PROVE  Solitary(w)' /\ AtomicStep(w)
<1>1. undo' = None /\ db' = Committed /\ \A t \in Threads : job'[t] = Idle
  BY DEF Crash
<1>2. Idle.todo = <<>>
  BY DEF Idle
<1> QED  BY <1>1, <1>2 DEF Solitary, AtomicStep, Committed

(* What the transaction has done so far, in the state after a step.         *)
LEMMA NextTables ==
  ASSUME NEW r, NEW n, NEW made
  PROVE  /\ Could(undo, r, n)' <=> Could(undo', r, n)
         /\ Part(undo, r, n, made)' = Part(undo', r, n, made)
BY DEF Could, Part, PartOfApproval, CanJoin, CanSign, Exists, IsMember, WithAssigned,
       WithSigned, WithActivities, Assigned, SignedFor, WithVerdict, Approved, Settled,
       Join, DeleteUsers, Without, Pairs

\* The thread w is about to execute statement p of the program of r.
StandsAt(w, r, p) ==
  LET P == Program(r) IN
  /\ r \in Requests /\ job[w].req = r /\ job[w].made \in SUBSET Nat
  /\ P \in Seq(Statements) /\ p \in 1..Len(P)
  /\ Head(job[w].todo) = P[p] /\ Last(job[w].todo) = P[Len(P)]
  /\ Tail(job[w].todo) = SubSeq(P, p + 1, Len(P))
  /\ p = Len(P) => Tail(job[w].todo) = <<>>
  /\ About(r, job[w].made, p)

(* It stands somewhere in a program, or is about to roll back.              *)
LEMMA WhereItStands ==
  ASSUME IInv, NEW w \in Threads, Solitary(w), job[w].todo # <<>>
  PROVE  \/ \E p : StandsAt(w, job[w].req, p)
         \/ job[w].todo = Rollback /\ undo # None /\ job[w].req \in Requests
<1> DEFINE r == job[w].req
           P == Program(r)
           todo == job[w].todo
<1>1. r \in Requests /\ job[w].made \in SUBSET Nat
  BY DEF Solitary, IInv, Jobs
<1>2. P \in Seq(Statements)
  BY <1>1, ProgramShape DEF Shape
<1>3. ASSUME NEW p \in 1..Len(P), todo = SubSeq(P, p, Len(P)), About(r, job[w].made, p)
      PROVE  StandsAt(w, r, p)
  <2> HIDE DEF r
  <2>1. LET rest == SubSeq(P, p, Len(P)) IN
        /\ Head(rest) = P[p] /\ Last(rest) = P[Len(P)]
        /\ Tail(rest) = SubSeq(P, p + 1, Len(P))
        /\ p = Len(P) => Tail(rest) = <<>>
    <3> HIDE DEF P
    <3> QED  BY <1>2, RestProperties
  <2> QED  BY <1>1, <1>2, <1>3, <2>1 DEF StandsAt, r
<1> QED  BY <1>1, <1>3 DEF Solitary

(* START, COMMIT and ROLLBACK.                                              *)
LEMMA ControlAlone ==
  ASSUME IInv, NEW w \in Threads, Solitary(w), Control(w)
  PROVE  Solitary(w)' /\ AtomicStep(w)
<1> DEFINE todo == job[w].todo
           made == job[w].made
           s == Head(todo)
<1>1. /\ todo # <<>> /\ Kind(s) \in Controls
      /\ undo' = IF Kind(s) = "START" THEN db ELSE None
      /\ db' = IF Kind(s) = "ROLLBACK" THEN Committed ELSE db
      /\ job' = [job EXCEPT ![w] = Left(job[w], Tail(todo), made)]
  BY DEF Control, Controls
<1>2. db \in Database /\ db # None
  BY NotNone DEF IInv, Fits
<1>3. ASSUME Tail(todo) = <<>>, undo' = None
      PROVE  Solitary(w)'
  <2>1. job' = [job EXCEPT ![w] = Idle]
    BY <1>1, <1>3 DEF Left
  <2> QED  BY <1>3, <2>1, IsDone
<1>4. CASE todo = Rollback /\ undo # None
  <2>1. Kind(s) = "ROLLBACK" /\ Tail(todo) = <<>>
    BY <1>4 DEF Rollback, Kind
  <2>2. undo' = None /\ db' = undo
    BY <1>1, <1>4, <2>1 DEF Committed
  <2> QED  BY <1>3, <1>4, <2>1, <2>2 DEF AtomicStep, Committed
<1>5. ASSUME NEW r, NEW p, StandsAt(w, r, p)
      PROVE  Solitary(w)' /\ AtomicStep(w)
  <2> DEFINE P == Program(r)
             n == Len(Body(r))
  <2>1. /\ r \in Requests /\ job[w].req = r /\ made \in SUBSET Nat
        /\ p \in 1..Len(P) /\ s = P[p] /\ Tail(todo) = SubSeq(P, p + 1, Len(P))
        /\ p = Len(P) => Tail(todo) = <<>>
        /\ About(r, made, p)
    BY <1>5 DEF StandsAt
  <2>2. r.op \in Transactions
    BY <1>1, <2>1, PlainAt
  <2>3. /\ n \in Nat /\ Len(P) = 2 + n
        /\ p = 1 => Kind(s) = "START"
        /\ p = Len(P) => Kind(s) = "COMMIT"
        /\ p = 1 \/ p = Len(P)
    BY <1>1, <2>1, <2>2, TransactionAt
  <2> HIDE DEF todo, made, s, P, n
  <2>4. CASE p = 1
    <3>1. undo = None /\ made = {}
      BY <2>1, <2>2, <2>4 DEF About
    <3>2. undo' = db /\ db' = db
      BY <1>1, <2>3, <2>4
    <3>3. Part(db, r, 0, {}) = db /\ Could(db, r, 0)
      BY <1>2, <2>1, <2>2, PartAtStart
    <3>4. About(r, {}, p + 1)'
      <4>1. p + 1 # 1 /\ (p + 1) - 2 = 0
        BY <2>4
      <4>2. Could(undo, r, (p + 1) - 2)' /\ db' = Part(undo, r, (p + 1) - 2, {})'
        <5>1. Could(undo', r, 0) /\ db' = Part(undo', r, 0, {})
          BY <3>1, <3>2, <3>3
        <5> QED  BY <4>1, <5>1, NextTables
      <4> QED  BY <1>2, <2>2, <3>2, <4>1, <4>2 DEF About
    <3>5. p # Len(P)
      BY <2>3, <2>4
    <3>6. Solitary(w)'
      <4>1. job' = [job EXCEPT ![w] = Left(job[w], SubSeq(P, p + 1, Len(P)), {})]
        BY <1>1, <2>1, <3>1
      <4> QED  BY <2>1, <3>4, <3>5, <4>1, IsAhead DEF P
    <3> QED  BY <1>2, <3>1, <3>2, <3>6 DEF AtomicStep, Committed
  <2>5. CASE p = Len(P)
    <3>1. p # 1 /\ p - 2 = n /\ Kind(s) = "COMMIT"
      BY <2>3, <2>5
    <3>2. undo # None /\ Could(undo, r, n) /\ db = Part(undo, r, n, made)
      BY <2>1, <2>2, <3>1 DEF About
    <3>3. undo' = None /\ db' = db
      BY <1>1, <3>1
    <3>4. undo \in Database
      BY <3>2 DEF IInv, Fits
    <3>5. db = Effect(undo, r, made)
      BY <2>1, <2>2, <3>2, <3>4, PartAtEnd DEF n
    <3>6. Solitary(w)'
      BY <1>3, <2>1, <2>5, <3>3
    <3>7. r # None
      BY <2>1, NotNone
    <3> QED  BY <2>1, <3>2, <3>3, <3>5, <3>6, <3>7 DEF AtomicStep, Committed, made
  <2> QED  BY <2>3, <2>4, <2>5
<1> QED  BY <1>1, <1>4, <1>5, WhereItStands

(* It goes on within its transaction, which commits nothing.                *)
LEMMA TransactionGoesOn ==
  ASSUME IInv, NEW w \in Threads, Solitary(w), NEW r, NEW p, StandsAt(w, r, p),
         r.op \in Transactions, p # 1, p # Len(Program(r)),
         NEW made \in SUBSET Nat,
         job' = [job EXCEPT ![w] = Left(job[w], Tail(job[w].todo), made)],
         undo' = undo, Could(undo, r, p - 1), db' = Part(undo, r, p - 1, made)
  PROVE  Solitary(w)' /\ AtomicStep(w)
<1> DEFINE P == Program(r)
<1>1. /\ r \in Requests /\ job[w].req = r /\ p \in 1..Len(P)
      /\ Tail(job[w].todo) = SubSeq(P, p + 1, Len(P))
      /\ P \in Seq(Statements)
      /\ About(r, job[w].made, p)
  BY DEF StandsAt
<1>2. undo # None
  BY <1>1 DEF About
<1>3. p \in Int /\ (p + 1) - 2 = p - 1 /\ p + 1 # 1
  <2>1. Len(P) \in Nat
    BY <1>1, LenProperties
  <2> HIDE DEF P
  <2> QED  BY <1>1, <2>1
<1>4. About(r, made, p + 1)'
  <2>1. Could(undo, r, (p + 1) - 2)' /\ db' = Part(undo, r, (p + 1) - 2, made)'
    <3>1. Could(undo', r, p - 1) /\ db' = Part(undo', r, p - 1, made)
      OBVIOUS
    <3> QED  BY <1>3, <3>1, NextTables
  <2> QED  BY <1>2, <1>3, <2>1 DEF About
<1>5. Solitary(w)'
  <2>1. job' = [job EXCEPT ![w] = Left(job[w], SubSeq(P, p + 1, Len(P)), made)]
    BY <1>1
  <2> QED  BY <1>1, <1>4, <2>1, IsAhead DEF P
<1> QED  BY <1>2, <1>5 DEF AtomicStep, Committed

(* A statement that succeeds.                                               *)
LEMMA StatementAlone ==
  ASSUME IInv, NEW w \in Threads, Solitary(w), Statement(w)
  PROVE  Solitary(w)' /\ AtomicStep(w)
<1> DEFINE todo == job[w].todo
           made == job[w].made
           s == Head(todo)
           more == IF Kind(s) = "insert" THEN made \union {nextAct} ELSE made
<1>1. /\ todo # <<>> /\ Kind(s) \notin Controls /\ ~Refused(s) /\ ~Fails(s)
      /\ undo' = undo /\ db' = Run(s)
      /\ job' = [job EXCEPT ![w] = Left(job[w], Tail(todo), more)]
  BY DEF Statement, Controls
<1>2. db \in Database
  BY DEF IInv, Fits
<1>3. todo # Rollback
  <2>1. Kind(Rollback[1]) \in Controls /\ Head(Rollback) = Rollback[1]
    BY DEF Rollback, Kind, Controls
  <2> QED  BY <1>1, <2>1
<1>4. ASSUME NEW r, NEW p, StandsAt(w, r, p)
      PROVE  Solitary(w)' /\ AtomicStep(w)
  <2> DEFINE P == Program(r)
             n == Len(Body(r))
  <2>1. /\ r \in Requests /\ job[w].req = r /\ made \in SUBSET Nat
        /\ P \in Seq(Statements)
        /\ p \in 1..Len(P) /\ s = P[p] /\ Tail(todo) = SubSeq(P, p + 1, Len(P))
        /\ p = Len(P) => Tail(todo) = <<>>
        /\ About(r, made, p)
    BY <1>4 DEF StandsAt
  <2>2. r # None
    BY <2>1, NotNone
  <2>3. more \in SUBSET Nat
    BY <2>1 DEF IInv
  <2> HIDE DEF todo, made, s, P, n, more
  <2>4. CASE r.op \in Transactions
    <3>1. /\ p # 1 /\ p # Len(P)
          /\ p - 2 \in Nat /\ p - 2 < n /\ s = Body(r)[(p - 2) + 1] /\ (p - 2) + 1 = p - 1
      <4>1. p # 1 /\ p # Len(P)
        BY <1>1, <2>1, <2>4, TransactionAt DEF Controls, P
      <4>2. p - 2 \in Nat /\ p - 2 < n /\ s = Body(r)[(p - 2) + 1]
        BY <2>1, <2>4, <4>1, TransactionAt DEF P, n
      <4>3. p \in Int
        BY <2>1, LenProperties
      <4> QED  BY <4>1, <4>2, <4>3
    <3>2. undo # None /\ Could(undo, r, p - 2) /\ db = Part(undo, r, p - 2, made)
      BY <2>1, <2>4, <3>1 DEF About
    <3>3. undo \in Database
      BY <3>2 DEF IInv, Fits
    <3>4. GoesOn(undo, r, p - 2, made, s)
      BY <2>1, <2>4, <3>1, <3>2, <3>3, BodyStep DEF n
    <3>5. Could(undo, r, p - 1) /\ Run(s) = Part(undo, r, p - 1, more)
      BY <1>1, <3>1, <3>4 DEF GoesOn, more
    <3>6. PICK m : m = more
      OBVIOUS
    <3>7. /\ job' = [job EXCEPT ![w] = Left(job[w], Tail(job[w].todo), m)]
          /\ Could(undo, r, p - 1) /\ db' = Part(undo, r, p - 1, m)
          /\ m \in SUBSET Nat
      BY <1>1, <2>3, <3>5, <3>6 DEF todo
    <3> QED  BY <1>1, <1>4, <2>4, <3>1, <3>7, TransactionGoesOn DEF P
  <2>5. CASE r.op \notin Transactions
    <3>1. undo = None
      BY <2>1, <2>5 DEF About
    <3>2. Kind(s) # "insert" /\ more = made
      BY <2>1, <2>5, PlainAt DEF P, more
    <3>3. p = Len(P) => Solitary(w)'
      <4>1. p = Len(P) => job' = [job EXCEPT ![w] = Idle]
        BY <1>1, <2>1 DEF Left
      <4> QED  BY <1>1, <3>1, <4>1, IsDone
    <3>4. CASE r.op \in WholeOps /\ Len(P) = 1 /\ P[1] = r /\ Kind(r) = r.op
      <4>1. p = Len(P) /\ s = r
        BY <2>1, <3>4
      <4>2. Run(s) = Effect(db, r, {})
        BY <3>4, <4>1 DEF Run, WholeOps
      <4>3. Effect(db, r, {}) = Effect(db, r, made)
        BY <2>5, <3>4 DEF Effect, WholeOps, Transactions
      <4> QED  BY <1>1, <2>1, <2>2, <3>1, <3>3, <4>1, <4>2, <4>3
               DEF AtomicStep, Committed, made
    <3>5. CASE /\ r.op = "apply" /\ Len(P) = 2
               /\ Kind(P[1]) = "mayApply" /\ P[1].act = r.act
               /\ Kind(P[2]) = "pend" /\ P[2].act = r.act /\ P[2].user = r.user
      <4>1. CASE p = 1
        <5>1. Kind(s) = "mayApply" /\ s.act = r.act
          BY <2>1, <3>5, <4>1
        <5>2. db' = db /\ MayApply(db, r.act)
          BY <1>1, <5>1 DEF Run, Refused
        <5>3. PICK m : m = made
          OBVIOUS
        <5>4. About(r, m, p + 1)'
          <6>1. MayApply(db, r.act)' <=> MayApply(db', r.act)
            BY DEF MayApply, MembersOf, IsMember
          <6>2. undo' = None /\ r.op # "leave"
            BY <1>1, <3>1, <3>5
          <6> QED  BY <2>5, <5>2, <6>1, <6>2 DEF About
        <5>5. Solitary(w)'
          <6>1. /\ job' = [job EXCEPT ![w] = Left(job[w], SubSeq(P, p + 1, Len(P)), m)]
                /\ m \in SUBSET Nat /\ p # Len(P)
            BY <1>1, <2>1, <3>2, <3>5, <4>1, <5>3
          <6> QED  BY <2>1, <5>4, <6>1, IsAhead DEF P
        <5> QED  BY <1>1, <5>2, <5>5 DEF AtomicStep, Committed
      <4>2. CASE p = 2
        <5>1. p = Len(P) /\ Kind(s) = "pend" /\ s.act = r.act /\ s.user = r.user
          BY <2>1, <3>5, <4>2
        <5>2. MayApply(db, r.act)
          BY <2>1, <2>5, <3>5, <4>2 DEF About
        <5>3. Run(s) = Effect(db, r, made)
          BY <3>5, <5>1, <5>2 DEF Run, Effect
        <5> QED  BY <1>1, <2>1, <2>2, <3>1, <3>3, <5>1, <5>3
                 DEF AtomicStep, Committed, made
      <4> QED  BY <2>1, <3>5, <4>1, <4>2
    <3>6. CASE /\ r.op = "leave" /\ Len(P) = 2
               /\ Kind(P[1]) = "mayLeave" /\ P[1].act = r.act
               /\ Kind(P[2]) = "quit" /\ P[2].act = r.act /\ P[2].user = r.user
      <4>1. CASE p = 1
        <5>1. Kind(s) = "mayLeave" /\ s.act = r.act
          BY <2>1, <3>6, <4>1
        <5>2. db' = db /\ MayLeave(db, r.act)
          BY <1>1, <5>1 DEF Run, Refused
        <5>3. PICK m : m = made
          OBVIOUS
        <5>4. About(r, m, p + 1)'
          <6>1. MayLeave(db, r.act)' <=> MayLeave(db', r.act)
            BY DEF MayLeave
          <6>2. undo' = None /\ r.op # "apply"
            BY <1>1, <3>1, <3>6
          <6> QED  BY <2>5, <5>2, <6>1, <6>2 DEF About
        <5>5. Solitary(w)'
          <6>1. /\ job' = [job EXCEPT ![w] = Left(job[w], SubSeq(P, p + 1, Len(P)), m)]
                /\ m \in SUBSET Nat /\ p # Len(P)
            BY <1>1, <2>1, <3>2, <3>6, <4>1, <5>3
          <6> QED  BY <2>1, <5>4, <6>1, IsAhead DEF P
        <5> QED  BY <1>1, <5>2, <5>5 DEF AtomicStep, Committed
      <4>2. CASE p = 2
        <5>1. p = Len(P) /\ Kind(s) = "quit" /\ s.act = r.act /\ s.user = r.user
          BY <2>1, <3>6, <4>2
        <5>2. MayLeave(db, r.act)
          BY <2>1, <2>5, <3>6, <4>2 DEF About
        <5>3. Run(s) = Effect(db, r, made)
          BY <3>6, <5>1, <5>2 DEF Run, Effect
        <5> QED  BY <1>1, <2>1, <2>2, <3>1, <3>3, <5>1, <5>3
                 DEF AtomicStep, Committed, made
      <4> QED  BY <2>1, <3>6, <4>1, <4>2
    <3> QED  BY <2>1, <2>5, <3>4, <3>5, <3>6, PlainAt DEF P
  <2> QED  BY <2>4, <2>5
<1> QED  BY <1>1, <1>3, <1>4, WhereItStands

(* A check that refuses, and a statement that fails.                        *)
LEMMA ErrorAlone ==
  ASSUME IInv, NEW w \in Threads, Solitary(w), Error(w)
  PROVE  Solitary(w)' /\ AtomicStep(w)
<1> DEFINE todo == job[w].todo
           made == job[w].made
           s == Head(todo)
<1>1. /\ todo # <<>> /\ db' = db /\ undo' = undo
      /\ \/ Refused(s) /\ job' = [job EXCEPT ![w] = Idle]
         \/ Fails(s) /\ job' = [job EXCEPT ![w] = Left(job[w], AfterError(todo), made)]
  BY DEF Error
<1>2. AtomicStep(w)
  BY <1>1 DEF AtomicStep, Committed
<1>3. todo # Rollback
  <2>1. Kind(Rollback[1]) = "ROLLBACK" /\ Head(Rollback) = Rollback[1]
    BY DEF Rollback, Kind
  <2>2. Kind(s) # "ROLLBACK"
    BY <1>1 DEF Refused, Fails
  <2> QED  BY <2>1, <2>2
<1>4. ASSUME NEW r, NEW p, StandsAt(w, r, p)
      PROVE  Solitary(w)'
  <2> DEFINE P == Program(r)
             n == Len(Body(r))
  <2>1. /\ r \in Requests /\ job[w].req = r /\ made \in SUBSET Nat
        /\ P \in Seq(Statements)
        /\ p \in 1..Len(P) /\ s = P[p] /\ Tail(todo) = SubSeq(P, p + 1, Len(P))
        /\ Last(todo) = P[Len(P)]
        /\ p = Len(P) => Tail(todo) = <<>>
        /\ About(r, made, p)
    BY <1>4 DEF StandsAt
  <2>2. AfterError(todo) = IF Kind(s) = "sync" THEN Tail(todo)
                           ELSE IF Last(todo) = Commit[1] THEN Rollback ELSE <<>>
    BY DEF AfterError
  <2> HIDE DEF todo, made, s, P, n
  <2>3. CASE r.op \in Transactions
    <3>1. Last(todo) = Commit[1] /\ Kind(s) \notin Checks
      BY <2>1, <2>3, TransactionAt DEF P, Checks
    <3>2. /\ Fails(s) /\ job' = [job EXCEPT ![w] = Left(job[w], AfterError(todo), made)]
      BY <1>1, <3>1 DEF Refused, Checks
    <3>3. /\ p # 1 /\ p # Len(P)
          /\ p - 2 \in Nat /\ p - 2 < n /\ s = Body(r)[(p - 2) + 1] /\ (p - 2) + 1 = p - 1
      <4>1. Kind(s) # "START" /\ Kind(s) # "COMMIT"
        BY <3>2 DEF Fails
      <4>2. p # 1 /\ p # Len(P)
        BY <2>1, <2>3, <4>1, TransactionAt DEF P
      <4>3. p - 2 \in Nat /\ p - 2 < n /\ s = Body(r)[(p - 2) + 1]
        BY <2>1, <2>3, <4>2, TransactionAt DEF P, n
      <4>4. p \in Int
        BY <2>1, LenProperties
      <4> QED  BY <4>2, <4>3, <4>4
    <3>4. undo # None /\ Could(undo, r, p - 2) /\ db = Part(undo, r, p - 2, made)
      BY <2>1, <2>3, <3>3 DEF About
    <3>5. CASE Kind(s) = "sync"
      <4>1. undo \in Database
        BY <3>4 DEF IInv, Fits
      <4>2. GoesOn(undo, r, p - 2, made, s)
        BY <2>1, <2>3, <3>3, <3>4, <4>1, BodyStep DEF n
      <4>3. Could(undo, r, p - 1) /\ db = Part(undo, r, p - 1, made)
        BY <3>2, <3>3, <3>5, <4>2 DEF GoesOn
      <4>4. PICK m : m = made
        OBVIOUS
      <4>5. /\ job' = [job EXCEPT ![w] = Left(job[w], Tail(job[w].todo), m)]
            /\ Could(undo, r, p - 1) /\ db' = Part(undo, r, p - 1, m)
            /\ m \in SUBSET Nat
        BY <1>1, <2>1, <2>2, <3>2, <3>5, <4>3, <4>4 DEF todo
      <4> QED  BY <1>1, <1>4, <2>3, <3>3, <4>5, TransactionGoesOn DEF P
    <3>6. CASE Kind(s) # "sync"
      <4>1. job' = [job EXCEPT ![w] = Left(job[w], Rollback, job[w].made)]
        BY <2>2, <3>1, <3>2, <3>6 DEF made
      <4> QED  BY <1>1, <2>1, <3>4, <4>1, IsGivingUp
    <3> QED  BY <3>5, <3>6
  <2>4. CASE r.op \notin Transactions
    <3>1. undo = None
      BY <2>1, <2>4 DEF About
    <3>2. Kind(s) \notin {"sync", "join", "sign", "insert"}
      BY <2>1, <2>4, PlainAt DEF P
    <3>3. Last(todo) # Commit[1]
      <4>1. Kind(Commit[1]) \in Controls
        BY DEF Commit, Kind, Controls
      <4>2. Len(P) \in 1..Len(P)
        <5>1. Len(P) \in Nat
          BY <2>1, LenProperties
        <5> QED  BY <2>1, <5>1
      <4>3. Kind(P[Len(P)]) \notin Controls
        BY <2>1, <2>4, <4>2, PlainAt DEF P
      <4> QED  BY <2>1, <4>1, <4>3
    <3>4. job' = [job EXCEPT ![w] = Idle]
      BY <1>1, <2>2, <3>2, <3>3 DEF Left
    <3> QED  BY <1>1, <3>1, <3>4, IsDone
  <2> QED  BY <2>3, <2>4
<1> QED  BY <1>1, <1>2, <1>3, <1>4, WhereItStands

-----------------------------------------------------------------------------
(* The thread that is alone, in every state.                                *)

(* Nothing happens.                                                         *)
LEMMA StutterAlone ==
  ASSUME NEW w \in Threads, Solitary(w), UNCHANGED vars
  PROVE  Solitary(w)'
<1>1. db' = db /\ undo' = undo /\ job' = job
  BY DEF vars
<1>2. ASSUME NEW r, NEW made, NEW p, About(r, made, p)
      PROVE  About(r, made, p)'
  <2>1. /\ Could(undo, r, p - 2)' <=> Could(undo, r, p - 2)
        /\ Part(undo, r, p - 2, made)' = Part(undo, r, p - 2, made)
    BY <1>1, NextTables
  <2>2. /\ MayApply(db, r.act)' <=> MayApply(db, r.act)
        /\ MayLeave(db, r.act)' <=> MayLeave(db, r.act)
    BY <1>1 DEF MayApply, MayLeave, MembersOf, IsMember
  <2> QED  BY <1>1, <1>2, <2>1, <2>2 DEF About
<1>3. ASSUME NEW p \in 1..Len(Program(job[w].req)), About(job[w].req, job[w].made, p)
      PROVE  About(job[w].req, job[w].made, p)'
  <2>1. PICK r, made : r = job[w].req /\ made = job[w].made
    OBVIOUS
  <2>2. About(r, made, p)'
    BY <1>2, <1>3, <2>1
  <2> QED  BY <1>1, <2>1, <2>2
<1> QED  BY <1>1, <1>3 DEF Solitary

(* Whatever step is taken, a thread that is alone stays so and its step is  *)
(* what AtomicRequests asks for.                                            *)
LEMMA StepAlone ==
  ASSUME IInv, Alone, [Next]_vars
  PROVE  Alone' /\ \A w \in Threads : workers = {w} => AtomicStep(w)
<1>1. workers' = workers
  BY DEF Next, vars, Control, Statement, Error, Receive, Crash
<1>2. ASSUME NEW w \in Threads, workers = {w}
      PROVE  Solitary(w)' /\ AtomicStep(w)
  <2>1. Solitary(w)
    BY <1>2 DEF Alone
  <2>2. ASSUME NEW t \in Threads, Control(t) \/ Statement(t) \/ Error(t)
        PROVE  t = w
    BY <2>1, <2>2, TheOne DEF Control, Statement, Error
  <2>3. CASE \E t \in Threads : Control(t) \/ Statement(t) \/ Error(t)
    BY <2>1, <2>2, <2>3, ControlAlone, StatementAlone, ErrorAlone
  <2>4. CASE \E t \in Threads, r \in Requests : Receive(t, r)
    <3>1. PICK t \in Threads, r \in Requests : Receive(t, r)
      BY <2>4
    <3>2. t = w
      BY <1>2, <3>1 DEF Receive
    <3> QED  BY <2>1, <3>1, <3>2, ReceiveAlone
  <2>5. CASE Crash
    BY <2>1, <2>5, CrashAlone
  <2>6. CASE UNCHANGED vars
    BY <2>1, <2>6, StutterAlone DEF vars, AtomicStep, Committed
  <2> QED  BY <2>3, <2>4, <2>5, <2>6 DEF Next
<1> QED  BY <1>1, <1>2 DEF Alone

(* At the start every thread is idle and no transaction is open.            *)
LEMMA InitAlone == Init => Alone
<1>1. Idle.todo = <<>>
  BY DEF Idle
<1> QED  BY <1>1 DEF Init, Alone, Solitary

(* With one IO thread every request is atomic: what is committed changes by *)
(* the whole effect of the request the thread is serving, in one step, and  *)
(* neither an error nor a crash between two statements leaves a part of it. *)
THEOREM RequestsAreAtomic == Spec => AtomicRequests
<1>1. IInv /\ Alone /\ [Next]_vars => Alone'
  BY StepAlone
<1>2. Spec => []Alone
  BY <1>1, InitAlone, Invariance, PTL DEF Spec
<1>3. IInv /\ Alone /\ [Next]_vars =>
        [Cardinality(workers) = 1 =>
           \E t \in workers : /\ job[t].req # None
                               /\ Committed' = Effect(Committed, job[t].req, job[t].made)]_Committed
  <2>1. SUFFICES ASSUME IInv, Alone, [Next]_vars,
                        Cardinality(workers) = 1, Committed' # Committed
                 PROVE  \E t \in workers :
                          /\ job[t].req # None
                          /\ Committed' = Effect(Committed, job[t].req, job[t].made)
    OBVIOUS
  <2>2. IsFiniteSet(workers)
    BY <2>1, BusinessAssumption, FS_Subset DEF Alone
  <2>3. PICK w : workers = {w}
    BY <2>1, <2>2, FS_Singleton
  <2>4. w \in Threads
    BY <2>1, <2>3 DEF Alone
  <2>5. AtomicStep(w)
    BY <2>1, <2>3, <2>4, StepAlone
  <2> QED  BY <2>1, <2>3, <2>5 DEF AtomicStep
<1> QED  BY <1>2, <1>3, Invariance, PTL DEF Spec, AtomicRequests
=============================================================================
