--------------------------- MODULE TimerQueueProofs ---------------------------
(***************************************************************************)
(* TimerQueue for every number of timers, addresses, delays and threads:    *)
(* the two sets agree, every Timer has one owner, the timerfd is armed in   *)
(* time, and a timer that waited when it was cancelled never runs.          *)
(***************************************************************************)
EXTENDS TimerQueue, SequenceTheorems, TLAPS

(* A tick brings every expiration one closer and keeps it in range.         *)
LEMMA LessTick == \A d \in Ticks : Less(d) \in Ticks /\ AtLeastOne(d) \in Ticks
  BY BoundsAssumption DEF Less, AtLeastOne, Ticks

(* Appending a functor adds its index, and its address if it is an addition.*)
LEMMA AddsAppend ==
  ASSUME NEW q \in Seq(Functor), NEW f \in Functor
  PROVE  /\ \A i \in 1..Len(q) : Append(q, f)[i] = q[i]
         /\ Append(q, f)[Len(q) + 1] = f
         /\ AddsIn(Append(q, f)) = AddsIn(q) \union
              (IF f.op = "add" THEN {Len(q) + 1} ELSE {})
         /\ AddrsIn(Append(q, f)) = AddrsIn(q) \union
              (IF f.op = "add" THEN {f.id.addr} ELSE {})
<1>1. /\ \A i \in 1..Len(q) : Append(q, f)[i] = q[i]
      /\ Append(q, f)[Len(q) + 1] = f
      /\ Len(Append(q, f)) = Len(q) + 1
  BY AppendProperties
<1>2. DOMAIN q = 1..Len(q) /\ DOMAIN Append(q, f) = 1..Len(q) \union {Len(q) + 1}
  <2>1. Len(q) \in Nat  BY LenProperties
  <2> QED  BY <1>1, <2>1, AppendProperties, LenProperties
<1>3. AddsIn(Append(q, f)) = AddsIn(q) \union
        (IF f.op = "add" THEN {Len(q) + 1} ELSE {})
  BY <1>1, <1>2 DEF AddsIn
<1>4. \A i \in AddsIn(q) : Append(q, f)[i] = q[i]
  BY <1>1, <1>2 DEF AddsIn
<1>5. AddrsIn(Append(q, f)) = AddrsIn(q) \union (IF f.op = "add" THEN {f.id.addr} ELSE {})
  <2> DEFINE a == Append(q, f)
             n == Len(q) + 1
  <2>1. /\ AddsIn(a) = AddsIn(q) \union (IF f.op = "add" THEN {n} ELSE {})
        /\ a[n] = f /\ \A i \in AddsIn(q) : a[i] = q[i]
    BY <1>1, <1>3, <1>4
  <2> HIDE DEF a, n
  <2>2. ASSUME NEW x \in AddrsIn(a)
        PROVE  x \in AddrsIn(q) \/ (f.op = "add" /\ x = f.id.addr)
    <3>1. PICK i \in AddsIn(a) : x = a[i].id.addr
      BY DEF AddrsIn
    <3>2. i \in AddsIn(q) \/ (f.op = "add" /\ i = n)
      BY <2>1
    <3> QED  BY <2>1, <3>1, <3>2 DEF AddrsIn
  <2>3. ASSUME NEW x \in AddrsIn(q)
        PROVE  x \in AddrsIn(a)
    <3>1. PICK i \in AddsIn(q) : x = q[i].id.addr
      BY DEF AddrsIn
    <3>2. i \in AddsIn(a) /\ x = a[i].id.addr
      BY <2>1, <3>1
    <3> QED  BY <3>2 DEF AddrsIn
  <2>4. f.op = "add" => f.id.addr \in AddrsIn(a)
    BY <2>1 DEF AddrsIn
  <2>5. AddrsIn(a) = AddrsIn(q) \union (IF f.op = "add" THEN {f.id.addr} ELSE {})
    BY <2>2, <2>3, <2>4
  <2> QED  BY <2>5 DEF a
<1> QED  BY <1>1, <1>3, <1>5

(* Taking the head functor shifts the indices of the others down by one.    *)
LEMMA AddsTail ==
  ASSUME NEW q \in Seq(Functor), q # <<>>
  PROVE  /\ Tail(q) \in Seq(Functor)
         /\ \A i \in AddsIn(Tail(q)) : i + 1 \in AddsIn(q) /\ Tail(q)[i] = q[i + 1]
         /\ \A i \in AddsIn(q) : i = 1 \/ i - 1 \in AddsIn(Tail(q))
<1>1. /\ Tail(q) \in Seq(Functor) /\ Len(Tail(q)) = Len(q) - 1
      /\ \A i \in 1..Len(Tail(q)) : Tail(q)[i] = q[i + 1]
      /\ Len(q) \in Nat
  BY HeadTailProperties, LenProperties
<1>2. DOMAIN q = 1..Len(q) /\ DOMAIN Tail(q) = 1..Len(q) - 1
  BY <1>1, LenProperties
<1>3. ASSUME NEW i \in AddsIn(Tail(q))
      PROVE  i + 1 \in AddsIn(q) /\ Tail(q)[i] = q[i + 1]
  BY <1>1, <1>2, <1>3 DEF AddsIn
<1>4. ASSUME NEW i \in AddsIn(q), i # 1
      PROVE  i - 1 \in AddsIn(Tail(q))
  <2>1. i \in Nat /\ i >= 2 /\ i <= Len(q) /\ q[i].op = "add"
    BY <1>1, <1>2, <1>4 DEF AddsIn
  <2>2. i - 1 \in 1..Len(Tail(q)) /\ Tail(q)[i - 1] = q[(i - 1) + 1] /\ (i - 1) + 1 = i
    BY <1>1, <2>1
  <2> QED  BY <1>1, <1>2, <2>1, <2>2 DEF AddsIn
<1> QED  BY <1>1, <1>3, <1>4

(* A functor is an addition or a cancellation with a TimerId.               *)
LEMMA HeadFunctor ==
  ASSUME NEW q \in Seq(Functor), q # <<>>
  PROVE  /\ Head(q) = q[1] /\ 1 \in DOMAIN q
         /\ Head(q).id \in TimerId
         /\ \A i \in DOMAIN q : q[i].id.addr \in Addrs
<1>1. Len(q) \in Nat /\ Len(q) # 0 /\ DOMAIN q = 1..Len(q)
  BY LenProperties, EmptySeq
<1>2. Head(q) = q[1] /\ 1 \in 1..Len(q)
  BY <1>1
<1>3. \A i \in 1..Len(q) : q[i] \in Functor
  BY ElementOfSeq
<1> QED  BY <1>1, <1>2, <1>3 DEF Functor, TimerId

-----------------------------------------------------------------------------
(* Every operation keeps the types, and no expired batch outlives           *)
(* handleRead (180-197).                                                    *)
LEMMA InsertType ==
  ASSUME TypeOK, NEW a \in Addrs, NEW d \in Ticks, Insert(a, d)
  PROVE  /\ timers' \subseteq Ticks \X Addrs /\ active' \subseteq Addrs
         /\ armed' \in BOOLEAN /\ deadline' \in Ticks
<1>1. AtLeastOne(d) \in Ticks
  BY LessTick
<1>2. armed' \in BOOLEAN /\ deadline' \in Ticks
  BY <1>1 DEF Insert, Arm, fd, TypeOK
<1> QED  BY <1>2 DEF Insert, TypeOK

LEMMA CancelType ==
  ASSUME TypeOK, NEW id \in TimerId, CancelInLoop(id)
  PROVE  /\ timers' \subseteq Ticks \X Addrs /\ active' \subseteq Addrs
         /\ cancelTimers' \subseteq Addrs
         /\ heap' \in [Addrs -> Timer]
         /\ cancelled' \subseteq Seqs /\ missed' \subseteq Seqs
<1>1. Freed \in Timer /\ id.addr \in Addrs /\ id.seq \in Seqs
  BY BoundsAssumption DEF Freed, Timer, Ticks, TimerId
<1> QED  BY <1>1 DEF CancelInLoop, TypeOK

LEMMA NewType ==
  ASSUME TypeOK, NEW a \in Addrs, NEW d \in Ticks, NEW r \in BOOLEAN, New(a, d, r)
  PROVE  /\ heap' \in [Addrs -> Timer] /\ created' \in 0..MaxTimers
         /\ [addr |-> a, seq |-> created + 1] \in TimerId
<1>1. created + 1 \in Seqs /\ created + 1 \in 0..MaxTimers
  BY BoundsAssumption DEF New, TypeOK, Seqs
<1>2. [live |-> TRUE, seq |-> created + 1, exp |-> d, repeated |-> r] \in Timer
  BY <1>1 DEF Timer
<1> QED  BY <1>1, <1>2 DEF New, TypeOK, TimerId

THEOREM TypeCorrect == Spec => []TypeOK
<1>1. Init => TypeOK
  <2> SUFFICES ASSUME Init
               PROVE  TypeOK
    OBVIOUS
  <2>1. 0 \in Ticks /\ 0 \in 0..MaxTimers /\ Freed \in Timer
    BY BoundsAssumption DEF Ticks, Freed, Timer
  <2>2. heap \in [Addrs -> Timer] /\ upc \in [Users -> TimerId \union {Returned}]
    BY <2>1 DEF Init
  <2> QED  BY <2>1, <2>2, EmptySeq DEF Init, TypeOK
<1>2. TypeOK /\ [Next]_vars => TypeOK'
  <2> SUFFICES ASSUME TypeOK, [Next]_vars
               PROVE  TypeOK'
    OBVIOUS
  <2> USE DEF memory, sets, firing, fd, calls, history
  <2>1. ASSUME NEW u \in Users, ReturnId(u)
        PROVE  TypeOK'
    BY <2>1 DEF ReturnId, TypeOK
  <2>2. ASSUME NEW u \in Users, NEW id \in ids, CancelTimer(u, id)
        PROVE  TypeOK'
    <3>1. [op |-> "cancel", id |-> id] \in Functor
      BY DEF Functor, TypeOK
    <3> QED  BY <2>2, <3>1, AppendProperties DEF CancelTimer, TypeOK
  <2>3. ASSUME NEW u \in Users, NEW a \in Addrs, NEW d \in Ticks, NEW r \in BOOLEAN,
               AddTimer(u, a, d, r)
        PROVE  TypeOK'
    <3> DEFINE id == [addr |-> a, seq |-> created + 1]
    <3>1. id \in TimerId /\ heap' \in [Addrs -> Timer] /\ created' \in 0..MaxTimers
      BY <2>3, NewType DEF AddTimer
    <3>2. [op |-> "add", id |-> id] \in Functor
      BY <3>1 DEF Functor
    <3>3. queue' \in Seq(Functor)
      BY <2>3, <3>2, AppendProperties DEF AddTimer, TypeOK
    <3>4. upc' \in [Users -> TimerId \union {Returned}]
      BY <2>3, <3>1 DEF AddTimer, TypeOK
    <3> QED  BY <2>3, <3>1, <3>3, <3>4 DEF AddTimer, TypeOK
  <2>4. ASSUME NEW id \in ids, OwnerCancelTimer(id)
        PROVE  TypeOK'
    <3>1. id \in TimerId  BY DEF TypeOK
    <3> QED  BY <2>4, <3>1, CancelType DEF OwnerCancelTimer, TypeOK
  <2>5. ASSUME NEW a \in Addrs, NEW d \in Ticks, NEW r \in BOOLEAN,
               OwnerAddTimer(a, d, r)
        PROVE  TypeOK'
    BY <2>5, NewType, InsertType DEF OwnerAddTimer, TypeOK
  <2>6. CASE RunAdd
    <3>1. Head(queue).id.addr \in Addrs /\ Tail(queue) \in Seq(Functor)
      BY <2>6, HeadFunctor, HeadTailProperties DEF RunAdd, TypeOK, TimerId
    <3>2. heap[Head(queue).id.addr].exp \in Ticks
      BY <3>1 DEF TypeOK, Timer
    <3> QED  BY <2>6, <3>1, <3>2, InsertType DEF RunAdd, TypeOK
  <2>7. CASE RunCancel
    <3>1. Head(queue).id \in TimerId /\ Tail(queue) \in Seq(Functor)
      BY <2>7, HeadFunctor, HeadTailProperties DEF RunCancel, TypeOK
    <3> QED  BY <2>7, <3>1, CancelType DEF RunCancel, TypeOK
  <2>8. CASE HandleRead
    BY <2>8 DEF HandleRead, Expired, TypeOK
  <2>9. CASE Reset
    <3>1. Interval \in Ticks /\ Freed \in Timer
      BY BoundsAssumption DEF Ticks, Freed, Timer
    <3>2. heap' \in [Addrs -> Timer]
      BY <2>9, <3>1 DEF Reset, Repeating, TypeOK, Timer
    <3>3. Repeating \subseteq Addrs /\ timers' \subseteq Ticks \X Addrs
      BY <2>9, <3>1 DEF Reset, Repeating, TypeOK
    <3>4. armed' \in BOOLEAN /\ deadline' \in Ticks
      BY <2>9, <3>3, LessTick DEF Reset, Arm, TypeOK
    <3> QED  BY <2>9, <3>2, <3>3, <3>4 DEF Reset, TypeOK
  <2>10. CASE EndCallback
    BY <2>10, BoundsAssumption DEF EndCallback, TypeOK
  <2>11. ASSUME NEW a \in Addrs, RunTimer(a)
         PROVE  TypeOK'
    BY <2>11 DEF RunTimer, TypeOK, Timer
  <2>12. CASE Tick
    <3>1. heap' \in [Addrs -> Timer]
      BY <2>12, LessTick DEF Tick, TypeOK, Timer
    <3>2. timers' \subseteq Ticks \X Addrs
      BY <2>12, LessTick DEF Tick, TypeOK
    <3> QED  BY <2>12, <3>1, <3>2, LessTick DEF Tick, TypeOK
  <2>13. CASE UNCHANGED vars
    BY <2>13 DEF vars, TypeOK
  <2> QED  BY <2>1, <2>2, <2>3, <2>4, <2>5, <2>6, <2>7, <2>8, <2>9, <2>10,
              <2>11, <2>12, <2>13
           DEF Next, UserStep, OwnerStep, QueueStep, FiringStep
<1> QED  BY <1>1, <1>2, PTL DEF Spec

-----------------------------------------------------------------------------
(* The induction. SetsAgree needs HeapOwned (a new Timer is not one that    *)
(* waits already), HeapOwned needs SetsAgree (what waits is live), and      *)
(* ArmedInTime stands on its own.                                           *)
Inv == TypeOK /\ SetsAgree /\ HeapOwned

(* insert of a live Timer that nobody else owns keeps the sets in step.     *)
LEMMA InsertAgrees ==
  ASSUME TypeOK, SetsAgree, NEW a \in Addrs, NEW d, Insert(a, d),
         a \notin active, heap'[a].live, heap'[a].exp = d,
         \A b \in Addrs : b # a => heap'[b] = heap[b]
  PROVE  SetsAgree'
<1>1. active' = active \union {a} /\ timers' = timers \union {<<d, a>>}
  BY DEF Insert
<1>2. \A b \in active : b # a /\ b \in Addrs /\ heap'[b] = heap[b]
  BY DEF TypeOK
<1>3. timers' = {<<heap'[b].exp, b>> : b \in active'}
  BY <1>1, <1>2 DEF SetsAgree
<1> QED  BY <1>1, <1>2, <1>3 DEF SetsAgree

(* cancelTimerInLoop keeps the sets in step and frees what it takes out.    *)
LEMMA CancelAgrees ==
  ASSUME Inv, NEW id \in TimerId, CancelInLoop(id), UNCHANGED batch,
         AddrsIn(queue') = AddrsIn(queue)
  PROVE  /\ SetsAgree'
         /\ {a \in Addrs : heap'[a].live} = active' \union batch' \union AddrsIn(queue')
         /\ active' \intersect batch' = {}
         /\ AddrsIn(queue') \intersect (active' \union batch') = {}
<1>1. CASE id.addr \in active
  <2>1. /\ timers' = timers \ {<<heap[id.addr].exp, id.addr>>}
        /\ active' = active \ {id.addr}
        /\ heap' = [heap EXCEPT ![id.addr] = Freed]
        /\ id.addr \in Addrs
    BY <1>1 DEF CancelInLoop, TimerId
  <2>2. /\ ~heap'[id.addr].live
        /\ \A b \in Addrs : b # id.addr => heap'[b] = heap[b]
    BY <2>1 DEF Freed, Inv, TypeOK
  <2>3. \A b \in active' : b \in Addrs /\ heap'[b] = heap[b] /\ heap'[b].live
    BY <2>1, <2>2 DEF Inv, TypeOK, SetsAgree
  <2>4. timers' = {<<heap'[b].exp, b>> : b \in active'}
    BY <2>1, <2>3 DEF Inv, SetsAgree
  <2>5. {a \in Addrs : heap'[a].live} = {a \in Addrs : heap[a].live} \ {id.addr}
    BY <2>2
  <2> QED  BY <1>1, <2>1, <2>3, <2>4, <2>5 DEF Inv, SetsAgree, HeapOwned
<1>2. CASE id.addr \notin active
  <2>1. UNCHANGED <<timers, active, heap>>
    BY <1>2 DEF CancelInLoop
  <2> QED  BY <2>1 DEF Inv, SetsAgree, HeapOwned
<1> QED  BY <1>1, <1>2

(* A Timer made at a free address owns it alone.                            *)
LEMMA NewOwned ==
  ASSUME Inv, NEW a \in Addrs, NEW d \in Ticks, NEW r \in BOOLEAN, New(a, d, r)
  PROVE  /\ a \notin active /\ a \notin batch /\ a \notin AddrsIn(queue)
         /\ heap'[a].live /\ heap'[a].exp = d
         /\ \A b \in Addrs : b # a => heap'[b] = heap[b]
         /\ {b \in Addrs : heap'[b].live} = {b \in Addrs : heap[b].live} \union {a}
<1>1. /\ ~heap[a].live
      /\ heap' = [heap EXCEPT ![a] = [live |-> TRUE, seq |-> created + 1,
                                      exp |-> d, repeated |-> r]]
  BY DEF New
<1>2. heap'[a].live /\ heap'[a].exp = d /\ \A b \in Addrs : b # a => heap'[b] = heap[b]
  BY <1>1 DEF Inv, TypeOK
<1> QED  BY <1>1, <1>2 DEF Inv, HeapOwned

LEMMA SetsAgreeStep == Inv /\ [Next]_vars => SetsAgree' /\ HeapOwned'
<1> SUFFICES ASSUME Inv, [Next]_vars
             PROVE  SetsAgree' /\ HeapOwned'
  OBVIOUS
<1> USE DEF memory, sets, firing, fd, calls, history
<1>0. TypeOK /\ SetsAgree /\ HeapOwned
  BY DEF Inv
<1>1. ASSUME UNCHANGED <<heap, timers, active, batch, queue>>
      PROVE  SetsAgree' /\ HeapOwned'
  BY <1>0, <1>1 DEF SetsAgree, HeapOwned
<1>2. ASSUME NEW u \in Users, NEW id \in ids, CancelTimer(u, id)
      PROVE  SetsAgree' /\ HeapOwned'
  <2> DEFINE f == [op |-> "cancel", id |-> id]
  <2>1. f \in Functor /\ f.op = "cancel" /\ queue \in Seq(Functor)
    BY <1>0 DEF TypeOK, Functor
  <2>2. queue' = Append(queue, f)
    BY <1>2 DEF CancelTimer
  <2> HIDE DEF f
  <2>3. f.op # "add"
    BY <2>1
  <2>4. AddsIn(queue') = AddsIn(queue) /\ AddrsIn(queue') = AddrsIn(queue)
    <3>1. /\ AddsIn(Append(queue, f)) = AddsIn(queue) \union {}
          /\ AddrsIn(Append(queue, f)) = AddrsIn(queue) \union {}
      BY <2>1, <2>3, AddsAppend
    <3> QED  BY <2>2, <3>1
  <2>5. \A i \in AddsIn(queue) : queue'[i] = queue[i]
    BY <2>1, <2>2, AddsAppend, LenProperties DEF AddsIn
  <2>6. \A i, j \in AddsIn(queue') : queue'[i].id.addr = queue'[j].id.addr => i = j
    BY <1>0, <2>4, <2>5 DEF HeapOwned
  <2>7. UNCHANGED <<heap, timers, active, batch>>
    BY <1>2 DEF CancelTimer
  <2> QED  BY <1>0, <2>4, <2>6, <2>7 DEF SetsAgree, HeapOwned
<1>3. ASSUME NEW u \in Users, NEW a \in Addrs, NEW d \in Ticks, NEW r \in BOOLEAN,
             AddTimer(u, a, d, r)
      PROVE  SetsAgree' /\ HeapOwned'
  <2> DEFINE f == [op |-> "add", id |-> [addr |-> a, seq |-> created + 1]]
  <2>1. f \in Functor /\ f.op = "add" /\ f.id.addr = a /\ queue \in Seq(Functor)
    BY <1>0, <1>3, NewType DEF AddTimer, TypeOK, Functor
  <2>2. queue' = Append(queue, f)
    BY <1>3 DEF AddTimer
  <2> HIDE DEF f
  <2>3. /\ AddsIn(queue') = AddsIn(queue) \union {Len(queue) + 1}
        /\ AddrsIn(queue') = AddrsIn(queue) \union {a}
        /\ queue'[Len(queue) + 1] = f
    BY <2>1, <2>2, AddsAppend
  <2>4. \A i \in AddsIn(queue) : queue'[i] = queue[i]
    BY <2>1, <2>2, AddsAppend, LenProperties DEF AddsIn
  <2>5. /\ a \notin active /\ a \notin batch /\ a \notin AddrsIn(queue)
        /\ \A b \in Addrs : b # a => heap'[b] = heap[b]
        /\ {b \in Addrs : heap'[b].live} = {b \in Addrs : heap[b].live} \union {a}
    BY <1>3, NewOwned DEF AddTimer
  <2>6. \A i, j \in AddsIn(queue') : queue'[i].id.addr = queue'[j].id.addr => i = j
    <3>1. \A i \in AddsIn(queue) : queue'[i].id.addr # a
      BY <2>4, <2>5 DEF AddrsIn
    <3> QED  BY <1>0, <2>1, <2>3, <2>4, <3>1 DEF HeapOwned
  <2>7. \A b \in active : heap'[b] = heap[b]
    BY <1>0, <2>5 DEF TypeOK
  <2>8. UNCHANGED <<timers, active, batch>>
    BY <1>3 DEF AddTimer
  <2>9. {<<heap'[b].exp, b>> : b \in active} = {<<heap[b].exp, b>> : b \in active}
    BY <2>7
  <2>10. SetsAgree'
    BY <1>0, <2>7, <2>8, <2>9 DEF SetsAgree
  <2>11. /\ {b \in Addrs : heap'[b].live} = active' \union batch' \union AddrsIn(queue')
         /\ active' \intersect batch' = {}
         /\ AddrsIn(queue') \intersect (active' \union batch') = {}
    BY <1>0, <2>3, <2>5, <2>8 DEF HeapOwned
  <2> QED  BY <2>6, <2>10, <2>11 DEF HeapOwned
<1>4. ASSUME NEW id \in ids, OwnerCancelTimer(id)
      PROVE  SetsAgree' /\ HeapOwned'
  <2>1. id \in TimerId  BY <1>0 DEF TypeOK
  <2> QED  BY <1>0, <1>4, <2>1, CancelAgrees DEF OwnerCancelTimer, HeapOwned
<1>5. ASSUME NEW a \in Addrs, NEW d \in Ticks, NEW r \in BOOLEAN, OwnerAddTimer(a, d, r)
      PROVE  SetsAgree' /\ HeapOwned'
  <2>1. /\ a \notin active /\ a \notin batch /\ a \notin AddrsIn(queue)
        /\ heap'[a].live /\ heap'[a].exp = d
        /\ \A b \in Addrs : b # a => heap'[b] = heap[b]
        /\ {b \in Addrs : heap'[b].live} = {b \in Addrs : heap[b].live} \union {a}
    BY <1>5, NewOwned DEF OwnerAddTimer
  <2>2. SetsAgree'
    BY <1>0, <1>5, <2>1, InsertAgrees DEF OwnerAddTimer
  <2>3. active' = active \union {a} /\ UNCHANGED <<batch, queue>>
    BY <1>5 DEF OwnerAddTimer, Insert
  <2> QED  BY <1>0, <2>1, <2>2, <2>3 DEF HeapOwned
<1>6. ASSUME queue # <<>>, queue' = Tail(queue)
      PROVE  /\ \A i, j \in AddsIn(queue') : queue'[i].id.addr = queue'[j].id.addr => i = j
             /\ AddrsIn(queue') = AddrsIn(queue) \ (IF Head(queue).op = "add"
                                                   THEN {Head(queue).id.addr} ELSE {})
  <2>1. queue \in Seq(Functor)
    BY <1>0 DEF TypeOK
  <2>2. /\ \A i \in AddsIn(queue') : i + 1 \in AddsIn(queue) /\ queue'[i] = queue[i + 1]
        /\ \A i \in AddsIn(queue) : i = 1 \/ i - 1 \in AddsIn(queue')
    BY <1>6, <2>1, AddsTail
  <2>3. Head(queue) = queue[1] /\ (1 \in AddsIn(queue) <=> Head(queue).op = "add")
    BY <1>6, <2>1, HeadFunctor DEF AddsIn
  <2>4. AddsIn(queue) \subseteq Nat /\ AddsIn(queue') \subseteq Nat \ {0}
    BY <1>6, <2>1, AddsTail, LenProperties DEF AddsIn
  <2>5. \A i, j \in AddsIn(queue') : queue'[i].id.addr = queue'[j].id.addr => i = j
    BY <1>0, <2>2, <2>4 DEF HeapOwned
  <2>6. \A i \in AddsIn(queue') : /\ queue'[i].id.addr \in AddrsIn(queue)
                                  /\ 1 \in AddsIn(queue) => queue'[i].id.addr # queue[1].id.addr
    BY <1>0, <2>2, <2>4 DEF HeapOwned, AddrsIn
  <2>7. \A i \in AddsIn(queue) : i # 1 => queue[i].id.addr \in AddrsIn(queue')
    <3> SUFFICES ASSUME NEW i \in AddsIn(queue), i # 1
                 PROVE  queue[i].id.addr \in AddrsIn(queue')
      OBVIOUS
    <3>1. i - 1 \in AddsIn(queue') /\ (i - 1) + 1 = i
      BY <2>2, <2>4
    <3>2. queue'[i - 1] = queue[i]
      BY <2>2, <3>1
    <3> QED  BY <3>1, <3>2 DEF AddrsIn
  <2> QED  BY <2>3, <2>5, <2>6, <2>7 DEF AddrsIn
<1>7. CASE RunAdd
  <2> DEFINE a == Head(queue).id.addr
  <2>1. queue # <<>> /\ queue \in Seq(Functor) /\ queue' = Tail(queue)
        /\ Head(queue).op = "add" /\ UNCHANGED <<heap, batch>>
        /\ Insert(a, heap[a].exp)
    BY <1>0, <1>7 DEF RunAdd, TypeOK
  <2>2. Head(queue) = queue[1] /\ 1 \in AddsIn(queue) /\ a \in Addrs
    BY <2>1, HeadFunctor DEF AddsIn, TimerId
  <2>3. a \in AddrsIn(queue) /\ AddrsIn(queue') = AddrsIn(queue) \ {a}
    BY <1>6, <2>1, <2>2 DEF AddrsIn
  <2>4. a \notin active /\ a \notin batch /\ heap[a].live
    BY <1>0, <2>2, <2>3 DEF HeapOwned
  <2>5. active' = active \union {a}
    BY <2>1 DEF Insert
  <2> HIDE DEF a
  <2>6. SetsAgree'
    BY <1>0, <2>1, <2>2, <2>4, InsertAgrees
  <2>7. \A i, j \in AddsIn(queue') : queue'[i].id.addr = queue'[j].id.addr => i = j
    BY <1>6, <2>1
  <2>8. /\ {b \in Addrs : heap'[b].live} = active' \union batch' \union AddrsIn(queue')
        /\ active' \intersect batch' = {}
        /\ AddrsIn(queue') \intersect (active' \union batch') = {}
    BY <1>0, <2>1, <2>3, <2>4, <2>5 DEF HeapOwned
  <2> QED  BY <2>6, <2>7, <2>8 DEF HeapOwned
<1>8. CASE RunCancel
  <2>1. /\ queue # <<>> /\ queue \in Seq(Functor) /\ queue' = Tail(queue)
        /\ Head(queue).op = "cancel" /\ UNCHANGED batch
        /\ CancelInLoop(Head(queue).id)
    BY <1>0, <1>8 DEF RunCancel, TypeOK
  <2>2. Head(queue).id \in TimerId
    BY <2>1, HeadFunctor
  <2>3. AddrsIn(queue') = AddrsIn(queue)
    BY <1>6, <2>1
  <2> QED  BY <1>6, <2>1, <2>2, <2>3, CancelAgrees DEF HeapOwned
<1>9. CASE HandleRead
  <2>1. batch = {} /\ UNCHANGED <<heap, queue>>
    BY <1>0, <1>9 DEF HandleRead, TypeOK
  <2>2. \A a \in active : <<heap[a].exp, a>> \in timers
    BY <1>0 DEF SetsAgree
  <2>3. batch' = {a \in active : heap[a].exp = 0}
    <3>1. batch' = {e[2] : e \in {e \in timers : e[1] = 0}}
      BY <1>9 DEF HandleRead, Expired
    <3>2. ASSUME NEW e \in timers
          PROVE  \E a \in active : e[1] = heap[a].exp /\ e[2] = a
      BY <1>0 DEF SetsAgree
    <3>3. ASSUME NEW a \in active, heap[a].exp = 0
          PROVE  \E e \in timers : e[1] = 0 /\ e[2] = a
      BY <2>2, <3>3
    <3> QED  BY <3>1, <3>2, <3>3
  <2>4. active' = active \ batch'
    BY <1>9 DEF HandleRead
  <2>5. timers' = {e \in timers : e[1] # 0}
    BY <1>9 DEF HandleRead, Expired
  <2>6. timers' = {<<heap[a].exp, a>> : a \in active'}
    BY <1>0, <2>3, <2>4, <2>5 DEF SetsAgree
  <2> QED  BY <1>0, <2>1, <2>3, <2>4, <2>6 DEF SetsAgree, HeapOwned
<1>10. CASE Reset
  <2>1. /\ timers' = timers \union {<<Interval, a>> : a \in Repeating}
        /\ active' = active \union Repeating
        /\ batch' = {} /\ queue' = queue
    BY <1>10 DEF Reset
  <2>2. batch \subseteq Addrs /\ Repeating \subseteq batch /\ active \subseteq Addrs
    BY <1>0 DEF Repeating, TypeOK
  <2>3. \A a \in Repeating : heap'[a].live /\ heap'[a].exp = Interval
    <3> SUFFICES ASSUME NEW a \in Repeating
                 PROVE  heap'[a].live /\ heap'[a].exp = Interval
      OBVIOUS
    <3>1. a \in Addrs /\ heap[a] \in Timer /\ heap[a].live
      BY <1>0, <2>2 DEF TypeOK, HeapOwned
    <3>2. heap'[a] = [heap[a] EXCEPT !.exp = Interval]
      BY <1>10, <3>1 DEF Reset
    <3> QED  BY <3>1, <3>2 DEF Timer
  <2>4. \A a \in batch : a \notin Repeating => ~heap'[a].live
    BY <1>10, <2>2 DEF Reset, Freed
  <2>5. \A a \in Addrs : a \notin batch => heap'[a] = heap[a]
    BY <1>10, <2>2 DEF Reset
  <2>6. \A a \in active : heap'[a] = heap[a]
    BY <1>0, <2>2, <2>5 DEF HeapOwned
  <2>7. timers' = {<<heap'[a].exp, a>> : a \in active'}
    BY <1>0, <2>1, <2>3, <2>6 DEF SetsAgree
  <2>8. \A a \in active' : heap'[a].live
    BY <1>0, <2>1, <2>3, <2>6 DEF SetsAgree
  <2>9. {a \in Addrs : heap'[a].live} = ({a \in Addrs : heap[a].live} \ batch) \union Repeating
    BY <2>2, <2>3, <2>4, <2>5
  <2> QED  BY <1>0, <2>1, <2>2, <2>7, <2>8, <2>9 DEF SetsAgree, HeapOwned
<1>11. CASE Tick
  <2>1. \A a \in Addrs : heap'[a].exp = Less(heap[a].exp) /\ heap'[a].live = heap[a].live
    BY <1>0, <1>11 DEF Tick, TypeOK, Timer
  <2>2. UNCHANGED <<active, batch, queue>>
    BY <1>11 DEF Tick
  <2>3. timers' = {<<Less(heap[a].exp), a>> : a \in active}
    <3>1. timers' = {<<Less(e[1]), e[2]>> : e \in timers}
      BY <1>11 DEF Tick
    <3>2. ASSUME NEW e \in timers
          PROVE  \E a \in active : <<Less(e[1]), e[2]>> = <<Less(heap[a].exp), a>>
      BY <1>0 DEF SetsAgree
    <3>3. ASSUME NEW a \in active
          PROVE  \E e \in timers : <<Less(e[1]), e[2]>> = <<Less(heap[a].exp), a>>
      <4>1. <<heap[a].exp, a>> \in timers
        BY <1>0 DEF SetsAgree
      <4> QED  BY <4>1
    <3> QED  BY <3>1, <3>2, <3>3
  <2>4. timers' = {<<heap'[a].exp, a>> : a \in active'}
    BY <1>0, <2>1, <2>2, <2>3 DEF TypeOK
  <2>5. {a \in Addrs : heap'[a].live} = {a \in Addrs : heap[a].live}
    BY <2>1
  <2> QED  BY <1>0, <2>1, <2>2, <2>4, <2>5 DEF SetsAgree, HeapOwned, TypeOK
<1>12. CASE (\E u \in Users : ReturnId(u)) \/ EndCallback \/ UNCHANGED vars
  BY <1>1, <1>12 DEF ReturnId, EndCallback, vars
<1>13. ASSUME NEW a \in Addrs, RunTimer(a)
       PROVE  SetsAgree' /\ HeapOwned'
  BY <1>1, <1>13 DEF RunTimer
<1> QED  BY <1>2, <1>3, <1>4, <1>5, <1>7, <1>8, <1>9, <1>10, <1>11, <1>12, <1>13
         DEF Next, UserStep, OwnerStep, QueueStep, FiringStep

LEMMA InvInductive == Spec => []Inv
<1>1. Init => SetsAgree /\ HeapOwned
  BY DEF Init, SetsAgree, HeapOwned, AddrsIn, AddsIn, Freed
<1> QED  BY <1>1, TypeCorrect, SetsAgreeStep, PTL DEF Spec, Inv

(* _timers and _activeTimers hold the same live Timers under their present  *)
(* expirations, which is what the assertions in timer.cpp check the sizes   *)
(* for.                                                                     *)
THEOREM TimerSetsAgree == Spec => []SetsAgree
  BY InvInductive, PTL DEF Inv

(* Every Timer has exactly one owner: no leak, no double deletion.          *)
THEOREM TimersOwnedOnce == Spec => []HeapOwned
  BY InvInductive, PTL DEF Inv

-----------------------------------------------------------------------------
(* Outside handleRead the timerfd is armed for the earliest timer or for an *)
(* earlier time (addTimerInLoop 93-101, insert 121-134, reset 154-178).     *)
THEOREM AlwaysArmedInTime == Spec => []ArmedInTime
<1>1. Init => ArmedInTime
  BY DEF Init, ArmedInTime
<1>2. TypeOK /\ ArmedInTime /\ [Next]_vars => ArmedInTime'
  <2> SUFFICES ASSUME TypeOK, ArmedInTime, [Next]_vars
               PROVE  ArmedInTime'
    OBVIOUS
  <2> USE DEF memory, sets, firing, fd, calls, history
  <2>0. deadline \in Nat /\ \A e \in timers : e[1] \in Nat
    BY BoundsAssumption DEF TypeOK, Ticks
  <2>1. ASSUME UNCHANGED <<timers, pc, armed, deadline>>
        PROVE  ArmedInTime'
    BY <2>1 DEF ArmedInTime
  <2>2. ASSUME NEW a \in Addrs, NEW d \in Ticks, Insert(a, d), UNCHANGED pc
        PROVE  ArmedInTime'
    <3>1. timers' = timers \union {<<d, a>>} /\ d \in Nat
      BY <2>2, BoundsAssumption DEF Insert, Ticks
    <3>2. CASE \A e \in timers : d < e[1]
      BY <2>0, <2>2, <3>1, <3>2 DEF Insert, Arm, ArmedInTime, AtLeastOne
    <3>3. CASE ~\A e \in timers : d < e[1]
      <4>1. PICK e \in timers : ~(d < e[1])
        BY <3>3
      <4>2. UNCHANGED <<armed, deadline>>
        BY <2>2, <3>3 DEF Insert
      <4>3. pc = "idle" => armed /\ deadline <= AtLeastOne(d)
        BY <2>0, <3>1, <4>1 DEF ArmedInTime, AtLeastOne
      <4> QED  BY <2>2, <3>1, <4>2, <4>3 DEF ArmedInTime
    <3> QED  BY <3>2, <3>3
  <2>3. ASSUME NEW id, CancelInLoop(id), UNCHANGED <<pc, armed, deadline>>
        PROVE  ArmedInTime'
    <3>1. timers' \subseteq timers
      BY <2>3 DEF CancelInLoop
    <3> QED  BY <2>3, <3>1 DEF ArmedInTime
  <2>4. CASE RunAdd
    <3>1. Head(queue).id.addr \in Addrs
      BY <2>4, HeadFunctor DEF RunAdd, TypeOK, TimerId
    <3>2. heap[Head(queue).id.addr].exp \in Ticks
      BY <3>1 DEF TypeOK, Timer
    <3> QED  BY <2>2, <2>4, <3>1, <3>2 DEF RunAdd
  <2>5. CASE RunCancel  BY <2>3, <2>5 DEF RunCancel
  <2>6. CASE HandleRead  BY <2>6 DEF HandleRead, ArmedInTime
  <2>7. CASE Reset
    <3>1. \A e \in timers' : e[1] \in Nat
      BY <2>0, <2>7, BoundsAssumption DEF Reset
    <3>2. CASE timers' = {}
      BY <3>2 DEF ArmedInTime
    <3>3. CASE timers' # {}
      <4>1. PICK e \in timers' : /\ \A f \in timers' : e[1] <= f[1]
                                 /\ Arm(e[1])
        BY <2>7, <3>3 DEF Reset
      <4> QED  BY <3>1, <4>1 DEF Arm, ArmedInTime, AtLeastOne
    <3> QED  BY <3>2, <3>3
  <2>8. CASE Tick
    <3>1. \A e \in timers' : \E f \in timers : e[1] = Less(f[1])
      BY <2>8 DEF Tick
    <3>2. deadline' = Less(deadline) /\ UNCHANGED <<pc, armed>>
      BY <2>8 DEF Tick
    <3>3. \A d \in Nat : deadline <= AtLeastOne(d) => Less(deadline) <= AtLeastOne(Less(d))
      BY <2>0 DEF Less, AtLeastOne
    <3> QED  BY <2>0, <3>1, <3>2, <3>3 DEF ArmedInTime
  <2>9. ASSUME NEW u \in Users
        PROVE  /\ ReturnId(u) => ArmedInTime'
               /\ \A id \in ids : CancelTimer(u, id) => ArmedInTime'
               /\ \A a \in Addrs, d \in Ticks, r \in BOOLEAN :
                     AddTimer(u, a, d, r) => ArmedInTime'
    BY <2>1 DEF ReturnId, CancelTimer, AddTimer
  <2>10. ASSUME NEW id \in ids, OwnerCancelTimer(id)
         PROVE  ArmedInTime'
    BY <2>3, <2>10 DEF OwnerCancelTimer
  <2>11. ASSUME NEW a \in Addrs, NEW d \in Ticks, NEW r \in BOOLEAN, OwnerAddTimer(a, d, r)
         PROVE  ArmedInTime'
    BY <2>2, <2>11 DEF OwnerAddTimer
  <2>12. ASSUME NEW a \in Addrs, RunTimer(a)
         PROVE  ArmedInTime'
    BY <2>12 DEF RunTimer, ArmedInTime
  <2>13. CASE EndCallback  BY <2>13 DEF EndCallback, ArmedInTime
  <2>14. CASE UNCHANGED vars  BY <2>1, <2>14 DEF vars
  <2> QED  BY <2>4, <2>5, <2>6, <2>7, <2>8, <2>9, <2>10, <2>11, <2>12, <2>13, <2>14
           DEF Next, UserStep, OwnerStep, QueueStep, FiringStep
<1> QED  BY <1>1, <1>2, TypeCorrect, PTL DEF Spec

-----------------------------------------------------------------------------
(* Cancellation. A TimerId holds an address that may since belong to another *)
(* Timer, so the argument is about sequence numbers: nobody alive has one    *)
(* above _numCreated, and whoever is alive with the number of a TimerId has  *)
(* its address. Then a cancellation either frees the Timer it was meant for, *)
(* or that one is gone, or it is recorded in missed.                         *)
Means(id, h, n) ==
  id.seq <= n /\ \A b \in Addrs : h[b].live /\ h[b].seq = id.seq => b = id.addr

IdsMean ==
  /\ \A b \in Addrs : heap[b].live => heap[b].seq <= created
  /\ \A id \in ids : Means(id, heap, created)
  /\ \A u \in Users : upc[u] # Returned => Means(upc[u], heap, created)
  /\ \A i \in DOMAIN queue : Means(queue[i].id, heap, created)

CancelledGone == \A s \in cancelled : s <= created /\ (Alive(s) => s \in missed)

(* What every step does to the heap: a live Timer was live before under the *)
(* same number, or it is the one just made.                                 *)
Onward ==
  /\ created' \in {created, created + 1}
  /\ \A b \in Addrs : heap'[b].live =>
       \/ heap[b].live /\ heap'[b].seq = heap[b].seq
       \/ created' = created + 1 /\ heap'[b].seq = created + 1

(* new Timer takes the next number, at one address only.                    *)
LEMMA NewOnward ==
  ASSUME TypeOK, NEW a \in Addrs, NEW d \in Ticks, NEW r \in BOOLEAN, New(a, d, r)
  PROVE  /\ Onward /\ created' = created + 1
         /\ \A b \in Addrs : b # a => heap'[b] = heap[b]
<1>1. heap' = [heap EXCEPT ![a] = [live |-> TRUE, seq |-> created + 1,
                                   exp |-> d, repeated |-> r]]
      /\ created' = created + 1 /\ heap \in [Addrs -> Timer]
  BY DEF New, TypeOK
<1>2. heap'[a].seq = created + 1 /\ \A b \in Addrs : b # a => heap'[b] = heap[b]
  BY <1>1
<1> QED  BY <1>1, <1>2 DEF Onward

(* A TimerId keeps its meaning, whatever is freed or made meanwhile.        *)
LEMMA MeansStays ==
  ASSUME TypeOK, TypeOK', Onward, NEW id, id.seq \in Seqs, Means(id, heap, created)
  PROVE  Means(id, heap', created')
<1>1. id.seq \in Nat /\ created \in Nat /\ created' \in Nat
  BY BoundsAssumption DEF TypeOK, Seqs
<1> QED  BY <1>1 DEF Means, Onward

(* A number cancelled earlier stays gone, for new ones are higher.          *)
LEMMA GoneStays ==
  ASSUME TypeOK, TypeOK', Onward, CancelledGone, missed \subseteq missed',
         NEW s \in cancelled
  PROVE  s <= created' /\ (Alive(s)' => s \in missed')
<1>1. s \in Nat /\ created \in Nat /\ created' \in Nat /\ s <= created
  BY BoundsAssumption DEF TypeOK, Seqs, CancelledGone
<1>2. s <= created'
  BY <1>1 DEF Onward
<1>3. ASSUME NEW b \in Addrs, heap'[b].live, heap'[b].seq = s
      PROVE  s \in missed'
  <2>1. heap[b].live /\ heap[b].seq = s
    BY <1>1, <1>3 DEF Onward
  <2> QED  BY <2>1 DEF CancelledGone, Alive
<1> QED  BY <1>2, <1>3 DEF Alive

(* cancelTimerInLoop for a TimerId that means what it should.               *)
LEMMA CancelGone ==
  ASSUME TypeOK, TypeOK', CancelledGone, NEW id \in TimerId,
         Means(id, heap, created), CancelInLoop(id), UNCHANGED created
  PROVE  Onward /\ CancelledGone'
<1>1. id.addr \in Addrs /\ id.seq \in Seqs /\ created \in Nat
  BY BoundsAssumption DEF TimerId, TypeOK
<1>2. missed \subseteq missed' /\ cancelled' = cancelled \union {id.seq}
  BY DEF CancelInLoop
<1>3. CASE id.addr \in active
  <2>1. heap' = [heap EXCEPT ![id.addr] = Freed] /\ heap \in [Addrs -> Timer]
    BY <1>3 DEF CancelInLoop, TypeOK
  <2>2. ~heap'[id.addr].live /\ \A b \in Addrs : b # id.addr => heap'[b] = heap[b]
    BY <1>1, <2>1 DEF Freed
  <2>3. Onward
    BY <2>2 DEF Onward
  <2>4. ~Alive(id.seq)'
    BY <2>2 DEF Alive, Means
  <2> QED  BY <1>2, <2>3, <2>4, GoneStays DEF CancelledGone, Means
<1>4. CASE id.addr \notin active
  <2>1. heap' = heap /\ (Alive(id.seq) => id.seq \in missed')
    BY <1>4 DEF CancelInLoop, Alive
  <2>2. Onward
    BY <2>1 DEF Onward
  <2>3. Alive(id.seq)' => id.seq \in missed'
    BY <2>1 DEF Alive
  <2> QED  BY <1>2, <2>2, <2>3, GoneStays DEF CancelledGone, Means
<1> QED  BY <1>3, <1>4

(* Every step moves on, and leaves the cancelled ones gone.                 *)
LEMMA GoneStep ==
  TypeOK /\ TypeOK' /\ IdsMean /\ CancelledGone /\ [Next]_vars
    => Onward /\ CancelledGone'
<1> SUFFICES ASSUME TypeOK, TypeOK', IdsMean, CancelledGone, [Next]_vars
             PROVE  Onward /\ CancelledGone'
  OBVIOUS
<1> USE DEF memory, sets, firing, fd, calls, history
<1>1. ASSUME Onward, UNCHANGED history
      PROVE  Onward /\ CancelledGone'
  BY <1>1, GoneStays DEF CancelledGone
<1>2. ASSUME UNCHANGED memory
      PROVE  Onward
  BY <1>2 DEF Onward
<1>3. ASSUME NEW u \in Users
      PROVE  /\ ReturnId(u) => Onward /\ CancelledGone'
             /\ \A id \in ids : CancelTimer(u, id) => Onward /\ CancelledGone'
  BY <1>1, <1>2 DEF ReturnId, CancelTimer
<1>4. ASSUME NEW u \in Users, NEW a \in Addrs, NEW d \in Ticks, NEW r \in BOOLEAN,
             AddTimer(u, a, d, r)
      PROVE  Onward /\ CancelledGone'
  BY <1>1, <1>4, NewOnward DEF AddTimer
<1>5. ASSUME NEW id \in ids, OwnerCancelTimer(id)
      PROVE  Onward /\ CancelledGone'
  <2>1. id \in TimerId /\ Means(id, heap, created)
    BY DEF TypeOK, IdsMean
  <2> QED  BY <1>5, <2>1, CancelGone DEF OwnerCancelTimer
<1>6. ASSUME NEW a \in Addrs, NEW d \in Ticks, NEW r \in BOOLEAN, OwnerAddTimer(a, d, r)
      PROVE  Onward /\ CancelledGone'
  BY <1>1, <1>6, NewOnward DEF OwnerAddTimer
<1>7. CASE RunAdd
  BY <1>1, <1>2, <1>7 DEF RunAdd
<1>8. CASE RunCancel
  <2>1. queue \in Seq(Functor) /\ queue # <<>> /\ CancelInLoop(Head(queue).id)
        /\ UNCHANGED created
    BY <1>8 DEF RunCancel, TypeOK
  <2>2. Head(queue).id \in TimerId /\ Means(Head(queue).id, heap, created)
    BY <2>1, HeadFunctor DEF IdsMean
  <2> QED  BY <2>1, <2>2, CancelGone
<1>9. CASE HandleRead
  BY <1>1, <1>2, <1>9 DEF HandleRead
<1>10. CASE Reset
  <2>1. \A b \in Addrs : heap'[b].live => heap[b].live /\ heap'[b].seq = heap[b].seq
    <3> SUFFICES ASSUME NEW b \in Addrs, heap'[b].live
                 PROVE  heap[b].live /\ heap'[b].seq = heap[b].seq
      OBVIOUS
    <3>1. heap[b] \in Timer
      BY DEF TypeOK
    <3>2. heap'[b] \in {[heap[b] EXCEPT !.exp = Interval], Freed, heap[b]}
      BY <1>10 DEF Reset
    <3> QED  BY <3>1, <3>2 DEF Timer, Freed
  <2>2. UNCHANGED <<created, history>>
    BY <1>10 DEF Reset
  <2> QED  BY <1>1, <2>1, <2>2 DEF Onward
<1>11. CASE EndCallback
  BY <1>1, <1>2, <1>11 DEF EndCallback
<1>12. ASSUME NEW a \in Addrs, RunTimer(a)
       PROVE  Onward /\ CancelledGone'
  BY <1>1, <1>2, <1>12 DEF RunTimer
<1>13. CASE Tick
  <2>1. \A b \in Addrs : heap'[b].live = heap[b].live /\ heap'[b].seq = heap[b].seq
    BY <1>13 DEF Tick, TypeOK, Timer
  <2>2. UNCHANGED <<created, history>>
    BY <1>13 DEF Tick
  <2> QED  BY <1>1, <2>1, <2>2 DEF Onward
<1>14. CASE UNCHANGED vars
  BY <1>1, <1>2, <1>14 DEF vars
<1> QED  BY <1>3, <1>4, <1>5, <1>6, <1>7, <1>8, <1>9, <1>10, <1>11, <1>12, <1>13, <1>14
         DEF Next, UserStep, OwnerStep, QueueStep, FiringStep

(* The TimerId of a new Timer means it, and all the others keep theirs.     *)
LEMMA NewMeans ==
  ASSUME TypeOK, TypeOK', IdsMean,
         NEW a \in Addrs, NEW d \in Ticks, NEW r \in BOOLEAN, New(a, d, r)
  PROVE  Means([addr |-> a, seq |-> created + 1], heap', created')
<1>1. created' = created + 1 /\ \A b \in Addrs : b # a => heap'[b] = heap[b]
  BY NewOnward
<1>2. \A b \in Addrs : heap[b].live => heap[b].seq <= created
  BY DEF IdsMean
<1>3. created \in Nat /\ \A b \in Addrs : heap[b].seq \in Nat
  BY BoundsAssumption DEF TypeOK, Timer
<1> QED  BY <1>1, <1>2, <1>3 DEF Means

LEMMA MeansStep ==
  TypeOK /\ TypeOK' /\ IdsMean /\ Onward /\ [Next]_vars => IdsMean'
<1> SUFFICES ASSUME TypeOK, TypeOK', IdsMean, Onward, [Next]_vars
             PROVE  IdsMean'
  OBVIOUS
<1> USE DEF memory, sets, firing, fd, calls, history
<1>1. \A b \in Addrs : heap'[b].live => heap'[b].seq <= created'
  <2>1. created \in Nat /\ \A b \in Addrs : heap[b].seq \in Nat
    BY BoundsAssumption DEF TypeOK, Timer
  <2> QED  BY <2>1 DEF IdsMean, Onward
<1>2. \A id \in ids : Means(id, heap', created')
  <2>1. \A id \in ids : id.seq \in Seqs /\ Means(id, heap, created)
    BY DEF TypeOK, TimerId, IdsMean
  <2> QED  BY <2>1, MeansStays
<1>3. \A u \in Users : upc[u] # Returned => Means(upc[u], heap', created')
  <2>1. \A u \in Users : upc[u] # Returned =>
          upc[u].seq \in Seqs /\ Means(upc[u], heap, created)
    BY DEF TypeOK, TimerId, IdsMean
  <2> QED  BY <2>1, MeansStays
<1>4. \A i \in DOMAIN queue : Means(queue[i].id, heap', created')
  <2>1. \A i \in DOMAIN queue : queue[i].id.seq \in Seqs
    <3>1. queue \in Seq(Functor) /\ DOMAIN queue = 1..Len(queue)
      BY LenProperties DEF TypeOK
    <3>2. \A i \in DOMAIN queue : queue[i] \in Functor
      BY <3>1, ElementOfSeq
    <3> QED  BY <3>2 DEF Functor, TimerId
  <2>2. \A i \in DOMAIN queue : Means(queue[i].id, heap, created)
    BY DEF IdsMean
  <2> QED  BY <2>1, <2>2, MeansStays
<1>5. ASSUME UNCHANGED calls
      PROVE  IdsMean'
  BY <1>1, <1>2, <1>3, <1>4, <1>5 DEF IdsMean
<1>6. ASSUME NEW f \in Functor, queue' = Append(queue, f), Means(f.id, heap', created')
      PROVE  \A i \in DOMAIN queue' : Means(queue'[i].id, heap', created')
  <2>1. queue \in Seq(Functor)
    BY DEF TypeOK
  <2>2. /\ DOMAIN queue = 1..Len(queue)
        /\ DOMAIN queue' = DOMAIN queue \union {Len(queue) + 1}
        /\ \A i \in 1..Len(queue) : queue'[i] = queue[i]
        /\ queue'[Len(queue) + 1] = f
    <3>1. /\ Len(queue) \in Nat /\ DOMAIN queue = 1..Len(queue)
          /\ queue' \in Seq(Functor) /\ Len(queue') = Len(queue) + 1
      BY <1>6, <2>1, LenProperties, AppendProperties
    <3>2. DOMAIN queue' = 1..Len(queue) + 1
      BY <3>1, LenProperties
    <3>3. DOMAIN queue' = DOMAIN queue \union {Len(queue) + 1}
      BY <3>1, <3>2
    <3> QED  BY <1>6, <2>1, <3>1, <3>3, AddsAppend
  <2> QED  BY <1>4, <1>6, <2>2
<1>7. ASSUME queue # <<>>, queue' = Tail(queue)
      PROVE  \A i \in DOMAIN queue' : Means(queue'[i].id, heap', created')
  <2>1. queue \in Seq(Functor)
    BY DEF TypeOK
  <2>2. /\ queue' \in Seq(Functor) /\ Len(queue') = Len(queue) - 1
        /\ \A i \in 1..Len(queue') : queue'[i] = queue[i + 1]
        /\ Len(queue) \in Nat
    BY <1>7, <2>1, HeadTailProperties, LenProperties
  <2>3. DOMAIN queue = 1..Len(queue) /\ DOMAIN queue' = 1..Len(queue')
    BY <2>1, <2>2, LenProperties
  <2>4. \A i \in DOMAIN queue' : i + 1 \in DOMAIN queue /\ queue'[i] = queue[i + 1]
    BY <2>2, <2>3
  <2> QED  BY <1>4, <2>4
<1>8. ASSUME NEW u \in Users, ReturnId(u)
      PROVE  IdsMean'
  <2>1. upc[u] # Returned /\ ids' = ids \union {upc[u]} /\ queue' = queue
    BY <1>8 DEF ReturnId
  <2>2. \A v \in Users : upc'[v] # Returned => upc'[v] = upc[v]
    BY <1>8 DEF ReturnId, TypeOK
  <2> QED  BY <1>1, <1>2, <1>3, <1>4, <2>1, <2>2 DEF IdsMean
<1>9. ASSUME NEW u \in Users, NEW id \in ids, CancelTimer(u, id)
      PROVE  IdsMean'
  <2> DEFINE f == [op |-> "cancel", id |-> id]
  <2>1. f \in Functor /\ f.id = id
    BY DEF Functor, TypeOK
  <2>2. queue' = Append(queue, f) /\ UNCHANGED <<upc, ids>>
    BY <1>9 DEF CancelTimer
  <2> HIDE DEF f
  <2>3. \A i \in DOMAIN queue' : Means(queue'[i].id, heap', created')
    BY <1>2, <1>6, <2>1, <2>2
  <2> QED  BY <1>1, <1>2, <1>3, <2>2, <2>3 DEF IdsMean
<1>10. ASSUME NEW u \in Users, NEW a \in Addrs, NEW d \in Ticks, NEW r \in BOOLEAN,
              AddTimer(u, a, d, r)
       PROVE  IdsMean'
  <2> DEFINE id == [addr |-> a, seq |-> created + 1]
             f == [op |-> "add", id |-> id]
  <2>1. id \in TimerId /\ Means(id, heap', created')
    BY <1>10, NewType, NewMeans DEF AddTimer
  <2>2. queue' = Append(queue, f) /\ upc' = [upc EXCEPT ![u] = id] /\ ids' = ids
    BY <1>10 DEF AddTimer
  <2> HIDE DEF id
  <2>3. f \in Functor /\ f.id = id
    BY <2>1 DEF Functor
  <2> HIDE DEF f
  <2>4. \A i \in DOMAIN queue' : Means(queue'[i].id, heap', created')
    BY <1>6, <2>1, <2>2, <2>3
  <2>5. \A v \in Users : upc'[v] = id \/ upc'[v] = upc[v]
    BY <2>2 DEF TypeOK
  <2>6. \A v \in Users : upc'[v] # Returned => Means(upc'[v], heap', created')
    BY <1>3, <2>1, <2>5
  <2> QED  BY <1>1, <1>2, <2>2, <2>4, <2>6 DEF IdsMean
<1>11. ASSUME NEW a \in Addrs, NEW d \in Ticks, NEW r \in BOOLEAN, OwnerAddTimer(a, d, r)
       PROVE  IdsMean'
  <2>1. Means([addr |-> a, seq |-> created + 1], heap', created')
    BY <1>11, NewMeans DEF OwnerAddTimer
  <2>2. /\ ids' = ids \union {[addr |-> a, seq |-> created + 1]}
        /\ UNCHANGED <<queue, upc>>
    BY <1>11 DEF OwnerAddTimer
  <2> QED  BY <1>1, <1>2, <1>3, <1>4, <2>1, <2>2 DEF IdsMean
<1>12. CASE RunAdd \/ RunCancel
  <2>1. queue # <<>> /\ queue' = Tail(queue) /\ UNCHANGED <<upc, ids>>
    BY <1>12 DEF RunAdd, RunCancel
  <2>2. \A i \in DOMAIN queue' : Means(queue'[i].id, heap', created')
    BY <1>7, <2>1
  <2> QED  BY <1>1, <1>2, <1>3, <2>1, <2>2 DEF IdsMean
<1>13. ASSUME NEW id \in ids, OwnerCancelTimer(id)
       PROVE  IdsMean'
  BY <1>5, <1>13 DEF OwnerCancelTimer
<1>14. ASSUME NEW a \in Addrs, RunTimer(a)
       PROVE  IdsMean'
  BY <1>5, <1>14 DEF RunTimer
<1>15. CASE HandleRead \/ Reset \/ EndCallback \/ Tick \/ UNCHANGED vars
  BY <1>5, <1>15 DEF HandleRead, Reset, EndCallback, Tick, vars
<1> QED  BY <1>8, <1>9, <1>10, <1>11, <1>12, <1>13, <1>14, <1>15
         DEF Next, UserStep, OwnerStep, QueueStep, FiringStep

(* A cancelled timer whose callback starts was not waiting when it was      *)
(* cancelled (cancelTimerInLoop 103-119): a new callback is that of a live  *)
(* Timer of the batch, and of the cancelled ones only missed are alive.     *)
THEOREM CancelIsFinal == Spec => CancelOfWaitingIsFinal
<1>1. Init => IdsMean /\ CancelledGone
  <2> SUFFICES ASSUME Init
               PROVE  IdsMean /\ CancelledGone
    OBVIOUS
  <2>1. \A b \in Addrs : ~heap[b].live
    BY DEF Init, Freed
  <2>2. DOMAIN queue = {} /\ ids = {} /\ cancelled = {}
        /\ \A u \in Users : upc[u] = Returned
    BY DEF Init
  <2> QED  BY <2>1, <2>2 DEF IdsMean, CancelledGone
<1>2. TypeOK /\ TypeOK' /\ IdsMean /\ CancelledGone /\ [Next]_vars
        => IdsMean' /\ CancelledGone'
  BY GoneStep, MeansStep
<1>3. TypeOK /\ HeapOwned /\ CancelledGone /\ [Next]_vars
        => [current' # current /\ current' \in cancelled => current' \in missed]_vars
  <2> SUFFICES ASSUME TypeOK, HeapOwned, CancelledGone, [Next]_vars,
                      current' # current, current' \in cancelled
               PROVE  current' \in missed
    OBVIOUS
  <2> USE DEF memory, sets, firing, fd, calls, history
  <2>1. ASSUME NEW a \in Addrs, RunTimer(a)
        PROVE  current' \in missed
    <3>1. heap[a].live /\ current' = heap[a].seq
      BY <2>1 DEF RunTimer, HeapOwned, TypeOK
    <3> QED  BY <3>1 DEF CancelledGone, Alive
  <2>2. CASE EndCallback
    BY <2>2, BoundsAssumption DEF EndCallback, TypeOK, Seqs
  <2>3. CASE UserStep
    BY <2>3 DEF UserStep, ReturnId, CancelTimer, AddTimer
  <2>4. CASE OwnerStep
    BY <2>4 DEF OwnerStep, OwnerCancelTimer, OwnerAddTimer
  <2>5. CASE QueueStep \/ HandleRead \/ Reset \/ Tick \/ UNCHANGED vars
    BY <2>5 DEF QueueStep, RunAdd, RunCancel, HandleRead, Reset, Tick, vars
  <2> QED  BY <2>1, <2>2, <2>3, <2>4, <2>5 DEF Next, FiringStep
<1> QED  BY <1>1, <1>2, <1>3, TypeCorrect, InvInductive, PTL
         DEF Spec, Inv, CancelOfWaitingIsFinal
=============================================================================
