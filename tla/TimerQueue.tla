------------------------------ MODULE TimerQueue ------------------------------
(***************************************************************************)
(* TimerQueue: timers ordered by expiration, one timerfd armed for the      *)
(* earliest, additions and cancellations from any thread carried out by the *)
(* loop thread.                                                             *)
(*                                                                          *)
(* Time is relative: an expiration is the number of ticks (of 100 us, the   *)
(* least delay resetTimerfd arms) from now, and 0 once it is reached.  The  *)
(* functors that other threads queue reach the loop thread in order, which  *)
(* is what EventLoop provides, so its queue is a sequence here.             *)
(***************************************************************************)
EXTENDS Integers, Sequences, FiniteSets

CONSTANTS Users,        \* threads other than the loop's own
          Addrs,        \* heap addresses a Timer can be given
          MaxTimers,    \* bound: Timers ever created
          MaxDelay,     \* bound: largest delay of a timer, in ticks
          Interval,     \* the interval of the repeating timers, in ticks
          MaxQueue      \* bound: functors waiting in the loop

ASSUME BoundsAssumption ==
  /\ MaxTimers \in Nat /\ MaxDelay \in Nat /\ MaxQueue \in Nat
  /\ Interval \in Nat \ {0} /\ Interval <= MaxDelay

VARIABLES
  heap,         \* Timer objects: [Addrs -> contents]
  created,      \* Timer::_numCreated
  timers,       \* _timers: pairs <<expiration, address>>
  active,       \* _activeTimers
  cancelTimers, \* _cancelTimers
  batch,        \* the expireds of handleRead, empty outside it
  toRun,        \* those of batch whose callback has not been started
  pc,           \* "idle", "calling": in handleRead between callbacks, "callback"
  current,      \* the sequence number of the Timer whose callback runs, or 0
  armed,        \* the timerfd is armed, or has expired and was not read
  deadline,     \* ticks until the timerfd is readable
  queue,        \* functors other threads queued: additions and cancellations
  upc,          \* [Users -> the Timer addTimer made and has not returned yet]
  ids,          \* history: the TimerIds handed out, with the Timer they mean
  cancelled,    \* history: sequence numbers cancelTimerInLoop was called for
  missed        \* history: those that were alive but not found waiting

memory == <<heap, created>>
sets == <<timers, active, cancelTimers>>
firing == <<batch, toRun, pc, current>>
fd == <<armed, deadline>>
calls == <<queue, upc, ids>>
history == <<cancelled, missed>>
vars == <<memory, sets, firing, fd, calls, history>>

Ticks == 0..MaxDelay
Seqs == 1..MaxTimers
Timer == [live : BOOLEAN, seq : 0..MaxTimers, exp : Ticks, repeated : BOOLEAN]
Freed == [live |-> FALSE, seq |-> 0, exp |-> 0, repeated |-> FALSE]
TimerId == [addr : Addrs, seq : Seqs]
Returned == [addr |-> 0, seq |-> 0]
Functor == [op : {"add", "cancel"}, id : TimerId]

(* Types; the batch of handleRead does not outlive it.                      *)
TypeOK ==
  /\ heap \in [Addrs -> Timer] /\ created \in 0..MaxTimers
  /\ timers \subseteq Ticks \X Addrs /\ active \subseteq Addrs
  /\ cancelTimers \subseteq Addrs
  /\ batch \subseteq Addrs /\ toRun \subseteq batch
  /\ pc \in {"idle", "calling", "callback"} /\ current \in 0..MaxTimers
  /\ pc = "idle" => batch = {}
  /\ armed \in BOOLEAN /\ deadline \in Ticks
  /\ queue \in Seq(Functor)
  /\ upc \in [Users -> TimerId \union {Returned}]
  /\ ids \subseteq TimerId
  /\ cancelled \subseteq Seqs /\ missed \subseteq Seqs

Init ==
  /\ heap = [a \in Addrs |-> Freed] /\ created = 0
  /\ timers = {} /\ active = {} /\ cancelTimers = {}
  /\ batch = {} /\ toRun = {} /\ pc = "idle" /\ current = 0
  /\ armed = FALSE /\ deadline = 0
  /\ queue = <<>> /\ upc = [u \in Users |-> Returned] /\ ids = {}
  /\ cancelled = {} /\ missed = {}

-----------------------------------------------------------------------------
(* howMuchTimeFromNow: never less than one tick, for zero would disarm.     *)
AtLeastOne(d) == IF d < 1 THEN 1 ELSE d

Arm(d) == armed' = TRUE /\ deadline' = AtLeastOne(d)

\* new Timer: any free address, also one a deleted Timer had.
New(a, d, r) ==
  /\ created < MaxTimers /\ ~heap[a].live
  /\ created' = created + 1
  /\ heap' = [heap EXCEPT ![a] =
                [live |-> TRUE, seq |-> created + 1, exp |-> d, repeated |-> r]]

MutInsert(a, d) ==      \* arms only when the queue was empty
  /\ timers' = timers \union {<<d, a>>}
  /\ active' = active \union {a}
  /\ IF timers = {} THEN Arm(d) ELSE UNCHANGED fd

\* addTimerInLoop with insert: the timerfd is set again for a new earliest.
Insert(a, d) ==
  /\ timers' = timers \union {<<d, a>>}
  /\ active' = active \union {a}
  /\ IF \A e \in timers : d < e[1] THEN Arm(d) ELSE UNCHANGED fd

MutCancelInLoop(id) ==  \* erases the timer from _activeTimers alone
  /\ cancelled' = cancelled \union {id.seq}
  /\ active' = active \ {id.addr}
  /\ UNCHANGED <<timers, heap, cancelTimers, missed>>

\* cancelTimerInLoop goes by the address only.
CancelInLoop(id) ==
  /\ cancelled' = cancelled \union {id.seq}
  /\ IF id.addr \in active
     THEN /\ timers' = timers \ {<<heap[id.addr].exp, id.addr>>}
          /\ active' = active \ {id.addr}
          /\ heap' = [heap EXCEPT ![id.addr] = Freed]
          /\ UNCHANGED <<cancelTimers, missed>>
     ELSE /\ cancelTimers' = IF pc = "idle" THEN cancelTimers
                             ELSE cancelTimers \union {id.addr}
          /\ missed' = IF \E a \in Addrs : heap[a].live /\ heap[a].seq = id.seq
                       THEN missed \union {id.seq} ELSE missed
          /\ UNCHANGED <<timers, active, heap>>

-----------------------------------------------------------------------------
(* Other threads: addTimer hands the Timer over and only then reads its     *)
(* sequence number to build the TimerId it returns.                         *)

AddTimer(u, a, d, r) ==
  /\ upc[u] = Returned /\ Len(queue) < MaxQueue
  /\ New(a, d, r)
  /\ LET id == [addr |-> a, seq |-> created + 1] IN
       /\ queue' = Append(queue, [op |-> "add", id |-> id])
       /\ upc' = [upc EXCEPT ![u] = id]
  /\ UNCHANGED <<sets, firing, fd, ids, history>>

ReturnId(u) ==
  /\ upc[u] # Returned
  /\ ids' = ids \union {upc[u]}
  /\ upc' = [upc EXCEPT ![u] = Returned]
  /\ UNCHANGED <<memory, sets, firing, fd, queue, history>>

CancelTimer(u, id) ==
  /\ upc[u] = Returned /\ Len(queue) < MaxQueue
  /\ queue' = Append(queue, [op |-> "cancel", id |-> id])
  /\ UNCHANGED <<memory, sets, firing, fd, upc, ids, history>>

-----------------------------------------------------------------------------
(* The loop thread outside handleRead, or inside a timer callback, calls    *)
(* addTimer and cancelTimer directly.                                       *)

OwnerCode == pc \in {"idle", "callback"}

OwnerAddTimer(a, d, r) ==
  /\ OwnerCode
  /\ New(a, d, r) /\ Insert(a, d)
  /\ ids' = ids \union {[addr |-> a, seq |-> created + 1]}
  /\ UNCHANGED <<cancelTimers, firing, queue, upc, history>>

OwnerCancelTimer(id) ==
  /\ OwnerCode
  /\ CancelInLoop(id)
  /\ UNCHANGED <<created, firing, fd, calls>>

\* doPendingFunctors runs what the other threads queued.
RunAdd ==
  /\ pc = "idle" /\ queue # <<>> /\ Head(queue).op = "add"
  /\ LET a == Head(queue).id.addr IN Insert(a, heap[a].exp)
  /\ queue' = Tail(queue)
  /\ UNCHANGED <<memory, cancelTimers, firing, upc, ids, history>>

RunCancel ==
  /\ pc = "idle" /\ queue # <<>> /\ Head(queue).op = "cancel"
  /\ CancelInLoop(Head(queue).id)
  /\ queue' = Tail(queue)
  /\ UNCHANGED <<created, firing, fd, upc, ids>>

-----------------------------------------------------------------------------
(* handleRead: reads the timerfd, takes every expired timer out of both     *)
(* sets, runs the callbacks, then re-inserts the repeating ones.            *)

Expired == {e \in timers : e[1] = 0}

HandleRead ==
  /\ pc = "idle" /\ armed /\ deadline = 0
  /\ armed' = FALSE /\ UNCHANGED deadline
  /\ batch' = {e[2] : e \in Expired} /\ toRun' = batch'
  /\ timers' = timers \ Expired
  /\ active' = active \ batch'
  /\ cancelTimers' = {}
  /\ pc' = "calling" /\ UNCHANGED current
  /\ UNCHANGED <<memory, calls, history>>

RunTimer(a) ==
  /\ pc = "calling" /\ a \in toRun
  /\ toRun' = toRun \ {a}
  /\ pc' = "callback" /\ current' = heap[a].seq
  /\ UNCHANGED <<memory, sets, batch, fd, calls, history>>

EndCallback ==
  /\ pc = "callback"
  /\ pc' = "calling" /\ current' = 0
  /\ UNCHANGED <<memory, sets, batch, toRun, fd, calls, history>>

Repeating == {a \in batch : heap[a].repeated}

MutInsertThenRestart ==   \* re-inserts a repeating timer, then restarts it
  /\ pc = "calling" /\ toRun = {}
  /\ heap' = [a \in Addrs |->
       CASE a \in Repeating -> [heap[a] EXCEPT !.exp = Interval]
         [] a \in batch \ Repeating -> Freed
         [] OTHER -> heap[a]]
  /\ timers' = timers \union {<<heap[a].exp, a>> : a \in Repeating}
  /\ active' = active \union Repeating
  /\ IF timers' = {} THEN UNCHANGED fd
     ELSE \E e \in timers' : /\ \A f \in timers' : e[1] <= f[1]
                             /\ Arm(e[1])
  /\ batch' = {} /\ pc' = "idle"
  /\ UNCHANGED <<created, cancelTimers, toRun, current, calls, history>>

MutResetLeaks ==          \* does not delete the timers that ran
  /\ pc = "calling" /\ toRun = {}
  /\ heap' = [a \in Addrs |->
       CASE a \in Repeating -> [heap[a] EXCEPT !.exp = Interval]
         [] OTHER -> heap[a]]
  /\ timers' = timers \union {<<Interval, a>> : a \in Repeating}
  /\ active' = active \union Repeating
  /\ IF timers' = {} THEN UNCHANGED fd
     ELSE \E e \in timers' : /\ \A f \in timers' : e[1] <= f[1]
                             /\ Arm(e[1])
  /\ batch' = {} /\ pc' = "idle"
  /\ UNCHANGED <<created, cancelTimers, toRun, current, calls, history>>

MutResetDisarmed ==       \* leaves the timerfd alone
  /\ pc = "calling" /\ toRun = {}
  /\ heap' = [a \in Addrs |->
       CASE a \in Repeating -> [heap[a] EXCEPT !.exp = Interval]
         [] a \in batch \ Repeating -> Freed
         [] OTHER -> heap[a]]
  /\ timers' = timers \union {<<Interval, a>> : a \in Repeating}
  /\ active' = active \union Repeating
  /\ UNCHANGED fd
  /\ batch' = {} /\ pc' = "idle"
  /\ UNCHANGED <<created, cancelTimers, toRun, current, calls, history>>

MutResetKeepsBatch ==     \* the batch survives handleRead
  /\ pc = "calling" /\ toRun = {}
  /\ heap' = [a \in Addrs |->
       CASE a \in Repeating -> [heap[a] EXCEPT !.exp = Interval]
         [] a \in batch \ Repeating -> Freed
         [] OTHER -> heap[a]]
  /\ timers' = timers \union {<<Interval, a>> : a \in Repeating}
  /\ active' = active \union Repeating
  /\ IF timers' = {} THEN UNCHANGED fd
     ELSE \E e \in timers' : /\ \A f \in timers' : e[1] <= f[1]
                             /\ Arm(e[1])
  /\ pc' = "idle"
  /\ UNCHANGED <<created, batch, cancelTimers, toRun, current, calls, history>>

\* reset: _cancelTimers is not consulted.
Reset ==
  /\ pc = "calling" /\ toRun = {}
  /\ heap' = [a \in Addrs |->
       CASE a \in Repeating -> [heap[a] EXCEPT !.exp = Interval]
         [] a \in batch \ Repeating -> Freed
         [] OTHER -> heap[a]]
  /\ timers' = timers \union {<<Interval, a>> : a \in Repeating}
  /\ active' = active \union Repeating
  /\ IF timers' = {} THEN UNCHANGED fd
     ELSE \E e \in timers' : /\ \A f \in timers' : e[1] <= f[1]
                             /\ Arm(e[1])
  /\ batch' = {} /\ pc' = "idle"
  /\ UNCHANGED <<created, cancelTimers, toRun, current, calls, history>>

\* Time passes, for the clock and for the timerfd alike.
Less(d) == IF d = 0 THEN 0 ELSE d - 1

Tick ==
  /\ heap' = [a \in Addrs |-> [heap[a] EXCEPT !.exp = Less(@)]]
  /\ timers' = {<<Less(e[1]), e[2]>> : e \in timers}
  /\ deadline' = Less(deadline)
  /\ UNCHANGED <<created, active, cancelTimers, firing, armed, calls, history>>

-----------------------------------------------------------------------------
UserStep == \E u \in Users :
  \/ ReturnId(u)
  \/ \E id \in ids : CancelTimer(u, id)
  \/ \E a \in Addrs, d \in Ticks, r \in BOOLEAN : AddTimer(u, a, d, r)

OwnerStep == \/ \E id \in ids : OwnerCancelTimer(id)
             \/ \E a \in Addrs, d \in Ticks, r \in BOOLEAN : OwnerAddTimer(a, d, r)

FiringStep == HandleRead \/ Reset \/ EndCallback \/ \E a \in Addrs : RunTimer(a)

QueueStep == RunAdd \/ RunCancel

Next == UserStep \/ OwnerStep \/ QueueStep \/ FiringStep \/ Tick

Spec == Init /\ [][Next]_vars

(* Time goes on, a readable timerfd is handled and its callbacks return,    *)
(* and the loop runs its functors in every iteration (EventLoop).           *)
FairSpec == Spec /\ WF_vars(Tick) /\ WF_vars(FiringStep) /\ WF_vars(QueueStep)

-----------------------------------------------------------------------------
Alive(s) == \E a \in Addrs : heap[a].live /\ heap[a].seq = s
Waiting(s) == \E a \in active : heap[a].seq = s
AddsIn(q) == {i \in DOMAIN q : q[i].op = "add"}
AddrsIn(q) == {q[i].id.addr : i \in AddsIn(q)}

(* What the assertions on _timers.size() and _activeTimers.size() stand     *)
(* for: the two sets hold the same live Timers, each under the expiration   *)
(* it has now, so that cancelTimerInLoop finds the entry it erases.         *)
SetsAgree == /\ timers = {<<heap[a].exp, a>> : a \in active}
             /\ \A a \in active : heap[a].live

(* Every Timer object has exactly one owner: _activeTimers, the expired     *)
(* vector of handleRead or one queued addition. None is leaked, none is     *)
(* deleted twice, and no address is handed out while it is owned.           *)
HeapOwned ==
  /\ {a \in Addrs : heap[a].live} = active \union batch \union AddrsIn(queue)
  /\ active \intersect batch = {}
  /\ AddrsIn(queue) \intersect (active \union batch) = {}
  /\ \A i, j \in AddsIn(queue) : queue[i].id.addr = queue[j].id.addr => i = j

(* Outside handleRead the timerfd fires no later than the earliest timer,   *)
(* or one tick from now if that is already due, whichever timers have been  *)
(* added, cancelled or re-inserted in between (insert 121, reset 154).      *)
ArmedInTime ==
  pc = "idle" => \A e \in timers : armed /\ deadline <= AtLeastOne(e[1])

(* A timer that was waiting when cancelTimerInLoop was called for it is     *)
(* never run afterwards.                                                    *)
CancelOfWaitingIsFinal ==
  [][current' # current /\ current' \in cancelled => current' \in missed]_vars

(* A waiting timer is run, or goes away because it is cancelled: arming one *)
(* timerfd for the earliest of them loses none.                             *)
EveryTimerFires == \A s \in Seqs : Waiting(s) ~> (current = s \/ ~Alive(s))
=============================================================================
