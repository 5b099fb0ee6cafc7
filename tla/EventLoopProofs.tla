--------------------------- MODULE EventLoopProofs ---------------------------
(***************************************************************************)
(* EventLoop for every set of threads and functors: its type and phase      *)
(* invariant, the absence of lost wakeups, and that it implements TaskQueue.*)
(***************************************************************************)
EXTENDS EventLoop, SequenceTheorems, TLAPS

(* An element appended to a sequence is what its range gains.               *)
LEMMA RangeAppend ==
  ASSUME NEW S, NEW s \in Seq(S), NEW e \in S
  PROVE  Range(Append(s, e)) = Range(s) \union {e}
<1>1. /\ Len(Append(s, e)) = Len(s) + 1
      /\ \A i \in 1..Len(s) : Append(s, e)[i] = s[i]
      /\ Append(s, e)[Len(s) + 1] = e
  OBVIOUS
<1>2. DOMAIN s = 1..Len(s) /\ DOMAIN Append(s, e) = 1..Len(s) + 1 /\ Len(s) \in Nat
  BY <1>1, LenProperties, AppendProperties
<1>3. 1..Len(s) + 1 = 1..Len(s) \union {Len(s) + 1}
  BY <1>2
<1> QED  BY <1>1, <1>2, <1>3 DEF Range

(* The empty vector holds no functor.                                       *)
LEMMA RangeEmpty == Range(<<>>) = {}
  BY DEF Range

-----------------------------------------------------------------------------
(* Every step keeps the types, _callingPendingFunctors set exactly around   *)
(* the batch (doPendingFunctors 166-180) and no stale active channel.       *)
THEOREM TypeCorrect == Spec => []TypeOK
<1>1. Init => TypeOK
  BY EmptySeq DEF Init, TypeOK, LoopPoints, Channels
<1>2. TypeOK /\ [Next]_vars => TypeOK'
  <2> SUFFICES ASSUME TypeOK, [Next]_vars
               PROVE  TypeOK'
    OBVIOUS
  <2> USE DEF TypeOK, LoopPoints, Channels
  <2>1. CASE LoopStep
    <3>1. CASE StartLoop  BY <3>1 DEF StartLoop
    <3>2. CASE Test  BY <3>2 DEF Test
    <3>3. CASE PollReturn  BY <3>3 DEF PollReturn
    <3>4. CASE HandleWakeup  BY <3>4 DEF HandleWakeup
    <3>5. CASE BeginIo  BY <3>5 DEF BeginIo
    <3>6. CASE EndIo  BY <3>6 DEF EndIo
    <3>7. CASE BeginFunctors  BY <3>7 DEF BeginFunctors
    <3>8. CASE Swap  BY <3>8, EmptySeq DEF Swap
    <3>9. CASE BeginFunctor
      <4>1. Head(batch) \in Tasks /\ Tail(batch) \in Seq(Tasks)
        BY <3>9, HeadTailProperties DEF BeginFunctor
      <4>2. ran' \in Seq(Tasks)
        BY <3>9, <4>1, AppendProperties DEF BeginFunctor
      <4> QED  BY <3>9, <4>1, <4>2 DEF BeginFunctor
    <3>10. CASE EndFunctor  BY <3>10 DEF EndFunctor
    <3>11. CASE EndFunctors  BY <3>11 DEF EndFunctors
    <3> QED  BY <2>1, <3>1, <3>2, <3>3, <3>4, <3>5, <3>6, <3>7, <3>8, <3>9,
                <3>10, <3>11 DEF LoopStep
  <2>2. CASE PollIo  BY <2>2 DEF PollIo
  <2>3. CASE PollTimeout  BY <2>3 DEF PollTimeout
  <2>4. CASE OwnerQuit  BY <2>4 DEF OwnerQuit
  <2>5. ASSUME NEW t \in Tasks, OwnerQueueInLoop(t)
        PROVE  TypeOK'
    BY <2>5, AppendProperties DEF OwnerQueueInLoop
  <2>6. ASSUME NEW t \in Tasks, OwnerRunInLoop(t)
        PROVE  TypeOK'
    BY <2>6 DEF OwnerRunInLoop
  <2>7. ASSUME NEW p \in Threads, Quit(p)
        PROVE  TypeOK'
    BY <2>7 DEF Quit
  <2>8. ASSUME NEW p \in Threads, Wakeup(p)
        PROVE  TypeOK'
    BY <2>8 DEF Wakeup
  <2>9. ASSUME NEW p \in Threads, NEW t \in Tasks, QueueInLoop(p, t)
        PROVE  TypeOK'
    BY <2>9, AppendProperties DEF QueueInLoop
  <2>10. CASE UNCHANGED vars  BY <2>10 DEF vars
  <2> QED  BY <2>1, <2>2, <2>3, <2>4, <2>5, <2>6, <2>7, <2>8, <2>9, <2>10
           DEF Next, OwnerStep, ThreadStep
<1> QED  BY <1>1, <1>2, PTL DEF Spec

-----------------------------------------------------------------------------
(* The inductive form of NoLostWakeup. From the moment the batch is taken   *)
(* to the moment epoll_wait returns, a functor in the pool was either       *)
(* queued by a thread that has written or will write the eventfd, or by a   *)
(* functor, which writes it itself. While events are handled neither need   *)
(* hold: the eventfd has been read and the pool is about to be taken.       *)
Covered == pc \in {"idle", "test", "poll", "run", "functor"}

WakeInv == /\ Covered /\ Awaited # {} => Notified
           /\ pc = "poll" /\ quit => Notified

(* One step of the loop, of its owner or of a thread keeps WakeInv.         *)
LEMMA WakeStep == TypeOK /\ WakeInv /\ [Next]_vars => WakeInv'
<1> SUFFICES ASSUME TypeOK, WakeInv, [Next]_vars
             PROVE  WakeInv'
  OBVIOUS
<1> USE DEF WakeInv, Covered, Notified, Awaited
<1>1. CASE LoopStep
  <2>1. CASE StartLoop  BY <2>1 DEF StartLoop
  <2>2. CASE Test  BY <2>2 DEF Test
  <2>3. CASE PollReturn  BY <2>3 DEF PollReturn
  <2>4. CASE HandleWakeup  BY <2>4 DEF HandleWakeup
  <2>5. CASE BeginIo  BY <2>5 DEF BeginIo
  <2>6. CASE EndIo  BY <2>6 DEF EndIo
  <2>7. CASE BeginFunctors  BY <2>7 DEF BeginFunctors
  <2>8. CASE Swap  BY <2>8, RangeEmpty DEF Swap
  <2>9. CASE BeginFunctor  BY <2>9 DEF BeginFunctor
  <2>10. CASE EndFunctor  BY <2>10 DEF EndFunctor
  <2>11. CASE EndFunctors  BY <2>11 DEF EndFunctors
  <2> QED  BY <1>1, <2>1, <2>2, <2>3, <2>4, <2>5, <2>6, <2>7, <2>8, <2>9,
              <2>10, <2>11 DEF LoopStep
<1>2. CASE PollIo  BY <1>2 DEF PollIo
<1>3. CASE PollTimeout  BY <1>3 DEF PollTimeout
<1>4. CASE OwnerQuit  BY <1>4 DEF OwnerQuit, OwnerCode
<1>5. ASSUME NEW t \in Tasks, OwnerQueueInLoop(t)
      PROVE  WakeInv'
  <2>1. Range(pending') = Range(pending) \union {t}
    BY <1>5, RangeAppend DEF OwnerQueueInLoop, TypeOK
  <2>2. CASE pc = "idle"
    \* the new functor is early, so the awaited ones are those of before
    BY <1>5, <2>1, <2>2 DEF OwnerQueueInLoop
  <2>3. CASE pc = "functor"
    \* functors are being called, so the eventfd is written
    BY <1>5, <2>3 DEF OwnerQueueInLoop, TypeOK
  <2>4. CASE pc \in {"io", "exited"}
    BY <1>5, <2>4 DEF OwnerQueueInLoop
  <2> QED  BY <1>5, <2>2, <2>3, <2>4 DEF OwnerQueueInLoop, OwnerCode
<1>6. ASSUME NEW t \in Tasks, OwnerRunInLoop(t)
      PROVE  WakeInv'
  BY <1>6 DEF OwnerRunInLoop
<1>7. ASSUME NEW p \in Threads, Quit(p)
      PROVE  WakeInv'
  <2>1. tpc'[p] # "out"  BY <1>7 DEF Quit, TypeOK
  <2> QED  BY <2>1
<1>8. ASSUME NEW p \in Threads, Wakeup(p)
      PROVE  WakeInv'
  BY <1>8 DEF Wakeup
<1>9. ASSUME NEW p \in Threads, NEW t \in Tasks, QueueInLoop(p, t)
      PROVE  WakeInv'
  <2>1. tpc'[p] # "out"  BY <1>9 DEF QueueInLoop, TypeOK
  <2> QED  BY <2>1
<1>10. CASE UNCHANGED vars  BY <1>10 DEF vars
<1> QED  BY <1>1, <1>2, <1>3, <1>4, <1>5, <1>6, <1>7, <1>8, <1>9, <1>10
         DEF Next, OwnerStep, ThreadStep

(* The loop never sleeps in epoll_wait on a queued functor or on _quit      *)
(* without a wakeup written or about to be written (queueInLoop 113-123,    *)
(* quit 92-99), whatever the number of threads and functors.                *)
THEOREM WakeupIsNeverLost == Spec => []NoLostWakeup
<1>1. Init => WakeInv
  BY RangeEmpty DEF Init, WakeInv, Awaited
<1>2. WakeInv => NoLostWakeup
  BY DEF WakeInv, NoLostWakeup, Covered
<1> QED  BY <1>1, <1>2, TypeCorrect, WakeStep, PTL DEF Spec

-----------------------------------------------------------------------------
(* A push to the second part of a queue is a push to the whole.             *)
LEMMA JoinAppend ==
  ASSUME NEW S, NEW s \in Seq(S), NEW t \in Seq(S), NEW e \in S
  PROVE  s \o Append(t, e) = Append(s \o t, e)
OBVIOUS

(* The pushes, the swap and the runs of the functors, seen as one queue     *)
(* batch \o pending, are the pushes and runs of TaskQueue: each functor is  *)
(* run at most once and in the order of queueInLoop calls.                  *)
LEMMA QueueStep == TypeOK /\ [Next]_vars => [TQ!Next]_(TQ!vars)
<1> SUFFICES ASSUME TypeOK, [Next]_vars
             PROVE  [TQ!Next]_(TQ!vars)
  OBVIOUS
<1> DEFINE queue == batch \o pending
<1>0. Range(queue) = Range(batch) \union Range(pending)
  <2>1. /\ Len(queue) = Len(batch) + Len(pending)
        /\ \A i \in 1..Len(queue) : queue[i] = IF i <= Len(batch) THEN batch[i]
                                               ELSE pending[i - Len(batch)]
        /\ queue \in Seq(Tasks)
    BY ConcatProperties DEF TypeOK
  <2>2. /\ DOMAIN queue = 1..Len(queue)
        /\ DOMAIN batch = 1..Len(batch) /\ DOMAIN pending = 1..Len(pending)
        /\ Len(batch) \in Nat /\ Len(pending) \in Nat
    BY <2>1, LenProperties DEF TypeOK
  <2>3. \A j \in 1..Len(pending) :
           /\ Len(batch) + j \in 1..Len(queue)
           /\ queue[Len(batch) + j] = pending[j]
    BY <2>1, <2>2
  <2>4. \A i \in 1..Len(batch) : i \in 1..Len(queue) /\ queue[i] = batch[i]
    BY <2>1, <2>2
  <2>5. \A i \in 1..Len(queue) : \/ i \in 1..Len(batch)
                                 \/ i - Len(batch) \in 1..Len(pending)
    BY <2>1, <2>2
  <2>6. Range(batch) \union Range(pending) \subseteq Range(queue)
    <3> HIDE DEF queue
    <3>1. ASSUME NEW x \in Range(batch)  PROVE  x \in Range(queue)
      BY <2>2, <2>4, <3>1 DEF Range
    <3>2. ASSUME NEW x \in Range(pending)  PROVE  x \in Range(queue)
      BY <2>2, <2>3, <3>2 DEF Range
    <3> QED  BY <3>1, <3>2
  <2>7. ASSUME NEW x \in Range(queue)
        PROVE  x \in Range(batch) \union Range(pending)
    <3>1. PICK i \in 1..Len(queue) : queue[i] = x
      BY <2>2, <2>7 DEF Range
    <3>2. CASE i \in 1..Len(batch)
      BY <2>2, <2>4, <3>1, <3>2 DEF Range
    <3>3. CASE i - Len(batch) \in 1..Len(pending)
      <4>1. pending[i - Len(batch)] = x
        BY <2>1, <2>2, <3>1, <3>3
      <4> QED  BY <2>2, <3>3, <4>1 DEF Range
    <3> QED  BY <2>5, <3>2, <3>3
  <2> QED  BY <2>6, <2>7
<1>1. ASSUME NEW t \in Tasks, t \notin Used, pending' = Append(pending, t),
             UNCHANGED <<batch, ran>>
      PROVE  TQ!Next
  <2>1. batch \o Append(pending, t) = Append(queue, t)
    <3>1. batch \in Seq(Tasks) /\ pending \in Seq(Tasks)
      BY DEF TypeOK
    <3> QED  BY <3>1, JoinAppend
  <2> QED  BY <1>0, <1>1, <2>1 DEF TQ!Next, TQ!Post, Used, Range, TQ!Range
<1>2. ASSUME UNCHANGED <<pending, batch, ran>>
      PROVE  UNCHANGED TQ!vars
  BY <1>2 DEF TQ!vars
<1>3. CASE Swap
  <2>1. batch = <<>> /\ pending \o <<>> = <<>> \o pending
    BY <1>3, ConcatEmptySeq DEF Swap, TypeOK
  <2> QED  BY <1>3, <2>1 DEF Swap, TQ!vars
<1>4. CASE BeginFunctor
  <2>1. /\ queue # <<>>
        /\ Head(queue) = Head(batch)
        /\ Tail(queue) = Tail(batch) \o pending
    BY <1>4 DEF BeginFunctor, TypeOK
  <2> QED  BY <1>4, <2>1 DEF BeginFunctor, TQ!Next, TQ!Run
<1>5. CASE LoopStep /\ ~Swap /\ ~BeginFunctor
  BY <1>2, <1>5 DEF LoopStep, StartLoop, Test, PollReturn, HandleWakeup, BeginIo,
                    EndIo, BeginFunctors, EndFunctor, EndFunctors
<1>6. CASE PollIo \/ PollTimeout \/ OwnerQuit
  BY <1>2, <1>6 DEF PollIo, PollTimeout, OwnerQuit
<1>7. ASSUME NEW t \in Tasks, OwnerQueueInLoop(t) \/ OwnerRunInLoop(t)
      PROVE  [TQ!Next]_(TQ!vars)
  BY <1>1, <1>2, <1>7 DEF OwnerQueueInLoop, OwnerRunInLoop
<1>8. ASSUME NEW p \in Threads, ThreadStep(p)
      PROVE  [TQ!Next]_(TQ!vars)
  BY <1>1, <1>2, <1>8 DEF ThreadStep, Quit, Wakeup, QueueInLoop
<1>9. CASE UNCHANGED vars
  BY <1>2, <1>9 DEF vars
<1> QED  BY <1>3, <1>4, <1>5, <1>6, <1>7, <1>8, <1>9 DEF Next, OwnerStep

(* EventLoop implements TaskQueue.                                          *)
THEOREM FunctorsRunOnceInOrder == Spec => ImplementsTaskQueue
<1>1. Init => TQ!Init
  BY ConcatEmptySeq, EmptySeq DEF Init, TQ!Init
<1> QED  BY <1>1, TypeCorrect, QueueStep, PTL DEF Spec, ImplementsTaskQueue, TQ!Spec
=============================================================================
