------------------------------ MODULE EventLoop ------------------------------
(***************************************************************************)
(* One EventLoop: the loop thread alternates between epoll_wait, the        *)
(* callbacks of ready channels and the queued functors; other threads hand  *)
(* functors over with queueInLoop and stop the loop with quit, and wake the *)
(* poller through an eventfd.                                               *)
(*                                                                          *)
(* A call made by another thread is two steps, because the loop thread can  *)
(* run between them: the functor is pushed (or _quit is set), then the      *)
(* eventfd is written.  The eventfd counter is only ever zero or nonzero    *)
(* to the poller, so it is a Boolean here.                                  *)
(***************************************************************************)
EXTENDS Sequences, Functions

CONSTANTS Threads,      \* the threads other than the loop's own
          Tasks         \* the functors, each handed over at most once

VARIABLES
  pc,         \* where the loop thread is, see LoopPoints
  quit,       \* _quit
  calling,    \* _callingPendingFunctors
  pending,    \* _pendingFunctors
  batch,      \* the local vector of doPendingFunctors, not yet run part
  ran,        \* history: the functors taken from batch, in order
  inline,     \* history: the functors runInLoop executed on the spot
  early,      \* history: functors the owner queued before it called loop()
  signalled,  \* the eventfd counter is nonzero
  active,     \* _activeChannels not yet handled
  tpc         \* [Threads -> where the thread is inside queueInLoop or quit]

vars == <<pc, quit, calling, pending, batch, ran, inline, early, signalled,
          active, tpc>>

(* "idle": loop() not called; "test": the while condition; "poll": in       *)
(* epoll_wait; "handle": between two channel callbacks; "io": inside the    *)
(* callback of an I/O channel; "swap": about to take _pendingFunctors;      *)
(* "run": between two functors; "functor": inside a functor; "exited".      *)
LoopPoints == {"idle", "test", "poll", "handle", "io", "swap", "run",
               "functor", "exited"}
Channels == {"wakeup", "io"}

(* Types, and what the program point says of the loop's own bookkeeping:    *)
(* _callingPendingFunctors is set exactly around the batch, the batch is    *)
(* empty outside it, and no stale entry of _activeChannels survives a poll. *)
TypeOK ==
  /\ pc \in LoopPoints
  /\ quit \in BOOLEAN /\ calling \in BOOLEAN /\ signalled \in BOOLEAN
  /\ pending \in Seq(Tasks) /\ batch \in Seq(Tasks) /\ ran \in Seq(Tasks)
  /\ inline \subseteq Tasks /\ early \subseteq Tasks
  /\ active \subseteq Channels
  /\ tpc \in [Threads -> {"out", "pushed", "quitSet"}]
  /\ calling <=> pc \in {"swap", "run", "functor"}
  /\ pc \notin {"run", "functor"} => batch = <<>>
  /\ pc \notin {"handle", "io"} => active = {}

Init ==
  /\ pc = "idle"
  /\ quit = FALSE /\ calling = FALSE /\ signalled = FALSE
  /\ pending = <<>> /\ batch = <<>> /\ ran = <<>>
  /\ inline = {} /\ early = {} /\ active = {}
  /\ tpc = [p \in Threads |-> "out"]

Used == Range(pending) \union Range(batch) \union Range(ran) \union inline

-----------------------------------------------------------------------------
(* Calls made by other threads. runInLoop from there is queueInLoop.        *)

QueueInLoop(p, t) ==
  /\ tpc[p] = "out" /\ t \notin Used
  /\ pending' = Append(pending, t)
  /\ tpc' = [tpc EXCEPT ![p] = "pushed"]
  /\ UNCHANGED <<pc, quit, calling, batch, ran, inline, early, signalled, active>>

MutQuit(p) ==          \* quit() that forgets the wakeup
  /\ tpc[p] = "out"
  /\ quit' = TRUE
  /\ UNCHANGED <<pc, calling, pending, batch, ran, inline, early, signalled, active, tpc>>

Quit(p) ==
  /\ tpc[p] = "out"
  /\ quit' = TRUE
  /\ tpc' = [tpc EXCEPT ![p] = "quitSet"]
  /\ UNCHANGED <<pc, calling, pending, batch, ran, inline, early, signalled, active>>

Wakeup(p) ==
  /\ tpc[p] # "out"
  /\ signalled' = TRUE
  /\ tpc' = [tpc EXCEPT ![p] = "out"]
  /\ UNCHANGED <<pc, quit, calling, pending, batch, ran, inline, early, active>>

-----------------------------------------------------------------------------
(* Calls the loop's own thread makes: before loop(), from an I/O callback,  *)
(* from a functor, or after loop() has returned.                            *)

OwnerCode == pc \in {"idle", "io", "functor", "exited"}

MutOwnerQueueInLoop(t) ==   \* no wakeup from a functor either
  /\ OwnerCode /\ t \notin Used
  /\ pending' = Append(pending, t)
  /\ early' = IF pc = "idle" THEN early \union {t} ELSE early
  /\ UNCHANGED <<pc, quit, calling, batch, ran, inline, signalled, active, tpc>>

\* queueInLoop writes the eventfd here only while functors are being called.
OwnerQueueInLoop(t) ==
  /\ OwnerCode /\ t \notin Used
  /\ pending' = Append(pending, t)
  /\ signalled' = (signalled \/ calling)
  /\ early' = IF pc = "idle" THEN early \union {t} ELSE early
  /\ UNCHANGED <<pc, quit, calling, batch, ran, inline, active, tpc>>

\* runInLoop in the loop thread executes the functor at once.
OwnerRunInLoop(t) ==
  /\ OwnerCode /\ t \notin Used
  /\ inline' = inline \union {t}
  /\ UNCHANGED <<pc, quit, calling, pending, batch, ran, early, signalled, active, tpc>>

OwnerQuit ==
  /\ OwnerCode
  /\ quit' = TRUE
  /\ UNCHANGED <<pc, calling, pending, batch, ran, inline, early, signalled, active, tpc>>

-----------------------------------------------------------------------------
(* loop() itself.                                                           *)

StartLoop ==
  /\ pc = "idle"
  /\ quit' = FALSE
  /\ pc' = "test"
  /\ UNCHANGED <<calling, pending, batch, ran, inline, early, signalled, active, tpc>>

Test ==
  /\ pc = "test"
  /\ pc' = IF quit THEN "exited" ELSE "poll"
  /\ UNCHANGED <<quit, calling, pending, batch, ran, inline, early, signalled, active, tpc>>

\* epoll_wait reports a nonzero eventfd together with whatever else is ready.
PollReturn ==
  /\ pc = "poll" /\ signalled
  /\ active' \in {{"wakeup"}, {"wakeup", "io"}}
  /\ pc' = "handle"
  /\ UNCHANGED <<quit, calling, pending, batch, ran, inline, early, signalled, tpc>>

PollIo ==
  /\ pc = "poll" /\ ~signalled
  /\ active' = {"io"}
  /\ pc' = "handle"
  /\ UNCHANGED <<quit, calling, pending, batch, ran, inline, early, signalled, tpc>>

\* 1000 ms without an event, or epoll_wait interrupted: nothing is active.
PollTimeout ==
  /\ pc = "poll" /\ ~signalled
  /\ active' = {}
  /\ pc' = "handle"
  /\ UNCHANGED <<quit, calling, pending, batch, ran, inline, early, signalled, tpc>>

HandleWakeup ==
  /\ pc = "handle" /\ "wakeup" \in active
  /\ signalled' = FALSE
  /\ active' = active \ {"wakeup"}
  /\ UNCHANGED <<pc, quit, calling, pending, batch, ran, inline, early, tpc>>

BeginIo ==
  /\ pc = "handle" /\ "io" \in active
  /\ active' = active \ {"io"}
  /\ pc' = "io"
  /\ UNCHANGED <<quit, calling, pending, batch, ran, inline, early, signalled, tpc>>

EndIo ==
  /\ pc = "io"
  /\ pc' = "handle"
  /\ UNCHANGED <<quit, calling, pending, batch, ran, inline, early, signalled, active, tpc>>

MutBeginFunctors ==         \* leaves at once when _quit is set
  /\ pc = "handle" /\ active = {}
  /\ calling' = ~quit
  /\ pc' = IF quit THEN "exited" ELSE "swap"
  /\ UNCHANGED <<quit, pending, batch, ran, inline, early, signalled, active, tpc>>

\* doPendingFunctors announces itself before it takes the lock.
BeginFunctors ==
  /\ pc = "handle" /\ active = {}
  /\ calling' = TRUE
  /\ pc' = "swap"
  /\ UNCHANGED <<quit, pending, batch, ran, inline, early, signalled, active, tpc>>

MutSwap ==                  \* copies _pendingFunctors instead of swapping
  /\ pc = "swap"
  /\ batch' = pending
  /\ pc' = "run"
  /\ UNCHANGED <<quit, calling, pending, ran, inline, early, signalled, active, tpc>>

Swap ==
  /\ pc = "swap"
  /\ batch' = pending
  /\ pending' = <<>>
  /\ pc' = "run"
  /\ UNCHANGED <<quit, calling, ran, inline, early, signalled, active, tpc>>

BeginFunctor ==
  /\ pc = "run" /\ batch # <<>>
  /\ ran' = Append(ran, Head(batch))
  /\ batch' = Tail(batch)
  /\ pc' = "functor"
  /\ UNCHANGED <<quit, calling, pending, inline, early, signalled, active, tpc>>

EndFunctor ==
  /\ pc = "functor"
  /\ pc' = "run"
  /\ UNCHANGED <<quit, calling, pending, batch, ran, inline, early, signalled, active, tpc>>

MutEndFunctors ==           \* keeps _callingPendingFunctors set
  /\ pc = "run" /\ batch = <<>>
  /\ pc' = "test"
  /\ UNCHANGED <<quit, calling, pending, batch, ran, inline, early, signalled, active, tpc>>

MutDrainLate ==             \* reads the eventfd after the batch, not before
  /\ pc = "run" /\ batch = <<>>
  /\ calling' = FALSE /\ signalled' = FALSE
  /\ pc' = "test"
  /\ UNCHANGED <<quit, pending, batch, ran, inline, early, active, tpc>>

EndFunctors ==
  /\ pc = "run" /\ batch = <<>>
  /\ calling' = FALSE
  /\ pc' = "test"
  /\ UNCHANGED <<quit, pending, batch, ran, inline, early, signalled, active, tpc>>

-----------------------------------------------------------------------------
OwnerStep == OwnerQuit \/ \E t \in Tasks : OwnerQueueInLoop(t) \/ OwnerRunInLoop(t)

ThreadStep(p) == Quit(p) \/ Wakeup(p) \/ \E t \in Tasks : QueueInLoop(p, t)

\* What the loop thread does by itself, its waiting for the timeout apart.
LoopStep == \/ StartLoop \/ Test \/ PollReturn \/ HandleWakeup \/ BeginIo \/ EndIo
            \/ BeginFunctors \/ Swap \/ BeginFunctor \/ EndFunctor \/ EndFunctors

Next == LoopStep \/ PollIo \/ PollTimeout \/ OwnerStep \/ \E p \in Threads : ThreadStep(p)

Spec == Init /\ [][Next]_vars

(* The scheduler runs a thread that can run: a call to queueInLoop or quit  *)
(* that has started finishes, and the loop thread goes on, a functor or     *)
(* callback returning after finitely many calls.  No fairness on PollIo or  *)
(* PollTimeout: the liveness properties hold without the one second timeout.*)
Fairness == WF_vars(LoopStep) /\ \A p \in Threads : WF_vars(Wakeup(p))

FairSpec == Spec /\ Fairness

-----------------------------------------------------------------------------
Notified == signalled \/ \E p \in Threads : tpc[p] # "out"

\* Functors for which queueInLoop had a reason to wake the poller.
Awaited == Range(pending) \ early

(* The loop never sleeps in epoll_wait on work: when it is there with a     *)
(* queued functor or with _quit set, the eventfd is readable or the thread  *)
(* that queued it is about to write it (queueInLoop 113-123, quit 92-99).   *)
(* Functors the owner queued before loop() wake nobody and are excepted.    *)
NoLostWakeup == pc = "poll" /\ (quit \/ Awaited # {}) => Notified

(* queueInLoop keeps the promise of TaskQueue: each functor at most once,   *)
(* in the order of the pushes, whatever thread pushed and even though the   *)
(* loop swaps the vector and other threads go on pushing.                   *)
TQ == INSTANCE TaskQueue WITH queue <- batch \o pending, done <- ran
ImplementsTaskQueue == TQ!Spec

(* A functor that is queued while the loop polls or handles events is run   *)
(* before loop() returns, even if quit() has been called before it was      *)
(* queued: what an exiting loop drops is only what came after its last swap.*)
DrainedBeforeExit ==
  \A t \in Tasks : (t \in Awaited /\ pc \in {"poll", "handle", "io", "swap"})
                      ~> (t \in Range(ran))

(* Every queued functor is run or the loop exits, without the help of the   *)
(* poll timeout.                                                            *)
QueuedRuns ==
  \A t \in Tasks : (t \in Awaited) ~> (t \in Range(ran) \/ pc = "exited")

(* quit() of a running loop makes loop() return, again without the timeout. *)
QuitStops == (quit /\ pc # "idle") ~> (pc = "exited")
=============================================================================
