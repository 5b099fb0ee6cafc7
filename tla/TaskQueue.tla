------------------------------ MODULE TaskQueue ------------------------------
(***************************************************************************)
(* What EventLoop::queueInLoop promises to its callers: a functor handed   *)
(* over by any thread is run by the loop thread at most once, and functors *)
(* are run in the order in which they were handed over.                    *)
(***************************************************************************)
EXTENDS Sequences, Functions

CONSTANT Tasks          \* the functors that may be handed over, each once

VARIABLES queue,        \* handed over, not started
          done          \* started, in order

vars == <<queue, done>>

TypeOK == queue \in Seq(Tasks) /\ done \in Seq(Tasks)

Init == queue = <<>> /\ done = <<>>

\* queueInLoop: any thread appends a functor that was never handed over.
Post(t) == /\ t \notin Range(queue) \union Range(done)
           /\ queue' = Append(queue, t)
           /\ UNCHANGED done

\* The loop thread starts the oldest functor.
Run == /\ queue # <<>>
       /\ done' = Append(done, Head(queue))
       /\ queue' = Tail(queue)

Next == Run \/ \E t \in Tasks : Post(t)

Spec == Init /\ [][Next]_vars
=============================================================================
