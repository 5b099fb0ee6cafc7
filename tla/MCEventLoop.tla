----------------------------- MODULE MCEventLoop -----------------------------
(* EventLoop on a small instance: two other threads, three functors.        *)
EXTENDS EventLoop

CONSTANTS p1, p2, t1, t2, t3

MCThreads == {p1, p2}
MCTasks == {t1, t2, t3}
=============================================================================
