---------------------------- MODULE MCTimerQueue ----------------------------
(* TimerQueue on a small instance: two heap addresses, so that a third Timer*)
(* must reuse one, and another thread that adds and cancels.                *)
EXTENDS TimerQueue

CONSTANTS u1, a1, a2

MCUsers == {u1}
MCAddrs == {a1, a2}
=============================================================================
