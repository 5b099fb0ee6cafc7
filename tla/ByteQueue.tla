------------------------------ MODULE ByteQueue ------------------------------
(***************************************************************************)
(* What a Buffer is to its users: a queue of bytes, filled at the back,     *)
(* emptied at the front, with now and then a header put before the front.   *)
(***************************************************************************)
EXTENDS Sequences, Naturals

CONSTANT Data           \* byte strings that are put in

VARIABLE queue

Init == queue = <<>>

Put == \E d \in Data : queue' = queue \o d
PutFront == \E d \in Data : queue' = d \o queue
Take == \E n \in 1..Len(queue) : queue' = SubSeq(queue, n + 1, Len(queue))

Next == Put \/ PutFront \/ Take

Spec == Init /\ [][Next]_queue
=============================================================================
