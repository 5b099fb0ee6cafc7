---------------------------- MODULE ConnectionLife ----------------------------
(***************************************************************************)
(* What a TcpServer promises the user of its connections: _onConnection is  *)
(* called once when a connection is established and once when it is over,   *)
(* in that order, and the connection is destroyed only after the second.    *)
(***************************************************************************)
CONSTANT Conns

VARIABLE life           \* [Conns -> "new", "up", "down" or "gone"]

Init == life = [c \in Conns |-> "new"]

Step(c, from, to) == life[c] = from /\ life' = [life EXCEPT ![c] = to]

Up(c) == Step(c, "new", "up")
Down(c) == Step(c, "up", "down")
Gone(c) == Step(c, "down", "gone")

Next == \E c \in Conns : Up(c) \/ Down(c) \/ Gone(c)

Spec == Init /\ [][Next]_life
=============================================================================
