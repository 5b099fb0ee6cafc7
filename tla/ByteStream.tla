------------------------------ MODULE ByteStream ------------------------------
(***************************************************************************)
(* What sending over a connection promises: the messages it accepts, each   *)
(* whole or not at all, go out as one stream of bytes in the order in which *)
(* they were accepted.                                                      *)
(***************************************************************************)
EXTENDS Sequences, Naturals

CONSTANTS Messages, Bytes(_)

VARIABLES accepted,     \* every byte accepted so far
          delivered     \* how many of them have gone out

Init == accepted = <<>> /\ delivered = 0

Next == /\ \/ UNCHANGED accepted
           \/ \E m \in Messages : accepted' = accepted \o Bytes(m)
        /\ delivered' \in delivered..Len(accepted')

Spec == Init /\ [][Next]_<<accepted, delivered>>
=============================================================================
