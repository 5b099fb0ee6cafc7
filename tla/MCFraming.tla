------------------------------- MODULE MCFraming -------------------------------
(* Bytes of base two: lengths 0 to 15, of which 3 and more are over the     *)
(* limit. The rest of a body that is too long can be a packet of its own.   *)
EXTENDS Framing

MCBodies == {<<>>, <<1>>, <<0, 1>>, <<0, 1, 1>>, <<0, 0, 0, 1, 1>>}
=============================================================================
