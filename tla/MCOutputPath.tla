----------------------------- MODULE MCOutputPath -----------------------------
(* Three messages of one, two and three bytes, a socket with room for two.  *)
EXTENDS OutputPath

CONSTANTS p1, m1, m2, m3

MCThreads == {p1}
MCMessages == {m1, m2, m3}
MCSize == [m \in MCMessages |-> IF m = m1 THEN 1 ELSE IF m = m2 THEN 2 ELSE 3]
=============================================================================
