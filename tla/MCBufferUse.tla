------------------------------ MODULE MCBufferUse ------------------------------
(* A buffer of four bytes with a reserve of two; strings of up to three.    *)
EXTENDS BufferUse

MCByte == {0, 1, 2}
MCData == {<<1>>, <<2, 1>>, <<1, 2, 2>>}
=============================================================================
