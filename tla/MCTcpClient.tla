----------------------------- MODULE MCTcpClient -----------------------------
(* TcpClient with two connections: the second call of connect() comes after *)
(* the first connection or, for a careless user, at any time.               *)
EXTENDS TcpClient

CONSTANTS c1, c2

MCConns == {c1, c2}
=============================================================================
