----------------------------- MODULE MCTcpServer -----------------------------
(* TcpServer with a base loop and no, one or two IO loops. Two connections  *)
(* and two descriptors, or one: the second connection may get the           *)
(* descriptor of the first, another one, or none.                           *)
EXTENDS TcpServer

CONSTANTS base, io1, io2, c1, c2, f1, f2, u1

MCConns == {c1, c2}
MCFds == {f1, f2}
MCUsers == {u1}

MCForceClose == {[pool |-> <<io1>>, files |-> {f1, f2}, usage |-> "force"]}
MCDeployments ==
  [pool : {<<>>, <<io1>>, <<io1, io2>>}, files : {{f1, f2}}, usage : {"quiet"}]
    \union [pool : {<<>>, <<io1>>}, files : {{f1}}, usage : {"quiet"}]
    \union [pool : {<<io1>>}, files : {{f1}}, usage : {"force"}]
    \union [pool : {<<io1>>}, files : {{f1, f2}}, usage : {"teardown"}]
=============================================================================
