---------------------------- MODULE TcpServerProofs ----------------------------
(***************************************************************************)
(* The connections of a TcpServer, for any connections, descriptors, users  *)
(* and deployments.                                                         *)
(***************************************************************************)
EXTENDS TcpServer, SequenceTheorems, FiniteSetTheorems, TLAPS

-----------------------------------------------------------------------------
(* Types.                                                                   *)

SocketOK == /\ state \in [Conns -> States \union {None}]
            /\ loop \in [Conns -> Loops] /\ fd \in [Conns -> Fds \union {None}]
            /\ chan \in [Conns -> Channel]
            /\ channels \in [Loops -> [Fds -> Conns \union {None}]]
KernelOK == /\ peer \in [Conns -> {"absent", "waiting", "gone", "refused",
                                 "open", "eof", "reset", "hup"}]
            /\ data \subseteq Conns
ServerOK == /\ connections \subseteq Conns /\ deployment \in Deployments
            /\ next \in {1} \union DOMAIN deployment.pool
PendingOK == pending \in [Loops -> Seq(Functor)]
LoopsOK == /\ phase \in [Loops -> {"poll", "handle", "functors", "exited"}]
           /\ active \in [Loops -> SUBSET (Conns \union {Acceptor})]
           /\ batch \in [Loops -> Seq(Functor)]
           /\ \A l \in Loops : phase[l] # "handle" => active[l] = {}
           /\ \A l \in Loops : phase[l] # "functors" => batch[l] = <<>>
HeldOK == held \subseteq Conns
UpcOK == upc \in [Users -> Conns \union {None, "done"}]
CallsOK == ups \in [Conns -> Nat] /\ downs \in [Conns -> Nat]

\* What a function of TcpConnection or TcpServer may change.
ObjectsOK == SocketOK /\ ServerOK /\ PendingOK /\ HeldOK /\ CallsOK

Types == ObjectsOK /\ KernelOK /\ LoopsOK /\ UpcOK

(* The parts are TypeOK.                                                    *)
LEMMA TypesAreTypeOK == Types <=> TypeOK
BY DEF Types, TypeOK, ObjectsOK, SocketOK, KernelOK, ServerOK, PendingOK, LoopsOK, HeldOK,
       UpcOK, CallsOK

(* The base loop is one of the loops and in no pool; a loop of the pool is  *)
(* chosen and the index stays within it.                                    *)
LEMMA PoolProperties ==
  ASSUME ServerOK
  PROVE  /\ Base \in Loops /\ NextLoop \in Loops
         /\ Advance => next' \in {1} \union DOMAIN deployment.pool
<1>1. Base \in Loops
  BY DEF Loops
<1>2. CASE deployment.pool = <<>>
  BY <1>1, <1>2 DEF NextLoop, Advance, ServerOK
<1>3. CASE deployment.pool # <<>>
  <2> DEFINE p == deployment.pool
  <2>1. p \in Seq(Range(p)) /\ deployment \in Deployments
    BY ServerAssumption DEF ServerOK
  <2>2. Len(p) \in Nat \ {0} /\ DOMAIN p = 1..Len(p)
    BY <1>3, <2>1, EmptySeq, LenProperties
  <2>3. next \in 1..Len(p) /\ p[next] \in Range(p)
    BY <2>2 DEF ServerOK, Range
  <2>4. NextLoop \in Loops
    BY <1>3, <2>1, <2>3 DEF NextLoop, Loops
  <2>5. (next % Len(p)) + 1 \in 1..Len(p)
    <3>1. \A n \in Nat, k \in Nat \ {0} : (n % k) + 1 \in 1..k
      OBVIOUS
    <3>2. next \in Nat /\ Len(p) \in Nat \ {0}
      BY <2>2, <2>3
    <3> HIDE DEF p
    <3> QED  BY <3>1, <3>2
  <2> QED  BY <1>1, <1>3, <2>2, <2>4, <2>5 DEF Advance
<1> QED  BY <1>2, <1>3

(* Queueing a functor.                                                      *)
LEMMA PushType ==
  ASSUME PendingOK, NEW l \in Loops, NEW c \in Conns,
         NEW fn \in {"established", "forceClose", "remove", "destroyed"}
  PROVE  /\ Push(pending, l, fn, c) \in [Loops -> Seq(Functor)]
         /\ \A m \in Loops : Push(pending, l, fn, c)[m] =
              IF m = l THEN Append(pending[m], [fn |-> fn, conn |-> c]) ELSE pending[m]
<1>1. [fn |-> fn, conn |-> c] \in Functor
  BY DEF Functor
<1>2. Append(pending[l], [fn |-> fn, conn |-> c]) \in Seq(Functor)
  BY <1>1, AppendProperties DEF PendingOK
<1> QED  BY <1>2 DEF Push, PendingOK

(* A channel updated in its poller.                                         *)
LEMMA UpdateType ==
  ASSUME SocketOK, NEW c \in Conns, NEW ev \in {"none", "read"}, Update(c, ev)
  PROVE  /\ chan' \in [Conns -> Channel]
         /\ channels' \in [Loops -> [Fds -> Conns \union {None}]]
BY DEF SocketOK, Update, Channel

(* A channel removed from it.                                               *)
LEMMA RemoveType ==
  ASSUME SocketOK, NEW c \in Conns, NEW ev \in {"none", "read"}, Remove(c, ev)
  PROVE  /\ chan' \in [Conns -> Channel]
         /\ channels' \in [Loops -> [Fds -> Conns \union {None}]]
BY DEF SocketOK, Remove, Channel

(* The functions of TcpConnection and TcpServer, whatever they find.        *)
LEMMA ConnectionFunctionsType ==
  ASSUME ObjectsOK, NEW l \in Loops, NEW c \in Conns,
         \/ ConnectEstablished(c) \/ HandleClose(l, c) \/ ForceCloseInLoop(l, c)
         \/ RemoveConnectionInLoop(c) \/ ConnectDestroyed(c)
  PROVE  ObjectsOK'
<1> USE DEF ObjectsOK
<1>1. Base \in Loops /\ loop[c] \in Loops
  BY PoolProperties DEF SocketOK
<1>2. ASSUME NEW r, Abort(r)
      PROVE  ObjectsOK'
  BY <1>2 DEF Abort, socket, server, calls, SocketOK, ServerOK, PendingOK, HeldOK, CallsOK
<1>3. CASE ConnectEstablished(c) /\ ~\E r : Abort(r)
  <2>1. /\ state' = [state EXCEPT ![c] = "kConnected"] /\ Update(c, "read")
        /\ ups' = [ups EXCEPT ![c] = @ + 1] /\ held' = KeptWith(c)
        /\ UNCHANGED <<loop, fd, server, pending, downs, failed>>
    BY <1>3 DEF ConnectEstablished
  <2>2. SocketOK'
    BY <2>1, UpdateType DEF SocketOK, States
  <2>3. HeldOK' /\ CallsOK'
    BY <2>1 DEF HeldOK, CallsOK, KeptWith
  <2> QED  BY <2>1, <2>2, <2>3 DEF ServerOK, PendingOK, server
<1>4. CASE HandleClose(l, c) /\ ~\E r : Abort(r)
  <2>1. /\ state' = [state EXCEPT ![c] = "kDisconnected"] /\ Update(c, "none")
        /\ downs' = [downs EXCEPT ![c] = @ + 1]
        /\ connections' \subseteq connections
        /\ \/ pending' = Push(pending, l, "destroyed", c)
           \/ pending' = Push(pending, Base, "remove", c)
        /\ UNCHANGED <<loop, fd, deployment, next, held, ups, failed>>
    BY <1>4 DEF HandleClose
  <2>2. SocketOK'
    BY <2>1, UpdateType DEF SocketOK, States
  <2>3. PendingOK'
    <3>1. /\ Push(pending, l, "destroyed", c) \in [Loops -> Seq(Functor)]
          /\ Push(pending, Base, "remove", c) \in [Loops -> Seq(Functor)]
      BY <1>1, PushType
    <3> QED  BY <2>1, <3>1 DEF PendingOK
  <2>4. CallsOK'
    BY <2>1 DEF CallsOK
  <2> QED  BY <2>1, <2>2, <2>3, <2>4 DEF ServerOK, HeldOK
<1>5. CASE RemoveConnectionInLoop(c)
  <2>1. PendingOK'
    BY <1>1, <1>5, PushType DEF PendingOK, RemoveConnectionInLoop
  <2> QED  BY <1>5, <2>1 DEF RemoveConnectionInLoop, socket, calls, SocketOK, ServerOK, HeldOK, CallsOK
<1>6. CASE ConnectDestroyed(c) /\ ~\E r : Abort(r)
  <2>1. /\ \E ev \in {"none", "read"} : Remove(c, ev)
        /\ downs' = [downs EXCEPT ![c] = @ + 1] \/ UNCHANGED downs
        /\ UNCHANGED <<state, loop, fd, server, pending, held, ups, failed>>
    BY <1>6 DEF ConnectDestroyed, SocketOK, Channel
  <2>2. SocketOK'
    BY <2>1, RemoveType DEF SocketOK
  <2>3. CallsOK'
    BY <2>1 DEF CallsOK
  <2> QED  BY <2>1, <2>2, <2>3 DEF ServerOK, PendingOK, HeldOK, server
<1>7. CASE UNCHANGED <<socket, server, pending, held, calls, failed>>
  BY <1>7 DEF socket, server, calls, SocketOK, ServerOK, PendingOK, HeldOK, CallsOK
<1> QED  BY <1>2, <1>3, <1>4, <1>5, <1>6, <1>7 DEF ForceCloseInLoop

(* So do accepting a connection and reading from one.                       *)
LEMMA AcceptType ==
  ASSUME ObjectsOK, NEW c \in Conns, NEW f \in Fds, OnNewConnection(c, f),
         UNCHANGED <<deployment, downs>>
  PROVE  ObjectsOK'
<1> USE DEF ObjectsOK
<1>1. Base \in Loops /\ NextLoop \in Loops /\ next' \in {1} \union DOMAIN deployment.pool
  BY PoolProperties DEF OnNewConnection
<1>2. ServerOK'
  BY <1>1 DEF OnNewConnection, ServerOK
<1>3. PendingOK'
  <2>1. UNCHANGED pending \/ pending' = Push(pending, NextLoop, "established", c)
    BY DEF OnNewConnection
  <2>2. Push(pending, NextLoop, "established", c) \in [Loops -> Seq(Functor)]
    BY <1>1, PushType
  <2> QED  BY <2>1, <2>2 DEF PendingOK
<1>4. state' \in [Conns -> States \union {None}]
  <2>1. \/ state' = [state EXCEPT ![c] = "kConnecting"]
        \/ state' = [state EXCEPT ![c] = "kConnected"]
    BY DEF OnNewConnection
  <2> QED  BY <2>1 DEF SocketOK, States
<1>5. loop' \in [Conns -> Loops] /\ fd' \in [Conns -> Fds \union {None}]
  BY <1>1 DEF OnNewConnection, SocketOK
<1>6. /\ chan' \in [Conns -> Channel]
      /\ channels' \in [Loops -> [Fds -> Conns \union {None}]]
  <2>1. \/ UNCHANGED <<chan, channels>>
        \/ /\ chan' = [chan EXCEPT ![c] =
                [index |-> "KAdded", events |-> "read", added |-> TRUE]]
           /\ channels' = [channels EXCEPT ![Base][f] = c]
    BY DEF OnNewConnection
  <2>2. CASE UNCHANGED <<chan, channels>>
    BY <2>2 DEF SocketOK
  <2>3. CASE /\ chan' = [chan EXCEPT ![c] =
                  [index |-> "KAdded", events |-> "read", added |-> TRUE]]
             /\ channels' = [channels EXCEPT ![Base][f] = c]
    <3>1. [index |-> "KAdded", events |-> "read", added |-> TRUE] \in Channel
      BY DEF Channel
    <3>2. chan' \in [Conns -> Channel]
      BY <2>3, <3>1 DEF SocketOK
    <3>3. channels' \in [Loops -> [Fds -> Conns \union {None}]]
      BY <1>1, <2>3 DEF SocketOK
    <3> QED  BY <3>2, <3>3
  <2> QED  BY <2>1, <2>2, <2>3
<1>7. HeldOK' /\ CallsOK'
  <2>1. /\ UNCHANGED held \/ held' = KeptWith(c)
        /\ UNCHANGED ups \/ ups' = [ups EXCEPT ![c] = @ + 1]
    BY DEF OnNewConnection
  <2> QED  BY <2>1 DEF HeldOK, CallsOK, KeptWith
<1> QED  BY <1>2, <1>3, <1>4, <1>5, <1>6, <1>7 DEF SocketOK

(* The same for onMessage, which may close the connection.                  *)
LEMMA MessageType ==
  ASSUME ObjectsOK, KernelOK, NEW l \in Loops, NEW c \in Conns, HandleMessage(l, c)
  PROVE  ObjectsOK' /\ KernelOK'
<1> USE DEF ObjectsOK
<1>1. PendingOK'
  <2>1. UNCHANGED pending \/ pending' = Push(pending, l, "forceClose", c)
    BY DEF HandleMessage
  <2>2. Push(pending, l, "forceClose", c) \in [Loops -> Seq(Functor)]
    BY PushType
  <2> QED  BY <2>1, <2>2 DEF PendingOK
<1>2. state' \in [Conns -> States \union {None}]
  <2>1. UNCHANGED state \/ state' = [state EXCEPT ![c] = "kDisconnecting"]
    BY DEF HandleMessage
  <2> QED  BY <2>1 DEF SocketOK, States
<1> QED  BY <1>1, <1>2 DEF HandleMessage, server, calls, SocketOK, ServerOK, HeldOK, CallsOK, KernelOK

(* A loop takes its functors, or runs the first of them.                    *)
LEMMA FunctorStepsType ==
  ASSUME Types, NEW l \in Loops, TakeFunctors(l) \/ RunFunctor(l)
  PROVE  Types'
<1> USE DEF Types
<1>1. CASE TakeFunctors(l)
  <2>1. UNCHANGED <<socket, server, held, calls, kernel, upc, active>>
    BY <1>1 DEF TakeFunctors, user
  <2>2. PendingOK'
    BY <1>1 DEF TakeFunctors, ObjectsOK, PendingOK
  <2>3. LoopsOK'
    BY <1>1 DEF TakeFunctors, ObjectsOK, PendingOK, LoopsOK
  <2> QED  BY <2>1, <2>2, <2>3
       DEF socket, server, calls, kernel, ObjectsOK, SocketOK, ServerOK, HeldOK, CallsOK, KernelOK, UpcOK
<1>2. CASE RunFunctor(l)
  <2>1. /\ batch[l] \in Seq(Functor) /\ batch[l] # <<>> /\ phase[l] = "functors"
        /\ batch' = [batch EXCEPT ![l] = Tail(@)]
        /\ UNCHANGED <<kernel, phase, active, upc>>
    BY <1>2 DEF RunFunctor, LoopsOK
  <2>2. Head(batch[l]) \in Functor /\ Tail(batch[l]) \in Seq(Functor)
    BY <2>1, HeadTailProperties
  <2>3. Head(batch[l]).conn \in Conns
    BY <2>2 DEF Functor
  <2>4. \/ ConnectEstablished(Head(batch[l]).conn) \/ ForceCloseInLoop(l, Head(batch[l]).conn)
        \/ RemoveConnectionInLoop(Head(batch[l]).conn) \/ ConnectDestroyed(Head(batch[l]).conn)
    BY <1>2, <2>2 DEF RunFunctor, Functor
  <2>5. ObjectsOK'
    BY <2>3, <2>4, ConnectionFunctionsType
  <2>6. LoopsOK'
    BY <2>1, <2>2 DEF LoopsOK
  <2> QED  BY <2>1, <2>5, <2>6 DEF kernel, KernelOK, UpcOK
<1> QED  BY <1>1, <1>2

(* A channel, or the acceptor, is handled.                                  *)
LEMMA HandleType ==
  ASSUME Types, NEW l \in Loops, NEW c \in Conns, Handle(l, c)
  PROVE  Types'
<1> USE DEF Types
<1>1. LoopsOK' /\ UpcOK'
  <2>1. /\ phase[l] = "handle" /\ active' = [active EXCEPT ![l] = @ \ {c}]
        /\ UNCHANGED <<phase, batch, upc>>
    BY DEF Handle
  <2> QED  BY <2>1 DEF LoopsOK, UpcOK
<1>2. \/ HandleMessage(l, c)
      \/ HandleClose(l, c) /\ UNCHANGED kernel
      \/ /\ peer' = [peer EXCEPT ![c] = "hup"]
         /\ UNCHANGED <<data, socket, server, pending, held, calls, failed>>
  BY DEF Handle
<1>3. CASE HandleMessage(l, c)
  BY <1>1, <1>3, MessageType
<1>4. CASE HandleClose(l, c) /\ UNCHANGED kernel
  <2>1. ObjectsOK'
    BY <1>4, ConnectionFunctionsType
  <2> QED  BY <1>1, <1>4, <2>1 DEF kernel, KernelOK
<1>5. CASE /\ peer' = [peer EXCEPT ![c] = "hup"]
           /\ UNCHANGED <<data, socket, server, pending, held, calls, failed>>
  BY <1>1, <1>5
     DEF socket, server, calls, ObjectsOK, SocketOK, ServerOK, PendingOK, HeldOK, CallsOK, KernelOK
<1> QED  BY <1>2, <1>3, <1>4, <1>5

(* A report of the listening socket is answered.                            *)
LEMMA AcceptorType ==
  ASSUME Types, \/ \E c \in Conns, f \in Fds : Accept(c, f)
                \/ \E c \in Conns : Refuse(c)
                \/ AcceptNothing
  PROVE  Types'
<1> USE DEF Types
<1>1. HandleAcceptor
  BY DEF Accept, Refuse, AcceptNothing
<1>2. LoopsOK' /\ UpcOK'
  <2>1. /\ phase[Base] = "handle" /\ active' = [active EXCEPT ![Base] = @ \ {Acceptor}]
        /\ UNCHANGED <<phase, batch, upc>>
    BY <1>1 DEF HandleAcceptor
  <2> QED  BY <2>1, PoolProperties DEF ObjectsOK, LoopsOK, UpcOK
<1>3. UNCHANGED <<data, deployment, downs>>
  BY <1>1 DEF HandleAcceptor
<1>4. CASE \E c \in Conns, f \in Fds : Accept(c, f)
  <2>1. PICK c \in Conns, f \in Fds : Accept(c, f)
    BY <1>4
  <2>2. ObjectsOK'
    BY <1>3, <2>1, AcceptType DEF Accept
  <2>3. peer' = [peer EXCEPT ![c] = "open"]
    BY <2>1 DEF Accept
  <2> QED  BY <1>2, <1>3, <2>2, <2>3 DEF KernelOK
<1>5. CASE \E c \in Conns : Refuse(c)
  BY <1>2, <1>3, <1>5
     DEF Refuse, socket, ObjectsOK, SocketOK, ServerOK, PendingOK, HeldOK, CallsOK, KernelOK
<1>6. CASE AcceptNothing
  BY <1>2, <1>3, <1>6
     DEF AcceptNothing, socket, ObjectsOK, SocketOK, ServerOK, PendingOK, HeldOK, CallsOK, KernelOK
<1> QED  BY <1>4, <1>5, <1>6

(* What ~TcpServer queues are functors.                                     *)
LEMMA DestroyType ==
  ASSUME Types, DestroyServer
  PROVE  Types'
<1> USE DEF Types, ObjectsOK
<1>1. PICK order \in [Loops -> UNION {Orders(Carried(l)) : l \in Loops}] :
       /\ \A l \in Loops : order[l] \in Orders(Carried(l))
       /\ pending' = [l \in Loops |-> pending[l] \o
            [i \in DOMAIN order[l] |-> [fn |-> "destroyed", conn |-> order[l][i]]]]
  BY DEF DestroyServer
<1>2. ASSUME NEW l \in Loops
      PROVE  pending'[l] \in Seq(Functor)
  <2> DEFINE n == Cardinality(Carried(l))
             jobs == [i \in DOMAIN order[l] |-> [fn |-> "destroyed", conn |-> order[l][i]]]
  <2>1. n \in Nat
    BY ServerAssumption, FS_Subset, FS_CardinalityType DEF Carried, ServerOK
  <2>2. order[l] \in [1..n -> Carried(l)]
    BY <1>1 DEF Orders
  <2>3. \A i \in 1..n : order[l][i] \in Conns
    BY <2>2 DEF Carried, ServerOK
  <2>4. jobs \in [1..n -> Functor]
    BY <2>2, <2>3 DEF Functor
  <2>5. jobs \in Seq(Functor)
    BY <2>1, <2>4
  <2>6. pending'[l] = pending[l] \o jobs /\ pending[l] \in Seq(Functor)
    BY <1>1 DEF PendingOK
  <2> QED  BY <2>5, <2>6, ConcatProperties
<1>3. PendingOK'
  BY <1>1, <1>2 DEF PendingOK
<1>4. LoopsOK'
  <2>1. phase[Base] = "poll" /\ phase' = [phase EXCEPT ![Base] = "exited"] /\ UNCHANGED <<active, batch>>
    BY DEF DestroyServer
  <2> QED  BY <2>1 DEF LoopsOK
<1>5. /\ connections' = {}
      /\ UNCHANGED <<socket, kernel, deployment, next, user, calls>>
  BY DEF DestroyServer
<1> QED  BY <1>3, <1>4, <1>5
     DEF socket, kernel, user, calls, SocketOK, ServerOK, HeldOK, CallsOK, KernelOK, UpcOK

(* The rest of a loop's life.                                               *)
LEMMA LoopType ==
  ASSUME Types, NEW l \in Loops, Poll(l) \/ EndIteration(l) \/ LoopExits(l)
  PROVE  Types'
<1> USE DEF Types, ObjectsOK
<1>1. CASE Poll(l)
  <2>1. LoopsOK'
    <3>1. Ready(l) \union Listening(l) \subseteq Conns \union {Acceptor}
      BY DEF Ready, Listening
    <3>2. /\ phase[l] = "poll" /\ phase' = [phase EXCEPT ![l] = "handle"]
          /\ active' = [active EXCEPT ![l] = Ready(l) \union Listening(l)] /\ UNCHANGED batch
      BY <1>1 DEF Poll
    <3> HIDE DEF Types, ObjectsOK
    <3>3. active' \in [Loops -> SUBSET (Conns \union {Acceptor})]
      BY <3>1, <3>2 DEF LoopsOK, Types
    <3>4. phase' \in [Loops -> {"poll", "handle", "functors", "exited"}]
      BY <3>2 DEF LoopsOK, Types
    <3>5. \A m \in Loops : phase'[m] # "handle" => active'[m] = {}
      BY <3>2 DEF LoopsOK, Types
    <3>6. \A m \in Loops : phase'[m] # "functors" => batch'[m] = <<>>
      BY <3>2 DEF LoopsOK, Types
    <3> QED  BY <3>2, <3>3, <3>4, <3>5, <3>6 DEF LoopsOK, Types
  <2> QED  BY <1>1, <2>1 DEF Poll, socket, kernel, server, user, calls,
           SocketOK, ServerOK, PendingOK, HeldOK, CallsOK, KernelOK, UpcOK
<1>2. CASE EndIteration(l)
  <2>1. LoopsOK'
    BY <1>2 DEF EndIteration, LoopsOK
  <2> QED  BY <1>2, <2>1 DEF EndIteration, socket, kernel, server, user, calls,
           SocketOK, ServerOK, PendingOK, HeldOK, CallsOK, KernelOK, UpcOK
<1>3. CASE LoopExits(l)
  <2>1. LoopsOK'
    BY <1>3 DEF LoopExits, LoopsOK
  <2>2. PendingOK' /\ channels' \in [Loops -> [Fds -> Conns \union {None}]]
    BY <1>3 DEF LoopExits, PendingOK, SocketOK
  <2> QED  BY <1>3, <2>1, <2>2 DEF LoopExits, kernel, server, user, calls,
           SocketOK, ServerOK, HeldOK, CallsOK, KernelOK, UpcOK
<1> QED  BY <1>1, <1>2, <1>3

(* And what the peers and the other threads do.                             *)
LEMMA EnvironmentType ==
  ASSUME Types, Environment
  PROVE  Types'
<1> USE DEF Types, ObjectsOK
<1>1. CASE \E c \in Conns : PeerConnects(c) \/ PeerGivesUp(c) \/ PeerSends(c) \/ PeerCloses(c)
  <2>1. PICK c \in Conns : PeerConnects(c) \/ PeerGivesUp(c) \/ PeerSends(c) \/ PeerCloses(c)
    BY <1>1
  <2>2. UNCHANGED <<socket, server, work, user, calls>>
    BY <2>1 DEF PeerConnects, PeerGivesUp, PeerSends, PeerCloses
  <2>3. KernelOK'
    BY <2>1 DEF PeerConnects, PeerGivesUp, PeerSends, PeerCloses, KernelOK
  <2> QED  BY <2>2, <2>3 DEF socket, server, work, user, calls, SocketOK, ServerOK, PendingOK,
           LoopsOK, HeldOK, UpcOK, CallsOK
<1>2. CASE \E c \in Conns : Release(c)
  BY <1>2 DEF Release, socket, kernel, server, work, calls, SocketOK, ServerOK, PendingOK,
     LoopsOK, HeldOK, UpcOK, CallsOK, KernelOK
<1>3. CASE \E u \in Users, c \in Conns : ForceClose(u, c)
  <2>1. PICK u \in Users, c \in Conns : ForceClose(u, c)
    BY <1>3
  <2>2. state' \in [Conns -> States \union {None}] /\ UpcOK'
    BY <2>1 DEF ForceClose, SocketOK, UpcOK, States
  <2> QED  BY <2>1, <2>2 DEF ForceClose, kernel, server, work, calls, SocketOK, ServerOK,
           PendingOK, LoopsOK, HeldOK, CallsOK, KernelOK
<1>4. CASE \E u \in Users : ForceCloseQueue(u)
  <2>1. PICK u \in Users : ForceCloseQueue(u)
    BY <1>4
  <2>2. upc[u] \in Conns /\ pending' = Push(pending, loop[upc[u]], "forceClose", upc[u])
        /\ upc' = [upc EXCEPT ![u] = "done"]
    BY <2>1 DEF ForceCloseQueue
  <2>3. PendingOK'
    BY <2>2, PushType DEF PendingOK, SocketOK
  <2>4. UpcOK'
    BY <2>2 DEF UpcOK
  <2> QED  BY <2>1, <2>3, <2>4 DEF ForceCloseQueue, socket, kernel, server, calls, SocketOK,
           ServerOK, LoopsOK, HeldOK, CallsOK, KernelOK
<1> QED  BY <1>1, <1>2, <1>3, <1>4 DEF Environment

(* The server starts, and stays, in states of the declared types: functors  *)
(* are only taken and channels only active in their phase of a loop, and a  *)
(* next loop of the pool always exists.                                     *)
LEMMA TypesInvariant ==
  /\ Init => Types
  /\ Types /\ [Next]_vars => Types'
<1>1. ASSUME Init
      PROVE  Types
  BY <1>1 DEF Init, Types, ObjectsOK, SocketOK, KernelOK, ServerOK, PendingOK, LoopsOK, HeldOK,
     UpcOK, CallsOK, Loops, Channel
<1>2. ASSUME Types, [Next]_vars
      PROVE  Types'
  <2>1. CASE UNCHANGED vars
    BY <1>2, <2>1 DEF vars, socket, kernel, server, work, user, calls, Types, ObjectsOK, SocketOK,
       KernelOK, ServerOK, PendingOK, LoopsOK, HeldOK, UpcOK, CallsOK
  <2>2. CASE Next
    BY <1>2, <2>2, FunctorStepsType, HandleType, AcceptorType, DestroyType, LoopType, EnvironmentType
       DEF Next, LoopStep
  <2> QED  BY <1>2, <2>1, <2>2
<1> QED  BY <1>1, <1>2

(* In every state of every run.                                             *)
THEOREM TypeCorrect == Spec => []TypeOK
<1>1. Spec => []Types
  BY TypesInvariant, PTL DEF Spec
<1> QED  BY <1>1, TypesAreTypeOK, PTL

-----------------------------------------------------------------------------
(* The functors a loop still has to run, in order.                          *)

Job(fn, c) == [fn |-> fn, conn |-> c]
Work(l) == batch[l] \o pending[l]
Jobs(l) == Range(Work(l))

\* Every x of the sequence has a y after it; x is in the sequence only once.
Before(s, x, y) == \A i \in DOMAIN s : s[i] = x => \E j \in DOMAIN s : j > i /\ s[j] = y
Once(s, x) == \A i, j \in DOMAIN s : s[i] = x /\ s[j] = x => i = j

(* Appending to a queue.                                                    *)
LEMMA AppendJobs ==
  ASSUME NEW S, NEW s \in Seq(S), NEW e \in S
  PROVE  /\ Range(Append(s, e)) = Range(s) \union {e}
         /\ \A x, y : Before(s, x, y) /\ e # x => Before(Append(s, e), x, y)
         /\ \A x : e # x => Before(Append(s, e), x, e)
         /\ \A x : Once(s, x) /\ (e = x => x \notin Range(s)) => Once(Append(s, e), x)
<1> DEFINE t == Append(s, e)
           n == Len(s)
<1>1. /\ n \in Nat /\ DOMAIN s = 1..n /\ DOMAIN t = 1..(n + 1)
      /\ t[n + 1] = e /\ \A i \in 1..n : t[i] = s[i]
  BY AppendProperties, LenProperties
<1> HIDE DEF t, n
<1>2. Range(t) = Range(s) \union {e}
  BY <1>1 DEF Range
<1>3. ASSUME NEW x, NEW y, Before(s, x, y), e # x
      PROVE  Before(t, x, y)
  <2> SUFFICES ASSUME NEW i \in DOMAIN t, t[i] = x
               PROVE  \E j \in DOMAIN t : j > i /\ t[j] = y
    BY DEF Before
  <2>1. i \in DOMAIN s /\ s[i] = x
    BY <1>1, <1>3
  <2>2. PICK j \in DOMAIN s : j > i /\ s[j] = y
    BY <1>3, <2>1 DEF Before
  <2> QED  BY <1>1, <2>2
<1>4. ASSUME NEW x, e # x
      PROVE  Before(t, x, e)
  BY <1>1, <1>4 DEF Before
<1>5. ASSUME NEW x, Once(s, x), e = x => x \notin Range(s)
      PROVE  Once(t, x)
  BY <1>1, <1>5 DEF Once, Range
<1> QED  BY <1>2, <1>3, <1>4, <1>5 DEF t

(* Taking the first one off.                                                *)
LEMMA TailJobs ==
  ASSUME NEW S, NEW s \in Seq(S), s # <<>>
  PROVE  /\ Range(s) = Range(Tail(s)) \union {Head(s)}
         /\ \A x, y : Before(s, x, y) => Before(Tail(s), x, y)
         /\ \A y : Before(s, Head(s), y) => y \in Range(Tail(s))
         /\ \A x : Once(s, x) => Once(Tail(s), x)
         /\ Once(s, Head(s)) => Head(s) \notin Range(Tail(s))
<1> DEFINE t == Tail(s)
           n == Len(s)
<1>1. /\ n \in Nat \ {0} /\ DOMAIN s = 1..n /\ DOMAIN t = 1..(n - 1)
      /\ \A i \in 1..(n - 1) : t[i] = s[i + 1]
      /\ Head(s) = s[1]
  BY HeadTailProperties, LenProperties, EmptySeq
<1> HIDE DEF t, n
<1>2. Range(s) = Range(t) \union {Head(s)}
  <2>1. ASSUME NEW i \in 1..n
        PROVE  s[i] \in Range(t) \union {Head(s)}
    <3>1. CASE i = 1
      BY <1>1, <3>1
    <3>2. CASE i # 1
      <4>1. i - 1 \in 1..(n - 1) /\ t[i - 1] = s[i]
        BY <1>1, <3>2
      <4> QED  BY <1>1, <4>1 DEF Range
    <3> QED  BY <3>1, <3>2
  <2>2. ASSUME NEW i \in 1..(n - 1)
        PROVE  t[i] \in Range(s)
    <3>1. i + 1 \in 1..n
      BY <1>1
    <3> QED  BY <1>1, <3>1 DEF Range
  <2>3. Head(s) \in Range(s)
    BY <1>1 DEF Range
  <2> QED  BY <1>1, <2>1, <2>2, <2>3 DEF Range
<1>3. ASSUME NEW x, NEW y, Before(s, x, y), NEW i \in DOMAIN t, t[i] = x
      PROVE  \E j \in DOMAIN t : j > i /\ t[j] = y
  <2>1. i + 1 \in DOMAIN s /\ s[i + 1] = x
    BY <1>1, <1>3
  <2>2. PICK j \in DOMAIN s : j > i + 1 /\ s[j] = y
    BY <1>3, <2>1 DEF Before
  <2>3. j - 1 \in DOMAIN t /\ j - 1 > i /\ t[j - 1] = y
    BY <1>1, <2>2
  <2> QED  BY <2>3
<1>4. ASSUME NEW y, Before(s, Head(s), y)
      PROVE  y \in Range(t)
  <2>1. PICK j \in DOMAIN s : j > 1 /\ s[j] = y
    BY <1>1, <1>4 DEF Before
  <2>2. j - 1 \in DOMAIN t /\ t[j - 1] = y
    BY <1>1, <2>1
  <2> QED  BY <2>2 DEF Range
<1>5. ASSUME NEW x, Once(s, x), NEW i \in DOMAIN t, NEW j \in DOMAIN t, t[i] = x, t[j] = x
      PROVE  i = j
  <2>1. i + 1 \in DOMAIN s /\ j + 1 \in DOMAIN s /\ s[i + 1] = x /\ s[j + 1] = x
    BY <1>1, <1>5
  <2>2. i + 1 = j + 1
    BY <1>5, <2>1 DEF Once
  <2> QED  BY <1>1, <2>2
<1>6. ASSUME Once(s, Head(s)), Head(s) \in Range(t)
      PROVE  FALSE
  <2>1. PICK i \in DOMAIN t : t[i] = Head(s)
    BY <1>6 DEF Range
  <2>2. 1 \in DOMAIN s /\ i + 1 \in DOMAIN s /\ s[1] = Head(s) /\ s[i + 1] = Head(s) /\ i + 1 # 1
    BY <1>1, <2>1
  <2> QED  BY <1>6, <2>2 DEF Once
<1> QED  BY <1>2, <1>3, <1>4, <1>5, <1>6 DEF t, Before, Once

(* Both on a queue that is in two parts.                                    *)
LEMMA JoinedJobs ==
  ASSUME NEW S, NEW s \in Seq(S), NEW t \in Seq(S)
  PROVE  /\ \A e \in S : s \o Append(t, e) = Append(s \o t, e)
         /\ s # <<>> => /\ s \o t # <<>> /\ Head(s \o t) = Head(s)
                        /\ Tail(s) \o t = Tail(s \o t)
<1>1. \A e \in S : s \o Append(t, e) = Append(s \o t, e)
  OBVIOUS
<1>2. ASSUME s # <<>>
      PROVE  s \o t # <<>> /\ Head(s \o t) = Head(s)
  BY <1>2
<1>3. ASSUME s # <<>>
      PROVE  Tail(s) \o t = Tail(s \o t)
  BY <1>3
<1> QED  BY <1>1, <1>2, <1>3

\* A step takes the jobs of out from the queues and puts those of in on them:
\* at most one of each, the one taken from the head of the work of loop l.
Taken(l, out) == \/ batch' = batch /\ out = {}
                 \/ /\ batch[l] # <<>> /\ out = {Head(batch[l])}
                    /\ batch' = [batch EXCEPT ![l] = Tail(@)]
Put(in) == \/ pending' = pending /\ in = {}
           \/ \E m \in Loops, c \in Conns,
                 fn \in {"established", "forceClose", "remove", "destroyed"} :
                /\ pending' = Push(pending, m, fn, c) /\ in = {<<m, Job(fn, c)>>}

(* What such a step does to the work of every loop.                         *)
LEMMA WorkStep ==
  ASSUME PendingOK, LoopsOK, NEW l \in Loops, NEW out, NEW in, Taken(l, out), Put(in)
  PROVE  /\ \A k \in Loops : \A j \in Jobs(k)' : j \in Jobs(k) \/ <<k, j>> \in in
         /\ \A k \in Loops : \A j \in Jobs(k) : j \in Jobs(k)' \/ (k = l /\ j \in out)
         /\ \A k \in Loops : \A j : <<k, j>> \in in => j \in Jobs(k)' /\ j \in Functor
         /\ \A k \in Loops : \A x, y : Before(Work(k), x, y) /\ <<k, x>> \notin in
                                       => Before(Work(k), x, y)'
         /\ \A k \in Loops : \A x, y : x # y /\ <<k, y>> \in in => Before(Work(k), x, y)'
         /\ \A x \in out : \A y : Before(Work(l), x, y) => y \in Jobs(l)'
         /\ \A k \in Loops : \A x : Once(Work(k), x) /\ (<<k, x>> \in in => x \notin Jobs(k))
                                    => Once(Work(k), x)'
         /\ \A x \in out : Once(Work(l), x) /\ <<l, x>> \notin in => x \notin Jobs(l)'
         /\ \A x \in out : x \in Jobs(l)
<1>1. ASSUME NEW k \in Loops
      PROVE  /\ batch[k] \in Seq(Functor) /\ pending[k] \in Seq(Functor)
             /\ Work(k) \in Seq(Functor)
  BY ConcatProperties DEF PendingOK, LoopsOK, Work
<1>0. \A m, k \in Loops, c \in Conns, fn \in {"established", "forceClose", "remove", "destroyed"} :
        k # m => Push(pending, m, fn, c)[k] = pending[k]
  BY DEF Push, PendingOK
<1>00. \A s, t \in Seq(Functor), e \in Functor : s \o Append(t, e) = Append(s \o t, e)
  BY JoinedJobs
<1> DEFINE rest(k) == batch'[k] \o pending[k]
<1>2. ASSUME NEW k \in Loops
      PROVE  /\ rest(k) \in Seq(Functor) /\ batch'[k] \in Seq(Functor)
             /\ IF k = l /\ out # {} THEN /\ Work(k) # <<>> /\ out = {Head(Work(k))}
                                          /\ rest(k) = Tail(Work(k))
                ELSE rest(k) = Work(k)
  <2>1. CASE batch' = batch /\ out = {}
    BY <1>1, <2>1 DEF Work
  <2>2. CASE /\ batch[l] # <<>> /\ out = {Head(batch[l])}
             /\ batch' = [batch EXCEPT ![l] = Tail(@)]
    <3>1. CASE k # l
      <4>1. batch'[k] = batch[k]
        BY <2>2, <3>1 DEF LoopsOK
      <4> QED  BY <1>1, <3>1, <4>1 DEF Work
    <3>2. CASE k = l
      <4>1. batch'[k] = Tail(batch[k]) /\ batch[k] # <<>>
        BY <2>2, <3>2 DEF LoopsOK
      <4>2. Tail(batch[k]) \in Seq(Functor)
        BY <1>1, <4>1, HeadTailProperties
      <4>3. /\ Work(k) # <<>> /\ Head(Work(k)) = Head(batch[k])
            /\ Tail(batch[k]) \o pending[k] = Tail(Work(k))
        BY <1>1, <4>1, JoinedJobs DEF Work
      <4>4. rest(k) \in Seq(Functor)
        BY <1>1, <4>1, <4>2, ConcatProperties
      <4>5. batch'[k] \in Seq(Functor)
        BY <4>1, <4>2
      <4> QED  BY <2>2, <3>2, <4>1, <4>3, <4>4, <4>5
    <3> QED  BY <3>1, <3>2
  <2> QED  BY <2>1, <2>2 DEF Taken
<1>3. ASSUME NEW k \in Loops, NEW j, <<k, j>> \in in
      PROVE  j \in Functor /\ Work(k)' = Append(rest(k), j) /\ in = {<<k, j>>}
  <2>1. PICK m \in Loops, c \in Conns,
             fn \in {"established", "forceClose", "remove", "destroyed"} :
               pending' = Push(pending, m, fn, c) /\ in = {<<m, Job(fn, c)>>}
    BY <1>3 DEF Put
  <2>2. m = k /\ j = Job(fn, c) /\ in = {<<k, j>>}
    BY <1>3, <2>1
  <2>3. j \in Functor
    BY <2>2 DEF Job, Functor
  <2>4. pending'[k] = Append(pending[k], j)
    <3>1. Push(pending, m, fn, c)[m] = Append(pending[m], [fn |-> fn, conn |-> c])
      BY DEF Push, PendingOK
    <3>2. j = [fn |-> fn, conn |-> c] /\ pending' = Push(pending, m, fn, c) /\ m = k
      BY <2>1, <2>2 DEF Job
    <3> QED  BY <3>1, <3>2
  <2>5. batch'[k] \in Seq(Functor) /\ pending[k] \in Seq(Functor)
    BY <1>1, <1>2
  <2>6. Work(k)' = batch'[k] \o Append(pending[k], j)
    BY <2>4 DEF Work
  <2>7. batch'[k] \o Append(pending[k], j) = Append(batch'[k] \o pending[k], j)
    BY <1>00, <2>3, <2>5
  <2> QED  BY <2>2, <2>3, <2>6, <2>7
<1>4. ASSUME NEW k \in Loops, \A j : <<k, j>> \notin in
      PROVE  Work(k)' = rest(k)
  <2>1. pending'[k] = pending[k]
    <3>1. CASE pending' = pending
      BY <3>1
    <3>2. ASSUME NEW m \in Loops, NEW c \in Conns,
                 NEW fn \in {"established", "forceClose", "remove", "destroyed"},
                 pending' = Push(pending, m, fn, c) /\ in = {<<m, Job(fn, c)>>}
          PROVE  pending'[k] = pending[k]
      <4>1. m # k
        BY <1>4, <3>2
      <4>2. Push(pending, m, fn, c)[k] = pending[k]
        BY <1>0, <4>1
      <4> QED  BY <3>2, <4>2
    <3> QED  BY <3>1, <3>2 DEF Put
  <2> QED  BY <2>1 DEF Work
<1> HIDE DEF rest
<1>5. ASSUME NEW k \in Loops
      PROVE  /\ Range(Work(k)) = Range(rest(k)) \union (IF k = l THEN out ELSE {})
             /\ \A x, y : Before(Work(k), x, y) => Before(rest(k), x, y)
             /\ \A x : Once(Work(k), x) => Once(rest(k), x)
  <2>1. CASE k = l /\ out # {}
    <3>1. /\ Work(k) \in Seq(Functor) /\ Work(k) # <<>> /\ out = {Head(Work(k))}
          /\ rest(k) = Tail(Work(k))
      BY <1>1, <1>2, <2>1
    <3> QED  BY <2>1, <3>1, TailJobs
  <2>2. CASE ~(k = l /\ out # {})
    BY <1>2, <2>2
  <2> QED  BY <2>1, <2>2
<1>6. ASSUME NEW x \in out
      PROVE  /\ \A y : Before(Work(l), x, y) => y \in Range(rest(l))
             /\ Once(Work(l), x) => x \notin Range(rest(l))
  <2>1. Work(l) # <<>> /\ x = Head(Work(l)) /\ rest(l) = Tail(Work(l)) /\ Work(l) \in Seq(Functor)
    BY <1>1, <1>2, <1>6
  <2> QED  BY <2>1, TailJobs
<1>7. ASSUME NEW k \in Loops
      PROVE  /\ \A j : j \in Range(Work(k)') <=> j \in Range(rest(k)) \/ <<k, j>> \in in
             /\ \A x, y : Before(rest(k), x, y) /\ <<k, x>> \notin in => Before(Work(k)', x, y)
             /\ \A x, y : x # y /\ <<k, y>> \in in => Before(Work(k)', x, y)
             /\ \A x : Once(rest(k), x) /\ (<<k, x>> \in in => x \notin Range(rest(k)))
                       => Once(Work(k)', x)
  <2>1. CASE \A j : <<k, j>> \notin in
    BY <1>4, <2>1
  <2>2. CASE \E j : <<k, j>> \in in
    <3>1. PICK j : <<k, j>> \in in
      BY <2>2
    <3>2. /\ j \in Functor /\ Work(k)' = Append(rest(k), j) /\ rest(k) \in Seq(Functor)
          /\ \A x : <<k, x>> \in in <=> x = j
      BY <1>2, <1>3, <3>1
    <3> QED  BY <3>2, AppendJobs
  <2> QED  BY <2>1, <2>2
<1>8. \A k \in Loops : Jobs(k) = Range(Work(k)) /\ Jobs(k)' = Range(Work(k)')
  BY DEF Jobs
<1>9. \A k, x, y : /\ Before(Work(k), x, y)' <=> Before(Work(k)', x, y)
                   /\ Once(Work(k), x)' <=> Once(Work(k)', x)
  BY DEF Before, Once
<1>10. \A x \in out : x \in Jobs(l)
  BY <1>5, <1>8
<1>11. \A x \in out : /\ \A y : Before(Work(l), x, y) => y \in Jobs(l)'
                      /\ Once(Work(l), x) /\ <<l, x>> \notin in => x \notin Jobs(l)'
  <2>1. \A j : j \in Jobs(l)' <=> j \in Range(rest(l)) \/ <<l, j>> \in in
    BY <1>7, <1>8
  <2> QED  BY <1>6, <2>1
<1>12. ASSUME NEW k \in Loops
       PROVE  /\ \A j \in Jobs(k)' : j \in Jobs(k) \/ <<k, j>> \in in
              /\ \A j \in Jobs(k) : j \in Jobs(k)' \/ (k = l /\ j \in out)
              /\ \A j : <<k, j>> \in in => j \in Jobs(k)' /\ j \in Functor
  <2>1. Jobs(k) = Range(rest(k)) \union (IF k = l THEN out ELSE {})
    BY <1>5, <1>8
  <2>2. \A j : j \in Jobs(k)' <=> j \in Range(rest(k)) \/ <<k, j>> \in in
    BY <1>7, <1>8
  <2> QED  BY <1>3, <2>1, <2>2
<1>13. ASSUME NEW k \in Loops
       PROVE  /\ \A x, y : Before(Work(k), x, y) /\ <<k, x>> \notin in => Before(Work(k), x, y)'
              /\ \A x, y : x # y /\ <<k, y>> \in in => Before(Work(k), x, y)'
              /\ \A x : Once(Work(k), x) /\ (<<k, x>> \in in => x \notin Jobs(k))
                        => Once(Work(k), x)'
  BY <1>5, <1>7, <1>8, <1>9
<1> QED  BY <1>10, <1>11, <1>12, <1>13

-----------------------------------------------------------------------------
(* What a poller points to is alive.                                        *)

\* The loop a functor is for.
Home(j) == IF j.fn = "remove" THEN Base ELSE loop[j.conn]

\* Somebody still has to destroy the connection: it is in the map, or its
\* removal is on the way. While this is so it is referenced.
Owed(c) == \/ c \in connections
           \/ Job("remove", c) \in Jobs(Base)
           \/ Job("destroyed", c) \in Jobs(loop[c])

JobsPlaced == \A l \in Loops : \A j \in Jobs(l) : Accepted(j.conn) /\ l = Home(j)

\* Before it is accepted nothing knows of a connection but the kernel.
OnlyAcceptedKnown == \A c \in Conns :
  IF Accepted(c) THEN fd[c] \in Fds /\ peer[c] \notin {"absent", "waiting"}
  ELSE /\ chan[c].index = "KNew" /\ c \notin connections /\ c \notin held
       /\ \A u \in Users : upc[u] # c

RegisteredIsOwed == \A l \in Loops, f \in Fds, c \in Conns :
  channels[l][f] = c => loop[c] = l /\ fd[c] = f /\ Owed(c)

EnabledIsOwed == failed = None =>
  \A c \in Conns : chan[c].index = "KAdded" /\ phase[loop[c]] # "exited" => Owed(c)

ActiveIsOwed == \A l \in Loops : \A c \in active[l] \ {Acceptor} : loop[c] = l /\ Owed(c)

\* A connection that is no longer in the map and still has to be established
\* is destroyed after that: ~TcpServer queues to the loop the job is in.
DestroyedLast == \A c \in Conns :
  \/ c \in connections
  \/ Before(Work(loop[c]), Job("established", c), Job("destroyed", c))

Lifetimes == /\ JobsPlaced /\ OnlyAcceptedKnown /\ RegisteredIsOwed /\ EnabledIsOwed
             /\ ActiveIsOwed /\ DestroyedLast

(* Jobs are equal when they name the same function and connection.          *)
LEMMA JobProperties ==
  /\ \A a, b, c, d : Job(a, c) = Job(b, d) <=> a = b /\ c = d
  /\ \A a, c : Job(a, c).fn = a /\ Job(a, c).conn = c
  /\ \A j \in Functor : j = Job(j.fn, j.conn) /\ j.conn \in Conns
<1>1. ASSUME NEW a, NEW b, NEW c, NEW d, Job(a, c) = Job(b, d)
      PROVE  a = b /\ c = d
  <2>1. Job(a, c).fn = a /\ Job(b, d).fn = b /\ Job(a, c).conn = c /\ Job(b, d).conn = d
    BY DEF Job
  <2> QED  BY <1>1, <2>1
<1> QED  BY <1>1 DEF Job, Functor

(* The loops only run functors.                                             *)
LEMMA JobsAreFunctors ==
  ASSUME PendingOK, LoopsOK, NEW l \in Loops
  PROVE  Work(l) \in Seq(Functor) /\ Jobs(l) \subseteq Functor
<1>1. Work(l) \in Seq(Functor)
  BY ConcatProperties DEF PendingOK, LoopsOK, Work
<1>2. \A i \in DOMAIN Work(l) : Work(l)[i] \in Functor
  BY <1>1, ElementOfSeq, LenProperties
<1> QED  BY <1>1, <1>2 DEF Jobs, Range

(* A functor that is queued or taken keeps its connection alive.            *)
LEMMA QueuedIsReferenced ==
  ASSUME PendingOK, LoopsOK, NEW l \in Loops, NEW j \in Jobs(l)
  PROVE  Referenced(j.conn)
<1> DEFINE b == batch[l]
           p == pending[l]
<1>1. b \in Seq(Functor) /\ p \in Seq(Functor)
  BY DEF PendingOK, LoopsOK
<1>2. PICK i \in DOMAIN (b \o p) : (b \o p)[i] = j
  BY DEF Jobs, Work, Range
<1> HIDE DEF b, p
<1>3. i \in 1..(Len(b) + Len(p)) /\ Len(b) \in Nat /\ Len(p) \in Nat
      /\ DOMAIN b = 1..Len(b) /\ DOMAIN p = 1..Len(p)
  BY <1>1, <1>2, ConcatProperties, LenProperties
<1>4. (\E k \in DOMAIN b : b[k] = j) \/ (\E k \in DOMAIN p : p[k] = j)
  <2>1. (b \o p)[i] = IF i <= Len(b) THEN b[i] ELSE p[i - Len(b)]
    BY <1>1, <1>3, ConcatProperties
  <2>2. CASE i <= Len(b)
    BY <1>2, <1>3, <2>1, <2>2
  <2>3. CASE ~(i <= Len(b))
    <3>1. i - Len(b) \in DOMAIN p /\ p[i - Len(b)] = j
      BY <1>2, <1>3, <2>1, <2>3
    <3> QED  BY <3>1
  <2> QED  BY <2>2, <2>3
<1>5. j.conn \in Bound(b) \union Bound(p)
  BY <1>4 DEF Bound
<1> QED  BY <1>5 DEF Referenced, b, p

(* So does the map.                                                         *)
LEMMA OwedIsReferenced ==
  ASSUME SocketOK, PendingOK, LoopsOK, NEW c \in Conns, Owed(c)
  PROVE  Referenced(c)
<1>1. Base \in Loops /\ loop[c] \in Loops
  BY DEF SocketOK, Loops
<1>2. CASE c \in connections
  BY <1>2 DEF Referenced
<1>3. CASE Job("remove", c) \in Jobs(Base)
  BY <1>1, <1>3, QueuedIsReferenced, JobProperties
<1>4. CASE Job("destroyed", c) \in Jobs(loop[c])
  BY <1>1, <1>4, QueuedIsReferenced, JobProperties
<1> QED  BY <1>2, <1>3, <1>4 DEF Owed

(* The invariant is strong enough.                                          *)
LEMMA LifetimesSuffice ==
  ASSUME Types, Lifetimes
  PROVE  RegisteredIsAlive
<1> USE DEF Types, ObjectsOK
<1>1. ASSUME NEW l \in Loops, NEW f \in Fds, channels[l][f] # None
      PROVE  /\ loop[channels[l][f]] = l /\ fd[channels[l][f]] = f
             /\ ~Destroyed(channels[l][f])
  <2>1. channels[l][f] \in Conns
    BY <1>1 DEF SocketOK
  <2>2. loop[channels[l][f]] = l /\ fd[channels[l][f]] = f /\ Owed(channels[l][f])
    BY <2>1 DEF Lifetimes, RegisteredIsOwed
  <2> QED  BY <2>1, <2>2, OwedIsReferenced DEF Destroyed
<1>2. ASSUME NEW l \in Loops, NEW c \in active[l] \ {Acceptor}
      PROVE  loop[c] = l /\ ~Destroyed(c)
  <2>1. c \in Conns
    BY <1>2 DEF LoopsOK
  <2>2. loop[c] = l /\ Owed(c)
    BY <1>2 DEF Lifetimes, ActiveIsOwed
  <2> QED  BY <2>1, <2>2, OwedIsReferenced DEF Destroyed
<1> QED  BY <1>1, <1>2 DEF RegisteredIsAlive

(* Whoever is in a queue or owed its end has been accepted.                 *)
LEMMA OwedIsAccepted ==
  ASSUME Types, Lifetimes, NEW c \in Conns, Owed(c)
  PROVE  Accepted(c)
<1>1. Base \in Loops /\ loop[c] \in Loops
  BY DEF Types, ObjectsOK, SocketOK, Loops
<1>2. CASE c \in connections
  BY <1>2 DEF Lifetimes, OnlyAcceptedKnown
<1>3. CASE Job("remove", c) \in Jobs(Base)
  BY <1>1, <1>3, JobProperties DEF Lifetimes, JobsPlaced
<1>4. CASE Job("destroyed", c) \in Jobs(loop[c])
  BY <1>1, <1>4, JobProperties DEF Lifetimes, JobsPlaced
<1> QED  BY <1>2, <1>3, <1>4 DEF Owed

\* A step that is about connection c, which is accepted and stays so: what it
\* may change.
ObjectStep(c, in, out) ==
  /\ UNCHANGED <<loop, fd, phase>> /\ failed = None
  /\ \A m \in Loops : active'[m] \subseteq active[m]
  /\ Accepted(c) /\ Accepted(c)'
  /\ \A d \in Conns \ {c} : state'[d] = state[d] /\ chan'[d] = chan[d]
  /\ \A k, j : <<k, j>> \in in => j.conn = c /\ j.fn # "established" /\ k = Home(j)
  /\ \A j \in out : j.conn = c
  /\ connections' \subseteq connections /\ connections \ connections' \subseteq {c}
  /\ c \in connections \ connections' => <<loop[c], Job("destroyed", c)>> \in in
  /\ \A m \in Loops, f \in Fds : \/ channels'[m][f] = channels[m][f]
                                 \/ channels'[m][f] = None
                                 \/ channels'[m][f] = c /\ m = loop[c] /\ f = fd[c]
  /\ held' \subseteq held \union {c}
  /\ \A u \in Users : upc'[u] = upc[u] \/ upc'[u] = c \/ upc'[u] = "done"
  /\ \A d \in Conns : peer'[d] \in {"absent", "waiting"} => peer'[d] = peer[d]

\* The connection is out of the pollers.
Forgotten(c) == /\ \A l \in Loops : c \notin active[l] /\ \A f \in Fds : channels[l][f] # c
                /\ failed # None \/ chan[c].index # "KAdded" \/ phase[loop[c]] = "exited"

(* Such a step keeps the invariant if afterwards its connection is owed its *)
(* destruction or out of the pollers.                                       *)
LEMMA ObjectStepKeeps ==
  ASSUME Types, Lifetimes, NEW l \in Loops, NEW c \in Conns, NEW out, NEW in,
         Taken(l, out), Put(in), ObjectStep(c, in, out), Owed(c)' \/ Forgotten(c)', Types'
  PROVE  Lifetimes'
<1> USE DEF Types, ObjectsOK
<1>0. /\ Base \in Loops /\ \A d \in Conns : loop[d] \in Loops /\ loop'[d] = loop[d]
      /\ \A d \in Conns : Accepted(d)' <=> Accepted(d)
  BY DEF SocketOK, Loops, ObjectStep, Accepted
<1>1. /\ \A k \in Loops : \A j \in Jobs(k)' : j \in Jobs(k) \/ <<k, j>> \in in
      /\ \A k \in Loops : \A j \in Jobs(k) : j \in Jobs(k)' \/ (k = l /\ j \in out)
      /\ \A k \in Loops : \A j : <<k, j>> \in in => j \in Jobs(k)' /\ j \in Functor
      /\ \A k \in Loops : \A x, y : Before(Work(k), x, y) /\ <<k, x>> \notin in
                                    => Before(Work(k), x, y)'
      /\ \A k \in Loops : \A x, y : x # y /\ <<k, y>> \in in => Before(Work(k), x, y)'
  BY WorkStep
<1>2. ASSUME NEW d \in Conns, d # c, Owed(d)
      PROVE  Owed(d)'
  <2>1. Job("remove", d) \notin out /\ Job("destroyed", d) \notin out
    BY <1>2, JobProperties DEF ObjectStep
  <2>2. d \in connections => d \in connections'
    BY <1>2 DEF ObjectStep
  <2>3. /\ Job("remove", d) \in Jobs(Base) => Job("remove", d) \in Jobs(Base)'
        /\ Job("destroyed", d) \in Jobs(loop[d]) => Job("destroyed", d) \in Jobs(loop[d])'
    BY <1>0, <1>1, <2>1
  <2> QED  BY <1>0, <1>2, <2>2, <2>3 DEF Owed
<1>3. JobsPlaced'
  <2> SUFFICES ASSUME NEW k \in Loops, NEW j \in Jobs(k)'
               PROVE  Accepted(j.conn)' /\ k = Home(j)'
    BY DEF JobsPlaced
  <2>1. CASE j \in Jobs(k)
    <3>1. Accepted(j.conn) /\ k = Home(j) /\ j.conn \in Conns
      BY <2>1, JobsAreFunctors, JobProperties DEF Lifetimes, JobsPlaced
    <3> QED  BY <1>0, <3>1 DEF Home
  <2>2. CASE <<k, j>> \in in
    <3>1. j.conn = c /\ k = Home(j)
      BY <2>2 DEF ObjectStep
    <3> QED  BY <1>0, <3>1 DEF Home, ObjectStep
  <2> QED  BY <1>1, <2>1, <2>2
<1>4. OnlyAcceptedKnown'
  <2> SUFFICES ASSUME NEW d \in Conns
               PROVE  IF Accepted(d) THEN fd'[d] \in Fds /\ peer'[d] \notin {"absent", "waiting"}
                      ELSE /\ chan'[d].index = "KNew" /\ d \notin connections' /\ d \notin held'
                           /\ \A u \in Users : upc'[u] # d
    BY <1>0 DEF OnlyAcceptedKnown
  <2>1. CASE Accepted(d)
    BY <2>1 DEF Lifetimes, OnlyAcceptedKnown, ObjectStep
  <2>2. CASE ~Accepted(d)
    <3>1. d # c /\ d # "done"
      BY <2>2, ServerAssumption DEF ObjectStep
    <3>2. /\ chan[d].index = "KNew" /\ d \notin connections /\ d \notin held
          /\ \A u \in Users : upc[u] # d
      BY <2>2 DEF Lifetimes, OnlyAcceptedKnown
    <3> QED  BY <2>2, <3>1, <3>2 DEF ObjectStep
  <2> QED  BY <2>1, <2>2
<1>5. RegisteredIsOwed'
  <2> SUFFICES ASSUME NEW m \in Loops, NEW f \in Fds, NEW d \in Conns, channels'[m][f] = d
               PROVE  loop[d] = m /\ fd[d] = f /\ Owed(d)'
    BY DEF RegisteredIsOwed, ObjectStep
  <2>1. loop[d] = m /\ fd[d] = f /\ (d # c => Owed(d))
    <3>1. CASE d = channels[m][f]
      BY <3>1 DEF Lifetimes, RegisteredIsOwed
    <3>2. CASE d = c /\ m = loop[c] /\ f = fd[c]
      BY <3>2
    <3>3. d # None
      BY ServerAssumption DEF None
    <3> QED  BY <3>1, <3>2, <3>3 DEF ObjectStep
  <2>2. d = c => Owed(d)'
    BY DEF Forgotten
  <2> QED  BY <1>2, <2>1, <2>2
<1>6. EnabledIsOwed'
  <2> SUFFICES ASSUME failed' = None, NEW d \in Conns, chan'[d].index = "KAdded", 
                      phase'[loop'[d]] # "exited"
               PROVE  Owed(d)'
    BY DEF EnabledIsOwed
  <2>1. CASE d = c
    BY <2>1 DEF Forgotten
  <2>2. CASE d # c
    <3>1. failed = None /\ chan[d].index = "KAdded" /\ phase[loop[d]] # "exited"
      BY <2>2 DEF ObjectStep
    <3>2. Owed(d)
      BY <3>1 DEF Lifetimes, EnabledIsOwed
    <3> QED  BY <1>2, <2>2, <3>2
  <2> QED  BY <2>1, <2>2
<1>7. ActiveIsOwed'
  <2> SUFFICES ASSUME NEW m \in Loops, NEW d \in active'[m] \ {Acceptor}
               PROVE  loop[d] = m /\ Owed(d)'
    BY DEF ActiveIsOwed, ObjectStep
  <2>1. d \in active[m] \ {Acceptor} /\ d \in Conns
    BY DEF ObjectStep, LoopsOK
  <2>2. loop[d] = m /\ Owed(d)
    BY <2>1 DEF Lifetimes, ActiveIsOwed
  <2> QED  BY <1>2, <2>1, <2>2 DEF Forgotten
<1>8. DestroyedLast'
  <2> SUFFICES ASSUME NEW d \in Conns, d \notin connections'
               PROVE  Before(Work(loop[d]), Job("established", d), Job("destroyed", d))'
    BY <1>0 DEF DestroyedLast
  <2>1. CASE d \in connections
    <3>1. d = c /\ <<loop[d], Job("destroyed", d)>> \in in
      BY <2>1 DEF ObjectStep
    <3>2. Job("established", d) # Job("destroyed", d)
      BY JobProperties
    <3>3. \A k \in Loops : k = loop[d] => Before(Work(k), Job("established", d), Job("destroyed", d))'
      BY <1>1, <3>1, <3>2
    <3> QED  BY <1>0, <3>3
  <2>2. CASE d \notin connections
    <3>1. Before(Work(loop[d]), Job("established", d), Job("destroyed", d))
      BY <2>2 DEF Lifetimes, DestroyedLast
    <3>2. <<loop[d], Job("established", d)>> \notin in
      BY JobProperties DEF ObjectStep
    <3>3. \A k \in Loops : k = loop[d] => Before(Work(k), Job("established", d), Job("destroyed", d))'
      BY <1>1, <3>1, <3>2
    <3> QED  BY <1>0, <3>3
  <2> QED  BY <2>1, <2>2
<1> QED  BY <1>3, <1>4, <1>5, <1>6, <1>7, <1>8 DEF Lifetimes

(* A step that leaves the connection in the map and registered as it was.   *)
LEMMA StandStill ==
  ASSUME Types, Lifetimes, NEW l \in Loops, NEW c \in Conns, NEW out, NEW in,
         Taken(l, out), Put(in), ObjectStep(c, in, out), UNCHANGED <<channels, connections>>,
         failed' # None \/ chan'[c].index = chan[c].index,
         Job("remove", c) \notin out, Job("destroyed", c) \notin out
  PROVE  Owed(c)' \/ Forgotten(c)'
<1> USE DEF Types, ObjectsOK
<1>0. Base \in Loops /\ loop[c] \in Loops /\ loop' = loop /\ phase' = phase /\ failed = None
  BY DEF SocketOK, Loops, ObjectStep
<1>1. CASE Owed(c)
  <2>1. \A k \in Loops : \A j \in Jobs(k) : j \in Jobs(k)' \/ (k = l /\ j \in out)
    BY WorkStep
  <2> QED  BY <1>0, <1>1, <2>1 DEF Owed
<1>2. CASE ~Owed(c)
  <2>1. \A m \in Loops : c \notin active'[m]
    <3>1. c # Acceptor
      BY ServerAssumption DEF Acceptor
    <3> QED  BY <1>2, <3>1 DEF Lifetimes, ActiveIsOwed, ObjectStep
  <2>2. \A m \in Loops, f \in Fds : channels'[m][f] # c
    BY <1>2 DEF Lifetimes, RegisteredIsOwed
  <2>3. failed' # None \/ chan'[c].index # "KAdded" \/ phase[loop[c]] = "exited"
    BY <1>0, <1>2 DEF Lifetimes, EnabledIsOwed
  <2> QED  BY <1>0, <2>1, <2>2, <2>3 DEF Forgotten
<1> QED  BY <1>1, <1>2

\* What a loop does around a function of TcpConnection it calls for c, perhaps
\* as the functor in out.
Around(c, out) ==
  /\ failed = None /\ Accepted(c) /\ UNCHANGED <<phase, upc>>
  /\ \A m \in Loops : active'[m] \subseteq active[m]
  /\ \A d \in Conns : peer'[d] \in {"absent", "waiting"} => peer'[d] = peer[d]
  /\ \A j \in out : j.conn = c

(* The functions, one by one. First where an assertion fails.               *)
LEMMA AbortKeeps ==
  ASSUME Types, Lifetimes, Types', NEW l \in Loops, NEW c \in Conns, NEW out,
         Taken(l, out), Around(c, out), NEW r, Abort(r), r # None,
         Job("remove", c) \notin out,
         Job("destroyed", c) \in out =>
           Slot(c) # c /\ \A m \in Loops : c \notin active[m]
  PROVE  Lifetimes'
<1> USE DEF Types, ObjectsOK
<1> DEFINE in == {}
<1>1. ObjectStep(c, in, out)
  BY DEF ObjectStep, Around, Abort, socket, server, Accepted
<1>2. Put(in) /\ UNCHANGED <<channels, connections>> /\ failed' # None
  BY DEF Put, Abort, socket, server
<1> HIDE DEF in
<1>3. Owed(c)' \/ Forgotten(c)'
  <2>1. CASE Job("destroyed", c) \notin out
    BY <1>1, <1>2, <2>1, StandStill
  <2>2. CASE Job("destroyed", c) \in out
    <3>1. \A m \in Loops, f \in Fds : channels[m][f] # c
      BY <2>2 DEF Slot, Lifetimes, RegisteredIsOwed
    <3>2. \A m \in Loops : c \notin active'[m]
      BY <2>2 DEF Around
    <3> QED  BY <1>2, <3>1, <3>2 DEF Forgotten
  <2> QED  BY <2>1, <2>2
<1> QED  BY <1>1, <1>2, <1>3, ObjectStepKeeps

(* connectEstablished registers a connection that is still owed its end.    *)
LEMMA EstablishedKeeps ==
  ASSUME Types, Lifetimes, Types', NEW l \in Loops, NEW c \in Conns, NEW out,
         Taken(l, out), Around(c, out), out = {Job("established", c)}, loop[c] = l,
         ConnectEstablished(c)
  PROVE  Lifetimes'
<1> USE DEF Types, ObjectsOK
<1>0. Job("remove", c) \notin out /\ Job("destroyed", c) \notin out
  BY JobProperties
<1>1. CASE \E r \in {"established", "update"} : Abort(r)
  <2>1. PICK r \in {"established", "update"} : Abort(r)
    BY <1>1
  <2>2. r # None
    BY DEF None
  <2> QED  BY <1>0, <2>1, <2>2, AbortKeeps
<1>2. CASE ~\E r \in {"established", "update"} : Abort(r)
  <2>1. /\ state' = [state EXCEPT ![c] = "kConnected"] /\ Update(c, "read")
        /\ held' = KeptWith(c)
        /\ UNCHANGED <<loop, fd, server, pending, downs, failed>>
    BY <1>2 DEF ConnectEstablished
  <2> DEFINE in == {}
  <2>2. Put(in)
    BY <2>1 DEF Put
  <2>3. ObjectStep(c, in, out)
    <3>1. \A d \in Conns \ {c} : state'[d] = state[d] /\ chan'[d] = chan[d]
      BY <2>1 DEF SocketOK, Update
    <3>2. \A m \in Loops, f \in Fds : \/ channels'[m][f] = channels[m][f]
                                      \/ channels'[m][f] = c /\ m = loop[c] /\ f = fd[c]
      BY <2>1 DEF SocketOK, Update
    <3>3. held' \subseteq held \union {c} /\ Accepted(c)'
      BY <2>1 DEF KeptWith, Accepted, SocketOK, None
    <3> QED  BY <2>1, <3>1, <3>2, <3>3 DEF ObjectStep, Around, server
  <2> HIDE DEF in
  <2>4. Owed(c)'
    <3>1. CASE c \in connections
      BY <2>1, <3>1 DEF Owed, server
    <3>2. CASE c \notin connections
      <4>1. Before(Work(l), Job("established", c), Job("destroyed", c))
        BY <3>2 DEF Lifetimes, DestroyedLast
      <4>2. Job("destroyed", c) \in Jobs(l)'
        BY <2>2, <4>1, WorkStep
      <4> QED  BY <2>1, <4>2 DEF Owed
    <3> QED  BY <3>1, <3>2
  <2> QED  BY <2>2, <2>3, <2>4, ObjectStepKeeps
<1> QED  BY <1>1, <1>2

(* handelClose queues the removal, or the destruction.                      *)
LEMMA CloseKeeps ==
  ASSUME Types, Lifetimes, Types', NEW l \in Loops, NEW c \in Conns, NEW out,
         Taken(l, out), Around(c, out), loop[c] = l,
         Job("remove", c) \notin out, Job("destroyed", c) \notin out, HandleClose(l, c)
  PROVE  Lifetimes'
<1> USE DEF Types, ObjectsOK
<1>0. Base \in Loops
  BY DEF Loops
<1>1. CASE \E r \in {"close", "update"} : Abort(r)
  <2>1. PICK r \in {"close", "update"} : Abort(r)
    BY <1>1
  <2>2. r # None
    BY DEF None
  <2> QED  BY <2>1, <2>2, AbortKeeps
<1>2. CASE ~\E r \in {"close", "update"} : Abort(r)
  <2> DEFINE j == IF l = Base THEN Job("destroyed", c) ELSE Job("remove", c)
             in == {<<Base, j>>}
  <2>1. /\ state' = [state EXCEPT ![c] = "kDisconnected"] /\ Update(c, "none")
        /\ IF l = Base THEN connections' = connections \ {c} ELSE UNCHANGED connections
        /\ UNCHANGED <<loop, fd, deployment, next, held, ups, failed>>
    BY <1>2 DEF HandleClose
  <2>2. Put(in)
    BY <1>0, <1>2 DEF HandleClose, Put
  <2>3. ObjectStep(c, in, out)
    <3>1. \A d \in Conns \ {c} : state'[d] = state[d] /\ chan'[d] = chan[d]
      BY <2>1 DEF SocketOK, Update
    <3>2. \A m \in Loops, f \in Fds : \/ channels'[m][f] = channels[m][f]
                                      \/ channels'[m][f] = c /\ m = loop[c] /\ f = fd[c]
      BY <2>1 DEF SocketOK, Update
    <3>3. Accepted(c)'
      BY <2>1 DEF Accepted, SocketOK, None
    <3>4. \A k, x : <<k, x>> \in in => x.conn = c /\ x.fn # "established" /\ k = Home(x)
      BY JobProperties DEF Home
    <3>5. /\ connections' \subseteq connections /\ connections \ connections' \subseteq {c}
          /\ c \in connections \ connections' => <<loop[c], Job("destroyed", c)>> \in in
      BY <2>1
    <3> HIDE DEF in
    <3> QED  BY <2>1, <3>1, <3>2, <3>3, <3>4, <3>5 DEF ObjectStep, Around
  <2>4. Owed(c)'
    <3>1. \A k \in Loops : \A x : <<k, x>> \in in => x \in Jobs(k)'
      <4> HIDE DEF in
      <4> QED  BY <2>2, WorkStep
    <3>2. j \in Jobs(Base)'
      BY <1>0, <3>1
    <3> QED  BY <2>1, <3>2 DEF Owed
  <2> HIDE DEF in
  <2> QED  BY <2>2, <2>3, <2>4, ObjectStepKeeps
<1> QED  BY <1>1, <1>2

(* removeConnectionInLoop passes the connection on to its loop.             *)
LEMMA RemoveKeeps ==
  ASSUME Types, Lifetimes, Types', NEW c \in Conns, NEW out,
         Taken(Base, out), Around(c, out), RemoveConnectionInLoop(c)
  PROVE  Lifetimes'
<1> USE DEF Types, ObjectsOK
<1>0. Base \in Loops /\ loop[c] \in Loops
  BY DEF Loops, SocketOK
<1> DEFINE in == {<<loop[c], Job("destroyed", c)>>}
<1>1. PICK k : k = loop[c]
  OBVIOUS
<1>2. Put(in)
  BY <1>0 DEF RemoveConnectionInLoop, Put
<1>3. ObjectStep(c, in, out)
  <2>1. \A m, x : <<m, x>> \in in => x.conn = c /\ x.fn # "established" /\ m = Home(x)
    BY JobProperties DEF Home
  <2>2. connections' = connections \ {c} /\ UNCHANGED <<socket, held, failed>>
    BY DEF RemoveConnectionInLoop
  <2> QED  BY <2>1, <2>2 DEF ObjectStep, Around, socket, Accepted
<1>4. Owed(c)'
  <2>0. \A m \in Loops : \A x : <<m, x>> \in in => x \in Jobs(m)'
    <3> HIDE DEF in
    <3> QED  BY <1>0, <1>2, WorkStep
  <2>1. Job("destroyed", c) \in Jobs(k)'
    BY <1>0, <1>1, <2>0
  <2>2. loop'[c] = k
    BY <1>1 DEF RemoveConnectionInLoop, socket
  <2> QED  BY <2>1, <2>2 DEF Owed
<1> HIDE DEF in
<1> QED  BY <1>0, <1>2, <1>3, <1>4, ObjectStepKeeps

(* connectDestroyed takes it out of the poller.                             *)
LEMMA DestroyedKeeps ==
  ASSUME Types, Lifetimes, Types', NEW l \in Loops, NEW c \in Conns, NEW out,
         Taken(l, out), Around(c, out), out = {Job("destroyed", c)}, loop[c] = l,
         phase[l] = "functors", ConnectDestroyed(c)
  PROVE  Lifetimes'
<1> USE DEF Types, ObjectsOK
<1>0. Job("remove", c) \notin out /\ c # Acceptor /\ c # None
  BY JobProperties, ServerAssumption DEF Acceptor, None
<1>1. \A m \in Loops : c \notin active[m]
  <2>1. active[l] = {}
    BY DEF LoopsOK
  <2> QED  BY <1>0, <2>1 DEF Lifetimes, ActiveIsOwed
<1>2. CASE RemoveFails(c)
  <2>1. Abort("remove") /\ "remove" # None /\ Slot(c) # c
    BY <1>2 DEF ConnectDestroyed, None, RemoveFails
  <2> QED  BY <1>0, <1>1, <2>1, AbortKeeps
<1>3. CASE ~RemoveFails(c)
  <2>1. PICK ev : Remove(c, ev)
    BY <1>3 DEF ConnectDestroyed
  <2>2. UNCHANGED <<state, loop, fd, server, pending, held, ups, failed>>
    BY <1>3 DEF ConnectDestroyed
  <2> DEFINE in == {}
  <2>3. Put(in)
    BY <2>2 DEF Put
  <2>4. \A m \in Loops, f \in Fds : IF m = loop[c] /\ f = fd[c] THEN channels'[m][f] = None
                                    ELSE channels'[m][f] = channels[m][f]
    BY <2>1 DEF SocketOK, Remove
  <2>5. chan'[c].index = "KNew" /\ \A d \in Conns \ {c} : chan'[d] = chan[d]
    BY <2>1 DEF SocketOK, Remove
  <2>6. ObjectStep(c, in, out)
    BY <2>2, <2>4, <2>5 DEF ObjectStep, Around, server, Accepted
  <2> HIDE DEF in
  <2>7. Forgotten(c)'
    <3>1. \A m \in Loops, f \in Fds : channels'[m][f] # c
      BY <1>0, <2>4 DEF Lifetimes, RegisteredIsOwed
    <3>2. \A m \in Loops : c \notin active'[m]
      BY <1>1 DEF Around
    <3> QED  BY <2>5, <3>1, <3>2 DEF Forgotten
  <2> QED  BY <2>3, <2>6, <2>7, ObjectStepKeeps
<1> QED  BY <1>2, <1>3

(* A loop runs the functor at the head of its batch.                        *)
LEMMA RunFunctorKeeps ==
  ASSUME Types, Lifetimes, Types', NEW l \in Loops, RunFunctor(l)
  PROVE  Lifetimes'
<1> USE DEF Types, ObjectsOK
<1>1. PICK j : j = Head(batch[l])
  OBVIOUS
<1>2. PICK c : c = j.conn
  OBVIOUS
<1>3. PICK out : out = {j}
  OBVIOUS
<1>4. /\ failed = None /\ phase[l] = "functors" /\ batch[l] # <<>>
      /\ batch' = [batch EXCEPT ![l] = Tail(@)] /\ UNCHANGED <<kernel, phase, active, upc>>
  BY DEF RunFunctor
<1>5. Taken(l, out)
  BY <1>1, <1>3, <1>4 DEF Taken
<1>6. j \in Jobs(l)
  <2>1. batch[l] \in Seq(Functor) /\ pending[l] \in Seq(Functor)
    BY DEF LoopsOK, PendingOK
  <2>2. Head(batch[l] \o pending[l]) = j /\ batch[l] \o pending[l] # <<>>
        /\ batch[l] \o pending[l] \in Seq(Functor)
    BY <1>1, <1>4, <2>1, JoinedJobs, ConcatProperties
  <2> QED  BY <2>2, TailJobs DEF Jobs, Work
<1>7. j \in Functor /\ j = Job(j.fn, c) /\ c \in Conns
  BY <1>2, <1>6, JobsAreFunctors, JobProperties
<1>8. Accepted(c) /\ l = Home(j)
  BY <1>2, <1>6 DEF Lifetimes, JobsPlaced
<1>9. Around(c, out)
  BY <1>2, <1>3, <1>4, <1>8 DEF Around, kernel
<1>10. /\ j.fn = "established" => ConnectEstablished(c)
       /\ j.fn = "forceClose" => ForceCloseInLoop(l, c)
       /\ j.fn = "remove" => RemoveConnectionInLoop(c)
       /\ j.fn = "destroyed" => ConnectDestroyed(c)
       /\ j.fn \in {"established", "forceClose", "remove", "destroyed"}
  BY <1>1, <1>2, <1>7 DEF RunFunctor, Functor
<1>11. CASE j.fn = "established"
  BY <1>2, <1>3, <1>5, <1>7, <1>8, <1>9, <1>10, <1>11, EstablishedKeeps DEF Home
<1>12. CASE j.fn = "forceClose"
  <2>1. Job("remove", c) \notin out /\ Job("destroyed", c) \notin out /\ loop[c] = l
    BY <1>2, <1>3, <1>7, <1>8, <1>12, JobProperties DEF Home
  <2>2. CASE HandleClose(l, c)
    BY <1>5, <1>7, <1>9, <2>1, <2>2, CloseKeeps
  <2>3. CASE UNCHANGED <<socket, server, pending, held, calls, failed>>
    <3> DEFINE in == {}
    <3>1. Put(in) /\ UNCHANGED <<channels, connections, chan>>
      BY <2>3 DEF Put, socket, server
    <3>2. ObjectStep(c, in, out)
      BY <1>9, <2>3 DEF ObjectStep, Around, socket, server, Accepted
    <3> HIDE DEF in
    <3>3. Owed(c)' \/ Forgotten(c)'
      BY <1>5, <1>7, <2>1, <3>1, <3>2, StandStill
    <3> QED  BY <1>5, <1>7, <3>1, <3>2, <3>3, ObjectStepKeeps
  <2> QED  BY <1>10, <1>12, <2>2, <2>3 DEF ForceCloseInLoop
<1>13. CASE j.fn = "remove"
  <2>1. l = Base
    BY <1>8, <1>13 DEF Home
  <2> QED  BY <1>5, <1>7, <1>9, <1>10, <1>13, <2>1, RemoveKeeps
<1>14. CASE j.fn = "destroyed"
  BY <1>2, <1>3, <1>4, <1>5, <1>7, <1>8, <1>9, <1>10, <1>14, DestroyedKeeps DEF Home
<1> QED  BY <1>10, <1>11, <1>12, <1>13, <1>14

(* A channel is handled.                                                    *)
LEMMA HandleKeeps ==
  ASSUME Types, Lifetimes, Types', NEW l \in Loops, NEW c \in Conns, Handle(l, c)
  PROVE  Lifetimes'
<1> USE DEF Types, ObjectsOK
<1> DEFINE out == {}
<1>1. /\ failed = None /\ phase[l] = "handle" /\ c \in active[l]
      /\ active' = [active EXCEPT ![l] = @ \ {c}] /\ UNCHANGED <<phase, batch, upc>>
  BY DEF Handle
<1>2. Taken(l, out)
  BY <1>1 DEF Taken
<1>3. loop[c] = l /\ Accepted(c)
  <2>1. c # Acceptor
    BY ServerAssumption DEF Acceptor
  <2> QED  BY <1>1, <2>1, OwedIsAccepted DEF Lifetimes, ActiveIsOwed
<1>4. \A m \in Loops : active'[m] \subseteq active[m]
  BY <1>1 DEF LoopsOK
<1>5. Job("remove", c) \notin out /\ Job("destroyed", c) \notin out
  OBVIOUS
<1>6. CASE HandleMessage(l, c)
  <2>1. UNCHANGED <<chan, channels, connections, peer, loop, fd, held, failed>>
    BY <1>6 DEF HandleMessage, server
  <2>2. PICK in : in = IF pending' = pending THEN {} ELSE {<<l, Job("forceClose", c)>>}
    OBVIOUS
  <2>3. Put(in)
    BY <1>6, <2>2 DEF HandleMessage, Put
  <2>4. \A d \in Conns : state'[d] = IF d = c /\ state' # state THEN "kDisconnecting" ELSE state[d]
    BY <1>6 DEF HandleMessage, SocketOK
  <2>5. \A k, x : <<k, x>> \in in => x.conn = c /\ x.fn # "established" /\ k = Home(x)
    BY <1>3, <2>2, JobProperties DEF Home
  <2>6. Accepted(c)'
    BY <1>3, <2>4 DEF Accepted, None
  <2>7. ObjectStep(c, in, out)
    <3> HIDE DEF out
    <3>1. \A j \in out : j.conn = c
      BY DEF out
    <3> QED  BY <1>1, <1>3, <1>4, <2>1, <2>4, <2>5, <2>6, <3>1 DEF ObjectStep
  <2> HIDE DEF out
  <2>8. Owed(c)' \/ Forgotten(c)'
    BY <1>2, <1>5, <2>1, <2>3, <2>7, StandStill
  <2> QED  BY <1>2, <2>3, <2>7, <2>8, ObjectStepKeeps
<1>7. CASE HandleClose(l, c) /\ UNCHANGED kernel
  <2>1. Around(c, out)
    BY <1>1, <1>3, <1>4, <1>7 DEF Around, kernel
  <2> HIDE DEF out
  <2> QED  BY <1>2, <1>3, <1>5, <1>7, <2>1, CloseKeeps
<1>8. CASE /\ peer' = [peer EXCEPT ![c] = "hup"]
           /\ UNCHANGED <<data, socket, server, pending, held, calls, failed>>
  <2> DEFINE in == {}
  <2>1. Put(in) /\ UNCHANGED <<channels, connections, chan>>
    BY <1>8 DEF Put, socket, server
  <2>2. \A d \in Conns : peer'[d] \in {"absent", "waiting"} => peer'[d] = peer[d]
    BY <1>8 DEF KernelOK
  <2>3. ObjectStep(c, in, out)
    BY <1>1, <1>3, <1>4, <1>8, <2>2 DEF ObjectStep, socket, server, Accepted
  <2> HIDE DEF in, out
  <2>4. Owed(c)' \/ Forgotten(c)'
    BY <1>2, <1>5, <2>1, <2>3, StandStill
  <2> QED  BY <1>2, <2>1, <2>3, <2>4, ObjectStepKeeps
<1>9. \/ HandleMessage(l, c)
      \/ HandleClose(l, c) /\ UNCHANGED kernel
      \/ /\ peer' = [peer EXCEPT ![c] = "hup"]
         /\ UNCHANGED <<data, socket, server, pending, held, calls, failed>>
  BY DEF Handle
<1> QED  BY <1>6, <1>7, <1>8, <1>9

(* A user closes a connection it keeps.                                     *)
LEMMA ForceCloseKeeps ==
  ASSUME Types, Lifetimes, Types', NEW u \in Users,
         ForceCloseQueue(u) \/ \E c \in Conns : ForceClose(u, c)
  PROVE  Lifetimes'
<1> USE DEF Types, ObjectsOK
<1> DEFINE out == {}
<1>0. Base \in Loops /\ failed = None
  BY DEF Loops, ForceCloseQueue, ForceClose
<1>1. CASE ForceCloseQueue(u)
  <2>1. PICK c \in Conns : c = upc[u]
    BY <1>1 DEF ForceCloseQueue
  <2>2. /\ pending' = Push(pending, loop[c], "forceClose", c)
        /\ upc' = [upc EXCEPT ![u] = "done"]
        /\ UNCHANGED <<socket, kernel, server, phase, active, batch, held, calls, failed>>
    BY <1>1, <2>1 DEF ForceCloseQueue
  <2>3. PICK in : in = {<<loop[c], Job("forceClose", c)>>}
    OBVIOUS
  <2>4. Put(in) /\ Taken(Base, out)
    BY <2>2, <2>3 DEF Put, Taken, SocketOK
  <2>5. Accepted(c)
    BY <2>1 DEF Lifetimes, OnlyAcceptedKnown
  <2>6. \A k, x : <<k, x>> \in in => x.conn = c /\ x.fn # "established" /\ k = Home(x)
    BY <2>3, JobProperties DEF Home
  <2>7. \A v \in Users : upc'[v] = upc[v] \/ upc'[v] = "done"
    BY <2>2 DEF UpcOK
  <2>8. ObjectStep(c, in, out)
    BY <1>0, <2>2, <2>5, <2>6, <2>7 DEF ObjectStep, socket, server, kernel, Accepted
  <2>9. Job("remove", c) \notin out /\ Job("destroyed", c) \notin out
        /\ UNCHANGED <<channels, connections, chan>>
    BY <2>2 DEF socket, server
  <2> HIDE DEF out
  <2>10. Owed(c)' \/ Forgotten(c)'
    BY <1>0, <2>4, <2>8, <2>9, StandStill
  <2> QED  BY <1>0, <2>4, <2>8, <2>10, ObjectStepKeeps
<1>2. CASE \E c \in Conns : ForceClose(u, c)
  <2>1. PICK c \in Conns : ForceClose(u, c)
    BY <1>2
  <2>2. PICK in : in = {}
    OBVIOUS
  <2>3. Put(in) /\ Taken(Base, out)
    BY <2>1, <2>2 DEF Put, Taken, ForceClose, work
  <2>4. Accepted(c) /\ Accepted(c)'
    BY <2>1 DEF Lifetimes, OnlyAcceptedKnown, ForceClose, Accepted, SocketOK, None
  <2>5. /\ \A v \in Users : upc'[v] = upc[v] \/ upc'[v] = c
        /\ \A d \in Conns \ {c} : state'[d] = state[d]
    BY <2>1 DEF UpcOK, ForceClose, SocketOK
  <2>6. UNCHANGED <<loop, fd, chan, channels, kernel, server, work, held, calls, failed>>
    BY <2>1 DEF ForceClose
  <2>7. ObjectStep(c, in, out)
    BY <1>0, <2>2, <2>4, <2>5, <2>6 DEF ObjectStep, server, kernel, work
  <2>8. Job("remove", c) \notin out /\ Job("destroyed", c) \notin out
        /\ UNCHANGED <<channels, connections, chan>>
    BY <2>6 DEF server
  <2> HIDE DEF out
  <2>9. Owed(c)' \/ Forgotten(c)'
    BY <1>0, <2>3, <2>7, <2>8, StandStill
  <2> QED  BY <1>0, <2>3, <2>7, <2>9, ObjectStepKeeps
<1> QED  BY <1>1, <1>2

(* Steps that leave the connections and the work of the loops alone.        *)
LEMMA ElsewhereKeeps ==
  ASSUME Types, Lifetimes, failed = None,
         UNCHANGED <<socket, connections>>,
         \A k \in Loops : Work(k)' = Work(k),
         \A k \in Loops : phase[k] = "exited" => phase'[k] = "exited",
         \A k \in Loops : \A d \in active'[k] \ {Acceptor} :
            d \in active[k] \/ (loop[d] = k /\ chan[d].index = "KAdded" /\ phase[k] # "exited"),
         held' \subseteq held, UNCHANGED upc,
         \A d \in Conns : peer'[d] \in {"absent", "waiting"} => peer[d] \in {"absent", "waiting"},
         Types'
  PROVE  Lifetimes'
<1> USE DEF Types, ObjectsOK
<1>1. /\ UNCHANGED <<state, loop, fd, chan, channels, connections>>
      /\ Base \in Loops /\ \A d \in Conns : loop[d] \in Loops
      /\ \A k \in Loops : Jobs(k)' = Jobs(k)
  BY DEF socket, Loops, SocketOK, Jobs
<1>2. \A d \in Conns : Owed(d)' <=> Owed(d)
  BY <1>1 DEF Owed
<1>3. JobsPlaced'
  BY <1>1 DEF Lifetimes, JobsPlaced, Accepted, Home
<1>4. OnlyAcceptedKnown'
  BY <1>1 DEF Lifetimes, OnlyAcceptedKnown, Accepted
<1>5. RegisteredIsOwed'
  BY <1>1, <1>2 DEF Lifetimes, RegisteredIsOwed
<1>6. EnabledIsOwed'
  BY <1>1, <1>2 DEF Lifetimes, EnabledIsOwed
<1>7. ActiveIsOwed'
  <2> SUFFICES ASSUME NEW k \in Loops, NEW d \in active'[k] \ {Acceptor}
               PROVE  loop[d] = k /\ Owed(d)'
    BY <1>1 DEF ActiveIsOwed
  <2>1. d \in Conns
    BY DEF LoopsOK
  <2>2. CASE d \in active[k]
    BY <1>2, <2>1, <2>2 DEF Lifetimes, ActiveIsOwed
  <2>3. CASE loop[d] = k /\ chan[d].index = "KAdded" /\ phase[k] # "exited"
    BY <1>2, <2>1, <2>3 DEF Lifetimes, EnabledIsOwed
  <2> QED  BY <2>2, <2>3
<1>8. DestroyedLast'
  <2> SUFFICES ASSUME NEW d \in Conns, d \notin connections
               PROVE  Before(Work(loop[d]), Job("established", d), Job("destroyed", d))'
    BY <1>1 DEF DestroyedLast
  <2>1. Before(Work(loop[d]), Job("established", d), Job("destroyed", d))
    BY DEF Lifetimes, DestroyedLast
  <2>2. \A k \in Loops : k = loop[d] => Work(k)' = Work(loop[d])
    OBVIOUS
  <2>3. Work(loop[d])' = Work(loop[d])
    BY <1>1, <2>2
  <2> QED  BY <2>1, <2>3 DEF Before
<1> QED  BY <1>3, <1>4, <1>5, <1>6, <1>7, <1>8 DEF Lifetimes

(* Polling, taking the batch and ending an iteration leave the work as it   *)
(* is, and in its order.                                                    *)
LEMMA IterationWork ==
  ASSUME Types, NEW l \in Loops, Poll(l) \/ TakeFunctors(l) \/ EndIteration(l)
  PROVE  \A k \in Loops : Work(k)' = Work(k)
<1> USE DEF Types, ObjectsOK
<1>1. ASSUME NEW k \in Loops, Poll(l) \/ EndIteration(l)
      PROVE  Work(k)' = Work(k)
  BY <1>1 DEF Poll, EndIteration, Work
<1>2. ASSUME NEW k \in Loops, TakeFunctors(l)
      PROVE  Work(k)' = Work(k)
  <2>1. batch[l] = <<>> /\ pending[l] \in Seq(Functor)
    BY <1>2 DEF TakeFunctors, LoopsOK, PendingOK
  <2>2. batch' = [batch EXCEPT ![l] = pending[l]] /\ pending' = [pending EXCEPT ![l] = <<>>]
    BY <1>2 DEF TakeFunctors
  <2>3. CASE k # l
    BY <2>2, <2>3 DEF Work, LoopsOK, PendingOK
  <2>4. CASE k = l
    <3>1. batch'[k] = pending[k] /\ pending'[k] = <<>> /\ batch[k] = <<>>
      BY <2>1, <2>2, <2>4 DEF LoopsOK, PendingOK
    <3>2. pending[k] \o <<>> = pending[k] /\ <<>> \o pending[k] = pending[k]
      BY <2>1, <2>4, ConcatEmptySeq
    <3> QED  BY <3>1, <3>2 DEF Work
  <2> QED  BY <2>3, <2>4
<1> QED  BY <1>1, <1>2

(* They are the peers', the kernel's, a release, and most of a loop's.      *)
LEMMA OtherStepsKeep ==
  ASSUME Types, Lifetimes, Types',
         \/ \E c \in Conns : \/ PeerConnects(c) \/ PeerGivesUp(c) \/ PeerSends(c)
                             \/ PeerCloses(c) \/ Release(c) \/ Refuse(c)
         \/ AcceptNothing
         \/ \E l \in Loops : Poll(l) \/ TakeFunctors(l) \/ EndIteration(l)
  PROVE  Lifetimes'
<1> USE DEF Types, ObjectsOK
<1>1. CASE \E c \in Conns : \/ PeerConnects(c) \/ PeerGivesUp(c) \/ PeerSends(c)
                            \/ PeerCloses(c) \/ Release(c)
  <2>1. PICK c \in Conns : \/ PeerConnects(c) \/ PeerGivesUp(c) \/ PeerSends(c)
                           \/ PeerCloses(c) \/ Release(c)
    BY <1>1
  <2>2. /\ failed = None /\ UNCHANGED <<socket, server, work, upc>> /\ held' \subseteq held
    BY <2>1 DEF PeerConnects, PeerGivesUp, PeerSends, PeerCloses, Release, user
  <2>3. \A d \in Conns : peer'[d] \in {"absent", "waiting"} => peer[d] \in {"absent", "waiting"}
    BY <2>1 DEF PeerConnects, PeerGivesUp, PeerSends, PeerCloses, Release, kernel, KernelOK
  <2>4. \A k \in Loops : Work(k)' = Work(k)
    BY <2>2 DEF Work, work
  <2>5. UNCHANGED <<connections, phase, active>>
    BY <2>2 DEF server, work
  <2> QED  BY <2>2, <2>3, <2>4, <2>5, ElsewhereKeeps
<1>2. CASE AcceptNothing \/ \E c \in Conns : Refuse(c)
  <2>1. /\ HandleAcceptor
        /\ UNCHANGED <<socket, connections, pending, held>>
        /\ peer' = peer \/ \E c \in Conns : peer' = [peer EXCEPT ![c] = "refused"]
    BY <1>2 DEF AcceptNothing, Refuse
  <2>2. /\ failed = None /\ active' = [active EXCEPT ![Base] = @ \ {Acceptor}]
        /\ UNCHANGED <<phase, batch, upc>>
    BY <2>1 DEF HandleAcceptor
  <2>3. \A d \in Conns : peer'[d] \in {"absent", "waiting"} => peer[d] \in {"absent", "waiting"}
    BY <2>1 DEF KernelOK
  <2>4. \A k \in Loops : Work(k)' = Work(k) /\ active'[k] \subseteq active[k]
    BY <2>1, <2>2 DEF Work, LoopsOK
  <2> QED  BY <2>1, <2>2, <2>3, <2>4, ElsewhereKeeps
<1>3. CASE \E l \in Loops : Poll(l) \/ TakeFunctors(l) \/ EndIteration(l)
  <2>1. PICK l \in Loops : Poll(l) \/ TakeFunctors(l) \/ EndIteration(l)
    BY <1>3
  <2>2. failed = None /\ UNCHANGED <<socket, kernel, server, user>>
    BY <2>1 DEF Poll, TakeFunctors, EndIteration
  <2>3. UNCHANGED <<connections, held, upc, peer>>
    BY <2>2 DEF server, user, kernel
  <2>4. \A k \in Loops : /\ phase[k] = "exited" => phase'[k] = "exited"
                         /\ k # l => phase'[k] = phase[k]
        /\ phase[l] # "exited"
    BY <2>1 DEF Poll, TakeFunctors, EndIteration, LoopsOK
  <2>5. \A k \in Loops : \A d \in active'[k] \ {Acceptor} :
           d \in active[k] \/ (loop[d] = k /\ chan[d].index = "KAdded" /\ phase[k] # "exited")
    <3>1. CASE Poll(l)
      <4>1. active' = [active EXCEPT ![l] = Ready(l) \union Listening(l)]
        BY <3>1 DEF Poll
      <4>2. \A d \in Ready(l) : loop[d] = l /\ chan[d].index = "KAdded"
        BY DEF Ready
      <4>3. Listening(l) \subseteq {Acceptor}
        BY DEF Listening
      <4> QED  BY <2>4, <4>1, <4>2, <4>3 DEF LoopsOK
    <3>2. CASE TakeFunctors(l) \/ EndIteration(l)
      BY <3>2 DEF TakeFunctors, EndIteration
    <3> QED  BY <2>1, <3>1, <3>2
  <2>6. \A k \in Loops : Work(k)' = Work(k)
    BY <2>1, IterationWork
  <2> QED  BY <2>2, <2>3, <2>4, <2>5, <2>6, ElsewhereKeeps
<1> QED  BY <1>1, <1>2, <1>3

(* A connection is accepted and is in the map.                              *)
LEMMA AcceptKeeps ==
  ASSUME Types, Lifetimes, Types', NEW c \in Conns, NEW f \in Fds, Accept(c, f)
  PROVE  Lifetimes'
<1> USE DEF Types, ObjectsOK
<1> DEFINE out == {}
<1>1. /\ failed = None /\ phase[Base] = "handle"
      /\ active' = [active EXCEPT ![Base] = @ \ {Acceptor}]
      /\ UNCHANGED <<phase, batch, upc>> /\ peer[c] = "waiting"
      /\ peer' = [peer EXCEPT ![c] = "open"] /\ OnNewConnection(c, f)
  BY DEF Accept, HandleAcceptor, Backlog
<1>2. Base \in Loops /\ NextLoop \in Loops
  BY PoolProperties
<1>3. PICK n \in Loops : n = NextLoop
  BY <1>2
<1>4. ~Accepted(c) /\ ~Owed(c)
  BY <1>1, OwedIsAccepted DEF Lifetimes, OnlyAcceptedKnown
<1>5. /\ loop' = [loop EXCEPT ![c] = n] /\ fd' = [fd EXCEPT ![c] = f]
      /\ connections' = connections \union {c}
      /\ held' \subseteq held \union {c}
      /\ pending' = pending \/ pending' = Push(pending, n, "established", c)
      /\ \/ state' = [state EXCEPT ![c] = "kConnecting"]
         \/ state' = [state EXCEPT ![c] = "kConnected"]
      /\ \/ UNCHANGED <<chan, channels>>
         \/ /\ n = Base
            /\ chan' = [chan EXCEPT ![c] =
                 [index |-> "KAdded", events |-> "read", added |-> TRUE]]
            /\ channels' = [channels EXCEPT ![Base][f] = c]
      /\ failed' = None \/ failed' = "update"
  BY <1>1, <1>3 DEF OnNewConnection, KeptWith
<1>6. /\ loop'[c] = n /\ fd'[c] = f /\ Accepted(c)'
      /\ \A d \in Conns \ {c} : /\ loop'[d] = loop[d] /\ fd'[d] = fd[d] /\ state'[d] = state[d]
                                /\ chan'[d] = chan[d] /\ peer'[d] = peer[d]
                                /\ Accepted(d)' <=> Accepted(d)
  BY <1>1, <1>5 DEF SocketOK, Accepted, KernelOK, None
<1>7. PICK in : in = IF pending' = pending THEN {} ELSE {<<n, Job("established", c)>>}
  OBVIOUS
<1>8. Taken(Base, out) /\ Put(in)
  BY <1>1, <1>5, <1>7 DEF Taken, Put
<1> HIDE DEF out
<1>9. /\ \A k \in Loops : \A j \in Jobs(k)' : j \in Jobs(k) \/ <<k, j>> \in in
      /\ \A k \in Loops : \A j \in Jobs(k) : j \in Jobs(k)'
      /\ \A k \in Loops : \A x, y : Before(Work(k), x, y) /\ <<k, x>> \notin in
                                    => Before(Work(k), x, y)'
  <2>1. out = {}
    BY DEF out
  <2> QED  BY <1>2, <1>8, <2>1, WorkStep
<1>10. ASSUME NEW d \in Conns, Owed(d)
       PROVE  d # c /\ Owed(d)'
  <2>1. d # c
    BY <1>4, <1>10
  <2>2. \A k \in Loops : k = loop[d] /\ Job("destroyed", d) \in Jobs(k) => Job("destroyed", d) \in Jobs(k)'
    BY <1>9
  <2>3. loop[d] \in Loops /\ loop'[d] = loop[d]
    BY <1>6, <2>1 DEF SocketOK
  <2>4. CASE d \in connections
    BY <1>5, <2>1, <2>4 DEF Owed
  <2>5. CASE Job("remove", d) \in Jobs(Base)
    BY <1>2, <1>9, <2>1, <2>5 DEF Owed
  <2>6. CASE Job("destroyed", d) \in Jobs(loop[d])
    BY <2>1, <2>2, <2>3, <2>6 DEF Owed
  <2> QED  BY <1>10, <2>1, <2>4, <2>5, <2>6 DEF Owed
<1>11. Owed(c)'
  BY <1>5 DEF Owed
<1>12. JobsPlaced'
  <2> SUFFICES ASSUME NEW k \in Loops, NEW j \in Jobs(k)'
               PROVE  Accepted(j.conn)' /\ k = Home(j)'
    BY DEF JobsPlaced
  <2>1. CASE j \in Jobs(k)
    <3>1. Accepted(j.conn) /\ k = Home(j) /\ j.conn \in Conns
      BY <2>1, JobsAreFunctors, JobProperties DEF Lifetimes, JobsPlaced
    <3>2. j.conn \in Conns \ {c}
      BY <1>4, <3>1
    <3> QED  BY <1>6, <3>1, <3>2 DEF Home
  <2>2. CASE <<k, j>> \in in
    <3>1. k = n /\ j = Job("established", c)
      BY <1>7, <2>2
    <3>2. j.conn = c /\ j.fn # "remove"
      BY <3>1, JobProperties
    <3> QED  BY <1>6, <3>1, <3>2 DEF Home
  <2> QED  BY <1>9, <2>1, <2>2
<1>13. OnlyAcceptedKnown'
  <2> SUFFICES ASSUME NEW d \in Conns
               PROVE  IF Accepted(d)' THEN fd'[d] \in Fds /\ peer'[d] \notin {"absent", "waiting"}
                      ELSE /\ chan'[d].index = "KNew" /\ d \notin connections' /\ d \notin held'
                           /\ \A u \in Users : upc'[u] # d
    BY DEF OnlyAcceptedKnown
  <2>1. CASE d = c
    BY <1>1, <1>6, <2>1 DEF KernelOK
  <2>2. CASE d # c
    BY <1>1, <1>5, <1>6, <2>2 DEF Lifetimes, OnlyAcceptedKnown
  <2> QED  BY <2>1, <2>2
<1>14. RegisteredIsOwed'
  <2> SUFFICES ASSUME NEW m \in Loops, NEW g \in Fds, NEW d \in Conns, channels'[m][g] = d
               PROVE  loop'[d] = m /\ fd'[d] = g /\ Owed(d)'
    BY DEF RegisteredIsOwed
  <2>1. CASE channels[m][g] = d
    <3>1. loop[d] = m /\ fd[d] = g /\ Owed(d)
      BY <2>1 DEF Lifetimes, RegisteredIsOwed
    <3>2. d # c /\ Owed(d)'
      BY <1>10, <3>1
    <3> QED  BY <1>6, <3>1, <3>2
  <2>2. CASE channels[m][g] # d
    <3>1. n = Base /\ channels' = [channels EXCEPT ![Base][f] = c]
      BY <1>5, <2>2
    <3>2. m = Base /\ g = f /\ d = c
      BY <2>2, <3>1 DEF SocketOK
    <3> QED  BY <1>6, <1>11, <3>1, <3>2
  <2> QED  BY <2>1, <2>2
<1>15. EnabledIsOwed'
  <2> SUFFICES ASSUME NEW d \in Conns, chan'[d].index = "KAdded", phase'[loop'[d]] # "exited"
               PROVE  Owed(d)'
    BY DEF EnabledIsOwed
  <2>1. CASE d = c
    BY <1>11, <2>1
  <2>2. CASE d # c
    <3>1. Owed(d)
      BY <1>1, <1>6, <2>2 DEF Lifetimes, EnabledIsOwed
    <3> QED  BY <1>10, <3>1
  <2> QED  BY <2>1, <2>2
<1>16. ActiveIsOwed'
  <2> SUFFICES ASSUME NEW m \in Loops, NEW d \in active'[m] \ {Acceptor}
               PROVE  loop'[d] = m /\ Owed(d)'
    BY DEF ActiveIsOwed
  <2>1. d \in active[m] \ {Acceptor} /\ d \in Conns
    BY <1>1 DEF LoopsOK
  <2>2. loop[d] = m /\ Owed(d)
    BY <2>1 DEF Lifetimes, ActiveIsOwed
  <2>3. d # c /\ Owed(d)'
    BY <1>10, <2>1, <2>2
  <2> QED  BY <1>6, <2>1, <2>2, <2>3
<1>17. DestroyedLast'
  <2> SUFFICES ASSUME NEW d \in Conns, d \notin connections'
               PROVE  Before(Work(loop[d]), Job("established", d), Job("destroyed", d))'
    BY DEF DestroyedLast
  <2>1. d # c /\ d \notin connections
    BY <1>5
  <2>2. Before(Work(loop[d]), Job("established", d), Job("destroyed", d))
    BY <2>1 DEF Lifetimes, DestroyedLast
  <2>3. <<loop[d], Job("established", d)>> \notin in
    BY <1>7, <2>1, JobProperties
  <2>4. \A k \in Loops : k = loop[d] => Before(Work(k), Job("established", d), Job("destroyed", d))'
    BY <1>9, <2>2, <2>3
  <2>5. loop'[d] = loop[d] /\ loop[d] \in Loops
    BY <1>6, <2>1 DEF SocketOK
  <2> QED  BY <2>4, <2>5
<1> QED  BY <1>12, <1>13, <1>14, <1>15, <1>16, <1>17 DEF Lifetimes

(* Putting several jobs at the end of a queue.                              *)
LEMMA ConcatJobs ==
  ASSUME NEW S, NEW s \in Seq(S), NEW t \in Seq(S)
  PROVE  /\ Range(s \o t) = Range(s) \union Range(t)
         /\ \A x, y : /\ Before(s, x, y) /\ x \notin Range(t) => Before(s \o t, x, y)
                      /\ y \in Range(t) /\ x \notin Range(t) => Before(s \o t, x, y)
<1> DEFINE u == s \o t
           m == Len(s)
           n == Len(t)
<1>1. /\ m \in Nat /\ n \in Nat /\ DOMAIN s = 1..m /\ DOMAIN t = 1..n /\ DOMAIN u = 1..(m + n)
      /\ \A i \in 1..(m + n) : u[i] = IF i <= m THEN s[i] ELSE t[i - m]
  BY ConcatProperties, LenProperties
<1> HIDE DEF u, m, n
<1>2. /\ \A i \in DOMAIN s : i \in DOMAIN u /\ u[i] = s[i]
      /\ \A i \in DOMAIN t : i + m \in DOMAIN u /\ u[i + m] = t[i] /\ i + m > m
  BY <1>1
<1>3. \A i \in DOMAIN u : \/ i \in DOMAIN s /\ u[i] = s[i]
                          \/ i - m \in DOMAIN t /\ u[i] = t[i - m]
  BY <1>1
<1>4. Range(u) = Range(s) \union Range(t)
  BY <1>2, <1>3 DEF Range
<1>5. ASSUME NEW x, NEW y, x \notin Range(t), NEW i \in DOMAIN u, u[i] = x,
             Before(s, x, y) \/ y \in Range(t)
      PROVE  \E j \in DOMAIN u : j > i /\ u[j] = y
  <2>1. i \in DOMAIN s /\ s[i] = x
    BY <1>3, <1>5 DEF Range
  <2>2. CASE Before(s, x, y)
    <3>1. PICK j \in DOMAIN s : j > i /\ s[j] = y
      BY <2>1, <2>2 DEF Before
    <3> QED  BY <1>2, <3>1
  <2>3. CASE y \in Range(t)
    <3>1. PICK j \in DOMAIN t : t[j] = y
      BY <2>3 DEF Range
    <3>2. j + m \in DOMAIN u /\ u[j + m] = y /\ j + m > i
      BY <1>1, <1>2, <2>1, <3>1
    <3> QED  BY <3>2
  <2> QED  BY <1>5, <2>2, <2>3
<1>6. ASSUME NEW x, NEW y, x \notin Range(t), Before(s, x, y) \/ y \in Range(t)
      PROVE  Before(u, x, y)
  BY <1>5, <1>6 DEF Before
<1>7. \A x, y : /\ Before(s, x, y) /\ x \notin Range(t) => Before(u, x, y)
                /\ y \in Range(t) /\ x \notin Range(t) => Before(u, x, y)
  BY <1>6
<1> QED  BY <1>4, <1>7 DEF u

(* Functors queued one after the other.                                     *)
LEMMA FunctorsAssociative ==
  \A s, t, u \in Seq(Functor) : s \o (t \o u) = (s \o t) \o u
BY ConcatAssociative, SMTT(20)

(* ~TcpServer queues the destruction of every connection of the map.        *)
LEMMA DestroyKeeps ==
  ASSUME Types, Lifetimes, Types', DestroyServer
  PROVE  Lifetimes'
<1> USE DEF Types, ObjectsOK
<1>1. PICK order \in [Loops -> UNION {Orders(Carried(l)) : l \in Loops}] :
       /\ \A l \in Loops : order[l] \in Orders(Carried(l))
       /\ pending' = [l \in Loops |-> pending[l] \o
            [i \in DOMAIN order[l] |-> [fn |-> "destroyed", conn |-> order[l][i]]]]
  BY DEF DestroyServer
<1>2. /\ failed = None /\ phase' = [phase EXCEPT ![Base] = "exited"] /\ connections' = {}
      /\ UNCHANGED <<state, loop, fd, chan, channels, peer, active, batch, held, upc, failed>>
  BY DEF DestroyServer, socket, kernel, user
<1>3. Base \in Loops /\ \A d \in Conns : loop[d] \in Loops
  BY DEF Loops, SocketOK
<1> DEFINE last(l) == [i \in DOMAIN order[l] |-> Job("destroyed", order[l][i])]
<1>4. ASSUME NEW l \in Loops
      PROVE  /\ last(l) \in Seq(Functor)
             /\ Range(last(l)) = {Job("destroyed", c) : c \in Carried(l)}
             /\ Work(l)' = Work(l) \o last(l)
  <2> DEFINE n == Cardinality(Carried(l))
  <2>1. n \in Nat
    BY ServerAssumption, FS_Subset, FS_CardinalityType DEF Carried, ServerOK
  <2>2. order[l] \in [1..n -> Carried(l)] /\ Range(order[l]) = Carried(l)
    BY <1>1 DEF Orders
  <2>3. \A i \in 1..n : order[l][i] \in Conns
    BY <2>2 DEF Carried, ServerOK
  <2>4. last(l) \in [1..n -> Functor]
    BY <2>2, <2>3 DEF Functor, Job
  <2>5. last(l) \in Seq(Functor)
    BY <2>1, <2>4
  <2>6. Range(last(l)) = {Job("destroyed", c) : c \in Carried(l)}
    <3>1. DOMAIN last(l) = 1..n /\ \A i \in 1..n : last(l)[i] = Job("destroyed", order[l][i])
      BY <2>2
    <3>2. Range(last(l)) = {last(l)[i] : i \in 1..n}
      BY <3>1 DEF Range
    <3>3. Carried(l) = {order[l][i] : i \in 1..n}
      BY <2>2 DEF Range
    <3> HIDE DEF last, n
    <3> QED  BY <3>1, <3>2, <3>3
  <2>7. pending'[l] = pending[l] \o last(l) /\ batch'[l] = batch[l]
    BY <1>1, <1>2 DEF Job
  <2>8. pending[l] \in Seq(Functor) /\ batch[l] \in Seq(Functor)
    BY DEF PendingOK, LoopsOK
  <2> HIDE DEF last
  <2>9. batch[l] \o (pending[l] \o last(l)) = (batch[l] \o pending[l]) \o last(l)
    BY <2>5, <2>8, FunctorsAssociative, Zenon
  <2> QED  BY <2>5, <2>6, <2>7, <2>9 DEF Work
<1> HIDE DEF last
<1>5. ASSUME NEW l \in Loops
      PROVE  /\ Jobs(l)' = Jobs(l) \union {Job("destroyed", c) : c \in Carried(l)}
             /\ \A c, d : \/ Before(Work(l), Job("established", c), Job("destroyed", d))
                          \/ d \in Carried(l)
                          => Before(Work(l), Job("established", c), Job("destroyed", d))'
  <2>1. Work(l) \in Seq(Functor) /\ last(l) \in Seq(Functor)
    BY <1>4, JobsAreFunctors
  <2>2. /\ Range(Work(l) \o last(l)) = Range(Work(l)) \union Range(last(l))
        /\ \A x, y : /\ Before(Work(l), x, y) /\ x \notin Range(last(l)) => Before(Work(l) \o last(l), x, y)
                     /\ y \in Range(last(l)) /\ x \notin Range(last(l)) => Before(Work(l) \o last(l), x, y)
    BY <2>1, ConcatJobs
  <2>3. \A c : Job("established", c) \notin Range(last(l))
    BY <1>4, JobProperties
  <2>4. \A d \in Carried(l) : Job("destroyed", d) \in Range(last(l))
    BY <1>4
  <2>5. Jobs(l)' = Jobs(l) \union {Job("destroyed", c) : c \in Carried(l)}
    BY <1>4, <2>2 DEF Jobs
  <2>6. \A x, y : Before(Work(l), x, y)' <=> Before(Work(l) \o last(l), x, y)
    BY <1>4
  <2> QED  BY <2>2, <2>3, <2>4, <2>5, <2>6
<1>6. ASSUME NEW d \in Conns, Owed(d)
      PROVE  Owed(d)'
  <2>1. \A k \in Loops : k = loop[d] /\ (d \in connections \/ Job("destroyed", d) \in Jobs(k))
          => Job("destroyed", d) \in Jobs(k)'
    BY <1>5 DEF Carried
  <2>2. Job("remove", d) \in Jobs(Base) => Job("remove", d) \in Jobs(Base)'
    BY <1>3, <1>5
  <2> QED  BY <1>2, <1>3, <1>6, <2>1, <2>2 DEF Owed
<1>7. JobsPlaced'
  <2> SUFFICES ASSUME NEW k \in Loops, NEW j \in Jobs(k)'
               PROVE  Accepted(j.conn) /\ k = Home(j)
    BY <1>2 DEF JobsPlaced, Accepted, Home
  <2>1. CASE j \in Jobs(k)
    BY <2>1 DEF Lifetimes, JobsPlaced
  <2>2. ASSUME NEW c \in Carried(k), j = Job("destroyed", c)
        PROVE  Accepted(j.conn) /\ k = Home(j)
    <3>1. c \in connections /\ loop[c] = k /\ c \in Conns
      BY <2>2 DEF Carried, ServerOK
    <3>2. j.conn = c /\ j.fn = "destroyed"
      BY <2>2, JobProperties
    <3> QED  BY <3>1, <3>2 DEF Home, Lifetimes, OnlyAcceptedKnown
  <2> QED  BY <1>5, <2>1, <2>2
<1>8. OnlyAcceptedKnown'
  BY <1>2 DEF Lifetimes, OnlyAcceptedKnown, Accepted
<1>9. RegisteredIsOwed'
  BY <1>2, <1>6 DEF Lifetimes, RegisteredIsOwed
<1>10. EnabledIsOwed'
  <2> SUFFICES ASSUME NEW d \in Conns, chan[d].index = "KAdded", phase'[loop[d]] # "exited"
               PROVE  Owed(d)'
    BY <1>2 DEF EnabledIsOwed
  <2>1. phase[loop[d]] # "exited"
    BY <1>2, <1>3 DEF LoopsOK
  <2> QED  BY <1>2, <1>6, <2>1 DEF Lifetimes, EnabledIsOwed
<1>11. ActiveIsOwed'
  <2> SUFFICES ASSUME NEW m \in Loops, NEW d \in active[m] \ {Acceptor}
               PROVE  loop[d] = m /\ Owed(d)'
    BY <1>2 DEF ActiveIsOwed
  <2>1. d \in Conns
    BY DEF LoopsOK
  <2> QED  BY <1>6, <2>1 DEF Lifetimes, ActiveIsOwed
<1>12. DestroyedLast'
  <2> SUFFICES ASSUME NEW d \in Conns
               PROVE  Before(Work(loop[d]), Job("established", d), Job("destroyed", d))'
    BY DEF DestroyedLast
  <2>1. \A k \in Loops : k = loop[d] => Before(Work(k), Job("established", d), Job("destroyed", d))'
    BY <1>5 DEF Lifetimes, DestroyedLast, Carried
  <2> QED  BY <1>2, <1>3, <2>1
<1> QED  BY <1>7, <1>8, <1>9, <1>10, <1>11, <1>12 DEF Lifetimes

(* An IO loop goes, with its poller and what it had not run.                *)
LEMMA LoopExitsKeeps ==
  ASSUME Types, Lifetimes, Types', NEW l \in Loops, LoopExits(l)
  PROVE  Lifetimes'
<1> USE DEF Types, ObjectsOK
<1>1. /\ failed = None /\ phase[Base] = "exited" /\ phase[l] = "poll"
      /\ phase' = [phase EXCEPT ![l] = "exited"]
      /\ pending' = [pending EXCEPT ![l] = <<>>]
      /\ channels' = [channels EXCEPT ![l] = [f \in Fds |-> None]]
      /\ UNCHANGED <<state, loop, fd, chan, peer, connections, active, batch, held, upc, failed>>
  BY DEF LoopExits, kernel, server, user
<1>2. Base \in Loops /\ l # Base /\ \A d \in Conns : loop[d] \in Loops
  BY <1>1 DEF Loops, SocketOK
<1>3. ASSUME NEW k \in Loops
      PROVE  Work(k)' = IF k = l THEN <<>> ELSE Work(k)
  <2>1. CASE k = l
    <3>1. batch'[k] = <<>> /\ pending'[k] = <<>>
      BY <1>1, <2>1 DEF LoopsOK, PendingOK
    <3>2. <<>> \in Seq(Functor)
      BY EmptySeq
    <3>3. <<>> \o <<>> = <<>>
      BY <3>2, ConcatEmptySeq
    <3> QED  BY <2>1, <3>1, <3>3 DEF Work
  <2>2. CASE k # l
    BY <1>1, <2>2 DEF Work, PendingOK
  <2> QED  BY <2>1, <2>2
<1>4. \A k \in Loops : Jobs(k)' = IF k = l THEN {} ELSE Jobs(k)
  <2>1. Range(<<>>) = {}
    BY EmptySeq, LenProperties DEF Range
  <2> QED  BY <1>3, <2>1 DEF Jobs
<1>5. ASSUME NEW d \in Conns, Owed(d), loop[d] # l
      PROVE  Owed(d)'
  <2>1. \A k \in Loops : k = loop[d] => Jobs(k)' = Jobs(loop[d])
    BY <1>4, <1>5
  <2>2. Jobs(loop[d])' = Jobs(loop[d]) /\ Jobs(Base)' = Jobs(Base)
    BY <1>1, <1>2, <1>4, <2>1
  <2> QED  BY <1>1, <1>5, <2>2 DEF Owed
<1>6. JobsPlaced'
  BY <1>1, <1>4 DEF Lifetimes, JobsPlaced, Accepted, Home
<1>7. OnlyAcceptedKnown'
  BY <1>1 DEF Lifetimes, OnlyAcceptedKnown, Accepted
<1>8. RegisteredIsOwed'
  <2> SUFFICES ASSUME NEW m \in Loops, NEW f \in Fds, NEW d \in Conns, channels'[m][f] = d
               PROVE  loop[d] = m /\ fd[d] = f /\ Owed(d)'
    BY <1>1 DEF RegisteredIsOwed
  <2>1. d # None
    BY ServerAssumption DEF None
  <2>2. m # l /\ channels[m][f] = d
    BY <1>1, <2>1 DEF SocketOK
  <2> QED  BY <1>5, <2>2 DEF Lifetimes, RegisteredIsOwed
<1>9. EnabledIsOwed'
  <2> SUFFICES ASSUME NEW d \in Conns, chan[d].index = "KAdded", phase'[loop[d]] # "exited"
               PROVE  Owed(d)'
    BY <1>1 DEF EnabledIsOwed
  <2>1. phase[loop[d]] # "exited" /\ loop[d] # l
    BY <1>1, <1>2 DEF LoopsOK
  <2> QED  BY <1>1, <1>5, <2>1 DEF Lifetimes, EnabledIsOwed
<1>10. ActiveIsOwed'
  <2> SUFFICES ASSUME NEW m \in Loops, NEW d \in active[m] \ {Acceptor}
               PROVE  loop[d] = m /\ Owed(d)'
    BY <1>1 DEF ActiveIsOwed
  <2>1. d \in Conns /\ m # l
    BY <1>1 DEF LoopsOK
  <2> QED  BY <1>5, <2>1 DEF Lifetimes, ActiveIsOwed
<1>11. DestroyedLast'
  <2> SUFFICES ASSUME NEW d \in Conns, d \notin connections
               PROVE  Before(Work(loop[d]), Job("established", d), Job("destroyed", d))'
    BY <1>1 DEF DestroyedLast
  <2>1. Before(Work(loop[d]), Job("established", d), Job("destroyed", d))
    BY DEF Lifetimes, DestroyedLast
  <2>2. Before(<<>>, Job("established", d), Job("destroyed", d))
    BY EmptySeq, LenProperties DEF Before
  <2>3. \A k \in Loops : k = loop[d] => Before(Work(k), Job("established", d), Job("destroyed", d))'
    BY <1>3, <2>1, <2>2
  <2> QED  BY <1>1, <1>2, <2>3
<1> QED  BY <1>6, <1>7, <1>8, <1>9, <1>10, <1>11 DEF Lifetimes

(* At the start nothing is queued.                                          *)
LEMMA NothingToDo ==
  ASSUME Init
  PROVE  \A l \in Loops : Work(l) = <<>> /\ Jobs(l) = {}
<1>1. <<>> \in Seq(Functor) /\ Range(<<>>) = {}
  BY EmptySeq, LenProperties DEF Range
<1>2. <<>> \o <<>> = <<>>
  BY <1>1, ConcatEmptySeq
<1>3. \A l \in Loops : batch[l] = <<>> /\ pending[l] = <<>>
  BY DEF Init
<1> QED  BY <1>1, <1>2, <1>3 DEF Work, Jobs

(* The invariant holds at the start and every step keeps it.                *)
LEMMA LifetimesInvariant ==
  /\ Init => Lifetimes
  /\ Types /\ Lifetimes /\ [Next]_vars => Lifetimes'
<1>1. ASSUME Init
      PROVE  Lifetimes
  <2>1. \A l \in Loops : Work(l) = <<>> /\ Jobs(l) = {}
    BY <1>1, NothingToDo
  <2>2. \A c \in Conns : loop[c] \in Loops /\ ~Accepted(c)
    BY <1>1 DEF Init, Loops, Accepted
  <2>3. \A x, y : Before(<<>>, x, y)
    BY EmptySeq, LenProperties DEF Before
  <2>4. JobsPlaced /\ DestroyedLast
    BY <2>1, <2>2, <2>3 DEF JobsPlaced, DestroyedLast
  <2>5. OnlyAcceptedKnown
    BY <1>1, <2>2, ServerAssumption DEF Init, OnlyAcceptedKnown, None
  <2>6. RegisteredIsOwed
    BY <1>1, ServerAssumption DEF Init, RegisteredIsOwed, None
  <2>7. EnabledIsOwed /\ ActiveIsOwed
    BY <1>1 DEF Init, EnabledIsOwed, ActiveIsOwed
  <2> QED  BY <2>4, <2>5, <2>6, <2>7 DEF Lifetimes
<1>2. ASSUME Types, Lifetimes, [Next]_vars
      PROVE  Lifetimes'
  <2>1. Types'
    BY <1>2, TypesInvariant
  <2>2. CASE UNCHANGED vars
    <3>1. \A c : Owed(c)' <=> Owed(c)
      BY <2>2 DEF vars, socket, server, work, Owed, Jobs, Work
    <3>2. JobsPlaced' /\ DestroyedLast'
      BY <1>2, <2>2 DEF vars, socket, server, work, Lifetimes, JobsPlaced, DestroyedLast, Jobs,
         Work, Accepted, Home, Before
    <3> QED  BY <1>2, <2>2, <3>1, <3>2 DEF vars, socket, kernel, server, work, user, Lifetimes,
             OnlyAcceptedKnown, Accepted, RegisteredIsOwed, EnabledIsOwed, ActiveIsOwed
  <2>3. CASE Next
    BY <1>2, <2>1, <2>3, RunFunctorKeeps, HandleKeeps, ForceCloseKeeps, OtherStepsKeep,
       AcceptKeeps, DestroyKeeps, LoopExitsKeeps DEF Next, LoopStep, Environment
  <2> QED  BY <1>2, <2>2, <2>3
<1> QED  BY <1>1, <1>2

(* Whatever the users do, also while they close connections and while the   *)
(* server and its loops are taken down: the channels that a poller has      *)
(* registered or reported belong to connections that exist, in that loop    *)
(* and with that descriptor.                                                *)
THEOREM PollersPointToTheLiving == Spec => []RegisteredIsAlive
<1>1. Init => Types /\ Lifetimes
  BY TypesInvariant, LifetimesInvariant
<1>2. Types /\ Lifetimes /\ [Next]_vars => Types' /\ Lifetimes'
  BY TypesInvariant, LifetimesInvariant
<1>3. Types /\ Lifetimes => RegisteredIsAlive
  BY LifetimesSuffice
<1> QED  BY <1>1, <1>2, <1>3, PTL DEF Spec

-----------------------------------------------------------------------------
(* No assertion fails while only the loops close connections.               *)

Said(c) == <<ups[c], downs[c]>>
Waits(fn, c) == Job(fn, c) \in Jobs(Home(Job(fn, c)))
Nothing(c) == \A fn \in {"established", "remove", "destroyed"} : ~Waits(fn, c)

\* The stages of a connection's life; in each of them its state, its channel,
\* the map and the functors that are queued for it fit together.
Connecting(c) ==
  /\ state[c] = "kConnecting" /\ c \in connections /\ Said(c) = <<0, 0>>
  /\ chan[c].index = "KNew" /\ ~chan[c].added /\ Slot(c) # c
  /\ Waits("established", c) /\ ~Waits("remove", c) /\ ~Waits("destroyed", c)
Serving(c) ==
  /\ state[c] \in {"kConnected", "kDisconnecting"} /\ c \in connections
  /\ Said(c) = <<1, 0>> /\ Nothing(c)
  /\ chan[c].index = "KAdded" /\ chan[c].events = "read" /\ Slot(c) = c
Closing(c) ==
  /\ state[c] = "kDisconnected" /\ Said(c) = <<1, 1>>
  /\ chan[c].index = "KDeleted" /\ Slot(c) = c
  /\ ~Waits("established", c)
  /\ IF c \in connections THEN Waits("remove", c) /\ ~Waits("destroyed", c)
     ELSE Waits("destroyed", c) /\ ~Waits("remove", c)
Over(c) ==
  /\ state[c] = "kDisconnected" /\ c \notin connections /\ Said(c) = <<1, 1>>
  /\ chan[c].index = "KNew" /\ ~chan[c].added /\ Nothing(c)

InStage == \A c \in Conns :
  IF Accepted(c) THEN Connecting(c) \/ Serving(c) \/ Closing(c) \/ Over(c)
  ELSE Said(c) = <<0, 0>> /\ ~chan[c].added

\* No two connections that still have to be destroyed share a descriptor.
OwnDescriptor == \A c, d \in Conns : Owed(c) /\ Owed(d) /\ fd[c] = fd[d] => c = d

QueuedOnce == \A l \in Loops, c \in Conns : \A fn \in {"established", "remove", "destroyed"} :
  Once(Work(l), Job(fn, c))

ActiveServe == \A l \in Loops : \A c \in active[l] \ {Acceptor} : Serving(c)

Calm == /\ failed = None /\ held = {} /\ \A u \in Users : upc[u] = None
        /\ \A l \in Loops : phase[l] # "exited"

Quiet == InStage /\ OwnDescriptor /\ QueuedOnce /\ ActiveServe /\ Calm

\* While connection c is handled or called, the others are left aside.
Aside(c) ==
  /\ UNCHANGED <<loop, fd, phase, upc, deployment, failed, held>>
  /\ \A m \in Loops : active'[m] \subseteq active[m]
  /\ \A d \in Conns \ {c} : /\ state'[d] = state[d] /\ chan'[d] = chan[d]
                            /\ ups'[d] = ups[d] /\ downs'[d] = downs[d]
                            /\ d \in connections' <=> d \in connections
  /\ \A m \in Loops, f \in Fds :
       m # loop[c] \/ f # fd[c] => channels'[m][f] = channels[m][f]

Progress(c) == \/ Connecting(c) /\ (Connecting(c)' \/ Serving(c)')
               \/ Serving(c) /\ (Serving(c)' \/ Closing(c)')
               \/ Closing(c) /\ (Closing(c)' \/ Over(c)')
               \/ Over(c) /\ Over(c)'

\* One turn of a loop, for one connection.
Turn(c) == \E l \in Loops : \E in, out :
  /\ Taken(l, out) /\ Put(in) /\ Aside(c) /\ Accepted(c) /\ Referenced(c) /\ Progress(c)
  /\ channels' = channels \/ Owed(c)
  /\ \A j \in out : j.conn = c
  /\ \A k, j : <<k, j>> \in in =>
       j.conn = c /\ j.fn # "established" /\ k = Home(j) /\ (j.fn # "forceClose" => j \notin Jobs(k))
  /\ \A m \in Loops : c \in active'[m] => Serving(c)'

\* Where a functor is queued, once more with its loop.
WaitsWhere(c) ==
  /\ Waits("established", c) <=> Job("established", c) \in Jobs(loop[c])
  /\ Waits("remove", c) <=> Job("remove", c) \in Jobs(Base)
  /\ Waits("destroyed", c) <=> Job("destroyed", c) \in Jobs(loop[c])
  /\ Owed(c) <=> c \in connections \/ Waits("remove", c) \/ Waits("destroyed", c)

(* This is so in every state.                                               *)
LEMMA WaitsProperties ==
  ASSUME NEW c
  PROVE  WaitsWhere(c) /\ WaitsWhere(c)'
BY JobProperties DEF WaitsWhere, Waits, Home, Owed

\* In all stages but the last the connection is owed its destruction.
StageOwed(c) ==
  /\ Connecting(c) \/ Serving(c) \/ Closing(c) => Owed(c)
  /\ Over(c) => ~Owed(c)
  /\ Connecting(c) \/ Serving(c) \/ Closing(c) \/ Over(c) => Accepted(c)

(* This too.                                                                *)
LEMMA StagesAreOwed ==
  ASSUME NEW c \in Conns
  PROVE  StageOwed(c) /\ StageOwed(c)'
BY WaitsProperties, ServerAssumption
   DEF WaitsWhere, StageOwed, Connecting, Serving, Closing, Over, Nothing, Accepted, None

(* What the invariant is for.                                               *)
LEMMA QuietSuffices ==
  ASSUME Types, Lifetimes, deployment.usage = "quiet" => Quiet
  PROVE  NoAssertionFails
<1> SUFFICES ASSUME Quiet
             PROVE  /\ failed = None
                    /\ \A c \in Conns : Destroyed(c) => state[c] = "kDisconnected" /\ ~chan[c].added
  BY DEF NoAssertionFails
<1>1. ASSUME NEW c \in Conns, Destroyed(c)
      PROVE  state[c] = "kDisconnected" /\ ~chan[c].added
  <2>1. ~Owed(c) /\ Accepted(c)
    BY <1>1, OwedIsReferenced DEF Destroyed, Types, ObjectsOK
  <2>2. Over(c)
    BY <2>1, StagesAreOwed DEF StageOwed, Quiet, InStage
  <2> QED  BY <2>2 DEF Over
<1> QED  BY <1>1 DEF Quiet, Calm

(* What a turn does to the queues, in terms of who waits.                   *)
LEMMA TurnWaits ==
  ASSUME Types, NEW l \in Loops, NEW c \in Conns, NEW d \in Conns \ {c}, NEW in, NEW out,
         Taken(l, out), Put(in), UNCHANGED loop,
         \A j \in out : j.conn = c, \A k, j : <<k, j>> \in in => j.conn = c,
         NEW fn \in {"established", "remove", "destroyed"}
  PROVE  Waits(fn, d)' <=> Waits(fn, d)
<1> USE DEF Types, ObjectsOK
<1>1. PICK j : j = Job(fn, d)
  OBVIOUS
<1>2. PICK h : h = Home(j)
  OBVIOUS
<1>3. h \in Loops /\ j.conn = d /\ j.fn = fn
  BY <1>1, <1>2, JobProperties DEF Home, SocketOK, Loops
<1>4. /\ \A k \in Loops : \A x \in Jobs(k)' : x \in Jobs(k) \/ <<k, x>> \in in
      /\ \A k \in Loops : \A x \in Jobs(k) : x \in Jobs(k)' \/ (k = l /\ x \in out)
  BY WorkStep
<1>5. j \in Jobs(h)' <=> j \in Jobs(h)
  BY <1>3, <1>4
<1>6. Home(j)' = h
  BY <1>2 DEF Home
<1> QED  BY <1>1, <1>2, <1>5, <1>6 DEF Waits

(* A turn keeps the invariant.                                              *)
LEMMA TurnKeeps ==
  ASSUME Types, Types', Lifetimes, Quiet, NEW c \in Conns, Turn(c)
  PROVE  Quiet'
<1> USE DEF Types, ObjectsOK
<1>0. PICK l \in Loops : \E in, out :
        /\ Taken(l, out) /\ Put(in) /\ Aside(c) /\ Accepted(c) /\ Referenced(c) /\ Progress(c)
        /\ channels' = channels \/ Owed(c)
        /\ \A j \in out : j.conn = c
        /\ \A k, j : <<k, j>> \in in =>
             j.conn = c /\ j.fn # "established" /\ k = Home(j) /\ (j.fn # "forceClose" => j \notin Jobs(k))
        /\ \A m \in Loops : c \in active'[m] => Serving(c)'
  BY DEF Turn
<1>1. PICK in, out :
        /\ Taken(l, out) /\ Put(in) /\ Aside(c) /\ Accepted(c) /\ Referenced(c) /\ Progress(c)
        /\ channels' = channels \/ Owed(c)
        /\ \A j \in out : j.conn = c
        /\ \A k, j : <<k, j>> \in in =>
             j.conn = c /\ j.fn # "established" /\ k = Home(j) /\ (j.fn # "forceClose" => j \notin Jobs(k))
        /\ \A m \in Loops : c \in active'[m] => Serving(c)'
  BY <1>0
<1>2. ASSUME NEW d \in Conns \ {c}, NEW fn \in {"established", "remove", "destroyed"}
      PROVE  Waits(fn, d)' <=> Waits(fn, d)
  BY <1>1, TurnWaits DEF Aside
<1>3. ASSUME NEW d \in Conns \ {c}
      PROVE  /\ Owed(d)' <=> Owed(d)
             /\ Accepted(d)' <=> Accepted(d)
             /\ Said(d)' = Said(d)
             /\ Nothing(d)' <=> Nothing(d)
  BY <1>1, <1>2, WaitsProperties DEF WaitsWhere, Aside, Accepted, Said, Nothing
<1>4. Owed(c)' => Owed(c)
  BY <1>1, StagesAreOwed DEF StageOwed, Progress
<1>5. ASSUME NEW d \in Conns \ {c}, Owed(d), Accepted(d)
      PROVE  Slot(d)' = Slot(d)
  <2>1. fd[d] \in Fds /\ loop[d] \in Loops
    BY <1>5 DEF Lifetimes, OnlyAcceptedKnown, SocketOK
  <2>2. CASE channels' = channels
    BY <1>1, <2>2 DEF Slot, Aside
  <2>3. CASE Owed(c)
    <3>1. fd[d] # fd[c]
      BY <1>5, <2>3 DEF Quiet, OwnDescriptor
    <3> QED  BY <1>1, <2>1, <3>1 DEF Slot, Aside
  <2> QED  BY <1>1, <2>2, <2>3
<1>6. ASSUME NEW d \in Conns \ {c}
      PROVE  /\ Connecting(d) => Connecting(d)'
             /\ Serving(d) => Serving(d)'
             /\ Closing(d) => Closing(d)'
             /\ Over(d) => Over(d)'
  <2>1. /\ state'[d] = state[d] /\ chan'[d] = chan[d]
        /\ d \in connections' <=> d \in connections
    BY <1>1 DEF Aside
  <2>2. Connecting(d) \/ Serving(d) \/ Closing(d) => Slot(d)' = Slot(d)
    BY <1>5, StagesAreOwed DEF StageOwed
  <2> QED  BY <1>2, <1>3, <2>1, <2>2 DEF Connecting, Serving, Closing, Over
<1>7. InStage'
  <2>1. Accepted(c)' /\ (Connecting(c)' \/ Serving(c)' \/ Closing(c)' \/ Over(c)')
    BY <1>1, StagesAreOwed DEF StageOwed, Progress
  <2>2. \A d \in Conns \ {c} : chan'[d] = chan[d]
    BY <1>1 DEF Aside
  <2> QED  BY <1>3, <1>6, <2>1, <2>2 DEF Quiet, InStage
<1>8. OwnDescriptor'
  BY <1>1, <1>3, <1>4 DEF Quiet, OwnDescriptor, Aside
<1>9. QueuedOnce'
  <2> SUFFICES ASSUME NEW k \in Loops, NEW d \in Conns,
                      NEW fn \in {"established", "remove", "destroyed"}
               PROVE  Once(Work(k), Job(fn, d))'
    BY DEF QueuedOnce
  <2>1. PICK j : j = Job(fn, d)
    OBVIOUS
  <2>2. Once(Work(k), j) /\ j.fn # "forceClose"
    BY <2>1, JobProperties DEF Quiet, QueuedOnce
  <2>3. <<k, j>> \in in => j \notin Jobs(k)
    BY <1>1, <2>2
  <2>4. \A x : Once(Work(k), x) /\ (<<k, x>> \in in => x \notin Jobs(k)) => Once(Work(k), x)'
    BY <1>1, WorkStep
  <2> QED  BY <2>1, <2>2, <2>3, <2>4
<1>10. ActiveServe'
  <2> SUFFICES ASSUME NEW m \in Loops, NEW d \in active'[m] \ {Acceptor}
               PROVE  Serving(d)'
    BY DEF ActiveServe
  <2>1. d \in active[m] \ {Acceptor} /\ d \in Conns
    BY <1>1 DEF Aside, LoopsOK
  <2>2. CASE d = c
    BY <1>1, <2>2
  <2>3. CASE d # c
    BY <1>6, <2>1, <2>3 DEF Quiet, ActiveServe
  <2> QED  BY <2>2, <2>3
<1>11. Calm'
  BY <1>1 DEF Aside, Quiet, Calm
<1> QED  BY <1>7, <1>8, <1>9, <1>10, <1>11 DEF Quiet

\* A loop calls a function of TcpConnection for c, as the functor in out or
\* while it handles the channel.
CalledFor(l, c, out) ==
  /\ Taken(l, out) /\ out \subseteq Jobs(l) /\ \A j \in out : j.conn = c
  /\ Accepted(c) /\ Referenced(c) /\ UNCHANGED <<phase, upc>>
  /\ \A m \in Loops : active'[m] \subseteq active[m]
  /\ deployment.usage = "quiet"

\* What can be said of the functors of c after such a call.
Afterwards(l, c, in, out) ==
  \A fn \in {"established", "remove", "destroyed"} :
    l = Home(Job(fn, c)) \/ Job(fn, c) \notin out =>
      /\ <<Home(Job(fn, c)), Job(fn, c)>> \in in => Waits(fn, c)'
      /\ <<Home(Job(fn, c)), Job(fn, c)>> \notin in =>
           (Waits(fn, c)' <=> Waits(fn, c) /\ Job(fn, c) \notin out)

(* It can.                                                                  *)
LEMMA CalledWaits ==
  ASSUME Types, Quiet, NEW l \in Loops, NEW c \in Conns, NEW out, NEW in,
         CalledFor(l, c, out), Put(in), UNCHANGED loop
  PROVE  Afterwards(l, c, in, out)
<1> USE DEF Types, ObjectsOK
<1> SUFFICES ASSUME NEW fn \in {"established", "remove", "destroyed"},
                    l = Home(Job(fn, c)) \/ Job(fn, c) \notin out
             PROVE  /\ <<Home(Job(fn, c)), Job(fn, c)>> \in in => Waits(fn, c)'
                    /\ <<Home(Job(fn, c)), Job(fn, c)>> \notin in =>
                         (Waits(fn, c)' <=> Waits(fn, c) /\ Job(fn, c) \notin out)
  BY DEF Afterwards
<1>1. PICK j : j = Job(fn, c)
  OBVIOUS
<1>2. PICK h : h = Home(j)
  OBVIOUS
<1>3. h \in Loops /\ Home(j)' = h
  BY <1>1, <1>2, JobProperties DEF Home, SocketOK, Loops
<1>4. /\ \A k \in Loops : \A x \in Jobs(k)' : x \in Jobs(k) \/ <<k, x>> \in in
      /\ \A k \in Loops : \A x \in Jobs(k) : x \in Jobs(k)' \/ (k = l /\ x \in out)
      /\ \A k \in Loops : \A x : <<k, x>> \in in => x \in Jobs(k)'
      /\ \A x \in out : Once(Work(l), x) /\ <<l, x>> \notin in => x \notin Jobs(l)'
  BY WorkStep DEF CalledFor
<1>5. Once(Work(h), j)
  BY <1>1, <1>3 DEF Quiet, QueuedOnce
<1>6. j \in out => h = l
  BY <1>1, <1>2
<1>7. /\ <<h, j>> \in in => j \in Jobs(h)'
      /\ <<h, j>> \notin in => (j \in Jobs(h)' <=> j \in Jobs(h) /\ j \notin out)
  BY <1>3, <1>4, <1>5, <1>6
<1> QED  BY <1>1, <1>2, <1>3, <1>7 DEF Waits

(* A slot that is taken is taken by a connection that has the descriptor.   *)
LEMMA SlotIsOwn ==
  ASSUME Types, Lifetimes, Quiet, NEW c \in Conns, Accepted(c), Owed(c)
  PROVE  Slot(c) = None \/ Slot(c) = c
<1>1. loop[c] \in Loops /\ fd[c] \in Fds
  BY DEF Types, ObjectsOK, SocketOK, Lifetimes, OnlyAcceptedKnown
<1>2. Slot(c) \in Conns \union {None}
  BY <1>1 DEF Slot, Types, ObjectsOK, SocketOK
<1>3. ASSUME Slot(c) # None
      PROVE  Slot(c) = c
  <2>1. PICK d \in Conns : d = Slot(c)
    BY <1>2, <1>3
  <2>2. fd[d] = fd[c] /\ Owed(d)
    BY <1>1, <2>1 DEF Slot, Lifetimes, RegisteredIsOwed
  <2> QED  BY <2>1, <2>2 DEF Quiet, OwnDescriptor
<1> QED  BY <1>3

(* connectEstablished finds the connection kConnecting and its slot free.   *)
LEMMA EstablishedTurn ==
  ASSUME Types, Lifetimes, Quiet, NEW l \in Loops, NEW c \in Conns, NEW out,
         CalledFor(l, c, out), loop[c] = l, \A m \in Loops : c \notin active'[m],
         ConnectEstablished(c),
         \A j : j \in out <=> j = Job("established", c)
  PROVE  Turn(c)
<1> USE DEF Types, ObjectsOK
<1>1. Connecting(c) /\ Owed(c) /\ fd[c] \in Fds
  <2>1. Waits("established", c) /\ Accepted(c)
    BY WaitsProperties DEF WaitsWhere, CalledFor
  <2>2. Connecting(c)
    BY <2>1 DEF Quiet, InStage, Serving, Closing, Over, Nothing
  <2> QED  BY <2>1, <2>2, StagesAreOwed DEF StageOwed, Lifetimes, OnlyAcceptedKnown
<1>2. /\ state' = [state EXCEPT ![c] = "kConnected"] /\ Update(c, "read")
      /\ ups' = [ups EXCEPT ![c] = @ + 1] /\ held' = KeptWith(c)
      /\ UNCHANGED <<loop, fd, server, pending, downs, failed>>
  <2>1. state[c] = "kConnecting" /\ Slot(c) = None /\ chan[c].index = "KNew"
    BY <1>1, SlotIsOwn DEF Connecting, CalledFor
  <2> QED  BY <2>1 DEF ConnectEstablished, UpdateFails
<1>3. PICK in : in = {}
  OBVIOUS
<1>4. Put(in)
  BY <1>2, <1>3 DEF Put
<1>5. /\ chan'[c].index = "KAdded" /\ chan'[c].events = "read"
      /\ \A d \in Conns \ {c} : chan'[d] = chan[d]
      /\ \A m \in Loops, f \in Fds :
           channels'[m][f] = IF m = loop[c] /\ f = fd[c] THEN c ELSE channels[m][f]
  BY <1>1, <1>2 DEF Update, SocketOK, Connecting
<1>6. Aside(c)
  <2>1. held' = held /\ deployment' = deployment /\ connections' = connections
    BY <1>2 DEF KeptWith, CalledFor, server
  <2> QED  BY <1>2, <1>5, <2>1 DEF Aside, CalledFor, SocketOK, CallsOK
<1>7. Afterwards(l, c, in, out)
  <2>1. UNCHANGED loop
    BY <1>2
  <2> HIDE DEF Types, ObjectsOK
  <2> QED  BY <1>4, <2>1, CalledWaits
<1>8. Serving(c)'
  <2>1. Nothing(c)'
    <3>1. ASSUME NEW g \in {"established", "remove", "destroyed"}
          PROVE  Waits(g, c)' <=> Waits(g, c) /\ Job(g, c) \notin out
      <4>1. l = Home(Job(g, c)) \/ Job(g, c) \notin out
        BY JobProperties DEF Home
      <4>2. <<Home(Job(g, c)), Job(g, c)>> \notin in
        BY <1>3
      <4> QED  BY <1>7, <4>1, <4>2 DEF Afterwards
    <3>2. ~Waits("remove", c) /\ ~Waits("destroyed", c)
      BY <1>1 DEF Connecting
    <3> QED  BY <3>1, <3>2 DEF Nothing
  <2>2. state'[c] = "kConnected" /\ c \in connections' /\ ups'[c] = 1 /\ downs'[c] = 0
    <3>1. ups[c] = 0 /\ downs[c] = 0 /\ c \in connections
      BY <1>1 DEF Connecting, Said
    <3> QED  BY <1>2, <3>1 DEF SocketOK, CallsOK, server
  <2>3. Slot(c)' = c
    BY <1>1, <1>2, <1>5 DEF Slot, SocketOK
  <2> QED  BY <1>5, <2>1, <2>2, <2>3 DEF Serving, Said
<1>9. Progress(c)
  BY <1>1, <1>8 DEF Progress
<1> QED  BY <1>1, <1>3, <1>4, <1>6, <1>8, <1>9 DEF Turn, CalledFor

(* handelClose finds it up and registered.                                  *)
LEMMA CloseTurn ==
  ASSUME Types, Lifetimes, Quiet, NEW l \in Loops, NEW c \in Conns, NEW out,
         CalledFor(l, c, out), loop[c] = l, \A j \in out : j.fn = "forceClose",
         Serving(c), HandleClose(l, c), \A m \in Loops : c \notin active'[m]
  PROVE  Turn(c)
<1> USE DEF Types, ObjectsOK
<1>1. Owed(c) /\ fd[c] \in Fds /\ Base \in Loops
  BY StagesAreOwed DEF StageOwed, Lifetimes, OnlyAcceptedKnown, CalledFor, Loops
<1>2. PICK fn : fn = IF l = Base THEN "destroyed" ELSE "remove"
  OBVIOUS
<1>3. PICK j : j = Job(fn, c)
  OBVIOUS
<1>4. PICK in : in = {<<Base, j>>}
  OBVIOUS
<1>5. /\ state' = [state EXCEPT ![c] = "kDisconnected"] /\ Update(c, "none")
      /\ downs' = [downs EXCEPT ![c] = @ + 1]
      /\ connections' = IF l = Base THEN connections \ {c} ELSE connections
      /\ pending' = Push(pending, Base, fn, c)
      /\ UNCHANGED <<loop, fd, deployment, next, held, ups, failed>>
  <2>1. state[c] \in {"kConnected", "kDisconnecting"} /\ ~UpdateFails(c)
    BY DEF Serving, UpdateFails
  <2> QED  BY <1>2, <2>1 DEF HandleClose
<1>6. Put(in)
  BY <1>1, <1>2, <1>3, <1>4, <1>5 DEF Put
<1>7. /\ chan'[c].index = "KDeleted"
      /\ \A d \in Conns \ {c} : chan'[d] = chan[d]
      /\ \A m \in Loops, f \in Fds :
           channels'[m][f] = IF m = loop[c] /\ f = fd[c] THEN c ELSE channels[m][f]
  BY <1>1, <1>5 DEF Update, SocketOK, Serving
<1>8. Aside(c)
  BY <1>5, <1>7 DEF Aside, CalledFor, SocketOK, CallsOK
<1>9. j.conn = c /\ j.fn = fn /\ Base = Home(j) /\ j \notin Jobs(Base)
  <2>1. j.conn = c /\ j.fn = fn /\ Base = Home(j)
    BY <1>2, <1>3, JobProperties DEF Home
  <2>2. ~Waits(fn, c)
    BY <1>2 DEF Serving, Nothing
  <2> QED  BY <1>3, <2>1, <2>2 DEF Waits
<1>10. Closing(c)'
  <2>1. \A g \in {"established", "remove", "destroyed"} : Job(g, c) \notin out
    BY JobProperties
  <2>2. /\ Waits("established", c)' <=> FALSE
        /\ Waits("remove", c)' <=> l # Base
        /\ Waits("destroyed", c)' <=> l = Base
    <3>1. \A g \in {"established", "remove", "destroyed"} : ~Waits(g, c)
      BY DEF Serving, Nothing
    <3>2. \A g \in {"established", "remove", "destroyed"} :
            <<Home(Job(g, c)), Job(g, c)>> \in in <=> g = fn
      BY <1>2, <1>3, <1>4, <1>9, JobProperties
    <3>3. ASSUME NEW g \in {"established", "remove", "destroyed"}
          PROVE  Waits(g, c)' <=> g = fn
      <4>1. UNCHANGED loop
        BY <1>5
      <4>2. Afterwards(l, c, in, out)
        BY <1>6, <4>1, CalledWaits
      <4> QED  BY <2>1, <3>1, <3>2, <4>2 DEF Afterwards
    <3> QED  BY <1>2, <3>3
  <2>3. /\ state'[c] = "kDisconnected" /\ ups'[c] = 1 /\ downs'[c] = 1
        /\ c \in connections' <=> l # Base
    <3>1. ups[c] = 1 /\ downs[c] = 0 /\ c \in connections
      BY DEF Serving, Said
    <3> QED  BY <1>5, <3>1 DEF SocketOK, CallsOK
  <2>4. Slot(c)' = c
    BY <1>1, <1>5, <1>7 DEF Slot, SocketOK
  <2> QED  BY <1>7, <2>2, <2>3, <2>4 DEF Closing, Said
<1>11. Progress(c)
  BY <1>10 DEF Progress
<1>12. \A k, x : <<k, x>> \in in => k = Base /\ x = j
  BY <1>4
<1>13. fn # "established"
  BY <1>2
<1> QED  BY <1>1, <1>6, <1>8, <1>9, <1>11, <1>12, <1>13 DEF Turn, CalledFor

(* removeConnectionInLoop takes it out of the map and passes it on.         *)
LEMMA RemoveTurn ==
  ASSUME Types, Lifetimes, Quiet, NEW c \in Conns, NEW out,
         CalledFor(Base, c, out), RemoveConnectionInLoop(c),
         \A j : j \in out <=> j = Job("remove", c)
  PROVE  Turn(c)
<1> USE DEF Types, ObjectsOK
<1>1. Closing(c) /\ c \in connections /\ Base \in Loops /\ loop[c] \in Loops
  <2>1. Waits("remove", c) /\ Accepted(c)
    BY WaitsProperties DEF WaitsWhere, CalledFor
  <2> QED  BY <2>1 DEF Quiet, InStage, Connecting, Serving, Over, Nothing, Closing, Loops, SocketOK
<1>2. PICK in : in = {<<loop[c], Job("destroyed", c)>>}
  OBVIOUS
<1>3. /\ connections' = connections \ {c} /\ pending' = Push(pending, loop[c], "destroyed", c)
      /\ UNCHANGED <<socket, deployment, next, held, calls, failed>>
  BY DEF RemoveConnectionInLoop
<1>4. Put(in)
  BY <1>1, <1>2, <1>3 DEF Put
<1>5. UNCHANGED <<state, loop, fd, chan, channels, ups, downs>>
  BY <1>3 DEF socket, calls
<1>6. Aside(c)
  BY <1>3, <1>5 DEF Aside, CalledFor
<1>7. \A k, x : <<k, x>> \in in => k = loop[c] /\ x = Job("destroyed", c)
  BY <1>2
<1>8. Job("destroyed", c) \notin Jobs(loop[c])
  BY <1>1, WaitsProperties DEF WaitsWhere, Closing
<1>9. Afterwards(Base, c, in, out)
  BY <1>1, <1>4, <1>5, CalledWaits
<1>10. Closing(c)'
  <2>1. ~Waits("established", c)' /\ ~Waits("remove", c)' /\ Waits("destroyed", c)'
    <3>1. Home(Job("destroyed", c)) = loop[c] /\ Home(Job("remove", c)) = Base
      BY JobProperties DEF Home
    <3>2. Waits("destroyed", c)'
      BY <1>2, <1>9, <3>1, JobProperties DEF Afterwards
    <3>3. ~Waits("remove", c)'
      BY <1>7, <1>9, <3>1, JobProperties DEF Afterwards
    <3>4. ~Waits("established", c)'
      BY <1>1, <1>7, <1>9, JobProperties DEF Closing, Afterwards
    <3> QED  BY <3>2, <3>3, <3>4
  <2>2. c \notin connections'
    BY <1>3
  <2> QED  BY <1>1, <1>5, <2>1, <2>2 DEF Closing, Said, Slot
<1>11. Progress(c)
  BY <1>1, <1>10 DEF Progress
<1>12. \A m \in Loops : c \notin active'[m]
  <2>1. ~Serving(c) /\ c # Acceptor
    BY <1>1, ServerAssumption DEF Closing, Serving, Acceptor
  <2> QED  BY <2>1 DEF Quiet, ActiveServe, CalledFor
<1>13. \A k, j : <<k, j>> \in in =>
         j.conn = c /\ j.fn # "established" /\ k = Home(j) /\ j \notin Jobs(k)
  BY <1>7, <1>8, JobProperties DEF Home
<1> QED  BY <1>1, <1>4, <1>5, <1>6, <1>11, <1>12, <1>13 DEF Turn, CalledFor

(* connectDestroyed finds its channel registered and ends its life.         *)
LEMMA DestroyedTurn ==
  ASSUME Types, Lifetimes, Quiet, NEW l \in Loops, NEW c \in Conns, NEW out,
         CalledFor(l, c, out), loop[c] = l, \A m \in Loops : c \notin active'[m],
         ConnectDestroyed(c),
         \A j : j \in out <=> j = Job("destroyed", c)
  PROVE  Turn(c)
<1> USE DEF Types, ObjectsOK
<1>1. Closing(c) /\ c \notin connections /\ Owed(c) /\ fd[c] \in Fds
  <2>1. Waits("destroyed", c) /\ Accepted(c)
    BY WaitsProperties DEF WaitsWhere, CalledFor
  <2>2. Closing(c) /\ c \notin connections
    BY <2>1 DEF Quiet, InStage, Connecting, Serving, Over, Nothing, Closing
  <2> QED  BY <2>1, <2>2, StagesAreOwed DEF StageOwed, Lifetimes, OnlyAcceptedKnown
<1>2. /\ Remove(c, chan[c].events) /\ UNCHANGED downs
      /\ UNCHANGED <<state, loop, fd, server, pending, held, ups, failed>>
  BY <1>1 DEF ConnectDestroyed, RemoveFails, Closing
<1>3. PICK in : in = {}
  OBVIOUS
<1>4. Put(in)
  BY <1>2, <1>3 DEF Put
<1>5. /\ chan'[c].index = "KNew" /\ ~chan'[c].added
      /\ \A d \in Conns \ {c} : chan'[d] = chan[d]
      /\ \A m \in Loops, f \in Fds :
           m # loop[c] \/ f # fd[c] => channels'[m][f] = channels[m][f]
  BY <1>1, <1>2 DEF Remove, SocketOK
<1>6. Aside(c)
  <2>1. deployment' = deployment /\ connections' = connections
    BY <1>2 DEF server
  <2> QED  BY <1>2, <1>5, <2>1 DEF Aside, CalledFor
<1>7. Afterwards(l, c, in, out)
  <2>1. UNCHANGED loop
    BY <1>2
  <2> QED  BY <1>4, <2>1, CalledWaits
<1>8. Over(c)'
  <2>1. Nothing(c)'
    <3>1. ASSUME NEW g \in {"established", "remove", "destroyed"}
          PROVE  Waits(g, c)' <=> Waits(g, c) /\ Job(g, c) \notin out
      <4>1. l = Home(Job(g, c)) \/ Job(g, c) \notin out
        BY JobProperties DEF Home
      <4>2. <<Home(Job(g, c)), Job(g, c)>> \notin in
        BY <1>3
      <4> QED  BY <1>7, <4>1, <4>2 DEF Afterwards
    <3>2. ~Waits("remove", c) /\ ~Waits("established", c)
      BY <1>1 DEF Closing
    <3> QED  BY <3>1, <3>2 DEF Nothing
  <2>2. state'[c] = "kDisconnected" /\ c \notin connections' /\ Said(c)' = <<1, 1>>
    BY <1>1, <1>2 DEF Closing, Said, server
  <2> QED  BY <1>5, <2>1, <2>2 DEF Over
<1>9. Progress(c)
  BY <1>1, <1>8 DEF Progress
<1>10. \A k, j : <<k, j>> \notin in
  BY <1>3
<1> QED  BY <1>1, <1>4, <1>6, <1>9, <1>10 DEF Turn, CalledFor

(* Calls that leave the stage as it is: forceCloseInLoop on a connection    *)
(* that is not up, onMessage, a reset that is read as an error.             *)
LEMMA SameStageTurn ==
  ASSUME Types, Lifetimes, Quiet, NEW l \in Loops, NEW c \in Conns, NEW out, NEW in,
         CalledFor(l, c, out), loop[c] = l, Put(in),
         \A j \in out : j.fn = "forceClose",
         \A k, j : <<k, j>> \in in => k = l /\ j = Job("forceClose", c),
         state' = state \/ (Serving(c) /\ state' = [state EXCEPT ![c] = "kDisconnecting"]),
         UNCHANGED <<loop, fd, chan, channels, server, held, calls, failed>>,
         \A m \in Loops : c \in active'[m] => Serving(c)
  PROVE  Turn(c)
<1> USE DEF Types, ObjectsOK
<1>1. UNCHANGED <<loop, fd, chan, channels, connections, deployment, held, ups, downs, failed>>
  BY DEF server, calls
<1>2. Aside(c)
  BY <1>1 DEF Aside, CalledFor, SocketOK
<1>3. Afterwards(l, c, in, out)
  <2>1. UNCHANGED loop
    BY <1>1
  <2> HIDE DEF Types, ObjectsOK
  <2> QED  BY <2>1, CalledWaits
<1>4. ASSUME NEW fn \in {"established", "remove", "destroyed"}
      PROVE  Waits(fn, c)' <=> Waits(fn, c)
  <2>1. Job(fn, c) \notin out /\ <<Home(Job(fn, c)), Job(fn, c)>> \notin in
    BY JobProperties
  <2> QED  BY <1>3, <2>1 DEF Afterwards
<1>5. Nothing(c)' <=> Nothing(c)
  BY <1>4 DEF Nothing
<1>6. Said(c)' = Said(c) /\ Slot(c)' = Slot(c)
  BY <1>1 DEF Said, Slot
<1>7. Serving(c) => Serving(c)'
  <2>1. state'[c] \in {state[c], "kDisconnecting"}
    BY DEF SocketOK
  <2> QED  BY <1>1, <1>5, <1>6, <2>1 DEF Serving
<1>8. ~Serving(c) => /\ Connecting(c) => Connecting(c)'
                     /\ Closing(c) => Closing(c)'
                     /\ Over(c) => Over(c)'
  BY <1>1, <1>4, <1>5, <1>6 DEF Connecting, Closing, Over
<1>9. Progress(c)
  BY <1>7, <1>8 DEF Progress, Quiet, InStage, CalledFor
<1>10. \A k, j : <<k, j>> \in in => j.conn = c /\ j.fn = "forceClose" /\ k = Home(j)
  BY JobProperties DEF Home
<1> QED  BY <1>1, <1>2, <1>7, <1>9, <1>10 DEF Turn, CalledFor

(* The functor a loop runs is a turn for its connection.                    *)
LEMMA RunFunctorTurn ==
  ASSUME Types, Lifetimes, Quiet, deployment.usage = "quiet", NEW l \in Loops, RunFunctor(l)
  PROVE  \E c \in Conns : Turn(c)
<1>1. PICK j : j = Head(batch[l])
  OBVIOUS
<1>2. PICK c : c = j.conn
  OBVIOUS
<1>3. PICK out : out = {j}
  OBVIOUS
<1>4. /\ failed = None /\ phase[l] = "functors" /\ batch[l] # <<>>
      /\ batch' = [batch EXCEPT ![l] = Tail(@)] /\ UNCHANGED <<kernel, phase, active, upc>>
  BY DEF RunFunctor
<1>5. Taken(l, out)
  BY <1>1, <1>3, <1>4 DEF Taken
<1>6. j \in Jobs(l)
  <2>1. batch[l] \in Seq(Functor) /\ pending[l] \in Seq(Functor)
    BY DEF LoopsOK, PendingOK, Types, ObjectsOK
  <2>2. Head(batch[l] \o pending[l]) = j /\ batch[l] \o pending[l] # <<>>
        /\ batch[l] \o pending[l] \in Seq(Functor)
    BY <1>1, <1>4, <2>1, JoinedJobs, ConcatProperties
  <2> QED  BY <2>2, TailJobs DEF Jobs, Work
<1>7. j \in Functor /\ j = Job(j.fn, c) /\ c \in Conns
  BY <1>2, <1>6, JobsAreFunctors, JobProperties DEF Types, ObjectsOK
<1>8. Accepted(c) /\ l = Home(j)
  BY <1>2, <1>6 DEF Lifetimes, JobsPlaced
<1>9. CalledFor(l, c, out)
  <2>1. Referenced(c)
    BY <1>2, <1>6, QueuedIsReferenced DEF Types, ObjectsOK
  <2> QED  BY <1>2, <1>3, <1>4, <1>5, <1>6, <1>8, <2>1 DEF CalledFor
<1>10. /\ j.fn = "established" => ConnectEstablished(c)
       /\ j.fn = "forceClose" => ForceCloseInLoop(l, c)
       /\ j.fn = "remove" => RemoveConnectionInLoop(c)
       /\ j.fn = "destroyed" => ConnectDestroyed(c)
       /\ j.fn \in {"established", "forceClose", "remove", "destroyed"}
  BY <1>1, <1>2, <1>7 DEF RunFunctor, Functor
<1>11. ASSUME j.fn # "remove"
       PROVE  loop[c] = l /\ \A m \in Loops : c \notin active'[m]
  <2>1. loop[c] = l
    BY <1>2, <1>8, <1>11 DEF Home
  <2>2. active[l] = {} /\ active' = active
    BY <1>4 DEF Types, LoopsOK
  <2>3. c # Acceptor
    BY <1>7, ServerAssumption DEF Acceptor
  <2>4. \A m \in Loops : c \in active[m] => loop[c] = m
    BY <2>3 DEF Lifetimes, ActiveIsOwed
  <2> QED  BY <2>1, <2>2, <2>4
<1>12. \A x : x \in out <=> x = Job(j.fn, c)
  BY <1>3, <1>7
<1>13. CASE j.fn = "established"
  <2>1. /\ ConnectEstablished(c) /\ loop[c] = l /\ \A m \in Loops : c \notin active'[m]
        /\ \A x : x \in out <=> x = Job("established", c)
    BY <1>10, <1>11, <1>12, <1>13
  <2> QED  BY <1>7, <1>9, <2>1, EstablishedTurn
<1>14. CASE j.fn = "forceClose"
  <2>1. /\ ForceCloseInLoop(l, c) /\ loop[c] = l /\ \A m \in Loops : c \notin active'[m]
        /\ \A x \in out : x.fn = "forceClose"
    BY <1>3, <1>10, <1>11, <1>14
  <2>2. CASE state[c] \in {"kConnected", "kDisconnecting"}
    <3>1. HandleClose(l, c)
      BY <2>1, <2>2 DEF ForceCloseInLoop
    <3>2. Serving(c)
      BY <1>7, <1>8, <2>2 DEF Quiet, InStage, Connecting, Closing, Over
    <3> QED  BY <1>7, <1>9, <2>1, <3>1, <3>2, CloseTurn
  <2>3. CASE ~(state[c] \in {"kConnected", "kDisconnecting"})
    <3>1. UNCHANGED <<socket, server, pending, held, calls, failed>>
      BY <2>1, <2>3 DEF ForceCloseInLoop
    <3>2. PICK in : in = {}
      OBVIOUS
    <3>3. Put(in) /\ \A k, x : <<k, x>> \in in => k = l /\ x = Job("forceClose", c)
      BY <3>1, <3>2 DEF Put
    <3>4. state' = state /\ UNCHANGED <<loop, fd, chan, channels, server, held, calls, failed>>
      BY <3>1 DEF socket
    <3> QED  BY <1>7, <1>9, <2>1, <3>3, <3>4, SameStageTurn
  <2> QED  BY <2>2, <2>3
<1>15. CASE j.fn = "remove"
  <2>1. CalledFor(Base, c, out)
    BY <1>8, <1>9, <1>15 DEF Home
  <2>2. RemoveConnectionInLoop(c) /\ \A x : x \in out <=> x = Job("remove", c)
    BY <1>10, <1>12, <1>15
  <2> QED  BY <1>7, <2>1, <2>2, RemoveTurn
<1>16. CASE j.fn = "destroyed"
  <2>1. /\ ConnectDestroyed(c) /\ loop[c] = l /\ \A m \in Loops : c \notin active'[m]
        /\ \A x : x \in out <=> x = Job("destroyed", c)
    BY <1>10, <1>11, <1>12, <1>16
  <2> QED  BY <1>7, <1>9, <2>1, DestroyedTurn
<1> QED  BY <1>10, <1>13, <1>14, <1>15, <1>16

(* So is handling a channel: whoever is active is still served.             *)
LEMMA HandleTurn ==
  ASSUME Types, Lifetimes, Quiet, deployment.usage = "quiet",
         NEW l \in Loops, NEW c \in Conns, Handle(l, c)
  PROVE  Turn(c)
<1>1. PICK out : out = {}
  OBVIOUS
<1>2. /\ failed = None /\ phase[l] = "handle" /\ c \in active[l]
      /\ active' = [active EXCEPT ![l] = @ \ {c}] /\ UNCHANGED <<phase, batch, upc>>
  BY DEF Handle
<1>3. Serving(c) /\ loop[c] = l /\ Accepted(c) /\ Referenced(c)
  <2>1. c # Acceptor
    BY ServerAssumption DEF Acceptor
  <2>2. Owed(c) /\ loop[c] = l /\ Serving(c)
    BY <1>2, <2>1 DEF Lifetimes, ActiveIsOwed, Quiet, ActiveServe
  <2> QED  BY <2>2, OwedIsAccepted, OwedIsReferenced DEF Types, ObjectsOK
<1>4. \A m \in Loops : active'[m] \subseteq active[m] /\ c \notin active'[m]
  <2>1. c # Acceptor
    BY ServerAssumption DEF Acceptor
  <2>2. \A m \in Loops : c \in active[m] => m = l
    BY <1>3, <2>1 DEF Lifetimes, ActiveIsOwed
  <2> QED  BY <1>2, <2>2 DEF Types, LoopsOK
<1>5. CalledFor(l, c, out) /\ \A x \in out : x.fn = "forceClose"
  BY <1>1, <1>2, <1>3, <1>4 DEF CalledFor, Taken
<1>6. CASE HandleMessage(l, c)
  <2>1. PICK in : in = IF pending' = pending THEN {} ELSE {<<l, Job("forceClose", c)>>}
    OBVIOUS
  <2>2. Put(in) /\ \A k, x : <<k, x>> \in in => k = l /\ x = Job("forceClose", c)
    <3>1. pending' = pending \/ pending' = Push(pending, l, "forceClose", c)
      BY <1>6 DEF HandleMessage
    <3> QED  BY <2>1, <3>1 DEF Put
  <2>3. /\ state' = state \/ (Serving(c) /\ state' = [state EXCEPT ![c] = "kDisconnecting"])
        /\ UNCHANGED <<loop, fd, chan, channels, server, held, calls, failed>>
    BY <1>3, <1>6 DEF HandleMessage
  <2> QED  BY <1>3, <1>4, <1>5, <2>2, <2>3, SameStageTurn
<1>7. CASE HandleClose(l, c)
  BY <1>3, <1>4, <1>5, <1>7, CloseTurn
<1>8. CASE UNCHANGED <<data, socket, server, pending, held, calls, failed>>
  <2>1. PICK in : in = {}
    OBVIOUS
  <2>2. Put(in) /\ \A k, x : <<k, x>> \in in => k = l /\ x = Job("forceClose", c)
    BY <1>8, <2>1 DEF Put
  <2>3. state' = state /\ UNCHANGED <<loop, fd, chan, channels, server, held, calls, failed>>
    BY <1>8 DEF socket
  <2> QED  BY <1>3, <1>4, <1>5, <2>2, <2>3, SameStageTurn
<1>9. \/ HandleMessage(l, c)
      \/ HandleClose(l, c)
      \/ UNCHANGED <<data, socket, server, pending, held, calls, failed>>
  BY DEF Handle
<1> QED  BY <1>6, <1>7, <1>8, <1>9

(* The steps that leave the connections alone keep the invariant: who       *)
(* becomes active is registered, so it is served.                           *)
LEMMA ElsewhereQuiet ==
  ASSUME Types, Quiet,
         UNCHANGED <<socket, connections, calls, failed, upc>>, held' \subseteq held,
         \A k \in Loops : Work(k)' = Work(k) /\ phase'[k] # "exited",
         \A k \in Loops : \A d \in active'[k] \ {Acceptor} :
            d \in active[k] \/ (d \in Conns /\ Accepted(d) /\ chan[d].index = "KAdded")
  PROVE  Quiet'
<1> USE DEF Types, ObjectsOK
<1>1. UNCHANGED <<state, loop, fd, chan, channels, connections, ups, downs, failed, upc>>
  BY DEF socket, calls
<1>2. \A k \in Loops : Jobs(k)' = Jobs(k)
  BY DEF Jobs
<1>3. ASSUME NEW d \in Conns
      PROVE  /\ Waits("established", d)' <=> Waits("established", d)
             /\ Waits("remove", d)' <=> Waits("remove", d)
             /\ Waits("destroyed", d)' <=> Waits("destroyed", d)
             /\ Owed(d)' <=> Owed(d)
  <2>1. loop[d] \in Loops /\ Base \in Loops
    BY DEF SocketOK, Loops
  <2>2. Jobs(loop[d])' = Jobs(loop[d]) /\ Jobs(Base)' = Jobs(Base)
    BY <1>1, <1>2, <2>1
  <2> QED  BY <1>1, <2>2, WaitsProperties DEF WaitsWhere
<1>4. ASSUME NEW d \in Conns
      PROVE  /\ Said(d)' = Said(d) /\ Slot(d)' = Slot(d)
             /\ Accepted(d)' <=> Accepted(d)
             /\ Nothing(d)' <=> Nothing(d)
  BY <1>1, <1>3 DEF Said, Slot, Accepted, Nothing
<1>5. ASSUME NEW d \in Conns
      PROVE  /\ Connecting(d) => Connecting(d)'
             /\ Serving(d) => Serving(d)'
             /\ Closing(d) => Closing(d)'
             /\ Over(d) => Over(d)'
  <2>1. /\ state'[d] = state[d] /\ chan'[d] = chan[d]
        /\ d \in connections' <=> d \in connections
    BY <1>1
  <2> QED  BY <1>3, <1>4, <2>1 DEF Connecting, Serving, Closing, Over
<1>6. InStage'
  BY <1>1, <1>4, <1>5 DEF Quiet, InStage
<1>7. OwnDescriptor'
  BY <1>1, <1>3 DEF Quiet, OwnDescriptor
<1>8. QueuedOnce'
  BY DEF Quiet, QueuedOnce, Once
<1>9. ActiveServe'
  <2> SUFFICES ASSUME NEW k \in Loops, NEW d \in active'[k] \ {Acceptor}
               PROVE  Serving(d)'
    BY DEF ActiveServe
  <2>1. CASE d \in active[k]
    <3>1. d \in Conns
      BY <2>1 DEF LoopsOK
    <3> QED  BY <1>5, <2>1, <3>1 DEF Quiet, ActiveServe
  <2>2. CASE d \in Conns /\ Accepted(d) /\ chan[d].index = "KAdded"
    <3>1. Serving(d)
      BY <2>2 DEF Quiet, InStage, Connecting, Closing, Over
    <3> QED  BY <1>5, <2>2, <3>1
  <2> QED  BY <2>1, <2>2
<1>10. Calm'
  BY <1>1 DEF Quiet, Calm
<1> QED  BY <1>6, <1>7, <1>8, <1>9, <1>10 DEF Quiet

(* They are the peers', the kernel's and most of a loop's.                  *)
LEMMA OtherStepsQuiet ==
  ASSUME Types, Quiet,
         \/ \E c \in Conns : \/ PeerConnects(c) \/ PeerGivesUp(c) \/ PeerSends(c)
                             \/ PeerCloses(c) \/ Release(c) \/ Refuse(c)
         \/ AcceptNothing
         \/ \E l \in Loops : Poll(l) \/ TakeFunctors(l) \/ EndIteration(l)
  PROVE  Quiet'
<1> USE DEF Types, ObjectsOK
<1>0. \A k \in Loops : phase[k] # "exited"
  BY DEF Quiet, Calm
<1>1. CASE \E c \in Conns : \/ PeerConnects(c) \/ PeerGivesUp(c) \/ PeerSends(c)
                            \/ PeerCloses(c) \/ Release(c)
  <2>1. PICK c \in Conns : \/ PeerConnects(c) \/ PeerGivesUp(c) \/ PeerSends(c)
                           \/ PeerCloses(c) \/ Release(c)
    BY <1>1
  <2>2. UNCHANGED <<socket, server, work, upc, calls, failed>> /\ held' \subseteq held
    BY <2>1 DEF PeerConnects, PeerGivesUp, PeerSends, PeerCloses, Release, user
  <2>3. UNCHANGED <<connections, phase, active, batch, pending>>
    BY <2>2 DEF server, work
  <2>4. \A k \in Loops : Work(k)' = Work(k) /\ phase'[k] # "exited"
    BY <1>0, <2>3 DEF Work
  <2> QED  BY <2>2, <2>3, <2>4, ElsewhereQuiet
<1>2. CASE AcceptNothing \/ \E c \in Conns : Refuse(c)
  <2>1. HandleAcceptor /\ UNCHANGED <<socket, connections, pending, held, ups, failed>>
    BY <1>2 DEF AcceptNothing, Refuse
  <2>2. /\ active' = [active EXCEPT ![Base] = @ \ {Acceptor}]
        /\ UNCHANGED <<phase, batch, upc, downs>>
    BY <2>1 DEF HandleAcceptor
  <2>3. \A k \in Loops : Work(k)' = Work(k) /\ active'[k] \subseteq active[k]
    BY <2>1, <2>2 DEF Work, LoopsOK
  <2>4. UNCHANGED <<socket, connections, calls, failed, upc>>
    BY <2>1, <2>2 DEF calls
  <2> QED  BY <1>0, <2>1, <2>2, <2>3, <2>4, ElsewhereQuiet
<1>3. CASE \E l \in Loops : Poll(l) \/ TakeFunctors(l) \/ EndIteration(l)
  <2>1. PICK l \in Loops : Poll(l) \/ TakeFunctors(l) \/ EndIteration(l)
    BY <1>3
  <2>2. UNCHANGED <<socket, server, user, calls, failed>>
    BY <2>1 DEF Poll, TakeFunctors, EndIteration
  <2>3. UNCHANGED <<connections, held, upc>>
    BY <2>2 DEF server, user
  <2>4. \A k \in Loops : phase'[k] # "exited"
    BY <1>0, <2>1 DEF Poll, TakeFunctors, EndIteration, LoopsOK
  <2>5. \A k \in Loops : \A d \in active'[k] \ {Acceptor} :
           d \in active[k] \/ (d \in Conns /\ Accepted(d) /\ chan[d].index = "KAdded")
    <3>1. CASE Poll(l)
      <4>1. active' = [active EXCEPT ![l] = Ready(l) \union Listening(l)]
        BY <3>1 DEF Poll
      <4>2. \A d \in Ready(l) : d \in Conns /\ Accepted(d) /\ chan[d].index = "KAdded"
        BY DEF Ready
      <4>3. Listening(l) \subseteq {Acceptor}
        BY DEF Listening
      <4> QED  BY <4>1, <4>2, <4>3 DEF LoopsOK
    <3>2. CASE TakeFunctors(l) \/ EndIteration(l)
      BY <3>2 DEF TakeFunctors, EndIteration
    <3> QED  BY <2>1, <3>1, <3>2
  <2>6. \A k \in Loops : Work(k)' = Work(k)
    BY <2>1, IterationWork
  <2> QED  BY <2>2, <2>3, <2>4, <2>5, <2>6, ElsewhereQuiet
<1> QED  BY <1>1, <1>2, <1>3

(* A connection that is accepted gets a descriptor no other one has.        *)
LEMMA AcceptQuiet ==
  ASSUME Types, Types', Lifetimes, Quiet, deployment.usage = "quiet",
         NEW c \in Conns, NEW f \in Fds, Accept(c, f)
  PROVE  Quiet'
<1> USE DEF Types, ObjectsOK
<1>1. PICK out : out = {}
  OBVIOUS
<1>2. /\ failed = None /\ phase[Base] = "handle"
      /\ active' = [active EXCEPT ![Base] = @ \ {Acceptor}]
      /\ UNCHANGED <<phase, batch, upc, downs>> /\ peer[c] = "waiting"
      /\ OnNewConnection(c, f) /\ f \in Free
  BY DEF Accept, HandleAcceptor, Backlog
<1>3. Base \in Loops /\ NextLoop \in Loops
  BY PoolProperties
<1>4. PICK n \in Loops : n = NextLoop
  BY <1>3
<1>5. /\ ~Accepted(c) /\ ~Owed(c) /\ c \notin connections /\ chan[c].index = "KNew"
      /\ ~chan[c].added /\ Said(c) = <<0, 0>> /\ held = {}
  BY <1>2, OwedIsAccepted DEF Lifetimes, OnlyAcceptedKnown, Quiet, InStage, Calm
<1>6. \A d \in Conns : Owed(d) => fd[d] # f /\ Accepted(d)
  BY <1>2, OwedIsReferenced, OwedIsAccepted DEF Free, Closed, Destroyed
<1>7. \A m \in Loops : channels[m][f] = None
  <2>1. \A m \in Loops, d \in Conns : channels[m][f] # d
    BY <1>6 DEF Lifetimes, RegisteredIsOwed
  <2>2. \A m \in Loops : channels[m][f] \in Conns \union {None}
    BY DEF SocketOK
  <2> QED  BY <2>1, <2>2
<1>8. /\ loop' = [loop EXCEPT ![c] = n] /\ fd' = [fd EXCEPT ![c] = f]
      /\ connections' = connections \union {c}
      /\ UNCHANGED <<held, failed>>
      /\ \/ /\ n # Base /\ state' = [state EXCEPT ![c] = "kConnecting"]
            /\ pending' = Push(pending, n, "established", c)
            /\ UNCHANGED <<chan, channels, ups>>
         \/ /\ n = Base /\ state' = [state EXCEPT ![c] = "kConnected"]
            /\ chan' = [chan EXCEPT ![c] =
                 [index |-> "KAdded", events |-> "read", added |-> TRUE]]
            /\ channels' = [channels EXCEPT ![Base][f] = c]
            /\ ups' = [ups EXCEPT ![c] = @ + 1]
            /\ UNCHANGED pending
  BY <1>2, <1>3, <1>4, <1>7 DEF OnNewConnection, KeptWith
<1>9. /\ loop'[c] = n /\ fd'[c] = f
      /\ \A d \in Conns \ {c} : loop'[d] = loop[d] /\ fd'[d] = fd[d] /\ state'[d] = state[d]
      /\ \A d \in Conns \ {c} : /\ chan'[d] = chan[d] /\ ups'[d] = ups[d]
                                /\ d \in connections' <=> d \in connections
      /\ \A m \in Loops, g \in Fds : g # f => channels'[m][g] = channels[m][g]
  <2>1. /\ loop'[c] = n /\ fd'[c] = f
        /\ \A d \in Conns \ {c} : loop'[d] = loop[d] /\ fd'[d] = fd[d] /\ state'[d] = state[d]
    BY <1>8 DEF SocketOK
  <2>2. \A d \in Conns \ {c} : /\ chan'[d] = chan[d] /\ ups'[d] = ups[d]
                               /\ d \in connections' <=> d \in connections
    BY <1>8 DEF SocketOK, CallsOK
  <2>3. ASSUME NEW m \in Loops, NEW g \in Fds, g # f
        PROVE  channels'[m][g] = channels[m][g]
    <3>1. channels' = channels \/ channels' = [channels EXCEPT ![Base][f] = c]
      BY <1>8
    <3>2. channels \in [Loops -> [Fds -> Conns \union {None}]]
      BY DEF SocketOK
    <3> QED  BY <2>3, <3>1, <3>2
  <2> QED  BY <2>1, <2>2, <2>3
<1>10. PICK in : in = IF n = Base THEN {} ELSE {<<n, Job("established", c)>>}
  OBVIOUS
<1>11. Taken(Base, out) /\ Put(in)
  BY <1>1, <1>2, <1>8, <1>10 DEF Taken, Put
<1>12. /\ \A k \in Loops : \A j \in Jobs(k)' : j \in Jobs(k) \/ <<k, j>> \in in
       /\ \A k \in Loops : \A j \in Jobs(k) : j \in Jobs(k)'
       /\ \A k \in Loops : \A j : <<k, j>> \in in => j \in Jobs(k)'
       /\ \A k \in Loops : \A x : Once(Work(k), x) /\ (<<k, x>> \in in => x \notin Jobs(k))
                                  => Once(Work(k), x)'
  BY <1>1, <1>3, <1>11, WorkStep
<1>13. /\ \A k \in Loops : \A fn : Job(fn, c) \notin Jobs(k)
       /\ \A k, x : <<k, x>> \in in => k = n /\ x = Job("established", c)
  BY <1>5, <1>10, JobProperties DEF Lifetimes, JobsPlaced
<1>14. ASSUME NEW d \in Conns \ {c}, NEW fn \in {"established", "remove", "destroyed"}
       PROVE  Waits(fn, d)' <=> Waits(fn, d)
  <2>1. PICK j : j = Job(fn, d)
    OBVIOUS
  <2>2. PICK h : h = Home(j)
    OBVIOUS
  <2>3. h \in Loops /\ j.conn = d /\ j.fn = fn
    BY <1>3, <2>1, <2>2, JobProperties DEF Home, SocketOK
  <2>4. \A k : <<k, j>> \notin in
    BY <1>13, <2>1, JobProperties
  <2>5. j \in Jobs(h)' <=> j \in Jobs(h)
    BY <1>12, <2>3, <2>4
  <2>6. Home(j)' = h
    BY <1>9, <2>2, <2>3 DEF Home
  <2> QED  BY <2>1, <2>2, <2>5, <2>6 DEF Waits
<1>15. ASSUME NEW d \in Conns \ {c}
       PROVE  /\ Owed(d)' <=> Owed(d)
              /\ Accepted(d)' <=> Accepted(d)
              /\ Said(d)' = Said(d)
              /\ Nothing(d)' <=> Nothing(d)
  BY <1>2, <1>9, <1>14, WaitsProperties DEF WaitsWhere, Accepted, Said, Nothing
<1>16. ASSUME NEW d \in Conns \ {c}, Owed(d)
       PROVE  Slot(d)' = Slot(d)
  <2>1. fd[d] \in Fds /\ loop[d] \in Loops /\ fd[d] # f
    BY <1>6, <1>16 DEF Lifetimes, OnlyAcceptedKnown, SocketOK
  <2> QED  BY <1>9, <2>1 DEF Slot
<1>17. ASSUME NEW d \in Conns \ {c}
       PROVE  /\ Connecting(d) => Connecting(d)'
              /\ Serving(d) => Serving(d)'
              /\ Closing(d) => Closing(d)'
              /\ Over(d) => Over(d)'
  <2>1. Connecting(d) \/ Serving(d) \/ Closing(d) => Slot(d)' = Slot(d)
    BY <1>16, StagesAreOwed DEF StageOwed
  <2> QED  BY <1>9, <1>14, <1>15, <2>1 DEF Connecting, Serving, Closing, Over
<1>18. /\ c \in connections' /\ Owed(c)'
       /\ ~Waits("remove", c)' /\ ~Waits("destroyed", c)'
  <2>1. c \in connections'
    BY <1>8
  <2>2. \A k \in Loops : Job("remove", c) \notin Jobs(k)' /\ Job("destroyed", c) \notin Jobs(k)'
    <3>1. \A k : <<k, Job("remove", c)>> \notin in /\ <<k, Job("destroyed", c)>> \notin in
      BY <1>13, JobProperties
    <3> QED  BY <1>12, <1>13, <3>1
  <2>3. Job("remove", c) \notin Jobs(Base)' /\ Job("destroyed", c) \notin Jobs(n)'
    BY <1>3, <2>2
  <2>4. Job("destroyed", c) \notin Jobs(loop[c])'
    BY <1>9, <2>3
  <2> QED  BY <2>1, <2>3, <2>4, WaitsProperties DEF WaitsWhere
<1>19. Connecting(c)' \/ Serving(c)'
  <2>1. CASE /\ n # Base /\ state' = [state EXCEPT ![c] = "kConnecting"]
             /\ pending' = Push(pending, n, "established", c)
             /\ UNCHANGED <<chan, channels, ups>>
    <3>1. Job("established", c) \in Jobs(n)'
      <4>1. in = {<<n, Job("established", c)>>}
        BY <1>10, <2>1
      <4> QED  BY <1>12, <4>1
    <3>2. Waits("established", c)'
      BY <1>9, <3>1, WaitsProperties DEF WaitsWhere
    <3>3. Slot(c)' # c /\ ~chan[c].added
      <4>1. Slot(c)' = channels[n][f] /\ channels[n][f] = None
        BY <1>7, <1>9, <2>1 DEF Slot
      <4> QED  BY <1>5, <4>1, ServerAssumption DEF None
    <3> QED  BY <1>2, <1>5, <1>18, <2>1, <3>2, <3>3 DEF Connecting, Said, SocketOK
  <2>2. CASE /\ n = Base /\ state' = [state EXCEPT ![c] = "kConnected"]
             /\ chan' = [chan EXCEPT ![c] =
                  [index |-> "KAdded", events |-> "read", added |-> TRUE]]
             /\ channels' = [channels EXCEPT ![Base][f] = c]
             /\ ups' = [ups EXCEPT ![c] = @ + 1]
             /\ UNCHANGED pending
    <3>1. Nothing(c)'
      <4>1. \A k \in Loops : Job("established", c) \notin Jobs(k)'
        BY <1>10, <1>12, <1>13, <2>2
      <4>2. ~Waits("established", c)'
        BY <1>3, <1>9, <2>2, <4>1, WaitsProperties DEF WaitsWhere
      <4> QED  BY <1>18, <4>2 DEF Nothing
    <3>2. Slot(c)' = c
      BY <1>9, <2>2 DEF Slot, SocketOK
    <3>3. Said(c)' = <<1, 0>>
      <4>1. ups[c] = 0 /\ downs[c] = 0
        BY <1>5 DEF Said
      <4> QED  BY <1>2, <2>2, <4>1 DEF Said, CallsOK
    <3> QED  BY <1>18, <2>2, <3>1, <3>2, <3>3 DEF Serving, SocketOK
  <2> QED  BY <1>8, <2>1, <2>2
<1>20. InStage'
  <2>1. Accepted(c)'
    BY <1>19, StagesAreOwed DEF StageOwed
  <2> QED  BY <1>9, <1>15, <1>17, <1>19, <2>1 DEF Quiet, InStage
<1>21. OwnDescriptor'
  BY <1>6, <1>9, <1>15 DEF Quiet, OwnDescriptor
<1>22. QueuedOnce'
  <2> SUFFICES ASSUME NEW k \in Loops, NEW d \in Conns,
                      NEW fn \in {"established", "remove", "destroyed"}
               PROVE  Once(Work(k), Job(fn, d))'
    BY DEF QueuedOnce
  <2>1. PICK j : j = Job(fn, d)
    OBVIOUS
  <2>2. Once(Work(k), j)
    BY <2>1 DEF Quiet, QueuedOnce
  <2>3. <<k, j>> \in in => j \notin Jobs(k)
    BY <1>13
  <2> QED  BY <1>12, <2>1, <2>2, <2>3
<1>23. ActiveServe'
  <2> SUFFICES ASSUME NEW m \in Loops, NEW d \in active'[m] \ {Acceptor}
               PROVE  Serving(d)'
    BY DEF ActiveServe
  <2>1. d \in active[m] \ {Acceptor} /\ d \in Conns
    BY <1>2 DEF LoopsOK
  <2>2. Serving(d)
    BY <2>1 DEF Quiet, ActiveServe
  <2>3. d # c
    BY <1>5, <2>1, <2>2, StagesAreOwed DEF StageOwed
  <2> QED  BY <1>17, <2>1, <2>2, <2>3
<1>24. Calm'
  BY <1>2, <1>8 DEF Quiet, Calm
<1> QED  BY <1>20, <1>21, <1>22, <1>23, <1>24 DEF Quiet

(* The invariant holds at the start and every step keeps it.                *)
LEMMA QuietInvariant ==
  /\ Init => Quiet
  /\ Types /\ Lifetimes /\ Quiet /\ deployment.usage = "quiet" /\ [Next]_vars => Quiet'
<1>1. ASSUME Init
      PROVE  Quiet
  <2>1. \A l \in Loops : Work(l) = <<>> /\ Jobs(l) = {}
    BY <1>1, NothingToDo
  <2>2. \A c \in Conns : loop[c] \in Loops /\ Base \in Loops /\ ~Accepted(c)
    BY <1>1 DEF Init, Loops, Accepted
  <2>3. InStage
    BY <1>1, <2>2 DEF Init, InStage, Said
  <2>4. OwnDescriptor
    BY <1>1, <2>1, <2>2 DEF Init, OwnDescriptor, Owed
  <2>5. QueuedOnce
    BY <2>1, EmptySeq, LenProperties DEF QueuedOnce, Once
  <2>6. ActiveServe /\ Calm
    BY <1>1 DEF Init, ActiveServe, Calm
  <2> QED  BY <2>3, <2>4, <2>5, <2>6 DEF Quiet
<1>2. ASSUME Types, Lifetimes, Quiet, deployment.usage = "quiet", [Next]_vars
      PROVE  Quiet'
  <2>1. Types'
    BY <1>2, TypesInvariant
  <2>2. CASE UNCHANGED vars
    <3>1. \A k \in Loops : Work(k)' = Work(k) /\ phase'[k] # "exited"
      BY <1>2, <2>2 DEF vars, work, Work, Quiet, Calm
    <3> QED  BY <1>2, <2>2, <3>1, ElsewhereQuiet DEF vars, server, work, user
  <2>3. \A u \in Users : ~ForceCloseQueue(u) /\ \A c \in Conns : ~ForceClose(u, c)
    BY <1>2, ServerAssumption DEF Quiet, Calm, ForceCloseQueue, ForceClose, None
  <2>4. ~DestroyServer /\ \A l \in Loops : ~LoopExits(l)
    BY <1>2 DEF DestroyServer, LoopExits, Quiet, Calm, Loops
  <2>5. CASE Next
    BY <1>2, <2>1, <2>3, <2>4, <2>5, RunFunctorTurn, HandleTurn, TurnKeeps, OtherStepsQuiet,
       AcceptQuiet DEF Next, LoopStep, Environment
  <2> QED  BY <1>2, <2>2, <2>5
<1> QED  BY <1>1, <1>2

(* The deployment does not change.                                          *)
LEMMA SameDeployment ==
  ASSUME Types, [Next]_vars
  PROVE  deployment' = deployment
<1>1. CASE UNCHANGED vars
  BY <1>1 DEF vars, server
<1>2. CASE \E l \in Loops : LoopStep(l)
  <2>1. PICK l \in Loops : LoopStep(l)
    BY <1>2
  <2>2. CASE Poll(l) \/ TakeFunctors(l) \/ EndIteration(l)
    BY <2>2 DEF Poll, TakeFunctors, EndIteration, server
  <2>3. CASE RunFunctor(l)
    <3>1. PICK f : f = Head(batch[l])
      OBVIOUS
    <3>2. \/ ConnectEstablished(f.conn) \/ ForceCloseInLoop(l, f.conn)
          \/ RemoveConnectionInLoop(f.conn) \/ ConnectDestroyed(f.conn)
      <4>1. f.fn \in {"established", "forceClose", "remove", "destroyed"}
        <5>1. batch[l] \in Seq(Functor) /\ batch[l] # <<>>
          BY <2>3 DEF RunFunctor, Types, LoopsOK
        <5>2. f \in Functor
          BY <3>1, <5>1, HeadTailProperties
        <5> QED  BY <5>2 DEF Functor
      <4> QED  BY <2>3, <3>1, <4>1 DEF RunFunctor
    <3> QED  BY <3>2 DEF ConnectEstablished, ForceCloseInLoop, HandleClose,
             RemoveConnectionInLoop, ConnectDestroyed, Abort, server
  <2>4. CASE \E c \in Conns : Handle(l, c)
    BY <2>4 DEF Handle, HandleMessage, HandleClose, Abort, server
  <2>5. CASE \/ \E c \in Conns, f \in Fds : Accept(c, f)
             \/ \E c \in Conns : Refuse(c)
             \/ AcceptNothing
    BY <2>5 DEF Accept, Refuse, AcceptNothing, HandleAcceptor
  <2> QED  BY <2>1, <2>2, <2>3, <2>4, <2>5 DEF LoopStep
<1>3. CASE Environment
  BY <1>3 DEF Environment, PeerConnects, PeerGivesUp, PeerSends, PeerCloses, Release,
     ForceCloseQueue, ForceClose, server
<1>4. CASE DestroyServer \/ \E l \in Loops : LoopExits(l)
  BY <1>4 DEF DestroyServer, LoopExits, server
<1> QED  BY <1>1, <1>2, <1>3, <1>4 DEF Next

(* However the base loop, the IO loops and the peers interleave, no         *)
(* assertion of the library fails as long as only the loops close           *)
(* connections and the server stays, and what is destroyed is disconnected  *)
(* and out of the poller.                                                   *)
THEOREM NoAssertionEverFails == Spec => []NoAssertionFails
<1> DEFINE IInv == Types /\ Lifetimes /\ (deployment.usage = "quiet" => Quiet)
<1>1. Init => IInv
  BY TypesInvariant, LifetimesInvariant, QuietInvariant
<1>2. IInv /\ [Next]_vars => IInv'
  BY TypesInvariant, LifetimesInvariant, QuietInvariant, SameDeployment
<1>3. IInv => NoAssertionFails
  BY QuietSuffices
<1> QED  BY <1>1, <1>2, <1>3, PTL DEF Spec

-----------------------------------------------------------------------------
(* The user is told of every connection once at either end of its life.     *)

\* The connection is in a functor that has not been run.
InQueue(c) == \E l \in Loops : \E j \in Jobs(l) : j.conn = c

(* The connections of two queues are those of the queues joined.            *)
LEMMA BoundJoined ==
  ASSUME NEW b \in Seq(Functor), NEW p \in Seq(Functor), NEW c
  PROVE  c \in Bound(b) \union Bound(p) <=> \E j \in Range(b \o p) : j.conn = c
<1> DEFINE m == Len(b)
           n == Len(p)
           w == b \o p
<1>1. /\ m \in Nat /\ n \in Nat /\ DOMAIN b = 1..m /\ DOMAIN p = 1..n /\ DOMAIN w = 1..(m + n)
      /\ \A i \in 1..(m + n) : w[i] = IF i <= m THEN b[i] ELSE p[i - m]
  BY ConcatProperties, LenProperties
<1> HIDE DEF m, n, w
<1>2. ASSUME NEW i \in 1..m, b[i].conn = c
      PROVE  \E k \in DOMAIN w : w[k].conn = c
  <2>1. i \in DOMAIN w /\ w[i] = b[i]
    BY <1>1
  <2> QED  BY <1>2, <2>1
<1>3. ASSUME NEW i \in 1..n, p[i].conn = c
      PROVE  \E k \in DOMAIN w : w[k].conn = c
  <2>1. i + m \in DOMAIN w /\ w[i + m] = p[i]
    BY <1>1
  <2> QED  BY <1>3, <2>1
<1>4. ASSUME NEW i \in DOMAIN w, w[i].conn = c
      PROVE  c \in Bound(b) \union Bound(p)
  <2>1. CASE i <= m
    <3>1. i \in DOMAIN b /\ w[i] = b[i]
      BY <1>1, <2>1
    <3> QED  BY <1>4, <3>1 DEF Bound
  <2>2. CASE ~(i <= m)
    <3>1. i - m \in DOMAIN p /\ w[i] = p[i - m]
      BY <1>1, <2>2
    <3> QED  BY <1>4, <3>1 DEF Bound
  <2> QED  BY <2>1, <2>2
<1>5. c \in Bound(b) \union Bound(p) <=> \E k \in DOMAIN w : w[k].conn = c
  BY <1>1, <1>2, <1>3, <1>4 DEF Bound
<1>6. (\E k \in DOMAIN w : w[k].conn = c) <=> \E j \in Range(w) : j.conn = c
  BY DEF Range
<1> QED  BY <1>5, <1>6 DEF w

\* While users keep nothing, only the map and the queues refer to connections.
OnlyServerRefers(c) == Calm => (Referenced(c) <=> c \in connections \/ InQueue(c))

(* This is so in every state.                                               *)
LEMMA ReferencedWhen ==
  ASSUME Types, Types', NEW c \in Conns
  PROVE  OnlyServerRefers(c) /\ OnlyServerRefers(c)'
<1>1. c # None
  BY ServerAssumption DEF None
<1>2. OnlyServerRefers(c)
  <2>1. \A l \in Loops : batch[l] \in Seq(Functor) /\ pending[l] \in Seq(Functor)
    BY DEF Types, ObjectsOK, PendingOK, LoopsOK
  <2>2. ASSUME NEW l \in Loops
        PROVE  c \in Bound(pending[l]) \union Bound(batch[l]) <=> \E j \in Jobs(l) : j.conn = c
    BY <2>1, BoundJoined DEF Jobs, Work
  <2> QED  BY <1>1, <2>2 DEF OnlyServerRefers, Calm, Referenced, InQueue
<1>3. OnlyServerRefers(c)'
  <2>1. \A l \in Loops : batch'[l] \in Seq(Functor) /\ pending'[l] \in Seq(Functor)
    BY DEF Types, ObjectsOK, PendingOK, LoopsOK
  <2>2. ASSUME NEW l \in Loops
        PROVE  c \in Bound(pending'[l]) \union Bound(batch'[l]) <=> \E j \in Jobs(l)' : j.conn = c
    <3>1. Jobs(l)' = Range(batch'[l] \o pending'[l])
      BY DEF Jobs, Work
    <3> QED  BY <2>1, <3>1, BoundJoined
  <2> QED  BY <1>1, <2>2 DEF OnlyServerRefers, Calm, Referenced, InQueue
<1> QED  BY <1>2, <1>3

\* What the stages are for the user.
LifeAsTold(c) == deployment.usage = "quiet" =>
  /\ ~Destroyed(c) /\ Said(c) = <<0, 0>> => LifeOf(c) = "new"
  /\ ~Destroyed(c) /\ Said(c) = <<1, 0>> => LifeOf(c) = "up"
  /\ ~Destroyed(c) /\ Said(c) = <<1, 1>> => LifeOf(c) = "down"
  /\ Destroyed(c) /\ Said(c) = <<1, 1>> => LifeOf(c) = "gone"

(* This is so in every state.                                               *)
LEMMA LifeProperties ==
  ASSUME NEW c
  PROVE  LifeAsTold(c) /\ LifeAsTold(c)'
<1>1. <<0, 0>> # <<1, 0>> /\ <<0, 0>> # <<1, 1>> /\ <<1, 0>> # <<1, 1>>
  OBVIOUS
<1>2. LifeAsTold(c)
  BY <1>1 DEF LifeAsTold, LifeOf, Said
<1>3. LifeAsTold(c)'
  BY <1>1 DEF LifeAsTold, LifeOf, Said
<1> QED  BY <1>2, <1>3

(* What a connection's life depends on.                                     *)
LEMMA SameLife ==
  ASSUME Types, Types', Calm, Calm', NEW d \in Conns, deployment' = deployment,
         Said(d)' = Said(d), Accepted(d)' <=> Accepted(d),
         d \in connections' <=> d \in connections, InQueue(d)' <=> InQueue(d)
  PROVE  LifeOf(d)' = LifeOf(d)
<1>1. Referenced(d)' <=> Referenced(d)
  BY ReferencedWhen DEF OnlyServerRefers
<1>2. Destroyed(d)' <=> Destroyed(d)
  BY <1>1 DEF Destroyed
<1>3. ups'[d] = ups[d] /\ downs'[d] = downs[d]
  BY DEF Said
<1> QED  BY <1>2, <1>3 DEF LifeOf

\* At most the life of c goes on, and by one step.
LifeGoesOn(c) ==
  /\ \A d \in Conns \ {c} : LifeOf(d)' = LifeOf(d)
  /\ \/ LifeOf(c)' = LifeOf(c)
     \/ LifeOf(c) = "new" /\ LifeOf(c)' = "up"
     \/ LifeOf(c) = "up" /\ LifeOf(c)' = "down"
     \/ LifeOf(c) = "down" /\ LifeOf(c)' = "gone"

(* The life of a connection in each of its stages.                          *)
LEMMA LifeInStage ==
  ASSUME Types, Types', Calm, Calm', NEW c \in Conns, deployment.usage = "quiet",
         deployment' = deployment
  PROVE  /\ Connecting(c) => LifeOf(c) = "new"
         /\ Serving(c) => LifeOf(c) = "up"
         /\ Closing(c) => LifeOf(c) = "down"
         /\ Over(c) => LifeOf(c) = IF Destroyed(c) THEN "gone" ELSE "down"
         /\ Connecting(c)' => LifeOf(c)' = "new"
         /\ Serving(c)' => LifeOf(c)' = "up"
         /\ Closing(c)' => LifeOf(c)' = "down"
         /\ Over(c)' => LifeOf(c)' = IF Destroyed(c)' THEN "gone" ELSE "down"
<1>1. /\ Connecting(c) \/ Serving(c) \/ Closing(c) => ~Destroyed(c)
      /\ Connecting(c)' \/ Serving(c)' \/ Closing(c)' => ~Destroyed(c)'
  <2>1. Base \in Loops /\ loop[c] \in Loops /\ loop'[c] \in Loops
    BY DEF Loops, Types, ObjectsOK, SocketOK
  <2>2. /\ Owed(c) => c \in connections \/ InQueue(c)
        /\ Owed(c)' => c \in connections' \/ InQueue(c)'
    BY <2>1, JobProperties DEF Owed, InQueue
  <2>3. (Owed(c) => Referenced(c)) /\ (Owed(c)' => Referenced(c)')
    BY <2>2, ReferencedWhen DEF OnlyServerRefers
  <2> QED  BY <2>3, StagesAreOwed DEF StageOwed, Destroyed
<1> QED  BY <1>1, LifeProperties DEF LifeAsTold, Connecting, Serving, Closing, Over

(* A turn for c is a step of its life, or none.                             *)
LEMMA TurnLife ==
  ASSUME Types, Types', Quiet, Quiet', deployment.usage = "quiet", NEW c \in Conns, Turn(c)
  PROVE  LifeGoesOn(c)
<1>0. PICK l \in Loops : \E in, out :
        /\ Taken(l, out) /\ Put(in) /\ Aside(c) /\ Referenced(c) /\ Progress(c)
        /\ Accepted(c)
        /\ \A j \in out : j.conn = c
        /\ \A k, j : <<k, j>> \in in => j.conn = c
  BY DEF Turn
<1>1. PICK in, out :
        /\ Taken(l, out) /\ Put(in) /\ Aside(c) /\ Referenced(c) /\ Progress(c)
        /\ Accepted(c)
        /\ \A j \in out : j.conn = c
        /\ \A k, j : <<k, j>> \in in => j.conn = c
  BY <1>0
<1>2. Calm /\ Calm' /\ deployment' = deployment
  BY <1>1 DEF Quiet, Aside
<1>3. ASSUME NEW d \in Conns \ {c}
      PROVE  LifeOf(d)' = LifeOf(d)
  <2>1. InQueue(d)' <=> InQueue(d)
    <3>1. /\ \A k \in Loops : \A j \in Jobs(k)' : j \in Jobs(k) \/ <<k, j>> \in in
          /\ \A k \in Loops : \A j \in Jobs(k) : j \in Jobs(k)' \/ j \in out
      BY <1>1, WorkStep DEF Types, ObjectsOK
    <3>2. \A j \in out : j.conn # d
      BY <1>1
    <3>3. \A k, j : <<k, j>> \in in => j.conn # d
      BY <1>1
    <3> QED  BY <3>1, <3>2, <3>3 DEF InQueue
  <2>2. /\ Said(d)' = Said(d)
        /\ Accepted(d)' <=> Accepted(d)
        /\ d \in connections' <=> d \in connections
    BY <1>1 DEF Aside, Said, Accepted
  <2> QED  BY <1>2, <2>1, <2>2, SameLife
<1>4. \/ LifeOf(c)' = LifeOf(c)
      \/ LifeOf(c) = "new" /\ LifeOf(c)' = "up"
      \/ LifeOf(c) = "up" /\ LifeOf(c)' = "down"
      \/ LifeOf(c) = "down" /\ LifeOf(c)' = "gone"
  <2>1. ~Destroyed(c)
    BY <1>1 DEF Destroyed
  <2> QED  BY <1>1, <1>2, <2>1, LifeInStage DEF Progress
<1> QED  BY <1>3, <1>4 DEF LifeGoesOn

(* So is accepting it.                                                      *)
LEMMA AcceptLife ==
  ASSUME Types, Types', Lifetimes, Quiet, Quiet', deployment.usage = "quiet",
         NEW c \in Conns, NEW f \in Fds, Accept(c, f)
  PROVE  LifeGoesOn(c)
<1>1. /\ peer[c] = "waiting" /\ OnNewConnection(c, f)
      /\ UNCHANGED <<deployment, batch, downs>>
  BY DEF Accept, HandleAcceptor, Backlog
<1>2. Calm /\ Calm' /\ failed' = None
  BY DEF Quiet, Calm
<1>3. ~Accepted(c) /\ Said(c) = <<0, 0>> /\ c \notin connections
  BY <1>1 DEF Lifetimes, OnlyAcceptedKnown, Quiet, InStage
<1>4. PICK n : n = NextLoop
  OBVIOUS
<1>5. /\ connections' = connections \union {c}
      /\ \/ state' = [state EXCEPT ![c] = "kConnecting"]
         \/ state' = [state EXCEPT ![c] = "kConnected"]
      /\ ups' = ups \/ ups' = [ups EXCEPT ![c] = @ + 1]
      /\ pending' = pending \/ pending' = Push(pending, n, "established", c)
  BY <1>1, <1>4 DEF OnNewConnection
<1>6. PICK in : in = IF pending' = pending THEN {} ELSE {<<n, Job("established", c)>>}
  OBVIOUS
<1>7. PICK out : out = {}
  OBVIOUS
<1>8. n \in Loops /\ Base \in Loops
  BY <1>4, PoolProperties DEF Types, ObjectsOK
<1>9. Taken(Base, out) /\ Put(in)
  BY <1>1, <1>5, <1>6, <1>7, <1>8 DEF Taken, Put
<1>10. \A k, j : <<k, j>> \in in => j.conn = c
  BY <1>6, JobProperties
<1>11. ASSUME NEW d \in Conns \ {c}
       PROVE  LifeOf(d)' = LifeOf(d)
  <2>1. InQueue(d)' <=> InQueue(d)
    <3>1. /\ \A k \in Loops : \A j \in Jobs(k)' : j \in Jobs(k) \/ <<k, j>> \in in
          /\ \A k \in Loops : \A j \in Jobs(k) : j \in Jobs(k)'
      BY <1>7, <1>8, <1>9, WorkStep DEF Types, ObjectsOK
    <3> QED  BY <1>10, <3>1 DEF InQueue
  <2>2. /\ Said(d)' = Said(d)
        /\ Accepted(d)' <=> Accepted(d)
        /\ d \in connections' <=> d \in connections
    BY <1>1, <1>5 DEF Said, Accepted, Types, ObjectsOK, SocketOK, CallsOK
  <2> QED  BY <1>1, <1>2, <2>1, <2>2, SameLife
<1>12. LifeOf(c) = "new"
  BY <1>3, LifeProperties DEF LifeAsTold, Destroyed
<1>13. LifeOf(c)' \in {"new", "up"}
  <2>1. Accepted(c)' /\ c \in connections'
    BY <1>5 DEF Accepted, Types, ObjectsOK, SocketOK, None
  <2>2. Said(c)' = <<0, 0>> \/ Said(c)' = <<1, 0>>
    <3>1. ups[c] = 0 /\ downs[c] = 0
      BY <1>3 DEF Said
    <3> QED  BY <1>1, <1>5, <3>1 DEF Said, Types, ObjectsOK, CallsOK
  <2>3. ~Destroyed(c)'
    BY <2>1 DEF Destroyed, Referenced
  <2> QED  BY <1>1, <2>2, <2>3, LifeProperties DEF LifeAsTold
<1> QED  BY <1>11, <1>12, <1>13 DEF LifeGoesOn

\* The steps that leave the connections and the work of the loops alone.
Idle == \/ UNCHANGED vars
        \/ \E c \in Conns : \/ PeerConnects(c) \/ PeerGivesUp(c) \/ PeerSends(c)
                            \/ PeerCloses(c) \/ Release(c) \/ Refuse(c)
        \/ AcceptNothing
        \/ \E l \in Loops : Poll(l) \/ TakeFunctors(l) \/ EndIteration(l)

(* They do.                                                                 *)
LEMMA IdleSteps ==
  ASSUME Types, Idle
  PROVE  /\ UNCHANGED <<socket, connections, calls>>
         /\ \A k \in Loops : Work(k)' = Work(k)
<1>1. CASE UNCHANGED vars
  BY <1>1 DEF vars, server, work, Work
<1>2. CASE \E c \in Conns : \/ PeerConnects(c) \/ PeerGivesUp(c) \/ PeerSends(c)
                            \/ PeerCloses(c) \/ Release(c)
  BY <1>2 DEF PeerConnects, PeerGivesUp, PeerSends, PeerCloses, Release, server, work, Work
<1>3. CASE AcceptNothing \/ \E c \in Conns : Refuse(c)
  BY <1>3 DEF AcceptNothing, Refuse, HandleAcceptor, calls, Work
<1>4. CASE \E l \in Loops : Poll(l) \/ TakeFunctors(l) \/ EndIteration(l)
  <2>1. UNCHANGED <<socket, connections, calls>>
    BY <1>4 DEF Poll, TakeFunctors, EndIteration, server
  <2> QED  BY <1>4, <2>1, IterationWork
<1> QED  BY <1>1, <1>2, <1>3, <1>4 DEF Idle

(* Every other step leaves all lives as they are.                           *)
LEMMA ElsewhereLife ==
  ASSUME Types, Types', Calm, Calm', deployment' = deployment,
         UNCHANGED <<socket, connections, calls>>,
         \A k \in Loops : Work(k)' = Work(k)
  PROVE  \A d \in Conns : LifeOf(d)' = LifeOf(d)
<1> SUFFICES ASSUME NEW d \in Conns
             PROVE  LifeOf(d)' = LifeOf(d)
  OBVIOUS
<1>1. UNCHANGED <<state, connections, ups, downs>>
  BY DEF socket, calls
<1>2. \A k \in Loops : Jobs(k)' = Jobs(k)
  BY DEF Jobs
<1>3. InQueue(d)' <=> InQueue(d)
  BY <1>2 DEF InQueue
<1>4. /\ Said(d)' = Said(d)
      /\ Accepted(d)' <=> Accepted(d)
  BY <1>1 DEF Said, Accepted
<1> QED  BY <1>1, <1>3, <1>4, SameLife

(* The step of the abstract life.                                           *)
LEMMA LifeSteps ==
  ASSUME \/ \A d \in Conns : LifeOf(d)' = LifeOf(d)
         \/ \E c \in Conns : LifeGoesOn(c)
  PROVE  [Life!Next]_[c \in Conns |-> LifeOf(c)]
<1> DEFINE old == [d \in Conns |-> LifeOf(d)]
<1>1. ASSUME \A d \in Conns : LifeOf(d)' = LifeOf(d)
      PROVE  old' = old
  BY <1>1
<1>2. ASSUME NEW c \in Conns, LifeGoesOn(c)
      PROVE  old' = old \/ Life!Next
  <2>1. \A d \in Conns \ {c} : LifeOf(d)' = LifeOf(d)
    BY <1>2 DEF LifeGoesOn
  <2>2. CASE LifeOf(c)' = LifeOf(c)
    BY <2>1, <2>2
  <2>3. ASSUME NEW from, NEW to, LifeOf(c) = from, LifeOf(c)' = to
        PROVE  Life!Step(c, from, to)
    <3>1. old' = [old EXCEPT ![c] = to] /\ old[c] = from
      BY <2>1, <2>3
    <3> QED  BY <3>1 DEF Life!Step
  <2>4. CASE LifeOf(c) = "new" /\ LifeOf(c)' = "up"
    BY <2>3, <2>4 DEF Life!Next, Life!Up
  <2>5. CASE LifeOf(c) = "up" /\ LifeOf(c)' = "down"
    BY <2>3, <2>5 DEF Life!Next, Life!Down
  <2>6. CASE LifeOf(c) = "down" /\ LifeOf(c)' = "gone"
    BY <2>3, <2>6 DEF Life!Next, Life!Gone
  <2> QED  BY <1>2, <2>2, <2>4, <2>5, <2>6 DEF LifeGoesOn
<1> QED  BY <1>1, <1>2

(* A server whose connections only the loops close tells the user of every  *)
(* connection once that it is up and once that it is down, and destroys it  *)
(* after that: however many functors of other connections are queued before *)
(* those of this one, and whichever connection has its descriptor next.     *)
THEOREM ToldOnceAtEitherEnd == Spec => ImplementsConnectionLife
<1> DEFINE IInv == Types /\ Lifetimes /\ (deployment.usage = "quiet" => Quiet)
<1>1. Init => IInv
  BY TypesInvariant, LifetimesInvariant, QuietInvariant
<1>2. IInv /\ [Next]_vars => IInv'
  BY TypesInvariant, LifetimesInvariant, QuietInvariant, SameDeployment
<1>3. Init => Life!Init
  <2> SUFFICES ASSUME Init, NEW c \in Conns
               PROVE  LifeOf(c) = "new"
    BY DEF Life!Init
  <2>1. ~Destroyed(c) /\ Said(c) = <<0, 0>>
    BY DEF Init, Destroyed, Accepted, Said
  <2>2. deployment.usage # "quiet" => LifeOf(c) = "new"
    BY DEF LifeOf
  <2> QED  BY <2>1, <2>2, LifeProperties DEF LifeAsTold
<1>4. ASSUME IInv, IInv', [Next]_vars
      PROVE  [Life!Next]_[c \in Conns |-> LifeOf(c)]
  <2>1. deployment' = deployment
    BY <1>4, SameDeployment
  <2>2. CASE deployment.usage # "quiet"
    <3>1. \A d \in Conns : LifeOf(d) = "new" /\ LifeOf(d)' = "new"
      BY <2>1, <2>2 DEF LifeOf
    <3> QED  BY <3>1, LifeSteps
  <2>3. CASE deployment.usage = "quiet"
    <3>1. Types /\ Types' /\ Lifetimes /\ Quiet /\ Quiet' /\ Calm /\ Calm'
      BY <1>4, <2>1, <2>3 DEF Quiet
    <3>2. CASE \E l \in Loops : RunFunctor(l)
      BY <2>3, <3>1, <3>2, RunFunctorTurn, TurnLife, LifeSteps
    <3>3. CASE \E l \in Loops, c \in Conns : Handle(l, c)
      BY <2>3, <3>1, <3>3, HandleTurn, TurnLife, LifeSteps
    <3>4. CASE \E c \in Conns, f \in Fds : Accept(c, f)
      BY <2>3, <3>1, <3>4, AcceptLife, LifeSteps
    <3>5. CASE Idle
      <4>1. UNCHANGED <<socket, connections, calls>> /\ \A k \in Loops : Work(k)' = Work(k)
        BY <3>1, <3>5, IdleSteps
      <4>2. \A d \in Conns : LifeOf(d)' = LifeOf(d)
        BY <2>1, <3>1, <4>1, ElsewhereLife
      <4> QED  BY <4>2, LifeSteps
    <3>6. \A u \in Users : ~ForceCloseQueue(u) /\ \A c \in Conns : ~ForceClose(u, c)
      BY <3>1, ServerAssumption DEF Calm, ForceCloseQueue, ForceClose, None
    <3>7. ~DestroyServer /\ \A l \in Loops : ~LoopExits(l)
      BY <2>3, <3>1 DEF DestroyServer, LoopExits, Calm, Loops
    <3> QED  BY <1>4, <3>2, <3>3, <3>4, <3>5, <3>6, <3>7 DEF Next, LoopStep, Environment, Idle
  <2> QED  BY <2>2, <2>3
<1> QED  BY <1>1, <1>2, <1>3, <1>4, PTL DEF Spec, ImplementsConnectionLife, Life!Spec
=============================================================================
