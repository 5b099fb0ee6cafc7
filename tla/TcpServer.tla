------------------------------ MODULE TcpServer ------------------------------
(***************************************************************************)
(* The life of the connections of a TcpServer: TcpConnection, its Channel   *)
(* and the EPollPoller of its loop, across the base loop, which accepts and *)
(* owns the map of connections, and the IO loops, which carry them.         *)
(*                                                                          *)
(* A loop repeats poll, handle every active channel, run the functors it    *)
(* took at once (EventLoop).  A TcpConnection is destroyed when the last    *)
(* shared_ptr to it goes: the map's, a queued functor's, or one a user      *)
(* keeps.  A failed assert() aborts the process: nothing happens after it.  *)
(***************************************************************************)
EXTENDS Integers, Sequences, FiniteSets, Functions

CONSTANTS Conns,        \* connections, each accepted at most once
          Fds,          \* file descriptors accept() can return
          Base,         \* the base loop
          Users,        \* threads that may keep pointers and call forceClose
          Deployments   \* what the program built on the library is like:
                        \*   pool: _loops of the pool, a sequence of loops,
                        \*         empty without threads (setThreadNum)
                        \*   files: the descriptors within the process' limit
                        \*   usage: "quiet"; "force": users keep pointers and
                        \*         call forceClose once; "teardown": the
                        \*         TcpServer is destroyed while it serves

ASSUME ServerAssumption ==
  /\ \A d \in Deployments : /\ d.pool \in Seq(Range(d.pool)) /\ Base \notin Range(d.pool)
                            /\ d.files \subseteq Fds
                            /\ d.usage \in {"quiet", "force", "teardown"}
  /\ IsFiniteSet(Conns) /\ {"none", "done", "acceptor"} \intersect Conns = {}
  /\ "none" \notin Fds

Loops == {Base} \union UNION {Range(d.pool) : d \in Deployments}
None == "none"
Acceptor == "acceptor"

VARIABLES
  state,        \* _state of each connection, None before it is accepted
  loop,         \* _loop
  fd,           \* the socket's descriptor
  chan,         \* its Channel: [index, events, added]
  channels,     \* EPollPoller::_channels: [Loops -> [Fds -> connection]]
  peer,         \* what the peer has done, as the socket will report it
  data,         \* connections with unread bytes
  connections,  \* TcpServer::_connections
  deployment,   \* the deployment of this run
  next,         \* _next_idx of the pool
  phase,        \* [Loops -> "poll", "handle", "functors" or "exited"]
  active,       \* [Loops -> connections, and for the base loop perhaps the
                \* acceptor, still to handle in this iteration]
  pending,      \* [Loops -> _pendingFunctors]
  batch,        \* [Loops -> functors taken by doPendingFunctors]
  held,         \* connections a user keeps a TcpConnectionPtr to
  upc,          \* [Users -> None, the connection inside forceClose, or "done"]
  ups, downs,   \* history: calls of _onConnection at either end of a life
  failed        \* the assertion that aborted the process, or None

socket == <<state, loop, fd, chan, channels>>
kernel == <<peer, data>>
server == <<connections, deployment, next>>
work == <<phase, active, pending, batch>>
user == <<held, upc>>
calls == <<ups, downs>>
vars == <<socket, kernel, server, work, user, calls, failed>>

States == {"kConnecting", "kConnected", "kDisconnecting", "kDisconnected"}
Channel == [index : {"KNew", "KAdded", "KDeleted"},
            events : {"none", "read"}, added : BOOLEAN]
Functor == [fn : {"established", "forceClose", "remove", "destroyed"}, conn : Conns]

Init ==
  /\ state = [c \in Conns |-> None]
  /\ loop = [c \in Conns |-> Base]
  /\ fd = [c \in Conns |-> None]
  /\ chan = [c \in Conns |-> [index |-> "KNew", events |-> "none", added |-> FALSE]]
  /\ channels = [l \in Loops |-> [f \in Fds |-> None]]
  /\ peer = [c \in Conns |-> "absent"] /\ data = {}
  /\ connections = {} /\ deployment \in Deployments /\ next = 1
  /\ phase = [l \in Loops |-> "poll"] /\ active = [l \in Loops |-> {}]
  /\ pending = [l \in Loops |-> <<>>] /\ batch = [l \in Loops |-> <<>>]
  /\ held = {} /\ upc = [u \in Users |-> None]
  /\ ups = [c \in Conns |-> 0] /\ downs = [c \in Conns |-> 0]
  /\ failed = None

-----------------------------------------------------------------------------
(* Who keeps a connection alive.                                            *)

Bound(q) == {q[i].conn : i \in DOMAIN q}

Referenced(c) == \/ c \in connections \union held
                 \/ \E l \in Loops : c \in Bound(pending[l]) \union Bound(batch[l])
                 \/ \E u \in Users : upc[u] = c

Accepted(c) == state[c] # None
Destroyed(c) == Accepted(c) /\ ~Referenced(c)

\* ~TcpConnection closes the descriptor; accept() returns one that is closed.
Closed(f) == \A c \in Conns : fd[c] = f => Destroyed(c)

-----------------------------------------------------------------------------
(* Channel::update with EPollPoller::updateChannel, Channel::remove with    *)
(* EPollPoller::removeChannel: what they leave, and the assertions in them. *)

Slot(c) == channels[loop[c]][fd[c]]

UpdateFails(c) == \/ chan[c].index = "KNew" /\ Slot(c) # None
                  \/ chan[c].index = "KDeleted" /\ Slot(c) # c

Update(c, events) ==
  /\ chan' = [chan EXCEPT ![c] =
       [index |-> IF chan[c].index = "KAdded" /\ events = "none"
                  THEN "KDeleted" ELSE "KAdded",
        events |-> events, added |-> TRUE]]
  /\ channels' = [channels EXCEPT ![loop[c]][fd[c]] = c]

RemoveFails(c) == Slot(c) # c

Remove(c, events) ==
  /\ chan' = [chan EXCEPT ![c] = [index |-> "KNew", events |-> events, added |-> FALSE]]
  /\ channels' = [channels EXCEPT ![loop[c]][fd[c]] = None]

Push(q, l, fn, c) == [q EXCEPT ![l] = Append(@, [fn |-> fn, conn |-> c])]

\* assert(cond): the process aborts, and none of what follows happens.
Abort(reason) == failed' = reason /\ UNCHANGED <<socket, server, pending, held, calls>>

-----------------------------------------------------------------------------
(* The functions of TcpConnection, run in the connection's loop l. pend is  *)
(* the value of _pendingFunctors they start from.                           *)

\* What the user's onConnection does with a connection that is up.
KeptWith(c) == IF deployment.usage = "force" THEN held \union {c} ELSE held

ConnectEstablished(c) ==
  IF state[c] # "kConnecting" THEN Abort("established")
  ELSE IF UpdateFails(c) THEN Abort("update")
  ELSE /\ state' = [state EXCEPT ![c] = "kConnected"]
       /\ Update(c, "read")
       /\ ups' = [ups EXCEPT ![c] = @ + 1]
       /\ held' = KeptWith(c)
       /\ UNCHANGED <<loop, fd, server, pending, downs, failed>>

MutNoOnClose(l, c) ==               \* handelClose that forgets _onClose
  /\ state' = [state EXCEPT ![c] = "kDisconnected"]
  /\ Update(c, "none")
  /\ downs' = [downs EXCEPT ![c] = @ + 1]
  /\ UNCHANGED <<loop, fd, server, pending, held, ups, failed>>

MutStillEnabled(l, c) ==            \* does not disable the channel
  /\ IF state[c] \notin {"kConnected", "kDisconnecting"} THEN Abort("close")
     ELSE /\ state' = [state EXCEPT ![c] = "kDisconnected"]
          /\ downs' = [downs EXCEPT ![c] = @ + 1]
          /\ pending' = Push(pending, Base, "remove", c)
          /\ UNCHANGED <<loop, fd, chan, channels, server, held, ups, failed>>

\* onClose is TcpServer::removeConnection: run at once if l is the base loop.
HandleClose(l, c) ==
  IF state[c] \notin {"kConnected", "kDisconnecting"} THEN Abort("close")
  ELSE IF UpdateFails(c) THEN Abort("update")
  ELSE /\ state' = [state EXCEPT ![c] = "kDisconnected"]
       /\ Update(c, "none")
       /\ downs' = [downs EXCEPT ![c] = @ + 1]
       /\ IF l = Base
          THEN /\ connections' = connections \ {c}
               /\ pending' = Push(pending, l, "destroyed", c)
          ELSE /\ UNCHANGED connections
               /\ pending' = Push(pending, Base, "remove", c)
       /\ UNCHANGED <<loop, fd, deployment, next, held, ups, failed>>

ForceCloseInLoop(l, c) ==
  IF state[c] \in {"kConnected", "kDisconnecting"} THEN HandleClose(l, c)
  ELSE UNCHANGED <<socket, server, pending, held, calls, failed>>

MutRemoveConnectionInLoop(c) ==     \* forgets to queue connectDestroyed
  /\ connections' = connections \ {c}
  /\ UNCHANGED <<socket, deployment, next, pending, held, calls, failed>>

RemoveConnectionInLoop(c) ==
  /\ connections' = connections \ {c}
  /\ pending' = Push(pending, loop[c], "destroyed", c)
  /\ UNCHANGED <<socket, deployment, next, held, calls, failed>>

MutSaysDownAgain(c) ==              \* drops the test of _state
  /\ Remove(c, "none") /\ downs' = [downs EXCEPT ![c] = @ + 1]
  /\ UNCHANGED <<state, loop, fd, server, pending, held, ups, failed>>

\* Leaves _state as it is, also when the connection was still up.
ConnectDestroyed(c) ==
  IF RemoveFails(c) THEN Abort("remove")
  ELSE /\ IF state[c] = "kConnected"
          THEN Remove(c, "none") /\ downs' = [downs EXCEPT ![c] = @ + 1]
          ELSE Remove(c, chan[c].events) /\ UNCHANGED downs
       /\ UNCHANGED <<state, loop, fd, server, pending, held, ups, failed>>

\* The user's onMessage may answer and close, as the example server does.
HandleMessage(l, c) ==
  /\ data' = data \ {c} /\ UNCHANGED peer
  /\ \/ UNCHANGED <<state, pending>>
     \/ /\ state' = [state EXCEPT ![c] = "kDisconnecting"]
        /\ pending' = Push(pending, l, "forceClose", c)
  /\ UNCHANGED <<loop, fd, chan, channels, server, held, calls, failed>>

-----------------------------------------------------------------------------
(* The loops.                                                               *)

\* Registered for input: bytes, end of file or a reset. Registered for none
\* (disableAll on a removed channel): epoll still reports the hang-up.
Ready(l) == {c \in Conns :
  /\ loop[c] = l /\ Accepted(c) /\ chan[c].index = "KAdded"
  /\ \/ chan[c].events = "read" /\ (c \in data \/ peer[c] # "open")
     \/ peer[c] \in {"reset", "hup"}}

\* The connections the kernel holds for accept(); the listening socket is in
\* the poller of the base loop, and level-triggered.
Backlog == {c \in Conns : peer[c] = "waiting"}
Listening(l) == IF l = Base /\ Backlog # {} THEN {Acceptor} ELSE {}

Poll(l) ==
  /\ failed = None /\ phase[l] = "poll"
  /\ Ready(l) \union Listening(l) # {} \/ pending[l] # <<>>
  /\ phase' = [phase EXCEPT ![l] = "handle"]
  /\ active' = [active EXCEPT ![l] = Ready(l) \union Listening(l)]
  /\ UNCHANGED <<socket, kernel, server, pending, batch, user, calls, failed>>

\* EventLoopThreadPool::getNextLoop, and what it does to _next_idx.
NextLoop == IF deployment.pool = <<>> THEN Base ELSE deployment.pool[next]
Advance == next' = IF deployment.pool = <<>> THEN next
                   ELSE (next % Len(deployment.pool)) + 1

\* connectEstablished runs at once if the connection's loop is the base loop.
OnNewConnection(c, f) ==
  /\ loop' = [loop EXCEPT ![c] = NextLoop] /\ Advance
  /\ fd' = [fd EXCEPT ![c] = f]
  /\ connections' = connections \union {c}
  /\ IF NextLoop # Base
     THEN /\ state' = [state EXCEPT ![c] = "kConnecting"]
          /\ pending' = Push(pending, NextLoop, "established", c)
          /\ UNCHANGED <<chan, channels, held, ups, failed>>
     ELSE IF channels[Base][f] # None
     THEN /\ failed' = "update"
          /\ state' = [state EXCEPT ![c] = "kConnected"]
          /\ UNCHANGED <<chan, channels, pending, held, ups>>
     ELSE /\ state' = [state EXCEPT ![c] = "kConnected"]
          /\ chan' = [chan EXCEPT ![c] =
               [index |-> "KAdded", events |-> "read", added |-> TRUE]]
          /\ channels' = [channels EXCEPT ![Base][f] = c]
          /\ ups' = [ups EXCEPT ![c] = @ + 1]
          /\ held' = KeptWith(c)
          /\ UNCHANGED <<pending, failed>>

\* Acceptor::handleRead, once for each report of the poller.
HandleAcceptor ==
  /\ failed = None /\ phase[Base] = "handle" /\ Acceptor \in active[Base]
  /\ active' = [active EXCEPT ![Base] = @ \ {Acceptor}]
  /\ UNCHANGED <<data, deployment, phase, batch, upc, downs>>

Free == {f \in deployment.files : Closed(f)}

Accept(c, f) ==
  /\ HandleAcceptor
  /\ c \in Backlog /\ f \in Free
  /\ peer' = [peer EXCEPT ![c] = "open"]
  /\ OnNewConnection(c, f)

MutRefuse(c) ==                     \* EMFILE is an error like any other
  /\ HandleAcceptor
  /\ c \in Backlog /\ Free = {}
  /\ UNCHANGED <<peer, socket, connections, next, pending, held, ups, failed>>

\* EMFILE: the spare descriptor is closed, accept() uses it, both are closed
\* and the spare one is opened again; nothing else takes it in between.
Refuse(c) ==
  /\ HandleAcceptor
  /\ c \in Backlog /\ Free = {}
  /\ peer' = [peer EXCEPT ![c] = "refused"]
  /\ UNCHANGED <<socket, connections, next, pending, held, ups, failed>>

\* EAGAIN: the peer has given up meanwhile.
AcceptNothing ==
  /\ HandleAcceptor /\ Backlog = {}
  /\ UNCHANGED <<peer, socket, connections, next, pending, held, ups, failed>>

\* Channel::handleEvent: bytes first, then end of file; a reset is read as an
\* error, which is logged, and the next read returns end of file.
Handle(l, c) ==
  /\ failed = None /\ phase[l] = "handle" /\ c \in active[l]
  /\ active' = [active EXCEPT ![l] = @ \ {c}]
  /\ \/ chan[c].events = "read" /\ c \in data /\ HandleMessage(l, c)
     \/ /\ chan[c].events = "read" /\ c \notin data /\ peer[c] \in {"eof", "hup"}
        /\ HandleClose(l, c) /\ UNCHANGED kernel
     \/ /\ chan[c].events = "read" /\ c \notin data /\ peer[c] = "reset"
        /\ peer' = [peer EXCEPT ![c] = "hup"]
        /\ UNCHANGED <<data, socket, server, pending, held, calls, failed>>
     \/ /\ chan[c].events = "none"
        /\ HandleClose(l, c) /\ UNCHANGED kernel
  /\ UNCHANGED <<phase, batch, upc>>

MutTakeFunctors(l) ==               \* the batch of the last iteration again
  /\ failed = None /\ phase[l] = "handle"
  /\ phase' = [phase EXCEPT ![l] = "functors"]
  /\ batch' = [batch EXCEPT ![l] = pending[l]]
  /\ pending' = [pending EXCEPT ![l] = <<>>]
  /\ UNCHANGED <<socket, kernel, server, active, user, calls, failed>>

TakeFunctors(l) ==
  /\ failed = None /\ phase[l] = "handle" /\ active[l] = {}
  /\ phase' = [phase EXCEPT ![l] = "functors"]
  /\ batch' = [batch EXCEPT ![l] = pending[l]]
  /\ pending' = [pending EXCEPT ![l] = <<>>]
  /\ UNCHANGED <<socket, kernel, server, active, user, calls, failed>>

RunFunctor(l) ==
  /\ failed = None /\ phase[l] = "functors" /\ batch[l] # <<>>
  /\ batch' = [batch EXCEPT ![l] = Tail(@)]
  /\ LET f == Head(batch[l]) IN
       CASE f.fn = "established" -> ConnectEstablished(f.conn)
         [] f.fn = "forceClose"  -> ForceCloseInLoop(l, f.conn)
         [] f.fn = "remove"      -> RemoveConnectionInLoop(f.conn)
         [] f.fn = "destroyed"   -> ConnectDestroyed(f.conn)
  /\ UNCHANGED <<kernel, phase, active, upc>>

EndIteration(l) ==
  /\ failed = None /\ phase[l] = "functors" /\ batch[l] = <<>>
  /\ phase' = [phase EXCEPT ![l] = "poll"]
  /\ UNCHANGED <<socket, kernel, server, active, pending, batch, user, calls, failed>>

-----------------------------------------------------------------------------
(* Other threads and the network.                                           *)

\* forceClose writes _state in the calling thread, then queues the rest.
ForceClose(u, c) ==
  /\ failed = None /\ upc[u] = None /\ c \in held
  /\ state' = [state EXCEPT ![c] = "kDisconnecting"]
  /\ upc' = [upc EXCEPT ![u] = c]
  /\ UNCHANGED <<loop, fd, chan, channels, kernel, server, work, held, calls, failed>>

ForceCloseQueue(u) ==
  /\ failed = None /\ upc[u] \in Conns
  /\ pending' = Push(pending, loop[upc[u]], "forceClose", upc[u])
  /\ upc' = [upc EXCEPT ![u] = "done"]
  /\ UNCHANGED <<socket, kernel, server, phase, active, batch, held, calls, failed>>

Release(c) ==
  /\ failed = None /\ c \in held
  /\ held' = held \ {c}
  /\ UNCHANGED <<socket, kernel, server, work, upc, calls, failed>>

PeerConnects(c) ==
  /\ failed = None /\ peer[c] = "absent"
  /\ peer' = [peer EXCEPT ![c] = "waiting"]
  /\ UNCHANGED <<data, socket, server, work, user, calls, failed>>

PeerGivesUp(c) ==
  /\ failed = None /\ peer[c] = "waiting"
  /\ peer' = [peer EXCEPT ![c] = "gone"]
  /\ UNCHANGED <<data, socket, server, work, user, calls, failed>>

PeerSends(c) ==
  /\ failed = None /\ peer[c] = "open"
  /\ data' = data \union {c}
  /\ UNCHANGED <<socket, peer, server, work, user, calls, failed>>

PeerCloses(c) ==
  /\ failed = None /\ peer[c] = "open"
  /\ \/ peer' = [peer EXCEPT ![c] = "eof"] /\ UNCHANGED data
     \/ peer' = [peer EXCEPT ![c] = "reset"] /\ data' = data \ {c}
  /\ UNCHANGED <<socket, server, work, user, calls, failed>>

\* The connections a loop carries, and the orders the map may go through them.
Carried(l) == {c \in connections : loop[c] = l}
Orders(S) == {order \in [1..Cardinality(S) -> S] : Range(order) = S}

\* ~TcpServer, after the base loop has returned: the IO loops still run.
DestroyServer ==
  /\ failed = None /\ deployment.usage = "teardown" /\ phase[Base] = "poll"
  /\ phase' = [phase EXCEPT ![Base] = "exited"]
  /\ connections' = {}
  /\ \E order \in [Loops -> UNION {Orders(Carried(l)) : l \in Loops}] :
       /\ \A l \in Loops : order[l] \in Orders(Carried(l))
       /\ pending' = [l \in Loops |-> pending[l] \o
            [i \in DOMAIN order[l] |-> [fn |-> "destroyed", conn |-> order[l][i]]]]
  /\ UNCHANGED <<socket, kernel, deployment, next, active, batch, user, calls, failed>>

\* Then the pool is destroyed. An IO loop that finds _quit set leaves, and
\* what was queued to it after its last look goes with the EventLoop.
LoopExits(l) ==
  /\ failed = None /\ phase[Base] = "exited" /\ phase[l] = "poll"
  /\ phase' = [phase EXCEPT ![l] = "exited"]
  /\ pending' = [pending EXCEPT ![l] = <<>>]
  /\ channels' = [channels EXCEPT ![l] = [f \in Fds |-> None]]
  /\ UNCHANGED <<state, loop, fd, chan, kernel, server, active, batch, user, calls, failed>>

-----------------------------------------------------------------------------
LoopStep(l) == \/ Poll(l) \/ TakeFunctors(l) \/ RunFunctor(l) \/ EndIteration(l)
               \/ \E c \in Conns : Handle(l, c)
               \/ l = Base /\ \/ \E c \in Conns, f \in Fds : Accept(c, f)
                              \/ \E c \in Conns : Refuse(c)
                              \/ AcceptNothing

Environment == \/ \E c \in Conns : PeerConnects(c) \/ PeerGivesUp(c)
               \/ \E c \in Conns : PeerSends(c) \/ PeerCloses(c) \/ Release(c)
               \/ \E u \in Users : ForceCloseQueue(u) \/ \E c \in Conns : ForceClose(u, c)

Next == \/ \E l \in Loops : LoopStep(l)
        \/ Environment
        \/ DestroyServer \/ \E l \in Loops : LoopExits(l)

Spec == Init /\ [][Next]_vars

\* Every loop's thread is scheduled; the network promises nothing.
FairSpec == Spec /\ \A l \in Loops : WF_vars(LoopStep(l))

-----------------------------------------------------------------------------
(* Types; functors are taken and channels are active only in their phase.   *)
TypeOK ==
  /\ state \in [Conns -> States \union {None}]
  /\ loop \in [Conns -> Loops] /\ fd \in [Conns -> Fds \union {None}]
  /\ chan \in [Conns -> Channel]
  /\ channels \in [Loops -> [Fds -> Conns \union {None}]]
  /\ peer \in [Conns -> {"absent", "waiting", "gone", "refused",
                       "open", "eof", "reset", "hup"}]
  /\ data \subseteq Conns /\ connections \subseteq Conns
  /\ deployment \in Deployments
  /\ next \in {1} \union DOMAIN deployment.pool
  /\ phase \in [Loops -> {"poll", "handle", "functors", "exited"}]
  /\ active \in [Loops -> SUBSET (Conns \union {Acceptor})]
  /\ pending \in [Loops -> Seq(Functor)] /\ batch \in [Loops -> Seq(Functor)]
  /\ held \subseteq Conns /\ upc \in [Users -> Conns \union {None, "done"}]
  /\ ups \in [Conns -> Nat] /\ downs \in [Conns -> Nat]
  /\ \A l \in Loops : phase[l] # "handle" => active[l] = {}
  /\ \A l \in Loops : phase[l] # "functors" => batch[l] = <<>>

(* No assertion on the state of a connection (tcpconnection.cpp 79 and 137) *)
(* or on the map of the poller (poller.cpp 67 to 95) fails, nor those of    *)
(* ~TcpConnection and ~Channel (tcpconnection.h 29, channel.cpp 23), that   *)
(* what is destroyed is disconnected and out of the poller: although the    *)
(* base loop, the IO loop and the peer act in any order and descriptors are *)
(* used again, as long as only the loops close connections and the server   *)
(* stays.                                                                   *)
NoAssertionFails ==
  deployment.usage = "quiet" =>
    /\ failed = None
    /\ \A c \in Conns : Destroyed(c) => state[c] = "kDisconnected" /\ ~chan[c].added

(* The same for any use: forceClose, which any thread may call              *)
(* (tcpconnection.h), finds the connection in a state from which it can be  *)
(* closed.                                                                  *)
AssertionsHold == failed = None

(* EPollPoller and _activeChannels keep raw Channel pointers: as long as    *)
(* they do, the connection that owns the channel exists, and is the one     *)
(* that has the descriptor, also while users close connections and while    *)
(* ~TcpServer takes the connections and the loops down.                     *)
RegisteredIsAlive ==
  \A l \in Loops :
    /\ \A f \in Fds : channels[l][f] # None =>
         /\ loop[channels[l][f]] = l /\ fd[channels[l][f]] = f
         /\ ~Destroyed(channels[l][f])
    /\ \A c \in active[l] \ {Acceptor} : loop[c] = l /\ ~Destroyed(c)

(* The user sees each connection go up once and down once, whichever of the *)
(* peer and onMessage closes it, and it lives until both have been said.    *)
LifeOf(c) ==
  LET said == <<ups[c], downs[c]>> IN
    IF deployment.usage # "quiet" THEN "new"
    ELSE CASE ~Destroyed(c) /\ said = <<0, 0>> -> "new"
           [] ~Destroyed(c) /\ said = <<1, 0>> -> "up"
           [] ~Destroyed(c) /\ said = <<1, 1>> -> "down"
           [] Destroyed(c)  /\ said = <<1, 1>> -> "gone"
           [] OTHER                            -> "again"
Life == INSTANCE ConnectionLife WITH life <- [c \in Conns |-> LifeOf(c)]
ImplementsConnectionLife == Life!Spec

(* A connection its peer has closed is destroyed in the end: removal goes   *)
(* from the IO loop to the base loop and back without losing a functor.     *)
PeerCloseReleases ==
  \A c \in Conns :
    (deployment.usage = "quiet" /\ peer[c] \in {"eof", "reset", "hup"}) ~> Destroyed(c)

(* Nobody waits in the backlog for ever: at the limit of descriptors the    *)
(* Acceptor takes and closes a connection it cannot serve, instead of being *)
(* woken for it again and again.                                            *)
WaitingIsAnswered ==
  \A c \in Conns :
    (peer[c] = "waiting") ~> (peer[c] # "waiting" \/ phase[Base] = "exited" \/ failed # None)
=============================================================================
