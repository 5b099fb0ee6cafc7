------------------------------- MODULE TcpClient -------------------------------
(***************************************************************************)
(* A TcpClient whose loop runs in an EventLoopThread (LoopThread), and the  *)
(* thread that owns both: it starts the loop, connects, waits in            *)
(* connection(), and in the end destroys the client and the loop.           *)
(*                                                                          *)
(* removeConnection resets the client's pointer and calls connectDestroyed  *)
(* inside the handler of the connection's own channel, so somebody else has *)
(* to keep the connection alive until the handler has returned.  A careful  *)
(* user does: its onConnection keeps a pointer when the connection goes up  *)
(* and queues a functor that drops it when it goes down; and it leaves the  *)
(* client alone until then.                                                 *)
(***************************************************************************)
EXTENDS LoopThread, Integers, FiniteSets

CONSTANT Conns          \* the connections connect() can make, one a call

ASSUME ClientAssumption == "none" \notin Conns

VARIABLES
  careful,      \* what kind of user this is
  alive,        \* the TcpClient exists
  connection,   \* TcpClient::_connection
  state,        \* _state of each connection, None before it exists
  added,        \* connections whose channel is in the poller
  peer,         \* [Conns -> "absent", "open", "sent" bytes to read, "closed"]
  active,       \* connections still to handle in this iteration
  pending, batch,   \* functors queued, and those doPendingFunctors has taken:
                \* newConnection, forceCloseInloop, the deleter of a pointer
  kept,         \* connections onConnection keeps a pointer to
  got,          \* the pointer connection() returned to the owner, or None
  ups, downs,   \* history: calls of _onConnection at either end of a life
  failed        \* what ended the process, or None

client == <<careful, alive, connection>>
conns == <<state, added, kept, ups, downs>>
loop == <<active, pending, batch>>
vars == <<thread, client, conns, peer, loop, got, failed>>

None == "none"

Init ==
  /\ ThreadInit /\ careful \in BOOLEAN /\ alive = TRUE /\ connection = None
  /\ state = [c \in Conns |-> None] /\ added = {} /\ kept = {}
  /\ ups = [c \in Conns |-> 0] /\ downs = [c \in Conns |-> 0]
  /\ peer = [c \in Conns |-> "absent"] /\ got = None /\ failed = None
  /\ active = {} /\ pending = <<>> /\ batch = <<>>

\* A "new" functor has the client and the descriptor, the others the connection.
Bound(q) == {q[i].conn : i \in {j \in DOMAIN q : q[j].fn # "new"}}

Referenced(c) == \/ c \in kept \union {got} \union Bound(pending) \union Bound(batch)
                 \/ alive /\ connection = c
Destroyed(c) == state[c] # None /\ ~Referenced(c)

Up(c) == state[c] \in {"kConnected", "kDisconnecting"}
Task(fn, c) == <<[fn |-> fn, conn |-> c]>>
Dies(reason) == failed' = reason /\ UNCHANGED <<client, conns, pending>>

-----------------------------------------------------------------------------
(* What runs in the loop.                                                   *)

MutNewConnection(c) ==              \* nobody is told of the connection
  /\ state' = [state EXCEPT ![c] = "kConnected"] /\ added' = added \union {c}
  /\ ups' = [ups EXCEPT ![c] = @ + 1]
  /\ kept' = IF careful THEN kept \union {c} ELSE kept
  /\ UNCHANGED <<client, downs, pending, failed>>

\* connectEstablished, with onConnection, and then _connection is set.
NewConnection(c) ==
  IF ~alive THEN Dies("client")
  ELSE /\ state' = [state EXCEPT ![c] = "kConnected"] /\ added' = added \union {c}
       /\ ups' = [ups EXCEPT ![c] = @ + 1]
       /\ kept' = IF careful THEN kept \union {c} ELSE kept
       /\ connection' = c
       /\ UNCHANGED <<careful, alive, downs, pending, failed>>

MutHandleClose(c, event) ==         \* without connectDestroyed
  IF ~Up(c) THEN Dies("close")
  ELSE /\ state' = [state EXCEPT ![c] = "kDisconnected"]
       /\ connection' = None
       /\ downs' = [downs EXCEPT ![c] = @ + 1]
       /\ pending' = IF careful THEN pending \o Task("release", c) ELSE pending
       /\ UNCHANGED <<added, careful, alive, kept, ups, failed>>

MutKeepsPointer(c, event) ==        \* _connection is not reset
  /\ state' = [state EXCEPT ![c] = "kDisconnected"] /\ added' = added \ {c}
  /\ downs' = [downs EXCEPT ![c] = @ + 1]
  /\ pending' = IF careful THEN pending \o Task("release", c) ELSE pending
  /\ UNCHANGED <<connection, careful, alive, kept, ups, failed>>

\* handelClose, onConnection, removeConnection and connectDestroyed in one
\* call; event: it comes from the channel's handleEvent, which goes on after.
HandleClose(c, event) ==
  IF ~Up(c) THEN Dies("close")
  ELSE IF ~alive THEN Dies("client")
  ELSE IF c \notin added THEN Dies("remove")
  ELSE /\ state' = [state EXCEPT ![c] = "kDisconnected"] /\ added' = added \ {c}
       /\ connection' = None
       /\ downs' = [downs EXCEPT ![c] = @ + 1]
       /\ pending' = IF careful THEN pending \o Task("release", c) ELSE pending
       /\ failed' = IF event /\ c \notin kept \union {got} \union Bound(pending)
                    THEN "event" ELSE failed
       /\ UNCHANGED <<careful, alive, kept, ups>>

\* onMessage may close the connection.
HandleMessage(c) ==
  /\ \/ UNCHANGED <<state, pending>>
     \/ /\ state' = [state EXCEPT ![c] = "kDisconnecting"]
        /\ pending' = pending \o Task("forceClose", c)
  /\ UNCHANGED <<client, added, kept, ups, downs, failed>>

Ready == {c \in added : peer[c] \in {"sent", "closed"}}

MutPoll ==                          \* quit() does not wake the loop
  /\ Ready # {} \/ pending # <<>>
  /\ Moves("poll", "handle") /\ active' = Ready
  /\ UNCHANGED <<client, conns, peer, pending, batch, got, failed>>

Poll ==
  /\ Ready # {} \/ pending # <<>> \/ quit
  /\ Moves("poll", "handle") /\ active' = Ready
  /\ UNCHANGED <<client, conns, peer, pending, batch, got, failed>>

Handle(c) ==
  /\ phase = "handle" /\ c \in active /\ active' = active \ {c}
  /\ \/ /\ peer[c] = "sent" /\ HandleMessage(c)
        /\ peer' = [peer EXCEPT ![c] = "open"]
     \/ peer[c] = "closed" /\ HandleClose(c, TRUE) /\ UNCHANGED peer
  /\ UNCHANGED <<thread, batch, got>>

TakeFunctors ==
  /\ active = {} /\ Moves("handle", "functors")
  /\ batch' = pending /\ pending' = <<>>
  /\ UNCHANGED <<client, conns, peer, active, got, failed>>

RunFunctor ==
  /\ phase = "functors" /\ batch # <<>> /\ batch' = Tail(batch)
  /\ LET c == Head(batch).conn IN
       CASE Head(batch).fn = "new" -> NewConnection(c)
         [] Head(batch).fn = "forceClose" ->
              IF Up(c) THEN HandleClose(c, FALSE)
              ELSE UNCHANGED <<client, conns, pending, failed>>
         [] Head(batch).fn = "release" ->
              kept' = kept \ {c}
                /\ UNCHANGED <<client, state, added, ups, downs, pending, failed>>
  /\ UNCHANGED <<thread, peer, active, got>>

EndIteration ==
  /\ batch = <<>> /\ Moves("functors", "test")
  /\ UNCHANGED <<client, conns, peer, loop, got, failed>>

LeaveOrPoll(leave) ==
  /\ Test(leave) /\ pending' = IF leave THEN <<>> ELSE pending
  /\ UNCHANGED <<client, conns, peer, active, batch, got, failed>>

-----------------------------------------------------------------------------
(* The owner's thread, and the peer.                                        *)

Unused == {c \in Conns : peer[c] = "absent"}
Finished == \A c \in Conns \ Unused : downs[c] = 1 /\ c \notin kept /\ got # c

\* connect() blocks until the socket is connected; a careful user has one
\* connection at a time.
Connect(c) ==
  /\ owner = "ready" /\ alive /\ c \in Unused /\ (careful => Finished)
  /\ peer' = [peer EXCEPT ![c] = "open"]
  /\ pending' = pending \o Task("new", c)
  /\ UNCHANGED <<thread, client, conns, active, batch, got, failed>>

\* sockets::connect ends the process (LOG_FATAL) before connect() can retry.
ConnectFails ==
  /\ owner = "ready" /\ alive /\ Unused # {}
  /\ failed' = "connect"
  /\ UNCHANGED <<thread, client, conns, peer, loop, got>>

CallConnection ==
  /\ Calls("ready", "waiting") /\ alive /\ Unused # Conns
  /\ UNCHANGED <<made, published, phase, quit, client, conns, peer, loop, got, failed>>

ReturnConnection ==
  /\ connection # None /\ Calls("waiting", "ready") /\ got' = connection
  /\ UNCHANGED <<made, published, phase, quit, client, conns, peer, loop, failed>>

DropPointer ==
  /\ owner = "ready" /\ got # None /\ got' = None
  /\ UNCHANGED <<thread, client, conns, peer, loop, failed>>

\* ~TcpClient: forceClose of the connection that is still there.
DestroyClient ==
  /\ owner = "ready" /\ alive /\ alive' = FALSE /\ (careful => Finished)
  /\ IF connection = None THEN UNCHANGED <<state, pending>>
     ELSE /\ state' = [state EXCEPT ![connection] = "kDisconnecting"]
          /\ pending' = pending \o Task("forceClose", connection)
  /\ UNCHANGED <<thread, careful, connection, added, kept, ups, downs,
                 peer, active, batch, got, failed>>

\* The EventLoopThread goes after the client that uses its loop.
StopLoop ==
  /\ ~alive /\ Destructor
  /\ UNCHANGED <<client, conns, peer, loop, got, failed>>

PeerActs(c) ==
  /\ peer[c] = "open"
  /\ \E p \in {"sent", "closed"} : peer' = [peer EXCEPT ![c] = p]
  /\ UNCHANGED <<thread, client, conns, loop, got, failed>>

ThreadStep == /\ Publish \/ EnterLoop
              /\ UNCHANGED <<client, conns, peer, loop, got, failed>>
LoopStep == \/ ThreadStep \/ Poll \/ TakeFunctors \/ RunFunctor \/ EndIteration
            \/ \E leave \in BOOLEAN : LeaveOrPoll(leave)
            \/ \E c \in Conns : Handle(c)

\* What the owner does once it has called: the rest is its own decision.
Construct == /\ BeginConstructor \/ EndConstructor \/ StartLoop \/ Join
             /\ UNCHANGED <<client, conns, peer, loop, got, failed>>

Next == /\ failed = None
        /\ \/ LoopStep \/ Construct \/ ReturnConnection
           \/ ConnectFails \/ CallConnection \/ DropPointer \/ DestroyClient \/ StopLoop
           \/ \E c \in Conns : Connect(c) \/ PeerActs(c)

Spec == Init /\ [][Next]_vars

\* Both threads are scheduled and return from their calls; what the owner
\* calls next, and the peer, promise nothing.
FairSpec == Spec /\ WF_vars(failed = None /\ LoopStep)
                 /\ WF_vars(failed = None /\ (Construct \/ ReturnConnection))

-----------------------------------------------------------------------------
(* What TcpClient asks of its user is enough: no assertion fails, above all *)
(* not that of ~Channel (channel.cpp 22), that a channel is not destroyed   *)
(* while it handles an event, and no callback reaches a destroyed client.   *)
(* Only a connect() that fails ends the process.                            *)
CarefulIsSafe == careful => failed \in {None, "connect"}

(* Its connections go up once and down once, and exist until both are said. *)
LifeOf(c) ==
  LET said == <<ups[c], downs[c]>> IN
    IF ~careful THEN "new"
    ELSE CASE ~Destroyed(c) /\ said = <<0, 0>> -> "new"
           [] ~Destroyed(c) /\ said = <<1, 0>> -> "up"
           [] ~Destroyed(c) /\ said = <<1, 1>> -> "down"
           [] Destroyed(c)  /\ said = <<1, 1>> -> "gone"
           [] OTHER                            -> "again"
Life == INSTANCE ConnectionLife WITH life <- [c \in Conns |-> LifeOf(c)]
ImplementsConnectionLife == Life!Spec

(* startLoop returns, unless the thread locked the mutex before it was      *)
(* constructed and hangs.                                                   *)
StartReturns == (owner = "starting") ~> (owner = "ready" \/ phase = "stuck")

(* The destructor of EventLoopThread joins a loop that ends, unless quit()  *)
(* came before the thread reached loop(), which forgets it.                 *)
JoinReturns ==
  (owner = "joining" /\ quit /\ phase # "entering") ~> (owner = "done" \/ failed # None)

(* Who waits in connection() after connect() gets the pointer, unless the   *)
(* connection has been closed before the waiter woke up. (With several      *)
(* connections at once the close of one resets the pointer to another.)     *)
WaiterServed ==
  \A c \in Conns : (careful /\ owner = "waiting" /\ peer[c] # "absent")
                    ~> (owner = "ready" \/ downs[c] = 1 \/ failed # None)
=============================================================================
