--------------------------- MODULE TcpClientProofs ---------------------------
(***************************************************************************)
(* TcpClient for any number of connections: with a careful user no          *)
(* assertion fails and no callback reaches a destroyed client, and the user *)
(* is told of each connection once at either end of its life.               *)
(***************************************************************************)
EXTENDS TcpClient, SequenceTheorems, FiniteSets, Functions, TLAPS

Functor == [fn : {"new", "forceClose", "release"}, conn : Conns]
Job(fn, c) == [fn |-> fn, conn |-> c]

\* What the loop still has to run, in order.
Work == batch \o pending
Jobs == Range(Work)

\* x is in the sequence only once.
Once(s, x) == \A i, j \in DOMAIN s : s[i] = x /\ s[j] = x => i = j

-----------------------------------------------------------------------------
(* Types, for careful and careless users.                                   *)
ClientOK == careful \in BOOLEAN /\ alive \in BOOLEAN /\ connection \in Conns \union {None}
ConnsOK == /\ state \in [Conns -> {None, "kConnected", "kDisconnecting", "kDisconnected"}]
           /\ added \subseteq Conns /\ kept \subseteq Conns
           /\ ups \in [Conns -> Nat] /\ downs \in [Conns -> Nat]
PendingOK == pending \in Seq(Functor)
PeerOK == peer \in [Conns -> {"absent", "open", "sent", "closed"}] /\ got \in Conns \union {None}
LoopOK == /\ active \subseteq added /\ batch \in Seq(Functor)
          /\ phase # "handle" => active = {}
          /\ phase # "functors" => batch = <<>>
          /\ owner = "new" => phase = "none"

Types == ClientOK /\ ConnsOK /\ PendingOK /\ PeerOK /\ LoopOK

(* Queueing a functor.                                                      *)
LEMMA TaskType ==
  ASSUME PendingOK, NEW fn \in {"new", "forceClose", "release"}, NEW c \in Conns
  PROVE  pending \o Task(fn, c) \in Seq(Functor) /\ Job(fn, c) \in Functor
<1>1. Job(fn, c) \in Functor /\ Task(fn, c) = <<Job(fn, c)>>
  BY DEF Functor, Job, Task
<1>2. pending \o <<Job(fn, c)>> \in Seq(Functor)
  BY <1>1, ConcatProperties DEF PendingOK
<1> QED  BY <1>1, <1>2

(* handelClose changes the connection's own state, or ends the process.     *)
LEMMA CloseType ==
  ASSUME Types, NEW c \in Conns, NEW event, HandleClose(c, event)
  PROVE  /\ ClientOK' /\ ConnsOK' /\ PendingOK'
         /\ added' = added \/ added' = added \ {c}
<1> USE DEF Types
<1>1. CASE UNCHANGED <<client, conns, pending>>
  BY <1>1 DEF client, conns, ClientOK, ConnsOK, PendingOK
<1>2. CASE /\ state' = [state EXCEPT ![c] = "kDisconnected"] /\ added' = added \ {c}
           /\ connection' = None
           /\ downs' = [downs EXCEPT ![c] = @ + 1]
           /\ pending' = IF careful THEN pending \o Task("release", c) ELSE pending
           /\ UNCHANGED <<careful, alive, kept, ups>>
  <2>1. PendingOK'
    BY <1>2, TaskType DEF PendingOK
  <2>2. ConnsOK'
    BY <1>2 DEF ConnsOK
  <2> QED  BY <1>2, <2>1, <2>2 DEF ClientOK
<1> QED  BY <1>1, <1>2 DEF HandleClose, Dies, conns

(* Every step keeps the types.                                              *)
LEMMA TypesInvariant ==
  /\ Init => Types
  /\ Types /\ [Next]_vars => Types'
<1>1. ASSUME Init
      PROVE  Types
  <2>1. <<>> \in Seq(Functor)
    BY EmptySeq
  <2> QED  BY <1>1, <2>1 DEF Init, ThreadInit, Types, ClientOK, ConnsOK, PendingOK, PeerOK, LoopOK
<1>2. ASSUME Types, [Next]_vars
      PROVE  Types'
  <2> USE <1>2 DEF Types
  <2>1. CASE UNCHANGED vars
    BY <2>1 DEF vars, thread, client, conns, loop, ClientOK, ConnsOK, PendingOK, PeerOK, LoopOK
  <2>2. CASE ThreadStep \/ Construct
    <3>1. UNCHANGED <<client, conns, peer, loop, got>>
      BY <2>2 DEF ThreadStep, Construct
    <3>2. /\ phase' \notin {"handle", "functors"} \/ phase' = phase
          /\ phase' # phase => active = {} /\ batch = <<>>
          /\ owner' = "new" => phase' = "none"
      BY <2>2 DEF ThreadStep, Construct, Publish, EnterLoop, BeginConstructor, EndConstructor,
         StartLoop, Join, Calls, LoopOK
    <3> QED  BY <3>1, <3>2 DEF client, conns, loop, ClientOK, ConnsOK, PendingOK, PeerOK, LoopOK
  <2>3. CASE Poll
    BY <2>3 DEF Poll, Ready, Moves, client, conns, ClientOK, ConnsOK, PendingOK, PeerOK, LoopOK
  <2>4. CASE TakeFunctors
    BY <2>4, EmptySeq DEF TakeFunctors, Moves, client, conns, ClientOK, ConnsOK, PendingOK, PeerOK, LoopOK
  <2>5. CASE EndIteration
    BY <2>5 DEF EndIteration, Moves, client, conns, loop, ClientOK, ConnsOK, PendingOK, PeerOK, LoopOK
  <2>6. CASE \E leave \in BOOLEAN : LeaveOrPoll(leave)
    BY <2>6, EmptySeq DEF LeaveOrPoll, Test, client, conns, ClientOK, ConnsOK, PendingOK, PeerOK, LoopOK
  <2>7. CASE \E c \in Conns : Handle(c)
    <3>1. PICK c \in Conns : Handle(c)
      BY <2>7
    <3>2. active' = active \ {c} /\ UNCHANGED <<thread, batch, got>>
      BY <3>1 DEF Handle
    <3>3. CASE peer[c] = "sent" /\ HandleMessage(c) /\ peer' = [peer EXCEPT ![c] = "open"]
      <4>1. PendingOK'
        BY <3>3, TaskType DEF HandleMessage, PendingOK
      <4>2. ConnsOK'
        BY <3>3 DEF HandleMessage, ConnsOK
      <4>3. UNCHANGED <<client, added>>
        BY <3>3 DEF HandleMessage
      <4> QED  BY <3>2, <3>3, <4>1, <4>2, <4>3 DEF client, thread, ClientOK, PeerOK, LoopOK
    <3>4. CASE HandleClose(c, TRUE) /\ UNCHANGED peer
      BY <3>2, <3>4, CloseType DEF thread, PeerOK, LoopOK
    <3> QED  BY <3>1, <3>3, <3>4 DEF Handle
  <2>8. CASE RunFunctor
    <3>1. /\ phase = "functors" /\ batch # <<>> /\ batch' = Tail(batch)
          /\ UNCHANGED <<thread, peer, active, got>>
      BY <2>8 DEF RunFunctor
    <3>2. Head(batch) \in Functor /\ Tail(batch) \in Seq(Functor)
      BY <3>1, HeadTailProperties DEF LoopOK
    <3>3. PICK c \in Conns : c = Head(batch).conn
      BY <3>2 DEF Functor
    <3>4. PeerOK' /\ LoopOK'
      BY <3>1, <3>2 DEF PeerOK, LoopOK, thread
    <3>5. ClientOK' /\ ConnsOK' /\ PendingOK'
      <4>1. CASE NewConnection(c)
        <5>1. CASE UNCHANGED <<client, conns, pending>>
          BY <5>1 DEF client, conns, ClientOK, ConnsOK, PendingOK
        <5>2. CASE /\ state' = [state EXCEPT ![c] = "kConnected"] /\ added' = added \union {c}
                   /\ ups' = [ups EXCEPT ![c] = @ + 1]
                   /\ kept' = IF careful THEN kept \union {c} ELSE kept
                   /\ connection' = c
                   /\ UNCHANGED <<careful, alive, downs, pending>>
          <6>1. ConnsOK'
            BY <5>2 DEF ConnsOK
          <6> QED  BY <5>2, <6>1 DEF ClientOK, PendingOK
        <5> QED  BY <4>1, <5>1, <5>2 DEF NewConnection, Dies
      <4>2. CASE HandleClose(c, FALSE)
        BY <4>2, CloseType
      <4>3. CASE UNCHANGED <<client, conns, pending, failed>>
        BY <4>3 DEF client, conns, ClientOK, ConnsOK, PendingOK
      <4>4. CASE kept' = kept \ {c} /\ UNCHANGED <<client, state, added, ups, downs, pending, failed>>
        BY <4>4 DEF client, ClientOK, ConnsOK, PendingOK
      <4>5. Head(batch).fn \in {"new", "forceClose", "release"}
        BY <3>2 DEF Functor
      <4> QED  BY <2>8, <3>3, <4>1, <4>2, <4>3, <4>4, <4>5 DEF RunFunctor
    <3> QED  BY <3>4, <3>5
  <2>9. CASE ReturnConnection \/ DropPointer
    BY <2>9 DEF ReturnConnection, DropPointer, Calls, thread, client, conns, loop, ClientOK, ConnsOK,
       PendingOK, PeerOK, LoopOK
  <2>10. CASE ConnectFails \/ CallConnection \/ StopLoop
    BY <2>10 DEF ConnectFails, CallConnection, StopLoop, Destructor, Calls, thread, client, conns, loop,
       ClientOK, ConnsOK, PendingOK, PeerOK, LoopOK
  <2>11. CASE DestroyClient
    <3>1. PendingOK' /\ state' \in [Conns -> {None, "kConnected", "kDisconnecting", "kDisconnected"}]
      BY <2>11, TaskType DEF DestroyClient, ClientOK, ConnsOK, PendingOK
    <3> QED  BY <2>11, <3>1 DEF DestroyClient, thread, ClientOK, ConnsOK, PeerOK, LoopOK
  <2>12. CASE \E c \in Conns : Connect(c)
    <3>1. PendingOK'
      BY <2>12, TaskType DEF Connect, PendingOK
    <3> QED  BY <2>12, <3>1 DEF Connect, thread, client, conns, ClientOK, ConnsOK, PeerOK, LoopOK
  <2>13. CASE \E c \in Conns : PeerActs(c)
    BY <2>13 DEF PeerActs, thread, client, conns, loop, ClientOK, ConnsOK, PendingOK, PeerOK, LoopOK
  <2> QED  BY <2>1, <2>2, <2>3, <2>4, <2>5, <2>6, <2>7, <2>8, <2>9, <2>10, <2>11, <2>12, <2>13
           DEF Next, LoopStep
<1> QED  BY <1>1, <1>2

-----------------------------------------------------------------------------
(* The functors the loop still has to run, in order.                        *)

(* Appending to a queue.                                                    *)
LEMMA AppendJobs ==
  ASSUME NEW S, NEW s \in Seq(S), NEW e \in S
  PROVE  /\ Range(Append(s, e)) = Range(s) \union {e}
         /\ \A x : Once(s, x) /\ (e = x => x \notin Range(s)) => Once(Append(s, e), x)
<1> DEFINE t == Append(s, e)
           n == Len(s)
<1>1. /\ n \in Nat /\ DOMAIN s = 1..n /\ DOMAIN t = 1..(n + 1)
      /\ t[n + 1] = e /\ \A i \in 1..n : t[i] = s[i]
  BY AppendProperties, LenProperties
<1> HIDE DEF t, n
<1>2. Range(t) = Range(s) \union {e}
  BY <1>1 DEF Range
<1>3. ASSUME NEW x, Once(s, x), e = x => x \notin Range(s)
      PROVE  Once(t, x)
  BY <1>1, <1>3 DEF Once, Range
<1> QED  BY <1>2, <1>3 DEF t

(* Taking the first one off.                                                *)
LEMMA TailJobs ==
  ASSUME NEW S, NEW s \in Seq(S), s # <<>>
  PROVE  /\ Range(s) = Range(Tail(s)) \union {Head(s)}
         /\ \A x : Once(s, x) => Once(Tail(s), x)
         /\ Once(s, Head(s)) => Head(s) \notin Range(Tail(s))
<1> DEFINE t == Tail(s)
           n == Len(s)
<1>1. /\ n \in Nat \ {0} /\ DOMAIN s = 1..n /\ DOMAIN t = 1..(n - 1)
      /\ \A i \in 1..(n - 1) : t[i] = s[i + 1]
      /\ Head(s) = s[1]
  BY HeadTailProperties, LenProperties, EmptySeq
<1> HIDE DEF t, n
<1>2. Range(s) = Range(t) \union {Head(s)}
  <2>1. ASSUME NEW i \in 1..n
        PROVE  s[i] \in Range(t) \union {Head(s)}
    <3>1. CASE i = 1
      BY <1>1, <3>1
    <3>2. CASE i # 1
      <4>1. i - 1 \in 1..(n - 1) /\ t[i - 1] = s[i]
        BY <1>1, <3>2
      <4> QED  BY <1>1, <4>1 DEF Range
    <3> QED  BY <3>1, <3>2
  <2>2. ASSUME NEW i \in 1..(n - 1)
        PROVE  t[i] \in Range(s)
    <3>1. i + 1 \in 1..n
      BY <1>1
    <3> QED  BY <1>1, <3>1 DEF Range
  <2>3. Head(s) \in Range(s)
    BY <1>1 DEF Range
  <2> QED  BY <1>1, <2>1, <2>2, <2>3 DEF Range
<1>3. ASSUME NEW x, Once(s, x), NEW i \in DOMAIN t, NEW j \in DOMAIN t, t[i] = x, t[j] = x
      PROVE  i = j
  <2>1. i + 1 \in DOMAIN s /\ j + 1 \in DOMAIN s /\ s[i + 1] = x /\ s[j + 1] = x
    BY <1>1, <1>3
  <2>2. i + 1 = j + 1
    BY <1>3, <2>1 DEF Once
  <2> QED  BY <1>1, <2>2
<1>4. ASSUME Once(s, Head(s)), Head(s) \in Range(t)
      PROVE  FALSE
  <2>1. PICK i \in DOMAIN t : t[i] = Head(s)
    BY <1>4 DEF Range
  <2>2. 1 \in DOMAIN s /\ i + 1 \in DOMAIN s /\ s[1] = Head(s) /\ s[i + 1] = Head(s) /\ i + 1 # 1
    BY <1>1, <2>1
  <2> QED  BY <1>4, <2>2 DEF Once
<1> QED  BY <1>2, <1>3, <1>4 DEF t, Once

(* Both on a queue that is in two parts.                                    *)
LEMMA JoinedJobs ==
  ASSUME NEW S, NEW s \in Seq(S), NEW t \in Seq(S)
  PROVE  /\ \A e \in S : s \o (t \o <<e>>) = Append(s \o t, e)
         /\ s # <<>> => /\ s \o t # <<>> /\ Head(s \o t) = Head(s)
                        /\ Tail(s) \o t = Tail(s \o t)
<1>1. \A e \in S : s \o (t \o <<e>>) = Append(s \o t, e)
  OBVIOUS
<1>2. ASSUME s # <<>>
      PROVE  s \o t # <<>> /\ Head(s \o t) = Head(s)
  BY <1>2
<1>3. ASSUME s # <<>>
      PROVE  Tail(s) \o t = Tail(s \o t)
  BY <1>3
<1> QED  BY <1>1, <1>2, <1>3

\* A step takes the job of out from the head of the work and queues that of in.
Taken(out) == \/ batch' = batch /\ out = {}
              \/ batch # <<>> /\ batch' = Tail(batch) /\ out = {Head(batch)}
Put(in) == \/ pending' = pending /\ in = {}
           \/ \E fn \in {"new", "forceClose", "release"}, c \in Conns :
                pending' = pending \o Task(fn, c) /\ in = {Job(fn, c)}

(* What such a step does to the work.                                       *)
LEMMA WorkStep ==
  ASSUME Types, NEW in, NEW out, Taken(out), Put(in)
  PROVE  /\ \A j \in Jobs' : j \in Jobs \/ j \in in
         /\ \A j \in Jobs : j \in Jobs' \/ j \in out
         /\ in \subseteq Jobs' /\ out \subseteq Jobs
         /\ \A x : Once(Work, x) /\ (x \in in => x \notin Jobs) => Once(Work, x)'
         /\ \A x \in out : Once(Work, x) /\ x \notin in => x \notin Jobs'
<1>1. batch \in Seq(Functor) /\ pending \in Seq(Functor) /\ Work \in Seq(Functor)
  BY ConcatProperties DEF Types, PendingOK, LoopOK, Work
<1> DEFINE rest == batch' \o pending
<1>2. /\ batch' \in Seq(Functor) /\ rest \in Seq(Functor)
      /\ IF out # {} THEN Work # <<>> /\ out = {Head(Work)} /\ rest = Tail(Work)
         ELSE rest = Work
  <2>1. CASE batch' = batch /\ out = {}
    BY <1>1, <2>1 DEF Work
  <2>2. CASE batch # <<>> /\ batch' = Tail(batch) /\ out = {Head(batch)}
    <3>1. Tail(batch) \in Seq(Functor)
      BY <1>1, <2>2, HeadTailProperties
    <3>2. /\ Work # <<>> /\ Head(Work) = Head(batch)
          /\ Tail(batch) \o pending = Tail(Work)
      BY <1>1, <2>2, JoinedJobs DEF Work
    <3>3. rest \in Seq(Functor)
      BY <1>1, <2>2, <3>1, ConcatProperties
    <3> QED  BY <2>2, <3>1, <3>2, <3>3
  <2> QED  BY <2>1, <2>2 DEF Taken
<1>3. IF in # {} THEN \E j \in Functor : Work' = Append(rest, j) /\ in = {j}
      ELSE Work' = rest
  <2>1. CASE pending' = pending /\ in = {}
    BY <2>1 DEF Work
  <2>2. ASSUME NEW fn \in {"new", "forceClose", "release"}, NEW c \in Conns,
               pending' = pending \o Task(fn, c), in = {Job(fn, c)}
        PROVE  Job(fn, c) \in Functor /\ Work' = Append(rest, Job(fn, c))
    <3>1. Job(fn, c) \in Functor /\ Task(fn, c) = <<Job(fn, c)>>
      BY DEF Functor, Job, Task
    <3>2. Work' = batch' \o (pending \o <<Job(fn, c)>>)
      BY <2>2, <3>1 DEF Work
    <3>3. PICK q \in Seq(Functor), j \in Functor : q = batch' /\ j = Job(fn, c)
      BY <1>2, <3>1
    <3>4. q \o (pending \o <<j>>) = Append(q \o pending, j)
      BY <1>1, JoinedJobs
    <3> QED  BY <3>1, <3>2, <3>3, <3>4
  <2> QED  BY <2>1, <2>2 DEF Put
<1> HIDE DEF rest
<1>4. /\ Jobs = Range(rest) \union out
      /\ \A x : Once(Work, x) => Once(rest, x)
      /\ \A x \in out : Once(Work, x) => x \notin Range(rest)
  <2>1. CASE out # {}
    <3>1. Work \in Seq(Functor) /\ Work # <<>> /\ out = {Head(Work)} /\ rest = Tail(Work)
      BY <1>1, <1>2, <2>1
    <3>2. Range(Work) = Range(rest) \union {Head(Work)}
      BY <3>1, TailJobs
    <3>3. \A x : Once(Work, x) => Once(rest, x)
      BY <3>1, TailJobs
    <3>4. Once(Work, Head(Work)) => Head(Work) \notin Range(rest)
      BY <3>1, TailJobs
    <3> QED  BY <3>1, <3>2, <3>3, <3>4 DEF Jobs
  <2>2. CASE out = {}
    BY <1>2, <2>2 DEF Jobs
  <2> QED  BY <2>1, <2>2
<1>5. /\ Range(Work') = Range(rest) \union in
      /\ \A x : Once(rest, x) /\ (x \in in => x \notin Range(rest)) => Once(Work', x)
  <2>1. CASE in # {}
    <3>1. PICK j \in Functor : Work' = Append(rest, j) /\ in = {j}
      BY <1>3, <2>1
    <3>2. rest \in Seq(Functor)
      BY <1>2
    <3>3. Range(Append(rest, j)) = Range(rest) \union {j}
      BY <3>2, AppendJobs
    <3>4. \A x : Once(rest, x) /\ (j = x => x \notin Range(rest)) => Once(Append(rest, j), x)
      BY <3>2, AppendJobs
    <3> QED  BY <3>1, <3>3, <3>4
  <2>2. CASE in = {}
    BY <1>3, <2>2
  <2> QED  BY <2>1, <2>2
<1>6. Jobs' = Range(Work') /\ \A x : Once(Work, x)' <=> Once(Work', x)
  BY DEF Jobs, Once
<1> QED  BY <1>4, <1>5, <1>6

-----------------------------------------------------------------------------
(* The connections of a careful user.                                       *)

Said(c) == <<ups[c], downs[c]>>
Queued(fn, c) == Job(fn, c) \in Jobs

\* The stages of a connection: connect() has not been called; newConnection is
\* queued; it is up; it is down and the user's pointer still to be dropped; the
\* pointer is dropped.
Fresh(c) ==
  /\ peer[c] = "absent" /\ state[c] = None /\ Said(c) = <<0, 0>>
  /\ c \notin added /\ c \notin kept /\ connection # c /\ got # c
  /\ ~Queued("new", c) /\ ~Queued("forceClose", c) /\ ~Queued("release", c)
Called(c) ==
  /\ peer[c] # "absent" /\ state[c] = None /\ Said(c) = <<0, 0>>
  /\ c \notin added /\ c \notin kept /\ connection # c /\ got # c
  /\ Queued("new", c) /\ Once(Work, Job("new", c))
  /\ ~Queued("forceClose", c) /\ ~Queued("release", c)
Serving(c) ==
  /\ peer[c] # "absent" /\ Up(c) /\ Said(c) = <<1, 0>>
  /\ c \in added /\ c \in kept /\ connection = c
  /\ ~Queued("new", c) /\ ~Queued("release", c)
Closing(c) ==
  /\ peer[c] # "absent" /\ state[c] = "kDisconnected" /\ Said(c) = <<1, 1>>
  /\ c \notin added /\ c \in kept /\ connection # c
  /\ Queued("release", c) /\ Once(Work, Job("release", c)) /\ ~Queued("new", c)
Over(c) ==
  /\ peer[c] # "absent" /\ state[c] = "kDisconnected" /\ Said(c) = <<1, 1>>
  /\ c \notin added /\ c \notin kept /\ connection # c
  /\ ~Queued("new", c) /\ ~Queued("release", c)

InStage == \A c \in Conns : Fresh(c) \/ Called(c) \/ Serving(c) \/ Closing(c) \/ Over(c)

\* The client has work with the connection: with one at a time, and it waits
\* for the end of it before it destroys the client.
Busy(c) == Called(c) \/ Serving(c) \/ Closing(c)
OneAtATime == /\ \A c, d \in Conns : Busy(c) /\ Busy(d) => c = d
              /\ \A c \in Conns : Busy(c) => alive

\* forceClose is only called in the handler of a message, so that none is
\* queued when the loop ends.
Sound == /\ failed \in {None, "connect"}
         /\ quit => ~alive
         /\ phase # "handle" => \A i \in DOMAIN pending : pending[i].fn # "forceClose"

Careful == InStage /\ OneAtATime /\ Sound

(* A connection is in one stage.                                            *)
LEMMA StagesApart ==
  ASSUME NEW c \in Conns
  PROVE  /\ Fresh(c) => ~Busy(c) /\ ~Over(c)
         /\ Called(c) => ~Serving(c) /\ ~Closing(c)
         /\ Serving(c) => ~Closing(c)
         /\ Over(c) => ~Busy(c)
BY DEF Fresh, Called, Serving, Closing, Over, Busy, Up, None

\* A pointer outside the client and the user's own: connection() returned it,
\* or a functor has it.
Lent(c) == got = c \/ Queued("forceClose", c) \/ Queued("release", c)

\* What a step may do to a connection: leave it in its stage, with the same
\* pointers or fewer, or take it to the next.
Stays(c) == /\ Fresh(c) => Fresh(c)'
            /\ Called(c) => Called(c)'
            /\ Serving(c) => Serving(c)'
            /\ Closing(c) => Closing(c)'
            /\ Over(c) => Over(c)'
Loosens(c) == Stays(c) /\ (Over(c) /\ Lent(c)' => Lent(c))
Same(c) == Loosens(c) /\ (Over(c) /\ Lent(c) => Lent(c)')
Proceeds(c) == \/ Fresh(c) /\ Called(c)' /\ alive' /\ \A d \in Conns : ~Busy(d)
               \/ Called(c) /\ Serving(c)'
               \/ Serving(c) /\ Closing(c)'
               \/ Closing(c) /\ Over(c)'
               \/ Loosens(c)

\* A step is a turn of one connection, or of none.
Turn(c) == Proceeds(c) /\ \A d \in Conns \ {c} : Same(d)
Goes == (\A c \in Conns : Same(c)) \/ (\E c \in Conns : Turn(c))
StillNeeded == alive' = alive \/ \A c \in Conns : ~Busy(c)

(* Such steps keep the invariant.                                           *)
LEMMA GoesOn ==
  ASSUME Careful, Goes, StillNeeded, Sound'
  PROVE  Careful'
<1>1. ASSUME NEW c \in Conns, Stays(c)
      PROVE  /\ (Fresh(c) \/ Called(c) \/ Serving(c) \/ Closing(c) \/ Over(c))'
             /\ Busy(c)' => Busy(c)
  <2>1. Fresh(c) \/ Called(c) \/ Serving(c) \/ Closing(c) \/ Over(c)
    BY DEF Careful, InStage
  <2>2. /\ Fresh(c)' => ~Busy(c)'
        /\ Over(c)' => ~Busy(c)'
    BY DEF Fresh, Called, Serving, Closing, Over, Busy, Up, None
  <2> QED  BY <1>1, <2>1, <2>2 DEF Stays, Busy
<1>2. CASE \A c \in Conns : Same(c)
  <2>1. \A c \in Conns : Stays(c)
    BY <1>2 DEF Same, Loosens
  <2> QED  BY <1>1, <2>1 DEF Careful, InStage, OneAtATime, StillNeeded
<1>3. ASSUME NEW c \in Conns, Turn(c)
      PROVE  Careful'
  <2>1. \A d \in Conns \ {c} : Stays(d)
    BY <1>3 DEF Turn, Same, Loosens
  <2>2. /\ (Fresh(c) \/ Called(c) \/ Serving(c) \/ Closing(c) \/ Over(c))'
        /\ Busy(c)' => Busy(c) \/ (alive' /\ \A d \in Conns : ~Busy(d))
    <3>1. CASE Loosens(c)
      BY <1>1, <3>1 DEF Loosens
    <3>2. CASE ~Loosens(c)
      <4>1. Over(c)' => ~Busy(c)'
        BY DEF Called, Serving, Closing, Over, Busy, Up, None
      <4> QED  BY <1>3, <3>2, <4>1 DEF Turn, Proceeds, Busy
    <3> QED  BY <3>1, <3>2
  <2>3. InStage'
    BY <1>1, <2>1, <2>2 DEF InStage
  <2>4. \A d \in Conns \ {c} : Busy(d)' => Busy(d)
    BY <1>1, <2>1
  <2>5. OneAtATime'
    BY <2>2, <2>4 DEF Careful, OneAtATime, StillNeeded
  <2> QED  BY <2>3, <2>5 DEF Careful
<1> QED  BY <1>2, <1>3 DEF Goes

-----------------------------------------------------------------------------
(* What a step leaves of a connection.                                      *)

Apart(d) == /\ peer'[d] = "absent" <=> peer[d] = "absent"
            /\ state'[d] = state[d] /\ ups'[d] = ups[d] /\ downs'[d] = downs[d]
            /\ d \in added' <=> d \in added
            /\ d \in kept' <=> d \in kept
            /\ connection' = d <=> connection = d
SameJobs(d) == \A fn \in {"new", "forceClose", "release"} :
                 /\ Queued(fn, d)' <=> Queued(fn, d)
                 /\ Once(Work, Job(fn, d)) => Once(Work, Job(fn, d))'

(* A connection that is left alone, but for what connection() returns.      *)
LEMMA LeftAlone ==
  ASSUME NEW d \in Conns, Apart(d), SameJobs(d), got' = d => got = d \/ Serving(d)
  PROVE  /\ Loosens(d)
         /\ (got = d => got' = d \/ Serving(d)) => Same(d)
<1>1. /\ Queued("new", d)' <=> Queued("new", d)
      /\ Queued("forceClose", d)' <=> Queued("forceClose", d)
      /\ Queued("release", d)' <=> Queued("release", d)
      /\ Once(Work, Job("new", d)) => Once(Work, Job("new", d))'
      /\ Once(Work, Job("release", d)) => Once(Work, Job("release", d))'
  BY DEF SameJobs
<1>2. Said(d)' = Said(d)
  BY DEF Said, Apart
<1>3. Fresh(d) => Fresh(d)'
  BY <1>1, <1>2 DEF Fresh, Apart, Serving
<1>4. Called(d) => Called(d)'
  <2>1. Job("new", d)' = Job("new", d)
    BY DEF Job
  <2> QED  BY <1>1, <1>2, <2>1 DEF Called, Apart, Serving
<1>5. Serving(d) => Serving(d)'
  BY <1>1, <1>2 DEF Serving, Apart, Up
<1>6. Closing(d) => Closing(d)'
  BY <1>1, <1>2 DEF Closing, Apart
<1>7. Over(d) => Over(d)' /\ ~Serving(d)
  BY <1>1, <1>2 DEF Over, Apart, Serving
<1>8. Stays(d)
  BY <1>3, <1>4, <1>5, <1>6, <1>7 DEF Stays
<1>9. Over(d) /\ Lent(d)' => Lent(d)
  BY <1>1, <1>7 DEF Lent
<1>10. (got = d => got' = d \/ Serving(d)) => (Over(d) /\ Lent(d) => Lent(d)')
  BY <1>1, <1>7 DEF Lent
<1> QED  BY <1>8, <1>9, <1>10 DEF Loosens, Same

(* The work of a connection when only jobs of another come and go.          *)
LEMMA OtherJobs ==
  ASSUME Types, NEW c \in Conns, NEW in, NEW out, Taken(out), Put(in),
         \A j \in in \union out : j.conn = c
  PROVE  \A d \in Conns \ {c} : SameJobs(d)
<1> SUFFICES ASSUME NEW d \in Conns \ {c}, NEW fn \in {"new", "forceClose", "release"}
             PROVE  /\ Queued(fn, d)' <=> Queued(fn, d)
                    /\ Once(Work, Job(fn, d)) => Once(Work, Job(fn, d))'
  BY DEF SameJobs
<1>1. PICK j : j = Job(fn, d)
  OBVIOUS
<1>2. j \notin in /\ j \notin out /\ Job(fn, d)' = Job(fn, d)
  BY <1>1 DEF Job
<1>3. /\ \A x \in Jobs' : x \in Jobs \/ x \in in
      /\ \A x \in Jobs : x \in Jobs' \/ x \in out
  BY WorkStep
<1>4. \A x : Once(Work, x) /\ (x \in in => x \notin Jobs) => Once(Work, x)'
  BY WorkStep
<1>5. Once(Work, j) => Once(Work, j)'
  BY <1>2, <1>4
<1>6. Queued(fn, d)' <=> Queued(fn, d)
  BY <1>1, <1>2, <1>3 DEF Queued
<1>7. Once(Work, Job(fn, d))' <=> Once(Work', Job(fn, d))
  BY DEF Once, Job
<1>8. Once(Work, j)' <=> Once(Work', j)
  BY DEF Once
<1> QED  BY <1>1, <1>5, <1>6, <1>7, <1>8

(* Queueing what is no forceClose.                                          *)
LEMMA QueueKeepsSound ==
  ASSUME Types, NEW fn \in {"new", "release"}, NEW c \in Conns,
         pending' = pending \o Task(fn, c),
         \A i \in DOMAIN pending : pending[i].fn # "forceClose"
  PROVE  \A i \in DOMAIN pending' : pending'[i].fn # "forceClose"
<1>1. pending \in Seq(Functor) /\ Task(fn, c) = <<Job(fn, c)>> /\ Job(fn, c) \in Functor
  BY DEF Types, PendingOK, Task, Job, Functor
<1>2. pending' = Append(pending, Job(fn, c))
  BY <1>1
<1>3. /\ DOMAIN pending = 1..Len(pending) /\ DOMAIN pending' = 1..(Len(pending) + 1)
      /\ Len(pending) \in Nat
      /\ pending'[Len(pending) + 1] = Job(fn, c)
      /\ \A i \in 1..Len(pending) : pending'[i] = pending[i]
  BY <1>1, <1>2, AppendProperties, LenProperties
<1> DEFINE n == Len(pending)
<1> HIDE DEF n
<1>4. \A i \in 1..(n + 1) : i \in 1..n \/ i = n + 1
  BY <1>3 DEF n
<1> QED  BY <1>3, <1>4 DEF Job, n

(* The functor at the head of the batch is one of a stage.                  *)
LEMMA JobInStage ==
  ASSUME Types, Careful, batch # <<>>
  PROVE  \E fn \in {"new", "forceClose", "release"}, c \in Conns :
           /\ Head(batch) = Job(fn, c) /\ Queued(fn, c)
           /\ fn = "new" => Called(c)
           /\ fn = "forceClose" => Serving(c) \/ (~Up(c) /\ (Closing(c) \/ Over(c)))
           /\ fn = "release" => Closing(c)
<1>1. Head(batch) \in Functor
  BY HeadTailProperties DEF Types, LoopOK
<1>2. PICK fn \in {"new", "forceClose", "release"}, c \in Conns : Head(batch) = Job(fn, c)
  BY <1>1 DEF Functor, Job
<1>3. Queued(fn, c)
  <2>1. /\ batch \in Seq(Functor) /\ pending \in Seq(Functor) /\ Work \in Seq(Functor)
    BY ConcatProperties DEF Types, LoopOK, PendingOK, Work
  <2>2. Work # <<>> /\ Head(Work) = Head(batch)
    BY <2>1, JoinedJobs DEF Work
  <2>3. Head(Work) \in Range(Work)
    BY <2>1, <2>2, TailJobs
  <2> QED  BY <1>2, <2>2, <2>3 DEF Queued, Jobs
<1>4. Fresh(c) \/ Called(c) \/ Serving(c) \/ Closing(c) \/ Over(c)
  BY DEF Careful, InStage
<1>5. fn = "new" => Called(c)
  BY <1>3, <1>4 DEF Fresh, Serving, Closing, Over
<1>6. fn = "forceClose" => Serving(c) \/ (~Up(c) /\ (Closing(c) \/ Over(c)))
  BY <1>3, <1>4 DEF Fresh, Called, Closing, Over, Up
<1>7. fn = "release" => Closing(c)
  BY <1>3, <1>4 DEF Fresh, Called, Serving, Over
<1> QED  BY <1>2, <1>3, <1>5, <1>6, <1>7

(* handelClose of a connection that is up: the assertions hold, the client  *)
(* is there, the user's pointer keeps the channel until the event is        *)
(* handled, and the user is told once that it is over.                      *)
LEMMA CloseIsSafe ==
  ASSUME Types, Careful, careful, NEW c \in Conns, NEW event, HandleClose(c, event),
         Serving(c), NEW out, Taken(out), \A j \in out : j = Job("forceClose", c),
         UNCHANGED <<peer, got, phase, quit>>
  PROVE  Turn(c) /\ StillNeeded /\ Sound'
<1>1. Up(c) /\ alive /\ c \in added /\ c \in kept /\ connection = c
  BY DEF Serving, Busy, Careful, OneAtATime
<1>2. /\ state' = [state EXCEPT ![c] = "kDisconnected"] /\ added' = added \ {c}
      /\ connection' = None
      /\ downs' = [downs EXCEPT ![c] = @ + 1]
      /\ pending' = pending \o Task("release", c)
      /\ failed' = failed
      /\ UNCHANGED <<careful, alive, kept, ups>>
  BY <1>1 DEF HandleClose
<1>3. PICK in : in = {Job("release", c)}
  OBVIOUS
<1>4. Put(in)
  BY <1>2, <1>3 DEF Put
<1>5. \A j \in in \union out : j.conn = c
  BY <1>3 DEF Job
<1>6. /\ \A j \in Jobs' : j \in Jobs \/ j \in in
      /\ in \subseteq Jobs'
  BY <1>4, WorkStep
<1>7. \A x : Once(Work, x) /\ (x \in in => x \notin Jobs) => Once(Work, x)'
  BY <1>4, WorkStep
<1>8. state'[c] = "kDisconnected" /\ downs'[c] = downs[c] + 1 /\ connection' # c
  BY <1>2, ClientAssumption DEF Types, ConnsOK, None
<1>9. ~Queued("new", c) /\ ~Queued("release", c) /\ Said(c) = <<1, 0>> /\ peer[c] # "absent"
  BY DEF Serving
<1>10. Queued("release", c)' /\ ~Queued("new", c)'
  BY <1>3, <1>6, <1>9 DEF Queued, Job
<1>11. Once(Work, Job("release", c))'
  <2>1. \A i, j \in DOMAIN Work : Work[i] = Job("release", c) /\ Work[j] = Job("release", c) => i = j
    BY <1>9 DEF Queued, Jobs, Range
  <2>2. Once(Work, Job("release", c))
    BY <2>1 DEF Once
  <2>3. \A x : x = Job("release", c) => Once(Work, x)'
    BY <1>7, <1>9, <2>2 DEF Queued
  <2>4. \A x : x = Job("release", c) => Once(Work', x)
    BY <2>3 DEF Once
  <2>5. Once(Work', Job("release", c))
    BY <2>4
  <2> QED  BY <2>5 DEF Once, Job
<1>12. Said(c)' = <<1, 1>>
  BY <1>2, <1>8, <1>9 DEF Said
<1>13. Closing(c)'
  BY <1>1, <1>2, <1>8, <1>9, <1>10, <1>11, <1>12 DEF Closing
<1>14. ASSUME NEW d \in Conns \ {c}
       PROVE  Same(d)
  <2>1. Apart(d)
    BY <1>1, <1>2, ClientAssumption DEF Apart, Types, ConnsOK, None
  <2>2. SameJobs(d)
    BY <1>4, <1>5, OtherJobs
  <2> QED  BY <2>1, <2>2, LeftAlone
<1>15. Sound'
  <2>1. phase' # "handle" => \A i \in DOMAIN pending' : pending'[i].fn # "forceClose"
    BY <1>2, QueueKeepsSound DEF Careful, Sound
  <2> QED  BY <1>2, <2>1 DEF Careful, Sound
<1> QED  BY <1>2, <1>13, <1>14, <1>15 DEF Turn, Proceeds, StillNeeded

(* A step that leaves connections, pointers and work as they are.           *)
LEMMA Elsewhere ==
  ASSUME Careful, Work' = Work, UNCHANGED <<connection, conns, got>>,
         \A c \in Conns : peer'[c] = "absent" <=> peer[c] = "absent"
  PROVE  Goes
<1> SUFFICES ASSUME NEW c \in Conns
             PROVE  Same(c)
  BY DEF Goes
<1>1. SameJobs(c)
  BY DEF SameJobs, Queued, Jobs, Once, Job
<1>2. Apart(c)
  BY DEF Apart, conns
<1> QED  BY <1>1, <1>2, LeftAlone

(* The handler of a channel.                                                *)
LEMMA HandleGoes ==
  ASSUME Types, Careful, careful, NEW c \in Conns, Handle(c)
  PROVE  Goes /\ StillNeeded /\ Sound'
<1>1. /\ phase = "handle" /\ c \in active /\ c \in added
      /\ UNCHANGED <<thread, batch, got>>
  BY DEF Handle, Types, LoopOK
<1>2. Serving(c)
  BY <1>1 DEF Careful, InStage, Fresh, Called, Closing, Over
<1>3. PICK out : out = {} /\ Taken(out)
  BY <1>1 DEF Taken
<1>4. CASE HandleClose(c, TRUE) /\ UNCHANGED peer
  <2>1. UNCHANGED <<peer, got, phase, quit>>
    BY <1>1, <1>4 DEF thread
  <2> QED  BY <1>2, <1>3, <1>4, <2>1, CloseIsSafe DEF Goes
<1>5. CASE peer[c] = "sent" /\ HandleMessage(c) /\ peer' = [peer EXCEPT ![c] = "open"]
  <2>0. \A d \in Conns : peer'[d] = "absent" <=> peer[d] = "absent"
    BY <1>5 DEF Types, PeerOK
  <2>1. StillNeeded /\ Sound'
    BY <1>1, <1>5 DEF HandleMessage, StillNeeded, client, thread, Careful, Sound
  <2>2. CASE UNCHANGED <<state, pending>>
    <3>1. Work' = Work /\ UNCHANGED <<connection, conns, got>>
      BY <1>1, <1>5, <2>2 DEF Work, HandleMessage, client, conns
    <3> QED  BY <2>0, <2>1, <3>1, Elsewhere
  <2>3. CASE /\ state' = [state EXCEPT ![c] = "kDisconnecting"]
             /\ pending' = pending \o Task("forceClose", c)
    <3>1. PICK in : in = {Job("forceClose", c)}
      OBVIOUS
    <3>2. Put(in) /\ \A j \in in \union out : j.conn = c
      <4>1. Put(in)
        BY <2>3, <3>1 DEF Put
      <4>2. \A j \in in \union out : j.conn = c
        BY <1>3, <3>1 DEF Job
      <4> QED  BY <4>1, <4>2
    <3>3. UNCHANGED <<client, added, kept, ups, downs>>
      BY <1>5 DEF HandleMessage
    <3>4. ASSUME NEW d \in Conns \ {c}
          PROVE  Same(d)
      <4>1. Apart(d)
        BY <2>0, <2>3, <3>3 DEF Apart, Types, ConnsOK, client
      <4>2. SameJobs(d)
        BY <1>3, <3>2, OtherJobs
      <4> QED  BY <1>1, <4>1, <4>2, LeftAlone
    <3>5. \A j \in Jobs' : j \in Jobs \/ j \in in
      BY <1>3, <3>2, WorkStep
    <3>6. ~Queued("new", c)' /\ ~Queued("release", c)'
      BY <1>2, <3>1, <3>5 DEF Serving, Queued, Job
    <3>7. Said(c)' = Said(c) /\ state'[c] = "kDisconnecting"
      BY <2>3, <3>3 DEF Said, Types, ConnsOK
    <3>8. Serving(c)'
      BY <1>2, <2>0, <3>3, <3>6, <3>7 DEF Serving, Up, client
    <3>9. Proceeds(c)
      <4>1. ~Over(c) /\ ~Fresh(c) /\ ~Called(c) /\ ~Closing(c)
        BY <1>2, StagesApart DEF Busy
      <4> QED  BY <3>8, <4>1 DEF Proceeds, Loosens, Stays
    <3> QED  BY <2>1, <3>4, <3>9 DEF Goes, Turn
  <2> QED  BY <1>5, <2>2, <2>3 DEF HandleMessage
<1> QED  BY <1>4, <1>5 DEF Handle

(* The functors.                                                            *)
LEMMA FunctorGoes ==
  ASSUME Types, Careful, careful, RunFunctor
  PROVE  Goes /\ StillNeeded /\ Sound'
<1>1. /\ phase = "functors" /\ batch # <<>> /\ batch' = Tail(batch)
      /\ UNCHANGED <<thread, peer, active, got>>
  BY DEF RunFunctor
<1>2. PICK fn \in {"new", "forceClose", "release"}, c \in Conns :
           /\ Head(batch) = Job(fn, c) /\ Queued(fn, c)
           /\ fn = "new" => Called(c)
           /\ fn = "forceClose" => Serving(c) \/ (~Up(c) /\ (Closing(c) \/ Over(c)))
           /\ fn = "release" => Closing(c)
  BY <1>1, JobInStage
<1>3. PICK out : out = {Job(fn, c)}
  OBVIOUS
<1>4. Taken(out)
  BY <1>1, <1>2, <1>3 DEF Taken
<1>5. Head(batch).fn = fn /\ Head(batch).conn = c
  BY <1>2 DEF Job
<1>6. PICK in : in = {}
  OBVIOUS
<1>7. \A j \in in \union out : j.conn = c
  BY <1>3, <1>6 DEF Job
<1>8. ASSUME pending' = pending
      PROVE  /\ Put(in)
             /\ \A d \in Conns \ {c} : SameJobs(d)
             /\ \A j \in Jobs' : j \in Jobs
             /\ \A j \in Jobs : j \in Jobs' \/ j = Job(fn, c)
             /\ \A x : Once(Work, x) => Once(Work', x)
             /\ Once(Work, Job(fn, c)) => Job(fn, c) \notin Jobs'
  <2>1. Put(in)
    BY <1>6, <1>8 DEF Put
  <2>2. \A d \in Conns \ {c} : SameJobs(d)
    BY <1>4, <1>7, <2>1, OtherJobs
  <2>3. /\ \A j \in Jobs' : j \in Jobs \/ j \in in
        /\ \A j \in Jobs : j \in Jobs' \/ j \in out
    BY <1>4, <2>1, WorkStep
  <2>4. \A x : Once(Work, x) /\ (x \in in => x \notin Jobs) => Once(Work, x)'
    BY <1>4, <2>1, WorkStep
  <2>5. \A x \in out : Once(Work, x) /\ x \notin in => x \notin Jobs'
    BY <1>4, <2>1, WorkStep
  <2>6. \A x : Once(Work, x) => Once(Work', x)
    BY <1>6, <2>4 DEF Once
  <2> QED  BY <1>3, <1>6, <2>1, <2>2, <2>3, <2>5, <2>6
<1>9. CASE fn = "new"
  <2>0. Called(c) /\ alive
    BY <1>2, <1>9 DEF Careful, OneAtATime, Busy
  <2>1. /\ state' = [state EXCEPT ![c] = "kConnected"] /\ added' = added \union {c}
        /\ ups' = [ups EXCEPT ![c] = @ + 1]
        /\ kept' = kept \union {c}
        /\ connection' = c
        /\ UNCHANGED <<careful, alive, downs, pending, failed>>
    BY <1>5, <1>9, <2>0 DEF RunFunctor, NewConnection
  <2>2. ASSUME NEW d \in Conns \ {c}
        PROVE  Same(d)
    <3>1. connection # d
      <4>1. Busy(c) /\ ~Serving(d)
        BY <2>0 DEF Busy, Careful, OneAtATime
      <4>2. Fresh(d) \/ Called(d) \/ Closing(d) \/ Over(d)
        BY <4>1 DEF Careful, InStage
      <4> QED  BY <4>2 DEF Fresh, Called, Closing, Over
    <3>2. Apart(d)
      BY <1>1, <2>1, <3>1 DEF Apart, Types, ConnsOK
    <3> QED  BY <1>1, <1>8, <2>1, <3>2, LeftAlone
  <2>3. /\ peer[c] # "absent" /\ Said(c) = <<0, 0>> /\ Once(Work, Job("new", c))
        /\ ~Queued("release", c)
    BY <2>0 DEF Called
  <2>4. state'[c] = "kConnected" /\ ups'[c] = ups[c] + 1
    BY <2>1 DEF Types, ConnsOK
  <2>5. Said(c)' = <<1, 0>>
    BY <2>1, <2>3, <2>4 DEF Said
  <2>6. ~Queued("new", c)' /\ ~Queued("release", c)'
    BY <1>8, <1>9, <2>1, <2>3 DEF Queued, Job
  <2>7. Serving(c)'
    BY <1>1, <2>1, <2>3, <2>4, <2>5, <2>6 DEF Serving, Up
  <2>8. StillNeeded /\ Sound'
    BY <1>1, <2>1 DEF StillNeeded, thread, Careful, Sound
  <2> QED  BY <2>0, <2>2, <2>7, <2>8 DEF Goes, Turn, Proceeds
<1>10. CASE fn = "forceClose" /\ Serving(c)
  <2>1. HandleClose(c, FALSE)
    BY <1>5, <1>10 DEF RunFunctor, Serving
  <2>2. UNCHANGED <<peer, got, phase, quit>> /\ \A j \in out : j = Job("forceClose", c)
    BY <1>1, <1>3, <1>10 DEF thread
  <2> QED  BY <1>4, <1>10, <2>1, <2>2, CloseIsSafe DEF Goes
<1>11. CASE fn = "forceClose" /\ ~Serving(c)
  <2>1. ~Up(c) /\ (Closing(c) \/ Over(c))
    BY <1>2, <1>11
  <2>2. UNCHANGED <<client, conns, pending, failed>>
    BY <1>5, <1>11, <2>1 DEF RunFunctor
  <2>3. ASSUME NEW d \in Conns
        PROVE  Apart(d)
    BY <1>1, <2>2 DEF Apart, client, conns
  <2>4. ASSUME NEW d \in Conns \ {c}
        PROVE  Same(d)
    BY <1>1, <1>8, <2>2, <2>3, LeftAlone
  <2>5. ~Queued("new", c)
    BY <2>1 DEF Closing, Over
  <2>6. Said(c)' = Said(c)
    BY <2>2 DEF Said, conns
  <2>7. \A f \in {"new", "release"} : Queued(f, c)' <=> Queued(f, c)
    BY <1>8, <1>11, <2>2 DEF Queued, Job
  <2>8. Once(Work, Job("release", c)) => Once(Work, Job("release", c))'
    BY <1>8, <2>2 DEF Once, Job
  <2>9. Closing(c) => Closing(c)'
    BY <1>1, <2>2, <2>6, <2>7, <2>8 DEF Closing, client, conns
  <2>10. Over(c) => Over(c)'
    BY <1>1, <2>2, <2>6, <2>7 DEF Over, client, conns
  <2>11. Lent(c)' => Lent(c)
    BY <1>1, <1>8, <2>2 DEF Lent, Queued, Job
  <2>12. Loosens(c)
    <3>1. ~Fresh(c) /\ ~Called(c) /\ ~Serving(c)
      BY <2>1, StagesApart DEF Busy
    <3> QED  BY <2>9, <2>10, <2>11, <3>1 DEF Loosens, Stays
  <2>13. StillNeeded /\ Sound'
    BY <1>1, <2>2 DEF StillNeeded, thread, client, Careful, Sound
  <2> QED  BY <2>4, <2>12, <2>13 DEF Goes, Turn, Proceeds
<1>12. CASE fn = "release"
  <2>0. Closing(c)
    BY <1>2, <1>12
  <2>1. kept' = kept \ {c} /\ UNCHANGED <<client, state, added, ups, downs, pending, failed>>
    BY <1>5, <1>12 DEF RunFunctor
  <2>2. ASSUME NEW d \in Conns \ {c}
        PROVE  Same(d)
    <3>1. Apart(d)
      BY <1>1, <2>1 DEF Apart, client
    <3> QED  BY <1>1, <1>8, <2>1, <3>1, LeftAlone
  <2>3. Said(c)' = Said(c) /\ Once(Work, Job("release", c)) /\ ~Queued("new", c)
    BY <2>0, <2>1 DEF Said, Closing
  <2>4. ~Queued("new", c)' /\ ~Queued("release", c)'
    BY <1>8, <1>12, <2>1, <2>3 DEF Queued, Job
  <2>5. Over(c)'
    BY <1>1, <2>0, <2>1, <2>3, <2>4 DEF Closing, Over, client
  <2>6. StillNeeded /\ Sound'
    BY <1>1, <2>1 DEF StillNeeded, thread, client, Careful, Sound
  <2> QED  BY <2>0, <2>2, <2>5, <2>6 DEF Goes, Turn, Proceeds
<1> QED  BY <1>9, <1>10, <1>11, <1>12

(* connect(): there is no other connection, since a careful user has seen   *)
(* the end of each and dropped its pointers.                                *)
LEMMA FinishedIsIdle ==
  ASSUME Careful, Finished
  PROVE  \A c \in Conns : ~Busy(c) /\ connection # c
<1> SUFFICES ASSUME NEW c \in Conns
             PROVE  Fresh(c) \/ Over(c)
  BY StagesApart DEF Fresh, Over
<1>1. CASE peer[c] = "absent"
  BY <1>1 DEF Careful, InStage, Called, Serving, Closing, Over
<1>2. CASE downs[c] = 1 /\ c \notin kept
  BY <1>2 DEF Careful, InStage, Said, Called, Serving, Closing
<1> QED  BY <1>1, <1>2 DEF Finished, Unused

LEMMA ConnectGoes ==
  ASSUME Types, Careful, careful, NEW c \in Conns, Connect(c)
  PROVE  Goes /\ StillNeeded /\ Sound'
<1>1. /\ owner = "ready" /\ alive /\ peer[c] = "absent" /\ Finished
      /\ peer' = [peer EXCEPT ![c] = "open"]
      /\ pending' = pending \o Task("new", c)
      /\ UNCHANGED <<thread, client, conns, active, batch, got, failed>>
  BY DEF Connect, Unused
<1>2. Fresh(c)
  BY <1>1 DEF Careful, InStage, Called, Serving, Closing, Over
<1>3. PICK in, out : in = {Job("new", c)} /\ out = {}
  OBVIOUS
<1>4. Taken(out)
  BY <1>1, <1>3 DEF Taken
<1>5. Put(in)
  BY <1>1, <1>3 DEF Put
<1>6. \A j \in in \union out : j.conn = c
  BY <1>3 DEF Job
<1>7. \A d \in Conns \ {c} : SameJobs(d)
  BY <1>4, <1>5, <1>6, OtherJobs
<1>8. /\ \A j \in Jobs' : j \in Jobs \/ j \in in
      /\ in \subseteq Jobs'
  BY <1>4, <1>5, WorkStep
<1>9. \A x : Once(Work, x) /\ (x \in in => x \notin Jobs) => Once(Work, x)'
  BY <1>4, <1>5, WorkStep
<1>10. ~Queued("new", c) /\ ~Queued("forceClose", c) /\ ~Queued("release", c)
  BY <1>2 DEF Fresh
<1>11. Queued("new", c)' /\ ~Queued("forceClose", c)' /\ ~Queued("release", c)'
  BY <1>3, <1>8, <1>10 DEF Queued, Job
<1>12. Once(Work, Job("new", c))'
  <2>1. \A i, j \in DOMAIN Work : Work[i] = Job("new", c) /\ Work[j] = Job("new", c) => i = j
    BY <1>10 DEF Queued, Jobs, Range
  <2>2. Once(Work, Job("new", c))
    BY <2>1 DEF Once
  <2>3. \A x : x = Job("new", c) => Once(Work, x)'
    BY <1>9, <1>10, <2>2 DEF Queued
  <2>4. \A x : x = Job("new", c) => Once(Work', x)
    BY <2>3 DEF Once
  <2>5. Once(Work', Job("new", c))
    BY <2>4
  <2> QED  BY <2>5 DEF Once, Job
<1>13. Said(c)' = Said(c)
  BY <1>1 DEF Said, conns
<1>14. peer'[c] # "absent"
  BY <1>1 DEF Types, PeerOK
<1>15. Called(c)'
  BY <1>1, <1>2, <1>11, <1>12, <1>13, <1>14 DEF Fresh, Called, client, conns
<1>16. ASSUME NEW d \in Conns \ {c}
       PROVE  Same(d)
  <2>1. Apart(d)
    BY <1>1 DEF Apart, client, conns, Types, PeerOK
  <2> QED  BY <1>1, <1>7, <2>1, LeftAlone
<1>17. StillNeeded /\ alive'
  BY <1>1 DEF StillNeeded, client
<1>18. Sound'
  <2>1. phase # "handle" => \A i \in DOMAIN pending' : pending'[i].fn # "forceClose"
    BY <1>1, QueueKeepsSound DEF Careful, Sound
  <2> QED  BY <1>1, <2>1 DEF Careful, Sound, thread, client
<1>19. \A d \in Conns : ~Busy(d)
  BY <1>1, FinishedIsIdle
<1> QED  BY <1>2, <1>15, <1>16, <1>17, <1>18, <1>19 DEF Goes, Turn, Proceeds

(* connection() returns the pointer to the connection that is up.           *)
LEMMA ReturnGoes ==
  ASSUME Types, Careful, ReturnConnection
  PROVE  Goes /\ StillNeeded /\ Sound'
<1>1. /\ connection # None /\ got' = connection
      /\ UNCHANGED <<phase, quit, client, conns, peer, loop, failed>>
  BY DEF ReturnConnection
<1>2. PICK c \in Conns : c = connection /\ Serving(c)
  <2>1. PICK c \in Conns : c = connection
    BY <1>1 DEF Types, ClientOK
  <2> QED  BY <2>1 DEF Careful, InStage, Fresh, Called, Closing, Over
<1>3. \A d \in Conns : Apart(d) /\ SameJobs(d)
  BY <1>1 DEF Apart, SameJobs, Queued, Jobs, Once, Work, Job, client, conns, loop
<1>4. ASSUME NEW d \in Conns
      PROVE  Loosens(d) /\ (got # d => Same(d))
  <2>1. got' = d => Serving(d)
    BY <1>1, <1>2
  <2> QED  BY <1>3, <2>1, LeftAlone
<1>5. StillNeeded /\ Sound'
  BY <1>1 DEF StillNeeded, client, loop, Careful, Sound
<1>6. CASE got \in Conns
  BY <1>4, <1>5, <1>6 DEF Goes, Turn, Proceeds
<1>7. CASE got \notin Conns
  BY <1>4, <1>5, <1>7 DEF Goes
<1> QED  BY <1>6, <1>7

(* The owner drops its pointer.                                             *)
LEMMA DropGoes ==
  ASSUME Types, Careful, DropPointer
  PROVE  Goes /\ StillNeeded /\ Sound'
<1>1. /\ got # None /\ got' = None
      /\ UNCHANGED <<thread, client, conns, peer, loop, failed>>
  BY DEF DropPointer
<1>2. \A d \in Conns : Apart(d) /\ SameJobs(d)
  BY <1>1 DEF Apart, SameJobs, Queued, Jobs, Once, Work, Job, client, conns, loop
<1>3. ASSUME NEW d \in Conns
      PROVE  Loosens(d) /\ (got # d => Same(d))
  <2>1. got' # d
    BY <1>1, ClientAssumption DEF None
  <2> QED  BY <1>2, <2>1, LeftAlone
<1>4. got \in Conns
  BY <1>1 DEF Types, PeerOK
<1> QED  BY <1>1, <1>3, <1>4 DEF Goes, Turn, Proceeds, StillNeeded, thread, client, loop, Careful, Sound

(* When the loop ends, nothing is queued: the client was destroyed before,  *)
(* when its last connection was over and its user had dropped the pointer.  *)
LEMMA NothingLeft ==
  ASSUME Types, Careful, quit, phase = "test"
  PROVE  pending = <<>>
<1> SUFFICES ASSUME pending # <<>>
             PROVE  FALSE
  OBVIOUS
<1>1. pending \in Seq(Functor) /\ batch = <<>> /\ Work = pending
  BY DEF Types, PendingOK, LoopOK, Work
<1>2. Head(pending) \in Functor /\ Head(pending) = pending[1] /\ 1 \in DOMAIN pending
  BY <1>1, HeadTailProperties, LenProperties, EmptySeq
<1>3. Head(pending) \in Jobs
  BY <1>1, TailJobs DEF Jobs
<1>4. pending[1].fn # "forceClose"
  BY <1>2 DEF Careful, Sound
<1>5. PICK fn \in {"new", "forceClose", "release"}, c \in Conns : Head(pending) = Job(fn, c)
  BY <1>2 DEF Functor, Job
<1>6. fn \in {"new", "release"} /\ Queued(fn, c)
  BY <1>2, <1>3, <1>4, <1>5 DEF Job, Queued
<1>7. Called(c) \/ Closing(c)
  BY <1>6 DEF Careful, InStage, Fresh, Serving, Over
<1> QED  BY <1>7 DEF Careful, OneAtATime, Busy, Sound

(* Every step of a careful user's client is a turn of one connection, or of *)
(* none, and ends the process only when connect() fails.                    *)
LEMMA StepGoes ==
  ASSUME Types, Careful, careful, Next
  PROVE  Goes /\ StillNeeded /\ Sound'
<1>1. CASE ThreadStep \/ Construct
  <2>1. UNCHANGED <<client, conns, peer, loop, got, failed>>
    BY <1>1 DEF ThreadStep, Construct
  <2>2. phase' # "handle" => phase # "handle"
    BY <1>1 DEF ThreadStep, Construct, Publish, EnterLoop, BeginConstructor, EndConstructor,
       StartLoop, Join, Calls, Types, LoopOK
  <2>3. quit' => quit
    BY <1>1 DEF ThreadStep, Construct, Publish, EnterLoop, BeginConstructor, EndConstructor,
       StartLoop, Join
  <2>4. Sound' /\ StillNeeded
    BY <2>1, <2>2, <2>3 DEF Sound, StillNeeded, Careful, client, loop
  <2>5. Work' = Work /\ UNCHANGED <<connection, conns, got>>
    BY <2>1 DEF Work, client, loop
  <2> QED  BY <2>1, <2>4, <2>5, Elsewhere
<1>2. CASE Poll
  <2>1. Work' = Work /\ UNCHANGED <<connection, conns, peer, got>>
    BY <1>2 DEF Poll, Work, client
  <2>2. Sound' /\ StillNeeded
    BY <1>2 DEF Poll, Moves, Sound, StillNeeded, Careful, client
  <2> QED  BY <2>1, <2>2, Elsewhere
<1>3. CASE TakeFunctors
  <2>1. UNCHANGED <<connection, conns, peer, got>>
    BY <1>3 DEF TakeFunctors, client
  <2>2. pending \in Seq(Functor) /\ batch = <<>> /\ batch' = pending /\ pending' = <<>>
    BY <1>3 DEF TakeFunctors, Moves, Types, PendingOK, LoopOK
  <2>3. pending \o <<>> = pending /\ <<>> \o pending = pending
    BY <2>2
  <2>4. Work' = Work
    BY <2>2, <2>3 DEF Work
  <2>5. Sound' /\ StillNeeded
    <3>1. DOMAIN pending' = {}
      BY <2>2
    <3> QED  BY <1>3, <3>1 DEF TakeFunctors, Moves, Sound, StillNeeded, Careful, client
  <2> QED  BY <2>1, <2>4, <2>5, Elsewhere
<1>4. CASE EndIteration
  <2>1. Work' = Work /\ UNCHANGED <<connection, conns, peer, got>>
    BY <1>4 DEF EndIteration, Work, client, loop
  <2>2. Sound' /\ StillNeeded
    BY <1>4 DEF EndIteration, Moves, Sound, StillNeeded, Careful, client, loop
  <2> QED  BY <2>1, <2>2, Elsewhere
<1>5. ASSUME NEW leave \in BOOLEAN, LeaveOrPoll(leave)
      PROVE  Goes /\ StillNeeded /\ Sound'
  <2>1. /\ phase = "test" /\ leave = quit /\ pending' = IF leave THEN <<>> ELSE pending
        /\ UNCHANGED <<quit, client, conns, peer, active, batch, got, failed>>
    BY <1>5 DEF LeaveOrPoll, Test
  <2>2. pending' = pending
    BY <2>1, NothingLeft
  <2>3. Work' = Work
    BY <2>1, <2>2 DEF Work
  <2>4. Sound' /\ StillNeeded
    BY <2>1, <2>2 DEF Sound, StillNeeded, Careful, client
  <2> QED  BY <2>1, <2>3, <2>4, Elsewhere DEF client
<1>6. CASE ConnectFails \/ CallConnection
  <2>1. Work' = Work /\ UNCHANGED <<phase, quit, client, conns, peer, loop, got>>
    BY <1>6 DEF ConnectFails, CallConnection, Work, thread, loop
  <2>2. failed' = failed \/ failed' = "connect"
    BY <1>6 DEF ConnectFails, CallConnection
  <2>3. Sound' /\ StillNeeded
    BY <2>1, <2>2 DEF Sound, StillNeeded, Careful, client, loop
  <2> QED  BY <2>1, <2>3, Elsewhere DEF client
<1>7. CASE StopLoop
  <2>1. Work' = Work /\ ~alive /\ UNCHANGED <<phase, client, conns, peer, loop, got, failed>>
    BY <1>7 DEF StopLoop, Destructor, Work, loop
  <2>2. Sound' /\ StillNeeded
    BY <2>1 DEF Sound, StillNeeded, Careful, client, loop
  <2> QED  BY <2>1, <2>2, Elsewhere DEF client
<1>8. CASE DestroyClient
  <2>1. Finished
    BY <1>8 DEF DestroyClient
  <2>2. connection = None
    BY <2>1, FinishedIsIdle DEF Types, ClientOK
  <2>3. /\ alive' = FALSE
        /\ UNCHANGED <<thread, connection, conns, peer, loop, got, failed>>
    BY <1>8, <2>2 DEF DestroyClient, conns, loop
  <2>4. Work' = Work
    BY <2>3 DEF Work, loop
  <2>5. Sound' /\ StillNeeded
    BY <2>1, <2>3, FinishedIsIdle DEF Sound, StillNeeded, Careful, thread, loop
  <2> QED  BY <2>3, <2>4, <2>5, Elsewhere
<1>9. ASSUME NEW c \in Conns, PeerActs(c)
      PROVE  Goes /\ StillNeeded /\ Sound'
  <2>1. UNCHANGED <<thread, client, conns, loop, got, failed>>
    BY <1>9 DEF PeerActs
  <2>2. \A d \in Conns : peer'[d] = "absent" <=> peer[d] = "absent"
    BY <1>9 DEF PeerActs, Types, PeerOK
  <2>3. Work' = Work
    BY <2>1 DEF Work, loop
  <2>4. Sound' /\ StillNeeded
    BY <2>1 DEF Sound, StillNeeded, Careful, thread, client, loop
  <2> QED  BY <2>1, <2>2, <2>3, <2>4, Elsewhere DEF client
<1> QED  BY <1>1, <1>2, <1>3, <1>4, <1>5, <1>6, <1>7, <1>8, <1>9, HandleGoes, FunctorGoes,
            ConnectGoes, ReturnGoes, DropGoes DEF Next, LoopStep

CarefulUse == careful => Careful

(* Whether the user is careful does not change.                             *)
LEMMA CarefulStays ==
  ASSUME Types, [Next]_vars
  PROVE  careful' = careful
<1>1. CASE UNCHANGED vars
  BY <1>1 DEF vars, client
<1>2. CASE LoopStep
  <2>1. ASSUME NEW c, NEW event, HandleClose(c, event) \/ NewConnection(c)
        PROVE  careful' = careful
    BY <2>1 DEF HandleClose, NewConnection, Dies, client
  <2>2. CASE RunFunctor
    <3>1. Head(batch).fn \in {"new", "forceClose", "release"}
      <4>1. Head(batch) \in Functor
        BY <2>2, HeadTailProperties DEF RunFunctor, Types, LoopOK
      <4> QED  BY <4>1 DEF Functor
    <3> QED  BY <2>1, <2>2, <3>1 DEF RunFunctor, client
  <2>3. ASSUME NEW c \in Conns, Handle(c)
        PROVE  careful' = careful
    BY <2>1, <2>3 DEF Handle, HandleMessage, client
  <2> QED  BY <1>2, <2>2, <2>3 DEF LoopStep, ThreadStep, Poll, TakeFunctors, EndIteration, LeaveOrPoll,
           client
<1>3. CASE Next /\ ~LoopStep
  BY <1>3 DEF Next, Construct, ReturnConnection, ConnectFails, CallConnection, DropPointer, DestroyClient,
     StopLoop, Connect, PeerActs, client
<1> QED  BY <1>1, <1>2, <1>3

(* The inductive invariant of a careful user's client.                      *)
LEMMA CarefulInvariant ==
  /\ Init => CarefulUse
  /\ Types /\ CarefulUse /\ [Next]_vars => CarefulUse'
<1>1. ASSUME Init
      PROVE  Careful
  <2>1. Jobs = {}
    BY <1>1 DEF Init, Jobs, Work, Range
  <2>2. InStage
    BY <1>1, <2>1, ClientAssumption DEF Init, InStage, Fresh, Said, Queued, None
  <2>3. \A c \in Conns : ~Busy(c)
    BY <1>1 DEF Init, Busy, Called, Serving, Closing
  <2> QED  BY <1>1, <2>2, <2>3 DEF Init, ThreadInit, Careful, OneAtATime, Sound
<1>2. ASSUME Types, CarefulUse, [Next]_vars
      PROVE  CarefulUse'
  <2>1. careful' = careful
    BY <1>2, CarefulStays
  <2>2. CASE ~careful
    BY <2>1, <2>2 DEF CarefulUse
  <2>3. CASE careful /\ Next
    <3>1. Careful
      BY <1>2, <2>3 DEF CarefulUse
    <3>2. Goes /\ StillNeeded /\ Sound'
      BY <1>2, <2>3, <3>1, StepGoes
    <3> QED  BY <3>1, <3>2, GoesOn DEF CarefulUse
  <2>4. CASE careful /\ UNCHANGED vars
    <3>1. Careful
      BY <1>2, <2>4 DEF CarefulUse
    <3>2. /\ Work' = Work
          /\ UNCHANGED <<connection, conns, got>>
          /\ UNCHANGED peer
          /\ StillNeeded /\ Sound'
      BY <2>4, <3>1 DEF vars, thread, client, conns, loop, Work, StillNeeded, Careful, Sound
    <3> QED  BY <3>1, <3>2, Elsewhere, GoesOn DEF CarefulUse
  <2> QED  BY <1>2, <2>2, <2>3, <2>4
<1> QED  BY <1>1, <1>2 DEF CarefulUse

(* In every state of every run.                                             *)
LEMMA AlwaysCareful == Spec => []Types /\ []CarefulUse
BY TypesInvariant, CarefulInvariant, PTL DEF Spec

(* What TcpClient asks of its user is enough, for any number of connections *)
(* made one after the other: the assertions of handelClose and of ~Channel  *)
(* hold, and no functor or callback finds the client destroyed.             *)
THEOREM CarefulUserIsSafe == Spec => []CarefulIsSafe
<1>1. CarefulUse => CarefulIsSafe
  BY DEF CarefulUse, Careful, Sound, CarefulIsSafe
<1> QED  BY <1>1, AlwaysCareful, PTL

-----------------------------------------------------------------------------
(* The life of a connection.                                                *)

(* The connections that functors have a pointer to.                         *)
LEMMA BoundJoined ==
  ASSUME NEW s \in Seq(Functor), NEW t \in Seq(Functor), NEW c
  PROVE  c \in Bound(s) \union Bound(t)
           <=> Job("forceClose", c) \in Range(s \o t) \/ Job("release", c) \in Range(s \o t)
<1>1. ASSUME NEW q \in Seq(Functor)
      PROVE  c \in Bound(q) <=> Job("forceClose", c) \in Range(q) \/ Job("release", c) \in Range(q)
  <2>1. ASSUME NEW i \in DOMAIN q
        PROVE  q[i].fn # "new" /\ q[i].conn = c <=> q[i] \in {Job("forceClose", c), Job("release", c)}
    <3>1. q[i] \in Functor
      BY <2>1, ElementOfSeq, LenProperties
    <3> QED  BY <3>1 DEF Functor, Job
  <2> QED  BY <2>1 DEF Bound, Range
<1>2. Range(s \o t) = Range(s) \union Range(t)
  <2> DEFINE m == Len(s)
             n == Len(t)
             u == s \o t
  <2>1. /\ m \in Nat /\ n \in Nat /\ DOMAIN s = 1..m /\ DOMAIN t = 1..n /\ DOMAIN u = 1..(m + n)
        /\ \A i \in 1..(m + n) : u[i] = IF i <= m THEN s[i] ELSE t[i - m]
    BY ConcatProperties, LenProperties
  <2> HIDE DEF m, n, u
  <2>2. ASSUME NEW i \in 1..(m + n)
        PROVE  u[i] \in Range(s) \union Range(t)
    <3>1. CASE i <= m
      <4>1. i \in 1..m /\ u[i] = s[i]
        BY <2>1, <3>1
      <4> QED  BY <2>1, <4>1 DEF Range
    <3>2. CASE ~(i <= m)
      <4>1. i - m \in 1..n /\ u[i] = t[i - m]
        BY <2>1, <3>2
      <4> QED  BY <2>1, <4>1 DEF Range
    <3> QED  BY <3>1, <3>2
  <2>3. ASSUME NEW i \in 1..m
        PROVE  s[i] \in Range(u)
    BY <2>1 DEF Range
  <2>4. ASSUME NEW i \in 1..n
        PROVE  t[i] \in Range(u)
    <3>1. i + m \in 1..(m + n) /\ ~(i + m <= m) /\ (i + m) - m = i
      BY <2>1
    <3> QED  BY <2>1, <3>1 DEF Range
  <2>5. Range(s) = {s[i] : i \in 1..m} /\ Range(t) = {t[i] : i \in 1..n} /\ Range(u) = {u[i] : i \in 1..(m + n)}
    BY <2>1 DEF Range
  <2> QED  BY <2>2, <2>3, <2>4, <2>5 DEF u
<1> QED  BY <1>1, <1>2

\* What the user has been told, when the client is a careful user's.
LifeInStage(c) ==
  /\ Fresh(c) \/ Called(c) => LifeOf(c) = "new"
  /\ Serving(c) => LifeOf(c) = "up"
  /\ Closing(c) => LifeOf(c) = "down"
  /\ Over(c) => LifeOf(c) = IF Lent(c) THEN "down" ELSE "gone"

(* The life of a connection in each of its stages.                          *)
LEMMA StagesOfLife == Types /\ careful => \A c \in Conns : LifeInStage(c)
<1> SUFFICES ASSUME Types, careful, NEW c \in Conns
             PROVE  LifeInStage(c)
  OBVIOUS
<1>1. Referenced(c) <=> c \in kept \/ Lent(c) \/ (alive /\ connection = c)
  <2>1. c \in Bound(pending) \union Bound(batch)
          <=> Queued("forceClose", c) \/ Queued("release", c)
    <3>1. batch \in Seq(Functor) /\ pending \in Seq(Functor)
      BY DEF Types, LoopOK, PendingOK
    <3>2. c \in Bound(batch) \union Bound(pending)
            <=> Job("forceClose", c) \in Range(Work) \/ Job("release", c) \in Range(Work)
      BY <3>1, BoundJoined DEF Work
    <3> QED  BY <3>2 DEF Queued, Jobs
  <2> QED  BY <2>1 DEF Referenced, Lent
<1>2. Fresh(c) \/ Called(c) => ~Destroyed(c) /\ ups[c] = 0 /\ downs[c] = 0
  BY DEF Fresh, Called, Said, Destroyed
<1>3. Serving(c) => ~Destroyed(c) /\ ups[c] = 1 /\ downs[c] = 0
  BY <1>1 DEF Serving, Said, Destroyed
<1>4. Closing(c) => ~Destroyed(c) /\ ups[c] = 1 /\ downs[c] = 1
  BY <1>1 DEF Closing, Said, Destroyed
<1>5. Over(c) => (Destroyed(c) <=> ~Lent(c)) /\ ups[c] = 1 /\ downs[c] = 1
  BY <1>1 DEF Over, Said, Destroyed, None
<1> QED  BY <1>2, <1>3, <1>4, <1>5 DEF LifeInStage, LifeOf

\* At most the life of c goes on, and by one step.
Ages(c) == \/ LifeOf(c)' = LifeOf(c)
           \/ LifeOf(c) = "new" /\ LifeOf(c)' = "up"
           \/ LifeOf(c) = "up" /\ LifeOf(c)' = "down"
           \/ LifeOf(c) = "down" /\ LifeOf(c)' = "gone"

(* A turn of a connection is a step of its life, or none.                   *)
LEMMA TurnOfLife ==
  ASSUME Careful, NEW c \in Conns, LifeInStage(c), LifeInStage(c)'
  PROVE  /\ Same(c) => LifeOf(c)' = LifeOf(c)
         /\ Proceeds(c) => Ages(c)
<1>1. Fresh(c) \/ Called(c) \/ Serving(c) \/ Closing(c) \/ Over(c)
  BY DEF Careful, InStage
<1>2. Same(c) => LifeOf(c)' = LifeOf(c)
  BY <1>1 DEF Same, Loosens, Stays, LifeInStage
<1>3. Loosens(c) => Ages(c)
  BY <1>1 DEF Loosens, Stays, LifeInStage, Ages
<1>4. Proceeds(c) => Ages(c)
  BY <1>3 DEF Proceeds, LifeInStage, Ages
<1> QED  BY <1>2, <1>4

(* Lives of which at most one goes on are a step of ConnectionLife.         *)
LEMMA LifeSteps ==
  ASSUME \/ \A d \in Conns : LifeOf(d)' = LifeOf(d)
         \/ \E c \in Conns : Ages(c) /\ \A d \in Conns \ {c} : LifeOf(d)' = LifeOf(d)
  PROVE  [Life!Next]_[c \in Conns |-> LifeOf(c)]
<1> DEFINE old == [d \in Conns |-> LifeOf(d)]
<1>1. ASSUME \A d \in Conns : LifeOf(d)' = LifeOf(d)
      PROVE  old' = old
  BY <1>1
<1>2. ASSUME NEW c \in Conns, Ages(c), \A d \in Conns \ {c} : LifeOf(d)' = LifeOf(d)
      PROVE  old' = old \/ Life!Next
  <2>1. CASE LifeOf(c)' = LifeOf(c)
    BY <1>2, <2>1
  <2>2. ASSUME NEW from, NEW to, LifeOf(c) = from, LifeOf(c)' = to
        PROVE  Life!Step(c, from, to)
    <3>1. old' = [old EXCEPT ![c] = to] /\ old[c] = from
      BY <1>2, <2>2
    <3> QED  BY <3>1 DEF Life!Step
  <2>3. CASE LifeOf(c) = "new" /\ LifeOf(c)' = "up"
    BY <2>2, <2>3 DEF Life!Next, Life!Up
  <2>4. CASE LifeOf(c) = "up" /\ LifeOf(c)' = "down"
    BY <2>2, <2>4 DEF Life!Next, Life!Down
  <2>5. CASE LifeOf(c) = "down" /\ LifeOf(c)' = "gone"
    BY <2>2, <2>5 DEF Life!Next, Life!Gone
  <2> QED  BY <1>2, <2>1, <2>3, <2>4, <2>5 DEF Ages
<1> QED  BY <1>1, <1>2

(* A careful user is told of every connection once that it is up and once   *)
(* that it is down; the connection is not destroyed before the second, and  *)
(* once it is destroyed nobody gets a pointer to it again.                  *)
THEOREM ClientTellsOnce == Spec => ImplementsConnectionLife
<1>1. Init => Life!Init
  <2>1. ASSUME Init, NEW c \in Conns
        PROVE  LifeOf(c) = "new"
    BY <2>1 DEF Init, LifeOf, Destroyed, None
  <2> QED  BY <2>1 DEF Life!Init
<1>2. ASSUME Types, Types', CarefulUse, [Next]_vars,
             careful => \A c \in Conns : LifeInStage(c),
             careful' => (\A c \in Conns : LifeInStage(c))'
      PROVE  [Life!Next]_[c \in Conns |-> LifeOf(c)]
  <2>1. careful' = careful
    BY <1>2, CarefulStays
  <2>2. CASE ~careful
    <3>1. \A d \in Conns : LifeOf(d) = "new" /\ LifeOf(d)' = "new"
      BY <2>1, <2>2 DEF LifeOf
    <3> QED  BY <3>1, LifeSteps
  <2>3. CASE careful
    <3>1. Careful /\ \A c \in Conns : LifeInStage(c) /\ LifeInStage(c)'
      BY <1>2, <2>1, <2>3 DEF CarefulUse
    <3>2. Goes
      <4>1. CASE Next
        BY <1>2, <2>3, <3>1, <4>1, StepGoes
      <4>2. CASE UNCHANGED vars
        <5>1. Work' = Work /\ UNCHANGED <<connection, conns, got>> /\ UNCHANGED peer
          BY <4>2 DEF vars, client, conns, loop, Work
        <5> QED  BY <3>1, <5>1, Elsewhere
      <4> QED  BY <1>2, <4>1, <4>2
    <3>3. CASE \A c \in Conns : Same(c)
      BY <3>1, <3>3, TurnOfLife, LifeSteps
    <3>4. CASE \E c \in Conns : Turn(c)
      <4>1. PICK c \in Conns : Turn(c)
        BY <3>4
      <4>2. Ages(c) /\ \A d \in Conns \ {c} : LifeOf(d)' = LifeOf(d)
        BY <3>1, <4>1, TurnOfLife DEF Turn
      <4> QED  BY <4>2, LifeSteps
    <3> QED  BY <3>2, <3>3, <3>4 DEF Goes
  <2> QED  BY <2>2, <2>3
<1>3. Types /\ careful => \A c \in Conns : LifeInStage(c)
  BY StagesOfLife
<1>4. Types' /\ careful' => (\A c \in Conns : LifeInStage(c))'
  BY StagesOfLife, PTL
<1>5. Types /\ Types' /\ CarefulUse /\ [Next]_vars => [Life!Next]_[c \in Conns |-> LifeOf(c)]
  BY <1>2, <1>3, <1>4
<1> QED  BY <1>1, <1>5, AlwaysCareful, PTL DEF Spec, ImplementsConnectionLife, Life!Spec
=============================================================================
