------------------------------ MODULE OutputPath ------------------------------
(***************************************************************************)
(* The way out of one TcpConnection: send from any thread, sendInloop in    *)
(* the loop thread, the output buffer, the write interest of the Channel    *)
(* and handelWrite when the socket can take more.                           *)
(*                                                                          *)
(* The output buffer is the byte queue that BufferUse shows a Buffer to be. *)
(* The connection ends with connectDestroyed: the object itself is taken to *)
(* exist as long as functors for it are queued.                             *)
(***************************************************************************)
EXTENDS Integers, Sequences, Functions

CONSTANTS Threads,      \* threads other than the loop's own
          Messages,     \* what is sent, each at most once
          Size,         \* [Messages -> length]
          MaxRoom       \* bound: free space of the socket's send buffer

ASSUME OutputAssumption == MaxRoom \in Nat \ {0} /\ Size \in [Messages -> Nat \ {0}]

VARIABLES
  state,        \* _state: "kConnected", "kDisconnected", or "removed" after
                \* connectDestroyed
  events,       \* Channel::_events
  index,        \* Channel::_index
  output,       \* _outputBuffer
  room,         \* free space of the socket's send buffer
  reset,        \* the peer has reset the connection
  wire,         \* the bytes the socket took
  queue,        \* functors other threads queued: messages to send
  sent          \* history: messages given to send or dropped by it

channel == <<events, index>>
socket == <<room, reset, wire>>
vars == <<state, channel, output, socket, queue, sent>>

Init ==
  /\ state = "kConnected"
  /\ events = {"read"} /\ index = "KAdded"
  /\ output = <<>>
  /\ room = MaxRoom /\ reset = FALSE /\ wire = <<>>
  /\ queue = <<>> /\ sent = {}

Bytes(m) == [i \in 1..Size[m] |-> <<m, i>>]

-----------------------------------------------------------------------------
(* The channel. isWriting compares the whole mask.                          *)

IsWriting == events = {"write"}

Update(ev) == /\ events' = ev
              /\ index' = IF index = "KAdded" /\ ev = {} THEN "KDeleted" ELSE "KAdded"

MutOnlyWriting == Update({"write"})     \* _events = KWriteEvent

EnableWriting == Update(events \union {"write"})

\* write(2) of bs: as much as fits, at least one byte, or an error.
CanWrite == room > 0 /\ ~reset

Write(bs, n) == /\ n \in 1..Len(bs) /\ n <= room
                /\ wire' = wire \o SubSeq(bs, 1, n)
                /\ room' = room - n

-----------------------------------------------------------------------------
(* sendInloop: write at once if nothing is waiting, keep what is left. A    *)
(* message whose write fails, also for want of room, is dropped.            *)

MutDirect == ~IsWriting                 \* does not look at the output buffer

Direct == ~IsWriting /\ output = <<>>

SendDirect(m) ==
  /\ Direct /\ CanWrite
  /\ \E n \in 1..Size[m] :
       /\ Write(Bytes(m), n)
       /\ output' = output \o SubSeq(Bytes(m), n + 1, Size[m])
       /\ IF n < Size[m] THEN EnableWriting ELSE UNCHANGED channel
  /\ UNCHANGED reset

SendFails(m) ==
  /\ Direct /\ ~CanWrite
  /\ UNCHANGED <<output, channel, socket>>

SendBuffered(m) ==
  /\ ~Direct
  /\ output' = output \o Bytes(m)
  /\ IF IsWriting THEN UNCHANGED channel ELSE EnableWriting
  /\ UNCHANGED socket

SendInLoop(m) == SendDirect(m) \/ SendFails(m) \/ SendBuffered(m)

\* send called by the loop thread, as the server's handlers do. Nothing here
\* looks at _state: whoever keeps a pointer may send after the end.
Send(m) ==
  /\ m \notin sent
  /\ SendInLoop(m)
  /\ sent' = sent \union {m}
  /\ UNCHANGED <<state, queue>>

\* send called by another thread copies the message into a functor.
Post(p, m) ==
  /\ m \notin sent
  /\ queue' = Append(queue, m)
  /\ sent' = sent \union {m}
  /\ UNCHANGED <<state, channel, output, socket>>

RunPosted ==
  /\ queue # <<>>
  /\ SendInLoop(Head(queue))
  /\ queue' = Tail(queue)
  /\ UNCHANGED <<state, sent>>

-----------------------------------------------------------------------------
(* handelWrite: the channel is registered for writing and the socket can    *)
(* take more.                                                               *)

Writable == index = "KAdded" /\ "write" \in events /\ (room > 0 \/ reset)

\* Logs "is shutdown write" and returns.
HandleWriteRefused == Writable /\ ~IsWriting /\ UNCHANGED vars

HandleWriteFails == Writable /\ IsWriting /\ (reset \/ output = <<>>) /\ UNCHANGED vars

MutHandleWrite ==                       \* does not retrieve what it wrote
  /\ Writable /\ IsWriting /\ ~reset
  /\ \E n \in 1..Len(output) : Write(output, n)
  /\ UNCHANGED <<state, channel, output, reset, queue, sent>>

HandleWrite ==
  /\ Writable /\ IsWriting /\ ~reset
  /\ \E n \in 1..Len(output) :
       /\ Write(output, n)
       /\ output' = SubSeq(output, n + 1, Len(output))
       /\ IF n = Len(output) THEN Update(events \ {"write"}) ELSE UNCHANGED channel
  /\ UNCHANGED <<state, reset, queue, sent>>

-----------------------------------------------------------------------------
(* The end of the connection, and the peer.                                 *)

HandleClose ==
  /\ state = "kConnected"
  /\ state' = "kDisconnected" /\ Update({})
  /\ UNCHANGED <<output, socket, queue, sent>>

ConnectDestroyed ==
  /\ state = "kDisconnected"
  /\ state' = "removed" /\ index' = "KNew"
  /\ UNCHANGED <<events, output, socket, queue, sent>>

PeerReads ==
  /\ room < MaxRoom /\ ~reset
  /\ \E n \in 1..(MaxRoom - room) : room' = room + n
  /\ UNCHANGED <<state, channel, output, reset, wire, queue, sent>>

PeerResets ==
  /\ ~reset /\ reset' = TRUE
  /\ UNCHANGED <<state, channel, output, room, wire, queue, sent>>

-----------------------------------------------------------------------------
OnWritable == HandleWriteRefused \/ HandleWriteFails \/ HandleWrite

LoopStep == RunPosted \/ OnWritable \/ HandleClose \/ ConnectDestroyed

Next == \/ LoopStep \/ PeerReads \/ PeerResets
        \/ \E m \in Messages : Send(m) \/ \E p \in Threads : Post(p, m)

Spec == Init /\ [][Next]_vars

\* The loop runs its functors and handles a writable socket; the peer goes on
\* reading.  Nobody has to close the connection.
FairSpec == Spec /\ WF_vars(RunPosted) /\ WF_vars(OnWritable) /\ WF_vars(PeerReads)

-----------------------------------------------------------------------------
(* Direct writes, buffered messages and the flushing of the buffer, with    *)
(* partial writes and sends of several threads, make one stream of whole    *)
(* messages: no byte is lost inside one, doubled or overtaken.              *)
Stream == INSTANCE ByteStream WITH accepted <- wire \o output, delivered <- Len(wire)
ImplementsByteStream == Stream!Spec

(* While the connection is up, the channel waits for the socket to become   *)
(* writable exactly when output is waiting (otherwise it would never be     *)
(* told, or be told all the time), and goes on reading.                     *)
InterestMatches ==
  state = "kConnected" =>
    /\ index = "KAdded"
    /\ events = IF output = <<>> THEN {"read"} ELSE {"read", "write"}

(* The message of handelWrite when it leaves without writing says that the  *)
(* connection "is shutdown write": as long as it is up and the peer reads,  *)
(* waiting output is written in the end. The code breaks it: isWriting is   *)
(* false of a channel that reads as well, so handelWrite always leaves.     *)
OutputFlushed ==
  (state = "kConnected" /\ output # <<>>) ~> (state # "kConnected" \/ reset \/ output = <<>>)
=============================================================================
