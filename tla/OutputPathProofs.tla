--------------------------- MODULE OutputPathProofs ---------------------------
(***************************************************************************)
(* The way out of a connection, for any threads, messages of any length and *)
(* any room: what it accepts is one stream of whole messages, and the       *)
(* Channel waits for the socket exactly when output is waiting.             *)
(***************************************************************************)
EXTENDS OutputPath, SequenceTheorems, TLAPS

\* The bytes: the i-th of message m is <<m, i>>.
Cell == Messages \X Nat

(* The buffer and the wire hold bytes, the queue messages, and a message    *)
(* that waits in the queue was given to send.                               *)
Types ==
  /\ wire \in Seq(Cell) /\ output \in Seq(Cell)
  /\ room \in Nat
  /\ queue \in Seq(Messages)

(* The inductive invariant: InterestMatches needs nothing but the types.    *)
IInv == Types /\ InterestMatches

-----------------------------------------------------------------------------
(* Cells put together one after the other.                                  *)
LEMMA CellsAssociative ==
  \A r, s, t \in Seq(Cell) : (r \o s) \o t = r \o (s \o t)
BY ConcatAssociative, SMTT(20)

(* A byte string cut in two: its parts are byte strings, and make the whole *)
(* (what write(2) took, and what handelWrite or sendInloop keeps).          *)
LEMMA CutProperties ==
  ASSUME NEW S, NEW s \in Seq(S), NEW n \in 0..Len(s)
  PROVE  /\ SubSeq(s, 1, n) \in Seq(S) /\ Len(SubSeq(s, 1, n)) = n
         /\ SubSeq(s, n + 1, Len(s)) \in Seq(S)
         /\ Len(SubSeq(s, n + 1, Len(s))) = Len(s) - n
         /\ SubSeq(s, 1, n) \o SubSeq(s, n + 1, Len(s)) = s
<1>1. Len(s) \in Nat /\ n \in Nat /\ n <= Len(s) /\ \A i \in 1..Len(s) : s[i] \in S
  BY LenProperties, ElementOfSeq
<1>2. SubSeq(s, 1, n) \in Seq(S) /\ Len(SubSeq(s, 1, n)) = n
  BY <1>1, SubSeqProperties
<1>3. SubSeq(s, n + 1, Len(s)) \in Seq(S) /\ Len(SubSeq(s, n + 1, Len(s))) = Len(s) - n
  BY <1>1, SubSeqProperties
<1>4. SubSeq(s, 1, n) \o SubSeq(s, n + 1, Len(s)) = s
  <2>1. 1 \in 1..(Len(s) + 1) /\ n \in (1 - 1)..Len(s) /\ Len(s) \in n..Len(s)
    BY <1>1
  <2>2. SubSeq(s, 1, n) \o SubSeq(s, n + 1, Len(s)) = SubSeq(s, 1, Len(s))
    BY <2>1, ConcatAdjacentSubSeq
  <2> QED  BY <2>2, SubSeqFull
<1> QED  BY <1>2, <1>3, <1>4

(* The bytes of a message are as many as its length says, at least one.     *)
LEMMA BytesProperties ==
  ASSUME NEW m \in Messages
  PROVE  /\ Size[m] \in Nat \ {0}
         /\ Bytes(m) \in Seq(Cell) /\ Len(Bytes(m)) = Size[m]
<1>1. Size[m] \in Nat \ {0}
  BY OutputAssumption
<1>2. Bytes(m) \in [1..Size[m] -> Cell]
  BY <1>1 DEF Bytes, Cell
<1> QED  BY <1>1, <1>2 DEF Bytes

(* write(2) adds a part of what it is given to the wire.                    *)
LEMMA WriteProperties ==
  ASSUME Types, NEW bs \in Seq(Cell), NEW n, Write(bs, n)
  PROVE  /\ n \in 0..Len(bs) /\ n # 0
         /\ wire' = wire \o SubSeq(bs, 1, n) /\ wire' \in Seq(Cell)
         /\ Len(wire') = Len(wire) + n /\ room' \in Nat
<1>1. Len(bs) \in Nat /\ n \in 0..Len(bs) /\ n # 0 /\ room' \in Nat
  BY LenProperties DEF Write, Types
<1>2. SubSeq(bs, 1, n) \in Seq(Cell) /\ Len(SubSeq(bs, 1, n)) = n
  BY <1>1, CutProperties
<1>3. wire' = wire \o SubSeq(bs, 1, n)
  BY DEF Write
<1> QED  BY <1>1, <1>2, <1>3, ConcatProperties DEF Types

-----------------------------------------------------------------------------
(* What the steps that touch bytes do to the stream: nothing, one more      *)
(* message at its end, or more of it on the wire.                           *)

\* The stream as the abstract specification sees it.
Accepted == wire \o output

StreamStep == [Stream!Next]_<<Accepted, Len(wire)>>

(* A message put behind what was accepted is a step of the stream.          *)
LEMMA MessageStreams ==
  ASSUME NEW m \in Messages, Accepted' = Accepted \o Bytes(m),
         Len(wire') \in Len(wire)..Len(Accepted')
  PROVE  StreamStep
BY DEF StreamStep, Stream!Next, Accepted

(* sendInloop accepts the message whole or not at all.                      *)
LEMMA SendInLoopStep ==
  ASSUME Types, NEW m \in Messages, SendInLoop(m)
  PROVE  /\ wire' \in Seq(Cell) /\ output' \in Seq(Cell) /\ room' \in Nat
         /\ StreamStep
<1>1. Size[m] \in Nat /\ Bytes(m) \in Seq(Cell) /\ Len(Bytes(m)) = Size[m]
  BY BytesProperties
<1>2. Len(wire) \in Nat /\ Len(output) \in Nat
  BY LenProperties DEF Types
<1>3. CASE SendDirect(m)
  <2>1. PICK n : /\ Write(Bytes(m), n) /\ output = <<>>
                 /\ output' = output \o SubSeq(Bytes(m), n + 1, Size[m])
    BY <1>3 DEF SendDirect, Direct
  <2> DEFINE rest == SubSeq(Bytes(m), n + 1, Len(Bytes(m)))
             gone == SubSeq(Bytes(m), 1, n)
  <2>2. /\ n \in 0..Len(Bytes(m))
        /\ wire' = wire \o gone /\ wire' \in Seq(Cell)
        /\ Len(wire') = Len(wire) + n /\ room' \in Nat
    BY <1>1, <2>1, WriteProperties
  <2>3. /\ gone \in Seq(Cell) /\ rest \in Seq(Cell) /\ gone \o rest = Bytes(m)
    BY <1>1, <2>2, CutProperties
  <2>4. output' = rest
    <3>1. output' = <<>> \o rest
      BY <1>1, <2>1
    <3> QED  BY <2>3, <3>1, ConcatEmptySeq
  <2>5. Accepted' = wire \o Bytes(m) /\ Accepted = wire
    <3>1. (wire \o gone) \o rest = wire \o (gone \o rest)
      <4> HIDE DEF gone, rest
      <4>1. wire \in Seq(Cell)
        BY DEF Types
      <4>2. gone \in Seq(Cell) /\ rest \in Seq(Cell)
        BY <2>3
      <4> QED  BY <4>1, <4>2, CellsAssociative, Zenon
    <3>2. wire \o <<>> = wire
      BY ConcatEmptySeq DEF Types
    <3> QED  BY <2>1, <2>2, <2>3, <2>4, <3>1, <3>2 DEF Accepted
  <2>6. Len(Accepted') = Len(wire) + Size[m]
    <3>1. wire \in Seq(Cell) /\ Bytes(m) \in Seq(Cell)
      BY <1>1 DEF Types
    <3>2. Len(wire \o Bytes(m)) = Len(wire) + Len(Bytes(m))
      BY <3>1, ConcatProperties, Zenon
    <3> QED  BY <1>1, <2>5, <3>2
  <2>7. Len(wire') \in Len(wire)..Len(Accepted')
    BY <1>1, <1>2, <2>2, <2>6
  <2>8. StreamStep
    BY <2>5, <2>7, MessageStreams
  <2> QED  BY <2>2, <2>3, <2>4, <2>8
<1>4. CASE SendFails(m)
  BY <1>4 DEF SendFails, socket, StreamStep, Accepted, Types
<1>5. CASE SendBuffered(m)
  <2>1. wire' = wire /\ room' = room /\ output' = output \o Bytes(m)
    BY <1>5 DEF SendBuffered, socket
  <2>2. output' \in Seq(Cell) /\ Len(output') = Len(output) + Size[m]
    BY <1>1, <2>1, ConcatProperties DEF Types
  <2>3. Accepted' = Accepted \o Bytes(m)
    <3>1. wire \in Seq(Cell) /\ output \in Seq(Cell)
      BY DEF Types
    <3>2. (wire \o output) \o Bytes(m) = wire \o (output \o Bytes(m))
      <4>1. Bytes(m) \in Seq(Cell)
        BY <1>1
      <4> QED  BY <3>1, <4>1, CellsAssociative, Zenon
    <3> QED  BY <2>1, <3>2 DEF Accepted
  <2>4. Len(Accepted') = Len(wire) + Len(output')
    BY <2>1, <2>2, ConcatProperties DEF Types, Accepted
  <2>5. Len(wire') \in Len(wire)..Len(Accepted')
    BY <1>1, <1>2, <2>1, <2>2, <2>4
  <2>6. StreamStep
    BY <2>3, <2>5, MessageStreams
  <2> QED  BY <2>1, <2>2, <2>6 DEF Types
<1> QED  BY <1>3, <1>4, <1>5 DEF SendInLoop

(* handelWrite moves bytes from the buffer to the wire and keeps the rest.  *)
LEMMA HandleWriteStep ==
  ASSUME Types, HandleWrite
  PROVE  /\ wire' \in Seq(Cell) /\ output' \in Seq(Cell) /\ room' \in Nat
         /\ StreamStep
<1>1. PICK n : /\ Write(output, n)
               /\ output' = SubSeq(output, n + 1, Len(output))
  BY DEF HandleWrite
<1>2. /\ n \in 0..Len(output)
      /\ wire' = wire \o SubSeq(output, 1, n) /\ wire' \in Seq(Cell)
      /\ Len(wire') = Len(wire) + n /\ room' \in Nat
  BY <1>1, WriteProperties DEF Types
<1>3. /\ SubSeq(output, 1, n) \in Seq(Cell) /\ output' \in Seq(Cell)
      /\ SubSeq(output, 1, n) \o output' = output
  BY <1>1, <1>2, CutProperties DEF Types
<1>4. Accepted' = Accepted
  <2> DEFINE gone == SubSeq(output, 1, n)
  <2>1. wire \in Seq(Cell)
    BY DEF Types
  <2>2. (wire \o gone) \o output' = wire \o (gone \o output')
    <3>1. gone \in Seq(Cell) /\ output' \in Seq(Cell)
      BY <1>3
    <3> HIDE DEF gone
    <3> QED  BY <2>1, <3>1, CellsAssociative, Zenon
  <2> QED  BY <1>2, <1>3, <2>2 DEF Accepted
<1>5. Len(Accepted) = Len(wire) + Len(output)
  BY ConcatProperties DEF Types, Accepted
<1>6. Len(wire') \in Len(wire)..Len(Accepted')
  <2>1. Len(wire) \in Nat /\ Len(output) \in Nat
    BY LenProperties DEF Types
  <2> QED  BY <1>2, <1>4, <1>5, <2>1
<1> QED  BY <1>2, <1>3, <1>4, <1>6 DEF StreamStep, Stream!Next, Accepted

-----------------------------------------------------------------------------
(* The interest of the Channel.                                             *)

(* The first byte that is kept raises the write interest and no send lowers *)
(* it.                                                                      *)
LEMMA SendInLoopInterest ==
  ASSUME IInv, NEW m \in Messages, SendInLoop(m), state' = state
  PROVE  InterestMatches'
<1> SUFFICES ASSUME state = "kConnected"
             PROVE  /\ index' = "KAdded"
                    /\ events' = IF output' = <<>> THEN {"read"} ELSE {"read", "write"}
  BY DEF InterestMatches
<1>1. /\ index = "KAdded"
      /\ events = IF output = <<>> THEN {"read"} ELSE {"read", "write"}
  BY DEF IInv, InterestMatches
<1>2. ~IsWriting
  BY <1>1 DEF IsWriting
<1>3. /\ Size[m] \in Nat \ {0} /\ Bytes(m) \in Seq(Cell) /\ Len(Bytes(m)) = Size[m]
  BY BytesProperties
<1>4. CASE SendDirect(m)
  <2>1. PICK n : /\ Write(Bytes(m), n) /\ output = <<>>
                 /\ output' = output \o SubSeq(Bytes(m), n + 1, Size[m])
                 /\ IF n < Size[m] THEN EnableWriting ELSE UNCHANGED channel
    BY <1>4 DEF SendDirect, Direct
  <2> DEFINE rest == SubSeq(Bytes(m), n + 1, Len(Bytes(m)))
  <2>2. n \in 0..Size[m]
    BY <1>3, <2>1, WriteProperties DEF IInv
  <2>3. rest \in Seq(Cell) /\ Len(rest) = Size[m] - n
    BY <1>3, <2>2, CutProperties
  <2>4. output' = rest
    <3>1. output' = <<>> \o rest
      BY <1>3, <2>1
    <3> QED  BY <2>3, <3>1, ConcatEmptySeq
  <2> HIDE DEF rest
  <2>5. CASE n < Size[m]
    <3>1. output' # <<>>
      BY <1>3, <2>2, <2>3, <2>4, <2>5, EmptySeq
    <3>2. events' = {"read", "write"} /\ index' = "KAdded"
      BY <1>1, <2>1, <2>5 DEF EnableWriting, Update
    <3> QED  BY <3>1, <3>2
  <2>6. CASE ~(n < Size[m])
    <3>1. Len(output') = 0
      BY <1>3, <2>2, <2>3, <2>4, <2>6
    <3>2. output' = <<>>
      BY <2>3, <2>4, <3>1, EmptySeq
    <3> QED  BY <1>1, <2>1, <2>6, <3>2 DEF channel
  <2> QED  BY <2>5, <2>6
<1>5. CASE SendFails(m)
  BY <1>1, <1>5 DEF SendFails, channel
<1>6. CASE SendBuffered(m)
  <2>1. output # <<>> /\ output' = output \o Bytes(m) /\ EnableWriting
    BY <1>2, <1>6 DEF SendBuffered, Direct
  <2>2. output' # <<>>
    <3>1. output \in Seq(Cell)
      BY DEF IInv, Types
    <3>2. Len(output') = Len(output) + Size[m] /\ Len(output) \in Nat
      BY <1>3, <2>1, <3>1, ConcatProperties, LenProperties
    <3>3. Len(output') # 0
      BY <1>3, <3>2
    <3> QED  BY <3>3, EmptySeq
  <2>3. events' = {"read", "write"} /\ index' = "KAdded"
    BY <1>1, <2>1 DEF EnableWriting, Update
  <2> QED  BY <2>2, <2>3
<1> QED  BY <1>4, <1>5, <1>6 DEF SendInLoop

-----------------------------------------------------------------------------
(* The invariant and the stream, step by step.                              *)

(* A connection starts with nothing on the wire and nothing waiting.        *)
LEMMA InitProperties == Init => IInv /\ Stream!Init
<1> SUFFICES ASSUME Init
             PROVE  IInv /\ Stream!Init
  OBVIOUS
<1>1. Types /\ InterestMatches
  BY EmptySeq, OutputAssumption DEF Init, Types, InterestMatches
<1>2. wire \o output = <<>> /\ Len(wire) = 0
  BY EmptySeq, ConcatEmptySeq DEF Init
<1> QED  BY <1>1, <1>2 DEF IInv, Stream!Init

(* Every step keeps the invariant, and is a step of the stream or none.     *)
LEMMA NextProperties ==
  ASSUME IInv, [Next]_vars
  PROVE  IInv' /\ StreamStep
<1>1. ASSUME UNCHANGED <<output, wire>>
      PROVE  StreamStep
  BY <1>1 DEF StreamStep, Accepted
<1>2. ASSUME NEW m \in Messages, Send(m)
      PROVE  IInv' /\ StreamStep
  <2>1. SendInLoop(m) /\ state' = state /\ queue' = queue
    BY <1>2 DEF Send
  <2>2. InterestMatches'
    BY <2>1, SendInLoopInterest
  <2> QED  BY <2>1, <2>2, SendInLoopStep DEF IInv, Types
<1>3. ASSUME NEW m \in Messages, NEW p \in Threads, Post(p, m)
      PROVE  IInv' /\ StreamStep
  <2>1. queue' \in Seq(Messages)
    BY <1>3, AppendProperties DEF Post, IInv, Types
  <2> QED  BY <1>1, <1>3, <2>1 DEF Post, IInv, Types, InterestMatches, channel, socket
<1>4. CASE RunPosted
  <2>1. /\ Head(queue) \in Messages /\ queue' \in Seq(Messages)
        /\ SendInLoop(Head(queue)) /\ state' = state
    BY <1>4, HeadTailProperties DEF RunPosted, IInv, Types
  <2>2. InterestMatches'
    BY <2>1, SendInLoopInterest
  <2> QED  BY <2>1, <2>2, SendInLoopStep DEF IInv, Types
<1>5. CASE HandleWrite
  <2>1. wire' \in Seq(Cell) /\ output' \in Seq(Cell) /\ room' \in Nat /\ StreamStep
    BY <1>5, HandleWriteStep DEF IInv
  <2>2. state' = state /\ queue' = queue /\ state # "kConnected"
    BY <1>5 DEF HandleWrite, IsWriting, IInv, InterestMatches
  <2> QED  BY <2>1, <2>2 DEF IInv, Types, InterestMatches
<1>6. CASE HandleClose \/ ConnectDestroyed
  BY <1>1, <1>6 DEF HandleClose, ConnectDestroyed, IInv, Types, InterestMatches, socket
<1>7. CASE PeerReads
  <2>1. room' \in Nat
    BY <1>7 DEF PeerReads, IInv, Types
  <2> QED  BY <1>1, <1>7, <2>1 DEF PeerReads, IInv, Types, InterestMatches, channel
<1>8. CASE PeerResets
  BY <1>1, <1>8 DEF PeerResets, IInv, Types, InterestMatches, channel
<1>9. CASE HandleWriteRefused \/ HandleWriteFails \/ UNCHANGED vars
  BY <1>1, <1>9 DEF HandleWriteRefused, HandleWriteFails, vars, channel, socket,
                    IInv, Types, InterestMatches
<1> QED  BY <1>2, <1>3, <1>4, <1>5, <1>6, <1>7, <1>8, <1>9 DEF Next, LoopStep, OnWritable

(* The invariant holds in every state.                                      *)
LEMMA Invariance == Spec => []IInv
<1>1. Init => IInv
  BY InitProperties
<1>2. IInv /\ [Next]_vars => IInv'
  BY NextProperties
<1> QED  BY <1>1, <1>2, PTL DEF Spec

(* As long as the connection is up, its Channel is registered and waits for *)
(* the socket to become writable exactly when output is waiting, whoever    *)
(* sends, from whatever thread, and however little the socket takes.        *)
THEOREM InterestAlwaysMatches == Spec => []InterestMatches
<1>1. IInv => InterestMatches
  BY DEF IInv
<1> QED  BY <1>1, Invariance, PTL

(* send, sendInloop and handelWrite together implement one stream of whole  *)
(* messages: what is on the wire is always a prefix of what was accepted,   *)
(* and each message is accepted whole, at the end, or not at all.           *)
THEOREM OutputIsByteStream == Spec => ImplementsByteStream
<1>1. Init => Stream!Init
  BY InitProperties
<1>2. IInv /\ [Next]_vars => [Stream!Next]_<<wire \o output, Len(wire)>>
  BY NextProperties DEF StreamStep, Accepted
<1> QED  BY <1>1, <1>2, Invariance, PTL DEF Spec, ImplementsByteStream, Stream!Spec
=============================================================================
