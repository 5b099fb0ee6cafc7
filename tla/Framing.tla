-------------------------------- MODULE Framing --------------------------------
(***************************************************************************)
(* BusinessServer's protocol on one connection: packets are a header, the   *)
(* length of the body as a big-endian number, and the body.  TCP joins and  *)
(* splits them as it likes; readFd puts what arrived into the connection's  *)
(* input buffer and onMessage takes every complete packet out of it.  The   *)
(* input buffer is the byte queue that BufferUse shows a Buffer to be.      *)
(*                                                                          *)
(* The header is a uint32_t in network order.  A byte is a digit in base    *)
(* Radix, 256 in the code, so that small numbers do and any bytes can be    *)
(* read as a length.                                                        *)
(***************************************************************************)
EXTENDS Integers, SequencesExt

CONSTANTS Radix,        \* values of a byte
          MaxBody,      \* protocol::kMaxBodyLen
          Bodies,       \* bodies the client sends, some too long
          MaxSent       \* bound: packets sent

Bytes == 0..(Radix - 1)
HeaderSize == 4         \* protocol::kHeaderSize

ASSUME FramingAssumption ==
  /\ Radix \in Nat \ {0, 1} /\ MaxBody \in Nat /\ MaxSent \in Nat
  /\ Bodies \subseteq Seq(Bytes)
  /\ \A b \in Bodies : Len(b) < Radix * Radix * Radix * Radix  \* fits a uint32_t

VARIABLES
  inputBuffer,  \* TcpConnection::_inputBuffer
  reading,      \* the loop of onMessage is running
  flying,       \* bytes the client has sent and the server has not read
  sent,         \* history: bodies the client sent
  handled,      \* history: bodies given to the JSON parser
  oversized     \* history: a length above the limit was met

vars == <<inputBuffer, reading, flying, sent, handled, oversized>>

FrInit == /\ inputBuffer = <<>> /\ reading = FALSE /\ flying = <<>>
        /\ sent = <<>> /\ handled = <<>> /\ oversized = FALSE

-----------------------------------------------------------------------------
(* Big-endian numbers: htonl by the client, ntohl by tryExtractPacket.      *)

High(n) == n \div Radix
Header(n) == <<High(High(High(n))) % Radix, High(High(n)) % Radix, High(n) % Radix, n % Radix>>
Length(h) == ((h[1] * Radix + h[2]) * Radix + h[3]) * Radix + h[4]

Packet(body) == Header(Len(body)) \o body
Encode(bodies) == FlattenSeq([i \in DOMAIN bodies |-> Packet(bodies[i])])

-----------------------------------------------------------------------------
(* tryExtractPacket: the three ways it can end, told apart by the bytes in  *)
(* the buffer.                                                              *)

BodyLength(b) == Length(SubSeq(b, 1, HeaderSize))

HasHeader(b) == Len(b) >= HeaderSize
TooLong(b) == HasHeader(b) /\ BodyLength(b) > MaxBody

MutComplete(b) ==           \* <= for <: waits for one byte more
  HasHeader(b) /\ ~TooLong(b) /\ Len(b) > HeaderSize + BodyLength(b)

Complete(b) == HasHeader(b) /\ ~TooLong(b) /\ Len(b) >= HeaderSize + BodyLength(b)

MutBody(b) ==               \* retrieves the header after the body
  SubSeq(b, 1, BodyLength(b))

Body(b) == SubSeq(b, HeaderSize + 1, HeaderSize + BodyLength(b))

Rest(b) == SubSeq(b, HeaderSize + BodyLength(b) + 1, Len(b))

-----------------------------------------------------------------------------
ClientSends(body) ==
  /\ Len(sent) < MaxSent
  /\ sent' = Append(sent, body)
  /\ flying' = flying \o Packet(body)
  /\ UNCHANGED <<inputBuffer, reading, handled, oversized>>

\* handelRead: readFd, then onMessage.
HandleRead(n) ==
  /\ ~reading
  /\ n \in 1..Len(flying)
  /\ inputBuffer' = inputBuffer \o SubSeq(flying, 1, n)
  /\ flying' = SubSeq(flying, n + 1, Len(flying))
  /\ reading' = TRUE
  /\ UNCHANGED <<sent, handled, oversized>>

MutTakePacket ==            \* one packet for every read
  /\ reading /\ Complete(inputBuffer)
  /\ handled' = Append(handled, Body(inputBuffer))
  /\ inputBuffer' = Rest(inputBuffer)
  /\ reading' = FALSE
  /\ UNCHANGED <<flying, sent, oversized>>

\* The loop of onMessage takes packets until the buffer holds no complete one.
\* An empty body, like one that is not JSON, is answered with an error and the
\* loop goes on.
TakePacket ==
  /\ reading /\ Complete(inputBuffer)
  /\ handled' = Append(handled, Body(inputBuffer))
  /\ inputBuffer' = Rest(inputBuffer)
  /\ UNCHANGED <<reading, flying, sent, oversized>>

\* It ends when tryExtractPacket finds none; a length above the limit empties
\* the buffer.
NoPacket ==
  /\ reading /\ ~Complete(inputBuffer)
  /\ inputBuffer' = IF TooLong(inputBuffer) THEN <<>> ELSE inputBuffer
  /\ oversized' = (oversized \/ TooLong(inputBuffer))
  /\ reading' = FALSE
  /\ UNCHANGED <<flying, sent, handled>>

Reading == TakePacket \/ NoPacket \/ \E n \in 1..Len(flying) : HandleRead(n)

FrNext == Reading \/ \E body \in Bodies : ClientSends(body)

\* The network delivers what has been sent and the loop's thread runs; nobody
\* has to send.
FrSpec == FrInit /\ [][FrNext]_vars /\ WF_vars(Reading)

-----------------------------------------------------------------------------
\* The first n packets sent are within the limit.
Proper(n) == n <= Len(sent) /\ \A i \in 1..n : Len(sent[i]) <= MaxBody

(* However TCP cuts the stream, what is handled are the bodies that were    *)
(* sent, in order, up to the first that is too long; and as long as none    *)
(* has been met, every byte is in a handled packet, in the buffer or on its *)
(* way.                                                                     *)
FramesAsSent ==
  /\ ~oversized => /\ Proper(Len(handled)) /\ IsPrefix(handled, sent)
                   /\ Encode(handled) \o inputBuffer \o flying = Encode(sent)
  /\ oversized => \A n \in 1..Len(sent) :
                    Proper(n) => n <= Len(handled) /\ handled[n] = sent[n]

(* onMessage leaves no complete packet behind, as nothing would make it     *)
(* look at the buffer again until the client sends more; so the buffer      *)
(* never keeps the length of a packet of the limit.                         *)
NothingLeftBehind ==
  ~reading => ~Complete(inputBuffer) /\ Len(inputBuffer) < HeaderSize + MaxBody

(* Every packet before the first that is too long is handled in the end.    *)
ProperIsHandled == \A n \in 1..MaxSent : Proper(n) ~> (Len(handled) >= n)
=============================================================================
