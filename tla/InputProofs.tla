------------------------------ MODULE InputProofs ------------------------------
(***************************************************************************)
(* The input of a connection, for every value of the constants.  First the  *)
(* Buffer, for every size, reserve and data: the indices stay in order, the *)
(* methods are the operations of a byte queue, and the vector grows only    *)
(* when it is full.  Then the packets that are read from that queue, for    *)
(* every limit, every set of bodies and every way TCP cuts them: they are   *)
(* handled as they were sent, and no complete one is left behind.           *)
(***************************************************************************)
EXTENDS BufferUse, Framing, SequenceTheorems, WellFoundedInduction, TLAPS

-----------------------------------------------------------------------------
(* The Buffer.                                                              *)

(* The readable bytes are a string of the length the indices say.           *)
LEMMA ContentsProperties ==
  ASSUME NEW b, IsBuffer(b, Byte)
  PROVE  /\ Readable(b) \in Nat /\ Writable(b) \in Nat
         /\ Contents(b) \in Seq(Byte) /\ Len(Contents(b)) = Readable(b)
         /\ \A i \in 1..Readable(b) : Contents(b)[i] = b.store[b.reader + i - 1]
<1>1. Readable(b) \in Nat /\ Writable(b) \in Nat
  BY DEF IsBuffer, Readable, Writable
<1>2. \A i \in 1..Readable(b) : b.store[b.reader + i - 1] \in Byte
  BY DEF IsBuffer, Readable
<1>3. Contents(b) \in [1..Readable(b) -> Byte]
  BY <1>2 DEF Contents
<1> QED  BY <1>1, <1>3 DEF Contents

(* Bytes put together one after the other.                                  *)
LEMMA DataAssociative ==
  \A r, s, t \in Seq(Byte) : (r \o s) \o t = r \o (s \o t)
BY ConcatAssociative, SMTT(20)

(* Two buffers with the same bytes at their readers have the same contents. *)
LEMMA SameContents ==
  ASSUME NEW b, NEW c, IsBuffer(b, Byte), IsBuffer(c, Byte), Readable(b) = Readable(c),
         \A i \in 1..Readable(b) : b.store[b.reader + i - 1] = c.store[c.reader + i - 1]
  PROVE  Contents(b) = Contents(c)
BY DEF Contents

(* std::copy keeps the length of the vector and writes only its target.     *)
LEMMA CopyProperties ==
  ASSUME NEW size \in Nat, NEW store \in [0..(size - 1) -> Byte],
         NEW at \in Nat, NEW d \in Seq(Byte)
  PROVE  /\ Copy(store, at, d) \in [0..(size - 1) -> Byte]
         /\ \A i \in 0..(size - 1) : Copy(store, at, d)[i] =
              IF i \in at..(at + Len(d) - 1) THEN d[i - at + 1] ELSE store[i]
<1>1. Len(d) \in Nat /\ \A j \in 1..Len(d) : d[j] \in Byte
  BY LenProperties, ElementOfSeq
<1>2. \A i \in at..(at + Len(d) - 1) : d[i - at + 1] \in Byte
  BY <1>1
<1> QED  BY <1>2 DEF Copy

-----------------------------------------------------------------------------
(* The methods.                                                             *)

(* makeSpace makes room and moves or keeps the bytes it has; when it moves  *)
(* them it is down, as std::copy of overlapping ranges asks.                *)
LEMMA MakeSpaceProperties ==
  ASSUME NEW b, IsBuffer(b, Byte), NEW len \in Nat, len > Writable(b)
  PROVE  LET c == MakeSpace(b, len) IN
         /\ IsBuffer(c, Byte) /\ Contents(c) = Contents(b)
         /\ Readable(c) = Readable(b) /\ Writable(c) >= len
         /\ c.size # b.size => Readable(b) + len + CheapPrepend > b.size
         /\ c.size >= b.size
         /\ c.size = b.size => c.reader < b.reader
<1> DEFINE c == MakeSpace(b, len)
<1>1. CASE Prependable(b) + Writable(b) < len + CheapPrepend
  <2>1. c = Resize(b, b.writer + len)
    BY <1>1 DEF MakeSpace
  <2>2. b.writer + len \in Nat /\ b.writer + len > b.size
    BY DEF IsBuffer, Writable
  <2>3. /\ c.size = b.writer + len /\ c.reader = b.reader /\ c.writer = b.writer
        /\ DOMAIN c = {"size", "store", "reader", "writer"}
        /\ c.store = [i \in 0..(b.writer + len - 1) |-> IF i < b.size THEN b.store[i] ELSE Zero]
    BY <2>1 DEF Resize, IsBuffer
  <2>4. c.store \in [0..(c.size - 1) -> Byte]
    BY <2>2, <2>3, DataAssumption DEF IsBuffer
  <2>5. IsBuffer(c, Byte)
    BY <2>2, <2>3, <2>4 DEF IsBuffer
  <2>6. Readable(c) = Readable(b) /\ Writable(c) = len
    BY <2>3 DEF IsBuffer, Readable, Writable
  <2>7. \A i \in 1..Readable(b) : b.store[b.reader + i - 1] = c.store[c.reader + i - 1]
    BY <2>2, <2>3 DEF IsBuffer, Readable
  <2>8. Contents(c) = Contents(b)
    BY <2>5, <2>6, <2>7, SameContents
  <2>9. Readable(b) + len + CheapPrepend > b.size
    BY <1>1, SizeAssumption DEF IsBuffer, Readable, Writable, Prependable
  <2> QED  BY <2>2, <2>3, <2>5, <2>6, <2>8, <2>9 DEF IsBuffer
<1>2. CASE ~(Prependable(b) + Writable(b) < len + CheapPrepend)
  <2>1. /\ c.size = b.size /\ c.reader = CheapPrepend
        /\ c.writer = CheapPrepend + Readable(b)
        /\ DOMAIN c = {"size", "store", "reader", "writer"}
        /\ c.store = Copy(b.store, CheapPrepend, Contents(b))
    BY <1>2 DEF MakeSpace, IsBuffer
  <2>2. /\ Readable(b) \in Nat /\ Contents(b) \in Seq(Byte) /\ Len(Contents(b)) = Readable(b)
        /\ \A i \in 1..Readable(b) : Contents(b)[i] = b.store[b.reader + i - 1]
    BY ContentsProperties
  <2>3. /\ CheapPrepend + Readable(b) + len <= b.size
        /\ CheapPrepend < b.reader
    BY <1>2, SizeAssumption DEF IsBuffer, Readable, Writable, Prependable
  <2>4. /\ c.store \in [0..(b.size - 1) -> Byte]
        /\ \A i \in 0..(b.size - 1) : c.store[i] =
             IF i \in CheapPrepend..(CheapPrepend + Readable(b) - 1)
             THEN Contents(b)[i - CheapPrepend + 1] ELSE b.store[i]
    <3>1. /\ b.size \in Nat /\ b.store \in [0..(b.size - 1) -> Byte]
          /\ CheapPrepend \in Nat
      BY SizeAssumption DEF IsBuffer
    <3>2. PICK d \in Seq(Byte) : d = Contents(b)
      BY <2>2
    <3>3. PICK n \in Nat : n = b.size
      BY <3>1
    <3>4. PICK store \in [0..(n - 1) -> Byte] : store = b.store
      BY <3>1, <3>3
    <3>5. PICK at \in Nat : at = CheapPrepend
      BY <3>1
    <3>6. /\ Copy(store, at, d) \in [0..(n - 1) -> Byte]
          /\ \A i \in 0..(n - 1) : Copy(store, at, d)[i] =
               IF i \in at..(at + Len(d) - 1) THEN d[i - at + 1] ELSE store[i]
      BY CopyProperties
    <3> QED  BY <2>1, <2>2, <3>2, <3>3, <3>4, <3>5, <3>6
  <2>5. IsBuffer(c, Byte)
    BY <2>1, <2>2, <2>3, <2>4, SizeAssumption DEF IsBuffer
  <2>6. Readable(c) = Readable(b) /\ Writable(c) >= len
    BY <2>1, <2>2, <2>3, SizeAssumption DEF IsBuffer, Readable, Writable
  <2>7. ASSUME NEW i \in 1..Readable(b)
        PROVE  b.store[b.reader + i - 1] = c.store[c.reader + i - 1]
    <3>1. /\ CheapPrepend + i - 1 \in CheapPrepend..(CheapPrepend + Readable(b) - 1)
          /\ CheapPrepend + i - 1 \in 0..(b.size - 1)
          /\ (CheapPrepend + i - 1) - CheapPrepend + 1 = i
      BY <2>2, <2>3, <2>7, SizeAssumption DEF IsBuffer
    <3>2. c.store[CheapPrepend + i - 1] = Contents(b)[i]
      BY <2>4, <3>1
    <3> QED  BY <2>1, <2>2, <3>2
  <2>8. Contents(c) = Contents(b)
    BY <2>5, <2>6, <2>7, SameContents
  <2> QED  BY <2>1, <2>3, <2>5, <2>6, <2>8 DEF IsBuffer
<1> QED  BY <1>1, <1>2

(* ensureWritableBytes.                                                     *)
LEMMA EnsureProperties ==
  ASSUME NEW b, IsBuffer(b, Byte), NEW len \in Nat
  PROVE  LET c == EnsureWritable(b, len) IN
         /\ IsBuffer(c, Byte) /\ Contents(c) = Contents(b)
         /\ Readable(c) = Readable(b) /\ Writable(c) >= len
         /\ c.size # b.size => Readable(b) + len + CheapPrepend > b.size
         /\ c.size >= b.size
<1>1. Writable(b) \in Nat
  BY ContentsProperties
<1>2. CASE len > Writable(b)
  BY <1>2, MakeSpaceProperties DEF EnsureWritable
<1>3. CASE ~(len > Writable(b))
  BY <1>1, <1>3 DEF EnsureWritable, IsBuffer
<1> QED  BY <1>2, <1>3

(* Bytes written at the writer, within the vector, are put at the back.     *)
LEMMA WrittenProperties ==
  ASSUME NEW b, IsBuffer(b, Byte), NEW d \in Seq(Byte), Len(d) <= Writable(b)
  PROVE  LET c == Written(b, d) IN
         /\ IsBuffer(c, Byte) /\ Contents(c) = Contents(b) \o d
         /\ Readable(c) = Readable(b) + Len(d) /\ c.size = b.size
<1> DEFINE c == Written(b, d)
<1>1. /\ Len(d) \in Nat /\ b.size \in Nat /\ b.writer \in Nat
      /\ b.store \in [0..(b.size - 1) -> Byte]
      /\ b.writer + Len(d) <= b.size
  BY LenProperties DEF IsBuffer, Writable
<1>2. /\ c.size = b.size /\ c.reader = b.reader /\ c.writer = b.writer + Len(d)
      /\ DOMAIN c = {"size", "store", "reader", "writer"}
      /\ c.store = Copy(b.store, b.writer, d)
  BY DEF Written, IsBuffer
<1>3. /\ Copy(b.store, b.writer, d) \in [0..(b.size - 1) -> Byte]
      /\ \A i \in 0..(b.size - 1) : Copy(b.store, b.writer, d)[i] =
           IF i \in b.writer..(b.writer + Len(d) - 1) THEN d[i - b.writer + 1] ELSE b.store[i]
  <2>1. PICK n \in Nat, at \in Nat : n = b.size /\ at = b.writer
    BY <1>1
  <2>2. PICK store \in [0..(n - 1) -> Byte] : store = b.store
    BY <1>1, <2>1
  <2>3. /\ Copy(store, at, d) \in [0..(n - 1) -> Byte]
        /\ \A i \in 0..(n - 1) : Copy(store, at, d)[i] =
             IF i \in at..(at + Len(d) - 1) THEN d[i - at + 1] ELSE store[i]
    BY CopyProperties
  <2> QED  BY <2>1, <2>2, <2>3
<1>4. IsBuffer(c, Byte)
  BY <1>1, <1>2, <1>3 DEF IsBuffer
<1>5. Readable(c) = Readable(b) + Len(d) /\ Readable(b) \in Nat
  BY <1>1, <1>2 DEF IsBuffer, Readable
<1>6. Contents(c) = Contents(b) \o d
  <2>1. /\ Contents(b) \in Seq(Byte) /\ Len(Contents(b)) = Readable(b)
        /\ \A i \in 1..Readable(b) : Contents(b)[i] = b.store[b.reader + i - 1]
    BY ContentsProperties
  <2>2. /\ Contents(c) \in Seq(Byte) /\ Len(Contents(c)) = Readable(c)
        /\ \A i \in 1..Readable(c) : Contents(c)[i] = c.store[c.reader + i - 1]
    BY <1>4, ContentsProperties
  <2>3. /\ Contents(b) \o d \in Seq(Byte)
        /\ Len(Contents(b) \o d) = Readable(b) + Len(d)
        /\ \A i \in 1..(Readable(b) + Len(d)) : (Contents(b) \o d)[i] =
             IF i <= Readable(b) THEN Contents(b)[i] ELSE d[i - Readable(b)]
    <3>1. LET r == Contents(b) IN
          /\ r \o d \in Seq(Byte) /\ Len(r \o d) = Len(r) + Len(d)
          /\ \A i \in 1..(Len(r) + Len(d)) : (r \o d)[i] =
               IF i <= Len(r) THEN r[i] ELSE d[i - Len(r)]
      BY <2>1, ConcatProperties
    <3> QED  BY <2>1, <3>1
  <2> HIDE DEF c
  <2>4. ASSUME NEW i \in 1..Readable(c)
        PROVE  Contents(c)[i] = (Contents(b) \o d)[i]
    <3>1. Contents(c)[i] = Copy(b.store, b.writer, d)[b.reader + i - 1]
      BY <1>2, <2>2
    <3>2. /\ i \in 1..(Readable(b) + Len(d)) /\ i \in Int
          /\ b.reader \in Nat /\ b.writer = b.reader + Readable(b)
          /\ b.reader + i - 1 \in 0..(b.size - 1)
      <4>1. i \in 1..(Readable(b) + Len(d))
        BY <1>5
      <4>2. b.reader \in Nat /\ b.writer = b.reader + Readable(b)
        BY <1>1 DEF IsBuffer, Readable
      <4>3. PICK r \in Nat, n \in Nat, at \in Nat, size \in Nat :
              r = Readable(b) /\ n = Len(d) /\ at = b.reader /\ size = b.size
        BY <1>1, <1>5, <4>2
      <4>4. i \in 1..(r + n) /\ at + r + n <= size
        BY <1>1, <4>1, <4>2, <4>3
      <4>5. i \in Int /\ at + i - 1 \in 0..(size - 1)
        BY <4>4
      <4> QED  BY <4>1, <4>2, <4>3, <4>5
    <3>3. CASE i <= Readable(b)
      <4>1. b.reader + i - 1 \notin b.writer..(b.writer + Len(d) - 1)
        BY <1>1, <1>5, <3>2, <3>3
      <4>2. Contents(c)[i] = b.store[b.reader + i - 1]
        BY <1>3, <3>1, <3>2, <4>1
      <4>3. Contents(b)[i] = b.store[b.reader + i - 1]
        BY <1>5, <2>1, <3>2, <3>3
      <4> QED  BY <2>3, <3>2, <3>3, <4>2, <4>3
    <3>4. CASE ~(i <= Readable(b))
      <4>1. /\ b.reader + i - 1 \in b.writer..(b.writer + Len(d) - 1)
            /\ (b.reader + i - 1) - b.writer + 1 = i - Readable(b)
        <5>1. /\ i > Readable(b) /\ i <= Readable(b) + Len(d)
              /\ Readable(b) \in Int /\ Len(d) \in Int /\ b.reader \in Int
          BY <1>1, <1>5, <3>2, <3>4
        <5> QED  BY <3>2, <5>1
      <4>2. Contents(c)[i] = d[i - Readable(b)]
        BY <1>3, <3>1, <3>2, <4>1
      <4> QED  BY <2>3, <3>2, <3>4, <4>2
    <3> QED  BY <3>3, <3>4
  <2> QED  BY <1>5, <2>2, <2>3, <2>4, SeqEqual
<1> QED  BY <1>2, <1>4, <1>5, <1>6

(* append                                                                   *)
LEMMA AppendToProperties ==
  ASSUME NEW b, IsBuffer(b, Byte), NEW d \in Seq(Byte)
  PROVE  LET c == AppendTo(b, d) IN
         /\ IsBuffer(c, Byte) /\ Contents(c) = Contents(b) \o d
         /\ Readable(c) = Readable(b) + Len(d)
         /\ c.size # b.size => Readable(c) + CheapPrepend > b.size
         /\ c.size >= b.size
<1>1. Len(d) \in Nat /\ Readable(b) \in Nat
  BY LenProperties, ContentsProperties
<1> DEFINE e == EnsureWritable(b, Len(d))
<1>2. /\ IsBuffer(e, Byte) /\ Contents(e) = Contents(b)
      /\ Readable(e) = Readable(b) /\ Writable(e) >= Len(d)
      /\ e.size # b.size => Readable(b) + Len(d) + CheapPrepend > b.size
      /\ e.size >= b.size
  BY <1>1, EnsureProperties
<1>3. Len(d) <= Writable(e)
  BY <1>1, <1>2 DEF IsBuffer, Writable
<1> HIDE DEF e
<1>4. /\ IsBuffer(Written(e, d), Byte) /\ Contents(Written(e, d)) = Contents(e) \o d
      /\ Readable(Written(e, d)) = Readable(e) + Len(d) /\ Written(e, d).size = e.size
  BY <1>2, <1>3, WrittenProperties
<1> QED  BY <1>2, <1>4 DEF AppendTo, e

(* readFd, with one or two vectors.                                         *)
LEMMA ReadFdProperties ==
  ASSUME NEW b, IsBuffer(b, Byte), NEW d \in Seq(Byte)
  PROVE  LET c == ReadFd(b, d) IN
         /\ IsBuffer(c, Byte) /\ Contents(c) = Contents(b) \o d
         /\ Readable(c) = Readable(b) + Len(d)
         /\ c.size # b.size => Readable(c) + CheapPrepend > b.size
         /\ c.size >= b.size
<1>1. Len(d) \in Nat /\ Writable(b) \in Nat /\ Readable(b) \in Nat
  BY LenProperties, ContentsProperties
<1>2. CASE Len(d) <= Writable(b)
  BY <1>2, WrittenProperties DEF ReadFd, IsBuffer
<1>3. CASE ~(Len(d) <= Writable(b))
  <2> DEFINE first  == SubSeq(d, 1, Writable(b))
             second == SubSeq(d, Writable(b) + 1, Len(d))
             e      == Written(b, first)
  <2>1. \A i \in 1..Len(d) : d[i] \in Byte
    BY ElementOfSeq
  <2>2. first \in Seq(Byte) /\ Len(first) = Writable(b)
    BY <1>1, <1>3, <2>1, SubSeqProperties
  <2>3. second \in Seq(Byte) /\ Len(second) = Len(d) - Writable(b)
    BY <1>1, <1>3, <2>1, SubSeqProperties
  <2>4. first \o second = d
    <3>1. /\ 1 \in 1..(Len(d) + 1) /\ Writable(b) \in (1 - 1)..Len(d)
          /\ Len(d) \in Writable(b)..Len(d)
      BY <1>1, <1>3
    <3>2. first \o second = SubSeq(d, 1, Len(d))
      BY <3>1, ConcatAdjacentSubSeq
    <3> QED  BY <3>2, SubSeqFull
  <2> HIDE DEF first, second
  <2>5. /\ IsBuffer(e, Byte) /\ Contents(e) = Contents(b) \o first
        /\ Readable(e) = Readable(b) + Len(first) /\ e.size = b.size
    BY <1>1, <2>2, WrittenProperties
  <2> HIDE DEF e
  <2>6. LET c == AppendTo(e, second) IN
        /\ IsBuffer(c, Byte) /\ Contents(c) = Contents(e) \o second
        /\ Readable(c) = Readable(e) + Len(second)
        /\ c.size # e.size => Readable(c) + CheapPrepend > e.size
        /\ c.size >= e.size
    BY <2>3, <2>5, AppendToProperties
  <2>7. (Contents(b) \o first) \o second = Contents(b) \o d
    <3>1. Contents(b) \in Seq(Byte)
      BY ContentsProperties
    <3>2. (Contents(b) \o first) \o second = Contents(b) \o (first \o second)
      BY <2>2, <2>3, <3>1, DataAssociative, Zenon
    <3> QED  BY <2>4, <3>2
  <2>8. ReadFd(b, d) = AppendTo(e, second)
    BY <1>3 DEF ReadFd, e, first, second
  <2>9. PICK c : c = AppendTo(e, second)
    OBVIOUS
  <2>10. Contents(c) = Contents(b) \o d /\ IsBuffer(c, Byte)
    BY <2>5, <2>6, <2>7, <2>9
  <2>11. /\ Readable(c) = Readable(b) + Len(d) /\ e.size = b.size
         /\ c.size # e.size => Readable(c) + CheapPrepend > e.size
         /\ c.size >= e.size
    BY <1>1, <2>2, <2>3, <2>5, <2>6, <2>9
  <2> QED  BY <2>8, <2>9, <2>10, <2>11
<1> QED  BY <1>2, <1>3

(* retrieve takes bytes from the front.                                     *)
LEMMA RetrieveProperties ==
  ASSUME NEW b, IsBuffer(b, Byte), NEW n \in 0..Readable(b)
  PROVE  LET c == Retrieve(b, n) IN
         /\ IsBuffer(c, Byte) /\ c.size = b.size
         /\ Contents(c) = SubSeq(Contents(b), n + 1, Len(Contents(b)))
<1> DEFINE c == Retrieve(b, n)
<1>1. Readable(b) \in Nat /\ n \in Nat /\ n <= Readable(b)
  BY ContentsProperties
<1>2. /\ c.size = b.size /\ c.reader = b.reader + n /\ c.writer = b.writer
      /\ c.store = b.store /\ DOMAIN c = {"size", "store", "reader", "writer"}
  BY DEF Retrieve, IsBuffer
<1>3. IsBuffer(c, Byte) /\ Readable(c) = Readable(b) - n
  BY <1>1, <1>2 DEF IsBuffer, Readable
<1>4. /\ Contents(b) \in Seq(Byte) /\ Len(Contents(b)) = Readable(b)
      /\ \A i \in 1..Readable(b) : Contents(b)[i] = b.store[b.reader + i - 1]
  BY ContentsProperties
<1>5. /\ Contents(c) \in Seq(Byte) /\ Len(Contents(c)) = Readable(c)
      /\ \A i \in 1..Readable(c) : Contents(c)[i] = c.store[c.reader + i - 1]
  BY <1>3, ContentsProperties
<1> HIDE DEF c
<1> DEFINE r    == Contents(b)
           rest == SubSeq(r, n + 1, Len(r))
<1>6. /\ rest \in Seq(Byte) /\ Len(rest) = Readable(b) - n
      /\ \A i \in 1..(Readable(b) - n) : rest[i] = r[n + i]
  <2>1. \A i \in (n + 1)..Len(r) : r[i] \in Byte
    BY <1>1, <1>4, ElementOfSeq
  <2>2. /\ rest \in Seq(Byte)
        /\ Len(rest) = IF n + 1 <= Len(r) THEN Len(r) - (n + 1) + 1 ELSE 0
        /\ \A i \in 1..(Len(r) - (n + 1) + 1) : rest[i] = r[n + 1 + i - 1]
    BY <1>1, <1>4, <2>1, SubSeqProperties
  <2> HIDE DEF r, rest
  <2>3. Len(r) = Readable(b)
    BY <1>4 DEF r
  <2>4. Len(rest) = Readable(b) - n
    BY <1>1, <2>2, <2>3
  <2>5. ASSUME NEW i \in 1..(Readable(b) - n)
        PROVE  rest[i] = r[n + i]
    <3>1. i \in 1..(Len(r) - (n + 1) + 1) /\ n + 1 + i - 1 = n + i
      BY <1>1, <2>3
    <3> QED  BY <2>2, <3>1
  <2> QED  BY <2>2, <2>4, <2>5
<1> HIDE DEF r, rest
<1>7. ASSUME NEW i \in 1..Readable(c)
      PROVE  Contents(c)[i] = rest[i]
  <2>1. i \in Int /\ i \in 1..(Readable(b) - n) /\ n + i \in 1..Readable(b)
    BY <1>1, <1>3
  <2>2. Contents(c)[i] = b.store[b.reader + n + i - 1]
    BY <1>2, <1>5
  <2>3. r[n + i] = b.store[b.reader + (n + i) - 1]
    BY <1>4, <2>1 DEF r
  <2>4. b.reader + (n + i) - 1 = b.reader + n + i - 1
    BY <1>1, <2>1 DEF IsBuffer
  <2> QED  BY <1>6, <2>1, <2>2, <2>3, <2>4
<1>8. Contents(c) = rest
  BY <1>3, <1>5, <1>6, <1>7, SeqEqual
<1> QED  BY <1>2, <1>3, <1>8 DEF c, r, rest

(* retrieveAll empties the buffer and leaves the reserve before it.         *)
LEMMA RetrieveAllProperties ==
  ASSUME NEW b, IsBuffer(b, Byte), CheapPrepend <= b.size
  PROVE  LET c == RetrieveAll(b) IN
         IsBuffer(c, Byte) /\ c.size = b.size /\ Contents(c) = <<>>
<1> DEFINE c == RetrieveAll(b)
<1>1. /\ c.size = b.size /\ c.reader = CheapPrepend /\ c.writer = CheapPrepend
      /\ c.store = b.store /\ DOMAIN c = {"size", "store", "reader", "writer"}
  BY DEF RetrieveAll, IsBuffer
<1>2. IsBuffer(c, Byte) /\ Readable(c) = 0
  BY <1>1, SizeAssumption DEF IsBuffer, Readable
<1>3. Contents(c) = <<>>
  BY <1>2, ContentsProperties, EmptySeq
<1> QED  BY <1>1, <1>2, <1>3

(* prepend, within the room there is, puts bytes at the front.              *)
LEMMA PrependProperties ==
  ASSUME NEW b, IsBuffer(b, Byte), NEW d \in Seq(Byte), Len(d) <= Prependable(b)
  PROVE  LET c == Prepend(b, d) IN
         IsBuffer(c, Byte) /\ c.size = b.size /\ Contents(c) = d \o Contents(b)
<1> DEFINE c  == Prepend(b, d)
           at == b.reader - Len(d)
           r  == Contents(b)
<1>1. /\ Len(d) \in Nat /\ b.size \in Nat /\ b.reader \in Nat /\ b.writer \in Nat
      /\ b.store \in [0..(b.size - 1) -> Byte]
      /\ at \in Nat /\ at + Len(d) = b.reader
  BY LenProperties DEF IsBuffer, Prependable
<1>2. /\ c.size = b.size /\ c.reader = at /\ c.writer = b.writer
      /\ DOMAIN c = {"size", "store", "reader", "writer"}
      /\ c.store = Copy(b.store, at, d)
  BY DEF Prepend, IsBuffer
<1> HIDE DEF c, at
<1>3. /\ Copy(b.store, at, d) \in [0..(b.size - 1) -> Byte]
      /\ \A i \in 0..(b.size - 1) : Copy(b.store, at, d)[i] =
           IF i \in at..(at + Len(d) - 1) THEN d[i - at + 1] ELSE b.store[i]
  BY <1>1, CopyProperties
<1>4. IsBuffer(c, Byte)
  BY <1>1, <1>2, <1>3 DEF IsBuffer
<1>5. /\ Readable(c) = Len(d) + Readable(b) /\ Readable(b) \in Nat
      /\ b.writer <= b.size
  BY <1>1, <1>2 DEF IsBuffer, Readable
<1>6. /\ r \in Seq(Byte) /\ Len(r) = Readable(b)
      /\ \A i \in 1..Readable(b) : r[i] = b.store[b.reader + i - 1]
  BY ContentsProperties
<1>7. /\ Contents(c) \in Seq(Byte) /\ Len(Contents(c)) = Readable(c)
      /\ \A i \in 1..Readable(c) : Contents(c)[i] = c.store[c.reader + i - 1]
  BY <1>4, ContentsProperties
<1> HIDE DEF r
<1>8. /\ d \o r \in Seq(Byte) /\ Len(d \o r) = Len(d) + Len(r)
      /\ \A i \in 1..(Len(d) + Len(r)) : (d \o r)[i] =
           IF i <= Len(d) THEN d[i] ELSE r[i - Len(d)]
  BY <1>6, ConcatProperties
<1>9. ASSUME NEW i \in 1..Readable(c)
      PROVE  Contents(c)[i] = (d \o r)[i]
  <2> DEFINE k == at + i - 1
  <2>1. i \in Int /\ i \in 1..(Len(d) + Readable(b)) /\ k \in Int /\ k - at + 1 = i
    BY <1>1, <1>5
  <2>2. k \in 0..(b.size - 1)
    BY <1>1, <1>5, <2>1 DEF Readable
  <2>3. Contents(c)[i] = Copy(b.store, at, d)[k]
    BY <1>2, <1>7
  <2>4. CASE i <= Len(d)
    <3>1. k \in at..(at + Len(d) - 1)
      BY <1>1, <2>1, <2>4
    <3> HIDE DEF k
    <3>2. Contents(c)[i] = d[i]
      BY <1>3, <2>1, <2>2, <2>3, <3>1
    <3> QED  BY <1>6, <1>8, <2>1, <2>4, <3>2
  <2>5. CASE ~(i <= Len(d))
    <3>1. /\ k \notin at..(at + Len(d) - 1)
          /\ i - Len(d) \in 1..Readable(b)
          /\ b.reader + (i - Len(d)) - 1 = k
      <4>1. PICK len \in Nat : len = Len(d)
        BY <1>1
      <4>2. /\ i \in Int /\ at \in Int /\ ~(i <= len) /\ i <= len + Readable(b)
            /\ b.reader = at + len /\ Readable(b) \in Nat
        BY <1>1, <1>5, <2>1, <2>5, <4>1
      <4>3. k \notin at..(at + len - 1)
        BY <4>2
      <4>4. i - len \in 1..Readable(b)
        BY <4>2
      <4>5. b.reader + (i - len) - 1 = k
        BY <4>2
      <4> QED  BY <4>1, <4>3, <4>4, <4>5
    <3> HIDE DEF k
    <3>2. Contents(c)[i] = r[i - Len(d)]
      BY <1>3, <1>6, <2>2, <2>3, <3>1
    <3> QED  BY <1>6, <1>8, <2>1, <2>5, <3>2
  <2> QED  BY <2>4, <2>5
<1>10. Contents(c) = d \o r
  BY <1>5, <1>6, <1>7, <1>8, <1>9, SeqEqual
<1> QED  BY <1>2, <1>4, <1>10 DEF c, r

(* getline never takes more than there is.                                  *)
LEMMA LineLengthProperties ==
  ASSUME NEW b, IsBuffer(b, Byte), LineLength(b, Newline) > 0
  PROVE  LineLength(b, Newline) \in 1..Readable(b)
<1> DEFINE r == Contents(b)
           S == {i \in 1..Readable(b) : r[i] = Newline}
           less == {p \in Nat \X Nat : p[1] < p[2]}
<1>1. Readable(b) \in Nat
  BY ContentsProperties
<1>2. \E i \in 1..Readable(b) : r[i] = Newline
  BY DEF LineLength
<1>3. \E i \in 1..Readable(b) : r[i] = Newline /\ \A j \in 1..(i - 1) : r[j] # Newline
  <2> HIDE DEF r
  <2>1. S # {} /\ S \subseteq Nat
    BY <1>1, <1>2
  <2>2. IsWellFoundedOn(less, Nat)
    BY NatLessThanWellFounded DEF OpToRel
  <2>3. PICK n \in S : \A m \in S : <<m, n>> \notin less
    <3> HIDE DEF S, less
    <3> QED  BY <2>1, <2>2, WFMin
  <2>4. ASSUME NEW j \in 1..(n - 1)
        PROVE  r[j] # Newline
    <3>1. j \in Nat /\ n \in Nat /\ j < n /\ j \in 1..Readable(b)
      BY <1>1, <2>3
    <3>2. <<j, n>> \in less
      BY <3>1
    <3> QED  BY <2>3, <3>1, <3>2
  <2> QED  BY <2>3, <2>4
<1> QED  BY <1>2, <1>3 DEF LineLength

-----------------------------------------------------------------------------
(* The steps.                                                               *)

(* Beside the order of the indices, the vector never gets smaller than the  *)
(* reserve: retrieveAll puts both indices behind it without asking.         *)
IInv == TypeOK /\ CheapPrepend <= buf.size

(* A new Buffer is an empty queue behind its reserve.                       *)
LEMMA InitProperties == Init => IInv /\ BQ!Init
<1> SUFFICES ASSUME Init
             PROVE  IInv /\ BQ!Init
  OBVIOUS
<1>1. IsBuffer(buf, Byte) /\ CheapPrepend <= buf.size /\ Readable(buf) = 0
  BY SizeAssumption, DataAssumption DEF Init, NewBuffer, IsBuffer, Readable
<1>2. Contents(buf) = <<>>
  BY <1>1, ContentsProperties, EmptySeq
<1> QED  BY <1>1, <1>2 DEF IInv, TypeOK, BQ!Init

(* What a call changes, for the three theorems below: the invariant, the    *)
(* queue of bytes, and the size of the vector.                              *)
LEMMA NextProperties ==
  ASSUME IInv, Next
  PROVE  /\ IInv'
         /\ BQ!Next \/ UNCHANGED Contents(buf)
         /\ buf'.size # buf.size => Readable(buf') + CheapPrepend > buf.size
<1>1. IsBuffer(buf, Byte) /\ buf.size \in Nat /\ CheapPrepend \in Nat
  BY SizeAssumption DEF IInv, TypeOK, IsBuffer
<1>2. /\ Readable(buf) \in Nat /\ Contents(buf) \in Seq(Byte)
      /\ Len(Contents(buf)) = Readable(buf)
  BY <1>1, ContentsProperties
<1>3. ASSUME NEW d \in Data, AppendBytes(d) \/ ReadSocket(d)
      PROVE  /\ IsBuffer(buf', Byte) /\ Contents(buf') = Contents(buf) \o d
             /\ buf'.size # buf.size => Readable(buf') + CheapPrepend > buf.size
             /\ buf'.size >= buf.size
  <2>1. d \in Seq(Byte)
    BY DataAssumption
  <2>2. CASE AppendBytes(d)
    BY <1>1, <2>1, <2>2, AppendToProperties DEF AppendBytes
  <2>3. CASE ReadSocket(d)
    BY <1>1, <2>1, <2>3, ReadFdProperties DEF ReadSocket
  <2> QED  BY <1>3, <2>2, <2>3
<1>4. ASSUME NEW d \in Data, PrependBytes(d)
      PROVE  /\ IsBuffer(buf', Byte) /\ buf'.size = buf.size
             /\ Contents(buf') = d \o Contents(buf)
  BY <1>1, <1>4, DataAssumption, PrependProperties DEF PrependBytes
<1>5. ASSUME NEW n \in 1..Readable(buf), buf' = Retrieve(buf, n)
      PROVE  /\ IsBuffer(buf', Byte) /\ buf'.size = buf.size
             /\ Contents(buf') = SubSeq(Contents(buf), n + 1, Len(Contents(buf)))
             /\ n \in 1..Len(Contents(buf))
  <2>1. n \in 0..Readable(buf)
    BY <1>2
  <2> QED  BY <1>1, <1>2, <1>5, <2>1, RetrieveProperties
<1>6. CASE \E d \in Data : Fits(d) /\ (AppendBytes(d) \/ ReadSocket(d) \/ PrependBytes(d))
  <2>1. PICK d \in Data : AppendBytes(d) \/ ReadSocket(d) \/ PrependBytes(d)
    BY <1>6
  <2>2. CASE AppendBytes(d) \/ ReadSocket(d)
    <3>1. BQ!Put
      BY <1>3, <2>2 DEF BQ!Put
    <3> QED  BY <1>1, <1>3, <2>2, <3>1 DEF IInv, TypeOK, IsBuffer, BQ!Next
  <2>3. CASE PrependBytes(d)
    <3>1. BQ!PutFront
      BY <1>4, <2>3 DEF BQ!PutFront
    <3> QED  BY <1>4, <2>3, <3>1 DEF IInv, TypeOK, BQ!Next
  <2> QED  BY <2>1, <2>2, <2>3
<1>7. ASSUME NEW n \in 1..Readable(buf), buf' = Retrieve(buf, n)
      PROVE  IInv' /\ BQ!Next /\ buf'.size = buf.size
  <2>1. BQ!Take
    BY <1>5, <1>7 DEF BQ!Take
  <2> QED  BY <1>5, <1>7, <2>1 DEF IInv, TypeOK, BQ!Next
<1>8. CASE \E n \in 1..MaxBytes : RetrieveBytes(n)
  BY <1>7, <1>8 DEF RetrieveBytes
<1>9. CASE GetLine
  <2>1. LineLength(buf, Newline) \in 1..Readable(buf)
    BY <1>1, <1>9, LineLengthProperties DEF GetLine
  <2> QED  BY <1>7, <1>9, <2>1 DEF GetLine
<1>10. CASE RetrieveAllBytes
  <2>1. IsBuffer(buf', Byte) /\ buf'.size = buf.size /\ Contents(buf') = <<>>
    BY <1>1, <1>10, RetrieveAllProperties DEF RetrieveAllBytes, IInv
  <2>2. CASE Readable(buf) = 0
    <3>1. Contents(buf) = <<>>
      BY <1>2, <2>2, EmptySeq
    <3> QED  BY <2>1, <3>1 DEF IInv, TypeOK
  <2>3. CASE Readable(buf) # 0
    <3>1. Len(Contents(buf)) \in 1..Len(Contents(buf))
      BY <1>2, <2>3
    <3>2. SubSeq(Contents(buf), Len(Contents(buf)) + 1, Len(Contents(buf))) = <<>>
      BY <1>2, SubSeqEmpty
    <3>3. BQ!Take
      BY <2>1, <3>1, <3>2 DEF BQ!Take
    <3> QED  BY <2>1, <3>3 DEF IInv, TypeOK, BQ!Next
  <2> QED  BY <2>2, <2>3
<1> QED  BY <1>6, <1>8, <1>9, <1>10 DEF Next

-----------------------------------------------------------------------------
(* The invariant holds in every state.                                      *)
LEMMA Invariance == Spec => []IInv
<1>1. Init => IInv
  BY InitProperties
<1>2. IInv /\ [Next]_buf => IInv'
  <2> SUFFICES ASSUME IInv, [Next]_buf
               PROVE  IInv'
    OBVIOUS
  <2>1. CASE Next
    BY <2>1, NextProperties
  <2>2. CASE UNCHANGED buf
    BY <2>2 DEF IInv, TypeOK
  <2> QED  BY <2>1, <2>2
<1> QED  BY <1>1, <1>2, PTL DEF Spec

(* The reader never passes the writer nor the writer the end of the vector, *)
(* whatever is appended, read, prepended and retrieved: no difference of    *)
(* two indices (readableBytes, writableBytes) wraps.                        *)
THEOREM TypeCorrect == Spec => []TypeOK
<1>1. IInv => TypeOK
  BY DEF IInv
<1> QED  BY <1>1, Invariance, PTL

(* The Buffer implements the byte queue: every call of append, readFd,      *)
(* prepend, retrieve, retrieveAll and getline adds at the back, adds at the *)
(* front or takes from the front, wherever it moves the bytes to.           *)
THEOREM BufferIsByteQueue == Spec => ImplementsByteQueue
<1>1. Init => BQ!Init
  BY InitProperties
<1>2. IInv /\ [Next]_buf => [BQ!Next]_(Contents(buf))
  <2> SUFFICES ASSUME IInv, [Next]_buf
               PROVE  [BQ!Next]_(Contents(buf))
    OBVIOUS
  <2>1. CASE Next
    BY <2>1, NextProperties
  <2>2. CASE UNCHANGED buf
    BY <2>2
  <2> QED  BY <2>1, <2>2
<1> QED  BY <1>1, <1>2, Invariance, PTL DEF Spec, ImplementsByteQueue, BQ!Spec

(* makeSpace reallocates only when the bytes, the new ones and the reserve  *)
(* do not fit in the vector; in every other case it moves them down.        *)
THEOREM GrowthIsNeeded == Spec => GrowsOnlyWhenFull
<1>1. IInv /\ [Next]_buf =>
        [buf'.size # buf.size => Readable(buf') + CheapPrepend > buf.size]_buf
  BY NextProperties
<1> QED  BY <1>1, Invariance, PTL DEF Spec, GrowsOnlyWhenFull

-----------------------------------------------------------------------------
(* Packets. What Encode computes is a recursive function; the two facts     *)
(* about it that the packets need follow from the least number principle.   *)

(* Every set of numbers that is not empty has a least member.               *)
LEMMA LeastNumber ==
  ASSUME NEW T \in SUBSET Nat, T # {}
  PROVE  \E n \in T : \A m \in T : n <= m
<1> DEFINE R == {ss \in Nat \X Nat : ss[1] < ss[2]}
<1>1. R = OpToRel(<, Nat)
  BY DEF OpToRel
<1>2. IsWellFoundedOn(R, Nat)
  BY <1>1, NatLessThanWellFounded
<1> HIDE DEF R
<1>3. PICK x \in T : \A y \in T : ~(<<y, x>> \in R)
  BY <1>2, WFMin
<1>4. ASSUME NEW y \in T
      PROVE  x <= y
  <2>1. ~(<<y, x>> \in R) /\ <<y, x>> \in Nat \X Nat
    BY <1>3
  <2>2. ~(y < x)
    BY <2>1 DEF R
  <2> QED  BY <2>2
<1> QED  BY <1>4

\* f[i] is what the first i sequences of s are when put together (FlattenSeq).
Joins(f, s, n) == f = [i \in 1..n |-> IF i = 1 THEN s[i] ELSE f[i - 1] \o s[i]]

(* There is such a function, so that the recursive definition has a value.  *)
LEMMA JoinsExist ==
  ASSUME NEW s, NEW n \in Nat
  PROVE  \E f : Joins(f, s, n)
<1> DEFINE T == {k \in Nat : ~\E f : Joins(f, s, k)}
<1>1. \E f : Joins(f, s, 0)
  <2>1. Joins([i \in 1..0 |-> s], s, 0)
    BY DEF Joins
  <2> QED  BY <2>1
<1>2. ASSUME NEW k \in Nat, NEW f, Joins(f, s, k)
      PROVE  \E g : Joins(g, s, k + 1)
  <2> DEFINE g == [i \in 1..(k + 1) |->
                     IF i <= k THEN f[i] ELSE IF i = 1 THEN s[i] ELSE f[i - 1] \o s[i]]
  <2>1. \A i \in 1..k : f[i] = IF i = 1 THEN s[i] ELSE f[i - 1] \o s[i]
    BY <1>2 DEF Joins
  <2>2. ASSUME NEW i \in 1..(k + 1), i # 1
        PROVE  g[i - 1] = f[i - 1]
    BY <2>2
  <2>3. ASSUME NEW i \in 1..(k + 1)
        PROVE  g[i] = IF i = 1 THEN s[i] ELSE g[i - 1] \o s[i]
    <3>1. CASE i <= k
      <4>1. i \in 1..k  BY <3>1
      <4>2. g[i] = f[i]  BY <3>1
      <4> QED  BY <2>1, <2>2, <4>1, <4>2
    <3>2. CASE ~(i <= k)
      <4>1. g[i] = IF i = 1 THEN s[i] ELSE f[i - 1] \o s[i]
        BY <3>2
      <4> QED  BY <2>2, <4>1
    <3> QED  BY <3>1, <3>2
  <2>4. g = [i \in 1..(k + 1) |-> g[i]]
    OBVIOUS
  <2> HIDE DEF g
  <2>5. g = [i \in 1..(k + 1) |-> IF i = 1 THEN s[i] ELSE g[i - 1] \o s[i]]
    BY <2>3, <2>4
  <2> QED  BY <2>5 DEF Joins
<1> HIDE DEF T
<1>3. T = {}
  <2> SUFFICES ASSUME T # {}
               PROVE  FALSE
    OBVIOUS
  <2>1. PICK k \in T : \A m \in T : k <= m
    BY LeastNumber DEF T
  <2>2. k \in Nat /\ ~\E f : Joins(f, s, k)
    BY DEF T
  <2>3. k # 0
    BY <1>1, <2>2
  <2>4. k - 1 \in Nat /\ k - 1 \notin T /\ (k - 1) + 1 = k
    BY <2>1, <2>2, <2>3
  <2>5. \E f : Joins(f, s, k - 1)
    BY <2>4 DEF T
  <2> QED  BY <1>2, <2>2, <2>4, <2>5
<1> QED  BY <1>3 DEF T

(* It is determined by the sequences it joins.                              *)
LEMMA JoinsAgree ==
  ASSUME NEW t, NEW n \in Nat, NEW m \in Nat, n <= m,
         NEW f, NEW g, Joins(f, t, n), Joins(g, t, m)
  PROVE  \A i \in 1..n : f[i] = g[i]
<1> DEFINE T == {i \in 1..n : f[i] # g[i]}
<1>1. \A i \in 1..n : f[i] = IF i = 1 THEN t[i] ELSE f[i - 1] \o t[i]
  BY DEF Joins
<1>2. \A i \in 1..m : g[i] = IF i = 1 THEN t[i] ELSE g[i - 1] \o t[i]
  BY DEF Joins
<1>3. ASSUME T # {}
      PROVE  FALSE
  <2>0. T \in SUBSET Nat
    OBVIOUS
  <2> HIDE DEF T
  <2>1. PICK k \in T : \A j \in T : k <= j
    BY <1>3, <2>0, LeastNumber
  <2>2. k \in 1..n /\ k \in 1..m /\ f[k] # g[k]
    BY DEF T
  <2>3. k # 1
    BY <1>1, <1>2, <2>2
  <2>4. k - 1 \in 1..n /\ k - 1 \notin T
    BY <2>1, <2>2, <2>3
  <2>5. f[k - 1] = g[k - 1]
    BY <2>4 DEF T
  <2> QED  BY <1>1, <1>2, <2>2, <2>3, <2>5
<1> QED  BY <1>3

(* What is joined from sequences over a set is a sequence over it.          *)
LEMMA JoinsType ==
  ASSUME NEW B, NEW s \in Seq(Seq(B)), NEW n \in Nat, n <= Len(s),
         NEW f, Joins(f, s, n)
  PROVE  \A i \in 1..n : f[i] \in Seq(B)
<1> DEFINE T == {i \in 1..n : f[i] \notin Seq(B)}
<1>1. \A i \in 1..n : f[i] = IF i = 1 THEN s[i] ELSE f[i - 1] \o s[i]
  BY DEF Joins
<1>2. \A i \in 1..n : s[i] \in Seq(B)
  BY ElementOfSeq, LenProperties
<1>3. ASSUME T # {}
      PROVE  FALSE
  <2>0. T \in SUBSET Nat
    OBVIOUS
  <2> HIDE DEF T
  <2>1. PICK k \in T : \A j \in T : k <= j
    BY <1>3, <2>0, LeastNumber
  <2>2. k \in 1..n /\ f[k] \notin Seq(B)
    BY DEF T
  <2>3. k # 1
    BY <1>1, <1>2, <2>2
  <2>4. k - 1 \in 1..n /\ k - 1 \notin T
    BY <2>1, <2>2, <2>3
  <2>5. f[k - 1] \in Seq(B) /\ s[k] \in Seq(B) /\ f[k] = f[k - 1] \o s[k]
    BY <1>1, <1>2, <2>2, <2>3, <2>4 DEF T
  <2> QED  BY <2>2, <2>5, ConcatProperties
<1> QED  BY <1>3

(* FlattenSeq is the last of them.                                          *)
LEMMA FlattenJoins ==
  ASSUME NEW s, Len(s) \in Nat, Len(s) # 0
  PROVE  \E f : Joins(f, s, Len(s)) /\ FlattenSeq(s) = f[Len(s)]
<1> DEFINE J(f) == f = [i \in 1..Len(s) |-> IF i = 1 THEN s[i] ELSE f[i - 1] \o s[i]]
           h == CHOOSE f : J(f)
<1>1. \E f : J(f)
  BY JoinsExist DEF Joins
<1>2. J(h)
  BY <1>1
<1>3. FlattenSeq(s) = h[Len(s)]
  BY DEF FlattenSeq
<1> HIDE DEF h
<1>4. Joins(h, s, Len(s))
  BY <1>2 DEF Joins
<1> QED  BY <1>3, <1>4

(* Sequences put together stay sequences, and one more goes to the end.     *)
LEMMA FlattenAppend ==
  ASSUME NEW B, NEW s \in Seq(Seq(B)), NEW x \in Seq(B)
  PROVE  /\ FlattenSeq(s) \in Seq(B)
         /\ FlattenSeq(Append(s, x)) = FlattenSeq(s) \o x
<1> DEFINE t == Append(s, x)
<1>1. /\ t \in Seq(Seq(B)) /\ Len(t) = Len(s) + 1 /\ Len(s) \in Nat
      /\ t[Len(s) + 1] = x /\ \A i \in 1..Len(s) : s[i] = t[i]
  BY AppendProperties, LenProperties
<1> HIDE DEF t
<1>2. PICK g : Joins(g, t, Len(t)) /\ FlattenSeq(t) = g[Len(t)]
  <2>1. Len(t) \in Nat /\ Len(t) # 0
    BY <1>1
  <2> QED  BY <2>1, FlattenJoins
<1>3. CASE Len(s) = 0
  <2>1. s = <<>> /\ FlattenSeq(s) = <<>>
    BY <1>3, EmptySeq DEF FlattenSeq
  <2>2. FlattenSeq(t) = x
    BY <1>1, <1>2, <1>3 DEF Joins
  <2>3. <<>> \o x = x /\ <<>> \in Seq(B)
    BY ConcatEmptySeq, EmptySeq
  <2> QED  BY <2>1, <2>2, <2>3 DEF t
<1>4. CASE Len(s) # 0
  <2>1. PICK f : Joins(f, s, Len(s)) /\ FlattenSeq(s) = f[Len(s)]
    BY <1>1, <1>4, FlattenJoins
  <2>2. f[Len(s)] \in Seq(B)
    <3>1. Len(s) <= Len(s) /\ Len(s) \in 1..Len(s)
      BY <1>1, <1>4
    <3> QED  BY <1>1, <2>1, <3>1, JoinsType
  <2>3. f[Len(s)] = g[Len(s)]
    <3>1. Len(s) <= Len(t) /\ Len(t) \in Nat /\ Len(s) \in 1..Len(s)
      BY <1>1, <1>4
    <3>2. Joins(f, s, Len(s)) /\ Joins(g, t, Len(t)) /\ \A i \in 1..Len(s) : s[i] = t[i]
      BY <1>1, <1>2, <2>1
    <3> DEFINE n == Len(s)
               m == Len(t)
    <3>3. n \in Nat /\ m \in Nat /\ n <= m /\ n \in 1..n
      BY <1>1, <3>1
    <3>4. Joins(f, t, n) /\ Joins(g, t, m)
      BY <3>2 DEF Joins
    <3> HIDE DEF n, m
    <3>5. \A i \in 1..n : f[i] = g[i]
      BY <3>3, <3>4, JoinsAgree
    <3>6. f[n] = g[n]
      BY <3>3, <3>5
    <3> QED  BY <3>6 DEF n
  <2>4. g[Len(t)] = g[Len(s)] \o x
    <3>1. \A i \in 1..Len(t) : g[i] = IF i = 1 THEN t[i] ELSE g[i - 1] \o t[i]
      BY <1>2 DEF Joins
    <3>2. Len(t) \in 1..Len(t) /\ Len(t) # 1 /\ Len(t) - 1 = Len(s)
      BY <1>1, <1>4
    <3>3. t[Len(t)] = x
      BY <1>1
    <3>4. g[Len(t)] = g[Len(t) - 1] \o t[Len(t)]
      BY <3>1, <3>2
    <3> QED  BY <3>2, <3>3, <3>4
  <2> QED  BY <1>2, <2>1, <2>2, <2>3, <2>4 DEF t
<1> QED  BY <1>1, <1>3, <1>4

-----------------------------------------------------------------------------
(* Dividing by Radix leaves a number and a byte.                            *)
LEMMA HighProperties ==
  ASSUME NEW n \in Nat
  PROVE  /\ High(n) \in Nat /\ (n % Radix) \in Bytes
         /\ n = High(n) * Radix + (n % Radix)
         /\ \A m \in Nat : n < m * Radix => High(n) < m
<1>1. Radix \in Nat /\ Radix > 0
  BY FramingAssumption
<1>2. n \div Radix \in Nat /\ (n % Radix) \in 0..(Radix - 1)
  BY <1>1
<1>3. n = Radix * (n \div Radix) + (n % Radix)
  BY <1>1
<1>4. n = High(n) * Radix + (n % Radix)
  BY <1>1, <1>2, <1>3 DEF High
<1>5. ASSUME NEW m \in Nat, n < m * Radix, ~(High(n) < m)
      PROVE  FALSE
  <2> DEFINE h == High(n)
  <2>1. h \in Nat /\ h >= m
    BY <1>2, <1>5 DEF High
  <2> HIDE DEF h
  <2>2. \A d \in Nat : d * Radix >= 0
    BY <1>1
  <2>3. h - m \in Nat /\ (h - m) * Radix = h * Radix - m * Radix
    BY <1>1, <2>1
  <2>4. h * Radix >= m * Radix
    BY <1>1, <2>1, <2>2, <2>3
  <2>5. h * Radix <= n
    BY <1>1, <1>2, <1>4, <2>1 DEF h
  <2> QED  BY <1>1, <1>5, <2>1, <2>4, <2>5
<1> QED  BY <1>2, <1>4, <1>5 DEF High, Bytes

(* ntohl of htonl: a length that fits the header is read as it was written. *)
LEMMA HeaderProperties ==
  ASSUME NEW n \in Nat, n < Radix * Radix * Radix * Radix
  PROVE  /\ Header(n) \in Seq(Bytes) /\ Len(Header(n)) = HeaderSize
         /\ Length(Header(n)) = n
<1> DEFINE a == High(n)
           b == High(a)
           c == High(b)
<1>0. Radix \in Nat /\ Radix * Radix \in Nat /\ Radix * Radix * Radix \in Nat
  BY FramingAssumption
<1>1. a \in Nat /\ n = a * Radix + (n % Radix) /\ a < Radix * Radix * Radix
      /\ (n % Radix) \in Bytes
  BY <1>0, HighProperties
<1> HIDE DEF a
<1>2. b \in Nat /\ a = b * Radix + (a % Radix) /\ b < Radix * Radix /\ a % Radix \in Bytes
  BY <1>0, <1>1, HighProperties
<1> HIDE DEF b
<1>3. c \in Nat /\ b = c * Radix + (b % Radix) /\ c < Radix /\ b % Radix \in Bytes
  BY <1>0, <1>2, HighProperties
<1> HIDE DEF c
<1>4. c % Radix = c /\ c \in Bytes
  BY <1>0, <1>3 DEF Bytes
<1>5. Header(n) = <<c, b % Radix, a % Radix, (n % Radix)>>
  BY <1>4 DEF Header, a, b, c
<1>6. Length(<<c, b % Radix, a % Radix, (n % Radix)>>) = n
  BY <1>1, <1>2, <1>3 DEF Length
<1> QED  BY <1>1, <1>2, <1>3, <1>4, <1>5, <1>6 DEF HeaderSize

(* A packet is its header and its body.                                     *)
LEMMA PacketProperties ==
  ASSUME NEW b \in Bodies
  PROVE  /\ Packet(b) \in Seq(Bytes) /\ Len(Packet(b)) = HeaderSize + Len(b)
         /\ b \in Seq(Bytes) /\ Len(b) \in Nat
         /\ SubSeq(Packet(b), 1, HeaderSize) = Header(Len(b))
         /\ SubSeq(Packet(b), HeaderSize + 1, HeaderSize + Len(b)) = b
         /\ Length(Header(Len(b))) = Len(b)
<1>1. b \in Seq(Bytes) /\ Len(b) \in Nat /\ Len(b) < Radix * Radix * Radix * Radix
  BY FramingAssumption, LenProperties
<1> DEFINE h == Header(Len(b))
<1>2. h \in Seq(Bytes) /\ Len(h) = 4 /\ Length(h) = Len(b)
  BY <1>1, HeaderProperties DEF HeaderSize
<1>3. Packet(b) = h \o b
  BY DEF Packet
<1> HIDE DEF h
<1> DEFINE p == h \o b
<1>4. /\ p \in Seq(Bytes) /\ Len(p) = 4 + Len(b)
      /\ \A i \in 1..4 + Len(b) : p[i] = IF i <= 4 THEN h[i] ELSE b[i - 4]
  <2>1. /\ p \in Seq(Bytes) /\ Len(p) = Len(h) + Len(b)
        /\ \A i \in 1..(Len(h) + Len(b)) : p[i] = IF i <= Len(h) THEN h[i] ELSE b[i - Len(h)]
    BY <1>1, <1>2, ConcatProperties
  <2> HIDE DEF p
  <2> QED  BY <1>2, <2>1
<1> HIDE DEF p
<1>5. SubSeq(p, 1, 4) = h
  <2>1. \A i \in 1..4 : p[i] \in Bytes
    BY <1>1, <1>4, ElementOfSeq
  <2>2. /\ SubSeq(p, 1, 4) \in Seq(Bytes) /\ Len(SubSeq(p, 1, 4)) = 4
        /\ \A i \in 1..4 : SubSeq(p, 1, 4)[i] = p[i]
    BY <2>1, SubSeqProperties
  <2>3. \A i \in 1..4 : p[i] = h[i]
    BY <1>1, <1>4
  <2> QED  BY <1>2, <2>2, <2>3, SeqEqual
<1>6. SubSeq(p, 5, 4 + Len(b)) = b
  <2> DEFINE n == 4 + Len(b)
  <2>1. n \in Int /\ \A i \in 5..n : p[i] \in Bytes
    BY <1>1, <1>4, ElementOfSeq
  <2> HIDE DEF n
  <2>2. /\ SubSeq(p, 5, n) \in Seq(Bytes)
        /\ Len(SubSeq(p, 5, n)) = IF 5 <= n THEN n - 5 + 1 ELSE 0
        /\ \A i \in 1..(n - 5 + 1) : SubSeq(p, 5, n)[i] = p[5 + i - 1]
    BY <2>1, SubSeqProperties
  <2>3. Len(SubSeq(p, 5, n)) = Len(b)
    BY <1>1, <2>2 DEF n
  <2>4. \A i \in 1..Len(b) : i \in 1..(n - 5 + 1) /\ p[5 + i - 1] = b[i]
    BY <1>1, <1>4 DEF n
  <2>5. \A i \in 1..Len(b) : SubSeq(p, 5, n)[i] = b[i]
    BY <2>2, <2>4
  <2>6. SubSeq(p, 5, n) = b
    BY <1>1, <2>2, <2>3, <2>5, SeqEqual
  <2> QED  BY <2>6 DEF n
<1> QED  BY <1>1, <1>2, <1>3, <1>4, <1>5, <1>6 DEF HeaderSize, h, p

(* What is sent is a string of bytes.                                       *)
LEMMA EncodeType ==
  ASSUME NEW bs \in Seq(Bodies)
  PROVE  Encode(bs) \in Seq(Bytes)
<1> DEFINE s == [i \in DOMAIN bs |-> Packet(bs[i])]
<1>1. Len(bs) \in Nat /\ DOMAIN bs = 1..Len(bs)
  BY LenProperties
<1>2. \A i \in 1..Len(bs) : Packet(bs[i]) \in Seq(Bytes)
  BY PacketProperties, ElementOfSeq
<1>3. s \in [1..Len(bs) -> Seq(Bytes)]
  BY <1>1, <1>2
<1>4. s \in Seq(Seq(Bytes)) /\ <<>> \in Seq(Bytes)
  BY <1>1, <1>3, EmptySeq
<1>5. Encode(bs) = FlattenSeq(s)
  BY DEF Encode
<1> HIDE DEF s
<1> QED  BY <1>4, <1>5, FlattenAppend

(* Packets put together one after the other.                                *)
LEMMA BytesAssociative ==
  \A r, s, t \in Seq(Bytes) : (r \o s) \o t = r \o (s \o t)
BY ConcatAssociative, SMTT(20)

(* One more packet goes to the end of the bytes sent.                       *)
LEMMA EncodeAppend ==
  ASSUME NEW bs \in Seq(Bodies), NEW b \in Bodies
  PROVE  /\ Encode(bs) \in Seq(Bytes)
         /\ Encode(Append(bs, b)) = Encode(bs) \o Packet(b)
<1> DEFINE s == [i \in DOMAIN bs |-> Packet(bs[i])]
           t == [i \in DOMAIN Append(bs, b) |-> Packet(Append(bs, b)[i])]
           p == Packet(b)
<1>1. /\ Len(bs) \in Nat /\ DOMAIN bs = 1..Len(bs)
      /\ DOMAIN Append(bs, b) = 1..(Len(bs) + 1)
      /\ \A i \in 1..Len(bs) : Append(bs, b)[i] = bs[i]
      /\ Append(bs, b)[Len(bs) + 1] = b
  BY AppendProperties, LenProperties
<1>2. p \in Seq(Bytes) /\ \A i \in 1..Len(bs) : Packet(bs[i]) \in Seq(Bytes)
  BY PacketProperties, ElementOfSeq
<1>3. s \in [1..Len(bs) -> Seq(Bytes)]
  BY <1>1, <1>2
<1>4. s \in Seq(Seq(Bytes)) /\ Len(s) = Len(bs)
  BY <1>1, <1>3
<1>5. /\ Append(s, p) \in Seq(Seq(Bytes)) /\ Len(Append(s, p)) = Len(bs) + 1
      /\ \A i \in 1..Len(bs) : Append(s, p)[i] = s[i]
      /\ Append(s, p)[Len(bs) + 1] = p
  BY <1>2, <1>4, AppendProperties
<1>6. t \in [1..(Len(bs) + 1) -> Seq(Bytes)]
  <2>1. \A i \in 1..(Len(bs) + 1) : i \in 1..Len(bs) \/ i = Len(bs) + 1
    BY <1>1
  <2> QED  BY <1>1, <1>2, <2>1
<1>7. t \in Seq(Seq(Bytes)) /\ Len(t) = Len(bs) + 1
  BY <1>1, <1>6
<1>8. \A i \in 1..(Len(bs) + 1) : t[i] = Append(s, p)[i]
  <2> SUFFICES ASSUME NEW i \in 1..(Len(bs) + 1)
               PROVE  t[i] = Append(s, p)[i]
    OBVIOUS
  <2>1. CASE i \in 1..Len(bs)
    BY <1>1, <1>5, <2>1
  <2>2. CASE i = Len(bs) + 1
    BY <1>1, <1>5, <2>2
  <2> QED  BY <1>1, <2>1, <2>2
<1>9. Encode(bs) = FlattenSeq(s) /\ Encode(Append(bs, b)) = FlattenSeq(t)
  BY DEF Encode
<1> HIDE DEF s, t, p
<1>10. t = Append(s, p)
  BY <1>5, <1>7, <1>8, SeqEqual
<1>11. FlattenSeq(s) \in Seq(Bytes) /\ FlattenSeq(Append(s, p)) = FlattenSeq(s) \o p
  BY <1>2, <1>4, FlattenAppend
<1> QED  BY <1>9, <1>10, <1>11 DEF p

(* What tryExtractPacket reads from bytes that begin with a packet, when at *)
(* least the header has come: its length, and if it is all there its body,  *)
(* leaving what follows.                                                    *)
LEMMA ParseProperties ==
  ASSUME NEW q \in Seq(Bytes), NEW fly \in Seq(Bytes), NEW b \in Bodies,
         NEW z \in Seq(Bytes), q \o fly = Packet(b) \o z, HasHeader(q)
  PROVE  /\ BodyLength(q) = Len(b)
         /\ Len(q) >= HeaderSize + Len(b) =>
              Body(q) = b /\ Rest(q) \in Seq(Bytes) /\ Rest(q) \o fly = z
<1> DEFINE p == Packet(b)
           w == q \o fly
<1>1. /\ p \in Seq(Bytes) /\ Len(p) = 4 + Len(b) /\ Len(b) \in Nat
      /\ SubSeq(p, 1, 4) = Header(Len(b)) /\ SubSeq(p, 5, 4 + Len(b)) = b
      /\ Length(Header(Len(b))) = Len(b)
  BY PacketProperties DEF HeaderSize
<1> HIDE DEF p
<1>2. Len(q) \in Nat /\ Len(q) >= 4 /\ Len(fly) \in Nat /\ Len(z) \in Nat
  BY LenProperties DEF HasHeader, HeaderSize
<1>3. w = p \o z
  BY DEF p
<1>4. /\ w \in Seq(Bytes) /\ Len(w) = Len(q) + Len(fly)
      /\ \A i \in 1..Len(q) + Len(fly) : w[i] = IF i <= Len(q) THEN q[i] ELSE fly[i - Len(q)]
  BY ConcatProperties
<1> HIDE DEF w
<1>5. /\ Len(w) = Len(p) + Len(z)
      /\ \A i \in 1..Len(p) + Len(z) : w[i] = IF i <= Len(p) THEN p[i] ELSE z[i - Len(p)]
  <2>1. /\ Len(p \o z) = Len(p) + Len(z)
        /\ \A i \in 1..(Len(p) + Len(z)) :
              (p \o z)[i] = IF i <= Len(p) THEN p[i] ELSE z[i - Len(p)]
    <3>1. p \in Seq(Bytes) /\ z \in Seq(Bytes)
      BY <1>1
    <3> QED  BY <3>1, ConcatProperties
  <2> QED  BY <1>3, <2>1
<1>6. ASSUME NEW m \in 1..Len(q), NEW n \in 1..Len(q), n <= Len(p)
      PROVE  SubSeq(q, m, n) = SubSeq(p, m, n)
  <2>1. \A i \in m..n : q[i] = p[i]
    <3> SUFFICES ASSUME NEW i \in m..n
                 PROVE  q[i] = p[i]
      OBVIOUS
    <3>1. /\ i \in 1..(Len(q) + Len(fly)) /\ i <= Len(q)
          /\ i \in 1..(Len(p) + Len(z)) /\ i <= Len(p)
      BY <1>1, <1>2, <1>6
    <3> QED  BY <1>4, <1>5, <3>1
  <2>2. \A i \in m..n : q[i] \in Bytes /\ p[i] \in Bytes
    <3>1. \A i \in m..n : i \in 1..Len(q)
      BY <1>2
    <3> QED  BY <2>1, <3>1, ElementOfSeq
  <2>3. /\ SubSeq(q, m, n) \in Seq(Bytes) /\ SubSeq(p, m, n) \in Seq(Bytes)
        /\ Len(SubSeq(q, m, n)) = Len(SubSeq(p, m, n))
        /\ Len(SubSeq(q, m, n)) = IF m <= n THEN n - m + 1 ELSE 0
        /\ \A i \in 1..(n - m + 1) : SubSeq(q, m, n)[i] = q[m + i - 1]
                                     /\ SubSeq(p, m, n)[i] = p[m + i - 1]
    BY <2>2, SubSeqProperties
  <2>4. \A i \in 1..Len(SubSeq(q, m, n)) : SubSeq(q, m, n)[i] = SubSeq(p, m, n)[i]
    <3> SUFFICES ASSUME NEW i \in 1..Len(SubSeq(q, m, n))
                 PROVE  SubSeq(q, m, n)[i] = SubSeq(p, m, n)[i]
      OBVIOUS
    <3>1. i \in 1..(n - m + 1) /\ m + i - 1 \in m..n
      BY <2>3
    <3> QED  BY <2>1, <2>3, <3>1
  <2> QED  BY <2>3, <2>4, SeqEqual
<1>7. BodyLength(q) = Len(b)
  <2>1. SubSeq(q, 1, 4) = SubSeq(p, 1, 4)
    <3>1. 1 \in 1..Len(q) /\ 4 \in 1..Len(q) /\ 4 <= Len(p)
      BY <1>1, <1>2
    <3> QED  BY <1>6, <3>1
  <2> QED  BY <1>1, <2>1 DEF BodyLength, HeaderSize
<1>8. ASSUME Len(q) >= 4 + Len(b)
      PROVE  Body(q) = b /\ Rest(q) \in Seq(Bytes) /\ Rest(q) \o fly = z
  <2> DEFINE n == 4 + Len(b)
  <2>1. Body(q) = SubSeq(q, 5, n) /\ Rest(q) = SubSeq(q, n + 1, Len(q))
    BY <1>7 DEF Body, Rest, HeaderSize
  <2>2. n \in Nat /\ n <= Len(q) /\ n = Len(p) /\ n >= 4
    BY <1>1, <1>8
  <2>3. SubSeq(q, 5, n) = b
    <3>1. CASE n = 4
      <4>1. SubSeq(q, 5, n) = <<>> /\ SubSeq(p, 5, n) = <<>>
        BY <2>2, <3>1, SubSeqEmpty
      <4> QED  BY <1>1, <4>1
    <3>2. CASE n # 4
      <4>1. 5 \in 1..Len(q) /\ n \in 1..Len(q) /\ n <= Len(p)
        BY <1>2, <2>2, <3>2
      <4> QED  BY <1>1, <1>6, <4>1
    <3> QED  BY <3>1, <3>2
  <2> HIDE DEF n
  <2> DEFINE r == SubSeq(q, n + 1, Len(q))
  <2>4. /\ r \in Seq(Bytes) /\ Len(r) = Len(q) - n
        /\ \A i \in 1..Len(q) - n : r[i] = q[n + i]
    <3>1. n + 1 \in Int /\ Len(q) \in Int /\ \A i \in (n + 1)..Len(q) : q[i] \in Bytes
      <4>1. \A i \in (n + 1)..Len(q) : i \in 1..Len(q)
        BY <1>2, <2>2
      <4> QED  BY <1>2, <2>2, <4>1, ElementOfSeq
    <3>2. /\ r \in Seq(Bytes)
          /\ Len(r) = IF n + 1 <= Len(q) THEN Len(q) - (n + 1) + 1 ELSE 0
          /\ \A i \in 1..(Len(q) - (n + 1) + 1) : r[i] = q[(n + 1) + i - 1]
      BY <3>1, SubSeqProperties
    <3> HIDE DEF r
    <3>3. Len(r) = Len(q) - n
      BY <1>2, <2>2, <3>2
    <3>4. \A i \in 1..Len(q) - n : i \in 1..(Len(q) - (n + 1) + 1) /\ (n + 1) + i - 1 = n + i
      BY <1>2, <2>2
    <3> QED  BY <3>2, <3>3, <3>4
  <2> HIDE DEF r
  <2>5. /\ r \o fly \in Seq(Bytes) /\ Len(r \o fly) = Len(r) + Len(fly)
        /\ \A i \in 1..Len(r) + Len(fly) :
              (r \o fly)[i] = IF i <= Len(r) THEN r[i] ELSE fly[i - Len(r)]
    BY <2>4, ConcatProperties
  <2>6. Len(r \o fly) = Len(z)
    <3>1. Len(w) = Len(q) + Len(fly) /\ Len(w) = n + Len(z)
      BY <1>4, <1>5, <2>2
    <3>2. Len(r \o fly) = (Len(q) - n) + Len(fly)
      BY <2>4, <2>5
    <3>3. Len(q) + Len(fly) = n + Len(z)
      BY <3>1
    <3>4. \A i \in Nat, j \in Nat, k \in Nat : i + j = n + k => (i - n) + j = k
      BY <2>2
    <3>5. (Len(q) - n) + Len(fly) = Len(z)
      BY <1>2, <3>3, <3>4
    <3> QED  BY <3>2, <3>5
  <2>7. ASSUME NEW i \in 1..Len(z)
        PROVE  (r \o fly)[i] = z[i]
    <3>1. n + i \in 1..Len(w) /\ i \in 1..Len(r) + Len(fly)
      BY <1>2, <1>5, <2>2, <2>5, <2>6
    <3>2. w[n + i] = z[i]
      BY <1>2, <1>5, <2>2, <3>1
    <3>3. w[n + i] = IF i <= Len(r) THEN r[i] ELSE fly[i - Len(r)]
      <4>1. CASE i <= Len(r)
        BY <1>2, <1>4, <2>2, <2>4, <3>1, <4>1
      <4>2. CASE ~(i <= Len(r))
        <5>1. ~(n + i <= Len(q)) /\ (n + i) - Len(q) = i - Len(r)
          BY <1>2, <2>2, <2>4, <4>2
        <5> QED  BY <1>4, <3>1, <4>2, <5>1
      <4> QED  BY <4>1, <4>2
    <3> QED  BY <2>5, <3>1, <3>2, <3>3
  <2>8. r \o fly = z
    BY <2>5, <2>6, <2>7, SeqEqual
  <2> QED  BY <2>1, <2>3, <2>4, <2>8 DEF r
<1> QED  BY <1>7, <1>8 DEF HeaderSize

(* The length a header holds is a number, and a packet that is all there    *)
(* can be cut out of the buffer.                                            *)
LEMMA CutProperties ==
  ASSUME NEW q \in Seq(Bytes), HasHeader(q)
  PROVE  /\ BodyLength(q) \in Nat
         /\ Len(q) >= HeaderSize + BodyLength(q) =>
              Body(q) \in Seq(Bytes) /\ Rest(q) \in Seq(Bytes)
<1>1. Len(q) \in Nat /\ Len(q) >= 4 /\ \A i \in 1..Len(q) : q[i] \in Bytes
  BY LenProperties, ElementOfSeq DEF HasHeader, HeaderSize
<1> DEFINE h == SubSeq(q, 1, 4)
<1>2. \A i \in 1..4 : h[i] \in Bytes
  <2>1. \A i \in 1..4 : q[i] \in Bytes
    BY <1>1
  <2>2. \A i \in 1..4 : h[i] = q[i]
    BY <2>1, SubSeqProperties
  <2> QED  BY <2>1, <2>2
<1>3. BodyLength(q) = Length(h)
  BY DEF BodyLength, HeaderSize
<1> HIDE DEF h
<1>4. h[1] \in Nat /\ h[2] \in Nat /\ h[3] \in Nat /\ h[4] \in Nat /\ Radix \in Nat
  BY <1>2, FramingAssumption DEF Bytes
<1>5. \A a \in Nat, b \in Nat : a * Radix + b \in Nat
  BY <1>4
<1>6. BodyLength(q) \in Nat
  <2>1. h[1] * Radix + h[2] \in Nat
    BY <1>4, <1>5
  <2>2. (h[1] * Radix + h[2]) * Radix + h[3] \in Nat
    BY <1>4, <1>5, <2>1
  <2>3. ((h[1] * Radix + h[2]) * Radix + h[3]) * Radix + h[4] \in Nat
    BY <1>4, <1>5, <2>2
  <2> QED  BY <1>3, <2>3 DEF Length
<1>7. ASSUME Len(q) >= 4 + BodyLength(q)
      PROVE  Body(q) \in Seq(Bytes) /\ Rest(q) \in Seq(Bytes)
  <2> DEFINE n == 4 + BodyLength(q)
  <2>1. n \in Nat /\ n <= Len(q)
    BY <1>6, <1>7
  <2>2. Body(q) = SubSeq(q, 5, n) /\ Rest(q) = SubSeq(q, n + 1, Len(q))
    BY DEF Body, Rest, HeaderSize
  <2> HIDE DEF n
  <2>3. \A i \in 5..n : q[i] \in Bytes
    BY <1>1, <2>1
  <2>4. \A i \in (n + 1)..Len(q) : q[i] \in Bytes
    BY <1>1, <2>1
  <2>5. SubSeq(q, 5, n) \in Seq(Bytes)
    BY <2>1, <2>3, SubSeqProperties
  <2>6. n + 1 \in Int /\ Len(q) \in Int
    BY <1>1, <2>1
  <2>7. SubSeq(q, n + 1, Len(q)) \in Seq(Bytes)
    BY <2>4, <2>6, SubSeqProperties
  <2> QED  BY <2>2, <2>5, <2>7
<1> QED  BY <1>6, <1>7 DEF HeaderSize

(* What is sent later does not change the packets before.                   *)
LEMMA PrefixOfAppend ==
  ASSUME NEW S, NEW s \in Seq(S), NEW e \in S, NEW n \in 0..Len(s)
  PROVE  /\ SubSeq(Append(s, e), 1, n) = SubSeq(s, 1, n)
         /\ SubSeq(s, 1, n) \in Seq(S) /\ Len(SubSeq(s, 1, n)) = n
         /\ \A i \in 1..n : SubSeq(s, 1, n)[i] = s[i]
<1> DEFINE t == Append(s, e)
<1>1. /\ Len(s) \in Nat /\ t \in Seq(S) /\ Len(t) = Len(s) + 1
      /\ \A i \in 1..Len(s) : t[i] = s[i] /\ s[i] \in S
  BY AppendProperties, LenProperties, ElementOfSeq
<1> HIDE DEF t
<1>2. n \in Int /\ \A i \in 1..n : t[i] = s[i] /\ s[i] \in S
  BY <1>1
<1>3. /\ SubSeq(s, 1, n) \in Seq(S) /\ Len(SubSeq(s, 1, n)) = IF 1 <= n THEN n - 1 + 1 ELSE 0
      /\ \A i \in 1..(n - 1 + 1) : SubSeq(s, 1, n)[i] = s[1 + i - 1]
  BY <1>2, SubSeqProperties
<1>4. /\ SubSeq(t, 1, n) \in Seq(S) /\ Len(SubSeq(t, 1, n)) = IF 1 <= n THEN n - 1 + 1 ELSE 0
      /\ \A i \in 1..(n - 1 + 1) : SubSeq(t, 1, n)[i] = t[1 + i - 1]
  BY <1>2, SubSeqProperties
<1>5. n \in Nat
  BY <1>1
<1>6. Len(SubSeq(s, 1, n)) = n /\ Len(SubSeq(t, 1, n)) = n
  BY <1>3, <1>4, <1>5
<1>7. \A i \in 1..n : SubSeq(s, 1, n)[i] = s[i] /\ SubSeq(t, 1, n)[i] = s[i]
  BY <1>2, <1>3, <1>4, <1>5
<1>8. SubSeq(t, 1, n) = SubSeq(s, 1, n)
  BY <1>3, <1>4, <1>6, <1>7, SeqEqual
<1> QED  BY <1>3, <1>6, <1>7, <1>8 DEF t

(* A packet after a prefix makes the prefix that ends with it.              *)
LEMMA PrefixAndNext ==
  ASSUME NEW S, NEW s \in Seq(S), NEW k \in 1..Len(s)
  PROVE  Append(SubSeq(s, 1, k - 1), s[k]) = SubSeq(s, 1, k)
<1>1. /\ Len(s) \in Nat /\ k \in Nat /\ k - 1 \in 0..Len(s) /\ k \in 0..Len(s) /\ s[k] \in S
      /\ (k - 1) + 1 = k
  BY LenProperties, ElementOfSeq
<1> DEFINE n == k - 1
           a == SubSeq(s, 1, n)
           c == SubSeq(s, 1, k)
<1>2. /\ a \in Seq(S) /\ Len(a) = n /\ \A i \in 1..n : a[i] = s[i]
      /\ n \in Nat /\ n + 1 = k
  BY <1>1, PrefixOfAppend
<1>3. c \in Seq(S) /\ Len(c) = k /\ \A i \in 1..k : c[i] = s[i]
  BY <1>1, PrefixOfAppend
<1> HIDE DEF a, c, n
<1>4. /\ Append(a, s[k]) \in Seq(S) /\ Len(Append(a, s[k])) = n + 1
      /\ \A i \in 1..n : Append(a, s[k])[i] = a[i]
      /\ Append(a, s[k])[n + 1] = s[k]
  BY <1>1, <1>2, AppendProperties
<1>5. \A i \in 1..k : Append(a, s[k])[i] = c[i]
  <2>1. \A i \in 1..k : i \in 1..n \/ i = n + 1
    BY <1>2
  <2> QED  BY <1>2, <1>3, <1>4, <2>1
<1>6. Append(a, s[k]) = c
  BY <1>2, <1>3, <1>4, <1>5, SeqEqual
<1> QED  BY <1>6 DEF a, c, n

-----------------------------------------------------------------------------
(* The invariant of the packets.                                            *)

FrTypes ==
  /\ inputBuffer \in Seq(Bytes) /\ flying \in Seq(Bytes)
  /\ sent \in Seq(Bodies) /\ handled \in Seq(Seq(Bytes))
  /\ reading \in BOOLEAN /\ oversized \in BOOLEAN

\* Every packet sent is where it belongs among the bytes sent.
Placed ==
  \A k \in 1..Len(sent) : \E z \in Seq(Bytes) :
    Encode(sent) = Encode(SubSeq(sent, 1, k - 1)) \o (Packet(sent[k]) \o z)

\* As long as no length was too long, the packets have been taken in order.
InStep ==
  ~oversized =>
    /\ Len(handled) <= Len(sent) /\ handled = SubSeq(sent, 1, Len(handled))
    /\ \A i \in 1..Len(handled) : Len(sent[i]) <= MaxBody
    /\ Encode(handled) \o (inputBuffer \o flying) = Encode(sent)

\* It was the length of a packet that is too long, and those before it have
\* been handled.
OutOfStep ==
  oversized => \E k \in 1..Len(sent) :
    /\ Len(sent[k]) > MaxBody /\ k - 1 <= Len(handled)
    /\ \A i \in 1..(k - 1) : handled[i] = sent[i]

\* Between two reads the buffer holds no packet, nor a length that is too long.
AtRest == ~reading => ~Complete(inputBuffer) /\ ~TooLong(inputBuffer)

FrInv == FrTypes /\ Placed /\ InStep /\ OutOfStep /\ AtRest

(* Nothing has been sent.                                                   *)
LEMMA FrInitProperties == FrInit => FrInv
<1> SUFFICES ASSUME FrInit
             PROVE  FrInv
  OBVIOUS
<1>1. /\ inputBuffer = <<>> /\ reading = FALSE /\ flying = <<>>
      /\ sent = <<>> /\ handled = <<>> /\ oversized = FALSE
  BY DEF FrInit
<1>2. FrTypes
  BY <1>1, EmptySeq DEF FrTypes
<1>3. Len(sent) = 0 /\ Len(handled) = 0 /\ Len(inputBuffer) = 0
  BY <1>1, EmptySeq
<1>4. Placed /\ OutOfStep
  BY <1>1, <1>3 DEF Placed, OutOfStep
<1>5. InStep
  <2>1. SubSeq(sent, 1, 0) = <<>>
    BY SubSeqEmpty
  <2>2. FlattenSeq(<<>>) = <<>>
    BY DEF FlattenSeq
  <2>3. Encode(<<>>) = <<>>
    <3>1. [i \in DOMAIN (<<>>) |-> Packet((<<>>)[i])] = <<>>
      OBVIOUS
    <3> QED  BY <2>2, <3>1 DEF Encode
  <2>4. <<>> \o (<<>> \o <<>>) = <<>>
    OBVIOUS
  <2> QED  BY <1>1, <1>3, <2>1, <2>3, <2>4 DEF InStep
<1>6. AtRest
  BY <1>3 DEF AtRest, Complete, TooLong, HasHeader, HeaderSize
<1> QED  BY <1>2, <1>4, <1>5, <1>6 DEF FrInv

(* In step, what has been handled are bodies that were sent.                *)
LEMMA HandledBodies ==
  ASSUME FrInv, ~oversized
  PROVE  handled \in Seq(Bodies)
<1>1. /\ sent \in Seq(Bodies) /\ handled \in Seq(Seq(Bytes))
      /\ Len(handled) <= Len(sent) /\ handled = SubSeq(sent, 1, Len(handled))
  BY DEF FrInv, FrTypes, InStep
<1>2. Len(handled) \in 0..Len(sent) /\ Len(sent) \in Nat /\ Len(handled) \in Nat
  BY <1>1, LenProperties
<1>3. \A i \in 1..Len(handled) : sent[i] \in Bodies
  BY <1>1, <1>2, ElementOfSeq
<1> DEFINE n == Len(handled)
<1>4. n \in Int /\ \A i \in 1..n : sent[i] \in Bodies
  BY <1>2, <1>3
<1>5. handled = SubSeq(sent, 1, n)
  BY <1>1
<1> HIDE DEF n
<1>6. SubSeq(sent, 1, n) \in Seq(Bodies)
  BY <1>4, SubSeqProperties
<1> QED  BY <1>5, <1>6

(* The client's packet goes behind the others.                              *)
LEMMA SendProperties ==
  ASSUME FrInv, NEW body \in Bodies, ClientSends(body)
  PROVE  FrInv'
<1>1. /\ inputBuffer \in Seq(Bytes) /\ flying \in Seq(Bytes)
      /\ sent \in Seq(Bodies) /\ handled \in Seq(Seq(Bytes))
  BY DEF FrInv, FrTypes
<1>2. /\ sent' = Append(sent, body) /\ flying' = flying \o Packet(body)
      /\ inputBuffer' = inputBuffer /\ reading' = reading
      /\ handled' = handled /\ oversized' = oversized
  BY DEF ClientSends
<1> DEFINE p == Packet(body)
<1>3. p \in Seq(Bytes)
  BY PacketProperties
<1>4. Encode(sent) \in Seq(Bytes) /\ Encode(sent') = Encode(sent) \o p
  BY <1>1, <1>2, EncodeAppend
<1>5. /\ sent' \in Seq(Bodies) /\ Len(sent') = Len(sent) + 1 /\ Len(sent) \in Nat
      /\ \A i \in 1..Len(sent) : sent'[i] = sent[i]
      /\ sent'[Len(sent) + 1] = body
  BY <1>1, <1>2, AppendProperties, LenProperties
<1>6. \A n \in 0..Len(sent) : SubSeq(sent', 1, n) = SubSeq(sent, 1, n)
  BY <1>1, <1>2, PrefixOfAppend
<1>7. FrTypes'
  <2>1. flying \o p \in Seq(Bytes)
    BY <1>1, <1>3, ConcatProperties
  <2> QED  BY <1>2, <1>5, <2>1 DEF FrInv, FrTypes
<1>8. Placed'
  <2> SUFFICES ASSUME NEW k \in 1..Len(sent')
               PROVE  \E z \in Seq(Bytes) : Encode(sent') =
                        Encode(SubSeq(sent', 1, k - 1)) \o (Packet(sent'[k]) \o z)
    BY DEF Placed
  <2>1. CASE k \in 1..Len(sent)
    <3>1. PICK z \in Seq(Bytes) :
            Encode(sent) = Encode(SubSeq(sent, 1, k - 1)) \o (Packet(sent[k]) \o z)
      BY <2>1 DEF FrInv, Placed
    <3> DEFINE a == Encode(SubSeq(sent, 1, k - 1))
               c == Packet(sent[k])
    <3>2. k - 1 \in 0..Len(sent) /\ sent[k] \in Bodies /\ sent'[k] = sent[k]
      BY <1>1, <1>5, <2>1, ElementOfSeq
    <3>3. SubSeq(sent', 1, k - 1) = SubSeq(sent, 1, k - 1) /\ SubSeq(sent, 1, k - 1) \in Seq(Bodies)
      BY <1>1, <1>2, <3>2, PrefixOfAppend
    <3>4. a \in Seq(Bytes)
      BY <3>2, <3>3, EncodeAppend
    <3>5. c \in Seq(Bytes)
      BY <3>2, PacketProperties
    <3> HIDE DEF a, c, p
    <3>6. (a \o (c \o z)) \o p = a \o (c \o (z \o p))
      <4>1. c \o z \in Seq(Bytes)
        BY <3>5, ConcatProperties
      <4>2. (a \o (c \o z)) \o p = a \o ((c \o z) \o p)
        <5> DEFINE y == c \o z
        <5>1. y \in Seq(Bytes)
          BY <4>1
        <5> HIDE DEF y
        <5>2. (a \o y) \o p = a \o (y \o p)
          BY <1>3, <3>4, <5>1, BytesAssociative, Zenon
        <5> QED  BY <5>2 DEF y
      <4>3. (c \o z) \o p = c \o (z \o p)
        BY <1>3, <3>5, BytesAssociative, Zenon
      <4> QED  BY <4>2, <4>3
    <3>7. z \o p \in Seq(Bytes)
      BY <1>3, ConcatProperties
    <3>8. Encode(sent') = a \o (c \o (z \o p))
      BY <1>4, <3>1, <3>6 DEF a, c
    <3> QED  BY <3>2, <3>3, <3>7, <3>8 DEF a, c
  <2>2. CASE k = Len(sent) + 1
    <3>1. SubSeq(sent', 1, k - 1) = sent
      <4>1. k - 1 = Len(sent) /\ Len(sent) \in 0..Len(sent)
        BY <1>5, <2>2
      <4> QED  BY <1>1, <1>6, <4>1, SubSeqFull
    <3>2. p \o <<>> = p /\ <<>> \in Seq(Bytes)
      BY <1>3, ConcatEmptySeq, EmptySeq
    <3>3. Packet(sent'[k]) = p
      BY <1>5, <2>2
    <3> HIDE DEF p
    <3> QED  BY <1>4, <3>1, <3>2, <3>3
  <2>3. k \in 1..Len(sent) \/ k = Len(sent) + 1
    BY <1>5
  <2> QED  BY <2>1, <2>2, <2>3
<1>9. InStep'
  <2> SUFFICES ASSUME ~oversized
               PROVE  InStep'
    BY <1>2 DEF InStep
  <2>1. /\ Len(handled) <= Len(sent) /\ handled = SubSeq(sent, 1, Len(handled))
        /\ \A i \in 1..Len(handled) : Len(sent[i]) <= MaxBody
        /\ Encode(handled) \o (inputBuffer \o flying) = Encode(sent)
    BY DEF FrInv, InStep
  <2>2. Len(handled) \in 0..Len(sent) /\ \A i \in 1..Len(handled) : i \in 1..Len(sent)
    BY <1>1, <1>5, <2>1, LenProperties
  <2>3. handled = SubSeq(sent', 1, Len(handled))
    BY <1>6, <2>1, <2>2
  <2>4. \A i \in 1..Len(handled) : Len(sent'[i]) <= MaxBody
    BY <1>5, <2>1, <2>2
  <2> DEFINE e == Encode(handled)
  <2>5. e \in Seq(Bytes)
    <3>1. handled \in Seq(Bodies)
      BY HandledBodies
    <3> QED  BY <3>1, EncodeType
  <2> HIDE DEF e, p
  <2>6. (e \o (inputBuffer \o flying)) \o p = e \o (inputBuffer \o (flying \o p))
    <3>1. inputBuffer \o flying \in Seq(Bytes)
      BY <1>1, ConcatProperties
    <3>2. (e \o (inputBuffer \o flying)) \o p = e \o ((inputBuffer \o flying) \o p)
      BY <1>3, <2>5, <3>1, BytesAssociative, Zenon
    <3>3. (inputBuffer \o flying) \o p = inputBuffer \o (flying \o p)
      BY <1>1, <1>3, BytesAssociative, Zenon
    <3> QED  BY <3>2, <3>3
  <2>7. Encode(handled) \o (inputBuffer \o (flying \o p)) = Encode(sent')
    BY <1>4, <2>1, <2>6 DEF e
  <2>8. Len(handled) <= Len(sent')
    BY <1>1, <1>5, <2>2
  <2> QED  BY <1>2, <2>3, <2>4, <2>7, <2>8 DEF InStep, p
<1>10. OutOfStep'
  <2> SUFFICES ASSUME oversized
               PROVE  OutOfStep'
    BY <1>2 DEF OutOfStep
  <2>1. PICK k \in 1..Len(sent) :
          /\ Len(sent[k]) > MaxBody /\ k - 1 <= Len(handled)
          /\ \A i \in 1..(k - 1) : handled[i] = sent[i]
    BY DEF FrInv, OutOfStep
  <2>2. k \in 1..Len(sent') /\ sent'[k] = sent[k] /\ \A i \in 1..(k - 1) : sent'[i] = sent[i]
    BY <1>5
  <2>3. /\ Len(sent'[k]) > MaxBody /\ k - 1 <= Len(handled')
        /\ \A i \in 1..(k - 1) : handled'[i] = sent'[i]
    BY <1>2, <2>1, <2>2
  <2> QED  BY <2>2, <2>3 DEF OutOfStep
<1>11. AtRest'
  BY <1>2 DEF FrInv, AtRest, Complete, TooLong, HasHeader, BodyLength
<1> QED  BY <1>7, <1>8, <1>9, <1>10, <1>11 DEF FrInv

(* readFd moves the front of what is on its way to the back of the buffer.  *)
LEMMA ReadProperties ==
  ASSUME FrInv, NEW n \in 1..Len(flying), HandleRead(n)
  PROVE  FrInv'
<1>1. /\ inputBuffer \in Seq(Bytes) /\ flying \in Seq(Bytes)
      /\ sent \in Seq(Bodies) /\ handled \in Seq(Seq(Bytes))
  BY DEF FrInv, FrTypes
<1> DEFINE f == SubSeq(flying, 1, n)
           g == SubSeq(flying, n + 1, Len(flying))
<1>2. /\ inputBuffer' = inputBuffer \o f /\ flying' = g /\ reading' = TRUE
      /\ sent' = sent /\ handled' = handled /\ oversized' = oversized
  BY DEF HandleRead
<1>3. f \in Seq(Bytes) /\ g \in Seq(Bytes)
  <2>1. Len(flying) \in Nat /\ \A i \in 1..Len(flying) : flying[i] \in Bytes
    BY <1>1, LenProperties, ElementOfSeq
  <2>2. /\ n \in Int /\ n + 1 \in Int /\ Len(flying) \in Int
        /\ \A i \in 1..n : flying[i] \in Bytes
        /\ \A i \in (n + 1)..Len(flying) : flying[i] \in Bytes
    BY <2>1
  <2> QED  BY <2>2, SubSeqProperties
<1>4. f \o g = flying
  <2>1. 1 \in 1..(Len(flying) + 1) /\ n \in (1 - 1)..Len(flying) /\ Len(flying) \in n..Len(flying)
    BY <1>1, LenProperties
  <2>2. f \o g = SubSeq(flying, 1, Len(flying))
    BY <1>1, <2>1, ConcatAdjacentSubSeq
  <2> QED  BY <1>1, <2>2, SubSeqFull
<1> HIDE DEF f, g
<1>5. (inputBuffer \o f) \o g = inputBuffer \o flying
  <2>1. (inputBuffer \o f) \o g = inputBuffer \o (f \o g)
    <3>1. inputBuffer \in Seq(Bytes) /\ f \in Seq(Bytes) /\ g \in Seq(Bytes)
      BY <1>1, <1>3
    <3> QED  BY <3>1, BytesAssociative, Zenon
  <2> QED  BY <1>4, <2>1
<1>6. FrTypes'
  <2>1. inputBuffer \o f \in Seq(Bytes)
    BY <1>1, <1>3, ConcatProperties
  <2> QED  BY <1>2, <1>3, <2>1 DEF FrInv, FrTypes
<1>7. Placed'
  BY <1>2 DEF FrInv, Placed
<1>8. InStep'
  BY <1>2, <1>5 DEF FrInv, InStep
<1>9. OutOfStep'
  BY <1>2 DEF FrInv, OutOfStep
<1>10. AtRest'
  BY <1>2 DEF AtRest
<1> QED  BY <1>6, <1>7, <1>8, <1>9, <1>10 DEF FrInv

(* In step, a header in the buffer is that of the next packet sent, and the *)
(* bytes behind it are that packet's.                                       *)
LEMMA NextPacket ==
  ASSUME FrInv, ~oversized, HasHeader(inputBuffer)
  PROVE  \E k \in 1..Len(sent) :
           /\ k = Len(handled) + 1 /\ BodyLength(inputBuffer) = Len(sent[k])
           /\ Len(inputBuffer) >= HeaderSize + Len(sent[k]) =>
                /\ Body(inputBuffer) = sent[k] /\ Rest(inputBuffer) \in Seq(Bytes)
                /\ Append(handled, sent[k]) = SubSeq(sent, 1, k)
                /\ Encode(Append(handled, sent[k])) \o (Rest(inputBuffer) \o flying) = Encode(sent)
<1>1. /\ inputBuffer \in Seq(Bytes) /\ flying \in Seq(Bytes)
      /\ sent \in Seq(Bodies) /\ handled \in Seq(Seq(Bytes))
  BY DEF FrInv, FrTypes
<1>2. /\ Len(handled) <= Len(sent) /\ handled = SubSeq(sent, 1, Len(handled))
      /\ Encode(handled) \o (inputBuffer \o flying) = Encode(sent)
  BY DEF FrInv, InStep
<1>3. Len(handled) \in 0..Len(sent) /\ Len(sent) \in Nat /\ Len(handled) \in Nat
  BY <1>1, <1>2, LenProperties
<1> DEFINE e == Encode(handled)
           w == inputBuffer \o flying
           k == Len(handled) + 1
<1>4. handled \in Seq(Bodies)
  BY HandledBodies
<1>5. e \in Seq(Bytes)
  BY <1>4, EncodeType
<1>6. w \in Seq(Bytes) /\ Len(w) >= 4 /\ w # <<>>
  <2>1. /\ w \in Seq(Bytes) /\ Len(w) = Len(inputBuffer) + Len(flying)
        /\ Len(inputBuffer) >= 4 /\ Len(inputBuffer) \in Nat /\ Len(flying) \in Nat
    BY <1>1, ConcatProperties, LenProperties DEF HasHeader, HeaderSize
  <2>2. Len(w) >= 4
    BY <2>1
  <2> QED  BY <2>1, <2>2, EmptySeq
<1>7. k \in 1..Len(sent) /\ k - 1 = Len(handled)
  <2>1. CASE Len(handled) = Len(sent)
    <3>1. handled = sent
      BY <1>1, <1>2, <2>1, SubSeqFull
    <3>2. e \o w = e
      BY <1>2, <3>1
    <3> HIDE DEF e, w
    <3>3. w = <<>>
      BY <1>5, <1>6, <3>2, ConcatEqualIffEmpty
    <3> QED  BY <1>6, <3>3
  <2>2. CASE Len(handled) # Len(sent)
    BY <1>3, <2>2
  <2> QED  BY <2>1, <2>2
<1> DEFINE b == sent[k]
           c == Packet(b)
<1>8. b \in Bodies /\ c \in Seq(Bytes)
  BY <1>1, <1>7, ElementOfSeq, PacketProperties
<1>9. PICK z \in Seq(Bytes) : Encode(sent) = e \o (c \o z)
  BY <1>2, <1>7 DEF FrInv, Placed
<1>10. w = c \o z
  <2> HIDE DEF c
  <2> DEFINE y == c \o z
  <2>1. y \in Seq(Bytes)
    BY <1>8, ConcatProperties
  <2>2. e \o w = e \o y
    BY <1>2, <1>9
  <2> HIDE DEF e, w, y
  <2>3. w = y
    BY <1>5, <1>6, <2>1, <2>2, ConcatSimplifications
  <2> QED  BY <2>3 DEF y
<1>11. /\ BodyLength(inputBuffer) = Len(b)
       /\ Len(inputBuffer) >= HeaderSize + Len(b) =>
            /\ Body(inputBuffer) = b /\ Rest(inputBuffer) \in Seq(Bytes)
            /\ Rest(inputBuffer) \o flying = z
  <2> HIDE DEF b, k
  <2>1. inputBuffer \o flying = Packet(b) \o z
    BY <1>10
  <2> QED  BY <1>1, <1>8, <2>1, ParseProperties
<1>12. Append(handled, b) = SubSeq(sent, 1, k)
  <2>1. Append(SubSeq(sent, 1, k - 1), sent[k]) = SubSeq(sent, 1, k)
    BY <1>1, <1>7, PrefixAndNext
  <2> QED  BY <1>2, <1>7, <2>1
<1>13. Encode(Append(handled, b)) \o z = Encode(sent)
  <2>1. Encode(Append(handled, b)) = e \o c
    BY <1>4, <1>8, EncodeAppend
  <2> HIDE DEF e, c
  <2>2. (e \o c) \o z = e \o (c \o z)
    BY <1>5, <1>8, BytesAssociative, Zenon
  <2> QED  BY <1>9, <2>1, <2>2
<1> HIDE DEF c, w, e
<1> QED  BY <1>7, <1>11, <1>12, <1>13

(* A packet is taken out of the buffer: in step, it is the next one sent.   *)
LEMMA TakeProperties ==
  ASSUME FrInv, TakePacket
  PROVE  FrInv'
<1>1. /\ inputBuffer \in Seq(Bytes) /\ flying \in Seq(Bytes)
      /\ sent \in Seq(Bodies) /\ handled \in Seq(Seq(Bytes))
  BY DEF FrInv, FrTypes
<1>2. /\ HasHeader(inputBuffer) /\ ~(BodyLength(inputBuffer) > MaxBody)
      /\ Len(inputBuffer) >= HeaderSize + BodyLength(inputBuffer)
  BY DEF TakePacket, Complete, TooLong
<1>3. /\ handled' = Append(handled, Body(inputBuffer)) /\ inputBuffer' = Rest(inputBuffer)
      /\ reading' = TRUE /\ flying' = flying /\ sent' = sent /\ oversized' = oversized
  BY DEF TakePacket, FrInv, FrTypes
<1>4. Body(inputBuffer) \in Seq(Bytes) /\ Rest(inputBuffer) \in Seq(Bytes)
  BY <1>1, <1>2, CutProperties
<1>5. /\ handled' \in Seq(Seq(Bytes)) /\ Len(handled') = Len(handled) + 1 /\ Len(handled) \in Nat
      /\ \A i \in 1..Len(handled) : handled'[i] = handled[i]
  BY <1>1, <1>3, <1>4, AppendProperties, LenProperties
<1>6. FrTypes'
  BY <1>3, <1>4, <1>5 DEF FrInv, FrTypes
<1>7. Placed'
  BY <1>3 DEF FrInv, Placed
<1>8. InStep'
  <2> SUFFICES ASSUME ~oversized
               PROVE  InStep'
    BY <1>3 DEF InStep
  <2>1. PICK k \in 1..Len(sent) :
          /\ k = Len(handled) + 1 /\ BodyLength(inputBuffer) = Len(sent[k])
          /\ Len(inputBuffer) >= HeaderSize + Len(sent[k]) =>
               /\ Body(inputBuffer) = sent[k] /\ Rest(inputBuffer) \in Seq(Bytes)
               /\ Append(handled, sent[k]) = SubSeq(sent, 1, k)
               /\ Encode(Append(handled, sent[k])) \o (Rest(inputBuffer) \o flying) = Encode(sent)
    BY <1>2, NextPacket
  <2>2. /\ handled' = SubSeq(sent, 1, k) /\ Len(handled') = k
        /\ Encode(handled') \o (inputBuffer' \o flying) = Encode(sent)
    BY <1>2, <1>3, <1>5, <2>1
  <2>3. \A i \in 1..k : Len(sent[i]) <= MaxBody
    <3> SUFFICES ASSUME NEW i \in 1..k
                 PROVE  Len(sent[i]) <= MaxBody
      OBVIOUS
    <3>1. CASE i = k
      <4>1. sent[k] \in Bodies /\ Len(sent[k]) \in Nat /\ MaxBody \in Nat
        BY <1>1, ElementOfSeq, PacketProperties, FramingAssumption
      <4> QED  BY <1>2, <2>1, <3>1, <4>1
    <3>2. CASE i # k
      <4>1. i \in 1..Len(handled)
        BY <1>5, <2>1, <3>2
      <4> QED  BY <4>1 DEF FrInv, InStep
    <3> QED  BY <3>1, <3>2
  <2>4. k <= Len(sent)
    BY <1>1, LenProperties
  <2> QED  BY <1>3, <2>2, <2>3, <2>4 DEF InStep
<1>9. OutOfStep'
  <2> SUFFICES ASSUME oversized
               PROVE  OutOfStep'
    BY <1>3 DEF OutOfStep
  <2>1. PICK k \in 1..Len(sent) :
          /\ Len(sent[k]) > MaxBody /\ k - 1 <= Len(handled)
          /\ \A i \in 1..(k - 1) : handled[i] = sent[i]
    BY DEF FrInv, OutOfStep
  <2>2. k - 1 <= Len(handled') /\ \A i \in 1..(k - 1) : handled'[i] = sent[i]
    <3>1. \A i \in 1..(k - 1) : i \in 1..Len(handled)
      BY <1>5, <2>1
    <3> QED  BY <1>5, <2>1, <3>1
  <2> QED  BY <1>3, <2>1, <2>2 DEF OutOfStep
<1>10. AtRest'
  BY <1>3 DEF AtRest
<1> QED  BY <1>6, <1>7, <1>8, <1>9, <1>10 DEF FrInv

(* The loop ends with too little in the buffer, or with a length that is    *)
(* too long: in step, that of the next packet sent.                         *)
LEMMA EndProperties ==
  ASSUME FrInv, NoPacket
  PROVE  FrInv'
<1>1. /\ inputBuffer \in Seq(Bytes) /\ flying \in Seq(Bytes)
      /\ sent \in Seq(Bodies) /\ handled \in Seq(Seq(Bytes))
  BY DEF FrInv, FrTypes
<1>2. /\ ~Complete(inputBuffer) /\ oversized' = (oversized \/ TooLong(inputBuffer))
      /\ inputBuffer' = IF TooLong(inputBuffer) THEN <<>> ELSE inputBuffer
      /\ reading' = FALSE /\ flying' = flying /\ sent' = sent /\ handled' = handled
  BY DEF NoPacket
<1>3. Placed'
  BY <1>2 DEF FrInv, Placed
<1>4. CASE TooLong(inputBuffer)
  <2>1. inputBuffer' = <<>> /\ oversized' = TRUE
    BY <1>2, <1>4
  <2>2. FrTypes'
    BY <1>2, <2>1, EmptySeq DEF FrInv, FrTypes
  <2>3. AtRest'
    <3>1. Len(inputBuffer') = 0
      BY <2>1, EmptySeq
    <3> QED  BY <3>1 DEF AtRest, Complete, TooLong, HasHeader, HeaderSize
  <2>4. OutOfStep'
    <3>1. CASE oversized
      BY <1>2, <3>1 DEF FrInv, OutOfStep
    <3>2. CASE ~oversized
      <4>1. PICK k \in 1..Len(sent) :
              k = Len(handled) + 1 /\ BodyLength(inputBuffer) = Len(sent[k])
        BY <1>4, <3>2, NextPacket DEF TooLong
      <4>2. Len(sent[k]) > MaxBody
        BY <1>4, <4>1 DEF TooLong
      <4>3. sent[k] \in Bodies /\ Len(handled) \in Nat /\ Len(sent) \in Nat
        BY <1>1, ElementOfSeq, LenProperties
      <4>4. k - 1 = Len(handled) /\ Len(handled) \in 0..Len(sent)
        BY <4>1, <4>3
      <4>5. handled = SubSeq(sent, 1, Len(handled))
        BY <3>2 DEF FrInv, InStep
      <4>6. \A i \in 1..Len(handled) : SubSeq(sent, 1, Len(handled))[i] = sent[i]
        <5> DEFINE n == Len(handled)
        <5>1. n \in 0..Len(sent)
          BY <4>4
        <5> HIDE DEF n
        <5>2. \A i \in 1..n : SubSeq(sent, 1, n)[i] = sent[i]
          BY <1>1, <4>3, <5>1, PrefixOfAppend
        <5> QED  BY <5>2 DEF n
      <4>7. k - 1 <= Len(handled) /\ \A i \in 1..(k - 1) : handled[i] = sent[i]
        BY <4>3, <4>4, <4>5, <4>6
      <4> QED  BY <1>2, <4>2, <4>7 DEF OutOfStep
    <3> QED  BY <3>1, <3>2
  <2> QED  BY <1>3, <2>1, <2>2, <2>3, <2>4 DEF FrInv, InStep
<1>5. CASE ~TooLong(inputBuffer)
  <2>1. inputBuffer' = inputBuffer /\ oversized' = oversized
    BY <1>2, <1>5 DEF FrInv, FrTypes
  <2>2. FrTypes'
    BY <1>2, <2>1 DEF FrInv, FrTypes
  <2>3. InStep'
    BY <1>2, <2>1 DEF FrInv, InStep
  <2>4. OutOfStep'
    BY <1>2, <2>1 DEF FrInv, OutOfStep
  <2>5. AtRest'
    BY <1>2, <1>5, <2>1 DEF AtRest, Complete, TooLong, HasHeader, BodyLength
  <2> QED  BY <1>3, <2>2, <2>3, <2>4, <2>5 DEF FrInv
<1> QED  BY <1>4, <1>5

(* The invariant holds in every state.                                      *)
LEMMA FrInvariance == FrSpec => []FrInv
<1>1. FrInv /\ [FrNext]_vars => FrInv'
  <2> SUFFICES ASSUME FrInv, [FrNext]_vars
               PROVE  FrInv'
    OBVIOUS
  <2>1. CASE FrNext
    BY <2>1, SendProperties, ReadProperties, TakeProperties, EndProperties DEF FrNext, Reading
  <2>2. CASE UNCHANGED vars
    BY <2>2 DEF vars, FrInv, FrTypes, Placed, InStep, OutOfStep, AtRest,
                Complete, TooLong, HasHeader, BodyLength
  <2> QED  BY <2>1, <2>2
<1> QED  BY <1>1, FrInitProperties, PTL DEF FrSpec

(* However TCP cuts and joins the packets, onMessage hands over the bodies  *)
(* that were sent, in order and whole, up to the first whose length is      *)
(* above the limit, and until then loses no byte.                           *)
THEOREM FramesArriveAsSent == FrSpec => []FramesAsSent
<1>1. ASSUME FrInv
      PROVE  FramesAsSent
  <2>1. /\ inputBuffer \in Seq(Bytes) /\ flying \in Seq(Bytes)
        /\ sent \in Seq(Bodies) /\ handled \in Seq(Seq(Bytes))
        /\ Len(sent) \in Nat /\ Len(handled) \in Nat
    BY <1>1, LenProperties DEF FrInv, FrTypes
  <2>2. ASSUME ~oversized
        PROVE  /\ Proper(Len(handled)) /\ IsPrefix(handled, sent)
               /\ Encode(handled) \o inputBuffer \o flying = Encode(sent)
    <3>1. /\ Len(handled) <= Len(sent) /\ handled = SubSeq(sent, 1, Len(handled))
          /\ \A i \in 1..Len(handled) : Len(sent[i]) <= MaxBody
          /\ Encode(handled) \o (inputBuffer \o flying) = Encode(sent)
      BY <1>1, <2>2 DEF FrInv, InStep
    <3>2. SubSeq(handled, 1, Len(handled)) = handled
      BY <2>1, SubSeqFull
    <3> DEFINE e == Encode(handled)
    <3>3. e \in Seq(Bytes)
      BY <1>1, <2>2, HandledBodies, EncodeType
    <3> HIDE DEF e
    <3>4. (e \o inputBuffer) \o flying = e \o (inputBuffer \o flying)
      BY <2>1, <3>3, BytesAssociative, Zenon
    <3> QED  BY <3>1, <3>2, <3>4 DEF Proper, IsPrefix, e
  <2>3. ASSUME oversized, NEW n \in 1..Len(sent), Proper(n)
        PROVE  n <= Len(handled) /\ handled[n] = sent[n]
    <3>1. PICK k \in 1..Len(sent) :
            /\ Len(sent[k]) > MaxBody /\ k - 1 <= Len(handled)
            /\ \A i \in 1..(k - 1) : handled[i] = sent[i]
      BY <1>1, <2>3 DEF FrInv, OutOfStep
    <3>2. \A i \in 1..n : Len(sent[i]) <= MaxBody
      BY <2>3 DEF Proper
    <3>3. Len(sent[k]) \in Nat /\ MaxBody \in Nat
      BY <2>1, ElementOfSeq, PacketProperties, FramingAssumption
    <3>4. ~(k \in 1..n)
      BY <3>1, <3>2, <3>3
    <3>5. n \in 1..(k - 1)
      BY <2>1, <3>4
    <3> QED  BY <2>1, <3>1, <3>5
  <2> QED  BY <2>2, <2>3 DEF FramesAsSent
<1> QED  BY <1>1, FrInvariance, PTL

(* onMessage returns only when the buffer holds no complete packet, and     *)
(* never keeps as many bytes as the longest packet has.                     *)
THEOREM NoPacketLeftBehind == FrSpec => []NothingLeftBehind
<1>1. ASSUME FrInv
      PROVE  NothingLeftBehind
  <2> SUFFICES ASSUME ~reading
               PROVE  ~Complete(inputBuffer) /\ Len(inputBuffer) < HeaderSize + MaxBody
    BY DEF NothingLeftBehind
  <2>1. ~Complete(inputBuffer) /\ ~TooLong(inputBuffer)
    BY <1>1 DEF FrInv, AtRest
  <2>2. inputBuffer \in Seq(Bytes) /\ Len(inputBuffer) \in Nat /\ MaxBody \in Nat
    BY <1>1, LenProperties, FramingAssumption DEF FrInv, FrTypes
  <2>3. CASE HasHeader(inputBuffer)
    <3>1. BodyLength(inputBuffer) \in Nat
      BY <2>2, <2>3, CutProperties
    <3>2. BodyLength(inputBuffer) <= MaxBody
      BY <2>1, <2>2, <2>3, <3>1 DEF TooLong
    <3>3. ~(Len(inputBuffer) >= HeaderSize + BodyLength(inputBuffer))
      BY <2>1, <2>3 DEF Complete
    <3> QED  BY <2>1, <2>2, <3>1, <3>2, <3>3 DEF HeaderSize
  <2>4. CASE ~HasHeader(inputBuffer)
    BY <2>1, <2>2, <2>4 DEF HasHeader, HeaderSize
  <2> QED  BY <2>3, <2>4
<1> QED  BY <1>1, FrInvariance, PTL
=============================================================================
