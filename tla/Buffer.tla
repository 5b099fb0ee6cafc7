-------------------------------- MODULE Buffer --------------------------------
(***************************************************************************)
(* class Buffer: one vector of bytes with a reader and a writer index. The  *)
(* bytes between them are readable, those after the writer writable, those  *)
(* before the reader free for a header to be prepended.  A Buffer is a      *)
(* record here and its methods are operators, so that the modules that own  *)
(* buffers use them in their actions.                                       *)
(***************************************************************************)
EXTENDS Integers, Sequences

CONSTANTS InitialSize,      \* kInitialSize
          CheapPrepend,     \* kCheapPrepend
          ExtraSize         \* the buffer readFd keeps on the stack

ASSUME SizeAssumption ==
  InitialSize \in Nat /\ CheapPrepend \in Nat /\ ExtraSize \in Nat

\* What a cell holds that has never been written: vector::resize zeroes it.
Zero == 0

\* _buffer is a function on 0..size-1.
NewBuffer == [size   |-> InitialSize + CheapPrepend,
              store  |-> [i \in 0..(InitialSize + CheapPrepend - 1) |-> Zero],
              reader |-> CheapPrepend,
              writer |-> CheapPrepend]

Readable(b) == b.writer - b.reader
Writable(b) == b.size - b.writer
Prependable(b) == b.reader

Contents(b) == [i \in 1..Readable(b) |-> b.store[b.reader + i - 1]]

\* std::copy of the byte string d to the cells from at on.
Copy(store, at, d) ==
  [i \in DOMAIN store |->
     IF i \in at..(at + Len(d) - 1) THEN d[i - at + 1] ELSE store[i]]

Resize(b, n) == [b EXCEPT !.size = n,
                          !.store = [i \in 0..(n - 1) |->
                             IF i < b.size THEN b.store[i] ELSE Zero]]

MutMakeSpace(b, len) ==     \* grows although moving would do, by one byte
  IF Prependable(b) + Writable(b) <= len + CheapPrepend
  THEN Resize(b, b.writer + len)
  ELSE [b EXCEPT !.store = Copy(@, CheapPrepend, Contents(b)),
                 !.reader = CheapPrepend,
                 !.writer = CheapPrepend + Readable(b)]

MutMoveIndices(b, len) ==   \* does not move the bytes with the indices
  IF Prependable(b) + Writable(b) < len + CheapPrepend
  THEN Resize(b, b.writer + len)
  ELSE [b EXCEPT !.reader = CheapPrepend,
                 !.writer = CheapPrepend + Readable(b)]

\* Grow only if moving the readable bytes down to the reserve is not enough.
MakeSpace(b, len) ==
  IF Prependable(b) + Writable(b) < len + CheapPrepend
  THEN Resize(b, b.writer + len)
  ELSE [b EXCEPT !.store = Copy(@, CheapPrepend, Contents(b)),
                 !.reader = CheapPrepend,
                 !.writer = CheapPrepend + Readable(b)]

EnsureWritable(b, len) == IF len > Writable(b) THEN MakeSpace(b, len) ELSE b

\* Bytes put at beginWrite(), then hasWritten.
Written(b, d) == [b EXCEPT !.store = Copy(@, b.writer, d), !.writer = @ + Len(d)]

AppendTo(b, d) == Written(EnsureWritable(b, Len(d)), d)

\* The most one readv takes: the second vector is used only when it is larger.
ReadMax(b) == Writable(b) + (IF Writable(b) >= ExtraSize THEN 0 ELSE ExtraSize)

\* readFd when the socket gave the bytes d: what does not fit went to the stack.
ReadFd(b, d) ==
  IF Len(d) <= Writable(b) THEN Written(b, d)
  ELSE AppendTo(Written(b, SubSeq(d, 1, Writable(b))),
                SubSeq(d, Writable(b) + 1, Len(d)))

MutRetrieve(b, n) == [b EXCEPT !.reader = @ + n + 1]      \* one byte too many

Retrieve(b, n) == [b EXCEPT !.reader = @ + n]

RetrieveAll(b) == [b EXCEPT !.reader = CheapPrepend, !.writer = CheapPrepend]

Prepend(b, d) == [b EXCEPT !.reader = @ - Len(d),
                           !.store = Copy(@, b.reader - Len(d), d)]

\* getline: how many bytes it takes, none without a newline.
LineLength(b, newline) ==
  IF \E i \in 1..Readable(b) : Contents(b)[i] = newline
  THEN CHOOSE i \in 1..Readable(b) :
         /\ Contents(b)[i] = newline
         /\ \A j \in 1..(i - 1) : Contents(b)[j] # newline
  ELSE 0

IsBuffer(b, Byte) ==
  /\ DOMAIN b = {"size", "store", "reader", "writer"}
  /\ b.size \in Nat /\ b.reader \in Nat /\ b.writer \in Nat
  /\ b.store \in [0..(b.size - 1) -> Byte]
  /\ b.reader <= b.writer /\ b.writer <= b.size
=============================================================================
