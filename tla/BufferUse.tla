------------------------------- MODULE BufferUse -------------------------------
(***************************************************************************)
(* One Buffer whose methods are called in any order, within what their      *)
(* assertions ask of the caller.                                            *)
(***************************************************************************)
EXTENDS Buffer

CONSTANTS Byte,         \* the bytes, with Zero
          Newline,      \* the one getline looks for
          Data,         \* byte strings that are put in
          MaxBytes      \* bound: readable bytes

ASSUME DataAssumption ==
  Byte \subseteq Nat /\ Zero \in Byte /\ Newline \in Byte /\ Data \subseteq Seq(Byte)

VARIABLE buf

Init == buf = NewBuffer

\* append, also by way of beginWrite, ensureWritableBytes and hasWritten.
AppendBytes(d) == buf' = AppendTo(buf, d)

\* Nothing changes when the socket reports an error or the end of the file.
ReadSocket(d) == Len(d) \in 1..ReadMax(buf) /\ buf' = ReadFd(buf, d)

PrependBytes(d) == Len(d) <= Prependable(buf) /\ buf' = Prepend(buf, d)

\* retrieve, retrieveAsString, retrieveAllAsString.
RetrieveBytes(n) == n \in 1..Readable(buf) /\ buf' = Retrieve(buf, n)

RetrieveAllBytes == buf' = RetrieveAll(buf)

GetLine == LineLength(buf, Newline) > 0
           /\ buf' = Retrieve(buf, LineLength(buf, Newline))

Fits(d) == Readable(buf) + Len(d) <= MaxBytes

Next == \/ \E d \in Data : Fits(d) /\ (AppendBytes(d) \/ ReadSocket(d) \/ PrependBytes(d))
        \/ \E n \in 1..MaxBytes : RetrieveBytes(n)
        \/ RetrieveAllBytes \/ GetLine

Spec == Init /\ [][Next]_buf

-----------------------------------------------------------------------------
(* The indices are ordered and within the vector, whatever was called, so   *)
(* that no unsigned difference of them wraps.                               *)
TypeOK == IsBuffer(buf, Byte)

(* The Buffer is a byte queue: moving the bytes down, growing, and reading  *)
(* a socket into two places lose, double and reorder nothing.               *)
BQ == INSTANCE ByteQueue WITH queue <- Contents(buf)
ImplementsByteQueue == BQ!Spec

(* The vector grows only when the bytes with the reserve of kCheapPrepend   *)
(* do not fit in the one there is (makeSpace): otherwise they are moved.    *)
GrowsOnlyWhenFull ==
  [][buf'.size # buf.size => Readable(buf') + CheapPrepend > buf.size]_buf
=============================================================================
