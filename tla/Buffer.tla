------------------------------- MODULE Buffer -------------------------------
(***************************************************************************)
(* SummerNet/net/Buffer: a vector of bytes with two indices,               *)
(*                                                                         *)
(*    0 .. readIndex        prependable: PrepSize bytes never used, and    *)
(*                          the room of what was already retrieved         *)
(*    readIndex .. writeIndex    the bytes stored                          *)
(*    writeIndex .. size         writable                                  *)
(*                                                                         *)
(* An Append that finds too little room behind writeIndex either moves the *)
(* stored bytes to the front or resizes the vector.  The bytes appended    *)
(* are numbered as in ByteQueue, which Buffer implements.                  *)
(***************************************************************************)
EXTENDS Naturals, Sequences

CONSTANTS PrepSize,   \* prepSize
          InitSize,   \* initSize
          ExtraSize,  \* size of the second buffer of ReadFd
          MaxAppend,  \* bound: bytes in one Append
          MaxSize,    \* bound: size of the vector
          Period      \* bytes are numbered modulo Period, which is above MaxSize

ASSUME SizeAssumption ==
  /\ PrepSize \in Nat /\ InitSize \in Nat /\ ExtraSize \in Nat
  /\ MaxAppend \in Nat /\ MaxSize \in Nat
  /\ Period \in Nat /\ Period > MaxSize

Bytes == 0..(Period - 1)

VARIABLES
  buf,       \* the vector and the two indices
  arriving,  \* number of the next byte to be appended
  failed     \* an assert has failed: the program has aborted

vars == <<buf, arriving, failed>>

TypeOK ==
  /\ buf \in [cells : Seq(Bytes), read : Nat, write : Nat]
  /\ buf.write \in 0..Len(buf.cells)
  /\ arriving \in Bytes
  /\ failed \in BOOLEAN

Init ==
  /\ buf = [cells |-> [i \in 1..(InitSize + PrepSize) |-> 0],
            read |-> PrepSize, write |-> PrepSize]
  /\ arriving = 0
  /\ failed = FALSE

-----------------------------------------------------------------------------
ReadableBytes(b) == b.write - b.read
WritableBytes(b) == Len(b.cells) - b.write
PrependableBytes(b) == b.read

(* The bytes stored, from Peek() on.                                       *)
Stored(b) == SubSeq(b.cells, b.read + 1, b.write)

(* buffer_.resize(size): new bytes are 0.                                  *)
Resized(b, size) ==
  [b EXCEPT !.cells = [i \in 1..size |-> IF i <= Len(b.cells) THEN b.cells[i] ELSE 0]]

(* Faulty variant: std::copy to the very front of the vector.              *)
Moved_TooFar(b) ==
  [cells |-> [i \in DOMAIN b.cells |->
                IF i \in 1..ReadableBytes(b)
                THEN b.cells[b.read + i] ELSE b.cells[i]],
   read  |-> PrepSize,
   write |-> PrepSize + ReadableBytes(b)]

(* Faulty variant: writeIndex_ is not moved with the bytes.                *)
Moved_WriteKept(b) == [b EXCEPT !.read = PrepSize]

(* std::copy of the stored bytes to PrepSize.                              *)
Moved(b) ==
  [cells |-> [i \in DOMAIN b.cells |->
                IF i \in (PrepSize + 1)..(PrepSize + ReadableBytes(b))
                THEN b.cells[b.read + i - PrepSize] ELSE b.cells[i]],
   read  |-> PrepSize,
   write |-> PrepSize + ReadableBytes(b)]

(* MakeSpace's condition: the room behind and all the room before.         *)
MustGrow(b, len) == WritableBytes(b) + PrependableBytes(b) < len

MakeSpace(b, len) == IF MustGrow(b, len) THEN Resized(b, b.write + len) ELSE Moved(b)

(* MakeSpace's asserts; the second is true unless nothing is readable,     *)
(* being the assignment readable = ReadableBytes().                        *)
MakeSpaceAsserts(b, len) ==
  ~MustGrow(b, len) => PrepSize < b.read /\ ReadableBytes(Moved(b)) # 0

Reserved(b, len) == IF WritableBytes(b) < len THEN MakeSpace(b, len) ELSE b

(* Faulty variant: no assert, the memcpy runs past the end.                *)
AppendAsserts_Unchecked(b, len) == TRUE

(* Append's assert, and those of the MakeSpace before it.                  *)
AppendAsserts(b, len) ==
  /\ WritableBytes(b) < len => MakeSpaceAsserts(b, len)
  /\ WritableBytes(Reserved(b, len)) >= len

(* memcpy to BeginWrite().                                                 *)
Written(b, bytes) ==
  [b EXCEPT !.cells = [i \in DOMAIN @ |-> IF i \in (b.write + 1)..(b.write + Len(bytes))
                                          THEN bytes[i - b.write] ELSE @[i]],
            !.write = @ + Len(bytes)]

Appended(b, bytes) == Written(Reserved(b, Len(bytes)), bytes)

RetrievedAll(b) == [b EXCEPT !.read = PrepSize, !.write = PrepSize]

(* Faulty variant: the indices are not reset when all is retrieved.        *)
Retrieved_NoReset(b, len) == [b EXCEPT !.read = @ + len]

Retrieved(b, len) == IF len < ReadableBytes(b) THEN [b EXCEPT !.read = @ + len]
                     ELSE RetrievedAll(b)

(* The next n bytes to arrive.                                             *)
Arrivals(n) == [i \in 1..n |-> (arriving + i - 1) % Period]

-----------------------------------------------------------------------------
AppendBytes(n) ==
  /\ ~failed
  /\ failed' = ~AppendAsserts(buf, n)
  /\ Len(Reserved(buf, n).cells) <= MaxSize
  /\ IF failed' THEN UNCHANGED <<buf, arriving>>
     ELSE /\ buf' = Appended(buf, Arrivals(n))
          /\ arriving' = (arriving + n) % Period

(* readv into the writable bytes and, when these are few, the extra buffer.*)
MaxRead(b) == IF WritableBytes(b) < ExtraSize THEN WritableBytes(b) + ExtraSize
              ELSE WritableBytes(b)

(* The vector once readv has filled it with the first bytes.               *)
Filled(b, bytes) == Written(b, bytes)

(* ReadFd when readv returns n > 0; on 0 and -1 it changes nothing.        *)
ReadFd(n) ==
  LET writable == WritableBytes(buf)
      full     == Filled(buf, Arrivals(writable))
      rest     == SubSeq(Arrivals(n), writable + 1, n)
  IN /\ ~failed
     /\ n <= MaxRead(buf)
     /\ n > writable => Len(Reserved(full, n - writable).cells) <= MaxSize
     /\ failed' = (n > writable /\ ~AppendAsserts(full, n - writable))
     /\ IF failed' THEN UNCHANGED <<buf, arriving>>
        ELSE /\ buf' = IF n <= writable THEN Filled(buf, Arrivals(n))
                       ELSE Appended(full, rest)
             /\ arriving' = (arriving + n) % Period

(* Retrieve(len), and RetrieveAsString(len) after it copied the bytes out. *)
Retrieve(len) ==
  /\ ~failed
  /\ len <= ReadableBytes(buf)
  /\ buf' = Retrieved(buf, len)
  /\ UNCHANGED <<arriving, failed>>

RetrieveAll ==
  /\ ~failed
  /\ buf' = RetrievedAll(buf)
  /\ UNCHANGED <<arriving, failed>>

Next == \/ \E n \in 1..MaxAppend : AppendBytes(n)
        \/ \E n \in 1..(MaxSize + ExtraSize) : ReadFd(n)
        \/ \E n \in 0..MaxSize : Retrieve(n)
        \/ RetrieveAll

Spec == Init /\ [][Next]_vars

-----------------------------------------------------------------------------
(* Properties                                                              *)

(* The indices stay in order behind the PrepSize bytes, and a buffer with  *)
(* no byte stored has both at PrepSize: Retrieve, Append and MakeSpace     *)
(* all count on it.                                                        *)
IndicesOK ==
  /\ PrepSize <= buf.read /\ buf.read <= buf.write
  /\ buf.read = buf.write => buf.read = PrepSize

(* An Append whose bytes, with those stored, fit behind the PrepSize bytes *)
(* fails no assert, whichever way the free room is split.                  *)
FittingAppendOk ==
  \A n \in 1..MaxAppend :
    ReadableBytes(buf) + n <= Len(buf.cells) - PrepSize => AppendAsserts(buf, n)

(* The asserts of Append and MakeSpace: after MakeSpace(len) there are len *)
(* writable bytes.                                                         *)
SpaceMade == ~failed

(* Buffer implements ByteQueue: through every move and resize, whether the *)
(* bytes came by Append or by both halves of a readv, those stored are the *)
(* ones that arrived and were not retrieved, in order.                     *)
BQ == INSTANCE ByteQueue WITH queue <- Stored(buf), MaxPut <- MaxSize + ExtraSize

Implements == BQ!Spec
=============================================================================
