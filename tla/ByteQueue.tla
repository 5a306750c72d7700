----------------------------- MODULE ByteQueue -----------------------------
(***************************************************************************)
(* What a Buffer promises: the bytes put in come out once, in order.  They *)
(* are numbered in the order they arrive, modulo Period, so that any byte  *)
(* lost, repeated or out of place is seen.  Buffer implements this         *)
(* (Buffer!Implements).                                                    *)
(***************************************************************************)
EXTENDS Naturals, Sequences

CONSTANTS Period,   \* bytes are numbered modulo Period
          MaxPut    \* most bytes put in by one call

VARIABLES queue,    \* the bytes stored
          arriving  \* number of the next byte

Init == queue = <<>> /\ arriving = 0

(* The next n bytes to arrive.                                             *)
Arrivals(n) == [i \in 1..n |-> (arriving + i - 1) % Period]

Put(n) == /\ queue' = queue \o Arrivals(n)
          /\ arriving' = (arriving + n) % Period

Take(n) == /\ queue' = SubSeq(queue, n + 1, Len(queue))
           /\ UNCHANGED arriving

Next == \/ \E n \in 1..MaxPut : Put(n)
        \/ \E n \in 1..Len(queue) : Take(n)

Spec == Init /\ [][Next]_<<queue, arriving>>
=============================================================================
