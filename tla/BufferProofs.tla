---------------------------- MODULE BufferProofs ----------------------------
(* Theorems about Buffer, for every size of its areas and of what is        *)
(* appended and retrieved.                                                  *)
EXTENDS Buffer, SequenceTheorems, TLAPS

(* A vector and its indices, in order behind the PrepSize bytes.            *)
Ordered(b) ==
  /\ b \in [cells : Seq(Bytes), read : Nat, write : Nat]
  /\ PrepSize <= b.read /\ b.read <= b.write /\ b.write <= Len(b.cells)

IInv == TypeOK /\ IndicesOK

-----------------------------------------------------------------------------
(* What the helpers make of a vector and of the bytes it stores.            *)
LEMMA StoredBytes ==
  ASSUME NEW b, Ordered(b)
  PROVE  /\ Stored(b) \in Seq(Bytes)
         /\ Len(Stored(b)) = ReadableBytes(b) /\ ReadableBytes(b) \in Nat
         /\ \A i \in 1..ReadableBytes(b) : Stored(b)[i] = b.cells[b.read + i]
         /\ WritableBytes(b) \in Nat
<1>1. /\ b.read \in Nat /\ b.write \in Nat /\ b.read <= b.write /\ b.write <= Len(b.cells)
      /\ b.cells \in Seq(Bytes) /\ Len(b.cells) \in Nat
  BY LenProperties DEF Ordered
<1>2. \A i \in (b.read + 1)..b.write : b.cells[i] \in Bytes
  BY <1>1, ElementOfSeq
<1>3. /\ Stored(b) \in Seq(Bytes)
      /\ Len(Stored(b)) = IF b.read + 1 <= b.write THEN b.write - (b.read + 1) + 1 ELSE 0
      /\ \A i \in 1..(b.write - (b.read + 1) + 1) :
           Stored(b)[i] = b.cells[(b.read + 1) + i - 1]
  BY <1>1, <1>2, SubSeqProperties, SMTT(30) DEF Stored
<1>4. /\ b.write - (b.read + 1) + 1 = b.write - b.read
      /\ b.write - b.read \in Nat /\ Len(b.cells) - b.write \in Nat
  BY <1>1
<1>5. Len(Stored(b)) = b.write - b.read
  BY <1>1, <1>3
<1>6. \A i \in 1..(b.write - b.read) : Stored(b)[i] = b.cells[b.read + i]
  <2>1. ASSUME NEW i \in 1..(b.write - b.read) PROVE Stored(b)[i] = b.cells[b.read + i]
    <3>1. (b.read + 1) + i - 1 = b.read + i
      BY <1>1
    <3>2. QED
      BY <1>3, <1>4, <3>1
  <2>2. QED
    BY <2>1
<1>7. QED
  BY <1>3, <1>4, <1>5, <1>6 DEF ReadableBytes, WritableBytes

LEMMA SameStored ==
  ASSUME NEW b, NEW d, Ordered(b), Ordered(d), ReadableBytes(d) = ReadableBytes(b),
         \A i \in 1..ReadableBytes(b) : d.cells[d.read + i] = b.cells[b.read + i]
  PROVE  Stored(d) = Stored(b)
<1>1. /\ Stored(b) \in Seq(Bytes) /\ Stored(d) \in Seq(Bytes)
      /\ Len(Stored(b)) = Len(Stored(d)) /\ Len(Stored(b)) = ReadableBytes(b)
      /\ \A i \in 1..ReadableBytes(b) : Stored(d)[i] = Stored(b)[i]
  BY StoredBytes
<1>2. QED
  BY <1>1, SeqEqual

(* resize keeps the bytes stored.                                           *)
LEMMA ResizedKeeps ==
  ASSUME NEW b, Ordered(b), NEW size \in Nat, size >= Len(b.cells)
  PROVE  /\ Ordered(Resized(b, size)) /\ Len(Resized(b, size).cells) = size
         /\ Resized(b, size).read = b.read /\ Resized(b, size).write = b.write
         /\ Stored(Resized(b, size)) = Stored(b)
<1> DEFINE cells == [i \in 1..size |-> IF i <= Len(b.cells) THEN b.cells[i] ELSE 0]
           d == Resized(b, size)
<1>1. /\ b.read \in Nat /\ b.write \in Nat /\ b.read <= b.write /\ b.write <= Len(b.cells)
      /\ b.cells \in Seq(Bytes) /\ Len(b.cells) \in Nat
  BY LenProperties DEF Ordered
<1>2. cells \in Seq(Bytes) /\ Len(cells) = size
  <2>1. \A i \in 1..size : cells[i] \in Bytes
    BY <1>1, ElementOfSeq, SizeAssumption DEF Bytes
  <2>2. QED
    BY <2>1
<1>3. d.cells = cells /\ d.read = b.read /\ d.write = b.write
      /\ d \in [cells : Seq(Bytes), read : Nat, write : Nat]
  BY <1>2 DEF Ordered, Resized
<1>4. Ordered(d)
  BY <1>1, <1>2, <1>3 DEF Ordered
<1>5. Stored(d) = Stored(b)
  <2>1. ReadableBytes(d) = ReadableBytes(b) /\ ReadableBytes(b) \in Nat
    BY <1>1, <1>3 DEF ReadableBytes
  <2>2. \A i \in 1..ReadableBytes(b) : d.cells[d.read + i] = b.cells[b.read + i]
    BY <1>1, <1>3 DEF ReadableBytes
  <2>3. QED
    BY <1>4, <2>1, <2>2, SameStored
<1>6. QED
  BY <1>2, <1>3, <1>4, <1>5

(* Moving the bytes to the front keeps them too.                            *)
LEMMA MovedKeeps ==
  ASSUME NEW b, Ordered(b)
  PROVE  /\ Ordered(Moved(b)) /\ Len(Moved(b).cells) = Len(b.cells)
         /\ Moved(b).read = PrepSize /\ ReadableBytes(Moved(b)) = ReadableBytes(b)
         /\ Stored(Moved(b)) = Stored(b)
<1> DEFINE n == ReadableBytes(b)
           d == Moved(b)
<1>1. /\ b.read \in Nat /\ b.write \in Nat /\ b.read <= b.write /\ b.write <= Len(b.cells)
      /\ b.cells \in Seq(Bytes) /\ Len(b.cells) \in Nat /\ DOMAIN b.cells = 1..Len(b.cells)
      /\ PrepSize \in Nat /\ PrepSize <= b.read /\ n = b.write - b.read /\ n \in Nat
  BY LenProperties, SizeAssumption DEF Ordered, ReadableBytes
<1>2. /\ d.cells = [i \in 1..Len(b.cells) |->
                      IF i \in (PrepSize + 1)..(PrepSize + n)
                      THEN b.cells[b.read + i - PrepSize] ELSE b.cells[i]]
      /\ d.read = PrepSize /\ d.write = PrepSize + n
      /\ d = [cells |-> d.cells, read |-> d.read, write |-> d.write]
  BY <1>1 DEF Moved
<1>3. d.cells \in Seq(Bytes) /\ Len(d.cells) = Len(b.cells)
  <2>1. ASSUME NEW i \in 1..Len(b.cells) PROVE d.cells[i] \in Bytes
    <3>1. CASE i \in (PrepSize + 1)..(PrepSize + n)
      <4>1. b.read + i - PrepSize \in 1..Len(b.cells)
        BY <1>1, <3>1
      <4>2. QED
        BY <1>1, <1>2, <3>1, <4>1, ElementOfSeq
    <3>2. CASE i \notin (PrepSize + 1)..(PrepSize + n)
      BY <1>1, <1>2, <3>2, ElementOfSeq
    <3>3. QED
      BY <3>1, <3>2
  <2>2. d.cells \in [1..Len(b.cells) -> Bytes]
    BY <1>2, <2>1
  <2>3. PICK cells : cells = d.cells
    OBVIOUS
  <2>4. QED
    BY <1>1, <2>2, <2>3
<1>4. Ordered(d)
  <2>1. d.write \in Nat /\ d.read \in Nat
    BY <1>1, <1>2
  <2>2. d \in [cells : Seq(Bytes), read : Nat, write : Nat]
    BY <1>2, <1>3, <2>1
  <2>3. QED
    BY <1>1, <1>2, <1>3, <2>2 DEF Ordered
<1>5. ReadableBytes(d) = n
  BY <1>1, <1>2 DEF ReadableBytes
<1>6. \A i \in 1..n : d.cells[d.read + i] = b.cells[b.read + i]
  <2>1. ASSUME NEW i \in 1..n PROVE d.cells[d.read + i] = b.cells[b.read + i]
    <3>1. /\ PrepSize + i \in 1..Len(b.cells)
          /\ PrepSize + i \in (PrepSize + 1)..(PrepSize + n)
          /\ b.read + (PrepSize + i) - PrepSize = b.read + i
      BY <1>1
    <3>2. QED
      BY <1>2, <3>1
  <2>2. QED
    BY <2>1
<1>7. Stored(d) = Stored(b)
  BY <1>4, <1>5, <1>6, SameStored
<1>8. QED
  BY <1>2, <1>3, <1>4, <1>5, <1>7

(* memcpy behind them puts the bytes written after those stored.            *)
LEMMA WrittenStores ==
  ASSUME NEW b, Ordered(b), NEW bytes \in Seq(Bytes), Len(bytes) <= WritableBytes(b)
  PROVE  /\ Ordered(Written(b, bytes)) /\ Len(Written(b, bytes).cells) = Len(b.cells)
         /\ Written(b, bytes).read = b.read
         /\ Written(b, bytes).write = b.write + Len(bytes)
         /\ Stored(Written(b, bytes)) = Stored(b) \o bytes
<1> DEFINE n == Len(bytes)
           d == Written(b, bytes)
<1>1. /\ b.read \in Nat /\ b.write \in Nat /\ b.read <= b.write /\ b.write <= Len(b.cells)
      /\ b.cells \in Seq(Bytes) /\ Len(b.cells) \in Nat /\ DOMAIN b.cells = 1..Len(b.cells)
      /\ PrepSize <= b.read /\ n \in Nat /\ b.write + n <= Len(b.cells)
  BY LenProperties, SizeAssumption DEF Ordered, WritableBytes
<1>2. /\ d.cells = [i \in 1..Len(b.cells) |->
                      IF i \in (b.write + 1)..(b.write + n) THEN bytes[i - b.write] ELSE b.cells[i]]
      /\ d.read = b.read /\ d.write = b.write + n
      /\ d = [cells |-> d.cells, read |-> d.read, write |-> d.write]
  <2>1. b = [cells |-> b.cells, read |-> b.read, write |-> b.write]
    BY DEF Ordered
  <2>2. d = [b EXCEPT !.cells = [i \in DOMAIN b.cells |->
                                   IF i \in (b.write + 1)..(b.write + n) THEN bytes[i - b.write]
                                   ELSE b.cells[i]],
                      !.write = b.write + n]
    BY <2>1 DEF Written
  <2>3. d = [cells |-> [i \in 1..Len(b.cells) |->
                          IF i \in (b.write + 1)..(b.write + n) THEN bytes[i - b.write]
                          ELSE b.cells[i]],
             read |-> b.read, write |-> b.write + n]
    BY <1>1, <2>1, <2>2
  <2>4. QED
    BY <2>3
<1> HIDE DEF n, d
<1>3. d.cells \in Seq(Bytes) /\ Len(d.cells) = Len(b.cells)
  <2>1. ASSUME NEW i \in 1..Len(b.cells) PROVE d.cells[i] \in Bytes
    <3>1. CASE i \in (b.write + 1)..(b.write + n)
      <4>1. i - b.write \in 1..n
        BY <1>1, <3>1
      <4>2. bytes[i - b.write] \in Bytes
        BY <4>1, ElementOfSeq DEF n
      <4>3. QED
        BY <1>2, <3>1, <4>2
    <3>2. CASE i \notin (b.write + 1)..(b.write + n)
      BY <1>1, <1>2, <3>2, ElementOfSeq
    <3>3. QED
      BY <3>1, <3>2
  <2>2. d.cells \in [1..Len(b.cells) -> Bytes]
    BY <1>2, <2>1
  <2>3. PICK cells : cells = d.cells
    OBVIOUS
  <2>4. QED
    BY <1>1, <2>2, <2>3
<1>4. Ordered(d)
  <2>1. d.write \in Nat /\ d.read \in Nat
    BY <1>1, <1>2
  <2>2. d \in [cells : Seq(Bytes), read : Nat, write : Nat]
    BY <1>2, <1>3, <2>1
  <2>3. QED
    BY <1>1, <1>2, <1>3, <2>2 DEF Ordered
<1>5. ReadableBytes(d) = ReadableBytes(b) + n /\ ReadableBytes(b) = b.write - b.read
  BY <1>1, <1>2 DEF ReadableBytes
<1>6. Stored(d) = Stored(b) \o bytes
  <2>1. /\ Stored(d) \in Seq(Bytes) /\ Len(Stored(d)) = ReadableBytes(d)
        /\ \A i \in 1..ReadableBytes(d) : Stored(d)[i] = d.cells[d.read + i]
    BY <1>4, StoredBytes
  <2>2. /\ Stored(b) \in Seq(Bytes) /\ Len(Stored(b)) = ReadableBytes(b)
        /\ ReadableBytes(b) \in Nat
        /\ \A i \in 1..ReadableBytes(b) : Stored(b)[i] = b.cells[b.read + i]
    BY StoredBytes
  <2>3. /\ Stored(b) \o bytes \in Seq(Bytes)
        /\ Len(Stored(b) \o bytes) = ReadableBytes(b) + n
        /\ \A i \in 1..(ReadableBytes(b) + n) :
             (Stored(b) \o bytes)[i] = IF i <= ReadableBytes(b) THEN Stored(b)[i]
                                       ELSE bytes[i - ReadableBytes(b)]
    <3>1. PICK t \in Seq(Bytes) : t = Stored(b)
      BY <2>2
    <3>2. /\ t \o bytes \in Seq(Bytes) /\ Len(t \o bytes) = Len(t) + n
          /\ \A i \in 1..(Len(t) + n) :
               (t \o bytes)[i] = IF i <= Len(t) THEN t[i] ELSE bytes[i - Len(t)]
      BY ConcatProperties DEF n
    <3>3. QED
      BY <2>2, <3>1, <3>2
  <2>4. ASSUME NEW i \in 1..(ReadableBytes(b) + n)
        PROVE  Stored(d)[i] = (Stored(b) \o bytes)[i]
    <3>1. b.read + i \in 1..Len(b.cells) /\ Stored(d)[i] = d.cells[b.read + i]
      <4>1. b.read + i \in 1..Len(b.cells)
        BY <1>1, <1>5
      <4>2. QED
        BY <1>2, <1>5, <2>1, <4>1
    <3>2. (Stored(b) \o bytes)[i] = IF i <= ReadableBytes(b) THEN Stored(b)[i]
                                    ELSE bytes[i - ReadableBytes(b)]
      BY <2>3
    <3>3. CASE i <= ReadableBytes(b)
      <4>1. /\ b.read + i \notin (b.write + 1)..(b.write + n)
            /\ i \in 1..ReadableBytes(b)
        BY <1>1, <1>5, <3>3
      <4>2. d.cells[b.read + i] = b.cells[b.read + i]
        BY <1>2, <3>1, <4>1
      <4>3. QED
        BY <2>2, <3>1, <3>2, <3>3, <4>1, <4>2
    <3>4. CASE ~(i <= ReadableBytes(b))
      <4>1. /\ b.read + i \in (b.write + 1)..(b.write + n)
            /\ (b.read + i) - b.write = i - ReadableBytes(b)
        BY <1>1, <1>5, <3>4
      <4>2. PICK j \in 1..Len(b.cells) : j = b.read + i
        BY <3>1
      <4>3. d.cells[j] = bytes[j - b.write]
        BY <1>2, <4>1, <4>2
      <4>4. j - b.write = i - ReadableBytes(b)
        BY <4>1, <4>2
      <4>5. Stored(d)[i] = bytes[i - ReadableBytes(b)]
        BY <3>1, <4>2, <4>3, <4>4
      <4>6. QED
        BY <3>2, <3>4, <4>5
    <3>5. QED
      BY <3>3, <3>4
  <2>5. QED
    BY <1>5, <2>1, <2>3, <2>4, SeqEqual
<1>7. QED
  BY <1>2, <1>3, <1>4, <1>6 DEF n, d

(* Where Append's asserts hold, the room made is enough and keeps the bytes.*)
LEMMA ReservedKeeps ==
  ASSUME NEW b, Ordered(b), NEW n \in Nat, AppendAsserts(b, n)
  PROVE  /\ Ordered(Reserved(b, n)) /\ Stored(Reserved(b, n)) = Stored(b)
         /\ n <= WritableBytes(Reserved(b, n))
<1>1. /\ b.read \in Nat /\ b.write \in Nat /\ b.read <= b.write /\ b.write <= Len(b.cells)
      /\ Len(b.cells) \in Nat /\ PrepSize <= b.read
  BY LenProperties DEF Ordered
<1>2. Ordered(Reserved(b, n)) /\ Stored(Reserved(b, n)) = Stored(b)
  <2>1. CASE ~(WritableBytes(b) < n)
    BY <2>1 DEF Reserved
  <2>2. CASE WritableBytes(b) < n /\ MustGrow(b, n)
    <3>1. b.write + n \in Nat /\ b.write + n >= Len(b.cells)
      BY <1>1, <2>2 DEF MustGrow, WritableBytes, PrependableBytes
    <3>2. Reserved(b, n) = Resized(b, b.write + n)
      BY <2>2 DEF Reserved, MakeSpace
    <3>3. QED
      BY <3>1, <3>2, ResizedKeeps
  <2>3. CASE WritableBytes(b) < n /\ ~MustGrow(b, n)
    <3>1. Reserved(b, n) = Moved(b)
      BY <2>3 DEF Reserved, MakeSpace
    <3>2. QED
      BY <3>1, MovedKeeps
  <2>4. QED
    BY <2>1, <2>2, <2>3
<1>3. WritableBytes(Reserved(b, n)) \in Nat
  BY <1>2, StoredBytes
<1>4. WritableBytes(Reserved(b, n)) >= n
  BY DEF AppendAsserts
<1>5. QED
  BY <1>2, <1>3, <1>4

LEMMA AppendedStores ==
  ASSUME NEW b, Ordered(b), NEW bytes \in Seq(Bytes), AppendAsserts(b, Len(bytes))
  PROVE  /\ Ordered(Appended(b, bytes))
         /\ Stored(Appended(b, bytes)) = Stored(b) \o bytes
         /\ ReadableBytes(Appended(b, bytes)) = ReadableBytes(b) + Len(bytes)
<1> DEFINE d == Appended(b, bytes)
<1>1. Len(bytes) \in Nat
  BY LenProperties
<1>2. PICK r : r = Reserved(b, Len(bytes))
  OBVIOUS
<1>3. Ordered(r) /\ Stored(r) = Stored(b) /\ Len(bytes) <= WritableBytes(r)
  BY <1>1, <1>2, ReservedKeeps
<1>4. Ordered(Written(r, bytes)) /\ Stored(Written(r, bytes)) = Stored(r) \o bytes
  BY <1>3, WrittenStores
<1>5. Ordered(d) /\ Stored(d) = Stored(b) \o bytes
  BY <1>2, <1>3, <1>4 DEF Appended
<1>6. /\ Len(Stored(d)) = ReadableBytes(d)
      /\ Len(Stored(b)) = ReadableBytes(b) /\ Stored(b) \in Seq(Bytes)
  BY <1>5, StoredBytes
<1>7. Len(Stored(b) \o bytes) = Len(Stored(b)) + Len(bytes)
  BY <1>6, ConcatProperties
<1>8. QED
  BY <1>5, <1>6, <1>7

LEMMA RetrievedDrops ==
  ASSUME NEW b, Ordered(b), b.read = b.write => b.read = PrepSize,
         NEW n \in 0..ReadableBytes(b)
  PROVE  /\ Ordered(Retrieved(b, n))
         /\ Retrieved(b, n).read = Retrieved(b, n).write => Retrieved(b, n).read = PrepSize
         /\ Stored(Retrieved(b, n)) = SubSeq(Stored(b), n + 1, Len(Stored(b)))
<1> DEFINE d == Retrieved(b, n)
<1>1. /\ b.read \in Nat /\ b.write \in Nat /\ b.read <= b.write /\ b.write <= Len(b.cells)
      /\ b.cells \in Seq(Bytes) /\ Len(b.cells) \in Nat
      /\ PrepSize \in Nat /\ PrepSize <= b.read
      /\ ReadableBytes(b) = b.write - b.read /\ n \in Nat
      /\ b = [cells |-> b.cells, read |-> b.read, write |-> b.write]
  BY LenProperties, SizeAssumption DEF Ordered, ReadableBytes
<1>2. /\ Stored(b) \in Seq(Bytes) /\ Len(Stored(b)) = ReadableBytes(b)
      /\ \A i \in 1..ReadableBytes(b) : Stored(b)[i] = b.cells[b.read + i]
  BY StoredBytes
<1>3. CASE n < ReadableBytes(b)
  <2>1. d = [cells |-> b.cells, read |-> b.read + n, write |-> b.write]
    BY <1>1, <1>3 DEF Retrieved
  <2>2. Ordered(d) /\ d.read # d.write /\ ReadableBytes(d) = ReadableBytes(b) - n
    <3>1. /\ b.read + n \in Nat /\ PrepSize <= b.read + n /\ b.read + n < b.write
          /\ b.write - (b.read + n) = ReadableBytes(b) - n
      BY <1>1, <1>3
    <3>2. d.cells = b.cells /\ d.read = b.read + n /\ d.write = b.write
      BY <2>1
    <3>3. d \in [cells : Seq(Bytes), read : Nat, write : Nat]
      BY <1>1, <2>1, <3>1
    <3>4. QED
      BY <1>1, <3>1, <3>2, <3>3 DEF Ordered, ReadableBytes
  <2>3. /\ Stored(d) \in Seq(Bytes) /\ Len(Stored(d)) = ReadableBytes(b) - n
        /\ \A i \in 1..(ReadableBytes(b) - n) : Stored(d)[i] = b.cells[(b.read + n) + i]
    BY <2>1, <2>2, StoredBytes
  <2>4. PICK t \in Seq(Bytes) : t = Stored(b)
    BY <1>2
  <2>5. \A i \in (n + 1)..Len(t) : t[i] \in Bytes
    BY <1>1, <1>2, <2>4, ElementOfSeq
  <2>6. /\ SubSeq(t, n + 1, Len(t)) \in Seq(Bytes)
        /\ Len(SubSeq(t, n + 1, Len(t))) = Len(t) - n
        /\ \A i \in 1..(Len(t) - n) : SubSeq(t, n + 1, Len(t))[i] = t[n + i]
    <3>1. Len(t) \in Int /\ n + 1 \in Int /\ n + 1 <= Len(t)
          /\ (Len(t) - (n + 1)) + 1 = Len(t) - n
      BY <1>1, <1>2, <1>3, <2>4
    <3>2. /\ SubSeq(t, n + 1, Len(t)) \in Seq(Bytes)
          /\ Len(SubSeq(t, n + 1, Len(t))) =
               IF n + 1 <= Len(t) THEN Len(t) - (n + 1) + 1 ELSE 0
          /\ \A i \in 1..(Len(t) - (n + 1) + 1) : SubSeq(t, n + 1, Len(t))[i] = t[(n + 1) + i - 1]
      BY <2>5, <3>1, SubSeqProperties
    <3>3. ASSUME NEW i \in 1..(Len(t) - n) PROVE SubSeq(t, n + 1, Len(t))[i] = t[n + i]
      <4>1. i \in 1..(Len(t) - (n + 1) + 1) /\ (n + 1) + i - 1 = n + i
        BY <1>1, <3>1
      <4>2. QED
        BY <3>2, <4>1
    <3>4. Len(SubSeq(t, n + 1, Len(t))) = Len(t) - n
      BY <3>1, <3>2
    <3>5. QED
      BY <3>2, <3>3, <3>4
  <2>7. \A i \in 1..(Len(t) - n) : Stored(d)[i] = SubSeq(t, n + 1, Len(t))[i]
    <3>1. ASSUME NEW i \in 1..(Len(t) - n)
          PROVE  Stored(d)[i] = SubSeq(t, n + 1, Len(t))[i]
      <4>1. (b.read + n) + i = b.read + (n + i) /\ n + i \in 1..ReadableBytes(b)
        BY <1>1, <1>2, <2>4
      <4>2. Stored(d)[i] = b.cells[(b.read + n) + i]
        BY <1>2, <2>3, <2>4
      <4>3. t[n + i] = b.cells[b.read + (n + i)]
        BY <1>2, <2>4, <4>1
      <4>4. QED
        BY <2>6, <4>1, <4>2, <4>3
    <3>2. QED
      BY <3>1
  <2>8. Stored(d) = SubSeq(t, n + 1, Len(t))
    BY <1>2, <2>3, <2>4, <2>6, <2>7, SeqEqual
  <2>9. QED
    BY <2>2, <2>4, <2>8
<1>4. CASE ~(n < ReadableBytes(b))
  <2>1. d = [cells |-> b.cells, read |-> PrepSize, write |-> PrepSize] /\ n = ReadableBytes(b)
    <3>1. n = ReadableBytes(b) /\ d = RetrievedAll(b)
      BY <1>1, <1>4 DEF Retrieved
    <3>2. RetrievedAll(b) = [cells |-> b.cells, read |-> PrepSize, write |-> PrepSize]
      <4>1. RetrievedAll(b) = [b EXCEPT !.read = PrepSize, !.write = PrepSize]
        BY DEF RetrievedAll
      <4>2. [b EXCEPT !.read = PrepSize, !.write = PrepSize]
              = [cells |-> b.cells, read |-> PrepSize, write |-> PrepSize]
        <5>1. PICK c, r, w : b = [cells |-> c, read |-> r, write |-> w]
          BY <1>1
        <5>2. /\ [b EXCEPT !.read = PrepSize] = [cells |-> c, read |-> PrepSize, write |-> w]
              /\ b.cells = c
          BY <5>1
        <5>3. PICK e : e = [cells |-> c, read |-> PrepSize, write |-> w]
          OBVIOUS
        <5>4. [e EXCEPT !.write = PrepSize]
                = [cells |-> c, read |-> PrepSize, write |-> PrepSize]
          BY <5>3
        <5>5. QED
          BY <5>2, <5>3, <5>4
      <4>3. QED
        BY <4>1, <4>2
    <3>3. QED
      BY <3>1, <3>2
  <2>2. d.cells = b.cells /\ d.read = PrepSize /\ d.write = PrepSize
        /\ d \in [cells : Seq(Bytes), read : Nat, write : Nat]
    BY <1>1, <2>1
  <2>3. Ordered(d) /\ ReadableBytes(d) = 0
    BY <1>1, <2>2 DEF Ordered, ReadableBytes
  <2>4. Stored(d) = <<>>
    BY <2>3, StoredBytes, EmptySeq
  <2>5. SubSeq(Stored(b), n + 1, Len(Stored(b))) = <<>>
    <3>1. n + 1 \in Int /\ Len(Stored(b)) \in Int /\ Len(Stored(b)) < n + 1
      BY <1>1, <1>2, <2>1
    <3>2. QED
      BY <3>1, SubSeqEmpty
  <2>6. QED
    BY <2>2, <2>3, <2>4, <2>5
<1>5. QED
  BY <1>3, <1>4
-----------------------------------------------------------------------------
(* The bytes that arrive.                                                   *)
LEMMA NextByte == ASSUME NEW i \in Nat PROVE i % Period \in Bytes
BY SizeAssumption DEF Bytes

LEMMA ArrivalsType ==
  ASSUME arriving \in Bytes, NEW n \in Nat
  PROVE  /\ Arrivals(n) \in Seq(Bytes) /\ Len(Arrivals(n)) = n
         /\ \A i \in 1..n : Arrivals(n)[i] = (arriving + i - 1) % Period
<1>1. ASSUME NEW i \in 1..n PROVE (arriving + i - 1) % Period \in Bytes
  <2>1. arriving + i - 1 \in Nat
    BY SizeAssumption DEF Bytes
  <2>2. QED
    BY <2>1, NextByte
<1>2. Arrivals(n) \in [1..n -> Bytes]
  BY <1>1 DEF Arrivals
<1>3. PICK a : a = Arrivals(n)
  OBVIOUS
<1>4. a \in Seq(Bytes) /\ Len(a) = n
  BY <1>2, <1>3
<1>5. QED
  BY <1>3, <1>4 DEF Arrivals

(* readv's two halves are what arrived.                                     *)
LEMMA ArrivalsSplit ==
  ASSUME arriving \in Bytes, NEW n \in Nat, NEW w \in Nat, w < n
  PROVE  /\ SubSeq(Arrivals(n), w + 1, n) \in Seq(Bytes)
         /\ Len(SubSeq(Arrivals(n), w + 1, n)) = n - w
         /\ Arrivals(w) \o SubSeq(Arrivals(n), w + 1, n) = Arrivals(n)
<1>1. PICK a : a = Arrivals(n)
  OBVIOUS
<1>2. PICK e : e = Arrivals(w)
  OBVIOUS
<1>3. /\ a \in Seq(Bytes) /\ Len(a) = n /\ e \in Seq(Bytes) /\ Len(e) = w
      /\ \A i \in 1..w : a[i] = e[i]
  <2>1. /\ a \in Seq(Bytes) /\ Len(a) = n
        /\ \A i \in 1..n : a[i] = (arriving + i - 1) % Period
    BY <1>1, ArrivalsType
  <2>2. /\ e \in Seq(Bytes) /\ Len(e) = w
        /\ \A i \in 1..w : e[i] = (arriving + i - 1) % Period
    BY <1>2, ArrivalsType
  <2>3. \A i \in 1..w : i \in 1..n
    OBVIOUS
  <2>4. QED
    BY <2>1, <2>2, <2>3
<1>4. e = SubSeq(a, 1, w)
  <2>1. /\ 1 \in Int /\ w \in Int /\ \A i \in 1..w : a[i] \in Bytes
    BY <1>3, ElementOfSeq
  <2>2. /\ SubSeq(a, 1, w) \in Seq(Bytes)
        /\ Len(SubSeq(a, 1, w)) = IF 1 <= w THEN w - 1 + 1 ELSE 0
        /\ \A i \in 1..(w - 1 + 1) : SubSeq(a, 1, w)[i] = a[1 + i - 1]
    BY <2>1, SubSeqProperties
  <2>3. w - 1 + 1 = w /\ \A i \in 1..w : 1 + i - 1 = i
    OBVIOUS
  <2>4. Len(SubSeq(a, 1, w)) = w
    BY <2>2, <2>3
  <2>5. QED
    BY <1>3, <2>2, <2>3, <2>4, SeqEqual
<1>5. SubSeq(a, 1, w) \o SubSeq(a, w + 1, n) = SubSeq(a, 1, n)
  <2>1. /\ 1 \in 1..(Len(a) + 1) /\ w \in (1 - 1)..Len(a) /\ n \in w..Len(a)
    BY <1>3
  <2>2. QED
    BY <1>3, <2>1, ConcatAdjacentSubSeq
<1>6. SubSeq(a, 1, n) = a
  BY <1>3, SubSeqFull
<1>7. /\ SubSeq(a, w + 1, n) \in Seq(Bytes)
      /\ Len(SubSeq(a, w + 1, n)) = n - w
  <2>1. /\ w + 1 \in Int /\ n \in Int /\ w + 1 <= n /\ (n - (w + 1)) + 1 = n - w
        /\ \A i \in (w + 1)..n : a[i] \in Bytes
    BY <1>3, ElementOfSeq
  <2>2. /\ SubSeq(a, w + 1, n) \in Seq(Bytes)
        /\ Len(SubSeq(a, w + 1, n)) = IF w + 1 <= n THEN n - (w + 1) + 1 ELSE 0
    BY <2>1, SubSeqProperties
  <2>3. QED
    BY <2>1, <2>2
<1>8. QED
  BY <1>1, <1>2, <1>4, <1>5, <1>6, <1>7
-----------------------------------------------------------------------------
LEMMA OrderedNow ==
  ASSUME IInv
  PROVE  /\ Ordered(buf) /\ arriving \in Bytes /\ failed \in BOOLEAN
         /\ buf.read = buf.write => buf.read = PrepSize
         /\ Len(buf.cells) \in Nat /\ buf.read \in Nat /\ buf.write \in Nat
BY LenProperties DEF IInv, TypeOK, IndicesOK, Ordered

LEMMA OrderedNext ==
  ASSUME NEW b, buf' = b, Ordered(b), b.read = b.write => b.read = PrepSize,
         arriving' \in Bytes, failed' \in BOOLEAN
  PROVE  IInv'
<1>1. Len(b.cells) \in Nat /\ b.read \in Nat /\ b.write \in Nat
  BY LenProperties DEF Ordered
<1>2. QED
  BY <1>1 DEF IInv, TypeOK, IndicesOK, Ordered

LEMMA InitEstablishes == Init => IInv
<1> SUFFICES ASSUME Init PROVE IInv
  OBVIOUS
<1> DEFINE cells == [i \in 1..(InitSize + PrepSize) |-> 0]
<1>1. 0 \in Bytes /\ PrepSize \in Nat /\ InitSize + PrepSize \in Nat
  BY SizeAssumption DEF Bytes
<1>2. cells \in Seq(Bytes) /\ Len(cells) = InitSize + PrepSize
  BY <1>1
<1>3. buf = [cells |-> cells, read |-> PrepSize, write |-> PrepSize]
  BY DEF Init
<1> HIDE DEF cells
<1>4. /\ buf.cells = cells /\ buf.read = PrepSize /\ buf.write = PrepSize
      /\ buf \in [cells : Seq(Bytes), read : Nat, write : Nat]
  BY <1>1, <1>2, <1>3
<1>5. PrepSize \in 0..Len(cells)
  BY <1>1, <1>2, SizeAssumption
<1>6. TypeOK
  BY <1>1, <1>4, <1>5 DEF Init, TypeOK
<1>7. IndicesOK
  BY <1>1, <1>4 DEF IndicesOK
<1>8. QED
  BY <1>6, <1>7 DEF IInv

(* A buffer with bytes appended is not empty.                               *)
LEMMA PutKeeps ==
  ASSUME arriving \in Bytes, NEW b, NEW d, Ordered(b), Ordered(d), buf' = d,
         failed' \in BOOLEAN, Stored(b) = Stored(buf), NEW n \in 1..(MaxSize + ExtraSize),
         Stored(d) = Stored(b) \o Arrivals(n), arriving' = (arriving + n) % Period
  PROVE  IInv' /\ BQ!Put(n)
<1>1. n \in Nat /\ arriving + n \in Nat
  BY SizeAssumption DEF Bytes
<1>2. arriving' \in Bytes
  BY <1>1, NextByte
<1>3. ReadableBytes(d) > 0
  <2>1. /\ Arrivals(n) \in Seq(Bytes) /\ Len(Arrivals(n)) = n
        /\ Stored(b) \in Seq(Bytes) /\ Len(Stored(b)) \in Nat
    BY <1>1, ArrivalsType, StoredBytes
  <2>2. Len(Stored(d)) = Len(Stored(b)) + n
    BY <2>1, ConcatProperties
  <2>3. QED
    BY <2>1, <2>2, StoredBytes
<1>4. d.read # d.write
  <2>1. d.read \in Nat
    BY DEF Ordered
  <2>2. QED
    BY <1>3, <2>1 DEF ReadableBytes
<1>5. IInv'
  BY <1>2, <1>4, OrderedNext
<1>6. BQ!Put(n)
  BY DEF BQ!Put, BQ!Arrivals, Arrivals
<1>7. QED
  BY <1>5, <1>6

LEMMA AppendKeeps ==
  ASSUME IInv, NEW n \in 1..MaxAppend, AppendBytes(n)
  PROVE  /\ IInv'
         /\ UNCHANGED <<buf, arriving>> \/ \E k \in 1..(MaxSize + ExtraSize) : BQ!Put(k)
<1>1. /\ Ordered(buf) /\ arriving \in Bytes /\ failed' \in BOOLEAN
      /\ buf.read = buf.write => buf.read = PrepSize
  BY OrderedNow DEF AppendBytes
<1>2. CASE failed'
  <2>1. buf' = buf /\ arriving' = arriving
    BY <1>2 DEF AppendBytes
  <2>2. QED
    BY <1>1, <2>1, OrderedNext
<1>3. CASE ~failed'
  <2>1. /\ AppendAsserts(buf, n) /\ Len(Reserved(buf, n).cells) <= MaxSize
        /\ buf' = Appended(buf, Arrivals(n)) /\ arriving' = (arriving + n) % Period
    BY <1>3 DEF AppendBytes
  <2>2. n \in Nat /\ Arrivals(n) \in Seq(Bytes) /\ Len(Arrivals(n)) = n
    BY <1>1, SizeAssumption, ArrivalsType
  <2>3. PICK r : r = Reserved(buf, n)
    OBVIOUS
  <2>4. Ordered(r) /\ n <= WritableBytes(r) /\ Len(r.cells) <= MaxSize
    BY <1>1, <2>1, <2>2, <2>3, ReservedKeeps
  <2>5. n \in 1..(MaxSize + ExtraSize)
    <3>1. Len(r.cells) \in Nat /\ r.write \in Nat
      BY <2>4, LenProperties DEF Ordered
    <3>2. QED
      BY <2>4, <3>1, SizeAssumption DEF WritableBytes
  <2>6. PICK d : d = Appended(buf, Arrivals(n))
    OBVIOUS
  <2>7. Ordered(d) /\ Stored(d) = Stored(buf) \o Arrivals(n)
    BY <1>1, <2>1, <2>2, <2>6, AppendedStores
  <2>8. QED
    BY <1>1, <2>1, <2>5, <2>6, <2>7, PutKeeps
<1>4. QED
  BY <1>2, <1>3

LEMMA ReadKeeps ==
  ASSUME IInv, NEW n \in 1..(MaxSize + ExtraSize), ReadFd(n)
  PROVE  /\ IInv'
         /\ UNCHANGED <<buf, arriving>> \/ \E k \in 1..(MaxSize + ExtraSize) : BQ!Put(k)
<1>1. PICK w : w = WritableBytes(buf)
  OBVIOUS
<1>2. PICK full : full = Filled(buf, Arrivals(w))
  OBVIOUS
<1>3. PICK rest : rest = SubSeq(Arrivals(n), w + 1, n)
  OBVIOUS
<1>4. /\ failed' = (n > w /\ ~AppendAsserts(full, n - w))
      /\ IF failed' THEN UNCHANGED <<buf, arriving>>
         ELSE /\ buf' = IF n <= w THEN Filled(buf, Arrivals(n)) ELSE Appended(full, rest)
              /\ arriving' = (arriving + n) % Period
  BY <1>1, <1>2, <1>3 DEF ReadFd
<1>5. /\ Ordered(buf) /\ arriving \in Bytes /\ failed' \in BOOLEAN
      /\ buf.read = buf.write => buf.read = PrepSize
      /\ w \in Nat /\ n \in Nat
  BY <1>1, <1>4, OrderedNow, StoredBytes, SizeAssumption
<1>6. CASE failed'
  BY <1>4, <1>5, <1>6, OrderedNext
<1>7. CASE ~failed' /\ n <= w
  <2>1. PICK d : d = Written(buf, Arrivals(n))
    OBVIOUS
  <2>2. buf' = d /\ arriving' = (arriving + n) % Period
    BY <1>4, <1>7, <2>1 DEF Filled
  <2>3. Arrivals(n) \in Seq(Bytes) /\ Len(Arrivals(n)) = n
    BY <1>5, ArrivalsType
  <2>4. Ordered(d) /\ Stored(d) = Stored(buf) \o Arrivals(n)
    BY <1>1, <1>5, <1>7, <2>1, <2>3, WrittenStores
  <2>5. QED
    BY <1>5, <2>2, <2>4, PutKeeps
<1>8. CASE ~failed' /\ n > w
  <2>1. Arrivals(w) \in Seq(Bytes) /\ Len(Arrivals(w)) = w
    BY <1>5, ArrivalsType
  <2>2. Ordered(full) /\ Stored(full) = Stored(buf) \o Arrivals(w)
    BY <1>1, <1>2, <1>5, <2>1, WrittenStores DEF Filled
  <2>3. /\ rest \in Seq(Bytes) /\ Len(rest) = n - w
        /\ Arrivals(w) \o rest = Arrivals(n)
    BY <1>3, <1>5, <1>8, ArrivalsSplit
  <2>4. PICK d : d = Appended(full, rest)
    OBVIOUS
  <2>5. buf' = d /\ arriving' = (arriving + n) % Period
    BY <1>4, <1>5, <1>8, <2>4
  <2>6. AppendAsserts(full, n - w)
    BY <1>4, <1>8, Zenon
  <2>7. Ordered(d) /\ Stored(d) = Stored(full) \o rest
    BY <2>2, <2>3, <2>4, <2>6, AppendedStores
  <2>8. Stored(d) = Stored(buf) \o Arrivals(n)
    <3>1. Stored(buf) \in Seq(Bytes)
      BY <1>5, StoredBytes
    <3>2. PICK s \in Seq(Bytes) : s = Stored(buf)
      BY <3>1
    <3>3. PICK a \in Seq(Bytes) : a = Arrivals(w)
      BY <2>1
    <3>4. (s \o a) \o rest = s \o (a \o rest)
      BY <2>3, ConcatAssociative, SMTT(30)
    <3>5. QED
      BY <2>2, <2>3, <2>7, <3>2, <3>3, <3>4
  <2>9. QED
    BY <1>5, <2>5, <2>7, <2>8, PutKeeps
<1>9. QED
  BY <1>5, <1>6, <1>7, <1>8

LEMMA RetrieveKeeps ==
  ASSUME IInv, NEW n \in Nat, Retrieve(n) \/ RetrieveAll
  PROVE  /\ IInv'
         /\ \/ Stored(buf)' = Stored(buf) /\ UNCHANGED arriving
            \/ \E k \in 1..Len(Stored(buf)) : BQ!Take(k)
<1>1. /\ Ordered(buf) /\ arriving \in Bytes /\ failed' \in BOOLEAN /\ arriving' = arriving
      /\ buf.read = buf.write => buf.read = PrepSize
      /\ ReadableBytes(buf) \in Nat /\ Len(Stored(buf)) = ReadableBytes(buf)
      /\ Stored(buf) \in Seq(Bytes)
  BY OrderedNow, StoredBytes DEF Retrieve, RetrieveAll
<1>2. PICK k \in 0..ReadableBytes(buf) : buf' = Retrieved(buf, k)
  <2>1. CASE Retrieve(n)
    BY <1>1, <2>1 DEF Retrieve
  <2>2. CASE RetrieveAll
    <3>1. buf' = Retrieved(buf, ReadableBytes(buf))
      BY <1>1, <2>2 DEF RetrieveAll, Retrieved
    <3>2. QED
      BY <1>1, <3>1
  <2>3. QED
    BY <2>1, <2>2
<1>3. PICK d : d = Retrieved(buf, k)
  OBVIOUS
<1>4. /\ Ordered(d) /\ (d.read = d.write => d.read = PrepSize)
      /\ Stored(d) = SubSeq(Stored(buf), k + 1, Len(Stored(buf)))
  BY <1>1, <1>3, RetrievedDrops
<1>5. IInv'
  BY <1>1, <1>2, <1>3, <1>4, OrderedNext
<1>6. CASE k = 0
  <2>1. Stored(d) = Stored(buf)
    BY <1>1, <1>4, <1>6, SubSeqFull
  <2>2. QED
    BY <1>1, <1>2, <1>3, <1>5, <2>1
<1>7. CASE k # 0
  <2>1. k \in 1..Len(Stored(buf)) /\ BQ!Take(k)
    BY <1>1, <1>2, <1>3, <1>4, <1>7 DEF BQ!Take
  <2>2. QED
    BY <1>5, <2>1
<1>8. QED
  BY <1>6, <1>7

LEMMA StepKeeps ==
  ASSUME IInv, [Next]_vars
  PROVE  IInv' /\ [BQ!Next]_<<Stored(buf), arriving>>
<1>1. CASE UNCHANGED vars
  BY <1>1 DEF vars, IInv, TypeOK, IndicesOK
<1>2. CASE \E n \in 1..MaxAppend : AppendBytes(n)
  BY <1>2, AppendKeeps DEF BQ!Next
<1>3. CASE \E n \in 1..(MaxSize + ExtraSize) : ReadFd(n)
  BY <1>3, ReadKeeps DEF BQ!Next
<1>4. CASE (\E n \in 0..MaxSize : Retrieve(n)) \/ RetrieveAll
  <2>1. \A n \in 0..MaxSize : n \in Nat
    BY SizeAssumption
  <2>2. QED
    BY <1>4, <2>1, RetrieveKeeps DEF BQ!Next
<1>5. QED
  BY <1>1, <1>2, <1>3, <1>4 DEF Next

LEMMA Inductive == Spec => []IInv
<1>1. IInv /\ [Next]_vars => IInv'
  BY StepKeeps
<1>2. QED
  BY <1>1, InitEstablishes, PTL DEF Spec
-----------------------------------------------------------------------------
(* Type correctness: the write index never leaves the vector.               *)
THEOREM TypeCorrect == Spec => []TypeOK
<1>1. IInv => TypeOK
  BY DEF IInv
<1>2. QED
  BY <1>1, Inductive, PTL

(* The indices stay in order, and at PrepSize in an empty buffer.           *)
THEOREM IndicesSafe == Spec => []IndicesOK
<1>1. IInv => IndicesOK
  BY DEF IInv
<1>2. QED
  BY <1>1, Inductive, PTL

(* What fits behind the PrepSize bytes can always be appended, whichever of *)
(* moving and resizing makes the room.                                      *)
THEOREM FittingSafe == Spec => []FittingAppendOk
<1>1. ASSUME IInv PROVE FittingAppendOk
  <2>1. ASSUME NEW n \in 1..MaxAppend, ReadableBytes(buf) + n <= Len(buf.cells) - PrepSize
        PROVE  AppendAsserts(buf, n)
    <3>1. /\ Ordered(buf) /\ (buf.read = buf.write => buf.read = PrepSize)
          /\ Len(buf.cells) \in Nat /\ buf.read \in Nat /\ buf.write \in Nat
          /\ PrepSize \in Nat /\ n \in Nat /\ n > 0
          /\ buf.read <= buf.write
      BY <1>1, OrderedNow, SizeAssumption DEF Ordered
    <3>2. CASE ~(WritableBytes(buf) < n)
      BY <3>1, <3>2 DEF AppendAsserts, Reserved, WritableBytes
    <3>3. CASE WritableBytes(buf) < n /\ MustGrow(buf, n)
      <4>1. PICK d : d = Resized(buf, buf.write + n)
        OBVIOUS
      <4>2. buf.write + n \in Nat /\ buf.write + n >= Len(buf.cells)
        BY <3>1, <3>3 DEF WritableBytes
      <4>3. Len(d.cells) = buf.write + n /\ d.write = buf.write
        BY <3>1, <4>1, <4>2, ResizedKeeps
      <4>4. WritableBytes(d) >= n
        BY <3>1, <4>3 DEF WritableBytes
      <4>5. QED
        BY <3>3, <4>1, <4>4 DEF AppendAsserts, MakeSpaceAsserts, Reserved, MakeSpace
    <3>4. CASE WritableBytes(buf) < n /\ ~MustGrow(buf, n)
      <4>1. PICK d : d = Moved(buf)
        OBVIOUS
      <4>2. /\ Len(d.cells) = Len(buf.cells) /\ ReadableBytes(d) = ReadableBytes(buf)
            /\ d.write = PrepSize + ReadableBytes(buf)
        BY <3>1, <4>1, MovedKeeps DEF Moved
      <4>3. PrepSize < buf.read /\ ReadableBytes(buf) # 0 /\ ReadableBytes(buf) \in Nat
        BY <2>1, <3>1, <3>4, SMTT(30) DEF WritableBytes, ReadableBytes
      <4>4. WritableBytes(d) >= n
        BY <2>1, <3>1, <4>2, <4>3 DEF WritableBytes
      <4>5. QED
        BY <3>4, <4>1, <4>2, <4>3, <4>4 DEF AppendAsserts, MakeSpaceAsserts, Reserved, MakeSpace
    <3>5. QED
      BY <3>2, <3>3, <3>4
  <2>2. QED
    BY <2>1 DEF FittingAppendOk
<1>2. QED
  BY <1>1, Inductive, PTL

(* The buffer is a byte queue: moving, resizing and reading in two halves   *)
(* neither lose, nor repeat, nor reorder a byte.                            *)
THEOREM ImplementsByteQueue == Spec => Implements
<1>1. ASSUME Init PROVE BQ!Init
  <2>1. buf.read = PrepSize /\ buf.write = PrepSize /\ arriving = 0
    BY <1>1 DEF Init
  <2>2. PrepSize + 1 \in Int /\ PrepSize \in Int /\ PrepSize < PrepSize + 1
    BY SizeAssumption
  <2>3. Stored(buf) = <<>>
    BY <2>1, <2>2, SubSeqEmpty DEF Stored
  <2>4. QED
    BY <2>1, <2>3 DEF BQ!Init
<1>2. IInv /\ [Next]_vars => [BQ!Next]_<<Stored(buf), arriving>>
  BY StepKeeps
<1>3. QED
  BY <1>1, <1>2, Inductive, PTL DEF Spec, Implements, BQ!Spec
=============================================================================
