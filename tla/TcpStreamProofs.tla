--------------------------- MODULE TcpStreamProofs ---------------------------
(* Theorems about the bytes a TcpConnection passes to the kernel: whole     *)
(* messages, in the order they were sent, and none skipped.                 *)
EXTENDS TcpConnectionProofs

(* Everything that SendInLoop has accepted, in order.                       *)
Stream == wire \o output

(* A message of thread t, after its first k bytes.                          *)
Message(t, k) == [i \in 1..MsgLen |-> <<t, k + i>>]

(* Whose message a posted send holds, and after how many bytes.             *)
Owner(f) == f.data[1][1]
Base(f)  == f.data[1][2] - 1

Before(s, t, k) == \A i \in DOMAIN s : s[i][1] = t => s[i][2] <= k

Intact(s) ==
  \A i \in DOMAIN s :
    /\ s[i][2] % MsgLen # 0 => i < Len(s) /\ s[i + 1] = <<s[i][1], s[i][2] + 1>>
    /\ (s[i][2] - 1) % MsgLen # 0 => i > 1 /\ s[i - 1] = <<s[i][1], s[i][2] - 1>>
    /\ \A j \in 1..(i - 1) : s[j][1] = s[i][1] => s[j][2] < s[i][2]

Skipless(s) ==
  \A i \in DOMAIN s :
    s[i][2] > 1 => \E j \in 1..(i - 1) : s[j] = <<s[i][1], s[i][2] - 1>>

(* Threads send whole messages, and a posted one is one of another thread   *)
(* of which nothing has been accepted yet.                                  *)
Numbered == \A t \in Threads : sent[t] % MsgLen = 0 /\ Before(Stream, t, sent[t])

Waiting(f) ==
  /\ Owner(f) \in Callers /\ Base(f) \in Nat /\ Base(f) % MsgLen = 0
  /\ f.data = Message(Owner(f), Base(f)) /\ Base(f) + MsgLen <= sent[Owner(f)]
  /\ Before(Stream, Owner(f), Base(f))

Waits == \A f \in Range(pending) : f.op = "send" => Waiting(f)

(* Each thread's messages are posted in the order of their bytes.           *)
Follows(f, g) ==
  f.op = "send" /\ g.op = "send" /\ Owner(f) = Owner(g) => Base(f) + MsgLen <= Base(g)

InOrder(q) == \A i, j \in DOMAIN q : i < j => Follows(q[i], q[j])

StreamInv == Numbered /\ Waits /\ InOrder(pending) /\ Intact(Stream)
-----------------------------------------------------------------------------
(* Messages.  Where a byte is in its message, by its number.                *)
LEMMA ModMultiple ==
  ASSUME NEW m \in Nat \ {0}, NEW q \in Nat, NEW y \in 0..(m - 1)
  PROVE  (q * m + y) % m = y
  BY SMT

LEMMA DivMod ==
  ASSUME NEW m \in Nat \ {0}, NEW k \in Nat
  PROVE  k \div m \in Nat /\ k = (k \div m) * m + (k % m)
  BY SMT

LEMMA ModNext ==
  ASSUME NEW m \in Nat \ {0}, NEW k \in Nat, k % m = 0
  PROVE  (k + m) % m = 0
<1>1. PICK q \in Nat : k = q * m
  <2>1. k \div m \in Nat /\ k = (k \div m) * m + (k % m)
    BY DivMod
  <2>2. k = (k \div m) * m
    BY <2>1
  <2>3. QED
    BY <2>1, <2>2
<1>2. k + m = (q + 1) * m + 0 /\ q + 1 \in Nat /\ 0 \in 0..(m - 1)
  BY <1>1
<1>3. ((q + 1) * m + 0) % m = 0
  BY <1>2, ModMultiple
<1>4. QED
  BY <1>2, <1>3, Zenon

PlaceOf(m, k, x) == /\ (k + x) % m = 0 <=> x = m
                    /\ ((k + x) - 1) % m = 0 <=> x = 1

LEMMA ModWithin ==
  ASSUME NEW m \in Nat \ {0}, NEW k \in Nat, k % m = 0, NEW x \in 1..m
  PROVE  PlaceOf(m, k, x)
<1>1. ASSUME NEW y \in 0..(m - 1) PROVE (k + y) % m = y
  BY SMT
<1>2. ASSUME x = m PROVE (k + x) % m = 0
  <2>1. (k + m) % m = 0
    BY ModNext
  <2>2. QED
    BY <1>2, <2>1
<1>3. ASSUME x # m PROVE (k + x) % m = x
  <2>1. x \in 0..(m - 1)
    BY <1>3
  <2>2. QED
    BY <1>1, <2>1
<1>4. ((k + x) - 1) % m = x - 1
  <2>1. (k + x) - 1 = k + (x - 1) /\ x - 1 \in 0..(m - 1)
    OBVIOUS
  <2>2. (k + (x - 1)) % m = x - 1
    BY <1>1, <2>1
  <2>3. QED
    BY <2>1, <2>2, Zenon
<1>5. QED
  BY <1>2, <1>3, <1>4 DEF PlaceOf

LEMMA ByteMeans ==
  ASSUME NEW b \in Byte
  PROVE  b[1] \in Threads /\ b[2] \in Nat /\ b[2] > 0 /\ b = <<b[1], b[2]>>
<1>1. PICK t \in Threads : b \in {t} \X (1..MaxSent[t])
  BY DEF Byte
<1>2. MaxSent[t] \in Nat
  BY BoundAssumption
<1>3. QED
  BY <1>1, <1>2

(* A message behind a stream.                                               *)
LEMMA Behind ==
  ASSUME NEW s \in Seq(Byte), NEW t \in Threads, NEW k \in Nat, Message(t, k) \in Seq(Byte)
  PROVE  LET u == s \o Message(t, k) IN
         /\ u \in Seq(Byte) /\ Len(u) = Len(s) + MsgLen /\ Len(s) \in Nat
         /\ DOMAIN s = 1..Len(s) /\ DOMAIN u = 1..(Len(s) + MsgLen)
         /\ \A i \in 1..Len(s) : u[i] = s[i]
         /\ \A x \in 1..MsgLen : u[Len(s) + x] = <<t, k + x>>
<1>1. PICK d \in Seq(Byte) : d = Message(t, k)
  OBVIOUS
<1>2. DOMAIN d = 1..MsgLen /\ \A x \in 1..MsgLen : d[x] = <<t, k + x>>
  BY <1>1 DEF Message
<1>3. Len(d) = MsgLen /\ Len(s) \in Nat /\ MsgLen \in Nat
  BY <1>2, BoundAssumption, LenProperties
<1>4. PICK u \in Seq(Byte) : u = s \o d
  BY ConcatProperties
<1>5. /\ Len(u) = Len(s) + MsgLen
      /\ \A i \in 1..(Len(s) + MsgLen) : u[i] = IF i <= Len(s) THEN s[i] ELSE d[i - Len(s)]
  BY <1>3, <1>4, ConcatProperties
<1>6. DOMAIN s = 1..Len(s) /\ DOMAIN u = 1..(Len(s) + MsgLen)
  BY <1>5, LenProperties
<1>7. \A i \in 1..Len(s) : u[i] = s[i]
  BY <1>3, <1>5
<1>8. ASSUME NEW x \in 1..MsgLen PROVE u[Len(s) + x] = <<t, k + x>>
  <2>1. Len(s) + x \in 1..(Len(s) + MsgLen) /\ ~(Len(s) + x <= Len(s))
        /\ (Len(s) + x) - Len(s) = x
    BY <1>3
  <2>2. QED
    BY <1>2, <1>5, <2>1
<1>9. QED
  BY <1>1, <1>3, <1>4, <1>5, <1>6, <1>7, <1>8

(* Behind is cited for a stream u by these facts.                           *)
Extends(u, s, t, k) ==
  /\ u \in Seq(Byte) /\ Len(u) = Len(s) + MsgLen /\ Len(s) \in Nat
  /\ DOMAIN s = 1..Len(s) /\ DOMAIN u = 1..(Len(s) + MsgLen)
  /\ \A i \in 1..Len(s) : u[i] = s[i]
  /\ \A x \in 1..MsgLen : u[Len(s) + x] = <<t, k + x>>

LEMMA ExtendsMessage ==
  ASSUME NEW s \in Seq(Byte), NEW t \in Threads, NEW k \in Nat, Message(t, k) \in Seq(Byte)
  PROVE  Extends(s \o Message(t, k), s, t, k)
  BY Behind DEF Extends

(* An index of the longer stream is one of s or of the message.             *)
IsIndex(u, s, t, k, i) ==
  \/ i \in 1..Len(s) /\ u[i] = s[i]
  \/ \E x \in 1..MsgLen : i = Len(s) + x /\ u[i] = <<t, k + x>>

LEMMA IndexCases ==
  ASSUME NEW u, NEW s, NEW t, NEW k, Extends(u, s, t, k), NEW i \in DOMAIN u
  PROVE  IsIndex(u, s, t, k, i)
<1> USE DEF IsIndex
<1>1. CASE i <= Len(s)
  BY <1>1 DEF Extends
<1>2. CASE ~(i <= Len(s))
  <2>1. i - Len(s) \in 1..MsgLen /\ i = Len(s) + (i - Len(s))
    BY <1>2, BoundAssumption DEF Extends
  <2>2. PICK x \in 1..MsgLen : i = Len(s) + x
    BY <2>1
  <2>3. QED
    BY <2>2 DEF Extends
<1>3. QED
  BY <1>1, <1>2

LEMMA ExtendsBefore ==
  ASSUME NEW s \in Seq(Byte), NEW t \in Threads, NEW k \in Nat, NEW u, Extends(u, s, t, k),
         NEW v, NEW n \in Nat, Before(s, v, n), v = t => k + MsgLen <= n
  PROVE  Before(u, v, n)
<1> SUFFICES ASSUME NEW i \in DOMAIN u, u[i][1] = v PROVE u[i][2] <= n
  BY DEF Before
<1>1. CASE i \in 1..Len(s) /\ u[i] = s[i]
  BY <1>1 DEF Before, Extends
<1>2. ASSUME NEW x \in 1..MsgLen, u[i] = <<t, k + x>> PROVE u[i][2] <= n
  BY <1>2, BoundAssumption
<1>3. IsIndex(u, s, t, k, i)
  BY IndexCases
<1>4. QED
  BY <1>1, <1>2, <1>3 DEF IsIndex

LEMMA ExtendsRange ==
  ASSUME NEW s \in Seq(Byte), NEW t \in Threads, NEW k \in Nat, NEW u, Extends(u, s, t, k)
  PROVE  Range(s) \subseteq Range(u) /\ <<t, k + MsgLen>> \in Range(u)
<1>1. \A i \in 1..Len(s) : i \in DOMAIN u /\ u[i] = s[i]
  BY BoundAssumption DEF Extends
<1>2. Len(s) + MsgLen \in DOMAIN u /\ u[Len(s) + MsgLen] = <<t, k + MsgLen>>
  BY BoundAssumption DEF Extends
<1>3. DOMAIN s = 1..Len(s)
  BY DEF Extends
<1>4. QED
  BY <1>1, <1>2, <1>3 DEF Range

(* A whole message of a thread behind all its earlier ones.                 *)
LEMMA ExtendsIntact ==
  ASSUME NEW s \in Seq(Byte), NEW t \in Threads, NEW k \in Nat, k % MsgLen = 0,
         NEW u, Extends(u, s, t, k), Intact(s), Before(s, t, k)
  PROVE  Intact(u)
<1> USE BoundAssumption
<1> SUFFICES ASSUME NEW i \in DOMAIN u
             PROVE  /\ u[i][2] % MsgLen # 0 => i < Len(u) /\ u[i + 1] = <<u[i][1], u[i][2] + 1>>
                    /\ (u[i][2] - 1) % MsgLen # 0
                         => i > 1 /\ u[i - 1] = <<u[i][1], u[i][2] - 1>>
                    /\ \A j \in 1..(i - 1) : u[j][1] = u[i][1] => u[j][2] < u[i][2]
  BY DEF Intact
<1>1. CASE i \in 1..Len(s) /\ u[i] = s[i]
  <2>1. i \in DOMAIN s /\ \A j \in 1..(i - 1) : u[j] = s[j]
    BY <1>1 DEF Extends
  <2>2. s[i][2] % MsgLen # 0 => i < Len(u) /\ u[i + 1] = <<s[i][1], s[i][2] + 1>>
    <3>1. SUFFICES ASSUME s[i][2] % MsgLen # 0
                   PROVE  i < Len(u) /\ u[i + 1] = <<s[i][1], s[i][2] + 1>>
      OBVIOUS
    <3>2. i < Len(s) /\ s[i + 1] = <<s[i][1], s[i][2] + 1>>
      BY <2>1, <3>1 DEF Intact
    <3>3. i + 1 \in 1..Len(s) /\ i < Len(u)
      BY <1>1, <3>2 DEF Extends
    <3>4. QED
      BY <3>2, <3>3 DEF Extends
  <2>3. (s[i][2] - 1) % MsgLen # 0 => i > 1 /\ u[i - 1] = <<s[i][1], s[i][2] - 1>>
    <3>1. SUFFICES ASSUME (s[i][2] - 1) % MsgLen # 0
                   PROVE  i > 1 /\ u[i - 1] = <<s[i][1], s[i][2] - 1>>
      OBVIOUS
    <3>2. i > 1 /\ s[i - 1] = <<s[i][1], s[i][2] - 1>>
      BY <2>1, <3>1 DEF Intact
    <3>3. i - 1 \in 1..(i - 1)
      BY <1>1, <3>2 DEF Extends
    <3>4. QED
      BY <2>1, <3>2, <3>3
  <2>4. \A j \in 1..(i - 1) : s[j][1] = s[i][1] => s[j][2] < s[i][2]
    BY <2>1 DEF Intact
  <2>5. QED
    BY <1>1, <2>1, <2>2, <2>3, <2>4
<1>2. ASSUME NEW x \in 1..MsgLen, i = Len(s) + x, u[i] = <<t, k + x>>
      PROVE  /\ u[i][2] % MsgLen # 0 => i < Len(u) /\ u[i + 1] = <<u[i][1], u[i][2] + 1>>
             /\ (u[i][2] - 1) % MsgLen # 0
                  => i > 1 /\ u[i - 1] = <<u[i][1], u[i][2] - 1>>
             /\ \A j \in 1..(i - 1) : u[j][1] = u[i][1] => u[j][2] < u[i][2]
  <2>1. u[i][1] = t /\ u[i][2] = k + x
    BY <1>2
  <2>2. ((k + x) % MsgLen = 0 <=> x = MsgLen) /\ (((k + x) - 1) % MsgLen = 0 <=> x = 1)
    <3>1. MsgLen \in Nat \ {0}
      OBVIOUS
    <3>2. PlaceOf(MsgLen, k, x)
      BY <3>1, ModWithin
    <3>3. QED
      BY <3>2 DEF PlaceOf
  <2>3. ASSUME x # MsgLen PROVE i < Len(u) /\ u[i + 1] = <<t, (k + x) + 1>>
    <3>1. x + 1 \in 1..MsgLen /\ i + 1 = Len(s) + (x + 1) /\ k + (x + 1) = (k + x) + 1
      BY <1>2, <2>3 DEF Extends
    <3>2. u[Len(s) + (x + 1)] = <<t, k + (x + 1)>>
      BY <3>1 DEF Extends
    <3>3. i < Len(u)
      BY <1>2, <2>3 DEF Extends
    <3>4. QED
      BY <3>1, <3>2, <3>3
  <2>4. ASSUME x # 1 PROVE i > 1 /\ u[i - 1] = <<t, (k + x) - 1>>
    <3>1. x - 1 \in 1..MsgLen /\ i - 1 = Len(s) + (x - 1) /\ k + (x - 1) = (k + x) - 1
      BY <1>2, <2>4 DEF Extends
    <3>2. u[Len(s) + (x - 1)] = <<t, k + (x - 1)>>
      BY <3>1 DEF Extends
    <3>3. i > 1
      BY <1>2, <2>4 DEF Extends
    <3>4. QED
      BY <3>1, <3>2, <3>3
  <2>5. ASSUME NEW j \in 1..(i - 1), u[j][1] = t PROVE u[j][2] < k + x
    <3>1. j \in DOMAIN u
      BY <1>2 DEF Extends
    <3>2. CASE j \in 1..Len(s) /\ u[j] = s[j]
      <4>1. j \in DOMAIN s /\ s[j] \in Byte
        BY <3>2, ElementOfSeq DEF Extends
      <4>2. s[j][2] \in Nat /\ s[j][2] <= k
        BY <2>5, <3>2, <4>1, ByteMeans DEF Before
      <4>3. QED
        BY <3>2, <4>2
    <3>3. ASSUME NEW y \in 1..MsgLen, j = Len(s) + y, u[j] = <<t, k + y>>
          PROVE  u[j][2] < k + x
      BY <1>2, <3>3 DEF Extends
    <3>4. IsIndex(u, s, t, k, j)
      BY <3>1, IndexCases
    <3>5. QED
      BY <3>2, <3>3, <3>4 DEF IsIndex
  <2>6. QED
    BY <2>1, <2>2, <2>3, <2>4, <2>5
<1>3. IsIndex(u, s, t, k, i)
  BY IndexCases
<1>4. QED
  BY <1>1, <1>2, <1>3 DEF IsIndex

(* The message's first byte has its predecessor in s, the others in itself. *)
LEMMA ExtendsSkipless ==
  ASSUME NEW s \in Seq(Byte), NEW t \in Threads, NEW k \in Nat,
         NEW u, Extends(u, s, t, k), Skipless(s), k = 0 \/ <<t, k>> \in Range(s)
  PROVE  Skipless(u)
<1> USE BoundAssumption
<1> SUFFICES ASSUME NEW i \in DOMAIN u, u[i][2] > 1
             PROVE  \E j \in 1..(i - 1) : u[j] = <<u[i][1], u[i][2] - 1>>
  BY DEF Skipless
<1>1. CASE i \in 1..Len(s) /\ u[i] = s[i]
  <2>1. PICK j \in 1..(i - 1) : s[j] = <<s[i][1], s[i][2] - 1>>
    BY <1>1 DEF Skipless, Extends
  <2>2. u[j] = s[j]
    BY <1>1 DEF Extends
  <2>3. QED
    BY <1>1, <2>1, <2>2
<1>2. ASSUME NEW x \in 1..MsgLen, i = Len(s) + x, u[i] = <<t, k + x>>
      PROVE  \E j \in 1..(i - 1) : u[j] = <<u[i][1], u[i][2] - 1>>
  <2>0. u[i][1] = t /\ u[i][2] = k + x
    BY <1>2
  <2>1. CASE x = 1
    <3>1. k # 0 /\ (k + x) - 1 = k
      BY <1>2, <2>1
    <3>2. PICK j \in DOMAIN s : s[j] = <<t, k>>
      BY <3>1 DEF Range
    <3>3. j \in 1..(i - 1) /\ u[j] = s[j]
      BY <1>2, <2>1 DEF Extends
    <3>4. QED
      BY <2>0, <3>1, <3>2, <3>3
  <2>2. CASE x # 1
    <3>1. x - 1 \in 1..MsgLen /\ k + (x - 1) = (k + x) - 1
      BY <2>2
    <3>2. u[Len(s) + (x - 1)] = <<t, k + (x - 1)>>
      BY <3>1 DEF Extends
    <3>3. Len(s) + (x - 1) \in 1..(i - 1)
      BY <1>2, <2>2 DEF Extends
    <3>4. QED
      BY <2>0, <3>1, <3>2, <3>3
  <2>3. QED
    BY <2>1, <2>2
<1>3. IsIndex(u, s, t, k, i)
  BY IndexCases
<1>4. QED
  BY <1>1, <1>2, <1>3 DEF IsIndex
-----------------------------------------------------------------------------
(* The functors posted, in order.                                           *)
LEMMA OrderAppend ==
  ASSUME NEW q \in Seq(Functor), NEW f \in Functor, InOrder(q),
         \A g \in Range(q) : Follows(g, f)
  PROVE  InOrder(Append(q, f))
<1> DEFINE n == Len(q)
           r == Append(q, f)
<1>1. n \in Nat /\ DOMAIN q = 1..n
  BY LenProperties
<1>2. DOMAIN r = 1..(n + 1) /\ (\A i \in 1..n : r[i] = q[i]) /\ r[n + 1] = f
  BY <1>1, AppendProperties, LenProperties
<1> HIDE DEF n, r
<1>3. ASSUME NEW i \in DOMAIN r, NEW j \in DOMAIN r, i < j PROVE Follows(r[i], r[j])
  <2>1. i \in 1..n /\ r[i] = q[i] /\ q[i] \in Range(q)
    BY <1>1, <1>2, <1>3 DEF Range
  <2>2. CASE j = n + 1
    BY <1>2, <2>1, <2>2
  <2>3. CASE j # n + 1
    <3>1. j \in 1..n /\ r[j] = q[j]
      BY <1>1, <1>2, <1>3, <2>3
    <3>2. Follows(q[i], q[j])
      BY <1>1, <1>3, <2>1, <3>1 DEF InOrder
    <3>3. QED
      BY <2>1, <3>1, <3>2
  <2>4. QED
    BY <2>2, <2>3
<1>4. QED
  BY <1>3 DEF InOrder, r

LEMMA OrderTail ==
  ASSUME NEW q \in Seq(Functor), q # <<>>, InOrder(q)
  PROVE  InOrder(Tail(q)) /\ \A g \in Range(Tail(q)) : Follows(Head(q), g)
<1> DEFINE n == Len(q)
           r == Tail(q)
<1>1. n \in Nat /\ n > 0 /\ DOMAIN q = 1..n /\ Head(q) = q[1]
  BY LenProperties, EmptySeq
<1>2. DOMAIN r = 1..(n - 1) /\ \A i \in 1..(n - 1) : r[i] = q[i + 1]
  BY <1>1, HeadTailProperties, LenProperties
<1> HIDE DEF n, r
<1>3. ASSUME NEW i \in DOMAIN r, NEW j \in DOMAIN r, i < j PROVE Follows(r[i], r[j])
  <2>1. i + 1 \in DOMAIN q /\ j + 1 \in DOMAIN q /\ i + 1 < j + 1
    BY <1>1, <1>2, <1>3
  <2>2. Follows(q[i + 1], q[j + 1])
    BY <2>1 DEF InOrder
  <2>3. QED
    BY <1>2, <2>2
<1>4. ASSUME NEW g \in Range(r) PROVE Follows(Head(q), g)
  <2>1. PICK i \in DOMAIN r : r[i] = g
    BY <1>4 DEF Range
  <2>2. 1 \in DOMAIN q /\ i + 1 \in DOMAIN q /\ 1 < i + 1 /\ q[i + 1] = g
    BY <1>1, <1>2, <2>1
  <2>3. Follows(q[1], q[i + 1])
    BY <2>2 DEF InOrder
  <2>4. QED
    BY <1>1, <2>2, <2>3
<1>5. QED
  BY <1>3, <1>4 DEF InOrder, r
-----------------------------------------------------------------------------
(* What the steps do to the stream.                                         *)
LEMMA CutJoins ==
  ASSUME NEW d \in Seq(Byte), NEW n \in 0..Len(d)
  PROVE  /\ SubSeq(d, 1, n) \in Seq(Byte) /\ SubSeq(d, n + 1, Len(d)) \in Seq(Byte)
         /\ SubSeq(d, 1, n) \o SubSeq(d, n + 1, Len(d)) = d
<1>1. /\ Len(d) \in Nat /\ 1 \in Int /\ n \in Int /\ n + 1 \in Int /\ Len(d) \in Int
      /\ (\A i \in 1..n : d[i] \in Byte) /\ (\A i \in (n + 1)..Len(d) : d[i] \in Byte)
  BY LenProperties, ElementOfSeq
<1>2. SubSeq(d, 1, n) \in Seq(Byte) /\ SubSeq(d, n + 1, Len(d)) \in Seq(Byte)
  BY <1>1, SubSeqProperties
<1>3. 1 \in 1..(Len(d) + 1) /\ n \in (1 - 1)..Len(d) /\ Len(d) \in n..Len(d)
  BY <1>1
<1>4. SubSeq(d, 1, n) \o SubSeq(d, n + 1, Len(d)) = SubSeq(d, 1, Len(d))
  BY <1>3, ConcatAdjacentSubSeq
<1>5. SubSeq(d, 1, Len(d)) = d
  BY SubSeqFull
<1>6. QED
  BY <1>2, <1>4, <1>5

LEMMA CutMoves ==
  ASSUME NEW w \in Seq(Byte), NEW d \in Seq(Byte), NEW n \in 0..Len(d)
  PROVE  (w \o SubSeq(d, 1, n)) \o SubSeq(d, n + 1, Len(d)) = w \o d
<1>1. PICK a \in Seq(Byte) : a = SubSeq(d, 1, n)
  BY CutJoins
<1>2. PICK b \in Seq(Byte) : b = SubSeq(d, n + 1, Len(d))
  BY CutJoins
<1>3. a \o b = d
  BY <1>1, <1>2, CutJoins
<1>4. (w \o a) \o b = w \o (a \o b)
  BY ConcatAssociative, SMTT(30)
<1>5. QED
  BY <1>1, <1>2, <1>3, <1>4

LEMMA CutBehind ==
  ASSUME NEW w \in Seq(Byte), NEW o \in Seq(Byte), NEW d \in Seq(Byte), NEW n \in 0..Len(d),
         n = 0 \/ o = <<>>
  PROVE  (w \o SubSeq(d, 1, n)) \o (o \o SubSeq(d, n + 1, Len(d))) = (w \o o) \o d
<1>1. PICK a \in Seq(Byte) : a = SubSeq(d, 1, n)
  BY CutJoins
<1>2. PICK b \in Seq(Byte) : b = SubSeq(d, n + 1, Len(d))
  BY CutJoins
<1>3. a \o b = d
  BY <1>1, <1>2, CutJoins
<1>4. CASE n = 0
  <2>1. a = <<>>
    BY <1>1, <1>4, SubSeqEmpty
  <2>2. w \o a = w /\ b = d
    BY <1>3, <2>1, ConcatEmptySeq
  <2>3. (w \o o) \o d = w \o (o \o d)
    BY ConcatAssociative, SMTT(30)
  <2>4. QED
    BY <1>1, <1>2, <2>2, <2>3
<1>5. CASE o = <<>>
  <2>1. o \o b = b /\ w \o o = w
    BY <1>5, ConcatEmptySeq
  <2>2. (w \o a) \o b = w \o (a \o b)
    BY ConcatAssociative, SMTT(30)
  <2>3. QED
    BY <1>1, <1>2, <1>3, <2>1, <2>2
<1>6. QED
  BY <1>4, <1>5

(* HandleWrite moves bytes from the output to the kernel.                   *)
LEMMA WriteKeepsStream == ASSUME IInv, HandleWrite PROVE Stream' = Stream
<1>1. wire \in Seq(Byte) /\ output \in Seq(Byte)
  BY DEF IInv, TypeOK
<1>2. CASE Writing /\ ~WriteFails
  <2>1. PICK n \in 1..Len(output) : /\ wire' = wire \o SubSeq(output, 1, n)
                                    /\ output' = SubSeq(output, n + 1, Len(output))
    BY <1>2 DEF HandleWrite
  <2>2. n \in 0..Len(output)
    BY <1>1, <2>1, LenProperties
  <2>3. (wire \o SubSeq(output, 1, n)) \o SubSeq(output, n + 1, Len(output)) = wire \o output
    BY <1>1, <2>2, CutMoves
  <2>4. QED
    BY <2>1, <2>3, Zenon DEF Stream
<1>3. CASE ~(Writing /\ ~WriteFails)
  BY <1>3 DEF HandleWrite, Stream, socketVars
<1>4. QED
  BY <1>2, <1>3

(* From when on SendInLoop only gives up: the connection is closed, or      *)
(* nothing is queued and write(2) fails.                                    *)
Dead == state = "DISCONNECTED" \/ (WritesDirectly /\ WriteFails)

LEMMA SendExtends ==
  ASSUME IInv, NEW d \in Seq(Byte), SendInLoop(d)
  PROVE  IF Dead THEN Stream' = Stream ELSE Stream' = Stream \o d
<1>1. wire \in Seq(Byte) /\ output \in Seq(Byte)
  BY DEF IInv, TypeOK
<1>2. CASE Dead
  BY <1>2 DEF Dead, SendInLoop, GiveUp, Stream
<1>3. CASE ~Dead
  <2>1. 0 \in 0..Len(d)
    BY LenProperties
  <2>2. PICK n \in 0..Len(d) : Queue(d, n) /\ (n = 0 \/ output = <<>>)
    BY <1>3, <2>1 DEF Dead, SendInLoop, WritesDirectly
  <2>3. wire' = wire \o SubSeq(d, 1, n) /\ output' = output \o SubSeq(d, n + 1, Len(d))
    BY <2>2 DEF Queue
  <2>4. (wire \o SubSeq(d, 1, n)) \o (output \o SubSeq(d, n + 1, Len(d)))
          = (wire \o output) \o d
    BY <1>1, <2>2, CutBehind, ZenonT(40)
  <2>5. QED
    BY <1>3, <2>3, <2>4, Zenon DEF Stream
<1>4. QED
  BY <1>2, <1>3

(* The four kinds of step: no data is sent, a thread posts a message, the   *)
(* loop's thread sends one, the loop executes a posted one.                 *)
Passes(d) == IF Dead THEN Stream' = Stream ELSE Stream' = Stream \o d

Keeps ==
  /\ Stream' = Stream /\ sent' = sent
  /\ \/ pending' = pending
     \/ pending # <<>> /\ Head(pending).op # "send" /\ pending' = Tail(pending)
     \/ \E f \in Functor : f.op # "send" /\ pending' = Append(pending, f)

Posts(t) ==
  /\ Counted(t) /\ Stream' = Stream
  /\ pending' = Append(pending, [op |-> "send", data |-> NextBytes(t)])

SendsNow == Counted(Io) /\ pending' = pending /\ Passes(NextBytes(Io))

SendsPosted ==
  /\ pending # <<>> /\ Head(pending).op = "send" /\ pending' = Tail(pending)
  /\ sent' = sent /\ Passes(Head(pending).data)

LEMMA FlowStep ==
  ASSUME IInv, [Next]_vars
  PROVE  Keeps \/ (\E t \in Callers : Posts(t)) \/ SendsNow \/ SendsPosted
<1> USE DEF chanVars, streamVars, socketVars, usageVars, peerVars
<1>1. ASSUME UNCHANGED <<output, wire, sent, pending>> PROVE Keeps
  BY <1>1 DEF Keeps, Stream
<1>2. ASSUME NEW evs, Poll(evs) PROVE UNCHANGED <<output, wire, sent, pending>>
  BY <1>2 DEF Poll
<1>3. ASSUME HandleError \/ HandleHangUp \/ HandleRead \/ HandledEvents \/ Return
             \/ Closed \/ Destroyed
      PROVE  UNCHANGED <<output, wire, sent, pending>>
  BY <1>3 DEF HandleError, HandleHangUp, HandleRead, HandledEvents, Return, Closed, Destroyed
<1>4. ASSUME HandleWrite PROVE Keeps
  BY <1>4, WriteKeepsStream DEF HandleWrite, Keeps
<1>5. ASSUME IoSend PROVE SendsNow
  <2>1. NextBytes(Io) \in Seq(Byte)
    BY <1>5, MessageMeans DEF IoSend, IInv, Threads
  <2>2. Passes(NextBytes(Io))
    BY <1>5, <2>1, SendExtends DEF IoSend, Passes
  <2>3. QED
    BY <1>5, <2>2 DEF IoSend, SendsNow
<1>6. ASSUME IoShutdown \/ DestroyServer \/ PeerSends \/ PeerLeaves
      PROVE  UNCHANGED <<output, wire, sent, pending>>
  BY <1>6 DEF IoShutdown, DestroyServer, PeerSends, PeerLeaves
<1>7. ASSUME NEW t \in Callers, Send(t) PROVE Posts(t)
  BY <1>7 DEF Send, Posts, Stream
<1>8. ASSUME NEW t \in Callers, ShutdownCheck(t) \/ ShutdownStore(t)
      PROVE  UNCHANGED <<output, wire, sent, pending>>
  BY <1>8 DEF ShutdownCheck, ShutdownStore
<1>9. ASSUME NEW t \in Callers, ShutdownPost(t) PROVE Keeps
  <2>1. [op |-> "shutdown"] \in Functor /\ [op |-> "shutdown"].op # "send"
    BY DEF Functor
  <2>2. QED
    BY <1>9, <2>1 DEF ShutdownPost, Keeps, Stream
<1>10. ASSUME RemoveConnectionInLoop PROVE Keeps
  <2>1. [op |-> "destroyed"] \in Functor /\ [op |-> "destroyed"].op # "send"
    BY DEF Functor
  <2>2. QED
    BY <1>10, <2>1 DEF RemoveConnectionInLoop, Keeps, Stream
<1>11. ASSUME RunFunctor PROVE Keeps \/ SendsPosted
  <2> DEFINE f == Head(pending)
  <2>1. pending # <<>> /\ pending' = Tail(pending) /\ sent' = sent
    BY <1>11 DEF RunFunctor
  <2>2. f \in Functor /\ f \in Range(pending)
    BY <2>1, PendingTail DEF IInv, TypeOK
  <2>3. f.op = "send" => f.data \in Seq(Byte)
    BY <2>2 DEF Functor
  <2>4. f.op # "send" => UNCHANGED <<output, wire>>
    BY <1>11 DEF RunFunctor
  <2>5. f.op = "send" => SendInLoop(f.data)
    BY <1>11 DEF RunFunctor
  <2> HIDE DEF f
  <2>6. CASE f.op = "send"
    <3>1. Passes(f.data)
      BY <2>3, <2>5, <2>6, SendExtends DEF Passes
    <3>2. QED
      BY <2>1, <2>6, <3>1 DEF SendsPosted, f
  <2>7. CASE f.op # "send"
    BY <2>1, <2>4, <2>7 DEF Keeps, Stream, f
  <2>8. QED
    BY <2>6, <2>7
<1>12. CASE UNCHANGED vars
  BY <1>1, <1>12 DEF vars
<1>13. QED
  BY <1>1, <1>2, <1>3, <1>4, <1>5, <1>6, <1>7, <1>8, <1>9, <1>10, <1>11, <1>12
     DEF Next, LoopStep, UserStep, FinishShutdown, PollWith
-----------------------------------------------------------------------------
(* Whole messages, in order.                                                *)
LEMMA StreamTypes ==
  ASSUME IInv PROVE Stream \in Seq(Byte) /\ pending \in Seq(Functor) /\ sent \in [Threads -> Nat]
  BY ConcatProperties DEF IInv, TypeOK, Stream

(* A counted message, as it is posted or passed on.                         *)
LEMMA CountedMeans ==
  ASSUME IInv, Numbered, NEW t \in Threads, Counted(t)
  PROVE  /\ NextBytes(t) = Message(t, sent[t]) /\ NextBytes(t) \in Seq(Byte)
         /\ sent[t] \in Nat /\ sent[t] % MsgLen = 0
         /\ sent'[t] = sent[t] + MsgLen /\ sent'[t] \in Nat /\ sent'[t] % MsgLen = 0
         /\ \A u \in Threads \ {t} : sent'[u] = sent[u]
         /\ NextBytes(t)[1] = <<t, sent[t] + 1>>
<1>1. sent[t] \in Nat /\ sent[t] % MsgLen = 0 /\ MsgLen \in Nat \ {0}
  BY StreamTypes, BoundAssumption DEF Numbered
<1>2. NextBytes(t) = Message(t, sent[t]) /\ NextBytes(t) \in Seq(Byte)
  BY MessageMeans DEF IInv, NextBytes, Message
<1>3. /\ sent'[t] = sent[t] + MsgLen
      /\ \A u \in Threads \ {t} : sent'[u] = sent[u]
  BY StreamTypes DEF Counted
<1>4. (sent[t] + MsgLen) % MsgLen = 0
  BY <1>1, ModNext
<1>5. NextBytes(t)[1] = <<t, sent[t] + 1>>
  BY <1>1 DEF NextBytes
<1>6. sent'[t] \in Nat
  BY <1>1, <1>3
<1>7. sent'[t] % MsgLen = 0
  BY <1>3, <1>4, Zenon
<1>8. QED
  BY <1>1, <1>2, <1>3, <1>5, <1>6, <1>7, Zenon

(* What a message passed on leaves in front of any other.                   *)
LEMMA StreamPasses ==
  ASSUME IInv, Intact(Stream), NEW t \in Threads, NEW k \in Nat, k % MsgLen = 0,
         Message(t, k) \in Seq(Byte), Before(Stream, t, k), Passes(Message(t, k))
  PROVE  /\ Intact(Stream')
         /\ \A v \in Threads, n \in Nat :
              Before(Stream, v, n) /\ (v = t => k + MsgLen <= n) => Before(Stream', v, n)
<1>1. PICK s \in Seq(Byte) : s = Stream
  BY StreamTypes
<1>2. CASE Dead
  BY <1>2 DEF Passes
<1>3. CASE ~Dead
  <2>1. PICK u : u = s \o Message(t, k)
    OBVIOUS
  <2>2. Extends(u, s, t, k)
    BY <2>1, ExtendsMessage
  <2>3. Intact(s) /\ Before(s, t, k)
    BY <1>1
  <2>4. Intact(u)
    BY <2>2, <2>3, ExtendsIntact
  <2>5. \A v \in Threads, n \in Nat :
          Before(s, v, n) /\ (v = t => k + MsgLen <= n) => Before(u, v, n)
    BY <2>2, ExtendsBefore
  <2>6. Stream' = u
    BY <1>1, <1>3, <2>1 DEF Passes
  <2>7. QED
    BY <1>1, <2>4, <2>5, <2>6
<1>4. QED
  BY <1>2, <1>3

LEMMA KeepsStep == ASSUME IInv, StreamInv, Keeps PROVE StreamInv'
<1> USE StreamTypes DEF StreamInv
<1>1. Stream' = Stream /\ sent' = sent
  BY DEF Keeps
<1>2. ASSUME NEW f PROVE Waiting(f) => Waiting(f)'
  BY <1>1 DEF Waiting
<1>3. CASE pending' = pending
  BY <1>1, <1>2, <1>3 DEF Numbered, Waits
<1>4. CASE pending # <<>> /\ pending' = Tail(pending)
  <2>1. Range(pending') \subseteq Range(pending)
    BY <1>4, PendingTail
  <2>2. InOrder(pending')
    BY <1>4, OrderTail
  <2>3. QED
    BY <1>1, <1>2, <2>1, <2>2 DEF Numbered, Waits
<1>5. ASSUME NEW f \in Functor, f.op # "send", pending' = Append(pending, f) PROVE StreamInv'
  <2>1. Range(pending') = Range(pending) \cup {f}
    BY <1>5, PendingAppend
  <2>2. \A g \in Range(pending) : Follows(g, f)
    BY <1>5 DEF Follows
  <2>3. InOrder(pending')
    BY <1>5, <2>2, OrderAppend
  <2>4. QED
    BY <1>1, <1>2, <1>5, <2>1, <2>3 DEF Numbered, Waits
<1>6. QED
  BY <1>3, <1>4, <1>5 DEF Keeps

LEMMA PostsStep == ASSUME IInv, StreamInv, NEW t \in Callers, Posts(t) PROVE StreamInv'
<1> USE StreamTypes DEF StreamInv
<1>1. /\ NextBytes(t) = Message(t, sent[t]) /\ NextBytes(t) \in Seq(Byte)
      /\ sent[t] \in Nat /\ sent[t] % MsgLen = 0 /\ sent'[t] = sent[t] + MsgLen /\ sent'[t] \in Nat
      /\ sent'[t] % MsgLen = 0 /\ \A u \in Threads \ {t} : sent'[u] = sent[u]
      /\ NextBytes(t)[1] = <<t, sent[t] + 1>>
  BY CountedMeans DEF Posts, Threads
<1>2. MsgLen \in Nat
  BY BoundAssumption
<1>3. PICK f : f = [op |-> "send", data |-> NextBytes(t)]
  OBVIOUS
<1>4. f \in Functor /\ f.op = "send" /\ f.data = Message(t, sent[t])
      /\ Owner(f) = t /\ Base(f) = sent[t]
  <2>1. PICK d \in Seq(Byte) : d = NextBytes(t)
    BY <1>1
  <2>2. f.op = "send" /\ f.data = d /\ f \in Functor
    BY <1>3, <2>1 DEF Functor
  <2>3. d[1] = <<t, sent[t] + 1>>
    BY <1>1, <2>1
  <2>4. Owner(f) = t /\ Base(f) = (sent[t] + 1) - 1
    BY <2>2, <2>3 DEF Owner, Base
  <2>5. QED
    BY <1>1, <2>1, <2>2, <2>4
<1>5. Stream' = Stream /\ pending' = Append(pending, f)
  BY <1>3 DEF Posts
<1>6. Range(pending') = Range(pending) \cup {f}
  BY <1>4, <1>5, PendingAppend
<1>7. ASSUME NEW g \in Range(pending), g.op = "send" PROVE Waiting(g)' /\ Follows(g, f)
  <2>1. Waiting(g)
    BY <1>7 DEF Waits
  <2>2. sent[Owner(g)] \in Nat /\ sent[Owner(g)] <= sent'[Owner(g)]
        /\ sent'[Owner(g)] \in Nat /\ Base(g) \in Nat
    BY <1>1, <1>2, <2>1, SMTT(30) DEF Waiting, Threads
  <2>3. Waiting(g)'
    BY <1>2, <1>5, <2>1, <2>2 DEF Waiting
  <2>4. QED
    BY <1>4, <2>1, <2>3 DEF Follows, Waiting
<1>8. Waiting(f)'
  <2>1. Before(Stream, t, sent[t])
    BY DEF Numbered, Threads
  <2>2. QED
    BY <1>1, <1>2, <1>4, <1>5, <2>1 DEF Waiting
<1>9. InOrder(pending')
  <2>1. \A g \in Range(pending) : Follows(g, f)
    BY <1>7 DEF Follows
  <2>2. QED
    BY <1>4, <1>5, <2>1, OrderAppend
<1>10. Waits'
  BY <1>6, <1>7, <1>8 DEF Waits
<1>11. ASSUME NEW u \in Threads PROVE sent'[u] % MsgLen = 0 /\ Before(Stream, u, sent'[u])
  <2>1. CASE u # t
    BY <1>1, <2>1 DEF Numbered
  <2>2. CASE u = t
    <3>1. Before(Stream, t, sent[t]) /\ \A i \in DOMAIN Stream : Stream[i][2] \in Nat
      BY ByteMeans, ElementOfSeq, LenProperties DEF Numbered, Threads
    <3>2. Before(Stream, t, sent'[t])
      BY <1>1, <1>2, <3>1 DEF Before
    <3>3. QED
      BY <1>1, <2>2, <3>2
  <2>3. QED
    BY <2>1, <2>2
<1>12. Numbered'
  BY <1>5, <1>11 DEF Numbered
<1>13. QED
  BY <1>5, <1>9, <1>10, <1>12

LEMMA SendsNowStep == ASSUME IInv, StreamInv, SendsNow PROVE StreamInv'
<1> USE StreamTypes DEF StreamInv
<1>1. /\ NextBytes(Io) = Message(Io, sent[Io]) /\ NextBytes(Io) \in Seq(Byte)
      /\ sent[Io] \in Nat /\ sent[Io] % MsgLen = 0 /\ sent'[Io] = sent[Io] + MsgLen
      /\ sent'[Io] \in Nat /\ sent'[Io] % MsgLen = 0
      /\ \A u \in Threads \ {Io} : sent'[u] = sent[u]
  BY CountedMeans DEF SendsNow, Threads
<1>2. PICK k \in Nat : k = sent[Io]
  BY <1>1
<1>3. /\ Io \in Threads /\ k % MsgLen = 0 /\ Message(Io, k) \in Seq(Byte)
      /\ Before(Stream, Io, k) /\ Passes(Message(Io, k))
  BY <1>1, <1>2 DEF Numbered, Threads, SendsNow
<1>4. /\ Intact(Stream')
      /\ \A v \in Threads, n \in Nat :
           Before(Stream, v, n) /\ (v = Io => k + MsgLen <= n) => Before(Stream', v, n)
  BY <1>3, StreamPasses
<1>5. pending' = pending
  BY DEF SendsNow
<1>6. ASSUME NEW g \in Range(pending), g.op = "send" PROVE Waiting(g)'
  <2>1. Waiting(g)
    BY <1>6 DEF Waits
  <2>2. Owner(g) \in Threads /\ Owner(g) # Io /\ Base(g) \in Nat
    BY <2>1, ThreadAssumption DEF Waiting, Threads
  <2>3. Before(Stream', Owner(g), Base(g))
    BY <1>4, <2>1, <2>2 DEF Waiting
  <2>4. sent'[Owner(g)] = sent[Owner(g)]
    BY <1>1, <2>2
  <2>5. QED
    BY <2>1, <2>3, <2>4 DEF Waiting
<1>7. Waits'
  BY <1>5, <1>6 DEF Waits
<1>8. ASSUME NEW u \in Threads PROVE sent'[u] % MsgLen = 0 /\ Before(Stream', u, sent'[u])
  <2>1. CASE u # Io
    <3>1. sent'[u] = sent[u] /\ sent[u] \in Nat /\ Before(Stream, u, sent[u]) /\ sent[u] % MsgLen = 0
      BY <1>1, <2>1 DEF Numbered
    <3>2. Before(Stream', u, sent[u])
      BY <1>4, <2>1, <3>1
    <3>3. QED
      BY <3>1, <3>2
  <2>2. CASE u = Io
    <3>1. \A i \in DOMAIN Stream : Stream[i][2] \in Nat
      BY ByteMeans, ElementOfSeq, LenProperties
    <3>2. k + MsgLen \in Nat /\ k <= k + MsgLen
      BY BoundAssumption
    <3>3. Before(Stream, Io, k + MsgLen)
      BY <1>3, <3>1, <3>2 DEF Before
    <3>4. Before(Stream', Io, k + MsgLen)
      BY <1>3, <1>4, <3>2, <3>3
    <3>5. QED
      BY <1>1, <1>2, <2>2, <3>4
  <2>3. QED
    BY <2>1, <2>2
<1>9. Numbered'
  BY <1>8 DEF Numbered
<1>10. QED
  BY <1>4, <1>5, <1>7, <1>9

LEMMA SendsPostedStep == ASSUME IInv, StreamInv, SendsPosted PROVE StreamInv'
<1> USE StreamTypes DEF StreamInv
<1>1. PICK f : f = Head(pending)
  OBVIOUS
<1>2. /\ pending # <<>> /\ f.op = "send" /\ pending' = Tail(pending) /\ sent' = sent
      /\ Passes(f.data)
  BY <1>1 DEF SendsPosted
<1>3. f \in Functor /\ f \in Range(pending) /\ Range(pending') \subseteq Range(pending)
  BY <1>1, <1>2, PendingTail
<1>4. InOrder(pending') /\ \A g \in Range(pending') : Follows(f, g)
  BY <1>1, <1>2, OrderTail
<1>5. PICK t \in Callers, k \in Nat : t = Owner(f) /\ k = Base(f)
  BY <1>2, <1>3 DEF Waits, Waiting
<1>6. /\ t \in Threads /\ k % MsgLen = 0 /\ f.data = Message(t, k) /\ k + MsgLen <= sent[t]
      /\ Before(Stream, t, k)
  BY <1>2, <1>3, <1>5 DEF Waits, Waiting, Threads
<1>7. Message(t, k) \in Seq(Byte) /\ Passes(Message(t, k))
  BY <1>2, <1>3, <1>6 DEF Functor
<1>8. /\ Intact(Stream')
      /\ \A v \in Threads, n \in Nat :
           Before(Stream, v, n) /\ (v = t => k + MsgLen <= n) => Before(Stream', v, n)
  BY <1>6, <1>7, StreamPasses
<1>9. ASSUME NEW g \in Range(pending'), g.op = "send" PROVE Waiting(g)'
  <2>1. Waiting(g)
    BY <1>3, <1>9 DEF Waits
  <2>2. Owner(g) \in Threads /\ Base(g) \in Nat /\ Before(Stream, Owner(g), Base(g))
    BY <2>1 DEF Waiting, Threads
  <2>3. Owner(g) = t => k + MsgLen <= Base(g)
    BY <1>2, <1>4, <1>5, <1>9 DEF Follows
  <2>4. Before(Stream', Owner(g), Base(g))
    BY <1>8, <2>2, <2>3
  <2>5. QED
    BY <1>2, <2>1, <2>4 DEF Waiting
<1>10. Waits'
  BY <1>9 DEF Waits
<1>11. ASSUME NEW u \in Threads PROVE sent'[u] % MsgLen = 0 /\ Before(Stream', u, sent'[u])
  <2>1. /\ sent'[u] = sent[u] /\ sent[u] \in Nat /\ Before(Stream, u, sent[u])
        /\ sent[u] % MsgLen = 0
    BY <1>2 DEF Numbered
  <2>2. Before(Stream', u, sent[u])
    BY <1>6, <1>8, <2>1
  <2>3. QED
    BY <2>1, <2>2
<1>12. Numbered'
  BY <1>11 DEF Numbered
<1>13. QED
  BY <1>4, <1>8, <1>10, <1>12

LEMMA StreamInvariance == Spec => []StreamInv
<1>1. Init => StreamInv
  <2> SUFFICES ASSUME Init PROVE StreamInv
    OBVIOUS
  <2>1. pending = <<[op |-> "established"]>> /\ sent = [t \in Threads |-> 0] /\ Stream = <<>>
    BY DEF Init, Stream
  <2>2. DOMAIN pending = 1..1 /\ pending[1].op = "established" /\ DOMAIN Stream = {}
    BY <2>1
  <2>3. 0 % MsgLen = 0
    BY BoundAssumption
  <2>4. Numbered
    BY <2>1, <2>2, <2>3 DEF Numbered, Before
  <2>5. Waits /\ InOrder(pending)
    BY <2>2 DEF Waits, InOrder, Follows, Range
  <2>6. QED
    BY <2>2, <2>4, <2>5 DEF StreamInv, Intact
<1>2. IInv /\ StreamInv /\ [Next]_vars => StreamInv'
  BY FlowStep, KeepsStep, PostsStep, SendsNowStep, SendsPostedStep
<1>3. QED
  BY <1>1, <1>2, Invariance, PTL DEF Spec

(* However partial writes, queued and direct ones and the threads that send *)
(* interleave, what the kernel took and what is queued behind it are whole  *)
(* messages, each thread's in its order.                                    *)
THEOREM StreamSafe == Spec => []StreamIntact
<1>1. StreamInv => StreamIntact
  BY DEF StreamInv, Intact, StreamIntact, Stream
<1>2. QED
  BY <1>1, StreamInvariance, PTL
-----------------------------------------------------------------------------
(* Nothing skipped.  The byte before a message is in the stream or in a     *)
(* message that is posted, until data is dropped, and then for good.        *)
Quiet == \A t \in Callers : shutting[t] = "no"

Reached(t, k) ==
  \/ k = 0 \/ <<t, k>> \in Range(Stream)
  \/ \E f \in Range(pending) : f.op = "send" /\ Owner(f) = t /\ Base(f) + MsgLen = k

Chained ==
  ~Dead => /\ \A t \in Threads : Reached(t, sent[t])
           /\ \A f \in Range(pending) : f.op = "send" => Reached(Owner(f), Base(f))

ChainInv == setup.shutters \subseteq {Io} => Quiet /\ Chained /\ Skipless(Stream)

(* No other thread calls Shutdown.                                          *)
LEMMA QuietStep ==
  ASSUME IInv, [Next]_vars
  PROVE  setup' = setup /\ (setup.shutters \subseteq {Io} /\ Quiet => Quiet')
<1> USE DEF Quiet, IInv, TypeOK
<1>1. ASSUME UNCHANGED <<setup, shutting>>
      PROVE  setup' = setup /\ (setup.shutters \subseteq {Io} /\ Quiet => Quiet')
  BY <1>1
<1> USE DEF chanVars, streamVars, socketVars, usageVars, peerVars
<1>2. ASSUME RunFunctor \/ HandleError \/ HandleHangUp \/ HandleRead \/ HandleWrite
             \/ HandledEvents \/ Return \/ Closed \/ Destroyed
      PROVE  UNCHANGED <<setup, shutting>>
  BY <1>2 DEF RunFunctor, HandleError, HandleHangUp, HandleRead, HandleWrite, HandledEvents,
     Return, Closed, Destroyed
<1>3. ASSUME IoSend \/ IoShutdown \/ DestroyServer \/ PeerSends \/ PeerLeaves
      PROVE  UNCHANGED <<setup, shutting>>
  BY <1>3 DEF IoSend, IoShutdown, DestroyServer, PeerSends, PeerLeaves
<1>4. ASSUME RemoveConnectionInLoop PROVE UNCHANGED <<setup, shutting>>
  BY <1>4 DEF RemoveConnectionInLoop
<1>5. ASSUME NEW evs, Poll(evs) PROVE UNCHANGED <<setup, shutting>>
  BY <1>5 DEF Poll
<1>6. ASSUME NEW t \in Callers, Send(t) PROVE UNCHANGED <<setup, shutting>>
  BY <1>6 DEF Send
<1>7. ASSUME NEW t \in Callers, ShutdownCheck(t)
      PROVE  setup' = setup /\ ~(setup.shutters \subseteq {Io})
  BY <1>7, ThreadAssumption DEF ShutdownCheck
<1>8. ASSUME NEW t \in Callers, ShutdownStore(t) \/ ShutdownPost(t)
      PROVE  setup' = setup /\ ~Quiet
  BY <1>8 DEF ShutdownStore, ShutdownPost
<1>9. CASE UNCHANGED vars
  BY <1>1, <1>9 DEF vars
<1>10. QED
  BY <1>1, <1>2, <1>3, <1>4, <1>5, <1>6, <1>7, <1>8, <1>9
     DEF Next, LoopStep, UserStep, FinishShutdown, PollWith

(* Nothing revives a connection that drops data.                            *)
LEMMA DeadStep ==
  ASSUME IInv, Quiet, [Next]_vars, Dead
  PROVE  Dead'
<1> USE DEF IInv, TypeOK
<1>1. ASSUME UNCHANGED <<state, events, output, shut, peer>> PROVE Dead'
  BY <1>1 DEF Dead, WritesDirectly, WriteFails, Writing
<1>2. ASSUME state' = "DISCONNECTED" PROVE Dead'
  BY <1>2 DEF Dead
<1>3. ASSUME state # "DISCONNECTED", events' \in {events, {}, events \cup {"in"}},
             output' = output, shut => shut',
             peer \notin {"open", "closed"} => peer' \notin {"open", "closed"}
      PROVE  Dead'
  BY <1>3 DEF Dead, WritesDirectly, WriteFails, Writing
<1> USE DEF chanVars, streamVars, socketVars, usageVars, peerVars
<1>0. ASSUME UNCHANGED <<state, events, output, shut>>, UNCHANGED <<killed, peer>> \/ WriteError
      PROVE  Dead'
  BY <1>0 DEF Dead, WritesDirectly, WriteFails, Writing, WriteError
<1>4. ASSUME NEW d, SendInLoop(d), state' = state PROVE Dead'
  BY <1>0, <1>4 DEF Dead, SendInLoop, GiveUp
<1>5. ASSUME RunFunctor PROVE Dead'
  <2> DEFINE f == Head(pending)
  <2>1. f \in Functor /\ f \in Range(pending)
    BY <1>5, PendingTail DEF RunFunctor
  <2>2. CASE ConnectionEstablished /\ f.op = "established" /\ UNCHANGED <<output, socketVars, peer>>
    <3>1. state = "CONNECTING"
      BY <2>1, <2>2 DEF Posted
    <3>2. QED
      BY <1>3, <2>1, <2>2, <3>1 DEF ConnectionEstablished
  <2>3. CASE ConnectionDestroyed /\ UNCHANGED <<output, socketVars, peer>>
    BY <1>1, <1>2, <2>1, <2>3 DEF ConnectionDestroyed, Remove, DisableAll
  <2>4. CASE /\ ShutdownInLoop
             /\ UNCHANGED <<state, chanVars, pc, failed, output, wire, killed, peer>>
    BY <1>2, <1>3, <2>1, <2>4 DEF ShutdownInLoop
  <2>5. CASE SendInLoop(f.data) /\ UNCHANGED <<state, pc>>
    BY <1>4, <2>1, <2>5
  <2>6. QED
    BY <1>5, <2>2, <2>3, <2>4, <2>5 DEF RunFunctor
<1>6. ASSUME HandleError PROVE Dead'
  BY <1>2, <1>3, <1>6 DEF HandleError
<1>7. ASSUME HandleClose PROVE Dead'
  BY <1>2, <1>7 DEF HandleClose
<1>8. ASSUME HandleHangUp \/ HandleRead PROVE Dead'
  BY <1>1, <1>2, <1>3, <1>7, <1>8 DEF HandleHangUp, HandleRead
<1>9. ASSUME HandleWrite PROVE Dead'
  <2>1. CASE state = "DISCONNECTED"
    BY <1>2, <1>9, <2>1 DEF HandleWrite
  <2>2. CASE WritesDirectly /\ WriteFails
    BY <1>0, <1>9, <2>2 DEF HandleWrite, WritesDirectly
  <2>3. QED
    BY <2>1, <2>2 DEF Dead
<1>10. ASSUME HandledEvents \/ Return PROVE Dead'
  BY <1>1, <1>10 DEF HandledEvents, Return
<1>11. ASSUME Closed \/ Destroyed PROVE Dead'
  BY <1>1, <1>11 DEF Closed, Destroyed, Remove
<1>12. ASSUME IoSend PROVE Dead'
  BY <1>4, <1>12 DEF IoSend
<1>13. ASSUME IoShutdown PROVE Dead'
  BY <1>3, <1>13 DEF IoShutdown, ShutdownInLoop
<1>14. ASSUME DestroyServer PROVE Dead'
  BY <1>1, <1>2, <1>14 DEF DestroyServer, ConnectionDestroyed, Remove, DisableAll
<1>15. ASSUME PeerSends \/ PeerLeaves PROVE Dead'
  BY <1>2, <1>3, <1>15 DEF PeerSends, PeerLeaves
<1>16. ASSUME NEW t \in Callers, Send(t) \/ ShutdownCheck(t) PROVE Dead'
  BY <1>1, <1>16 DEF Send, ShutdownCheck
<1>17. ASSUME NEW t \in Callers, ShutdownStore(t) \/ ShutdownPost(t) PROVE Dead'
  BY <1>17 DEF ShutdownStore, ShutdownPost, Quiet
<1>18. ASSUME RemoveConnectionInLoop PROVE Dead'
  BY <1>1, <1>18 DEF RemoveConnectionInLoop
<1>19. ASSUME NEW evs, Poll(evs) PROVE Dead'
  BY <1>1, <1>19 DEF Poll
<1>20. CASE UNCHANGED vars
  BY <1>1, <1>20 DEF vars
<1>21. QED
  BY <1>5, <1>6, <1>8, <1>9, <1>10, <1>11, <1>12, <1>13, <1>14, <1>15, <1>16, <1>17, <1>18,
     <1>19, <1>20 DEF Next, LoopStep, UserStep, FinishShutdown, PollWith

LEMMA TailKeeps ==
  ASSUME NEW q \in Seq(Functor), q # <<>>, NEW g \in Range(q)
  PROVE  g = Head(q) \/ g \in Range(Tail(q))
<1> DEFINE n == Len(q)
<1>1. n \in Nat /\ n > 0 /\ DOMAIN q = 1..n /\ Head(q) = q[1]
  BY LenProperties, EmptySeq
<1>2. DOMAIN Tail(q) = 1..(n - 1) /\ \A i \in 1..(n - 1) : Tail(q)[i] = q[i + 1]
  BY <1>1, HeadTailProperties, LenProperties
<1>3. PICK i \in 1..n : q[i] = g
  BY <1>1 DEF Range
<1>4. CASE i # 1
  <2>1. i - 1 \in DOMAIN Tail(q) /\ Tail(q)[i - 1] = g
    BY <1>1, <1>2, <1>3, <1>4
  <2>2. QED
    BY <2>1 DEF Range
<1>5. QED
  BY <1>1, <1>3, <1>4

LEMMA ReachedStays ==
  ASSUME Range(Stream) \subseteq Range(Stream'),
         \A h \in Range(pending) :
           h.op = "send" => h \in Range(pending') \/ <<Owner(h), Base(h) + MsgLen>> \in Range(Stream'),
         NEW t, NEW k, Reached(t, k)
  PROVE  Reached(t, k)'
  BY DEF Reached

LEMMA ChainKeeps ==
  ASSUME IInv, Keeps, Chained, Dead => Dead'
  PROVE  Chained'
<1> USE StreamTypes
<1>1. Stream' = Stream /\ sent' = sent
  BY DEF Keeps
<1>2. ASSUME NEW h \in Range(pending), h.op = "send" PROVE h \in Range(pending')
  <2>1. CASE pending # <<>> /\ Head(pending).op # "send" /\ pending' = Tail(pending)
    BY <1>2, <2>1, TailKeeps
  <2>2. ASSUME NEW f \in Functor, pending' = Append(pending, f) PROVE h \in Range(pending')
    BY <2>2, PendingAppend
  <2>3. QED
    BY <2>1, <2>2 DEF Keeps
<1>3. ASSUME NEW g \in Range(pending'), g.op = "send" PROVE g \in Range(pending)
  <2>1. CASE pending # <<>> /\ pending' = Tail(pending)
    BY <2>1, PendingTail
  <2>2. ASSUME NEW f \in Functor, f.op # "send", pending' = Append(pending, f)
        PROVE  g \in Range(pending)
    BY <1>3, <2>2, PendingAppend
  <2>3. QED
    BY <2>1, <2>2 DEF Keeps
<1>4. \A t, k : Reached(t, k) => Reached(t, k)'
  BY <1>1, <1>2, ReachedStays
<1>5. QED
  BY <1>1, <1>3, <1>4 DEF Chained

LEMMA ChainPosts ==
  ASSUME IInv, StreamInv, NEW t \in Callers, Posts(t), Chained, Dead => Dead'
  PROVE  Chained'
<1> USE StreamTypes
<1>1. /\ NextBytes(t) = Message(t, sent[t]) /\ NextBytes(t) \in Seq(Byte)
      /\ sent[t] \in Nat /\ sent'[t] = sent[t] + MsgLen
      /\ \A u \in Threads \ {t} : sent'[u] = sent[u]
      /\ NextBytes(t)[1] = <<t, sent[t] + 1>>
  BY CountedMeans DEF Posts, Threads, StreamInv
<1>2. PICK d \in Seq(Byte) : d = NextBytes(t)
  BY <1>1
<1>3. PICK f : f = [op |-> "send", data |-> d]
  OBVIOUS
<1>4. f.op = "send" /\ f.data = d /\ f \in Functor
  BY <1>3 DEF Functor
<1>5. d[1] = <<t, sent[t] + 1>>
  BY <1>1, <1>2
<1>6. Owner(f) = t /\ Base(f) = (sent[t] + 1) - 1
  BY <1>4, <1>5 DEF Owner, Base
<1>7. Base(f) = sent[t]
  BY <1>1, <1>6
<1>8. Stream' = Stream /\ pending' = Append(pending, f)
  BY <1>2, <1>3 DEF Posts
<1>9. Range(pending') = Range(pending) \cup {f}
  BY <1>4, <1>8, PendingAppend
<1>10. \A u, k : Reached(u, k) => Reached(u, k)'
  BY <1>8, <1>9, ReachedStays
<1>11. PICK m : m = sent'[t]
  OBVIOUS
<1>12. Reached(t, m)'
  BY <1>1, <1>4, <1>6, <1>7, <1>9, <1>11 DEF Reached
<1>13. ASSUME ~Dead, NEW u \in Threads PROVE Reached(u, sent[u])'
  <2>1. CASE u = t
    BY <1>11, <1>12, <2>1
  <2>2. CASE u # t
    BY <1>1, <1>10, <1>13, <2>2 DEF Chained
  <2>3. QED
    BY <2>1, <2>2
<1>14. ASSUME ~Dead, NEW g \in Range(pending'), g.op = "send" PROVE Reached(Owner(g), Base(g))'
  <2>1. CASE g = f
    BY <1>6, <1>7, <1>10, <1>14, <2>1 DEF Chained, Threads
  <2>2. CASE g # f
    BY <1>9, <1>10, <1>14, <2>2 DEF Chained
  <2>3. QED
    BY <2>1, <2>2
<1>15. QED
  BY <1>13, <1>14 DEF Chained

(* What SendInLoop accepts has its predecessor in the stream.               *)
LEMMA ChainPasses ==
  ASSUME IInv, NEW t \in Threads, NEW k \in Nat, Message(t, k) \in Seq(Byte), ~Dead,
         Passes(Message(t, k)), Skipless(Stream), k = 0 \/ <<t, k>> \in Range(Stream)
  PROVE  /\ Skipless(Stream') /\ Range(Stream) \subseteq Range(Stream')
         /\ <<t, k + MsgLen>> \in Range(Stream')
<1>1. PICK s \in Seq(Byte) : s = Stream
  BY StreamTypes
<1>2. PICK u : u = s \o Message(t, k)
  OBVIOUS
<1>3. Extends(u, s, t, k)
  BY <1>2, ExtendsMessage
<1>4. Skipless(s) /\ (k = 0 \/ <<t, k>> \in Range(s))
  BY <1>1
<1>5. Skipless(u)
  BY <1>3, <1>4, ExtendsSkipless
<1>6. Range(s) \subseteq Range(u) /\ <<t, k + MsgLen>> \in Range(u)
  BY <1>3, ExtendsRange
<1>7. Stream' = u
  BY <1>1, <1>2 DEF Passes
<1>8. QED
  BY <1>1, <1>5, <1>6, <1>7

LEMMA ChainSendsNow ==
  ASSUME IInv, StreamInv, SendsNow, Chained, Skipless(Stream), Dead => Dead'
  PROVE  Chained' /\ Skipless(Stream')
<1> USE StreamTypes
<1>1. CASE Dead
  BY <1>1 DEF Chained, SendsNow, Passes
<1>2. CASE ~Dead
  <2>1. /\ NextBytes(Io) = Message(Io, sent[Io]) /\ NextBytes(Io) \in Seq(Byte)
        /\ sent[Io] \in Nat /\ sent'[Io] = sent[Io] + MsgLen
        /\ \A u \in Threads \ {Io} : sent'[u] = sent[u]
    BY CountedMeans DEF SendsNow, Threads, StreamInv
  <2>2. PICK k \in Nat : k = sent[Io]
    BY <2>1
  <2>3. Io \in Threads /\ Message(Io, k) \in Seq(Byte) /\ Passes(Message(Io, k))
    BY <2>1, <2>2 DEF Threads, SendsNow
  <2>4. k = 0 \/ <<Io, k>> \in Range(Stream)
    <3>1. Reached(Io, k)
      BY <1>2, <2>2, <2>3 DEF Chained
    <3>2. ASSUME NEW f \in Range(pending), f.op = "send" PROVE Owner(f) # Io
      BY <3>2, ThreadAssumption DEF StreamInv, Waits, Waiting
    <3>3. QED
      BY <3>1, <3>2 DEF Reached
  <2>5. /\ Skipless(Stream') /\ Range(Stream) \subseteq Range(Stream')
        /\ <<Io, k + MsgLen>> \in Range(Stream')
    BY <1>2, <2>3, <2>4, ChainPasses
  <2>6. pending' = pending
    BY DEF SendsNow
  <2>7. \A u, n : Reached(u, n) => Reached(u, n)'
    BY <2>5, <2>6, ReachedStays
  <2>8. PICK m : m = sent'[Io]
    OBVIOUS
  <2>9. Reached(Io, m)'
    BY <2>1, <2>2, <2>5, <2>8 DEF Reached
  <2>10. ASSUME NEW u \in Threads PROVE Reached(u, sent[u])'
    <3>1. CASE u = Io
      BY <2>8, <2>9, <3>1
    <3>2. CASE u # Io
      BY <1>2, <2>1, <2>7, <3>2 DEF Chained
    <3>3. QED
      BY <3>1, <3>2
  <2>11. \A g \in Range(pending') : g.op = "send" => Reached(Owner(g), Base(g))'
    BY <1>2, <2>6, <2>7 DEF Chained
  <2>12. QED
    BY <2>5, <2>10, <2>11 DEF Chained
<1>3. QED
  BY <1>1, <1>2

LEMMA ChainSendsPosted ==
  ASSUME IInv, StreamInv, SendsPosted, Chained, Skipless(Stream), Dead => Dead'
  PROVE  Chained' /\ Skipless(Stream')
<1> USE StreamTypes
<1>1. CASE Dead
  BY <1>1 DEF Chained, SendsPosted, Passes
<1>2. CASE ~Dead
  <2>1. PICK f : f = Head(pending)
    OBVIOUS
  <2>2. /\ pending # <<>> /\ f.op = "send" /\ pending' = Tail(pending) /\ sent' = sent
        /\ Passes(f.data)
    BY <2>1 DEF SendsPosted
  <2>3. f \in Functor /\ f \in Range(pending) /\ Range(pending') \subseteq Range(pending)
    BY <2>1, <2>2, PendingTail
  <2>4. \A g \in Range(pending') : Follows(f, g)
    BY <2>1, <2>2, OrderTail DEF StreamInv
  <2>5. PICK t \in Callers, k \in Nat : t = Owner(f) /\ k = Base(f)
    BY <2>2, <2>3 DEF StreamInv, Waits, Waiting
  <2>6. t \in Threads /\ f.data = Message(t, k)
    BY <2>2, <2>3, <2>5 DEF StreamInv, Waits, Waiting, Threads
  <2>7. Message(t, k) \in Seq(Byte) /\ Passes(Message(t, k))
    BY <2>2, <2>3, <2>6 DEF Functor
  <2>8. \A h \in Range(pending) : h = f \/ h \in Range(pending')
    BY <2>1, <2>2, TailKeeps
  <2>9. k = 0 \/ <<t, k>> \in Range(Stream)
    <3>1. Reached(t, k)
      BY <1>2, <2>2, <2>3, <2>5 DEF Chained
    <3>2. ASSUME NEW h \in Range(pending), h.op = "send", Owner(h) = t, Base(h) + MsgLen = k
          PROVE  FALSE
      <4>1. MsgLen \in Nat \ {0} /\ Base(h) \in Nat
        BY <3>2, BoundAssumption DEF StreamInv, Waits, Waiting
      <4>2. h # f
        BY <2>5, <3>2, <4>1
      <4>3. k + MsgLen <= Base(h)
        BY <2>2, <2>4, <2>5, <2>8, <3>2, <4>2 DEF Follows
      <4>4. QED
        BY <3>2, <4>1, <4>3
    <3>3. QED
      BY <3>1, <3>2 DEF Reached
  <2>10. /\ Skipless(Stream') /\ Range(Stream) \subseteq Range(Stream')
         /\ <<t, k + MsgLen>> \in Range(Stream')
    BY <1>2, <2>6, <2>7, <2>9, ChainPasses
  <2>11. \A u, n : Reached(u, n) => Reached(u, n)'
    BY <2>5, <2>8, <2>10, ReachedStays
  <2>12. Chained'
    BY <1>2, <2>2, <2>3, <2>11 DEF Chained
  <2>13. QED
    BY <2>10, <2>12
<1>3. QED
  BY <1>1, <1>2

(* What a connection drops of a thread's data it drops at its end, as long  *)
(* as no other thread calls Shutdown: nothing is accepted after a gap.      *)
THEOREM NothingSkippedSafe == Spec => []NothingSkipped
<1>1. Init => ChainInv
  <2> SUFFICES ASSUME Init PROVE ChainInv
    OBVIOUS
  <2>1. pending = <<[op |-> "established"]>> /\ sent = [t \in Threads |-> 0] /\ Stream = <<>>
        /\ shutting = [t \in Callers |-> "no"]
    BY DEF Init, Stream
  <2>2. DOMAIN pending = 1..1 /\ pending[1].op = "established" /\ DOMAIN Stream = {}
    BY <2>1
  <2>3. Quiet /\ Skipless(Stream)
    BY <2>1, <2>2 DEF Quiet, Skipless
  <2>4. Chained
    BY <2>1, <2>2 DEF Chained, Reached, Range
  <2>5. QED
    BY <2>3, <2>4 DEF ChainInv
<1>2. IInv /\ StreamInv /\ ChainInv /\ [Next]_vars => ChainInv'
  <2> SUFFICES ASSUME IInv, StreamInv, ChainInv, [Next]_vars, setup.shutters \subseteq {Io}
               PROVE  Quiet' /\ Chained' /\ Skipless(Stream')
    BY QuietStep DEF ChainInv
  <2>1. Quiet /\ Chained /\ Skipless(Stream) /\ Quiet'
    BY QuietStep DEF ChainInv
  <2>2. Dead => Dead'
    BY <2>1, DeadStep
  <2>3. CASE Keeps
    BY <2>1, <2>2, <2>3, ChainKeeps DEF Keeps
  <2>4. ASSUME NEW t \in Callers, Posts(t) PROVE Chained' /\ Stream' = Stream
    BY <2>1, <2>2, <2>4, ChainPosts DEF Posts
  <2>5. CASE SendsNow
    BY <2>1, <2>2, <2>5, ChainSendsNow
  <2>6. CASE SendsPosted
    BY <2>1, <2>2, <2>6, ChainSendsPosted
  <2>7. QED
    BY <2>1, <2>3, <2>4, <2>5, <2>6, FlowStep
<1>3. ChainInv => NothingSkipped
  BY DEF ChainInv, Skipless, NothingSkipped, Stream
<1>4. QED
  BY <1>1, <1>2, <1>3, Invariance, StreamInvariance, PTL DEF Spec
=============================================================================
