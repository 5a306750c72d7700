--------------------------- MODULE TcpServerProofs ---------------------------
(* Theorems about TcpServer, for any number of threads, connections and     *)
(* descriptors.                                                             *)
EXTENDS TcpServer, SequenceTheorems, FunctionTheorems, TLAPS

(* What each stage of a connection's life looks like, from what it is       *)
(* registered with to who must know it.                                     *)
Unborn(c)     == /\ c > connectionId
                 /\ conn[c] = [loop |-> None, fd |-> None, state |-> "none",
                               slot |-> "none", calls |-> 0]
Connecting(c) == /\ conn[c].state = "CONNECTING" /\ conn[c].slot = "none"
                 /\ conn[c].calls = 0 /\ conn[c].loop # Base /\ c \in map
Open(c)       == /\ conn[c].state \in {"CONNECTED", "DISCONNECTING"}
                 /\ conn[c].slot = "watched" /\ conn[c].calls = 1 /\ c \in map
Closing(c)    == /\ conn[c].state \in {"DISCONNECTED", "DISCONNECTING"}
                 /\ \/ conn[c].slot = "ignored"
                    \/ conn[c].slot = "writing" /\ conn[c].state = "DISCONNECTING"
                 /\ conn[c].calls = 2 /\ conn[c].loop # Base
Gone(c)       == /\ conn[c].state \in {"DISCONNECTED", "DISCONNECTING"}
                 /\ conn[c].slot = "removed" /\ conn[c].calls = 2 /\ c \notin map

(* Reopened while the base loop was closing it, where the program ended.    *)
Stuck(c)      == /\ conn[c].state = "DISCONNECTING" /\ conn[c].slot = "writing"
                 /\ conn[c].calls = 2 /\ conn[c].loop = Base
                 /\ failed = "assert" /\ c \in users

StageOf(c) == \/ Unborn(c)
              \/ /\ c <= connectionId /\ conn[c].loop \in Loops /\ conn[c].fd \in Fds
                 /\ Connecting(c) \/ Open(c) \/ Closing(c) \/ Gone(c) \/ Stuck(c)

Staged == \A c \in Conns : StageOf(c)

(* The functors a loop has still to execute: at most one about each         *)
(* connection, on the loop and at the stage that its operation asserts.     *)
Jobs(l) == Range(queue[l]) \cup Range(batch[l])

JobFits(f, l) ==
  \/ f.op = "established" /\ Connecting(f.conn) /\ conn[f.conn].loop = l
  \/ f.op = "remove" /\ Closing(f.conn) /\ f.conn \in map /\ l = Base
  \/ f.op = "destroyed" /\ Closing(f.conn) /\ f.conn \notin map /\ conn[f.conn].loop = l

OneEach(q) == \A i, j \in DOMAIN q : q[i].conn = q[j].conn => i = j

Posted ==
  \A l \in Loops : /\ \A f \in Jobs(l) : JobFits(f, l)
                   /\ OneEach(queue[l]) /\ OneEach(batch[l])
                   /\ \A f \in Range(queue[l]), g \in Range(batch[l]) : f.conn # g.conn

(* What is erased but still in its poller has its destruction posted, or    *)
(* the program ended in it.                                                 *)
DestructionPosted ==
  \A c \in Conns : Closing(c) /\ c \notin map /\ pc[conn[c].loop] # "stopped" =>
                     \/ \E f \in Jobs(conn[c].loop) : f.conn = c
                     \/ failed = "assert" /\ c \in held[conn[c].loop]

(* Who is about to be marked by a Shutdown has been connected.              *)
Marked == \A c \in shutting : conn[c].calls # 0

(* The loops' threads: what they have in hand in each of their phases.      *)
Phases ==
  /\ pc[Base] # "stopped"
  /\ \A l \in Loops : /\ pc[l] # "events" => active[l] = {}
                      /\ pc[l] # "run" => batch[l] = <<>>
                      /\ held[l] \subseteq 1..connectionId

(* Who is about to be called is open, but for the loop of a torn server.    *)
Called ==
  \A l \in Loops : \A ch \in active[l] :
    IF ch = Listener THEN l = Base /\ server \in {"up", "torn"}
    ELSE conn[ch].loop = l /\ (Open(ch) \/ (l = Base /\ server = "torn"))

(* A destroyed server has no connections left.                              *)
Emptied == server \in {"gone", "torn"} /\ failed = "no" => map = {}

(* No two connections that exist have the same descriptor.                  *)
Distinct == \A c, e \in Conns : Alive(c) /\ Alive(e) /\ c # e => conn[c].fd # conn[e].fd

IInv == /\ TypeOK /\ Staged /\ Posted /\ DestructionPosted /\ Phases /\ Called
        /\ Emptied /\ Distinct /\ Marked /\ AssertsHold
-----------------------------------------------------------------------------
(* Queues of functors.                                                      *)
LEMMA QueueEmpty == <<>> \in Seq(Functor) /\ Range(<<>>) = {} /\ OneEach(<<>>)
  BY DEF Range, OneEach

LEMMA QueueAppend ==
  ASSUME NEW q \in Seq(Functor), NEW f \in Functor
  PROVE  /\ Append(q, f) \in Seq(Functor)
         /\ Range(Append(q, f)) = Range(q) \cup {f}
         /\ OneEach(q) /\ (\A g \in Range(q) : g.conn # f.conn) => OneEach(Append(q, f))
<1> DEFINE n == Len(q)
<1>1. n \in Nat /\ DOMAIN q = 1..n
  BY LenProperties
<1>2. /\ Append(q, f) \in Seq(Functor) /\ DOMAIN Append(q, f) = 1..(n + 1)
      /\ \A i \in 1..n : Append(q, f)[i] = q[i]
      /\ Append(q, f)[n + 1] = f
  BY <1>1, AppendProperties, LenProperties
<1>3. Range(Append(q, f)) = Range(q) \cup {f}
  BY <1>1, <1>2 DEF Range
<1>4. ASSUME OneEach(q), \A g \in Range(q) : g.conn # f.conn
      PROVE  OneEach(Append(q, f))
  <2>1. \A i \in 1..n : q[i].conn # f.conn
    BY <1>1, <1>4 DEF Range
  <2>2. QED
    BY <1>1, <1>2, <1>4, <2>1 DEF OneEach
<1>5. QED
  BY <1>2, <1>3, <1>4

LEMMA QueueTail ==
  ASSUME NEW q \in Seq(Functor), q # <<>>
  PROVE  /\ Head(q) \in Functor /\ Tail(q) \in Seq(Functor)
         /\ Range(q) = {Head(q)} \cup Range(Tail(q))
         /\ OneEach(q) => /\ OneEach(Tail(q))
                          /\ \A g \in Range(Tail(q)) : g.conn # Head(q).conn
<1> DEFINE n == Len(q)
<1>1. n \in Nat /\ n > 0 /\ DOMAIN q = 1..n /\ Head(q) = q[1]
  BY LenProperties, EmptySeq
<1>2. /\ Head(q) \in Functor /\ Tail(q) \in Seq(Functor)
      /\ DOMAIN Tail(q) = 1..(n - 1)
      /\ \A i \in 1..(n - 1) : Tail(q)[i] = q[i + 1]
  BY <1>1, HeadTailProperties, LenProperties
<1>3. Range(q) = {Head(q)} \cup Range(Tail(q))
  <2>1. ASSUME NEW f \in Range(q), f # Head(q) PROVE f \in Range(Tail(q))
    <3>1. PICK i \in 1..n : q[i] = f /\ i # 1
      BY <1>1, <2>1 DEF Range
    <3>2. i - 1 \in DOMAIN Tail(q) /\ Tail(q)[i - 1] = f
      BY <1>1, <1>2, <3>1
    <3>3. QED
      BY <3>2 DEF Range
  <2>2. ASSUME NEW f \in Range(Tail(q)) PROVE f \in Range(q)
    <3>1. PICK i \in 1..(n - 1) : Tail(q)[i] = f
      BY <1>2, <2>2 DEF Range
    <3>2. i + 1 \in DOMAIN q /\ q[i + 1] = f
      BY <1>1, <1>2, <3>1
    <3>3. QED
      BY <3>2 DEF Range
  <2>3. QED
    BY <1>1, <2>1, <2>2 DEF Range
<1>4. ASSUME OneEach(q)
      PROVE  OneEach(Tail(q)) /\ \A g \in Range(Tail(q)) : g.conn # Head(q).conn
  <2>1. ASSUME NEW i \in 1..(n - 1), NEW j \in 1..(n - 1), Tail(q)[i].conn = Tail(q)[j].conn
        PROVE  i = j
    <3>1. i + 1 = j + 1
      BY <1>1, <1>2, <1>4, <2>1 DEF OneEach
    <3>2. QED
      BY <3>1
  <2>2. \A i \in 1..(n - 1) : Tail(q)[i].conn # Head(q).conn
    BY <1>1, <1>2, <1>4 DEF OneEach
  <2>3. QED
    BY <1>2, <2>1, <2>2 DEF OneEach, Range
<1>5. QED
  BY <1>2, <1>3, <1>4

(* Who is alive, in terms of Jobs; the form a step needs it in.             *)
LEMMA AliveMeans ==
  ASSUME TypeOK, TypeOK', NEW c
  PROVE  /\ Alive(c) <=> \/ c \in map \cup users
                         \/ \E l \in Loops : c \in held[l] \/ \E f \in Jobs(l) : f.conn = c
         /\ Alive(c)' <=> \/ c \in map' \cup users'
                          \/ \E l \in Loops : c \in held'[l] \/ \E f \in Jobs(l)' : f.conn = c
<1>1. \A l \in Loops : Range(queue[l] \o batch[l]) = Jobs(l)
  BY RangeConcatenation DEF TypeOK, Jobs
<1>2. \A l \in Loops : Range(queue'[l] \o batch'[l]) = Jobs(l)'
  BY RangeConcatenation DEF TypeOK, Jobs
<1>3. QED
  BY <1>1, <1>2 DEF Alive, HeldByLibrary, InFunctors, Holds
-----------------------------------------------------------------------------
(* What the methods make of a connection's record.                          *)
LEMMA EstablishedRecord ==
  ASSUME NEW r \in Connection, r.calls = 0
  PROVE  /\ Established(r) \in Connection
         /\ Established(r).loop = r.loop /\ Established(r).fd = r.fd
         /\ Established(r).state = "CONNECTED" /\ Established(r).slot = "watched"
         /\ Established(r).calls = 1
<1>1. /\ r.loop \in Loops \cup {None} /\ r.fd \in Fds \cup {None}
      /\ DOMAIN r = {"loop", "fd", "state", "slot", "calls"}
  BY DEF Connection
<1>2. Established(r) = [loop |-> r.loop, fd |-> r.fd, state |-> "CONNECTED",
                        slot |-> "watched", calls |-> 1]
  <2>1. Established(r) = [r EXCEPT !.state = "CONNECTED", !.slot = "watched", !.calls = 1]
    <3>1. r.calls + 1 = 1
      OBVIOUS
    <3>2. [r EXCEPT !.state = "CONNECTED", !.slot = "watched"].calls = r.calls
      BY <1>1
    <3>3. QED
      BY <3>1, <3>2 DEF Established
  <2>2. QED
    BY <2>1 DEF Connection
<1>3. QED
  BY <1>1, <1>2 DEF Connection

LEMMA ClosedRecord ==
  ASSUME NEW r \in Connection, r.calls = 1
  PROVE  /\ Closed(r) \in Connection
         /\ Closed(r).loop = r.loop /\ Closed(r).fd = r.fd
         /\ Closed(r).state = "DISCONNECTED" /\ Closed(r).slot = "ignored"
         /\ Closed(r).calls = 2
<1>1. /\ r.loop \in Loops \cup {None} /\ r.fd \in Fds \cup {None}
      /\ DOMAIN r = {"loop", "fd", "state", "slot", "calls"}
  BY DEF Connection
<1>2. Closed(r) = [loop |-> r.loop, fd |-> r.fd, state |-> "DISCONNECTED",
                   slot |-> "ignored", calls |-> 2]
  <2>1. Closed(r) = [r EXCEPT !.state = "DISCONNECTED", !.slot = "ignored", !.calls = 2]
    <3>1. r.calls + 1 = 2
      OBVIOUS
    <3>2. [r EXCEPT !.state = "DISCONNECTED", !.slot = "ignored"].calls = r.calls
      BY <1>1
    <3>3. QED
      BY <3>1, <3>2 DEF Closed
  <2>2. QED
    BY <2>1 DEF Connection
<1>3. QED
  BY <1>1, <1>2 DEF Connection

LEMMA DestroyedRecord ==
  ASSUME NEW r \in Connection, r.state # "CONNECTED"
  PROVE  /\ Disabled(r) = r /\ Destroyed(r) \in Connection
         /\ Destroyed(r).loop = r.loop /\ Destroyed(r).fd = r.fd
         /\ Destroyed(r).state = r.state /\ Destroyed(r).slot = "removed"
         /\ Destroyed(r).calls = r.calls
<1>1. /\ r.loop \in Loops \cup {None} /\ r.fd \in Fds \cup {None} /\ r.calls \in 0..2
      /\ DOMAIN r = {"loop", "fd", "state", "slot", "calls"}
  BY DEF Connection
<1>2. Disabled(r) = r
  BY DEF Disabled
<1>3. Destroyed(r) = [loop |-> r.loop, fd |-> r.fd, state |-> r.state,
                      slot |-> "removed", calls |-> r.calls]
  BY <1>2 DEF Destroyed, Connection
<1>4. QED
  BY <1>1, <1>2, <1>3 DEF Connection

-----------------------------------------------------------------------------
(* A connection's stage tells which functor about it there may be, where.   *)
LEMMA FitsOnce ==
  ASSUME NEW f, NEW g, NEW k, NEW l, JobFits(f, k), JobFits(g, l), f.conn = g.conn
  PROVE  k = l
BY DEF JobFits, Connecting, Closing

(* What a functor's execution and a post do to the queues.                  *)
LEMMA RunningMeans ==
  ASSUME TypeOK, Posted, Phases, NEW l \in Loops, NEW c \in Conns,
         NEW op \in {"established", "remove", "destroyed"}, Running(l, op, c)
  PROVE  /\ pc[l] = "run" /\ [op |-> op, conn |-> c] \in Jobs(l)
         /\ [op |-> op, conn |-> c] \in Functor /\ JobFits([op |-> op, conn |-> c], l)
         /\ batch' \in [Loops -> Seq(Functor)] /\ held' \in [Loops -> SUBSET Conns]
         /\ held'[l] = held[l] \cup {c}
         /\ \A k \in Loops \ {l} : batch'[k] = batch[k] /\ held'[k] = held[k]
         /\ Range(batch[l]) = {[op |-> op, conn |-> c]} \cup Range(batch'[l])
         /\ OneEach(batch'[l])
         /\ \A g \in Range(queue[l]) \cup Range(batch'[l]) : g.conn # c
         /\ \A k \in Loops : /\ pc[k] # "run" => batch'[k] = <<>>
                             /\ held'[k] \in SUBSET (held[k] \cup {c})
         /\ queue' = queue =>
              \A k \in Loops :
                /\ \A g \in Jobs(k)' : g \in Jobs(k) /\ g.conn # c
                /\ \A g \in Jobs(k) : g \in Jobs(k)' \/ g.conn = c
                /\ OneEach(queue'[k]) /\ OneEach(batch'[k])
                /\ \A g \in Range(queue'[k]), h \in Range(batch'[k]) : g.conn # h.conn
<1> DEFINE f == [op |-> op, conn |-> c]
<1>1. /\ pc[l] = "run" /\ batch[l] # <<>> /\ Head(batch[l]) = f
      /\ batch' = [batch EXCEPT ![l] = Tail(batch[l])]
      /\ held' = [held EXCEPT ![l] = held[l] \cup {c}]
  <2>1. /\ pc[l] = "run" /\ batch[l] # <<>> /\ Head(batch[l]) = f
        /\ batch' = [batch EXCEPT ![l] = Tail(@)]
        /\ held' = [held EXCEPT ![l] = @ \cup Holds(Head(batch[l]))]
    BY DEF Running
  <2>2. Holds(f) = {c}
    BY DEF Holds
  <2>3. QED
    BY <2>1, <2>2
<1>2. batch[l] \in Seq(Functor) /\ OneEach(batch[l])
  BY DEF TypeOK, Posted
<1>3. /\ f \in Functor /\ Tail(batch[l]) \in Seq(Functor)
      /\ Range(batch[l]) = {f} \cup Range(Tail(batch[l]))
      /\ OneEach(Tail(batch[l])) /\ \A g \in Range(Tail(batch[l])) : g.conn # f.conn
  BY <1>1, <1>2, QueueTail
<1>4. batch'[l] = Tail(batch[l]) /\ \A k \in Loops \ {l} : batch'[k] = batch[k]
  BY <1>1 DEF TypeOK
<1>5. held'[l] = held[l] \cup {c} /\ \A k \in Loops \ {l} : held'[k] = held[k]
  BY <1>1 DEF TypeOK
<1>6. batch' \in [Loops -> Seq(Functor)] /\ held' \in [Loops -> SUBSET Conns]
  BY <1>1, <1>3 DEF TypeOK
<1>7. f \in Range(batch[l]) /\ f \in Jobs(l) /\ JobFits(f, l)
  BY <1>3 DEF Jobs, Posted
<1>8. \A g \in Range(queue[l]) : g.conn # f.conn
  BY <1>7 DEF Posted
<1>9. \A g \in Range(queue[l]) \cup Range(batch'[l]) : g.conn # c
  BY <1>3, <1>4, <1>8
<1>10. \A k \in Loops : /\ pc[k] # "run" => batch'[k] = <<>>
                        /\ held'[k] \in SUBSET (held[k] \cup {c})
  BY <1>1, <1>4, <1>5 DEF Phases
<1>11. ASSUME queue' = queue, NEW k \in Loops
       PROVE  /\ \A g \in Jobs(k)' : g \in Jobs(k) /\ g.conn # c
              /\ \A g \in Jobs(k) : g \in Jobs(k)' \/ g.conn = c
              /\ OneEach(queue'[k]) /\ OneEach(batch'[k])
              /\ \A g \in Range(queue'[k]), h \in Range(batch'[k]) : g.conn # h.conn
  <2>1. CASE k = l
    <3>1. Range(batch[l]) = {f} \cup Range(batch'[l])
      BY <1>3, <1>4
    <3>2. \A g \in Jobs(l)' : g \in Jobs(l) /\ g.conn # c
      BY <1>9, <1>11, <3>1 DEF Jobs
    <3>3. \A g \in Jobs(l) : g \in Jobs(l)' \/ g.conn = c
      BY <1>11, <3>1 DEF Jobs
    <3>4. \A g \in Range(queue'[l]), h \in Range(batch'[l]) : g.conn # h.conn
      BY <1>11, <3>1 DEF Posted
    <3>5. QED
      BY <1>3, <1>4, <1>11, <2>1, <3>2, <3>3, <3>4 DEF Posted
  <2>2. CASE k # l
    <3>1. Jobs(k)' = Jobs(k)
      BY <1>4, <1>11, <2>2 DEF Jobs
    <3>2. \A g \in Jobs(k) : g.conn # f.conn
      BY <1>7, <2>2, FitsOnce DEF Posted
    <3>3. QED
      BY <1>4, <1>11, <2>2, <3>1, <3>2 DEF Posted
  <2>3. QED
    BY <2>1, <2>2
<1>12. QED
  BY <1>1, <1>3, <1>4, <1>5, <1>6, <1>7, <1>9, <1>10, <1>11

LEMMA PostMeans ==
  ASSUME TypeOK, NEW l \in Loops, NEW op \in {"established", "remove", "destroyed"},
         NEW c \in Conns, Post(l, op, c)
  PROVE  /\ queue' \in [Loops -> Seq(Functor)]
         /\ \A k \in Loops \ {l} : queue'[k] = queue[k]
         /\ Range(queue'[l]) = Range(queue[l]) \cup {[op |-> op, conn |-> c]}
         /\ OneEach(queue[l]) /\ (\A g \in Range(queue[l]) : g.conn # c) => OneEach(queue'[l])
<1> DEFINE f == [op |-> op, conn |-> c]
<1>1. f \in Functor /\ queue[l] \in Seq(Functor)
  BY DEF TypeOK, Functor
<1>2. queue' = [queue EXCEPT ![l] = Append(queue[l], f)]
  BY DEF Post
<1>3. /\ Append(queue[l], f) \in Seq(Functor)
      /\ Range(Append(queue[l], f)) = Range(queue[l]) \cup {f}
      /\ OneEach(queue[l]) /\ (\A g \in Range(queue[l]) : g.conn # f.conn)
           => OneEach(Append(queue[l], f))
  BY <1>1, QueueAppend
<1>4. /\ queue'[l] = Append(queue[l], f)
      /\ \A k \in Loops \ {l} : queue'[k] = queue[k]
  BY <1>2 DEF TypeOK
<1>5. queue' \in [Loops -> Seq(Functor)]
  BY <1>2, <1>3 DEF TypeOK
<1>6. QED
  BY <1>3, <1>4, <1>5

LEMMA JobType ==
  ASSUME TypeOK, NEW l \in Loops, NEW f \in Jobs(l)
  PROVE  f \in Functor /\ f.conn \in Conns
<1>1. f \in Functor
  BY DEF Jobs, Range, TypeOK
<1>2. QED
  BY <1>1 DEF Functor

(* What does not touch a connection leaves its stage and functors alone.    *)
LEMMA OtherKept ==
  ASSUME NEW e, conn'[e] = conn[e], e \in map' <=> e \in map
  PROVE  /\ Open(e)' <=> Open(e)
         /\ Closing(e)' <=> Closing(e)
         /\ Connecting(e)' <=> Connecting(e)
         /\ \A f, l : f.conn = e => (JobFits(f, l)' <=> JobFits(f, l))
         /\ failed = "no" /\ connectionId' = connectionId => (StageOf(e) => StageOf(e)')
BY DEF StageOf, Unborn, Connecting, Open, Closing, Gone, Stuck, JobFits

(* Who exists was accepted.                                                 *)
LEMMA AliveBorn ==
  ASSUME IInv, NEW c, Alive(c)
  PROVE  c \in 1..connectionId /\ c \in Conns
<1>1. CASE c \in map \cup users
  BY <1>1, BoundAssumption DEF IInv, TypeOK, Conns
<1>2. CASE \E l \in Loops : c \in held[l]
  BY <1>2, BoundAssumption DEF IInv, TypeOK, Phases, Conns
<1>3. CASE \E l \in Loops : \E f \in Jobs(l) : f.conn = c
  <2>1. PICK l \in Loops : \E f \in Jobs(l) : f.conn = c
    BY <1>3
  <2>2. PICK f \in Jobs(l) : f.conn = c
    BY <2>1
  <2>3. c \in Conns
    <3>1. f \in Functor
      BY <2>2 DEF Jobs, Range, IInv, TypeOK
    <3>2. QED
      BY <2>2, <3>1 DEF Functor
  <2>4. conn[c].state # "none"
    BY <2>2 DEF IInv, Posted, JobFits, Connecting, Closing
  <2>5. QED
    BY <2>3, <2>4 DEF IInv, Staged, StageOf, Unborn, Conns, TypeOK
<1>4. \A l \in Loops : Range(queue[l] \o batch[l]) = Jobs(l)
  BY RangeConcatenation DEF IInv, TypeOK, Jobs
<1>5. QED
  BY <1>1, <1>2, <1>3, <1>4 DEF Alive, HeldByLibrary, InFunctors, Holds
-----------------------------------------------------------------------------
(* What a step makes of the connections, but for one it accepts: none comes *)
(* to life or changes its descriptor, and who is called back is alive.      *)
Continues ==
  \A c \in Conns : /\ Alive(c)' => Alive(c)
                   /\ conn'[c].fd = conn[c].fd
                   /\ conn'[c].calls # conn[c].calls =>
                        Alive(c) /\ conn'[c].calls = conn[c].calls + 1

(* The descriptors stay distinct as long as nobody comes to life again.     *)
LEMMA DistinctKept ==
  ASSUME IInv, TypeOK', \A c \in Conns : conn'[c].fd = conn[c].fd,
         \A c \in Conns : Alive(c)' => Alive(c)
  PROVE  Distinct'
BY DEF IInv, Distinct

LEMMA InitEstablishes == Init => IInv
<1> SUFFICES ASSUME Init PROVE IInv
  OBVIOUS
<1>1. /\ MaxThreads \in Nat /\ MaxConns \in Nat /\ Base \in Loops
  BY BoundAssumption DEF Base, Loops
<1>2. TypeOK
  <2>1. conn \in [Conns -> Connection]
    BY DEF Init, Connection
  <2>2. /\ queue \in [Loops -> Seq(Functor)] /\ batch \in [Loops -> Seq(Functor)]
    BY QueueEmpty DEF Init
  <2>3. /\ threadNum \in 0..MaxThreads /\ turn \in 0..MaxThreads /\ connectionId \in 0..MaxConns
        /\ waiting \in 0..(MaxConns - connectionId) /\ (turn < threadNum \/ turn = 0)
    BY <1>1 DEF Init
  <2>4. /\ pc \in [Loops -> {"poll", "events", "run", "stopped"}]
        /\ active \in [Loops -> SUBSET (Conns \cup {Listener})]
        /\ held \in [Loops -> SUBSET Conns]
    BY DEF Init
  <2>5. QED
    BY <2>1, <2>2, <2>3, <2>4 DEF Init, TypeOK
<1>3. Staged
  BY <1>1 DEF Init, Staged, StageOf, Unborn, Conns
<1>4. \A l \in Loops : Jobs(l) = {}
  BY QueueEmpty DEF Init, Jobs
<1>5. Posted
  BY <1>4, QueueEmpty DEF Init, Posted, Jobs
<1>6. DestructionPosted
  BY DEF Init, DestructionPosted, Closing
<1>7. Phases /\ Called /\ Emptied /\ Marked /\ AssertsHold
  BY <1>1 DEF Init, Phases, Called, Emptied, Marked, AssertsHold
<1>8. Distinct
  <2>1. \A l \in Loops : Range(queue[l] \o batch[l]) = {}
    BY <1>4, RangeConcatenation, QueueEmpty DEF Init, Jobs
  <2>2. \A c : ~Alive(c)
    BY <2>1 DEF Init, Alive, HeldByLibrary, InFunctors
  <2>3. QED
    BY <2>2 DEF Distinct
<1>9. QED
  BY <1>2, <1>3, <1>5, <1>6, <1>7, <1>8 DEF IInv

(* The steps that leave the connections and the functors alone.             *)
LEMMA QuietKeeps ==
  ASSUME IInv, failed = "no", UNCHANGED <<threadNum, map, turn, connectionId, conn, queue, batch>>,
         server' \in {"new", "up", "gone", "torn"}, server = "torn" => server' = "torn",
         server' \in {"gone", "torn"} => server' = server,
         waiting' \in 0..(MaxConns - connectionId),
         users' \in SUBSET users, left' \in SUBSET (1..connectionId),
         shutting' \in SUBSET users', \A c \in shutting' \ shutting : conn[c].calls # 0,
         \A l \in Loops : held'[l] \in SUBSET held[l],
         held' \in [Loops -> SUBSET Conns],
         pc' \in [Loops -> {"poll", "events", "run", "stopped"}],
         \A l \in Loops : pc'[l] = "stopped" <=> pc[l] = "stopped",
         \A l \in Loops : pc'[l] # "run" => batch[l] = <<>>,
         active' \in [Loops -> SUBSET (Conns \cup {Listener})],
         \A l \in Loops : pc'[l] # "events" => active'[l] = {},
         \A l \in Loops : \A ch \in active'[l] :
           \/ ch \in active[l] /\ (server' = server \/ server' = "torn")
           \/ IF ch = Listener THEN l = Base /\ server' = "up" ELSE conn[ch].loop = l /\ Open(ch),
         failed' \in {"no", "accept", "assert", "dangling", "sigpipe"},
         failed' \in {"assert", "dangling"} => server' = "torn" \/ \E c \in Conns : Reopened(c)
  PROVE  IInv' /\ Continues
<1> USE DEF IInv
<1>1. TypeOK'
  BY DEF TypeOK
<1>2. \A c : Alive(c)' => Alive(c)
  <2>1. \A l \in Loops : Jobs(l)' = Jobs(l)
    BY DEF Jobs
  <2>2. QED
    BY <1>1, <2>1, AliveMeans
<1>3. Distinct'
  BY <1>1, <1>2, DistinctKept
<1>4. \A e : /\ Open(e)' <=> Open(e)
             /\ Closing(e)' <=> Closing(e)
             /\ StageOf(e) => StageOf(e)'
             /\ \A f, l : f.conn = e => (JobFits(f, l)' <=> JobFits(f, l))
  BY OtherKept
<1>5. Staged'
  BY <1>4 DEF Staged
<1>6. Posted'
  BY <1>4 DEF Posted, Jobs
<1>7. DestructionPosted'
  <2>1. ASSUME NEW c \in Conns, Closing(c), c \notin map, pc'[conn[c].loop] # "stopped"
        PROVE  \E f \in Jobs(conn[c].loop) : f.conn = c
    <3>1. conn[c].loop \in Loops
      BY <2>1 DEF Staged, StageOf, Unborn, Closing
    <3>2. QED
      BY <2>1, <3>1 DEF DestructionPosted
  <2>2. QED
    BY <1>4, <2>1 DEF DestructionPosted, Jobs
<1>8. Phases'
  <2>1. \A l \in Loops : held'[l] \subseteq 1..connectionId
    BY DEF Phases
  <2>2. Base \in Loops
    BY BoundAssumption DEF Base, Loops
  <2>3. QED
    BY <2>1, <2>2 DEF Phases
<1>9. Called'
  <2>1. ASSUME NEW l \in Loops, NEW ch \in active'[l]
        PROVE  IF ch = Listener THEN l = Base /\ server' \in {"up", "torn"}
               ELSE conn[ch].loop = l /\ (Open(ch) \/ (l = Base /\ server' = "torn"))
    BY DEF Called
  <2>2. QED
    BY <1>4, <2>1 DEF Called
<1>10. Emptied' /\ Marked' /\ AssertsHold'
  BY DEF Emptied, Marked, AssertsHold, Reopened
<1>11. Continues
  BY <1>2 DEF Continues
<1>12. QED
  BY <1>1, <1>3, <1>5, <1>6, <1>7, <1>8, <1>9, <1>10, <1>11

LEMMA QuietSteps ==
  ASSUME IInv, failed = "no",
         \/ Start \/ ClientArrives \/ ClientGivesUp \/ AcceptFails
         \/ \E c \in Conns : Release(c) \/ PeerLeaves(c) \/ ShutdownCheck(c)
         \/ \E l \in Loops : Poll(l) \/ EndBatch(l) \/ \E ch \in active[l] : HandleDangling(l, ch)
  PROVE  IInv' /\ Continues
<1> USE DEF IInv
<1>1. /\ TypeOK /\ Phases /\ MaxConns \in Nat /\ Base \in Loops
  BY BoundAssumption DEF Base, Loops
<1>2. CASE Start
  <2>1. \A l \in Loops : \A ch \in active[l] :
          ch # Listener /\ conn[ch].loop = l /\ Open(ch)
    BY <1>2 DEF Start, Called
  <2>2. QED
    BY <1>1, <1>2, <2>1, QuietKeeps DEF Start, acceptVars, farVars, loopVars, TypeOK, Phases
<1>3. CASE ClientArrives
  <2>1. waiting' \in 0..(MaxConns - connectionId)
    BY <1>1, <1>3 DEF ClientArrives, TypeOK
  <2>2. QED
    BY <1>1, <1>3, <2>1, QuietKeeps DEF ClientArrives, serverVars, farVars, loopVars, TypeOK, Phases
<1>4. CASE ClientGivesUp
  <2>1. waiting' \in 0..(MaxConns - connectionId)
    BY <1>1, <1>4 DEF ClientGivesUp, TypeOK
  <2>2. QED
    BY <1>1, <1>4, <2>1, QuietKeeps DEF ClientGivesUp, serverVars, farVars, loopVars, TypeOK, Phases
<1>5. CASE AcceptFails
  <2>1. /\ pc[Base] = "events" /\ active' = [active EXCEPT ![Base] = @ \ {Listener}]
        /\ failed' = "accept"
        /\ UNCHANGED <<threadNum, serverVars, acceptVars, conn, users, left, shutting,
                     pc, batch, held, queue>>
    BY <1>5 DEF AcceptFails, Handling, farVars
  <2>2. \A l \in Loops : active'[l] \in SUBSET active[l]
    BY <1>1, <2>1 DEF TypeOK
  <2>3. active' \in [Loops -> SUBSET (Conns \cup {Listener})]
    BY <2>1 DEF TypeOK
  <2>4. \A l \in Loops : pc'[l] # "events" => active'[l] = {}
    BY <2>1, <2>2 DEF Phases
  <2>5. QED
    BY <1>1, <2>1, <2>2, <2>3, <2>4, QuietKeeps DEF serverVars, farVars, acceptVars, TypeOK, Phases
<1>6. ASSUME NEW c \in Conns, Release(c) PROVE IInv' /\ Continues
  BY <1>1, <1>6, QuietKeeps DEF Release, serverVars, farVars, acceptVars, loopVars, TypeOK, Phases
<1>7. ASSUME NEW c \in Conns, PeerLeaves(c) PROVE IInv' /\ Continues
  <2>1. left' \in SUBSET (1..connectionId)
    BY <1>1, <1>7 DEF PeerLeaves, TypeOK, Conns
  <2>2. QED
    BY <1>1, <1>7, <2>1, QuietKeeps
       DEF PeerLeaves, serverVars, farVars, acceptVars, loopVars, TypeOK, Phases
<1>8. ASSUME NEW l \in Loops, Poll(l) PROVE IInv' /\ Continues
  <2>1. /\ pc[l] = "poll" /\ active' = [active EXCEPT ![l] = Ready(l)]
        /\ pc' = [pc EXCEPT ![l] = "events"]
        /\ UNCHANGED <<threadNum, serverVars, acceptVars, conn, users, left, shutting,
                     batch, held, queue, failed>>
    BY <1>8 DEF Poll, farVars
  <2>2. \A ch \in Ready(l) : IF ch = Listener THEN l = Base /\ server = "up"
                             ELSE ch \in Conns /\ conn[ch].loop = l /\ Open(ch)
    <3>1. \A c \in left : c \in Conns /\ c # Listener
      BY <1>1 DEF TypeOK, Conns, Listener
    <3>2. \A c \in Conns : conn[c].slot = "watched" => Open(c)
      BY DEF Staged, StageOf, Unborn, Connecting, Closing, Gone, Stuck
    <3>3. QED
      BY <3>1, <3>2 DEF Ready
  <2>3. active' \in [Loops -> SUBSET (Conns \cup {Listener})]
    BY <2>1, <2>2 DEF TypeOK
  <2>4. \A k \in Loops : /\ pc'[k] = "stopped" <=> pc[k] = "stopped"
                         /\ pc'[k] # "run" => batch[k] = <<>>
                         /\ pc'[k] # "events" => active'[k] = {}
    BY <2>1 DEF TypeOK, Phases
  <2>5. \A k \in Loops : \A ch \in active'[k] :
           ch \in active[k] \/ (k = l /\ ch \in Ready(l))
    BY <2>1 DEF TypeOK
  <2>6. pc' \in [Loops -> {"poll", "events", "run", "stopped"}]
    BY <2>1 DEF TypeOK
  <2>7. \A k \in Loops : \A ch \in active'[k] :
           \/ ch \in active[k]
           \/ IF ch = Listener THEN k = Base /\ server = "up" ELSE conn[ch].loop = k /\ Open(ch)
    BY <2>2, <2>5
  <2>8. QED
    BY <1>1, <2>1, <2>3, <2>4, <2>6, <2>7, QuietKeeps DEF serverVars, farVars, acceptVars, TypeOK
<1>9. ASSUME NEW l \in Loops, EndBatch(l) PROVE IInv' /\ Continues
  <2>1. /\ pc[l] = "run" /\ batch[l] = <<>>
        /\ held' = [held EXCEPT ![l] = {}] /\ pc' = [pc EXCEPT ![l] = "poll"]
        /\ UNCHANGED <<threadNum, serverVars, acceptVars, conn, users, left, shutting,
                     active, batch, queue, failed>>
    BY <1>9 DEF EndBatch, farVars
  <2>2. /\ held' \in [Loops -> SUBSET Conns] /\ \A k \in Loops : held'[k] \in SUBSET held[k]
    BY <2>1 DEF TypeOK
  <2>3. /\ pc' \in [Loops -> {"poll", "events", "run", "stopped"}]
        /\ \A k \in Loops : /\ pc'[k] = "stopped" <=> pc[k] = "stopped"
                            /\ pc'[k] # "run" => batch[k] = <<>>
                            /\ pc'[k] # "events" => active[k] = {}
    BY <2>1 DEF TypeOK, Phases
  <2>4. QED
    BY <1>1, <2>1, <2>2, <2>3, QuietKeeps DEF serverVars, farVars, acceptVars, TypeOK
<1>10. ASSUME NEW l \in Loops, NEW ch \in active[l], HandleDangling(l, ch) PROVE IInv' /\ Continues
  <2>1. /\ pc[l] = "events" /\ active' = [active EXCEPT ![l] = @ \ {ch}]
        /\ IF ch = Listener THEN server # "up" ELSE ~Alive(ch)
        /\ failed' = "dangling"
        /\ UNCHANGED <<threadNum, serverVars, acceptVars, conn, users, left, shutting,
                     pc, batch, held, queue>>
    BY <1>10 DEF HandleDangling, Handling, farVars
  <2>2. server = "torn"
    BY <2>1 DEF Called, Open, Alive, HeldByLibrary
  <2>3. \A k \in Loops : active'[k] \in SUBSET active[k]
    BY <2>1 DEF TypeOK
  <2>4. active' \in [Loops -> SUBSET (Conns \cup {Listener})]
    BY <2>1 DEF TypeOK
  <2>5. \A k \in Loops : pc'[k] # "events" => active'[k] = {}
    BY <2>1, <2>3 DEF Phases
  <2>6. QED
    BY <1>1, <2>1, <2>2, <2>3, <2>4, <2>5, QuietKeeps
       DEF serverVars, farVars, acceptVars, TypeOK, Phases
<1>11. ASSUME NEW c \in Conns, ShutdownCheck(c) PROVE IInv' /\ Continues
  <2>1. conn[c].calls # 0
    BY <1>11 DEF ShutdownCheck, Staged, StageOf, Unborn, Connecting, Open, Closing, Gone, Stuck
  <2>2. shutting' = shutting \cup {c} /\ shutting' \in SUBSET users
    BY <1>1, <1>11 DEF ShutdownCheck, TypeOK
  <2>3. QED
    BY <1>1, <1>11, <2>1, <2>2, QuietKeeps
       DEF ShutdownCheck, serverVars, acceptVars, loopVars, TypeOK, Phases
<1>12. QED
  BY <1>2, <1>3, <1>4, <1>5, <1>6, <1>7, <1>8, <1>9, <1>10, <1>11

(* RegisteredExists for one connection.                                     *)
LEMMA RegisteredAlive ==
  ASSUME IInv, NEW c \in Conns, Registered(c), pc[conn[c].loop] # "stopped"
  PROVE  Alive(c)
<1> USE DEF IInv
<1>1. conn[c].loop \in Loops /\ (c \in map \cup users \/ Closing(c))
  BY DEF Registered, Staged, StageOf, Unborn, Connecting, Open, Gone, Stuck
<1>2. CASE c \in map \cup users
  BY <1>2 DEF Alive, HeldByLibrary
<1>3. CASE c \notin map \cup users
  <2> DEFINE l == conn[c].loop
  <2>1. CASE c \in held[l]
    BY <1>1, <2>1 DEF Alive, HeldByLibrary, InFunctors
  <2>2. CASE c \notin held[l]
    <3>1. PICK f \in Jobs(l) : f.conn = c
      BY <1>1, <1>3, <2>2 DEF DestructionPosted
    <3>2. Range(queue[l] \o batch[l]) = Jobs(l)
      BY <1>1, RangeConcatenation DEF TypeOK, Jobs
    <3>3. c \in InFunctors(l)
      BY <3>1, <3>2 DEF InFunctors, Holds
    <3>4. QED
      BY <1>1, <3>3 DEF Alive, HeldByLibrary
  <2>3. QED
    BY <2>1, <2>2
<1>4. QED
  BY <1>2, <1>3

(* A step about one connection that exists: it is enough to look at that    *)
(* connection, and at the functors about it.                                *)
LEMMA OneChanges ==
  ASSUME IInv, TypeOK', NEW c \in Conns, Alive(c),
         UNCHANGED <<connectionId, server, pc>>, failed = "no",
         failed' = "no" \/ (failed' = "assert" /\ Reopened(c)'),
         \A e \in Conns \ {c} : conn'[e] = conn[e] /\ (e \in map' <=> e \in map),
         conn'[c].loop = conn[c].loop, conn'[c].fd = conn[c].fd,
         conn'[c].calls = conn[c].calls \/ conn'[c].calls = conn[c].calls + 1,
         map' \in SUBSET map, users' \in SUBSET (users \cup {c}), shutting' \in SUBSET shutting,
         \A l \in Loops : /\ \A f \in Jobs(l)' : f \in Jobs(l) \/ f.conn = c
                          /\ \A f \in Jobs(l) : f \in Jobs(l)' \/ f.conn = c
                          /\ \A f \in Jobs(l)' : f.conn = c => JobFits(f, l)'
                          /\ OneEach(queue'[l]) /\ OneEach(batch'[l])
                          /\ \A f \in Range(queue'[l]), g \in Range(batch'[l]) : f.conn # g.conn
                          /\ active'[l] \in SUBSET active[l]
                          /\ (c \in active'[l] =>
                                (Open(c) /\ Open(c)') \/ (l = Base /\ server = "torn"))
                          /\ held'[l] \in SUBSET (held[l] \cup {c})
                          /\ pc[l] # "run" => batch'[l] = <<>>,
         Open(c)' \/ Closing(c)' \/ Gone(c)' \/ Stuck(c)',
         Closing(c)' /\ c \notin map' /\ pc[conn[c].loop] # "stopped" =>
           \/ \E f \in Jobs(conn[c].loop)' : f.conn = c
           \/ failed' = "assert" /\ c \in held'[conn[c].loop]
  PROVE  IInv' /\ Continues
<1> USE DEF IInv
<1>1. c \in 1..connectionId
  BY AliveBorn
<1>2. conn[c].loop \in Loops /\ conn[c].fd \in Fds
  <2>1. connectionId \in Nat
    BY BoundAssumption DEF TypeOK
  <2>2. QED
    BY <1>1, <2>1 DEF Staged, StageOf, Unborn
<1>3. \A e \in Conns \ {c} : /\ Open(e)' <=> Open(e)
                             /\ Closing(e)' <=> Closing(e)
                             /\ StageOf(e) => StageOf(e)'
                             /\ \A f, l : f.conn = e => (JobFits(f, l)' <=> JobFits(f, l))
  BY OtherKept
<1>4. Staged'
  <2>1. StageOf(c)'
    BY <1>1, <1>2 DEF StageOf
  <2>2. QED
    BY <1>3, <2>1 DEF Staged
<1>5. Posted'
  <2>1. ASSUME NEW l \in Loops, NEW f \in Jobs(l)' PROVE JobFits(f, l)'
    <3>1. CASE f.conn = c
      BY <3>1
    <3>2. CASE f.conn # c
      <4>1. f \in Jobs(l) /\ f.conn \in Conns
        BY <3>2, JobType
      <4>2. QED
        BY <1>3, <3>2, <4>1 DEF Posted
    <3>3. QED
      BY <3>1, <3>2
  <2>2. QED
    BY <2>1 DEF Posted
<1>6. DestructionPosted'
  <2>1. ASSUME NEW e \in Conns, Closing(e)', e \notin map', pc[conn'[e].loop] # "stopped"
        PROVE  \/ \E f \in Jobs(conn[e].loop)' : f.conn = e
               \/ failed' = "assert" /\ e \in held'[conn[e].loop]
    <3>1. CASE e = c
      BY <2>1, <3>1
    <3>2. CASE e # c
      <4>1. Closing(e) /\ e \notin map /\ conn'[e].loop = conn[e].loop
        BY <1>3, <2>1, <3>2
      <4>2. conn[e].loop \in Loops
        BY <4>1 DEF Staged, StageOf, Unborn, Closing
      <4>3. PICK f \in Jobs(conn[e].loop) : f.conn = e
        BY <2>1, <4>1 DEF DestructionPosted
      <4>4. \A l \in Loops : \A g \in Jobs(l) : g \in Jobs(l)' \/ g.conn = c
        OBVIOUS
      <4>5. f \in Jobs(conn[e].loop)'
        BY <3>2, <4>1, <4>2, <4>3, <4>4
      <4>6. QED
        BY <4>1, <4>3, <4>5
    <3>3. QED
      BY <3>1, <3>2
  <2>2. QED
    BY <2>1 DEF DestructionPosted
<1>7. Phases'
  <2>1. ASSUME NEW l \in Loops PROVE held'[l] \subseteq 1..connectionId
    <3>1. held[l] \subseteq 1..connectionId /\ held'[l] \in SUBSET (held[l] \cup {c})
      BY DEF Phases
    <3>2. QED
      BY <1>1, <3>1
  <2>2. \A l \in Loops : pc[l] # "events" => active'[l] = {}
    BY DEF Phases
  <2>3. QED
    BY <2>1, <2>2 DEF Phases
<1>8. Called'
  <2>1. ASSUME NEW l \in Loops, NEW ch \in active'[l]
        PROVE  IF ch = Listener THEN l = Base /\ server \in {"up", "torn"}
               ELSE conn'[ch].loop = l /\ (Open(ch)' \/ (l = Base /\ server = "torn"))
    <3>1. IF ch = Listener THEN l = Base /\ server \in {"up", "torn"}
          ELSE conn[ch].loop = l /\ (Open(ch) \/ (l = Base /\ server = "torn"))
      BY <2>1 DEF Called
    <3>2. ch # Listener => ch \in Conns
      BY <2>1 DEF TypeOK
    <3>3. CASE ch = Listener
      BY <3>1, <3>3
    <3>4. CASE ch # Listener /\ ch = c
      BY <2>1, <3>1, <3>4
    <3>5. CASE ch # Listener /\ ch # c
      BY <1>3, <3>1, <3>2, <3>5
    <3>6. QED
      BY <3>3, <3>4, <3>5
  <2>2. QED
    BY <2>1 DEF Called
<1>9. Distinct' /\ Continues
  <2>1. ASSUME NEW e, Alive(e)' PROVE Alive(e)
    <3>1. CASE e = c
      BY <3>1
    <3>2. CASE e # c
      <4>1. \/ e \in map' \cup users'
            \/ \E l \in Loops : e \in held'[l] \/ \E f \in Jobs(l)' : f.conn = e
        BY <2>1, AliveMeans
      <4>2. CASE e \in map' \cup users'
        BY <3>2, <4>2, AliveMeans
      <4>3. ASSUME NEW l \in Loops, e \in held'[l] \/ \E f \in Jobs(l)' : f.conn = e
            PROVE  e \in held[l] \/ \E f \in Jobs(l) : f.conn = e
        <5>1. /\ held'[l] \in SUBSET (held[l] \cup {c})
              /\ \A f \in Jobs(l)' : f \in Jobs(l) \/ f.conn = c
          OBVIOUS
        <5>2. QED
          BY <3>2, <4>3, <5>1
      <4>4. QED
        BY <4>1, <4>2, <4>3, AliveMeans
    <3>3. QED
      BY <3>1, <3>2
  <2>2. Continues
    BY <2>1 DEF Continues
  <2>3. QED
    BY <2>1, <2>2, DistinctKept
<1>10. Emptied' /\ Marked' /\ AssertsHold'
  <2>1. \A e \in shutting : e \in Conns
    BY BoundAssumption DEF TypeOK, Conns
  <2>2. \A e \in Conns : conn[e].calls \in Nat
    <3>1. \A e \in Conns : conn[e] \in Connection
      BY DEF TypeOK
    <3>2. \A r \in Connection : r.calls \in Nat
      BY DEF Connection
    <3>3. QED
      BY <3>1, <3>2
  <2>3. Marked'
    BY <2>1, <2>2 DEF Marked
  <2>4. QED
    BY <2>3 DEF Emptied, AssertsHold
<1>11. QED
  BY <1>4, <1>5, <1>6, <1>7, <1>8, <1>9, <1>10

(* A connection that is marked DISCONNECTING, and may get its writing       *)
(* enabled after it was closed, keeps its stage and all that is about it.   *)
LEMMA MarkedKeeps ==
  ASSUME IInv, failed = "no", failed' = "no", NEW c \in Conns, Alive(c),
         UNCHANGED <<threadNum, server, map, turn, connectionId, waiting, users, left,
                     pc, active, batch, held, queue>>, shutting' \in SUBSET shutting,
         NEW r \in Connection, conn' = [conn EXCEPT ![c] = r], r.state = "DISCONNECTING",
         r.loop = conn[c].loop, r.fd = conn[c].fd, r.calls = conn[c].calls,
         \/ r.slot = conn[c].slot /\ (Open(c) \/ Closing(c) \/ Gone(c))
         \/ r.slot = "writing" /\ Closing(c)
  PROVE  IInv' /\ Continues
<1> USE DEF IInv
<1>1. conn'[c] = r /\ \A e \in Conns \ {c} : conn'[e] = conn[e]
  BY DEF TypeOK
<1>2. TypeOK'
  <2>1. conn' \in [Conns -> Connection]
    BY DEF TypeOK
  <2>2. QED
    BY <2>1 DEF TypeOK
<1>3. /\ Open(c)' <=> Open(c)
      /\ Closing(c)' <=> Closing(c)
      /\ ~Connecting(c) /\ ~Connecting(c)'
      /\ Gone(c) => Gone(c)'
  BY <1>1 DEF Open, Closing, Connecting, Gone
<1>4. ASSUME NEW l \in Loops
      PROVE  /\ Jobs(l)' = Jobs(l)
             /\ \A f \in Jobs(l)' : f.conn = c => JobFits(f, l)'
             /\ OneEach(queue'[l]) /\ OneEach(batch'[l])
             /\ \A f \in Range(queue'[l]), g \in Range(batch'[l]) : f.conn # g.conn
             /\ pc[l] # "run" => batch'[l] = <<>>
  <2>1. Jobs(l)' = Jobs(l)
    BY DEF Jobs
  <2>2. \A f \in Jobs(l) : f.conn = c => JobFits(f, l)'
    BY <1>1, <1>3 DEF Posted, JobFits
  <2>3. QED
    BY <2>1, <2>2 DEF Posted, Phases
<1>5. \A l \in Loops : c \in active[l] => Open(c) \/ (l = Base /\ server = "torn")
  BY BoundAssumption DEF Called, Conns, Listener
<1>6. ASSUME Closing(c)', c \notin map, pc[conn[c].loop] # "stopped"
      PROVE  \E f \in Jobs(conn[c].loop)' : f.conn = c
  BY <1>3, <1>6 DEF DestructionPosted, Jobs
<1>7. QED
  BY <1>1, <1>2, <1>3, <1>4, <1>5, <1>6, OneChanges

(* Shutdown, on the connection's loop and in two steps on another thread.   *)
LEMMA ShutdownKeeps ==
  ASSUME IInv, failed = "no", NEW c \in Conns, Shutdown(c) \/ ShutdownStore(c)
  PROVE  IInv' /\ Continues
<1> USE DEF IInv
<1>1. /\ conn' = [conn EXCEPT ![c].state = "DISCONNECTING"]
      /\ UNCHANGED <<threadNum, server, map, turn, connectionId, waiting, users, left,
                     pc, active, batch, held, queue, failed>>
      /\ shutting' \in SUBSET shutting
  BY DEF Shutdown, ShutdownStore, serverVars, acceptVars, farVars, loopVars
<1>2. Alive(c) /\ (Open(c) \/ Closing(c) \/ Gone(c))
  <2>1. CASE Shutdown(c)
    BY <2>1 DEF Shutdown, Staged, StageOf, Unborn, Connecting, Open, Closing, Gone, Stuck
  <2>2. CASE ShutdownStore(c)
    <3>1. c \in shutting
      BY <2>2 DEF ShutdownStore
    <3>2. Alive(c) /\ conn[c].calls # 0
      BY <3>1 DEF TypeOK, Alive, Marked
    <3>3. QED
      BY <3>2 DEF Staged, StageOf, Unborn, Connecting, Stuck
  <2>3. QED
    BY <2>1, <2>2
<1>3. PICK r : r = [conn[c] EXCEPT !.state = "DISCONNECTING"]
  OBVIOUS
<1>4. /\ r \in Connection /\ r.state = "DISCONNECTING" /\ r.slot = conn[c].slot
      /\ r.loop = conn[c].loop /\ r.fd = conn[c].fd /\ r.calls = conn[c].calls
  <2>1. conn[c] \in Connection
    BY DEF TypeOK
  <2>2. QED
    BY <1>3, <2>1 DEF Connection
<1>5. conn' = [conn EXCEPT ![c] = r]
  BY <1>1, <1>3
<1>6. QED
  BY <1>1, <1>2, <1>4, <1>5, MarkedKeeps

(* Send ends the program, or enables the writing of a closed connection.    *)
LEMMA SendKeeps ==
  ASSUME IInv, failed = "no", NEW c \in Conns, Send(c)
  PROVE  IInv' /\ Continues
<1> USE DEF IInv
<1>1. /\ Alive(c)
      /\ UNCHANGED <<threadNum, server, map, turn, connectionId, waiting, users, left, shutting,
                     pc, active, batch, held, queue>>
  BY DEF Send, serverVars, acceptVars, farVars, loopVars
<1>2. CASE failed' # "no"
  <2>1. conn' = conn /\ failed' \in {"sigpipe", "assert"} /\ (failed' = "assert" => Reopened(c))
    BY <1>2 DEF Send, AssertThat, Reopened, TypeOK
  <2>2. TypeOK /\ Phases
    OBVIOUS
  <2>3. QED
    BY <1>1, <2>1, <2>2, QuietKeeps DEF TypeOK, Phases
<1>3. CASE failed' = "no"
  <2>1. /\ conn[c].state = "DISCONNECTING" /\ conn[c].slot \notin {"watched", "removed"}
        /\ conn' = [conn EXCEPT ![c] = Reopen(conn[c])]
    BY <1>3 DEF Send, AssertThat
  <2>2. Closing(c)
    BY <2>1 DEF Staged, StageOf, Unborn, Connecting, Open, Gone, Stuck
  <2>3. PICK r : r = Reopen(conn[c])
    OBVIOUS
  <2>4. /\ r \in Connection /\ r.state = "DISCONNECTING" /\ r.slot = "writing"
        /\ r.loop = conn[c].loop /\ r.fd = conn[c].fd /\ r.calls = conn[c].calls
    <3>1. conn[c] \in Connection
      BY DEF TypeOK
    <3>2. QED
      BY <2>3, <3>1 DEF Connection, Reopen
  <2>5. QED
    BY <1>1, <1>3, <2>1, <2>2, <2>3, <2>4, MarkedKeeps
<1>4. QED
  BY <1>2, <1>3

(* ConnectionEstablished runs once, on the connection's loop, whose poller  *)
(* knows no channel with that descriptor.                                   *)
LEMMA EstablishedKeeps ==
  ASSUME IInv, failed = "no", NEW l \in Loops, NEW c \in Conns, ConnectionEstablished(l, c)
  PROVE  IInv' /\ Continues
<1> USE DEF IInv
<1> DEFINE job == [op |-> "established", conn |-> c]
<1>1. /\ UNCHANGED <<threadNum, server, turn, connectionId, waiting, left, shutting,
                     pc, active, map, queue>>
      /\ Running(l, "established", c)
      /\ conn' = [conn EXCEPT ![c] = Established(@)]
      /\ users' \in {users, users \cup {c}}
      /\ AssertThat(l = conn[c].loop /\ EstablishedAsserts(conn[c]))
  BY DEF ConnectionEstablished, Running, acceptVars, farVars
<1>2. /\ pc[l] = "run" /\ job \in Jobs(l) /\ JobFits(job, l)
      /\ batch' \in [Loops -> Seq(Functor)] /\ held' \in [Loops -> SUBSET Conns]
      /\ held'[l] = held[l] \cup {c}
      /\ \A k \in Loops \ {l} : batch'[k] = batch[k] /\ held'[k] = held[k]
      /\ Range(batch[l]) = {job} \cup Range(batch'[l])
      /\ OneEach(batch'[l])
      /\ \A g \in Range(queue[l]) \cup Range(batch'[l]) : g.conn # c
  <2>1. Running(l, "established", c) /\ TypeOK /\ Posted /\ Phases
    BY <1>1
  <2>2. QED
    BY <2>1, RunningMeans, ZenonT(40)
<1>3. Connecting(c) /\ conn[c].loop = l /\ l # Base /\ conn[c] \in Connection
  BY <1>2 DEF JobFits, Connecting, TypeOK
<1>4. Alive(c)
  BY <1>3 DEF Connecting, Alive, HeldByLibrary
<1>5. failed' = "no"
  <2>1. ASSUME NEW e \in Conns, Registered(e), conn[e].loop = l PROVE conn[e].fd # conn[c].fd
    <3>1. Alive(e) /\ e # c
      BY <1>2, <1>3, <2>1, RegisteredAlive DEF Registered, Connecting
    <3>2. QED
      BY <1>4, <3>1 DEF Distinct
  <2>2. EstablishedAsserts(conn[c])
    BY <1>3, <2>1 DEF EstablishedAsserts, Connecting
  <2>3. QED
    BY <1>1, <1>3, <2>2 DEF AssertThat
<1>6. /\ conn'[c] = Established(conn[c])
      /\ \A e \in Conns \ {c} : conn'[e] = conn[e]
  BY <1>1 DEF TypeOK
<1>7. /\ conn'[c] \in Connection /\ conn'[c].loop = l /\ conn'[c].fd = conn[c].fd
      /\ conn'[c].state = "CONNECTED" /\ conn'[c].slot = "watched" /\ conn'[c].calls = 1
  <2>1. conn[c] \in Connection /\ conn[c].loop = l /\ conn[c].calls = 0
    BY <1>3 DEF Connecting
  <2>2. QED
    BY <1>6, <2>1, EstablishedRecord
<1>8. c \in 1..connectionId
  BY <1>4, AliveBorn
<1>9. TypeOK'
  <2>1. conn' \in [Conns -> Connection]
    BY <1>1, <1>7, <1>6 DEF TypeOK
  <2>2. users' \subseteq 1..connectionId
    BY <1>1, <1>8 DEF TypeOK
  <2>3. QED
    BY <1>1, <1>2, <1>5, <2>1, <2>2 DEF TypeOK
<1>10. Open(c)' /\ ~Closing(c)'
  BY <1>1, <1>3, <1>7 DEF Open, Closing, Connecting
<1>11. \A k \in Loops : active'[k] = active[k] /\ (c \in active[k] => k = Base /\ server = "torn")
  BY <1>1, <1>3, <1>8 DEF Called, Open, Connecting, Listener, TypeOK
<1>12. \A k \in Loops :
         /\ \A f \in Jobs(k)' : f \in Jobs(k) /\ f.conn # c
         /\ \A f \in Jobs(k) : f \in Jobs(k)' \/ f.conn = c
         /\ OneEach(queue'[k]) /\ OneEach(batch'[k])
         /\ \A f \in Range(queue'[k]), g \in Range(batch'[k]) : f.conn # g.conn
         /\ held'[k] \in SUBSET (held[k] \cup {c})
         /\ pc[k] # "run" => batch'[k] = <<>>
  <2>1. TypeOK /\ Posted /\ Phases /\ Running(l, "established", c) /\ queue' = queue
    BY <1>1
  <2>2. QED
    BY <2>1, RunningMeans
<1>13. conn'[c].calls = conn[c].calls + 1
  BY <1>3, <1>7 DEF Connecting
<1>14. QED
  BY <1>1, <1>4, <1>5, <1>6, <1>3, <1>7, <1>9, <1>10, <1>11, <1>12, <1>13, OneChanges

(* ConnectionDestroyed finds the connection closed, on its own loop; if it  *)
(* was reopened there, the assert fails.                                    *)
LEMMA DestroyedKeeps ==
  ASSUME IInv, failed = "no", NEW l \in Loops, NEW c \in Conns, ConnectionDestroyed(l, c)
  PROVE  IInv' /\ Continues
<1> USE DEF IInv
<1> DEFINE job == [op |-> "destroyed", conn |-> c]
<1>1. /\ UNCHANGED <<threadNum, server, turn, connectionId, waiting, left, shutting, pc, active,
                     map, users, queue>>
      /\ Running(l, "destroyed", c)
      /\ conn' = [conn EXCEPT ![c] = IF failed' = "no" THEN Destroyed(@) ELSE @]
      /\ AssertThat(l = conn[c].loop /\ DestroyedAsserts(conn[c]))
  BY DEF ConnectionDestroyed, Running, acceptVars, farVars
<1>2. /\ pc[l] = "run" /\ JobFits(job, l) /\ job \in Jobs(l)
      /\ batch' \in [Loops -> Seq(Functor)] /\ held' \in [Loops -> SUBSET Conns]
  <2>1. Running(l, "destroyed", c) /\ TypeOK /\ Posted /\ Phases
    BY <1>1
  <2>2. QED
    BY <2>1, RunningMeans
<1>3. /\ Closing(c) /\ c \notin map /\ conn[c].loop = l /\ l # Base
      /\ conn[c] \in Connection
  BY <1>2 DEF JobFits, Closing, TypeOK
<1>4. Alive(c)
  BY <1>2, <1>3, RegisteredAlive DEF Registered, Closing
<1>5. /\ Disabled(conn[c]) = conn[c] /\ Destroyed(conn[c]) \in Connection
      /\ Destroyed(conn[c]).loop = l /\ Destroyed(conn[c]).fd = conn[c].fd
      /\ Destroyed(conn[c]).state = conn[c].state /\ Destroyed(conn[c]).slot = "removed"
      /\ Destroyed(conn[c]).calls = 2
  <2>1. conn[c] \in Connection /\ conn[c].state # "CONNECTED" /\ conn[c].calls = 2
    BY <1>3 DEF Closing
  <2>2. QED
    BY <1>3, <2>1, DestroyedRecord
<1>6. c \in 1..connectionId
  BY <1>4, AliveBorn
<1>7. \A k \in Loops : active'[k] = active[k] /\ (c \in active[k] => k = Base /\ server = "torn")
  BY <1>1, <1>3, <1>6 DEF Called, Open, Closing, Listener, TypeOK
<1>8. \A k \in Loops :
        /\ \A f \in Jobs(k)' : f \in Jobs(k) /\ f.conn # c
        /\ \A f \in Jobs(k) : f \in Jobs(k)' \/ f.conn = c
        /\ OneEach(queue'[k]) /\ OneEach(batch'[k])
        /\ \A f \in Range(queue'[k]), g \in Range(batch'[k]) : f.conn # g.conn
        /\ held'[k] \in SUBSET (held[k] \cup {c})
        /\ pc[k] # "run" => batch'[k] = <<>>
  <2>1. TypeOK /\ Posted /\ Phases /\ Running(l, "destroyed", c) /\ queue' = queue
    BY <1>1
  <2>2. QED
    BY <2>1, RunningMeans
<1>9. c \in held'[l]
  <2>1. TypeOK /\ Posted /\ Phases /\ Running(l, "destroyed", c)
    BY <1>1
  <2>2. held'[l] = held[l] \cup {c}
    BY <2>1, RunningMeans
  <2>3. QED
    BY <2>2
<1>10. CASE conn[c].slot = "ignored"
  <2>1. failed' = "no"
    BY <1>1, <1>3, <1>5, <1>10 DEF AssertThat, DestroyedAsserts
  <2>2. /\ conn' = [conn EXCEPT ![c] = Destroyed(conn[c])]
        /\ conn'[c] = Destroyed(conn[c])
        /\ \A e \in Conns \ {c} : conn'[e] = conn[e]
    BY <1>1, <2>1 DEF TypeOK
  <2>3. TypeOK'
    <3>1. conn' \in [Conns -> Connection]
      BY <1>5, <2>2 DEF TypeOK
    <3>2. QED
      BY <1>1, <1>2, <2>1, <3>1 DEF TypeOK
  <2>4. Gone(c)' /\ ~Closing(c)'
    BY <1>1, <1>3, <1>5, <2>2 DEF Gone, Closing
  <2>5. conn'[c].calls = conn[c].calls
    BY <1>3, <1>5, <2>2 DEF Closing
  <2>6. QED
    BY <1>1, <1>3, <1>4, <1>5, <1>7, <1>8, <2>1, <2>2, <2>3, <2>4, <2>5, OneChanges
<1>11. CASE conn[c].slot = "writing"
  <2>1. failed' = "assert" /\ Reopened(c)
    BY <1>1, <1>3, <1>5, <1>11 DEF AssertThat, DestroyedAsserts, Closing, Reopened
  <2>2. conn' = conn
    BY <1>1, <2>1 DEF TypeOK
  <2>3. TypeOK'
    BY <1>1, <1>2, <2>1, <2>2 DEF TypeOK
  <2>4. Closing(c)' /\ Reopened(c)'
    BY <1>3, <2>1, <2>2 DEF Closing, Reopened
  <2>5. conn[c].loop = l
    BY <1>3
  <2>6. QED
    BY <1>1, <1>4, <1>7, <1>8, <1>9, <2>1, <2>2, <2>3, <2>4, <2>5, OneChanges
<1>12. QED
  BY <1>3, <1>10, <1>11 DEF Closing

(* RemoveConnectionInLoop finds the connection in the map, and leaves its   *)
(* destruction to the connection's loop.                                    *)
LEMMA RemoveKeeps ==
  ASSUME IInv, failed = "no", NEW l \in Loops, NEW c \in Conns, RemoveConnectionInLoop(l, c)
  PROVE  IInv' /\ Continues
<1> USE DEF IInv
<1> DEFINE job == [op |-> "remove", conn |-> c]
<1>1. /\ UNCHANGED <<threadNum, server, turn, connectionId, waiting, left, shutting, pc, active,
                     conn, users>>
      /\ Running(l, "remove", c) /\ map' = map \ {c}
      /\ Post(conn[c].loop, "destroyed", c)
      /\ AssertThat(l = Base /\ c \in map)
  BY DEF RemoveConnectionInLoop, Running, acceptVars, farVars, DestroyOn
<1>2. /\ pc[l] = "run" /\ job \in Jobs(l) /\ JobFits(job, l)
      /\ batch' \in [Loops -> Seq(Functor)] /\ held' \in [Loops -> SUBSET Conns]
      /\ \A k \in Loops \ {l} : batch'[k] = batch[k] /\ held'[k] = held[k]
      /\ Range(batch[l]) = {job} \cup Range(batch'[l])
      /\ OneEach(batch'[l])
      /\ \A g \in Range(queue[l]) \cup Range(batch'[l]) : g.conn # c
      /\ \A k \in Loops : /\ pc[k] # "run" => batch'[k] = <<>>
                          /\ held'[k] \in SUBSET (held[k] \cup {c})
  <2>1. Running(l, "remove", c) /\ TypeOK /\ Posted /\ Phases
    BY <1>1
  <2>2. QED
    BY <2>1, RunningMeans, ZenonT(40)
<1>3. Closing(c) /\ c \in map /\ l = Base /\ conn[c].loop # Base /\ conn[c] \in Connection
  BY <1>2 DEF JobFits, Closing, TypeOK
<1>4. PICK m \in Loops : conn[c].loop = m
  BY <1>3 DEF Closing, Staged, StageOf, Unborn
<1>5. Alive(c)
  BY <1>3 DEF Alive, HeldByLibrary
<1>6. failed' = "no"
  BY <1>1, <1>3 DEF AssertThat
<1>7. \A k \in Loops \ {l} : \A g \in Jobs(k) : g.conn # c
  <2>1. PICK j : JobFits(j, l) /\ j.conn = c
    BY <1>2
  <2>2. QED
    BY <2>1, FitsOnce DEF Posted
<1>8. /\ queue' \in [Loops -> Seq(Functor)]
      /\ \A k \in Loops \ {m} : queue'[k] = queue[k]
      /\ Range(queue'[m]) = Range(queue[m]) \cup {[op |-> "destroyed", conn |-> c]}
      /\ OneEach(queue[m]) /\ (\A g \in Range(queue[m]) : g.conn # c) => OneEach(queue'[m])
  <2>1. TypeOK /\ m \in Loops /\ Post(m, "destroyed", c)
    BY <1>1, <1>4
  <2>2. QED
    BY <2>1, PostMeans
<1>9. c \in 1..connectionId
  BY <1>5, AliveBorn
<1>10. TypeOK'
  <2>1. map' \subseteq 1..connectionId
    BY <1>1 DEF TypeOK
  <2>2. QED
    BY <1>1, <1>2, <1>6, <1>8, <2>1 DEF TypeOK
<1>11. Closing(c)' /\ c \notin map'
  BY <1>1, <1>3 DEF Closing
<1>12. \A k \in Loops : active'[k] = active[k] /\ (c \in active[k] => k = Base /\ server = "torn")
  BY <1>1, <1>3, <1>9 DEF Called, Open, Closing, Listener, TypeOK
<1>13. l # m
  BY <1>3, <1>4
<1>14. ASSUME NEW k \in Loops
       PROVE  /\ \A f \in Jobs(k)' : f \in Jobs(k) \/ f.conn = c
              /\ \A f \in Jobs(k) : f \in Jobs(k)' \/ f.conn = c
              /\ \A f \in Jobs(k)' : f.conn = c =>
                   k = m /\ f = [op |-> "destroyed", conn |-> c]
              /\ OneEach(queue'[k]) /\ OneEach(batch'[k])
              /\ \A f \in Range(queue'[k]), g \in Range(batch'[k]) : f.conn # g.conn
  <2>1. CASE k = l
    <3>1. queue'[l] = queue[l]
      BY <1>8, <1>13
    <3>2. \A f \in Range(queue'[l]), g \in Range(batch'[l]) : f.conn # g.conn
      BY <1>2, <3>1 DEF Posted
    <3>3. QED
      BY <1>2, <2>1, <3>1, <3>2 DEF Posted, Jobs
  <2>2. CASE k = m
    <3>1. batch'[m] = batch[m] /\ \A g \in Jobs(m) : g.conn # c
      BY <1>2, <1>4, <1>7, <1>13
    <3>2. OneEach(queue'[m])
      BY <1>4, <1>8, <3>1 DEF Posted, Jobs
    <3>3. \A f \in Range(queue'[m]), g \in Range(batch'[m]) : f.conn # g.conn
      BY <1>4, <1>8, <3>1 DEF Posted, Jobs
    <3>4. QED
      BY <1>4, <1>8, <2>2, <3>1, <3>2, <3>3 DEF Posted, Jobs
  <2>3. CASE k # l /\ k # m
    <3>1. queue'[k] = queue[k] /\ batch'[k] = batch[k] /\ \A g \in Jobs(k) : g.conn # c
      BY <1>2, <1>7, <1>8, <2>3
    <3>2. QED
      BY <3>1 DEF Posted, Jobs
  <2>4. QED
    BY <2>1, <2>2, <2>3
<1>15. [op |-> "destroyed", conn |-> c] \in Jobs(m)'
  BY <1>8 DEF Jobs
<1>16. JobFits([op |-> "destroyed", conn |-> c], m)'
  BY <1>1, <1>4, <1>11 DEF JobFits
<1>17. QED
  <2>1. \A k \in Loops : \A f \in Jobs(k)' : f.conn = c => JobFits(f, k)'
    BY <1>14, <1>16
  <2>2. \E f \in Jobs(conn[c].loop)' : f.conn = c
    BY <1>1, <1>4, <1>15
  <2>3. map' \in SUBSET map /\ \A e \in Conns \ {c} : e \in map' <=> e \in map
    BY <1>1
  <2>4. QED
    BY <1>1, <1>2, <1>5, <1>6, <1>10, <1>11, <1>12, <1>14, <2>1, <2>2, <2>3, OneChanges

(* A channel that is called belongs to an open connection, which is closed; *)
(* only on the loop of a torn server may it be another's, and fail.         *)
LEMMA CloseKeeps ==
  ASSUME IInv, failed = "no", NEW l \in Loops, NEW c \in active[l], HandleClose(l, c)
  PROVE  IInv' /\ Continues
<1> USE DEF IInv
<1>1. /\ c \in Conns /\ Alive(c) /\ pc[l] = "events"
      /\ active' = [active EXCEPT ![l] = @ \ {c}]
      /\ UNCHANGED <<threadNum, server, turn, connectionId, waiting, users, left, shutting, pc, batch, held>>
      /\ IF l = Base
         THEN /\ AssertThat(ClosedAsserts(conn[c]) /\ c \in map /\ DestroyedAsserts(Closed(conn[c])))
              /\ conn' = [conn EXCEPT ![c] = IF failed' = "no" THEN Destroyed(Closed(conn[c]))
                                             ELSE conn[c]]
              /\ map' = map \ {c}
              /\ UNCHANGED queue
         ELSE /\ AssertThat(ClosedAsserts(conn[c]))
              /\ conn' = [conn EXCEPT ![c] = IF failed' = "no" THEN Closed(conn[c]) ELSE conn[c]]
              /\ Post(Base, "remove", c)
              /\ UNCHANGED map
  BY DEF HandleClose, Handling, acceptVars, farVars
<1>2. c \in 1..connectionId /\ c # Listener
  BY <1>1, AliveBorn DEF Listener, TypeOK
<1>3. conn[c].loop = l /\ (Open(c) \/ (l = Base /\ server = "torn"))
  BY <1>2 DEF Called
<1>4. /\ active' \in [Loops -> SUBSET (Conns \cup {Listener})]
      /\ \A k \in Loops : active'[k] \in SUBSET active[k] /\ c \notin active'[k]
  <2>1. \A k \in Loops : k # l => c \notin active[k]
    BY <1>2, <1>3 DEF Called
  <2>2. QED
    BY <1>1, <2>1 DEF TypeOK
<1>5. CASE Open(c)
  <2>1. conn[c] \in Connection /\ conn[c].calls = 1 /\ c \in map /\ ClosedAsserts(conn[c])
    BY <1>1, <1>5 DEF Open, ClosedAsserts, TypeOK
  <2>2. /\ Closed(conn[c]) \in Connection
        /\ Closed(conn[c]).loop = conn[c].loop /\ Closed(conn[c]).fd = conn[c].fd
        /\ Closed(conn[c]).state = "DISCONNECTED" /\ Closed(conn[c]).slot = "ignored"
        /\ Closed(conn[c]).calls = 2
    BY <2>1, ClosedRecord
  <2> DEFINE r == Closed(conn[c])
  <2>3. /\ Disabled(r) = r /\ Destroyed(r) \in Connection
        /\ Destroyed(r).loop = conn[c].loop /\ Destroyed(r).fd = conn[c].fd
        /\ Destroyed(r).state = "DISCONNECTED" /\ Destroyed(r).slot = "removed"
        /\ Destroyed(r).calls = 2
    <3> HIDE DEF r
    <3>1. r \in Connection /\ r.state = "DISCONNECTED" /\ r.loop = conn[c].loop
          /\ r.fd = conn[c].fd /\ r.calls = 2
      BY <2>2 DEF r
    <3>2. QED
      BY <3>1, DestroyedRecord
  <2>4. \A k \in Loops : \A f \in Jobs(k) : f.conn # c
    BY <1>5 DEF Posted, JobFits, Connecting, Closing, Open
  <2>5. \A k \in Loops : held'[k] \in SUBSET (held[k] \cup {c}) /\ (pc[k] # "run" => batch'[k] = <<>>)
    BY <1>1 DEF Phases
  <2>6. CASE l = Base
    <3>1. failed' = "no"
      BY <1>1, <2>1, <2>2, <2>3, <2>6 DEF AssertThat, DestroyedAsserts
    <3>2. /\ conn' = [conn EXCEPT ![c] = Destroyed(r)] /\ map' = map \ {c} /\ queue' = queue
          /\ conn'[c] = Destroyed(r) /\ \A e \in Conns \ {c} : conn'[e] = conn[e]
      BY <1>1, <2>6, <3>1 DEF TypeOK
    <3> HIDE DEF r
    <3>3. TypeOK'
      <4>1. conn' \in [Conns -> Connection]
        BY <2>3, <3>2 DEF TypeOK
      <4>2. QED
        BY <1>1, <1>4, <3>1, <3>2, <4>1 DEF TypeOK
    <3>4. Gone(c)' /\ ~Closing(c)'
      BY <2>3, <3>2 DEF Gone, Closing
    <3>5. \A k \in Loops :
            /\ Jobs(k)' = Jobs(k)
            /\ OneEach(queue'[k]) /\ OneEach(batch'[k])
            /\ \A f \in Range(queue'[k]), g \in Range(batch'[k]) : f.conn # g.conn
      BY <1>1, <3>2 DEF Posted, Jobs
    <3>6. conn'[c].calls = conn[c].calls + 1
      BY <2>1, <2>3, <3>2
    <3>7. QED
      BY <1>1, <1>4, <2>3, <2>4, <2>5, <3>1, <3>2, <3>3, <3>4, <3>5, <3>6, OneChanges
  <2>7. CASE l # Base
    <3>1. failed' = "no"
      BY <1>1, <2>1, <2>7 DEF AssertThat
    <3>2. /\ conn' = [conn EXCEPT ![c] = r] /\ map' = map /\ Post(Base, "remove", c)
          /\ conn'[c] = r /\ \A e \in Conns \ {c} : conn'[e] = conn[e]
      BY <1>1, <2>7, <3>1 DEF TypeOK
    <3>3. /\ r \in Connection
          /\ r.loop = conn[c].loop /\ r.fd = conn[c].fd
          /\ r.state = "DISCONNECTED" /\ r.slot = "ignored" /\ r.calls = 2
      BY <2>2
    <3> HIDE DEF r
    <3>4. Base \in Loops
      BY BoundAssumption DEF Base, Loops
    <3>5. /\ queue' \in [Loops -> Seq(Functor)]
          /\ \A k \in Loops \ {Base} : queue'[k] = queue[k]
          /\ Range(queue'[Base]) = Range(queue[Base]) \cup {[op |-> "remove", conn |-> c]}
          /\ OneEach(queue[Base]) /\ (\A g \in Range(queue[Base]) : g.conn # c)
               => OneEach(queue'[Base])
      BY <1>1, <3>2, <3>4, PostMeans
    <3>6. TypeOK'
      <4>1. conn' \in [Conns -> Connection]
        BY <3>2, <3>3 DEF TypeOK
      <4>2. QED
        BY <1>1, <1>4, <3>1, <3>2, <3>5, <4>1 DEF TypeOK
    <3>7. Closing(c)' /\ c \in map'
      BY <1>3, <2>1, <2>7, <3>2, <3>3 DEF Closing
    <3>8. JobFits([op |-> "remove", conn |-> c], Base)'
      BY <3>7 DEF JobFits
    <3>9. ASSUME NEW k \in Loops
          PROVE  /\ \A f \in Jobs(k)' : f \in Jobs(k) \/ f.conn = c
                 /\ \A f \in Jobs(k) : f \in Jobs(k)'
                 /\ \A f \in Jobs(k)' : f.conn = c => JobFits(f, k)'
                 /\ OneEach(queue'[k]) /\ OneEach(batch'[k])
                 /\ \A f \in Range(queue'[k]), g \in Range(batch'[k]) : f.conn # g.conn
      <4>1. CASE k = Base
        <5>1. OneEach(queue'[k])
          BY <2>4, <3>5, <4>1 DEF Posted, Jobs
        <5>2. \A f \in Range(queue'[k]), g \in Range(batch'[k]) : f.conn # g.conn
          BY <1>1, <2>4, <3>5, <4>1 DEF Posted, Jobs
        <5>3. \A f \in Jobs(k)' : f \in Jobs(k) \/ f = [op |-> "remove", conn |-> c]
          BY <1>1, <3>5, <4>1 DEF Jobs
        <5>4. \A f \in Jobs(k) : f \in Jobs(k)'
          BY <1>1, <3>5, <4>1 DEF Jobs
        <5>5. QED
          BY <1>1, <2>4, <3>8, <4>1, <5>1, <5>2, <5>3, <5>4 DEF Posted
      <4>2. CASE k # Base
        <5>1. Jobs(k)' = Jobs(k) /\ queue'[k] = queue[k] /\ batch'[k] = batch[k]
          BY <1>1, <3>5, <4>2 DEF Jobs
        <5>2. QED
          BY <2>4, <5>1 DEF Posted
      <4>3. QED
        BY <4>1, <4>2
    <3>10. conn'[c].calls = conn[c].calls + 1
      BY <2>1, <3>2, <3>3
    <3>11. QED
      BY <1>1, <1>4, <2>5, <3>1, <3>2, <3>3, <3>6, <3>7, <3>9, <3>10, OneChanges
  <2>8. QED
    BY <2>6, <2>7
<1>6. CASE ~Open(c)
  <2>1. l = Base /\ server = "torn" /\ map = {}
    BY <1>3, <1>6 DEF Emptied
  <2>2. failed' = "assert"
    BY <1>1, <2>1 DEF AssertThat
  <2>3. conn' = conn /\ map' = map /\ queue' = queue
    BY <1>1, <2>1, <2>2 DEF TypeOK
  <2>4. \A k \in Loops : pc[k] # "events" => active'[k] = {}
    BY <1>4 DEF Phases
  <2>5. TypeOK /\ Phases
    OBVIOUS
  <2>6. QED
    BY <1>1, <1>4, <2>1, <2>2, <2>3, <2>4, <2>5, QuietKeeps DEF TypeOK, Phases
<1>7. QED
  BY <1>5, <1>6

(* On the base loop the connection may be reopened before it is removed,    *)
(* where the program ends.                                                  *)
LEMMA ReopensKeeps ==
  ASSUME IInv, failed = "no", NEW c \in active[Base], HandleCloseReopens(c)
  PROVE  IInv' /\ Continues
<1> USE DEF IInv
<1>1. /\ Alive(c) /\ c \in shutting /\ ClosedAsserts(conn[c]) /\ pc[Base] = "events"
      /\ active' = [active EXCEPT ![Base] = @ \ {c}]
      /\ conn' = [conn EXCEPT ![c] = Reopen(Closed(conn[c]))] /\ map' = map \ {c}
      /\ failed' = "assert"
      /\ UNCHANGED <<threadNum, server, turn, connectionId, waiting, users, left, shutting,
                     pc, batch, held, queue>>
      /\ Base \in Loops
  BY BoundAssumption DEF HandleCloseReopens, Handling, acceptVars, farVars, Base, Loops
<1>2. c \in 1..connectionId /\ c \in Conns /\ c # Listener
  BY <1>1, AliveBorn DEF Listener, TypeOK
<1>3. conn[c] \in Connection /\ conn[c].loop = Base /\ Open(c)
  BY <1>1, <1>2 DEF Called, TypeOK, ClosedAsserts, Staged, StageOf, Unborn, Connecting, Closing,
     Gone, Stuck
<1>4. PICK r : r = Reopen(Closed(conn[c]))
  OBVIOUS
<1>5. /\ r \in Connection /\ r.loop = Base /\ r.fd = conn[c].fd /\ r.calls = 2
      /\ r.state = "DISCONNECTING" /\ r.slot = "writing" /\ conn[c].calls = 1
  <2>1. PICK q : q = Closed(conn[c])
    OBVIOUS
  <2>2. q \in Connection /\ q.loop = Base /\ q.fd = conn[c].fd /\ q.calls = 2
    BY <1>3, <2>1, ClosedRecord DEF Open
  <2>3. r = Reopen(q) /\ conn[c].calls = 1
    BY <1>3, <1>4, <2>1 DEF Open
  <2>4. QED
    BY <2>2, <2>3 DEF Connection, Reopen
<1>6. conn'[c] = r /\ \A e \in Conns \ {c} : conn'[e] = conn[e]
  BY <1>1, <1>2, <1>4 DEF TypeOK
<1>7. /\ active' \in [Loops -> SUBSET (Conns \cup {Listener})]
      /\ \A k \in Loops : active'[k] \in SUBSET active[k] /\ c \notin active'[k]
  <2>1. \A k \in Loops : k # Base => c \notin active[k]
    BY <1>2, <1>3 DEF Called
  <2>2. QED
    BY <1>1, <2>1 DEF TypeOK
<1>8. TypeOK'
  <2>1. conn' \in [Conns -> Connection]
    BY <1>1, <1>4, <1>5 DEF TypeOK
  <2>2. QED
    BY <1>1, <1>7, <2>1 DEF TypeOK
<1>9. Stuck(c)' /\ Reopened(c)' /\ ~Closing(c)'
  BY <1>1, <1>5, <1>6 DEF Stuck, Reopened, Closing, TypeOK
<1>10. \A k \in Loops :
         /\ Jobs(k)' = Jobs(k) /\ \A f \in Jobs(k) : f.conn # c
         /\ OneEach(queue'[k]) /\ OneEach(batch'[k])
         /\ \A f \in Range(queue'[k]), g \in Range(batch'[k]) : f.conn # g.conn
         /\ pc[k] # "run" => batch'[k] = <<>>
  <2>1. \A k \in Loops : \A f \in Jobs(k) : f.conn # c
    BY <1>3 DEF Posted, JobFits, Connecting, Closing, Open
  <2>2. QED
    BY <1>1, <2>1 DEF Posted, Phases, Jobs
<1>11. QED
  BY <1>1, <1>2, <1>3, <1>5, <1>6, <1>7, <1>8, <1>9, <1>10, OneChanges

(* A batch taken is the queue it was; a stopped loop drops what it had.     *)
LEMMA QueueMoves ==
  ASSUME IInv, failed = "no", NEW l \in Loops, TypeOK',
         UNCHANGED <<map, connectionId, conn, users, shutting, server, active, held, failed>>,
         \A k \in Loops \ {l} : queue'[k] = queue[k] /\ batch'[k] = batch[k] /\ pc'[k] = pc[k],
         pc[l] # "stopped", active[l] = {}, batch[l] = <<>>, queue'[l] = <<>>,
         \/ batch'[l] = queue[l] /\ pc'[l] = "run"
         \/ batch'[l] = <<>> /\ pc'[l] = "stopped" /\ l # Base
  PROVE  IInv' /\ Continues
<1> USE DEF IInv
<1>1. \A k \in Loops \ {l} : Jobs(k)' = Jobs(k)
  BY DEF Jobs
<1>2. Jobs(l)' \in SUBSET Jobs(l) /\ (pc'[l] # "stopped" => Jobs(l)' = Jobs(l))
  BY QueueEmpty DEF Jobs
<1>3. \A e : /\ Open(e)' <=> Open(e)
             /\ Closing(e)' <=> Closing(e)
             /\ StageOf(e) => StageOf(e)'
             /\ \A f, k : f.conn = e => (JobFits(f, k)' <=> JobFits(f, k))
  BY OtherKept
<1>4. Staged' /\ Called' /\ Emptied' /\ Marked' /\ AssertsHold'
  BY <1>3 DEF Staged, Called, Emptied, Marked, AssertsHold
<1>5. Posted'
  <2>1. ASSUME NEW k \in Loops
        PROVE  /\ \A f \in Jobs(k)' : JobFits(f, k)'
               /\ OneEach(queue'[k]) /\ OneEach(batch'[k])
               /\ \A f \in Range(queue'[k]), g \in Range(batch'[k]) : f.conn # g.conn
    <3>1. \A f \in Jobs(k)' : JobFits(f, k)'
      BY <1>1, <1>2, <1>3 DEF Posted
    <3>2. CASE k = l
      BY <3>1, <3>2, QueueEmpty DEF Posted
    <3>3. CASE k # l
      BY <3>1, <3>3 DEF Posted
    <3>4. QED
      BY <3>2, <3>3
  <2>2. QED
    BY <2>1 DEF Posted
<1>6. DestructionPosted'
  <2>1. ASSUME NEW c \in Conns, Closing(c), c \notin map, pc'[conn[c].loop] # "stopped"
        PROVE  \E f \in Jobs(conn[c].loop)' : f.conn = c
    <3>1. PICK k \in Loops : conn[c].loop = k
      BY <2>1 DEF Staged, StageOf, Unborn, Closing
    <3>2. pc[k] # "stopped"
      BY <2>1, <3>1
    <3>3. Jobs(k)' = Jobs(k)
      BY <1>1, <1>2, <2>1, <3>1
    <3>4. QED
      BY <2>1, <3>1, <3>2, <3>3 DEF DestructionPosted
  <2>2. QED
    BY <1>3, <2>1 DEF DestructionPosted
<1>7. Phases'
  <2>1. pc'[Base] # "stopped"
    BY BoundAssumption DEF Phases, Base, Loops
  <2>2. ASSUME NEW k \in Loops
        PROVE  /\ pc'[k] # "events" => active[k] = {}
               /\ pc'[k] # "run" => batch'[k] = <<>>
               /\ held[k] \subseteq 1..connectionId
    BY DEF Phases
  <2>3. QED
    BY <2>1, <2>2 DEF Phases
<1>8. Distinct' /\ Continues
  <2>1. ASSUME NEW e, Alive(e)' PROVE Alive(e)
    <3>1. \/ e \in map \cup users
          \/ \E k \in Loops : e \in held[k] \/ \E f \in Jobs(k)' : f.conn = e
      BY <2>1, AliveMeans
    <3>2. \A k \in Loops : Jobs(k)' \in SUBSET Jobs(k)
      BY <1>1, <1>2
    <3>3. QED
      BY <3>1, <3>2, AliveMeans
  <2>2. Continues
    BY <2>1 DEF Continues
  <2>3. QED
    BY <2>1, <2>2, DistinctKept
<1>9. QED
  BY <1>4, <1>5, <1>6, <1>7, <1>8

LEMMA QueueSteps ==
  ASSUME IInv, failed = "no", NEW l \in Loops, TakeBatch(l) \/ StopLoop(l)
  PROVE  IInv' /\ Continues
<1> USE DEF IInv
<1>1. CASE TakeBatch(l)
  <2>1. /\ pc[l] = "events" /\ active[l] = {} /\ batch[l] = <<>>
        /\ pc' = [pc EXCEPT ![l] = "run"]
        /\ batch' = [batch EXCEPT ![l] = queue[l]]
        /\ queue' = [queue EXCEPT ![l] = <<>>]
        /\ UNCHANGED <<threadNum, server, map, turn, connectionId, waiting, conn, users, left, shutting,
                       active, held, failed>>
    BY <1>1 DEF TakeBatch, serverVars, farVars, acceptVars, Phases
  <2>2. TypeOK'
    BY <2>1, QueueEmpty DEF TypeOK
  <2>3. /\ \A k \in Loops \ {l} : queue'[k] = queue[k] /\ batch'[k] = batch[k] /\ pc'[k] = pc[k]
        /\ queue'[l] = <<>> /\ batch'[l] = queue[l] /\ pc'[l] = "run"
    BY <2>1 DEF TypeOK
  <2>4. QED
    BY <2>1, <2>2, <2>3, QueueMoves
<1>2. CASE StopLoop(l)
  <2>1. /\ pc[l] = "poll" /\ active[l] = {} /\ batch[l] = <<>> /\ l # Base
        /\ pc' = [pc EXCEPT ![l] = "stopped"]
        /\ queue' = [queue EXCEPT ![l] = <<>>]
        /\ UNCHANGED <<threadNum, server, map, turn, connectionId, waiting, conn, users, left, shutting,
                       active, batch, held, failed>>
    BY <1>2 DEF StopLoop, serverVars, farVars, acceptVars, Phases
  <2>2. TypeOK'
    BY <2>1, QueueEmpty DEF TypeOK
  <2>3. /\ \A k \in Loops \ {l} : queue'[k] = queue[k] /\ batch'[k] = batch[k] /\ pc'[k] = pc[k]
        /\ queue'[l] = <<>> /\ batch'[l] = <<>> /\ pc'[l] = "stopped"
    BY <2>1 DEF TypeOK
  <2>4. QED
    BY <2>1, <2>2, <2>3, QueueMoves
<1>3. QED
  BY <1>1, <1>2
-----------------------------------------------------------------------------
(* A connection is accepted, with a descriptor nobody has; the others stay. *)
Begins(c) ==
  /\ Unborn(c) /\ ~Alive(c) /\ Alive(c)'
  /\ conn'[c].fd \in Fds \ OpenFds /\ conn'[c].calls \in {0, 1}
  /\ \A e \in Conns \ {c} : conn'[e] = conn[e] /\ (Alive(e)' => Alive(e))

(* A connection that was accepted is alone with its descriptor, whether it  *)
(* is established at once or has that posted to its loop.                   *)
LEMMA AddedKeeps ==
  ASSUME IInv, TypeOK', NEW c \in Conns, c = connectionId + 1, connectionId' = c,
         server = "up", UNCHANGED <<server, pc, held, batch>>, failed = "no", failed' = "no",
         \A e \in Conns \ {c} : conn'[e] = conn[e], map' = map \cup {c},
         conn'[c].loop \in Loops, conn'[c].fd \in Fds \ OpenFds, Connecting(c)' \/ Open(c)',
         users' \in SUBSET (users \cup {c}), shutting' = shutting,
         \A l \in Loops : /\ active'[l] \in SUBSET active[l]
                          /\ \A f \in Jobs(l)' : f \in Jobs(l) \/ (f.conn = c /\ JobFits(f, l)')
                          /\ \A f \in Jobs(l) : f \in Jobs(l)'
                          /\ OneEach(queue'[l])
                          /\ \A f \in Range(queue'[l]), g \in Range(batch[l]) : f.conn # g.conn
  PROVE  IInv' /\ Begins(c)
<1> USE DEF IInv
<1>1. connectionId \in Nat /\ ~Alive(c) /\ Unborn(c) /\ c # Listener
  <2>1. connectionId \in Nat
    BY BoundAssumption DEF TypeOK
  <2>2. ~Alive(c)
    BY <2>1, AliveBorn
  <2>3. Unborn(c)
    BY <2>1 DEF Staged, StageOf
  <2>4. QED
    BY <2>1, <2>2, <2>3 DEF Listener
<1>2. \A e \in Conns \ {c} : /\ Open(e)' <=> Open(e)
                             /\ Closing(e)' <=> Closing(e)
                             /\ \A f, l : f.conn = e => (JobFits(f, l)' <=> JobFits(f, l))
  BY OtherKept
<1>3. Staged'
  <2>1. StageOf(c)'
    BY <1>1 DEF StageOf
  <2>2. ASSUME NEW e \in Conns, e # c PROVE StageOf(e)'
    <3>1. StageOf(e) /\ conn'[e] = conn[e] /\ (e \in map' <=> e \in map) /\ e \in Nat
      BY <2>2 DEF Staged, Conns
    <3>2. CASE Unborn(e)
      BY <1>1, <2>2, <3>1, <3>2 DEF StageOf, Unborn
    <3>3. CASE ~Unborn(e)
      BY <1>1, <3>1, <3>3 DEF StageOf, Connecting, Open, Closing, Gone, Stuck
    <3>4. QED
      BY <3>2, <3>3
  <2>3. QED
    BY <2>1, <2>2 DEF Staged
<1>4. Posted'
  <2>1. ASSUME NEW l \in Loops, NEW f \in Jobs(l) PROVE f.conn # c /\ JobFits(f, l)'
    <3>1. JobFits(f, l) /\ f.conn \in Conns
      BY JobType DEF Posted
    <3>2. f.conn # c
      BY <1>1, <3>1 DEF JobFits, Unborn, Connecting, Closing
    <3>3. QED
      BY <1>2, <3>1, <3>2
  <2>2. QED
    BY <2>1 DEF Posted
<1>5. DestructionPosted'
  <2>1. ASSUME NEW e \in Conns, Closing(e)', e \notin map', pc[conn'[e].loop] # "stopped"
        PROVE  \E f \in Jobs(conn[e].loop)' : f.conn = e
    <3>1. e # c
      BY <2>1
    <3>2. Closing(e) /\ e \notin map /\ conn'[e].loop = conn[e].loop
      BY <1>2, <2>1, <3>1
    <3>3. PICK l \in Loops : conn[e].loop = l
      BY <3>2 DEF Staged, StageOf, Unborn, Closing
    <3>4. PICK f \in Jobs(l) : f.conn = e
      BY <2>1, <3>2, <3>3 DEF DestructionPosted
    <3>5. f \in Jobs(l)' /\ conn'[e].loop = l
      BY <3>2, <3>3, <3>4
    <3>6. QED
      BY <3>4, <3>5
  <2>2. QED
    BY <2>1 DEF DestructionPosted
<1>6. Phases'
  <2>1. \A l \in Loops : held[l] \subseteq 1..connectionId'
    BY <1>1 DEF Phases
  <2>2. \A l \in Loops : pc[l] # "events" => active'[l] = {}
    BY DEF Phases
  <2>3. QED
    BY <2>1, <2>2 DEF Phases
<1>7. Called'
  <2>1. ASSUME NEW l \in Loops, NEW ch \in active'[l]
        PROVE  IF ch = Listener THEN l = Base ELSE conn'[ch].loop = l /\ Open(ch)'
    <3>1. IF ch = Listener THEN l = Base ELSE conn[ch].loop = l /\ Open(ch)
      BY <2>1 DEF Called
    <3>2. ch # c
      BY <1>1, <3>1 DEF Open, Unborn
    <3>3. ch # Listener => ch \in Conns
      BY <2>1 DEF TypeOK
    <3>4. QED
      BY <1>2, <3>1, <3>2, <3>3
  <2>2. QED
    BY <2>1 DEF Called
<1>8. /\ Distinct'
      /\ \A e \in Conns \ {c} : Alive(e)' => Alive(e)
  <2>1. ASSUME NEW e \in Conns, Alive(e)', e # c PROVE Alive(e) /\ conn[e].fd \in OpenFds
    <3>1. \/ e \in map' \cup users'
          \/ \E l \in Loops : e \in held[l] \/ \E f \in Jobs(l)' : f.conn = e
      BY <2>1, AliveMeans
    <3>2. \/ e \in map \cup users
          \/ \E l \in Loops : e \in held[l] \/ \E f \in Jobs(l) : f.conn = e
      BY <2>1, <3>1
    <3>3. Alive(e)
      BY <3>2, AliveMeans
    <3>4. QED
      BY <3>3 DEF OpenFds
  <2>2. QED
    BY <2>1 DEF Distinct
<1>9. Emptied' /\ Marked' /\ AssertsHold'
  <2>1. \A e \in shutting : e \in Conns \ {c}
    BY <1>1, BoundAssumption DEF TypeOK, Conns
  <2>2. Marked'
    BY <2>1 DEF Marked
  <2>3. QED
    BY <2>2 DEF Emptied, AssertsHold
<1>10. Begins(c)
  <2>1. Alive(c)'
    BY DEF Alive, HeldByLibrary
  <2>2. conn'[c].calls \in {0, 1}
    BY DEF Connecting, Open
  <2>3. QED
    BY <1>1, <1>8, <2>1, <2>2 DEF Begins
<1>11. QED
  BY <1>3, <1>4, <1>5, <1>6, <1>7, <1>8, <1>9, <1>10

LEMMA AcceptKeeps ==
  ASSUME IInv, failed = "no", Accept
  PROVE  IInv' /\ \E c \in Conns : Begins(c)
<1> USE DEF IInv
<1>1. /\ pc[Base] = "events" /\ active' = [active EXCEPT ![Base] = @ \ {Listener}]
      /\ server = "up" /\ waiting > 0 /\ waiting' = waiting - 1
      /\ UNCHANGED <<threadNum, server, left, shutting, pc, batch, held>>
  BY DEF Accept, Handling, farVars
<1>2. PICK d \in Fds \ OpenFds : NewConnection(d)
  BY DEF Accept
<1>3. PICK c : c = connectionId + 1
  OBVIOUS
<1>4. PICK r : r = [loop |-> NextLoop, fd |-> d, state |-> "CONNECTING", slot |-> "none",
                    calls |-> 0]
  OBVIOUS
<1>5. /\ connectionId' = c /\ turn' = Advance /\ map' = map \cup {c}
      /\ IF r.loop = Base
         THEN /\ AssertThat(EstablishedAsserts(r))
              /\ conn' = [conn EXCEPT ![c] = Established(r)]
              /\ users' \in {users, users \cup {c}}
              /\ UNCHANGED queue
         ELSE /\ conn' = [conn EXCEPT ![c] = r]
              /\ Post(r.loop, "established", c)
              /\ UNCHANGED <<users, failed>>
  BY <1>2, <1>3, <1>4 DEF NewConnection
<1>6. /\ MaxThreads \in Nat /\ MaxConns \in Nat
      /\ connectionId \in Nat /\ waiting \in Nat /\ waiting <= MaxConns - connectionId
  BY BoundAssumption DEF TypeOK
<1>7. /\ c \in Conns /\ c \in Nat /\ connectionId' \in 0..MaxConns
      /\ waiting' \in 0..(MaxConns - connectionId')
  BY <1>1, <1>3, <1>5, <1>6 DEF Conns
<1>8. ~Alive(c) /\ Unborn(c)
  <2>1. ~Alive(c)
    BY <1>3, <1>6, AliveBorn
  <2>2. QED
    BY <1>3, <1>6, <1>7, <2>1 DEF Staged, StageOf
<1>9. /\ NextLoop \in Loops
      /\ turn' \in 0..MaxThreads /\ (turn' < threadNum \/ turn' = 0)
  BY <1>5, <1>6 DEF NextLoop, Advance, Loops, Base, TypeOK
<1>10. r \in Connection /\ r.loop = NextLoop /\ r.fd = d /\ r.calls = 0
       /\ r.state = "CONNECTING" /\ r.slot = "none"
  BY <1>4, <1>9 DEF Connection
<1>11. /\ active' \in [Loops -> SUBSET (Conns \cup {Listener})]
       /\ \A l \in Loops : active'[l] \in SUBSET active[l]
  BY <1>1 DEF TypeOK
<1>12. \A l \in Loops : \A f \in Jobs(l) : f.conn # c
  BY <1>8 DEF Posted, JobFits, Unborn, Connecting, Closing
<1>13. 1..connectionId \in SUBSET (1..connectionId') /\ c \in 1..connectionId'
  BY <1>3, <1>5, <1>6
<1>14. users' \in SUBSET (users \cup {c}) /\ users \in SUBSET users'
  BY <1>5
<1>15. map' \subseteq 1..connectionId' /\ users' \subseteq 1..connectionId'
       /\ left' \subseteq 1..connectionId' /\ shutting' \subseteq users'
  BY <1>1, <1>5, <1>13, <1>14 DEF TypeOK
<1>16. CASE r.loop = Base
  <2>1. ASSUME NEW e \in Conns, Registered(e), conn[e].loop = Base PROVE conn[e].fd # d
    <3>1. pc[conn[e].loop] # "stopped"
      BY <1>1, <2>1
    <3>2. Alive(e)
      BY <2>1, <3>1, RegisteredAlive
    <3>3. QED
      BY <3>2 DEF OpenFds
  <2>2. EstablishedAsserts(r)
    BY <1>10, <1>16, <2>1 DEF EstablishedAsserts
  <2>3. failed' = "no"
    BY <1>5, <1>16, <2>2 DEF AssertThat
  <2>4. /\ Established(r) \in Connection
        /\ Established(r).loop = r.loop /\ Established(r).fd = d
        /\ Established(r).state = "CONNECTED" /\ Established(r).slot = "watched"
        /\ Established(r).calls = 1
    BY <1>10, EstablishedRecord
  <2>5. /\ conn' = [conn EXCEPT ![c] = Established(r)] /\ queue' = queue
        /\ conn'[c] = Established(r) /\ \A e \in Conns \ {c} : conn'[e] = conn[e]
    BY <1>5, <1>7, <1>16 DEF TypeOK
  <2>6. TypeOK'
    <3>1. conn' \in [Conns -> Connection]
      BY <2>4, <2>5 DEF TypeOK
    <3>2. QED
      BY <1>1, <1>7, <1>9, <1>11, <1>15, <2>3, <2>5, <3>1 DEF TypeOK
  <2>7. Open(c)'
    BY <1>5, <2>4, <2>5 DEF Open
  <2>8. \A l \in Loops :
          /\ Jobs(l)' = Jobs(l) /\ OneEach(queue'[l])
          /\ \A f \in Range(queue'[l]), g \in Range(batch[l]) : f.conn # g.conn
    BY <1>1, <2>5 DEF Posted, Jobs
  <2>9. QED
    BY <1>1, <1>3, <1>5, <1>7, <1>9, <1>10, <1>11, <1>14, <2>3, <2>4, <2>5, <2>6, <2>7, <2>8,
       AddedKeeps
<1>17. CASE r.loop # Base
  <2>1. /\ conn' = [conn EXCEPT ![c] = r] /\ Post(r.loop, "established", c)
        /\ failed' = "no"
        /\ conn'[c] = r /\ \A e \in Conns \ {c} : conn'[e] = conn[e]
    BY <1>5, <1>7, <1>17 DEF TypeOK
  <2>2. PICK m \in Loops : m = r.loop
    BY <1>9, <1>10
  <2>3. /\ queue' \in [Loops -> Seq(Functor)]
        /\ \A k \in Loops \ {m} : queue'[k] = queue[k]
        /\ Range(queue'[m]) = Range(queue[m]) \cup {[op |-> "established", conn |-> c]}
        /\ OneEach(queue[m]) /\ (\A g \in Range(queue[m]) : g.conn # c) => OneEach(queue'[m])
    <3>1. TypeOK /\ Post(m, "established", c)
      BY <2>1, <2>2
    <3>2. QED
      BY <1>7, <3>1, PostMeans
  <2>4. TypeOK'
    <3>1. conn' \in [Conns -> Connection]
      BY <1>10, <2>1 DEF TypeOK
    <3>2. QED
      BY <1>1, <1>7, <1>9, <1>11, <1>15, <2>1, <2>3, <3>1 DEF TypeOK
  <2>5. Connecting(c)'
    BY <1>5, <1>10, <1>17, <2>1 DEF Connecting
  <2>6. JobFits([op |-> "established", conn |-> c], m)'
    BY <2>1, <2>2, <2>5 DEF JobFits
  <2>7. ASSUME NEW l \in Loops
        PROVE  /\ \A f \in Jobs(l)' : f \in Jobs(l) \/ (f.conn = c /\ JobFits(f, l)')
               /\ \A f \in Jobs(l) : f \in Jobs(l)'
               /\ OneEach(queue'[l])
               /\ \A f \in Range(queue'[l]), g \in Range(batch[l]) : f.conn # g.conn
    <3>1. CASE l = m
      <4>1. OneEach(queue'[l])
        BY <1>12, <2>3, <3>1 DEF Posted, Jobs
      <4>2. \A f \in Range(queue'[l]), g \in Range(batch[l]) : f.conn # g.conn
        BY <1>12, <2>3, <3>1 DEF Posted, Jobs
      <4>3. \A f \in Jobs(l)' : f \in Jobs(l) \/ f = [op |-> "established", conn |-> c]
        BY <1>1, <2>3, <3>1 DEF Jobs
      <4>4. \A f \in Jobs(l) : f \in Jobs(l)'
        BY <1>1, <2>3, <3>1 DEF Jobs
      <4>5. QED
        BY <2>6, <3>1, <4>1, <4>2, <4>3, <4>4
    <3>2. CASE l # m
      <4>1. Jobs(l)' = Jobs(l) /\ queue'[l] = queue[l]
        BY <1>1, <2>3, <3>2 DEF Jobs
      <4>2. QED
        BY <4>1 DEF Posted
    <3>3. QED
      BY <3>1, <3>2
  <2>8. QED
    BY <1>1, <1>3, <1>5, <1>7, <1>9, <1>10, <1>11, <1>14, <2>1, <2>4, <2>5, <2>7, AddedKeeps
<1>18. QED
  BY <1>16, <1>17

(* ~TcpServer ends the program, or finds every connection of its map on its *)
(* own loop and connected, and destroys them all.                           *)
LEMMA DestroyServerKeeps ==
  ASSUME IInv, failed = "no", DestroyServer
  PROVE  IInv' /\ Continues
<1> USE DEF IInv
<1>1. /\ server' = IF pc[Base] = "run" THEN "gone" ELSE "torn"
      /\ pc[Base] \in {"run", "events"}
      /\ UNCHANGED <<threadNum, turn, connectionId, waiting, users, left, shutting, pc, active, batch,
                     held, queue>>
      /\ Base \in Loops
  BY BoundAssumption DEF DestroyServer, InFunctor, InCallback, acceptVars, farVars, loopVars, Base, Loops
<1>2. active[Base] # {} => server' = "torn"
  BY <1>1 DEF Phases
<1>3. \A l \in Loops : Jobs(l)' = Jobs(l)
  BY <1>1 DEF Jobs
<1>4. Phases'
  BY <1>1 DEF Phases
<1>5. CASE failed' = "no"
  <2>1. /\ conn' = [c \in Conns |-> IF c \in map THEN Destroyed(conn[c]) ELSE conn[c]]
        /\ map' = {} /\ failed' = "no" /\ DestructorAsserts
    BY <1>5 DEF DestroyServer
  <2>2. ASSUME NEW c \in map
        PROVE  /\ c \in Conns /\ Open(c) /\ Destroyed(conn[c]) \in Connection
               /\ Destroyed(conn[c]).loop = conn[c].loop /\ conn[c].loop = Base
               /\ Destroyed(conn[c]).fd = conn[c].fd
               /\ Destroyed(conn[c]).state = "DISCONNECTED"
               /\ Destroyed(conn[c]).slot = "removed"
               /\ Destroyed(conn[c]).calls = 2
    <3>1. c \in Conns
      BY BoundAssumption DEF TypeOK, Conns
    <3>2. conn[c] \in Connection /\ conn[c].loop = Base /\ Disabled(conn[c]).slot = "ignored"
      BY <2>1, <3>1 DEF DestructorAsserts, DestroyedAsserts, TypeOK
    <3>3. Open(c)
      <4>1. ~Unborn(c)
        BY BoundAssumption DEF Unborn, TypeOK
      <4>2. QED
        BY <3>1, <3>2, <4>1 DEF Staged, StageOf, Connecting, Closing, Gone, Stuck
    <3>4. Disabled(conn[c]) = Closed(conn[c]) /\ conn[c].calls = 1
      BY <3>2, <3>3 DEF Disabled, Open
    <3> DEFINE r == Closed(conn[c])
    <3>5. /\ r \in Connection /\ r.state = "DISCONNECTED" /\ r.loop = conn[c].loop
          /\ r.fd = conn[c].fd /\ r.calls = 2
      BY <3>2, <3>4, ClosedRecord
    <3>6. Destroyed(conn[c]) = [r EXCEPT !.slot = "removed"]
      BY <3>4 DEF Destroyed
    <3> HIDE DEF r
    <3>7. Destroyed(conn[c]) = Destroyed(r)
      BY <3>5, <3>6 DEF Destroyed, Disabled
    <3>8. QED
      BY <3>1, <3>2, <3>3, <3>5, <3>7, DestroyedRecord
  <2>3. \A c \in map : c \in Conns /\ conn'[c] = Destroyed(conn[c])
    BY <2>1, <2>2
  <2>4. \A c \in Conns \ map : conn'[c] = conn[c]
    BY <2>1
  <2>5. \A c \in Conns : conn'[c].fd = conn[c].fd /\ conn'[c].loop = conn[c].loop
    BY <2>2, <2>3, <2>4
  <2>6. TypeOK'
    <3>1. conn' \in [Conns -> Connection]
      BY <2>1, <2>2 DEF TypeOK
    <3>2. QED
      BY <1>1, <2>1, <3>1 DEF TypeOK
  <2>7. \A c \in map : Gone(c)' /\ ~Closing(c)'
    BY <2>1, <2>2, <2>3 DEF Gone, Closing
  <2>8. \A e \in Conns \ map :
          /\ Closing(e)' <=> Closing(e)
          /\ StageOf(e) => StageOf(e)'
          /\ \A f, l : f.conn = e => (JobFits(f, l)' <=> JobFits(f, l))
    BY <1>1, <2>1, <2>4, OtherKept
  <2>9. Staged'
    <3>1. ASSUME NEW c \in map PROVE StageOf(c)'
      <4>1. c <= connectionId /\ conn[c].loop \in Loops /\ conn[c].fd \in Fds
        BY <2>2 DEF Staged, StageOf, Unborn, Open
      <4>2. QED
        BY <1>1, <2>2, <2>5, <2>7, <4>1 DEF StageOf
    <3>2. QED
      BY <2>8, <3>1 DEF Staged
  <2>10. Posted'
    <3>1. ASSUME NEW l \in Loops, NEW f \in Jobs(l) PROVE JobFits(f, l)'
      <4>1. JobFits(f, l) /\ f.conn \in Conns
        BY JobType DEF Posted
      <4>2. f.conn \notin map
        BY <2>2, <4>1 DEF JobFits, Connecting, Closing, Open
      <4>3. QED
        BY <2>8, <4>1, <4>2
    <3>2. QED
      BY <1>1, <1>3, <3>1 DEF Posted
  <2>11. DestructionPosted'
    <3>1. ASSUME NEW c \in Conns, Closing(c)', pc[conn'[c].loop] # "stopped"
          PROVE  \E f \in Jobs(conn[c].loop)' : f.conn = c
      <4>1. Closing(c) /\ c \notin map
        BY <2>7, <2>8, <3>1
      <4>2. PICK l \in Loops : conn[c].loop = l
        BY <4>1 DEF Staged, StageOf, Unborn, Closing
      <4>3. PICK f \in Jobs(l) : f.conn = c
        BY <2>5, <3>1, <4>1, <4>2 DEF DestructionPosted
      <4>4. conn'[c].loop = l /\ f \in Jobs(l)'
        BY <1>3, <2>5, <4>2, <4>3
      <4>5. QED
        BY <4>3, <4>4
    <3>2. QED
      BY <1>1, <2>5, <3>1 DEF DestructionPosted
  <2>12. Called'
    <3>1. ASSUME NEW l \in Loops, NEW ch \in active[l]
          PROVE  /\ l = Base /\ server' = "torn"
                 /\ ch # Listener => conn'[ch].loop = l
      <4>1. CASE ch = Listener
        BY <1>2, <3>1, <4>1 DEF Called
      <4>2. CASE ch # Listener
        <5>1. ch \in Conns /\ conn[ch].loop = l /\ Open(ch)
          BY <2>1, <3>1, <4>2 DEF Called, TypeOK, DestructorAsserts
        <5>2. l = Base
          BY <2>2, <5>1 DEF Open
        <5>3. QED
          BY <1>2, <2>5, <5>1, <5>2
      <4>3. QED
        BY <4>1, <4>2
    <3>2. QED
      BY <1>1, <3>1 DEF Called
  <2>13. Distinct' /\ Continues
    <3>1. \A e : Alive(e)' => Alive(e)
      BY <1>1, <1>3, <2>1, <2>6, AliveMeans
    <3>2. ASSUME NEW c \in map
          PROVE  Alive(c) /\ conn'[c].calls = conn[c].calls + 1
      BY <2>2, <2>3 DEF Open, Alive, HeldByLibrary
    <3>3. Continues
      BY <2>4, <2>5, <3>1, <3>2 DEF Continues
    <3>4. QED
      BY <2>5, <2>6, <3>1, <3>3, DistinctKept
  <2>14. Emptied' /\ Marked' /\ AssertsHold'
    <3>1. Marked'
      BY <1>1, <2>2, <2>3, <2>4, BoundAssumption DEF Marked, TypeOK, Conns
    <3>2. QED
      BY <2>1, <3>1 DEF Emptied, AssertsHold
  <2>15. QED
    BY <1>4, <2>6, <2>9, <2>10, <2>11, <2>12, <2>13, <2>14
<1>6. CASE failed' # "no"
  <2>1. failed' = "destructor" /\ conn' = conn /\ map' = map
    BY <1>6 DEF DestroyServer
  <2>2. TypeOK'
    BY <1>1, <2>1 DEF TypeOK
  <2>3. \A e : /\ Open(e)' <=> Open(e)
               /\ Closing(e)' <=> Closing(e)
               /\ StageOf(e) => StageOf(e)'
               /\ \A f, l : f.conn = e => (JobFits(f, l)' <=> JobFits(f, l))
    BY <1>1, <2>1, OtherKept
  <2>4. Staged'
    BY <2>3 DEF Staged
  <2>5. Posted'
    <3>1. \A l \in Loops : \A f \in Jobs(l) : JobFits(f, l)'
      BY <2>3 DEF Posted
    <3>2. QED
      BY <1>1, <1>3, <3>1 DEF Posted
  <2>6. DestructionPosted'
    BY <1>1, <2>1, <2>3 DEF DestructionPosted, Jobs
  <2>7. Called'
    <3>1. ASSUME NEW l \in Loops, NEW ch \in active[l]
          PROVE  IF ch = Listener THEN l = Base /\ server' = "torn"
                 ELSE conn[ch].loop = l /\ (Open(ch) \/ (l = Base /\ server' = "torn"))
      BY <1>2, <3>1 DEF Called
    <3>2. QED
      BY <1>1, <2>1, <2>3, <3>1 DEF Called
  <2>8. Distinct' /\ Continues
    <3>1. \A e : Alive(e)' => Alive(e)
      BY <1>1, <1>3, <2>1, <2>2, AliveMeans
    <3>2. Continues
      BY <2>1, <3>1 DEF Continues
    <3>3. QED
      BY <2>1, <2>2, <3>1, <3>2, DistinctKept
  <2>9. Emptied' /\ Marked' /\ AssertsHold'
    BY <1>1, <2>1 DEF Emptied, Marked, AssertsHold
  <2>10. QED
    BY <1>4, <2>2, <2>4, <2>5, <2>6, <2>7, <2>8, <2>9
<1>7. QED
  BY <1>5, <1>6
-----------------------------------------------------------------------------
LEMMA StepKeeps ==
  ASSUME IInv, [Next]_vars
  PROVE  IInv' /\ (Continues \/ \E c \in Conns : Begins(c))
<1>1. CASE UNCHANGED vars
  <2>1. UNCHANGED <<threadNum, server, map, turn, connectionId, waiting, conn, users, left, shutting,
                    pc, active, batch, held, queue, failed>>
    BY <1>1 DEF vars, serverVars, farVars, acceptVars, loopVars
  <2>2. IInv'
    BY <2>1 DEF IInv, TypeOK, Staged, StageOf, Unborn, Connecting, Open, Closing, Gone, Posted,
       Stuck, Jobs, JobFits, DestructionPosted, Phases, Called, Emptied, Distinct, Alive,
       HeldByLibrary, InFunctors, Marked, AssertsHold, Reopened
  <2>3. Continues
    BY <2>1 DEF Continues, Alive, HeldByLibrary, InFunctors
  <2>4. QED
    BY <2>2, <2>3
<1>2. CASE UserStep
  <2>1. /\ failed = "no"
        /\ \/ Start \/ DestroyServer \/ ClientArrives \/ ClientGivesUp
           \/ \E c \in Conns : \/ Release(c) \/ Shutdown(c) \/ ShutdownCheck(c)
                               \/ ShutdownStore(c) \/ Send(c) \/ PeerLeaves(c)
           \/ \E l \in Loops : StopLoop(l)
    BY <1>2 DEF UserStep
  <2>2. CASE \/ Start \/ ClientArrives \/ ClientGivesUp
             \/ \E c \in Conns : Release(c) \/ PeerLeaves(c) \/ ShutdownCheck(c)
    BY <2>1, <2>2, QuietSteps
  <2>3. CASE DestroyServer
    BY <2>1, <2>3, DestroyServerKeeps
  <2>4. CASE \E c \in Conns : Shutdown(c) \/ ShutdownStore(c)
    BY <2>1, <2>4, ShutdownKeeps
  <2>5. CASE \E c \in Conns : Send(c)
    BY <2>1, <2>5, SendKeeps
  <2>6. CASE \E l \in Loops : StopLoop(l)
    BY <2>1, <2>6, QueueSteps
  <2>7. QED
    BY <2>1, <2>2, <2>3, <2>4, <2>5, <2>6
<1>3. ASSUME NEW l \in Loops, LoopStep(l)
      PROVE  IInv' /\ (Continues \/ \E c \in Conns : Begins(c))
  <2>1. /\ failed = "no"
        /\ \/ Poll(l) \/ TakeBatch(l) \/ EndBatch(l)
           \/ l = Base /\ (Accept \/ AcceptFails)
           \/ \E ch \in active[l] : \/ HandleClose(l, ch) \/ HandleDangling(l, ch)
                                    \/ l = Base /\ HandleCloseReopens(ch)
           \/ \E c \in Conns : \/ ConnectionEstablished(l, c) \/ ConnectionDestroyed(l, c)
                               \/ RemoveConnectionInLoop(l, c)
    BY <1>3 DEF LoopStep
  <2>2. CASE Poll(l) \/ EndBatch(l) \/ AcceptFails \/ \E ch \in active[l] : HandleDangling(l, ch)
    BY <2>1, <2>2, QuietSteps
  <2>3. CASE TakeBatch(l)
    BY <2>1, <2>3, QueueSteps
  <2>4. CASE Accept
    BY <2>1, <2>4, AcceptKeeps
  <2>5. CASE \E ch \in active[l] : HandleClose(l, ch)
    BY <2>1, <2>5, CloseKeeps
  <2>6. CASE \E c \in Conns : ConnectionEstablished(l, c)
    BY <2>1, <2>6, EstablishedKeeps
  <2>7. CASE \E c \in Conns : ConnectionDestroyed(l, c)
    BY <2>1, <2>7, DestroyedKeeps
  <2>8. CASE \E c \in Conns : RemoveConnectionInLoop(l, c)
    BY <2>1, <2>8, RemoveKeeps
  <2>9. CASE l = Base /\ \E ch \in active[l] : HandleCloseReopens(ch)
    BY <2>1, <2>9, ReopensKeeps
  <2>10. QED
    BY <2>1, <2>2, <2>3, <2>4, <2>5, <2>6, <2>7, <2>8, <2>9
<1>4. QED
  BY <1>1, <1>2, <1>3 DEF Next

LEMMA Inductive == Spec => []IInv
<1>1. IInv /\ [Next]_vars => IInv'
  BY StepKeeps
<1>2. QED
  BY <1>1, InitEstablishes, PTL DEF Spec

(* What the invariant says of a connection as a session.                    *)
LEMMA SessionOf ==
  ASSUME IInv, NEW c \in Conns
  PROVE  /\ conn[c].calls \in 0..2
         /\ Alive(c) => conn[c].fd \in Fds /\ Desc(c) = conn[c].fd
         /\ ~Alive(c) => Desc(c) = None
         /\ ~Alive(c) /\ conn[c].fd \in Fds => conn[c].calls = 2
<1> USE DEF IInv
<1>1. conn[c] \in Connection /\ connectionId \in Nat
  BY BoundAssumption DEF TypeOK
<1>2. ASSUME Alive(c) PROVE conn[c].fd \in Fds
  <2>1. c \in 1..connectionId
    BY <1>2, AliveBorn
  <2>2. QED
    BY <1>1, <2>1 DEF Staged, StageOf, Unborn
<1>3. ASSUME ~Alive(c), conn[c].fd \in Fds PROVE conn[c].calls = 2
  <2>1. ~Unborn(c) /\ c \notin map
    BY <1>3, NoneAssumption DEF Unborn, Alive, HeldByLibrary
  <2>2. QED
    BY <2>1 DEF Staged, StageOf, Connecting, Open, Closing, Gone, Stuck
<1>4. QED
  BY <1>1, <1>2, <1>3 DEF Connection, Desc

LEMMA StepRefines ==
  ASSUME IInv, IInv', [Next]_vars
  PROVE  S!Next
<1> DEFINE calls == [c \in Conns |-> conn[c].calls]
           desc  == [c \in Conns |-> Desc(c)]
<1>1. ASSUME NEW c \in Conns
      PROVE  /\ calls[c] = conn[c].calls /\ calls'[c] = conn'[c].calls /\ calls'[c] \in 0..2
             /\ Alive(c)  => desc[c] = conn[c].fd /\ conn[c].fd \in Fds
             /\ Alive(c)' => desc'[c] = conn'[c].fd /\ conn'[c].fd \in Fds
             /\ ~Alive(c)  => desc[c] = None
             /\ ~Alive(c)' => desc'[c] = None /\ (conn'[c].fd \in Fds => calls'[c] = 2)
  <2>1. /\ Alive(c) => conn[c].fd \in Fds /\ Desc(c) = conn[c].fd
        /\ ~Alive(c) => Desc(c) = None
    BY SessionOf
  <2>2. (/\ conn[c].calls \in 0..2
         /\ Alive(c) => conn[c].fd \in Fds /\ Desc(c) = conn[c].fd
         /\ ~Alive(c) => Desc(c) = None
         /\ ~Alive(c) /\ conn[c].fd \in Fds => conn[c].calls = 2)'
    BY SessionOf, PTL
  <2>3. QED
    BY <2>1, <2>2
<1>2. calls' \in [Conns -> 0..2] /\ desc' \in [Conns -> Fds \cup {None}]
  <2>1. \A c \in Conns : calls'[c] \in 0..2 /\ desc'[c] \in Fds \cup {None}
    BY <1>1
  <2>2. QED
    BY <2>1
<1>3. None \notin Fds
  BY NoneAssumption
<1>4. ASSUME Continues, NEW c \in Conns
      PROVE  /\ calls'[c] # calls[c] => S!CallBack(c)
             /\ desc'[c] # desc[c] => S!Open(c) \/ S!Close(c)
  <2>1. /\ Alive(c)' => Alive(c)
        /\ conn'[c].fd = conn[c].fd
        /\ conn'[c].calls # conn[c].calls => Alive(c) /\ conn'[c].calls = conn[c].calls + 1
    BY <1>4 DEF Continues
  <2>2. calls'[c] # calls[c] => calls'[c] = calls[c] + 1 /\ desc[c] # None
    BY <1>1, <1>3, <2>1
  <2>3. desc'[c] # desc[c] => desc'[c] = None /\ calls'[c] = 2
    BY <1>1, <2>1
  <2>4. QED
    BY <2>2, <2>3 DEF S!CallBack, S!Close
<1>5. ASSUME NEW b \in Conns, Begins(b), NEW c \in Conns
      PROVE  /\ calls'[c] # calls[c] => S!CallBack(c)
             /\ desc'[c] # desc[c] => S!Open(c) \/ S!Close(c)
  <2>1. CASE c = b
    <3>1. /\ calls[b] = 0 /\ calls'[b] \in {0, 1}
          /\ desc[b] = None /\ desc'[b] = conn'[b].fd /\ conn'[b].fd \in Fds \ OpenFds
      BY <1>1, <1>5 DEF Begins, Unborn
    <3>2. \A e \in Conns : desc[e] # desc'[b]
      BY <1>1, <1>3, <3>1 DEF OpenFds
    <3>3. QED
      BY <1>3, <2>1, <3>1, <3>2 DEF S!CallBack, S!Open
  <2>2. CASE c # b
    <3>1. conn'[c] = conn[c] /\ (Alive(c)' => Alive(c))
      BY <1>5, <2>2 DEF Begins
    <3>2. calls'[c] = calls[c] /\ (desc'[c] # desc[c] => desc'[c] = None /\ calls'[c] = 2)
      BY <1>1, <3>1
    <3>3. QED
      BY <3>2 DEF S!Close
  <2>3. QED
    BY <2>1, <2>2
<1>6. QED
  BY <1>2, <1>4, <1>5, StepKeeps DEF S!Next
-----------------------------------------------------------------------------
(* Type correctness.                                                        *)
THEOREM TypeCorrect == Spec => []TypeOK
<1>1. IInv => TypeOK
  BY DEF IInv
<1>2. QED
  BY <1>1, Inductive, PTL

(* However connections, descriptors and threads interleave, an assert other *)
(* than ~TcpServer's own fails, or something is called that is gone, only   *)
(* if the server was destroyed in a callback of its loop's, or a Shutdown   *)
(* on another thread marked a connection that had been closed.              *)
THEOREM AssertsSafe == Spec => []AssertsHold
<1>1. IInv => AssertsHold
  BY DEF IInv
<1>2. QED
  BY <1>1, Inductive, PTL

(* No descriptor is closed whose channel a running loop polls or is about   *)
(* to call.                                                                 *)
THEOREM RegisteredSafe == Spec => []RegisteredExists
<1>1. ASSUME IInv PROVE RegisteredExists
  <2>1. ASSUME NEW l \in Loops, server # "torn", NEW c \in active[l] \cap Conns PROVE Alive(c)
    <3>1. c # Listener
      BY DEF Conns, Listener
    <3>2. Open(c)
      BY <1>1, <2>1, <3>1 DEF IInv, Called
    <3>3. QED
      BY <3>2 DEF Open, Alive, HeldByLibrary
  <2>2. QED
    BY <1>1, <2>1, RegisteredAlive DEF RegisteredExists
<1>2. QED
  BY <1>1, Inductive, PTL

(* Connections come and go as sessions do: no descriptor is shared or       *)
(* closed early, and every user is called back when its connection is       *)
(* established and when it is gone.                                         *)
THEOREM ImplementsSessions == Spec => Implements
<1>1. ASSUME Init PROVE S!Init
  <2>1. \A c \in Conns : conn[c].calls = 0 /\ conn[c].fd = None
    BY <1>1 DEF Init
  <2>2. QED
    BY <2>1 DEF S!Init, Desc
<1>2. IInv /\ IInv' /\ [Next]_vars => [S!Next]_S!vars
  BY StepRefines
<1>3. QED
  BY <1>1, <1>2, Inductive, PTL DEF Spec, Implements, S!Spec
=============================================================================
