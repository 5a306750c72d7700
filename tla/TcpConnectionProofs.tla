------------------------- MODULE TcpConnectionProofs -------------------------
(* Theorems about TcpConnection, for any number of threads and any lengths. *)
EXTENDS TcpConnection, SequenceTheorems, TLAPS

(* The functor that will remove the channel has been posted.                *)
Doomed == \E f \in Range(pending) : f.op = "destroyed"

OneDestroyed(q) ==
  \A i, j \in DOMAIN q : q[i].op = "destroyed" /\ q[j].op = "destroyed" => i = j

(* Nothing has happened to a connection that is not established yet.        *)
Fresh ==
  state = "CONNECTING" =>
    /\ pending = <<[op |-> "established"]>> /\ events = {} /\ pc = "loop"
    /\ output = <<>> /\ wire = <<>> /\ server # "asked"
    /\ \A t \in Callers : shutting[t] = "no"

Posted ==
  \A f \in Range(pending) : /\ f.op = "established" => state = "CONNECTING"
                            /\ f.op = "send" => f.data # <<>>

(* Events are being dispatched, and those that are left to dispatch have    *)
(* still their reason.                                                      *)
Dispatching ==
  /\ pc \in {"loop", "established", "destroyed"} => revents = {}
  /\ "hup" \in revents => peer # "open"
  /\ "in" \in revents => inbox > 0 \/ peer # "open"

(* A channel stops being polled only because the peer left or the server    *)
(* may die.                                                                 *)
Closes == \/ pc \in {"closed", "destroyed"} \/ slot \in {"ignored", "removed"}
          \/ server # "mapped" \/ Doomed
Left   == Closes => peer # "open" \/ setup.dies

Up == state = "CONNECTED" => slot = "watched"

(* A careful use: what is done and what is still to be done at each stage   *)
(* between the end of the stream and the removal of the channel.            *)
Staged ==
  /\ ~failed
  /\ setup.dies => state # "DISCONNECTING"
  /\ \A t \in Callers : shutting[t] = "no"
  /\ OneDestroyed(pending)
  /\ state = "DISCONNECTED" <=> slot \in {"ignored", "removed"}
  /\ state # "DISCONNECTED" => server = "mapped" /\ ~Doomed /\ pc \notin {"closed", "destroyed"}
  /\ state = "DISCONNECTED" => /\ events = {} /\ "in" \notin revents /\ "hup" \notin revents
                               /\ pc \in {"loop", "events", "closed", "destroyed"}
  /\ slot = "ignored" =>
       \/ pc = "closed" /\ server = "mapped" /\ ~Doomed
       \/ pc = "destroyed" /\ server = "erased" /\ ~Doomed
       \/ pc \in {"loop", "events"} /\ setup.pooled /\ server = "asked" /\ ~Doomed
       \/ pc \in {"loop", "events"} /\ setup.pooled /\ server = "erased" /\ Doomed
  /\ slot = "removed" => pc \in {"loop", "events"} /\ server = "erased" /\ ~Doomed

IInv == /\ TypeOK /\ Fresh /\ Posted /\ Dispatching /\ Left /\ Up
        /\ WritingIffOutput /\ OutputKept /\ (Careful => Staged)
-----------------------------------------------------------------------------
(* The queue of functors.                                                   *)
LEMMA PendingAppend ==
  ASSUME NEW q \in Seq(Functor), NEW f \in Functor
  PROVE  /\ Append(q, f) \in Seq(Functor)
         /\ Range(Append(q, f)) = Range(q) \cup {f}
         /\ OneDestroyed(q) /\ (f.op # "destroyed" \/ \A g \in Range(q) : g.op # "destroyed")
              => OneDestroyed(Append(q, f))
<1> DEFINE n == Len(q)
<1>1. n \in Nat /\ DOMAIN q = 1..n
  BY LenProperties
<1>2. /\ Append(q, f) \in Seq(Functor) /\ DOMAIN Append(q, f) = 1..(n + 1)
      /\ \A i \in 1..n : Append(q, f)[i] = q[i]
      /\ Append(q, f)[n + 1] = f
  BY <1>1, AppendProperties, LenProperties
<1>3. Range(Append(q, f)) = Range(q) \cup {f}
  BY <1>1, <1>2 DEF Range
<1>4. ASSUME OneDestroyed(q), f.op # "destroyed" \/ \A g \in Range(q) : g.op # "destroyed"
      PROVE  OneDestroyed(Append(q, f))
  <2>1. f.op # "destroyed" \/ \A i \in 1..n : q[i].op # "destroyed"
    BY <1>1, <1>4 DEF Range
  <2>2. QED
    BY <1>1, <1>2, <1>4, <2>1 DEF OneDestroyed
<1>5. QED
  BY <1>2, <1>3, <1>4

LEMMA PendingTail ==
  ASSUME NEW q \in Seq(Functor), q # <<>>
  PROVE  /\ Head(q) \in Functor /\ Head(q) \in Range(q) /\ Tail(q) \in Seq(Functor)
         /\ Range(Tail(q)) \subseteq Range(q)
         /\ OneDestroyed(q) =>
              /\ OneDestroyed(Tail(q))
              /\ Head(q).op = "destroyed" => \A g \in Range(Tail(q)) : g.op # "destroyed"
              /\ \A g \in Range(q) : g.op = "destroyed" /\ Head(q).op # "destroyed"
                                       => g \in Range(Tail(q))
<1> DEFINE n == Len(q)
<1>1. n \in Nat /\ n > 0 /\ DOMAIN q = 1..n /\ Head(q) = q[1]
  BY LenProperties, EmptySeq
<1>2. /\ Head(q) \in Functor /\ Tail(q) \in Seq(Functor)
      /\ DOMAIN Tail(q) = 1..(n - 1)
      /\ \A i \in 1..(n - 1) : Tail(q)[i] = q[i + 1]
  BY <1>1, HeadTailProperties, LenProperties
<1>3. ASSUME NEW g \in Range(Tail(q)) PROVE g \in Range(q)
  <2>1. PICK i \in 1..(n - 1) : Tail(q)[i] = g
    BY <1>2, <1>3 DEF Range
  <2>2. i + 1 \in DOMAIN q /\ q[i + 1] = g
    BY <1>1, <1>2, <2>1
  <2>3. QED
    BY <2>2 DEF Range
<1>4. ASSUME NEW g \in Range(q), g # Head(q) PROVE g \in Range(Tail(q))
  <2>1. PICK i \in 1..n : q[i] = g /\ i # 1
    BY <1>1, <1>4 DEF Range
  <2>2. i - 1 \in DOMAIN Tail(q) /\ Tail(q)[i - 1] = g
    BY <1>1, <1>2, <2>1
  <2>3. QED
    BY <2>2 DEF Range
<1>5. ASSUME OneDestroyed(q)
      PROVE  /\ OneDestroyed(Tail(q))
             /\ Head(q).op = "destroyed" => \A g \in Range(Tail(q)) : g.op # "destroyed"
  <2>1. ASSUME NEW i \in 1..(n - 1), NEW j \in 1..(n - 1),
               Tail(q)[i].op = "destroyed", Tail(q)[j].op = "destroyed"
        PROVE  i = j
    <3>1. i + 1 = j + 1
      BY <1>1, <1>2, <1>5, <2>1 DEF OneDestroyed
    <3>2. QED
      BY <3>1
  <2>2. Head(q).op = "destroyed" => \A i \in 1..(n - 1) : Tail(q)[i].op # "destroyed"
    BY <1>1, <1>2, <1>5 DEF OneDestroyed
  <2>3. QED
    BY <1>2, <2>1, <2>2 DEF OneDestroyed, Range
<1>6. Head(q) \in Range(q)
  BY <1>1 DEF Range
<1>7. QED
  BY <1>2, <1>3, <1>4, <1>5, <1>6
-----------------------------------------------------------------------------
(* The output.                                                              *)
LEMMA QueueMeans ==
  ASSUME TypeOK, NEW data \in Seq(Byte), NEW n \in 0..Len(data), Queue(data, n)
  PROVE  /\ wire' \in Seq(Byte) /\ output' \in Seq(Byte)
         /\ output' = <<>> <=> output = <<>> /\ n = Len(data)
<1> USE DEF TypeOK
<1>1. /\ Len(data) \in Nat /\ \A i \in 1..Len(data) : data[i] \in Byte
      /\ \A i \in 1..n : data[i] \in Byte
      /\ \A i \in (n + 1)..Len(data) : data[i] \in Byte
      /\ 1 \in Int /\ n \in Int /\ n + 1 \in Int /\ Len(data) \in Int
  BY LenProperties, ElementOfSeq
<1>2. SubSeq(data, 1, n) \in Seq(Byte)
  BY <1>1, SubSeqProperties
<1>3. wire' \in Seq(Byte)
  BY <1>2, ConcatProperties DEF Queue
<1>4. /\ SubSeq(data, n + 1, Len(data)) \in Seq(Byte)
      /\ Len(SubSeq(data, n + 1, Len(data)))
           = IF n + 1 <= Len(data) THEN Len(data) - (n + 1) + 1 ELSE 0
  BY <1>1, SubSeqProperties
<1>5. PICK r \in Seq(Byte) : r = SubSeq(data, n + 1, Len(data)) /\ Len(r) = Len(data) - n
  <2>1. (IF n + 1 <= Len(data) THEN Len(data) - (n + 1) + 1 ELSE 0) = Len(data) - n
    BY <1>1
  <2>2. QED
    BY <1>4, <2>1, Zenon
<1>6. output' \in Seq(Byte) /\ Len(output') = Len(output) + Len(r)
  BY <1>5, ConcatProperties DEF Queue
<1>7. output' = <<>> <=> Len(output') = 0
  BY <1>6, EmptySeq, LenProperties
<1>8. output = <<>> <=> Len(output) = 0
  BY EmptySeq, LenProperties
<1>9. QED
  BY <1>1, <1>3, <1>5, <1>6, <1>7, <1>8, LenProperties

(* What SendInLoop does, from a state in which the connection is up or has  *)
(* been.                                                                    *)
LEMMA SendMeans ==
  ASSUME IInv, state # "CONNECTING", NEW data \in Seq(Byte), data # <<>>, SendInLoop(data),
         setup' = setup
  PROVE  /\ wire' \in Seq(Byte) /\ output' \in Seq(Byte) /\ shut' = shut
         /\ killed' \in BOOLEAN /\ (peer' = peer \/ (peer = "reset" /\ peer' = "dead"))
         /\ slot' = slot /\ events' \in {events, events \cup {"out"}}
         /\ failed' \in {failed, slot = "removed"}
         /\ state = "DISCONNECTED" => UNCHANGED <<events, failed>>
         /\ WritingIffOutput' /\ OutputKept'
<1> USE DEF IInv, TypeOK
<1>1. shut' = shut
  BY DEF SendInLoop
<1>0. killed' \in BOOLEAN /\ (peer' = peer \/ (peer = "reset" /\ peer' = "dead"))
  <2>1. ASSUME UNCHANGED <<killed, peer>> \/ WriteError
        PROVE  killed' \in BOOLEAN /\ (peer' = peer \/ (peer = "reset" /\ peer' = "dead"))
    BY <2>1 DEF WriteError
  <2>2. QED
    BY <2>1 DEF SendInLoop, Queue
<1>2. CASE GiveUp /\ (state = "DISCONNECTED" \/ WritesDirectly)
  BY <1>0, <1>1, <1>2 DEF GiveUp, chanVars, WritingIffOutput, OutputKept, Writing
<1>3. ASSUME NEW n \in 0..Len(data), Queue(data, n), state # "DISCONNECTED",
             IF WritesDirectly THEN ~WriteFails ELSE n = 0
      PROVE  /\ wire' \in Seq(Byte) /\ output' \in Seq(Byte)
             /\ slot' = slot /\ events' \in {events, events \cup {"out"}}
             /\ failed' \in {failed, slot = "removed"}
             /\ WritingIffOutput' /\ OutputKept'
  <2>1. /\ wire' \in Seq(Byte) /\ output' \in Seq(Byte)
        /\ output' = <<>> <=> output = <<>> /\ n = Len(data)
    BY <1>3, QueueMeans
  <2>2. IF n < Len(data) /\ ~Writing
        THEN events' = events \cup {"out"} /\ failed' = (slot = "removed") /\ slot' = slot
        ELSE events' = events /\ failed' = failed /\ slot' = slot
    BY <1>3 DEF Queue, EnableWriting, chanVars
  <2>3. Len(data) \in Nat /\ Len(data) > 0
    BY LenProperties, EmptySeq
  <2>4. WritingIffOutput'
    BY <1>3, <2>1, <2>2, <2>3 DEF WritingIffOutput, Writing, WritesDirectly
  <2>5. ASSUME output' # <<>>, slot' = "watched" PROVE ~shut
    BY <1>3, <2>1, <2>2, <2>3, <2>5 DEF WritingIffOutput, OutputKept, Writing, WritesDirectly, WriteFails
  <2>6. slot # "watched" => peer # "open" \/ setup.dies
    BY DEF Left, Closes
  <2>7. OutputKept'
    BY <1>0, <1>1, <2>2, <2>5, <2>6 DEF OutputKept
  <2>8. QED
    BY <2>1, <2>2, <2>4, <2>7
<1>4. QED
  <2>1. CASE state = "DISCONNECTED" \/ (WritesDirectly /\ WriteFails)
    <3>1. GiveUp
      BY <2>1 DEF SendInLoop
    <3>2. QED
      BY <1>0, <1>1, <1>2, <2>1, <3>1 DEF GiveUp, chanVars
  <2>2. CASE state # "DISCONNECTED" /\ ~(WritesDirectly /\ WriteFails)
    <3>1. 0 \in 0..Len(data)
      BY LenProperties
    <3>2. PICK n \in 0..Len(data) :
            Queue(data, n) /\ (IF WritesDirectly THEN ~WriteFails ELSE n = 0)
      BY <2>2, <3>1 DEF SendInLoop
    <3>3. QED
      BY <1>0, <1>1, <1>3, <2>2, <3>2
  <2>3. QED
    BY <2>1, <2>2

(* What Send passes: a message, of the bytes counted next.                  *)
LEMMA MessageMeans ==
  ASSUME TypeOK, NEW t \in Threads, Counted(t)
  PROVE  NextBytes(t) \in Seq(Byte) /\ NextBytes(t) # <<>>
<1>1. MsgLen \in Nat \ {0} /\ sent[t] \in Nat /\ MaxSent[t] \in Nat
      /\ sent[t] + MsgLen <= MaxSent[t]
  BY BoundAssumption DEF TypeOK, Counted
<1>2. \A i \in 1..MsgLen : <<t, sent[t] + i>> \in Byte
  <2>1. \A i \in 1..MsgLen : sent[t] + i \in 1..MaxSent[t]
    BY <1>1
  <2>2. QED
    BY <2>1 DEF Byte
<1>3. NextBytes(t) \in [1..MsgLen -> Byte]
  BY <1>2 DEF NextBytes
<1>4. NextBytes(t) \in Seq(Byte) /\ Len(NextBytes(t)) = MsgLen
  BY <1>1, <1>3, LenProperties, SeqDef
<1>5. QED
  BY <1>1, <1>4, EmptySeq

-----------------------------------------------------------------------------
(* The initial state and the steps.                                         *)
LEMMA InitInv == Init => IInv
<1> SUFFICES ASSUME Init PROVE IInv
  OBVIOUS
<1> USE DEF Init
<1>1. /\ pending \in Seq(Functor) /\ DOMAIN pending = 1..1
      /\ pending[1] = [op |-> "established"] /\ Range(pending) = {[op |-> "established"]}
  BY DEF Functor, Range
<1>2. TypeOK
  <2>1. output \in Seq(Byte) /\ wire \in Seq(Byte)
    OBVIOUS
  <2>2. sent \in [Threads -> Nat] /\ \A t \in Threads : sent[t] <= MaxSent[t]
    BY BoundAssumption
  <2>3. shutting \in [Callers -> {"no", "checked", "stored"}] /\ inbox \in 0..MaxInbox
    BY BoundAssumption
  <2>4. QED
    BY <1>1, <2>1, <2>2, <2>3 DEF TypeOK, States
<1>3. ~Doomed /\ OneDestroyed(pending)
  BY <1>1 DEF Doomed, OneDestroyed
<1>4. Fresh /\ Posted /\ Dispatching /\ Left /\ Up
  BY <1>1, <1>3 DEF Fresh, Posted, Dispatching, Left, Closes, Up
<1>5. WritingIffOutput /\ OutputKept
  BY DEF WritingIffOutput, OutputKept
<1>6. Staged
  BY <1>3 DEF Staged
<1>7. QED
  BY <1>2, <1>4, <1>5, <1>6 DEF IInv

(* A closed or established connection is beyond CONNECTING.                 *)
LEMMA Awake ==
  ASSUME IInv, InUserCode \/ pc # "loop" \/ slot # "none"
  PROVE  state # "CONNECTING"
  BY DEF IInv, TypeOK, Fresh, InUserCode, Callbacks

LEMMA ErrorStep == ASSUME IInv, HandleError PROVE IInv'
<1> USE DEF IInv, HandleError, chanVars, streamVars, usageVars
<1>1. TypeOK'
  BY DEF TypeOK
<1>2. (Fresh /\ Posted /\ Dispatching /\ Left /\ Up)'
  BY DEF TypeOK, Fresh, Posted, Dispatching, Left, Closes, Up, Doomed
<1>3. (WritingIffOutput /\ OutputKept)'
  BY DEF TypeOK, WritingIffOutput, OutputKept, Writing
<1>4. (Careful => Staged)'
  BY DEF TypeOK, Staged, Careful, Doomed, OneDestroyed
<1>5. QED
  BY <1>1, <1>2, <1>3, <1>4

(* HandleClose and what its two callers do besides.                         *)
LEMMA CloseStep ==
  ASSUME IInv, ~failed, HandleClose, pc = "events", peer # "open",
         revents \subseteq {"hup", "in", "out"}, revents' = revents \ {"hup", "in"},
         "hup" \in revents \/ "in" \in revents,
         UNCHANGED <<streamVars, pending, usageVars, sent, peerVars>>
  PROVE  IInv'
<1> USE DEF IInv, HandleClose, DisableAll, streamVars, usageVars, peerVars
<1>1. TypeOK'
  BY DEF TypeOK, States, Callbacks
<1>2. state # "CONNECTING"
  BY Awake
<1>3. (Fresh /\ Posted /\ Dispatching /\ Left /\ Up)'
  BY <1>2 DEF TypeOK, Fresh, Posted, Dispatching, Left, Closes, Up, Doomed
<1>4. (WritingIffOutput /\ OutputKept)'
  BY DEF TypeOK, WritingIffOutput, OutputKept, Writing
<1>5. (Careful => Staged)'
  BY <1>2 DEF TypeOK, States, Staged, Careful, Doomed, OneDestroyed
<1>6. QED
  BY <1>1, <1>3, <1>4, <1>5

LEMMA HangUpStep == ASSUME IInv, ~failed, HandleHangUp PROVE IInv'
<1>1. peer # "open" /\ revents \subseteq {"hup", "in", "out"}
  BY DEF HandleHangUp, IInv, Dispatching, TypeOK
<1>2. QED
  BY <1>1, CloseStep DEF HandleHangUp

LEMMA ReadStep == ASSUME IInv, ~failed, HandleRead PROVE IInv'
<1> USE DEF IInv
<1>1. revents \subseteq {"hup", "in", "out"} /\ (inbox > 0 \/ peer # "open") /\ inbox \in Nat
  BY BoundAssumption DEF HandleRead, Dispatching, TypeOK
<1>2. state # "CONNECTING"
  BY Awake DEF HandleRead
<1>3. CASE peer # "reset" /\ inbox = 0
  BY <1>1, <1>3, CloseStep DEF HandleRead, peerVars
<1>4. CASE peer = "reset" \/ inbox > 0
  <2> USE <1>1, <1>2, <1>4 DEF HandleRead, chanVars, streamVars, usageVars, peerVars
  <2>1. /\ inbox' \in 0..MaxInbox /\ peer' \in {"open", "closed", "reset", "broken", "dead"}
        /\ pc' \in {"events", "message"}
        /\ UNCHANGED <<setup, state, events, slot, output, pending, shutting, server, failed,
                       sent, wire, shut, killed>>
        /\ revents' = revents \ {"in", "hup"}
    BY BoundAssumption DEF TypeOK
  <2>6. TypeOK'
    BY <2>1 DEF TypeOK, Callbacks
  <2>2. (Fresh /\ Posted /\ Dispatching /\ Left /\ Up)'
    BY DEF TypeOK, Fresh, Posted, Dispatching, Left, Closes, Up, Doomed
  <2>3. (WritingIffOutput /\ OutputKept)'
    BY DEF TypeOK, WritingIffOutput, OutputKept, Writing
  <2>4. (Careful => Staged)'
    BY DEF TypeOK, States, Staged, Careful, Doomed, OneDestroyed
  <2>5. QED
    BY <2>2, <2>3, <2>4, <2>6
<1>5. QED
  BY <1>1, <1>3, <1>4

LEMMA HandledStep == ASSUME IInv, ~failed, HandledEvents PROVE IInv'
<1> USE DEF IInv, HandledEvents, chanVars, streamVars, usageVars, peerVars
<1>0. state # "CONNECTING"
  BY Awake DEF Callbacks
<1>1. TypeOK'
  BY <1>0 DEF TypeOK, Callbacks, States
<1>2. (Fresh /\ Posted /\ Dispatching /\ Left /\ Up)'
  BY <1>0 DEF TypeOK, Fresh, Posted, Dispatching, Left, Closes, Up, Doomed
<1>3. (WritingIffOutput /\ OutputKept)'
  BY <1>0 DEF TypeOK, WritingIffOutput, OutputKept, Writing
<1>4. (Careful => Staged)'
  BY <1>0 DEF TypeOK, States, Staged, Careful, Doomed, OneDestroyed
<1>5. QED
  BY <1>1, <1>2, <1>3, <1>4

LEMMA ReturnStep == ASSUME IInv, ~failed, Return PROVE IInv'
<1> USE DEF IInv, Return, chanVars, streamVars, usageVars, peerVars
<1>0. state # "CONNECTING"
  BY Awake DEF Callbacks
<1>1. TypeOK'
  BY <1>0 DEF TypeOK, Callbacks, States, Dispatching
<1>2. (Fresh /\ Posted /\ Dispatching /\ Left /\ Up)'
  BY <1>0 DEF TypeOK, Fresh, Posted, Dispatching, Left, Closes, Up, Doomed
<1>3. (WritingIffOutput /\ OutputKept)'
  BY <1>0 DEF TypeOK, WritingIffOutput, OutputKept, Writing
<1>4. (Careful => Staged)'
  BY <1>0 DEF TypeOK, States, Staged, Careful, Doomed, OneDestroyed
<1>5. QED
  BY <1>1, <1>2, <1>3, <1>4

LEMMA ClosedStep == ASSUME IInv, ~failed, Closed PROVE IInv'
<1> USE DEF IInv
<1>0. state # "CONNECTING"
  BY Awake DEF Closed, Callbacks
<1>1. TypeOK'
  <2>1. failed' \in BOOLEAN /\ slot' \in {slot, "removed"}
    BY DEF TypeOK, Closed, Remove, chanVars
  <2>2. /\ UNCHANGED <<setup, state, events, output, pending, revents, shutting, sent, wire,
                       shut, killed, peer, inbox>>
        /\ pc' = "events" /\ server' \in {"asked", "erased"}
    BY DEF Closed, Remove, chanVars, streamVars, usageVars, peerVars
  <2>3. pc = "destroyed" => revents = {}
    BY DEF Dispatching
  <2>4. QED
    BY <1>0, <2>1, <2>2, <2>3 DEF TypeOK, Closed
<1> USE DEF Closed, Remove, chanVars, streamVars, usageVars, peerVars
<1>2. (Fresh /\ Posted /\ Dispatching /\ Left /\ Up)'
  BY <1>0 DEF TypeOK, Fresh, Posted, Dispatching, Left, Closes, Up, Doomed
<1>3. (WritingIffOutput /\ OutputKept)'
  BY <1>0 DEF TypeOK, WritingIffOutput, OutputKept, Writing
<1>4. (Careful => Staged)'
  BY <1>0 DEF TypeOK, States, Staged, Careful, Doomed, OneDestroyed
<1>5. QED
  BY <1>1, <1>2, <1>3, <1>4

LEMMA DestroyedStep == ASSUME IInv, ~failed, Destroyed PROVE IInv'
<1> USE DEF IInv
<1>0. state # "CONNECTING"
  BY Awake DEF Destroyed, Callbacks
<1>1. TypeOK'
  <2>1. failed' \in BOOLEAN /\ slot' \in {slot, "removed"}
    BY DEF TypeOK, Destroyed, Remove, chanVars
  <2>2. /\ UNCHANGED <<setup, state, events, output, pending, revents, shutting, sent, wire,
                       shut, killed, peer, inbox>>
        /\ pc' = "loop" /\ server' = server
    BY DEF Destroyed, Remove, chanVars, streamVars, usageVars, peerVars
  <2>3. pc = "destroyed" => revents = {}
    BY DEF Dispatching
  <2>4. QED
    BY <1>0, <2>1, <2>2, <2>3 DEF TypeOK, Destroyed
<1> USE DEF Destroyed, Remove, chanVars, streamVars, usageVars, peerVars
<1>2. (Fresh /\ Posted /\ Dispatching /\ Left /\ Up)'
  BY <1>0 DEF TypeOK, Fresh, Posted, Dispatching, Left, Closes, Up, Doomed
<1>3. (WritingIffOutput /\ OutputKept)'
  BY <1>0 DEF TypeOK, WritingIffOutput, OutputKept, Writing
<1>4. (Careful => Staged)'
  BY <1>0 DEF TypeOK, States, Staged, Careful, Doomed, OneDestroyed
<1>5. QED
  BY <1>1, <1>2, <1>3, <1>4

LEMMA CheckStep == ASSUME IInv, ~failed, NEW t \in Callers, ShutdownCheck(t) PROVE IInv'
<1> USE DEF IInv, ShutdownCheck, chanVars, streamVars, usageVars, peerVars
<1>1. TypeOK'
  BY DEF TypeOK, Callbacks, States
<1>2. (Fresh /\ Posted /\ Dispatching /\ Left /\ Up)'
  BY DEF TypeOK, Fresh, Posted, Dispatching, Left, Closes, Up, Doomed
<1>3. (WritingIffOutput /\ OutputKept)'
  BY DEF TypeOK, WritingIffOutput, OutputKept, Writing
<1>4. ~Careful'
  BY ThreadAssumption DEF Careful
<1>5. QED
  BY <1>1, <1>2, <1>3, <1>4

LEMMA StoreStep == ASSUME IInv, ~failed, NEW t \in Callers, ShutdownStore(t) PROVE IInv'
<1> USE DEF IInv, ShutdownStore, chanVars, streamVars, usageVars, peerVars
<1>0. state # "CONNECTING"
  BY DEF Fresh, TypeOK
<1>1. TypeOK'
  BY <1>0 DEF TypeOK, Callbacks, States
<1>2. (Fresh /\ Posted /\ Dispatching /\ Left /\ Up)'
  BY DEF TypeOK, Fresh, Posted, Dispatching, Left, Closes, Up, Doomed
<1>3. (WritingIffOutput /\ OutputKept)'
  BY DEF TypeOK, WritingIffOutput, OutputKept, Writing
<1>4. (Careful => Staged)'
  BY DEF TypeOK, States, Staged, Careful, Doomed, OneDestroyed
<1>5. QED
  BY <1>1, <1>2, <1>3, <1>4

LEMMA IoShutdownStep == ASSUME IInv, ~failed, IoShutdown PROVE IInv'
<1> USE DEF IInv, IoShutdown, ShutdownInLoop, chanVars, streamVars, usageVars, peerVars
<1>0. state # "CONNECTING"
  BY Awake
<1>1. TypeOK'
  BY <1>0 DEF TypeOK, Callbacks, States
<1>2. (Fresh /\ Posted /\ Dispatching /\ Left /\ Up)'
  BY <1>0 DEF TypeOK, Fresh, Posted, Dispatching, Left, Closes, Up, Doomed
<1>3. (WritingIffOutput /\ OutputKept)'
  BY <1>0 DEF TypeOK, WritingIffOutput, OutputKept, Writing
<1>4. (Careful => Staged)'
  BY <1>0 DEF TypeOK, States, Staged, Careful, Doomed, OneDestroyed
<1>5. QED
  BY <1>1, <1>2, <1>3, <1>4

LEMMA PeerSendsStep == ASSUME IInv, ~failed, PeerSends PROVE IInv'
<1> USE DEF IInv, PeerSends, chanVars, streamVars, usageVars, peerVars
<1>0. inbox \in Nat /\ inbox' \in 0..MaxInbox
  BY BoundAssumption DEF TypeOK
<1>1. TypeOK'
  BY <1>0 DEF TypeOK, Callbacks, States
<1>2. (Fresh /\ Posted /\ Dispatching /\ Left /\ Up)'
  BY <1>0 DEF TypeOK, Fresh, Posted, Dispatching, Left, Closes, Up, Doomed
<1>3. (WritingIffOutput /\ OutputKept)'
  BY <1>0 DEF TypeOK, WritingIffOutput, OutputKept, Writing
<1>4. (Careful => Staged)'
  BY <1>0 DEF TypeOK, States, Staged, Careful, Doomed, OneDestroyed
<1>5. QED
  BY <1>1, <1>2, <1>3, <1>4

LEMMA PeerLeavesStep == ASSUME IInv, ~failed, PeerLeaves PROVE IInv'
<1> USE DEF IInv, PeerLeaves, chanVars, streamVars, usageVars, peerVars
<1>0. inbox' \in 0..MaxInbox
  BY BoundAssumption DEF TypeOK
<1>1. TypeOK'
  BY <1>0 DEF TypeOK, Callbacks, States
<1>2. (Fresh /\ Posted /\ Dispatching /\ Left /\ Up)'
  BY <1>0 DEF TypeOK, Fresh, Posted, Dispatching, Left, Closes, Up, Doomed
<1>3. (WritingIffOutput /\ OutputKept)'
  BY <1>0 DEF TypeOK, WritingIffOutput, OutputKept, Writing
<1>4. (Careful => Staged)'
  BY <1>0 DEF TypeOK, States, Staged, Careful, Doomed, OneDestroyed
<1>5. QED
  BY <1>1, <1>2, <1>3, <1>4

(* poll(2) reports an event, of any kind.                                   *)
LEMMA PollStep ==
  ASSUME IInv, ~failed, NEW evs \in SUBSET {"err", "hup", "in", "out"}, Poll(evs)
  PROVE  IInv'
<1> USE DEF IInv, Poll, chanVars, streamVars, usageVars, peerVars
<1>0. state # "CONNECTING"
  BY Awake
<1>1. TypeOK'
  BY <1>0 DEF TypeOK
<1>2. ("hup" \in evs => peer # "open") /\ ("in" \in evs => inbox > 0 \/ peer # "open")
  BY DEF CanReport, HungUp, Readable
<1>3. (Fresh /\ Posted /\ Dispatching /\ Left /\ Up)'
  BY <1>0, <1>2 DEF TypeOK, Fresh, Posted, Dispatching, Left, Closes, Up, Doomed
<1>4. (WritingIffOutput /\ OutputKept)'
  BY DEF TypeOK, WritingIffOutput, OutputKept, Writing
<1>5. (Careful => Staged)'
  BY <1>0 DEF TypeOK, States, Staged, Careful, Doomed, OneDestroyed
<1>6. QED
  BY <1>1, <1>3, <1>4, <1>5

(* Steps that append to the functors.                                       *)
LEMMA SendStep == ASSUME IInv, ~failed, NEW t \in Callers, Send(t) PROVE IInv'
<1> DEFINE f == [op |-> "send", data |-> NextBytes(t)]
<1> USE DEF IInv
<1>1. NextBytes(t) \in Seq(Byte) /\ NextBytes(t) # <<>>
  BY MessageMeans DEF Send, Threads
<1>2. f \in Functor /\ f.op = "send" /\ f.data # <<>>
  BY <1>1 DEF Functor
<1> HIDE DEF f
<1>3. /\ pending' \in Seq(Functor) /\ Range(pending') = Range(pending) \cup {f}
      /\ OneDestroyed(pending) => OneDestroyed(pending')
  BY <1>2, PendingAppend DEF TypeOK, Send, f
<1>4. state # "CONNECTING"
  BY DEF Send
<1>5. sent' \in [Threads -> Nat] /\ \A u \in Threads : sent'[u] <= MaxSent[u]
  BY BoundAssumption DEF TypeOK, Send, Counted, Threads
<1> USE DEF chanVars, streamVars, usageVars, peerVars
<1>6. TypeOK'
  BY <1>3, <1>4, <1>5 DEF TypeOK, Send
<1>7. Doomed' <=> Doomed
  BY <1>2, <1>3 DEF Doomed
<1>8. (Fresh /\ Posted /\ Dispatching /\ Left /\ Up)'
  BY <1>2, <1>3, <1>4, <1>7 DEF TypeOK, Fresh, Posted, Dispatching, Left, Closes, Up, Send
<1>9. (WritingIffOutput /\ OutputKept)'
  BY DEF TypeOK, WritingIffOutput, OutputKept, Writing, Send
<1>10. (Careful => Staged)'
  BY <1>3, <1>7 DEF TypeOK, Staged, Careful, Send
<1>11. QED
  BY <1>6, <1>8, <1>9, <1>10

LEMMA PostStep == ASSUME IInv, ~failed, NEW t \in Callers, ShutdownPost(t) PROVE IInv'
<1> DEFINE f == [op |-> "shutdown"]
<1> USE DEF IInv, ShutdownPost, chanVars, streamVars, usageVars, peerVars
<1>1. f \in Functor
  BY DEF Functor
<1>2. pending' \in Seq(Functor) /\ Range(pending') = Range(pending) \cup {f}
      /\ (OneDestroyed(pending) => OneDestroyed(pending'))
  BY <1>1, PendingAppend DEF TypeOK
<1>3. state # "CONNECTING"
  BY DEF Fresh, TypeOK
<1>4. TypeOK'
  BY <1>2, <1>3 DEF TypeOK
<1>5. Doomed' <=> Doomed
  BY <1>2 DEF Doomed
<1>6. (Fresh /\ Posted /\ Dispatching /\ Left /\ Up)'
  BY <1>2, <1>3, <1>5 DEF TypeOK, Fresh, Posted, Dispatching, Left, Closes, Up
<1>7. (WritingIffOutput /\ OutputKept)'
  BY DEF TypeOK, WritingIffOutput, OutputKept, Writing
<1>8. (Careful => Staged)'
  BY DEF TypeOK, Staged, Careful
<1>9. QED
  BY <1>4, <1>6, <1>7, <1>8

LEMMA RemoveConnectionStep == ASSUME IInv, RemoveConnectionInLoop PROVE IInv'
<1> DEFINE f == [op |-> "destroyed"]
<1> USE DEF IInv, Running, RemoveConnectionInLoop, chanVars, streamVars, usageVars, peerVars
<1>1. f \in Functor
  BY DEF Functor
<1>2. pending' \in Seq(Functor) /\ Range(pending') = Range(pending) \cup {f}
      /\ (~Doomed /\ OneDestroyed(pending) => OneDestroyed(pending'))
  BY <1>1, PendingAppend DEF TypeOK, Doomed
<1>3. Doomed'
  BY <1>2 DEF Doomed
<1>4. state # "CONNECTING"
  BY DEF Fresh
<1>5. TypeOK'
  BY <1>2, <1>4 DEF TypeOK
<1>6. (Fresh /\ Posted /\ Dispatching /\ Left /\ Up)'
  BY <1>2, <1>3, <1>4 DEF TypeOK, Fresh, Posted, Dispatching, Left, Closes, Up
<1>7. (WritingIffOutput /\ OutputKept)'
  BY DEF TypeOK, WritingIffOutput, OutputKept, Writing
<1>8. (Careful => Staged)'
  BY <1>2, <1>3 DEF TypeOK, Staged, Careful
<1>9. QED
  BY <1>5, <1>6, <1>7, <1>8

LEMMA IoSendStep == ASSUME IInv, ~failed, IoSend PROVE IInv'
<1> DEFINE data == NextBytes(Io)
<1> USE DEF IInv
<1>1. data \in Seq(Byte) /\ data # <<>>
  BY MessageMeans DEF IoSend, Threads
<1>2. state # "CONNECTING"
  BY Awake DEF IoSend
<1>3. SendInLoop(data) /\ setup' = setup
  BY DEF IoSend, usageVars
<1> HIDE DEF data
<1>4. /\ wire' \in Seq(Byte) /\ output' \in Seq(Byte) /\ shut' = shut
      /\ killed' \in BOOLEAN /\ (peer' = peer \/ (peer = "reset" /\ peer' = "dead"))
      /\ slot' = slot /\ events' \in {events, events \cup {"out"}}
      /\ failed' \in {failed, slot = "removed"}
      /\ state = "DISCONNECTED" => UNCHANGED <<events, failed>>
      /\ WritingIffOutput' /\ OutputKept'
  BY <1>1, <1>2, <1>3, SendMeans
<1>5. sent' \in [Threads -> Nat] /\ \A u \in Threads : sent'[u] <= MaxSent[u]
  BY BoundAssumption DEF TypeOK, IoSend, Counted, Threads
<1>6. UNCHANGED <<setup, state, pending, pc, revents, shutting, server, inbox>>
  BY DEF IoSend, usageVars
<1>7. TypeOK'
  BY <1>2, <1>4, <1>5, <1>6, ZenonT(40) DEF TypeOK
<1>8. (Fresh /\ Posted /\ Dispatching /\ Left /\ Up)'
  BY <1>2, <1>4, <1>6 DEF TypeOK, Fresh, Posted, Dispatching, Left, Closes, Up, Doomed
<1>9. (Careful => Staged)'
  BY <1>2, <1>4, <1>6 DEF TypeOK, Staged, Careful, Doomed
<1>10. QED
  BY <1>4, <1>7, <1>8, <1>9

LEMMA WriteStep == ASSUME IInv, ~failed, HandleWrite PROVE IInv'
<1> USE DEF IInv
<1>1. state # "CONNECTING" /\ pc = "events" /\ revents' = {}
  BY Awake DEF HandleWrite
<1>2. /\ UNCHANGED <<setup, state, slot, pending, pc, shutting, server, failed, sent, inbox>>
      /\ killed' \in BOOLEAN /\ (peer' = peer \/ (peer = "reset" /\ peer' = "dead"))
  BY DEF HandleWrite, usageVars, socketVars, WriteError, TypeOK
<1>3. /\ wire' \in Seq(Byte) /\ output' \in Seq(Byte) /\ shut' \in BOOLEAN
      /\ events' \in {events, events \ {"out"}}
      /\ output = <<>> => output' = <<>>
      /\ WritingIffOutput' /\ OutputKept'
  <2>1. CASE Writing /\ ~WriteFails
    <3>1. PICK n \in 1..Len(output) :
            /\ wire' = wire \o SubSeq(output, 1, n)
            /\ output' = SubSeq(output, n + 1, Len(output))
            /\ IF output' = <<>> THEN Drained ELSE UNCHANGED <<events, shut>>
      BY <2>1 DEF HandleWrite
    <3>2. /\ Len(output) \in Nat /\ Len(output) > 0 /\ n \in Int /\ n + 1 \in Int /\ 1 \in Int
          /\ \A i \in 1..n : output[i] \in Byte
          /\ \A i \in (n + 1)..Len(output) : output[i] \in Byte
      BY <3>1, LenProperties, ElementOfSeq DEF TypeOK
    <3>3. SubSeq(output, 1, n) \in Seq(Byte) /\ output' \in Seq(Byte)
      BY <3>1, <3>2, SubSeqProperties
    <3>4. wire' \in Seq(Byte)
      BY <3>1, <3>3, ConcatProperties DEF TypeOK
    <3>5. output # <<>>
      BY <3>2, EmptySeq
    <3>6. WritingIffOutput' /\ OutputKept'
      BY <1>2, <2>1, <3>1, <3>5
         DEF TypeOK, WritingIffOutput, OutputKept, Writing, Drained, WriteFails
    <3>7. QED
      BY <3>1, <3>3, <3>4, <3>5, <3>6 DEF TypeOK, Drained
  <2>2. CASE ~(Writing /\ ~WriteFails)
    BY <1>2, <2>2 DEF HandleWrite, TypeOK, WritingIffOutput, OutputKept, Writing, socketVars
  <2>3. QED
    BY <2>1, <2>2
<1>4. TypeOK'
  BY <1>1, <1>2, <1>3 DEF TypeOK
<1>5. (Fresh /\ Posted /\ Dispatching /\ Left /\ Up)'
  BY <1>1, <1>2, <1>3 DEF TypeOK, Fresh, Posted, Dispatching, Left, Closes, Up, Doomed
<1>6. (Careful => Staged)'
  BY <1>1, <1>2, <1>3 DEF TypeOK, Staged, Careful, Doomed
<1>7. QED
  BY <1>3, <1>4, <1>5, <1>6

(* ConnectionDestroyed, wherever it is called.                              *)
LEMMA DestroyMeans ==
  ASSUME IInv, ~failed, state # "CONNECTING", ConnectionDestroyed
  PROVE  /\ failed' \in BOOLEAN /\ events' \in {events, {}}
         /\ \/ /\ state = "CONNECTED" /\ slot = "watched" /\ failed' = failed
               /\ state' = "DISCONNECTED" /\ slot' = "ignored" /\ events' = {} /\ pc' = "destroyed"
            \/ /\ state # "CONNECTED" /\ state' = state /\ pc' = pc /\ events' = events
               /\ \/ slot' = slot /\ failed' /\ ~(events = {} /\ slot = "ignored")
                  \/ slot = "ignored" /\ slot' = "removed" /\ ~failed' /\ events = {}
<1> USE DEF IInv, TypeOK, States
<1>1. CASE state = "CONNECTED"
  BY <1>1 DEF ConnectionDestroyed, DisableAll, Up
<1>2. CASE state # "CONNECTED"
  <2>1. Remove /\ state' = state /\ pc' = pc
    BY <1>2 DEF ConnectionDestroyed
  <2>2. CASE events = {} /\ slot = "ignored"
    BY <1>2, <2>1, <2>2 DEF Remove
  <2>3. CASE ~(events = {} /\ slot = "ignored")
    BY <1>2, <2>1, <2>3 DEF Remove
  <2>4. QED
    BY <2>2, <2>3
<1>3. QED
  BY <1>1, <1>2

LEMMA DestroyServerStep == ASSUME IInv, ~failed, DestroyServer PROVE IInv'
<1> USE DEF IInv
<1>1. /\ UNCHANGED <<setup, output, pending, revents, shutting, sent, wire, shut, killed, peer, inbox>>
      /\ server # "erased" /\ server' = "erased" /\ setup.dies
  BY DEF DestroyServer, streamVars, peerVars
<1>2. CASE setup.pooled
  <2>1. UNCHANGED <<state, events, slot, pc>> /\ failed'
    BY <1>2 DEF DestroyServer, chanVars
  <2>2. TypeOK'
    BY <1>1, <2>1 DEF TypeOK
  <2>3. (Fresh /\ Posted /\ Dispatching /\ Left /\ Up)'
    BY <1>1, <2>1 DEF TypeOK, Fresh, Posted, Dispatching, Left, Closes, Up, Doomed
  <2>4. (WritingIffOutput /\ OutputKept)'
    BY <1>1, <2>1 DEF TypeOK, WritingIffOutput, OutputKept, Writing
  <2>5. ~Careful'
    BY <1>1, <1>2 DEF Careful
  <2>6. QED
    BY <2>2, <2>3, <2>4, <2>5
<1>3. CASE ~setup.pooled
  <2>1. pc = "loop" /\ state # "CONNECTING" /\ ConnectionDestroyed
    BY <1>3 DEF DestroyServer, TypeOK
  <2>2. /\ failed' \in BOOLEAN /\ events' \in {events, {}}
        /\ \/ /\ state = "CONNECTED" /\ slot = "watched" /\ failed' = failed
              /\ state' = "DISCONNECTED" /\ slot' = "ignored" /\ events' = {} /\ pc' = "destroyed"
           \/ /\ state # "CONNECTED" /\ state' = state /\ pc' = pc /\ events' = events
              /\ \/ slot' = slot /\ failed' /\ ~(events = {} /\ slot = "ignored")
                 \/ slot = "ignored" /\ slot' = "removed" /\ ~failed' /\ events = {}
    BY <2>1, DestroyMeans
  <2>3. TypeOK'
    BY <1>1, <2>1, <2>2 DEF TypeOK, States, Callbacks
  <2>4. (Fresh /\ Posted /\ Dispatching /\ Left /\ Up)'
    BY <1>1, <2>1, <2>2 DEF TypeOK, Fresh, Posted, Dispatching, Left, Closes, Up, Doomed
  <2>5. (WritingIffOutput /\ OutputKept)'
    BY <1>1, <2>1, <2>2 DEF TypeOK, WritingIffOutput, OutputKept, Writing
  <2>6. (Careful => Staged)'
    BY <1>1, <1>3, <2>1, <2>2 DEF TypeOK, States, Staged, Careful, Doomed
  <2>7. QED
    BY <2>3, <2>4, <2>5, <2>6
<1>4. QED
  BY <1>2, <1>3

(* The functors, one kind at a time.                                        *)
LEMMA FunctorStep == ASSUME IInv, ~failed, RunFunctor PROVE IInv'
<1> DEFINE f == Head(pending)
<1> USE DEF IInv
<1>1. /\ pc = "loop" /\ pending # <<>> /\ pending' = Tail(pending)
      /\ UNCHANGED <<setup, revents, shutting, server, sent, inbox>>
  BY DEF RunFunctor
<1>2. /\ f \in Functor /\ f \in Range(pending) /\ pending' \in Seq(Functor)
      /\ Range(pending') \subseteq Range(pending)
      /\ OneDestroyed(pending) =>
           /\ OneDestroyed(pending')
           /\ f.op = "destroyed" => \A g \in Range(pending') : g.op # "destroyed"
           /\ \A g \in Range(pending) : g.op = "destroyed" /\ f.op # "destroyed"
                                          => g \in Range(pending')
  BY <1>1, PendingTail DEF TypeOK
<1>3. /\ Doomed' => Doomed
      /\ f.op = "destroyed" => Doomed
      /\ OneDestroyed(pending) => IF f.op = "destroyed" THEN ~Doomed' ELSE Doomed => Doomed'
  BY <1>2 DEF Doomed
<1>4. state = "CONNECTING" <=> f.op = "established"
  <2>1. f.op = "established" => state = "CONNECTING"
    BY <1>2 DEF Posted
  <2>2. state = "CONNECTING" => f = [op |-> "established"]
    BY DEF Fresh
  <2>3. QED
    BY <2>1, <2>2
<1>5. state = "CONNECTING" => Range(pending') = {} /\ pending' = <<>> /\ ~Doomed'
  <2>1. ASSUME state = "CONNECTING" PROVE pending' = <<>>
    <3>1. pending = <<[op |-> "established"]>>
      BY <2>1 DEF Fresh
    <3>2. Len(pending) = 1 /\ Len(pending') = Len(pending) - 1
      BY <1>1, <3>1, HeadTailProperties DEF TypeOK
    <3>3. QED
      BY <1>2, <3>2, EmptySeq
  <2>2. Range(<<>>) = {}
    BY DEF Range
  <2>3. QED
    BY <2>1, <2>2 DEF Doomed
<1>6. state' # "CONNECTING" => Fresh'
  BY DEF Fresh
<1>7. Posted'
  <2>1. CASE state = "CONNECTING"
    BY <1>5, <2>1 DEF Posted
  <2>2. CASE state # "CONNECTING"
    BY <1>2, <2>2 DEF Posted
  <2>3. QED
    BY <2>1, <2>2
<1>8. f.op = "send" => f.data \in Seq(Byte) /\ f.data # <<>>
  BY <1>2 DEF Posted, Functor
<1>9. revents = {}
  BY <1>1 DEF TypeOK
<1> HIDE DEF f
<1>10. CASE f.op = "established" /\ ConnectionEstablished /\ UNCHANGED <<output, socketVars, peer>>
  <2>1. /\ output = <<>> /\ events = {} /\ state = "CONNECTING"
    BY <1>4, <1>10 DEF Fresh
  <2>2. /\ failed' = FALSE /\ state' = "CONNECTED" /\ events' = {"in"} /\ slot' = "watched"
        /\ pc' = "established" /\ UNCHANGED <<output, wire, shut, killed, peer>>
    BY <1>10, <2>1 DEF ConnectionEstablished, socketVars
  <2>3. TypeOK'
    BY <1>1, <1>2, <1>9, <2>1, <2>2 DEF TypeOK, States, Callbacks
  <2>4. (Dispatching /\ Left /\ Up)'
    BY <1>1, <1>5, <1>9, <2>1, <2>2 DEF TypeOK, Dispatching, Left, Closes, Up
  <2>5. (WritingIffOutput /\ OutputKept)'
    BY <2>1, <2>2 DEF TypeOK, WritingIffOutput, OutputKept, Writing
  <2>6. OneDestroyed(pending')
    BY <1>5, <2>1, EmptySeq DEF OneDestroyed
  <2>8. (Careful => Staged)'
    BY <1>1, <1>3, <1>5, <1>9, <2>1, <2>2, <2>6 DEF TypeOK, Staged, Careful, Fresh
  <2>7. QED
    BY <1>6, <1>7, <2>2, <2>3, <2>4, <2>5, <2>8
<1>11. CASE f.op = "destroyed" /\ ConnectionDestroyed /\ UNCHANGED <<output, socketVars, peer>>
  <2>1. state # "CONNECTING" /\ UNCHANGED <<output, wire, shut, killed, peer>>
    BY <1>4, <1>11 DEF socketVars
  <2>2. /\ failed' \in BOOLEAN /\ events' \in {events, {}}
        /\ \/ /\ state = "CONNECTED" /\ slot = "watched" /\ failed' = failed
              /\ state' = "DISCONNECTED" /\ slot' = "ignored" /\ events' = {} /\ pc' = "destroyed"
           \/ /\ state # "CONNECTED" /\ state' = state /\ pc' = pc /\ events' = events
              /\ \/ slot' = slot /\ failed' /\ ~(events = {} /\ slot = "ignored")
                 \/ slot = "ignored" /\ slot' = "removed" /\ ~failed' /\ events = {}
    BY <1>11, <2>1, DestroyMeans
  <2>3. TypeOK'
    BY <1>1, <1>2, <1>9, <2>1, <2>2 DEF TypeOK, States, Callbacks
  <2>4. (Dispatching /\ Left /\ Up)'
    BY <1>1, <1>3, <1>9, <1>11, <2>1, <2>2 DEF TypeOK, Dispatching, Left, Closes, Up
  <2>5. (WritingIffOutput /\ OutputKept)'
    BY <1>1, <1>3, <1>11, <2>1, <2>2
       DEF TypeOK, WritingIffOutput, OutputKept, Writing, Left, Closes
  <2>6. (Careful => Staged)'
    BY <1>1, <1>2, <1>3, <1>9, <1>11, <2>1, <2>2 DEF TypeOK, States, Staged, Careful
  <2>7. QED
    BY <1>6, <1>7, <2>1, <2>2, <2>3, <2>4, <2>5, <2>6
<1>12. CASE /\ f.op = "shutdown" /\ ShutdownInLoop
            /\ UNCHANGED <<state, chanVars, pc, failed, output, wire, killed, peer>>
  <2>1. /\ state # "CONNECTING"
        /\ UNCHANGED <<state, events, slot, pc, failed, output, wire, killed, peer>>
        /\ shut' = (shut \/ ~Writing)
    BY <1>4, <1>12 DEF ShutdownInLoop, chanVars
  <2>2. TypeOK'
    BY <1>1, <1>2, <1>9, <2>1 DEF TypeOK
  <2>3. (Dispatching /\ Left /\ Up)'
    BY <1>1, <1>3, <1>9, <2>1 DEF TypeOK, Dispatching, Left, Closes, Up
  <2>4. (WritingIffOutput /\ OutputKept)'
    BY <1>1, <2>1 DEF TypeOK, WritingIffOutput, OutputKept, Writing
  <2>5. (Careful => Staged)'
    BY <1>1, <1>2, <1>3, <1>9, <1>12, <2>1 DEF TypeOK, Staged, Careful
  <2>6. QED
    BY <1>6, <1>7, <2>1, <2>2, <2>3, <2>4, <2>5
<1>13. CASE f.op = "send" /\ SendInLoop(f.data) /\ UNCHANGED <<state, pc>>
  <2>1. state # "CONNECTING" /\ UNCHANGED <<state, pc>>
    BY <1>4, <1>13
  <2>2. /\ wire' \in Seq(Byte) /\ output' \in Seq(Byte) /\ shut' = shut
        /\ killed' \in BOOLEAN /\ (peer' = peer \/ (peer = "reset" /\ peer' = "dead"))
        /\ slot' = slot /\ events' \in {events, events \cup {"out"}}
        /\ failed' \in {failed, slot = "removed"}
        /\ state = "DISCONNECTED" => UNCHANGED <<events, failed>>
        /\ WritingIffOutput' /\ OutputKept'
    BY <1>1, <1>8, <1>13, <2>1, SendMeans
  <2>3. TypeOK'
    BY <1>1, <1>2, <1>9, <2>1, <2>2 DEF TypeOK
  <2>4. (Dispatching /\ Left /\ Up)'
    BY <1>1, <1>3, <1>9, <2>1, <2>2 DEF TypeOK, Dispatching, Left, Closes, Up
  <2>5. (Careful => Staged)'
    BY <1>1, <1>2, <1>3, <1>9, <1>13, <2>1, <2>2 DEF TypeOK, Staged, Careful
  <2>6. QED
    BY <1>6, <1>7, <2>1, <2>2, <2>3, <2>4, <2>5
<1>14. QED
  BY <1>10, <1>11, <1>12, <1>13 DEF RunFunctor, f

(* One step per action.                                                     *)
LEMMA StepInv == IInv /\ [Next]_vars => IInv'
<1> SUFFICES ASSUME IInv, [Next]_vars PROVE IInv'
  OBVIOUS
<1>1. CASE LoopStep
  BY <1>1, FunctorStep, ErrorStep, HangUpStep, ReadStep, WriteStep, HandledStep, ReturnStep,
     ClosedStep, DestroyedStep DEF LoopStep, Running
<1>2. CASE UserStep
  BY <1>2, IoSendStep, IoShutdownStep, DestroyServerStep, PeerSendsStep, PeerLeavesStep,
     SendStep, CheckStep DEF UserStep, Running
<1>3. CASE RemoveConnectionInLoop
  BY <1>3, RemoveConnectionStep
<1>4. ASSUME NEW e, PollWith(e) PROVE IInv'
  BY <1>4, PollStep DEF PollWith, Running
<1>5. ASSUME NEW t \in Callers, FinishShutdown(t) PROVE IInv'
  BY <1>5, StoreStep, PostStep DEF FinishShutdown, Running
<1>6. CASE UNCHANGED vars
  <2> USE <1>6 DEF IInv, vars, chanVars, streamVars, usageVars, peerVars
  <2>1. TypeOK'
    BY DEF TypeOK
  <2>2. (Fresh /\ Posted /\ Dispatching /\ Left /\ Up)'
    BY DEF Fresh, Posted, Dispatching, Left, Closes, Up, Doomed
  <2>3. (WritingIffOutput /\ OutputKept)'
    BY DEF WritingIffOutput, OutputKept, Writing
  <2>4. (Careful => Staged)'
    BY DEF Staged, Careful, Doomed, OneDestroyed
  <2>5. QED
    BY <2>1, <2>2, <2>3, <2>4
<1>7. QED
  BY <1>1, <1>2, <1>3, <1>4, <1>5, <1>6 DEF Next

LEMMA Invariance == Spec => []IInv
  BY InitInv, StepInv, PTL DEF Spec
-----------------------------------------------------------------------------
(* The connection's state has its type: state_, the channel and the         *)
(* functors posted to the loop are always values the code gives them.       *)
THEOREM TypeCorrect == Spec => []TypeOK
<1>1. IInv => TypeOK
  BY DEF IInv
<1>2. QED
  BY <1>1, Invariance, PTL

(* While it is polled, the channel asks for POLLOUT exactly when output is  *)
(* queued, whatever SendInLoop, HandleWrite and HandleClose interleave to.  *)
THEOREM WritingSafe == Spec => []WritingIffOutput
<1>1. IInv => WritingIffOutput
  BY DEF IInv
<1>2. QED
  BY <1>1, Invariance, PTL

(* Output that is queued is polled for and not behind a SHUT_WR, unless the *)
(* peer left or the server is destroyed.                                    *)
THEOREM OutputSafe == Spec => []OutputKept
<1>1. IInv => OutputKept
  BY DEF IInv
<1>2. QED
  BY <1>1, Invariance, PTL

(* No assert of TcpConnection, Channel or PollPoller fails where only the   *)
(* loop's thread calls Shutdown, and a server that is destroyed has its     *)
(* connections on its own loop and none of them shut down.                  *)
THEOREM CarefulSafe == Spec => []CarefulUseSafe
<1>1. IInv => CarefulUseSafe
  BY DEF IInv, CarefulUseSafe, AssertsHold, Staged
<1>2. QED
  BY <1>1, Invariance, PTL
=============================================================================
