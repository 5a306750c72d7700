-------------------------- MODULE PollPollerProofs --------------------------
(* Theorems about PollPoller, for every finite set of descriptors.          *)
EXTENDS PollPoller, SequenceTheorems, FiniteSetTheorems, TLAPS

(* Who is not in the poller asks for nothing, ...                           *)
StrangersQuiet == \A c \in Fds \ channels : events[c] = {}

(* ... and a slot that asks for nothing has its descriptor negated, which   *)
(* RemoveChannel's last assert relies on, unless its channel was misused.   *)
EmptyIgnored ==
  \A i \in DOMAIN pollFds :
    pollFds[i].events = {} => pollFds[i].ignored \/ pollFds[i].fd \in misused

IInv == TypeOK /\ BookkeepingOK /\ AssertsHold /\ StrangersQuiet /\ EmptyIgnored
-----------------------------------------------------------------------------
(* The slots belong to different channels: one that has none still fits.    *)
LEMMA RoomForOne ==
  ASSUME TypeOK, BookkeepingOK, NEW c \in Fds, c \notin channels
  PROVE  Len(pollFds) \in 0..(Cardinality(Fds) - 1)
<1> DEFINE owner == [i \in 1..Len(pollFds) |-> pollFds[i].fd]
<1>1. Len(pollFds) \in Nat /\ DOMAIN pollFds = 1..Len(pollFds)
  BY DEF TypeOK
<1>2. \A i \in 1..Len(pollFds) : pollFds[i].fd \in channels /\ index[pollFds[i].fd] + 1 = i
  BY <1>1 DEF BookkeepingOK, SlotOf
<1>3. owner \in Injection(1..Len(pollFds), channels)
  BY <1>1, <1>2 DEF Injection, IsInjective
<1>4. /\ IsFiniteSet(Fds \ {c}) /\ Cardinality(Fds \ {c}) = Cardinality(Fds) - 1
      /\ Cardinality(Fds) \in Nat
  BY FdsAssumption, FS_RemoveElement, FS_CardinalityType
<1>5. channels \in SUBSET (Fds \ {c})
  BY DEF TypeOK
<1>6. IsFiniteSet(channels) /\ Cardinality(channels) <= Cardinality(Fds) - 1
      /\ Cardinality(channels) \in Nat
  BY <1>4, <1>5, FS_Subset, FS_CardinalityType
<1>7. Cardinality(1..Len(pollFds)) <= Cardinality(channels)
  BY <1>3, <1>6, FS_Injection
<1>8. Cardinality(1..Len(pollFds)) = Len(pollFds)
  <2>1. 1 \in Int /\ Len(pollFds) \in Int
    BY <1>1
  <2>2. Cardinality(1..Len(pollFds)) = IF 1 > Len(pollFds) THEN 0 ELSE Len(pollFds) - 1 + 1
    BY ONLY <2>1, FS_Interval
  <2>3. QED
    BY <1>1, <2>2
<1>9. QED
  BY <1>1, <1>4, <1>6, <1>7, <1>8

(* The slot of a registered channel.                                        *)
LEMMA SlotOfRegistered ==
  ASSUME TypeOK, BookkeepingOK, NEW c \in channels
  PROVE  /\ c \in Fds /\ index[c] \in Int /\ index[c] >= 0
         /\ SlotOf(c) \in 1..Len(pollFds) /\ Len(pollFds) \in Nat
         /\ pollFds[SlotOf(c)] \in Slots
         /\ pollFds[SlotOf(c)].fd = c
         /\ pollFds[SlotOf(c)].events = events[c]
<1>1. Len(pollFds) \in Nat /\ DOMAIN pollFds = 1..Len(pollFds)
  BY DEF TypeOK
<1>2. c \in Fds /\ index[c] \in Int
  BY FdsAssumption, FS_CardinalityType DEF TypeOK
<1>3. /\ SlotOf(c) \in 1..Len(pollFds)
      /\ pollFds[SlotOf(c)].fd = c
      /\ pollFds[SlotOf(c)].events = events[c]
  BY <1>1 DEF BookkeepingOK
<1>4. pollFds[SlotOf(c)] \in Slots
  BY <1>3, ElementOfSeq DEF TypeOK
<1>5. QED
  BY <1>1, <1>2, <1>3, <1>4 DEF SlotOf
-----------------------------------------------------------------------------
(* UpdateChannel on a channel without a slot appends one.                   *)
LEMMA RegisterKeeps ==
  ASSUME IInv, NEW c \in Fds, NEW evs \in SUBSET Events,
         index[c] = -1, UpdateChannel(c, evs)
  PROVE  /\ IInv'
         /\ events' = [events EXCEPT ![c] = evs] /\ UNCHANGED <<ready, revents>>
         /\ c \notin channels /\ channels' = channels \cup {c}
         /\ pollFds' = Append(pollFds, [fd |-> c, ignored |-> FALSE, events |-> evs])
<1> USE DEF IInv
<1>1. Len(pollFds) \in Nat /\ DOMAIN pollFds = 1..Len(pollFds)
  BY DEF TypeOK
<1>2. c \notin channels
  BY <1>1 DEF BookkeepingOK, SlotOf
<1>3. /\ events' = [events EXCEPT ![c] = evs] /\ UNCHANGED failed
      /\ misused' = misused \cup (IF evs = {} THEN {c} ELSE {})
      /\ index' = [index EXCEPT ![c] = Len(pollFds)]
      /\ pollFds' = Append(pollFds, [fd |-> c, ignored |-> FALSE, events |-> evs])
      /\ channels' = channels \cup {c}
      /\ UNCHANGED <<ready, revents>>
  <2>1. UpdateAsserts(c) /\ index[c] < 0
    BY <1>2 DEF UpdateAsserts
  <2>2. misused' = misused \cup (IF evs = {} THEN {c} ELSE {})
    BY <1>2 DEF UpdateChannel, UpdateInTurn
  <2>3. QED
    BY <2>1, <2>2 DEF UpdateChannel, Register
<1>4. [fd |-> c, ignored |-> FALSE, events |-> evs] \in Slots
  BY DEF Slots
<1>5. /\ pollFds' \in Seq(Slots) /\ Len(pollFds') = Len(pollFds) + 1
      /\ DOMAIN pollFds' = 1..(Len(pollFds) + 1)
      /\ \A i \in 1..Len(pollFds) : pollFds'[i] = pollFds[i]
      /\ pollFds'[Len(pollFds) + 1] = [fd |-> c, ignored |-> FALSE, events |-> evs]
  BY <1>3, <1>4, AppendProperties, LenProperties DEF TypeOK
<1>6. TypeOK'
  <2>1. Len(pollFds) \in 0..(Cardinality(Fds) - 1) /\ Cardinality(Fds) \in Nat
    BY <1>2, RoomForOne, FdsAssumption, FS_CardinalityType
  <2>2. index' \in [Fds -> -1..(Cardinality(Fds) - 1)]
    BY <1>3, <2>1 DEF TypeOK
  <2>3. QED
    BY <1>3, <1>5, <2>2 DEF TypeOK
<1>7. BookkeepingOK'
  <2>1. \A d \in channels : d \in Fds /\ d # c /\ index[d] + 1 \in 1..Len(pollFds)
    BY <1>1, <1>2 DEF TypeOK, BookkeepingOK, SlotOf
  <2>2. ASSUME NEW d \in channels'
        PROVE  /\ index'[d] + 1 \in DOMAIN pollFds'
               /\ pollFds'[index'[d] + 1].fd = d
               /\ pollFds'[index'[d] + 1].events = events'[d]
    <3>1. CASE d = c
      BY <1>1, <1>3, <1>5, <3>1 DEF TypeOK
    <3>2. CASE d # c
      <4>1. /\ d \in channels /\ d \in Fds /\ index'[d] = index[d] /\ events'[d] = events[d]
            /\ index[d] + 1 \in 1..Len(pollFds)
        BY <1>3, <2>1, <3>2 DEF TypeOK
      <4>2. pollFds[index[d] + 1].fd = d /\ pollFds[index[d] + 1].events = events[d]
        BY <4>1 DEF BookkeepingOK, SlotOf
      <4>3. QED
        BY <1>1, <1>5, <4>1, <4>2
    <3>3. QED
      BY <3>1, <3>2
  <2>3. ASSUME NEW i \in DOMAIN pollFds'
        PROVE  pollFds'[i].fd \in channels' /\ index'[pollFds'[i].fd] + 1 = i
    <3>1. CASE i = Len(pollFds) + 1
      BY <1>1, <1>3, <1>5, <3>1 DEF TypeOK
    <3>2. CASE i # Len(pollFds) + 1
      <4>1. i \in 1..Len(pollFds) /\ pollFds'[i] = pollFds[i]
        BY <1>1, <1>5, <3>2
      <4>2. pollFds[i].fd \in channels /\ index[pollFds[i].fd] + 1 = i
        BY <1>1, <4>1 DEF BookkeepingOK, SlotOf
      <4>3. index'[pollFds[i].fd] = index[pollFds[i].fd]
        BY <1>3, <2>1, <4>2 DEF TypeOK
      <4>4. QED
        BY <1>3, <4>1, <4>2, <4>3
    <3>3. QED
      BY <3>1, <3>2
  <2>4. QED
    BY <2>2, <2>3 DEF BookkeepingOK, SlotOf
<1>8. AssertsHold' /\ StrangersQuiet'
  BY <1>3 DEF AssertsHold, StrangersQuiet, TypeOK
<1>9. EmptyIgnored'
  <2>1. ASSUME NEW i \in 1..Len(pollFds), pollFds'[i].events = {}
        PROVE  pollFds'[i].ignored \/ pollFds'[i].fd \in misused'
    BY <1>1, <1>3, <1>5, <2>1 DEF EmptyIgnored
  <2>2. pollFds'[Len(pollFds) + 1].events = {} => c \in misused'
    BY <1>3, <1>5
  <2>3. QED
    BY <1>1, <1>5, <2>1, <2>2 DEF EmptyIgnored
<1>10. QED
  BY <1>2, <1>3, <1>6, <1>7, <1>8, <1>9

(* UpdateChannel on a channel with a slot changes that slot.                *)
LEMMA ChangeKeeps ==
  ASSUME IInv, NEW c \in channels, NEW evs \in SUBSET Events, UpdateChannel(c, evs)
  PROVE  /\ IInv'
         /\ events' = [events EXCEPT ![c] = evs] /\ UNCHANGED <<channels, ready, revents>>
         /\ pollFds' = [pollFds EXCEPT ![SlotOf(c)] = Changed(@, evs)]
<1> USE DEF IInv
<1>1. /\ c \in Fds /\ index[c] \in Int /\ index[c] >= 0
      /\ SlotOf(c) \in 1..Len(pollFds) /\ Len(pollFds) \in Nat
      /\ pollFds[SlotOf(c)] \in Slots
      /\ pollFds[SlotOf(c)].fd = c
  BY SlotOfRegistered
<1>2. DOMAIN pollFds = 1..Len(pollFds)
  BY DEF TypeOK
<1>3. /\ events' = [events EXCEPT ![c] = evs]
      /\ pollFds' = [pollFds EXCEPT ![SlotOf(c)] = Changed(@, evs)]
      /\ UNCHANGED <<index, channels, ready, revents, failed, misused>>
  <2>1. UpdateAsserts(c) /\ ~(index[c] < 0)
    BY <1>1, <1>2 DEF UpdateAsserts
  <2>2. QED
    BY <2>1 DEF UpdateChannel, UpdateInTurn, Change
<1> DEFINE old == pollFds[SlotOf(c)]
<1> DEFINE new == Changed(old, evs)
<1>4. /\ new \in Slots /\ new.fd = c /\ new.events = evs
      /\ new.ignored = (old.ignored \/ evs = {})
  BY <1>1 DEF Changed, Slots
<1>5. /\ pollFds' \in Seq(Slots) /\ Len(pollFds') = Len(pollFds)
      /\ DOMAIN pollFds' = 1..Len(pollFds)
      /\ \A i \in 1..Len(pollFds) : pollFds'[i] = IF i = SlotOf(c) THEN new ELSE pollFds[i]
  <2> HIDE DEF new
  <2>1. pollFds' = [pollFds EXCEPT ![SlotOf(c)] = new]
    BY <1>3 DEF new
  <2>2. QED
    BY <1>1, <1>4, <2>1, ExceptSeq, LenProperties DEF TypeOK
<1>6. TypeOK'
  BY <1>1, <1>3, <1>5 DEF TypeOK
<1>7. BookkeepingOK'
  <2>1. ASSUME NEW d \in channels'
        PROVE  /\ index'[d] + 1 \in DOMAIN pollFds'
               /\ pollFds'[index'[d] + 1].fd = d
               /\ pollFds'[index'[d] + 1].events = events'[d]
    <3>1. d \in channels /\ d \in Fds /\ index'[d] = index[d]
      BY <1>3 DEF TypeOK
    <3>2. /\ index[d] + 1 \in 1..Len(pollFds)
          /\ pollFds[index[d] + 1].fd = d
          /\ pollFds[index[d] + 1].events = events[d]
      BY <1>2, <3>1 DEF BookkeepingOK, SlotOf
    <3>3. d # c => index[d] + 1 # SlotOf(c) /\ events'[d] = events[d]
      BY <1>1, <1>3, <3>1, <3>2 DEF TypeOK
    <3>4. d = c => index[d] + 1 = SlotOf(c) /\ events'[d] = evs
      BY <1>1, <1>3 DEF TypeOK, SlotOf
    <3>5. QED
      BY <1>4, <1>5, <3>1, <3>2, <3>3, <3>4
  <2>2. ASSUME NEW i \in DOMAIN pollFds'
        PROVE  pollFds'[i].fd \in channels' /\ index'[pollFds'[i].fd] + 1 = i
    <3>1. pollFds'[i].fd = pollFds[i].fd /\ i \in DOMAIN pollFds
      BY <1>1, <1>2, <1>4, <1>5
    <3>2. QED
      BY <1>3, <3>1 DEF BookkeepingOK, SlotOf
  <2>3. QED
    BY <2>1, <2>2 DEF BookkeepingOK, SlotOf
<1>8. AssertsHold' /\ StrangersQuiet'
  BY <1>3 DEF AssertsHold, StrangersQuiet, TypeOK
<1>9. EmptyIgnored'
  <2>1. ASSUME NEW i \in 1..Len(pollFds), pollFds'[i].events = {}
        PROVE  pollFds'[i].ignored \/ pollFds'[i].fd \in misused
    <3>1. CASE i = SlotOf(c)
      BY <1>4, <1>5, <2>1, <3>1
    <3>2. CASE i # SlotOf(c)
      BY <1>2, <1>5, <2>1, <3>2 DEF EmptyIgnored
    <3>3. QED
      BY <3>1, <3>2
  <2>2. QED
    BY <1>3, <1>5, <2>1 DEF EmptyIgnored
<1>10. QED
  BY <1>3, <1>6, <1>7, <1>8, <1>9

(* UpdateChannel on a channel that was removed: an assert fails.            *)
LEMMA StrayFails ==
  ASSUME IInv, NEW c \in Fds \ channels, NEW evs, index[c] # -1, UpdateChannel(c, evs)
  PROVE  /\ failed' = {c} /\ misused' = misused \cup {c}
         /\ UNCHANGED <<events, index, channels, pollFds, ready, revents>>
<1>1. ~UpdateAsserts(c)
  BY FdsAssumption, FS_CardinalityType DEF IInv, TypeOK, UpdateAsserts
<1>2. QED
  BY <1>1 DEF UpdateChannel, UpdateInTurn

(* A step that stops the program on a misused channel, and does no more.    *)
LEMMA FailureKeeps ==
  ASSUME IInv, NEW c \in Fds, failed' = {c}, c \in misused', misused' \in SUBSET Fds,
         misused \subseteq misused',
         UNCHANGED <<events, index, channels, pollFds, ready, revents>>
  PROVE  IInv'
  BY DEF IInv, TypeOK, BookkeepingOK, SlotOf, AssertsHold, StrangersQuiet, EmptyIgnored

(* RemoveChannel, when its asserts hold, swaps the last slot in.            *)
LEMMA RemoveKeeps ==
  ASSUME IInv, NEW c \in channels, RemoveAsserts(c), RemoveChannel(c)
  PROVE  /\ IInv'
         /\ events[c] = {} /\ UNCHANGED <<events, ready, revents>>
         /\ channels' = channels \ {c}
         /\ Len(pollFds) > 0 /\ Len(pollFds') = Len(pollFds) - 1
         /\ \A i \in 1..Len(pollFds') :
              pollFds'[i] = pollFds[IF i = SlotOf(c) THEN Len(pollFds) ELSE i]
<1> USE DEF IInv
<1> DEFINE n == Len(pollFds)
<1> DEFINE last == pollFds[n].fd
<1>1. /\ c \in Fds /\ index[c] \in Int /\ index[c] >= 0
      /\ SlotOf(c) \in 1..n /\ n \in Nat
      /\ pollFds[SlotOf(c)] \in Slots
      /\ pollFds[SlotOf(c)].fd = c
      /\ events[c] = {}
  BY SlotOfRegistered DEF RemoveAsserts
<1>2. DOMAIN pollFds = 1..n
  BY DEF TypeOK
<1>3. /\ UNCHANGED <<events, ready, revents, failed, misused>>
      /\ channels' = channels \ {c}
      /\ index' = Moved(c)
      /\ pollFds' = [i \in 1..(n - 1) |-> pollFds[IF i = SlotOf(c) THEN n ELSE i]]
  BY <1>1 DEF RemoveChannel, RemoveInTurn
<1>4. /\ pollFds' \in Seq(Slots) /\ Len(pollFds') = n - 1 /\ DOMAIN pollFds' = 1..(n - 1)
      /\ \A i \in 1..(n - 1) : pollFds'[i] = pollFds[IF i = SlotOf(c) THEN n ELSE i]
  <2>1. n - 1 \in Nat
    BY <1>1
  <2>2. \A i \in 1..(n - 1) : pollFds[IF i = SlotOf(c) THEN n ELSE i] \in Slots
    BY <1>1, <1>2, ElementOfSeq DEF TypeOK
  <2>3. pollFds' \in [1..(n - 1) -> Slots]
    BY <1>3, <2>2
  <2>4. pollFds' \in Seq(Slots)
    BY <2>1, <2>3, SeqDef
  <2>5. DOMAIN pollFds' = 1..(n - 1) /\ Len(pollFds') = n - 1
    BY <2>1, <2>3, <2>4, LenProperties
  <2>6. QED
    BY <1>3, <2>4, <2>5
<1>5. last \in channels /\ last \in Fds /\ index[last] + 1 = n
  <2>1. n \in DOMAIN pollFds
    BY <1>1, <1>2
  <2>2. last \in channels /\ SlotOf(last) = n
    BY <2>1 DEF BookkeepingOK
  <2>3. QED
    BY <2>2 DEF TypeOK, SlotOf
<1>6. \A d \in Fds : index'[d] = IF SlotOf(c) # n /\ d = last THEN index[c] ELSE index[d]
  BY <1>3, <1>5 DEF Moved, TypeOK
<1>7. TypeOK'
  <2>1. index' \in [Fds -> -1..(Cardinality(Fds) - 1)]
    BY <1>1, <1>3, <1>5 DEF Moved, TypeOK
  <2>2. QED
    BY <1>3, <1>4, <2>1 DEF TypeOK
<1>8. BookkeepingOK'
  <2>1. \A d \in channels : d \in Fds /\ index[d] \in Int /\ index[d] + 1 \in 1..n
                            /\ pollFds[index[d] + 1].fd = d
                            /\ pollFds[index[d] + 1].events = events[d]
    BY SlotOfRegistered DEF SlotOf
  <2>2. ASSUME NEW d \in channels'
        PROVE  /\ index'[d] + 1 \in DOMAIN pollFds'
               /\ pollFds'[index'[d] + 1].fd = d
               /\ pollFds'[index'[d] + 1].events = events'[d]
    <3>1. d \in channels /\ d # c /\ d \in Fds
      BY <1>3, <2>1
    <3>2. index[d] + 1 # SlotOf(c)
      BY <1>1, <2>1, <3>1
    <3>3. CASE d = last
      <4>1. SlotOf(c) # n /\ index'[d] = index[c]
        BY <1>1, <1>5, <1>6, <3>1, <3>3
      <4>2. index'[d] + 1 = SlotOf(c) /\ SlotOf(c) \in 1..(n - 1)
        BY <1>1, <4>1 DEF SlotOf
      <4>3. pollFds'[index'[d] + 1] = pollFds[n]
        BY <1>4, <4>2
      <4>4. pollFds[n].fd = d /\ pollFds[n].events = events[d]
        BY <1>5, <2>1, <3>1, <3>3
      <4>5. QED
        BY <1>3, <1>4, <4>2, <4>3, <4>4
    <3>4. CASE d # last
      <4>1. index'[d] = index[d]
        BY <1>6, <3>1, <3>4
      <4>2. index[d] + 1 # n
        BY <2>1, <3>1, <3>4
      <4>3. index'[d] + 1 \in 1..(n - 1) /\ pollFds'[index'[d] + 1] = pollFds[index[d] + 1]
        BY <1>1, <1>4, <2>1, <3>1, <3>2, <4>1, <4>2, SMTT(30)
      <4>4. QED
        BY <1>3, <1>4, <2>1, <3>1, <4>1, <4>3
    <3>5. QED
      BY <3>3, <3>4
  <2>3. ASSUME NEW i \in DOMAIN pollFds'
        PROVE  pollFds'[i].fd \in channels' /\ index'[pollFds'[i].fd] + 1 = i
    <3>1. i \in 1..(n - 1)
      BY <1>4
    <3>2. CASE i = SlotOf(c)
      <4>1. pollFds'[i] = pollFds[n] /\ SlotOf(c) # n /\ last # c
        BY <1>1, <1>4, <1>5, <3>1, <3>2 DEF SlotOf
      <4>2. QED
        BY <1>1, <1>3, <1>5, <1>6, <3>2, <4>1 DEF SlotOf
    <3>3. CASE i # SlotOf(c)
      <4>1. pollFds'[i] = pollFds[i]
        BY <1>4, <3>1, <3>3
      <4>2. /\ pollFds[i].fd \in channels /\ pollFds[i].fd \in Fds
            /\ index[pollFds[i].fd] + 1 = i
        BY <1>1, <1>2, <2>1, <3>1 DEF BookkeepingOK, SlotOf
      <4>3. pollFds[i].fd # c /\ pollFds[i].fd # last
        BY <1>1, <1>5, <3>1, <3>3, <4>2 DEF SlotOf
      <4>4. QED
        BY <1>3, <1>6, <4>1, <4>2, <4>3
    <3>4. QED
      BY <3>2, <3>3
  <2>4. QED
    BY <2>2, <2>3 DEF BookkeepingOK, SlotOf
<1>9. AssertsHold' /\ StrangersQuiet'
  BY <1>1, <1>3 DEF AssertsHold, StrangersQuiet
<1>10. EmptyIgnored'
  <2>1. ASSUME NEW i \in 1..(n - 1) PROVE \E j \in 1..n : pollFds'[i] = pollFds[j]
    BY <1>1, <1>4
  <2>2. QED
    BY <1>2, <1>3, <1>4, <2>1 DEF EmptyIgnored
<1>11. QED
  BY <1>1, <1>3, <1>4, <1>7, <1>8, <1>9, <1>10

(* RemoveChannel fails an assert only on a misused channel: the slot of any *)
(* other one that asks for nothing is negated.                              *)
LEMMA RemovalFails ==
  ASSUME IInv, NEW c \in Fds, ~RemoveAsserts(c), RemoveChannel(c)
  PROVE  /\ failed' = {c} /\ c \in misused'
         /\ misused' = misused \/ misused' = misused \cup {c}
         /\ UNCHANGED <<events, index, channels, pollFds, ready, revents>>
<1>1. ASSUME RemoveInTurn(c) PROVE c \in misused
  <2>1. /\ SlotOf(c) \in DOMAIN pollFds /\ pollFds[SlotOf(c)] \in Slots
        /\ pollFds[SlotOf(c)].fd = c /\ pollFds[SlotOf(c)].events = {}
    BY <1>1, SlotOfRegistered DEF IInv, TypeOK, RemoveInTurn
  <2>2. c \notin misused => pollFds[SlotOf(c)] = [fd |-> c, ignored |-> TRUE, events |-> {}]
    BY <2>1 DEF IInv, EmptyIgnored, Slots
  <2>3. QED
    BY <1>1, <2>1, <2>2 DEF RemoveInTurn, RemoveAsserts
<1>2. QED
  BY <1>1 DEF RemoveChannel
-----------------------------------------------------------------------------
(* Every operation is one of the three, on a channel that allows it.        *)
LEMMA InitEstablishes == Init => IInv
<1> SUFFICES ASSUME Init PROVE IInv
  OBVIOUS
<1>1. Cardinality(Fds) \in Nat
  BY FdsAssumption, FS_CardinalityType
<1>2. pollFds = <<>> /\ <<>> \in Seq(Slots) /\ DOMAIN pollFds = {}
  BY DEF Init
<1>3. TypeOK
  <2>1. index \in [Fds -> -1..(Cardinality(Fds) - 1)]
    BY <1>1 DEF Init
  <2>2. /\ events \in [Fds -> SUBSET Events] /\ channels \in SUBSET Fds
        /\ ready \in [Fds -> SUBSET (Events \cup Alarms)]
        /\ revents \in [Fds -> SUBSET (Events \cup Alarms)]
        /\ failed \in SUBSET Fds /\ misused \in SUBSET Fds
    BY DEF Init, Nothing
  <2>3. QED
    BY <1>2, <2>1, <2>2 DEF TypeOK
<1>4. QED
  BY <1>2, <1>3 DEF Init, IInv, BookkeepingOK, AssertsHold, StrangersQuiet, EmptyIgnored, Nothing

LEMMA StepKeeps == IInv /\ [Next]_vars => IInv'
<1> SUFFICES ASSUME IInv, [Next]_vars PROVE IInv'
  OBVIOUS
<1>1. \A c \in channels : c \in Fds /\ index[c] >= 0
  BY SlotOfRegistered DEF IInv
<1>2. \A c \in Fds : events[c] \in SUBSET Events
  BY DEF IInv, TypeOK
<1>3. ASSUME NEW c \in Fds, NEW evs \in SUBSET Events, UpdateChannel(c, evs) PROVE IInv'
  <2>1. CASE c \in channels
    BY <1>3, <2>1, ChangeKeeps
  <2>2. CASE index[c] = -1
    BY <1>3, <2>2, RegisterKeeps
  <2>3. CASE c \notin channels /\ index[c] # -1
    <3>1. /\ failed' = {c} /\ misused' = misused \cup {c}
          /\ UNCHANGED <<events, index, channels, pollFds, ready, revents>>
      BY <1>3, <2>3, StrayFails
    <3>2. misused' \in SUBSET Fds
      BY <3>1 DEF IInv, TypeOK
    <3>3. QED
      BY <3>1, <3>2, FailureKeeps
  <2>4. QED
    BY <2>1, <2>2, <2>3
<1>4. ASSUME NEW c \in Fds, EnableReading(c) \/ EnableWriting(c) PROVE IInv'
  BY <1>2, <1>3, <1>4 DEF EnableReading, EnableWriting, Events
<1>5. ASSUME NEW c \in Fds, DisableWriting(c) PROVE IInv'
  BY <1>2, <1>3, <1>5 DEF DisableWriting
<1>6. ASSUME NEW c \in Fds, DisableAll(c) PROVE IInv'
  BY <1>3, <1>6 DEF DisableAll
<1>7. ASSUME NEW c \in Fds, Remove(c) PROVE IInv'
  <2>1. CASE RemoveAsserts(c)
    BY <1>7, <2>1, RemoveKeeps DEF Remove, RemoveAsserts
  <2>2. CASE ~RemoveAsserts(c)
    <3>1. /\ failed' = {c} /\ c \in misused'
          /\ misused' = misused \/ misused' = misused \cup {c}
          /\ UNCHANGED <<events, index, channels, pollFds, ready, revents>>
      BY <1>7, <2>2, RemovalFails DEF Remove
    <3>2. misused' \in SUBSET Fds /\ misused \subseteq misused'
      BY <3>1 DEF IInv, TypeOK
    <3>3. QED
      BY <3>1, <3>2, FailureKeeps
  <2>3. QED
    BY <2>1, <2>2
<1>8. ASSUME NEW c \in Fds, Recreate(c) PROVE IInv'
  <2>1. /\ UNCHANGED <<channels, pollFds, ready, revents, failed>> /\ c \notin channels
        /\ index' = [index EXCEPT ![c] = -1] /\ events' = [events EXCEPT ![c] = {}]
        /\ misused' = misused \ {c} /\ failed = {}
    BY <1>8 DEF Recreate, Outside
  <2>2. Cardinality(Fds) \in Nat
    BY FdsAssumption, FS_CardinalityType
  <2>3. TypeOK'
    BY <2>1, <2>2 DEF IInv, TypeOK
  <2>4. \A d \in channels : d \in Fds /\ index'[d] = index[d] /\ events'[d] = events[d]
    BY <1>1, <2>1 DEF IInv, TypeOK
  <2>5. BookkeepingOK'
    BY <2>1, <2>4 DEF IInv, BookkeepingOK, SlotOf
  <2>6. AssertsHold' /\ StrangersQuiet'
    BY <2>1 DEF IInv, TypeOK, AssertsHold, StrangersQuiet
  <2>7. EmptyIgnored'
    BY <2>1 DEF IInv, EmptyIgnored, BookkeepingOK
  <2>8. QED
    BY <2>3, <2>5, <2>6, <2>7 DEF IInv
<1>9. ASSUME NEW c \in Fds, HandleEvents(c) PROVE IInv'
  BY <1>9 DEF HandleEvents, IInv, TypeOK, BookkeepingOK, SlotOf, AssertsHold,
              StrangersQuiet, EmptyIgnored
<1>10. CASE PollReturns
  BY <1>10 DEF PollReturns, IInv, TypeOK, BookkeepingOK, SlotOf, AssertsHold,
               StrangersQuiet, EmptyIgnored
<1>11. CASE Report
  <2>1. /\ UNCHANGED <<events, index, channels, pollFds, misused>>
        /\ ready' = Nothing
        /\ revents' = [c \in Fds |-> Revents(c)]
        /\ failed' = {c \in Fds : Revents(c) # {} /\ c \notin channels}
    BY <1>11 DEF Report
  <2>2. \A c \in Fds : Revents(c) \in SUBSET (Events \cup Alarms)
    BY DEF Revents, IInv, TypeOK
  <2>3. \A c \in Fds : Revents(c) # {} => c \in channels
    BY DEF Revents, IInv, BookkeepingOK
  <2>4. failed' = {}
    BY <2>1, <2>3
  <2>5. TypeOK'
    BY <2>1, <2>2, <2>4 DEF IInv, TypeOK, Nothing
  <2>6. QED
    BY <2>1, <2>4, <2>5 DEF IInv, BookkeepingOK, SlotOf, AssertsHold,
                            StrangersQuiet, EmptyIgnored
<1>12. CASE UNCHANGED vars
  BY <1>12 DEF vars, IInv, TypeOK, BookkeepingOK, SlotOf, AssertsHold,
               StrangersQuiet, EmptyIgnored
<1>13. QED
  BY <1>4, <1>5, <1>6, <1>7, <1>8, <1>9, <1>10, <1>11, <1>12 DEF Next

LEMMA Inductive == Spec => []IInv
  BY InitEstablishes, StepKeeps, PTL DEF Spec

(* Every variable keeps its type; for index_: it never exceeds the number   *)
(* of descriptors.                                                          *)
THEOREM TypeCorrect == Spec => []TypeOK
<1>1. IInv => TypeOK
  BY DEF IInv
<1>2. QED
  BY <1>1, Inductive, PTL

(* Map, array and indices stay a bijection through every sequence of        *)
(* registrations and swap-removals, on any number of descriptors.           *)
THEOREM BookkeepingSafe == Spec => []BookkeepingOK
<1>1. IInv => BookkeepingOK
  BY DEF IInv
<1>2. QED
  BY <1>1, Inductive, PTL

(* An assert of the poller fails on no channel that was not itself updated  *)
(* or removed out of turn, in whatever order all of them are used.          *)
THEOREM AssertsSafe == Spec => []AssertsHold
<1>1. IInv => AssertsHold
  BY DEF IInv
<1>2. QED
  BY <1>1, Inductive, PTL
-----------------------------------------------------------------------------
(* The refinement of PollSet.                                               *)
Muted == {pollFds[i].fd : i \in {j \in DOMAIN pollFds : pollFds[j].ignored}}

(* A channel is muted when its one slot is ignored.                         *)
LEMMA MutedSlot ==
  ASSUME IInv
  PROVE  /\ Muted \subseteq channels
         /\ \A c \in channels : c \in Muted <=> pollFds[SlotOf(c)].ignored
<1>1. Muted \subseteq channels
  BY DEF Muted, IInv, BookkeepingOK
<1>2. ASSUME NEW c \in channels PROVE c \in Muted <=> pollFds[SlotOf(c)].ignored
  <2>1. SlotOf(c) \in DOMAIN pollFds /\ pollFds[SlotOf(c)].fd = c
    BY DEF IInv, BookkeepingOK
  <2>2. \A i \in DOMAIN pollFds : pollFds[i].fd = c => i = SlotOf(c)
    BY DEF IInv, BookkeepingOK
  <2>3. QED
    BY <2>1, <2>2 DEF Muted
<1>3. QED
  BY <1>1, <1>2

(* An update of a registered channel mutes it when it asks for nothing.     *)
LEMMA ChangeRefines ==
  ASSUME IInv, NEW c \in channels, NEW evs \in SUBSET Events, UpdateChannel(c, evs)
  PROVE  PS!Update(c, evs)
<1>1. /\ events' = [events EXCEPT ![c] = evs] /\ UNCHANGED <<channels, ready, revents>>
      /\ pollFds' = [pollFds EXCEPT ![SlotOf(c)] = Changed(@, evs)]
  BY ChangeKeeps
<1>2. /\ SlotOf(c) \in DOMAIN pollFds /\ pollFds[SlotOf(c)] \in Slots
      /\ pollFds[SlotOf(c)].fd = c
      /\ DOMAIN pollFds' = DOMAIN pollFds
  BY <1>1, SlotOfRegistered DEF IInv, TypeOK
<1>4. \A i \in DOMAIN pollFds :
        /\ pollFds'[i].fd = pollFds[i].fd
        /\ pollFds'[i].ignored <=> pollFds[i].ignored \/ (i = SlotOf(c) /\ evs = {})
  <2> DEFINE new == Changed(pollFds[SlotOf(c)], evs)
  <2>1. /\ new.fd = c
        /\ new.ignored <=> pollFds[SlotOf(c)].ignored \/ evs = {}
    BY <1>2 DEF Changed, Slots
  <2>2. \A i \in DOMAIN pollFds : pollFds'[i] = IF i = SlotOf(c) THEN new ELSE pollFds[i]
    BY <1>1, <1>2
  <2> HIDE DEF new
  <2>3. QED
    BY <1>2, <2>1, <2>2
<1>5. Muted' = IF evs = {} THEN Muted \cup {c} ELSE Muted
  <2>1. ASSUME NEW d PROVE d \in Muted' <=> d \in Muted \/ (d = c /\ evs = {})
    BY <1>2, <1>4 DEF Muted
  <2>2. QED
    BY <2>1
<1>6. QED
  BY <1>1, <1>5 DEF PS!Update, Muted

(* A channel's first update registers it; its new slot is not ignored.      *)
LEMMA RegisterRefines ==
  ASSUME IInv, NEW c \in Fds, NEW evs \in SUBSET Events,
         index[c] = -1, UpdateChannel(c, evs)
  PROVE  PS!Update(c, evs)
<1> DEFINE n == Len(pollFds)
<1> DEFINE new == [fd |-> c, ignored |-> FALSE, events |-> evs]
<1>1. /\ c \notin channels /\ channels' = channels \cup {c}
      /\ pollFds' = Append(pollFds, new)
      /\ events' = [events EXCEPT ![c] = evs] /\ UNCHANGED <<ready, revents>>
  BY RegisterKeeps
<1>2. n \in Nat /\ DOMAIN pollFds = 1..n
  BY DEF IInv, TypeOK
<1>3. /\ DOMAIN pollFds' = 1..(n + 1)
      /\ \A i \in 1..n : pollFds'[i] = pollFds[i]
      /\ pollFds'[n + 1] = new
  BY <1>1, AppendProperties, LenProperties DEF IInv, TypeOK, Slots
<1>5. Muted' = Muted
  <2>1. ~pollFds'[n + 1].ignored
    BY <1>3
  <2>2. ASSUME NEW i \in DOMAIN pollFds', pollFds'[i].ignored
        PROVE  i \in DOMAIN pollFds /\ pollFds'[i] = pollFds[i]
    BY <1>2, <1>3, <2>1, <2>2
  <2>3. \A i \in DOMAIN pollFds : i \in DOMAIN pollFds' /\ pollFds'[i] = pollFds[i]
    BY <1>2, <1>3
  <2>4. QED
    BY <2>2, <2>3 DEF Muted
<1>6. QED
  BY <1>1, <1>5 DEF PS!Update, Muted

(* A removal takes exactly c's slot away: whoever moved keeps its mark.     *)
LEMMA RemoveRefines ==
  ASSUME IInv, NEW c \in channels, RemoveAsserts(c), RemoveChannel(c)
  PROVE  PS!Remove(c)
<1> DEFINE n == Len(pollFds)
<1>1. /\ channels' = channels \ {c} /\ n > 0 /\ Len(pollFds') = n - 1 /\ IInv'
      /\ \A i \in 1..Len(pollFds') :
           pollFds'[i] = pollFds[IF i = SlotOf(c) THEN n ELSE i]
  BY RemoveKeeps
<1>2. n \in Nat /\ DOMAIN pollFds = 1..n /\ DOMAIN pollFds' = 1..(n - 1)
  BY <1>1 DEF IInv, TypeOK
<1>3. events[c] = {} /\ UNCHANGED <<events, ready, revents>>
  BY RemoveKeeps
<1>4. SlotOf(c) \in 1..n /\ pollFds[SlotOf(c)].fd = c
  BY SlotOfRegistered DEF IInv
<1>5. \A i \in 1..n : pollFds[i].fd = c => i = SlotOf(c)
  BY <1>2 DEF IInv, BookkeepingOK
<1>6. Muted' = Muted \ {c}
  <2>1. ASSUME NEW d \in Muted' PROVE d \in Muted \ {c}
    <3>1. PICK i \in 1..(n - 1) : pollFds'[i].ignored /\ pollFds'[i].fd = d
      BY <1>2, <2>1 DEF Muted
    <3>2. PICK j \in 1..n : pollFds'[i] = pollFds[j] /\ j # SlotOf(c)
      BY <1>1, <1>2, <1>4, <3>1
    <3>3. QED
      BY <1>2, <1>5, <3>1, <3>2 DEF Muted
  <2>2. ASSUME NEW d \in Muted, d # c PROVE d \in Muted'
    <3>1. PICK j \in 1..n : pollFds[j].ignored /\ pollFds[j].fd = d
      BY <1>2, <2>2 DEF Muted
    <3>2. j # SlotOf(c)
      BY <1>4, <2>2, <3>1
    <3>3. PICK i \in 1..(n - 1) : pollFds'[i] = pollFds[j]
      <4>1. CASE j = n
        BY <1>1, <1>2, <1>4, <3>2, <4>1
      <4>2. CASE j # n
        BY <1>1, <1>2, <1>4, <3>2, <4>2
      <4>3. QED
        BY <4>1, <4>2
    <3>4. QED
      BY <1>2, <3>1, <3>3 DEF Muted
  <2>3. QED
    BY <2>1, <2>2
<1>7. QED
  BY <1>1, <1>3, <1>6 DEF PS!Remove, Muted

(* What FillActiveChannels reports is what PollSet promises.                *)
LEMMA ReportRefines ==
  ASSUME IInv, Report
  PROVE  PS!Report
<1>1. /\ ready # Nothing /\ ready' = Nothing
      /\ revents' = [c \in Fds |-> Revents(c)]
      /\ UNCHANGED <<events, channels, pollFds>>
  BY DEF Report
<1>2. ASSUME NEW c \in Fds
      PROVE  Revents(c) = IF c \in channels \ Muted
                          THEN ready[c] \cap (events[c] \cup Alarms) ELSE {}
  <2> DEFINE mine == {i \in DOMAIN pollFds : pollFds[i].fd = c /\ ~pollFds[i].ignored}
  <2>1. CASE c \in channels \ Muted
    <3>1. /\ SlotOf(c) \in DOMAIN pollFds /\ pollFds[SlotOf(c)].fd = c
          /\ pollFds[SlotOf(c)].events = events[c]
          /\ \A i \in DOMAIN pollFds : pollFds[i].fd = c => i = SlotOf(c)
      BY <2>1 DEF IInv, BookkeepingOK
    <3>2. ~pollFds[SlotOf(c)].ignored
      BY <2>1, MutedSlot
    <3>3. mine = {SlotOf(c)}
      BY <3>1, <3>2
    <3>4. Revents(c) = ready[c] \cap (pollFds[SlotOf(c)].events \cup Alarms)
      BY <3>3 DEF Revents
    <3>5. QED
      BY <2>1, <3>1, <3>4
  <2>2. CASE c \notin channels \ Muted
    <3>1. mine = {}
      BY <2>2 DEF Muted, IInv, BookkeepingOK
    <3>2. QED
      BY <2>2, <3>1 DEF Revents
  <2>3. QED
    BY <2>1, <2>2
<1>3. revents' = [c \in Fds |-> IF c \in channels \ Muted
                                THEN ready[c] \cap (events[c] \cup Alarms) ELSE {}]
  BY <1>1, <1>2
<1>4. QED
  BY <1>1, <1>3 DEF PS!Report, PS!Nothing, Nothing, Muted

LEMMA StepRefines == IInv /\ [Next]_vars => [PS!Next]_(PS!vars)
<1> SUFFICES ASSUME IInv, [Next]_vars PROVE [PS!Next]_(PS!vars)
  OBVIOUS
<1>1. \A c \in Fds : events[c] \in SUBSET Events
  BY DEF IInv, TypeOK
<1>2. channels \subseteq Fds
  BY DEF IInv, TypeOK
<1>3. ASSUME NEW c \in Fds, NEW evs \in SUBSET Events, UpdateChannel(c, evs)
      PROVE  [PS!Next]_(PS!vars)
  <2>1. CASE c \in channels
    BY <1>3, <2>1, ChangeRefines DEF PS!Next
  <2>2. CASE index[c] = -1
    BY <1>3, <2>2, RegisterRefines DEF PS!Next
  <2>3. CASE c \notin channels /\ index[c] # -1
    BY <1>3, <2>3, StrayFails DEF PS!vars
  <2>4. QED
    BY <2>1, <2>2, <2>3
<1>4. ASSUME NEW c \in Fds, EnableReading(c) \/ EnableWriting(c) PROVE [PS!Next]_(PS!vars)
  BY <1>1, <1>3, <1>4 DEF EnableReading, EnableWriting, Events
<1>5. ASSUME NEW c \in Fds, DisableWriting(c) PROVE [PS!Next]_(PS!vars)
  BY <1>1, <1>3, <1>5 DEF DisableWriting
<1>6. ASSUME NEW c \in Fds, DisableAll(c) PROVE [PS!Next]_(PS!vars)
  BY <1>3, <1>6 DEF DisableAll
<1>7. ASSUME NEW c \in Fds, Remove(c) PROVE [PS!Next]_(PS!vars)
  <2>1. CASE RemoveAsserts(c)
    BY <1>7, <2>1, RemoveRefines DEF Remove, RemoveAsserts, PS!Next
  <2>2. CASE ~RemoveAsserts(c)
    BY <1>7, <2>2, RemovalFails DEF Remove, PS!vars
  <2>3. QED
    BY <2>1, <2>2
<1>8. ASSUME NEW c \in Fds, Recreate(c) PROVE UNCHANGED PS!vars
  <2>1. events' = events
    BY <1>8 DEF Recreate, IInv, StrangersQuiet, TypeOK
  <2>2. QED
    BY <1>8, <2>1 DEF Recreate, PS!vars
<1>9. ASSUME NEW c \in Fds, HandleEvents(c) PROVE PS!Next
  BY <1>9 DEF HandleEvents, PS!Handle, PS!Next
<1>10. CASE PollReturns
  BY <1>10 DEF PollReturns, Outside, Nothing, PS!PollReturns, PS!Nothing, PS!Next
<1>11. CASE Report
  BY <1>11, ReportRefines DEF PS!Next
<1>12. CASE UNCHANGED vars
  BY <1>12 DEF vars, PS!vars
<1>13. QED
  BY <1>4, <1>5, <1>6, <1>7, <1>8, <1>9, <1>10, <1>11, <1>12 DEF Next

(* PollPoller implements PollSet: whatever was registered, changed, swapped *)
(* and removed before, a poll reports to each channel what is ready of what *)
(* it asked for, and nothing to a muted one.                                *)
THEOREM ImplementsPollSet == Spec => Implements
<1>1. Init => PS!Init
  BY DEF Init, PS!Init, Nothing, PS!Nothing
<1>2. QED
  BY <1>1, StepRefines, Inductive, PTL DEF Spec, Implements, PS!Spec
=============================================================================
