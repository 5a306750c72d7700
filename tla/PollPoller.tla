----------------------------- MODULE PollPoller -----------------------------
(***************************************************************************)
(* SummerNet/net/poller/PollPoller, with the part of Channel it works on.  *)
(*                                                                         *)
(* The poller keeps the channels twice: a map from descriptor to channel,  *)
(* and the array handed to poll(2), in which a channel finds its slot by   *)
(* its index_.  Removal swaps the last slot into the gap and must correct  *)
(* the index of the channel that moved.  A channel that asks for nothing   *)
(* stays in its slot with the descriptor negated, so that poll(2) ignores  *)
(* the slot; nothing ever restores the descriptor.                         *)
(*                                                                         *)
(* All of this runs on the loop's thread, so each operation is one step.   *)
(* The poller relies on being called in turn: a channel is registered by   *)
(* its first interest, and removed when it asks for nothing any more.      *)
(* Nothing but asserts checks that, and the library does not always keep   *)
(* to it, so every call may come at any time here; misused records whose   *)
(* calls came out of turn.  A removed channel may be destroyed, its        *)
(* descriptor closed and free for a new channel.                           *)
(***************************************************************************)
EXTENDS Integers, Sequences, FiniteSets

CONSTANT Fds  \* descriptors; each names the channel that owns it

ASSUME FdsAssumption == IsFiniteSet(Fds)

Events == {"in", "out"}   \* ReadEvent, WriteEvent
Alarms == {"hup"}         \* POLLHUP, POLLERR: reported unasked

VARIABLES
  events,    \* events_ of the channel
  index,     \* index_ of the channel
  channels,  \* the keys of channels_
  pollFds,   \* pollFds_; "ignored" says that fd is stored as -fd - 1
  ready,     \* what poll(2) found ready on each descriptor, until it is reported
  revents,   \* revents_ of the channels in activeChannels_ yet to be handled
  failed,    \* the channel an assert failed on, if one did: the program aborted
  misused    \* history: channels that were updated or removed out of turn

vars == <<events, index, channels, pollFds, ready, revents, failed, misused>>

Nothing == [c \in Fds |-> {}]

Slots == [fd : Fds, ignored : BOOLEAN, events : SUBSET Events]

TypeOK ==
  /\ events \in [Fds -> SUBSET Events]
  /\ index \in [Fds -> -1..(Cardinality(Fds) - 1)]
  /\ channels \in SUBSET Fds
  /\ pollFds \in Seq(Slots)
  /\ ready \in [Fds -> SUBSET (Events \cup Alarms)]
  /\ revents \in [Fds -> SUBSET (Events \cup Alarms)]
  /\ failed \in SUBSET Fds
  /\ misused \in SUBSET Fds

Init ==
  /\ events = Nothing
  /\ index = [c \in Fds |-> -1]
  /\ channels = {}
  /\ pollFds = <<>>
  /\ ready = Nothing /\ revents = Nothing
  /\ failed = {}
  /\ misused = {}

-----------------------------------------------------------------------------
(* The loop's thread is outside Poll().                                    *)
Outside == failed = {} /\ ready = Nothing

(* pollFds_ counts from 0, a sequence from 1.                              *)
SlotOf(c) == index[c] + 1

(* Faulty variant: SetIndex after the push_back.                           *)
Register_IndexAfterPush(c, evs) ==
  /\ index' = [index EXCEPT ![c] = Len(pollFds) + 1]
  /\ pollFds' = Append(pollFds, [fd |-> c, ignored |-> FALSE, events |-> evs])
  /\ channels' = channels \cup {c}

(* The new slot of a channel that has none.                                *)
Register(c, evs) ==
  /\ index' = [index EXCEPT ![c] = Len(pollFds)]
  /\ pollFds' = Append(pollFds, [fd |-> c, ignored |-> FALSE, events |-> evs])
  /\ channels' = channels \cup {c}

(* Faulty variant: an empty interest leaves the descriptor as it is.       *)
Changed_NeverIgnored(slot, evs) == [slot EXCEPT !.events = evs]

(* Faulty variant: the new interest is not copied into the slot.           *)
Changed_EventsKept(slot, evs) == [slot EXCEPT !.ignored = @ \/ evs = {}]

(* A slot after its channel's interest became evs.                         *)
Changed(slot, evs) ==
  [slot EXCEPT !.events = evs, !.ignored = @ \/ evs = {}]

Change(c, evs) ==
  /\ pollFds' = [pollFds EXCEPT ![SlotOf(c)] = Changed(@, evs)]
  /\ UNCHANGED <<index, channels>>

(* The asserts of UpdateChannel.                                           *)
UpdateAsserts(c) ==
  IF index[c] < 0
  THEN c \notin channels
  ELSE /\ c \in channels
       /\ SlotOf(c) \in DOMAIN pollFds
       /\ pollFds[SlotOf(c)].fd = c

(* An update in turn: of a channel that is registered, or of a new one     *)
(* that asks for something.                                                *)
UpdateInTurn(c, evs) == c \in channels \/ (index[c] = -1 /\ evs # {})

(* Channel::events_ becomes evs, and Update() tells the poller.            *)
UpdateChannel(c, evs) ==
  /\ Outside
  /\ misused' = IF UpdateInTurn(c, evs) THEN misused ELSE misused \cup {c}
  /\ IF UpdateAsserts(c)
     THEN /\ events' = [events EXCEPT ![c] = evs]
          /\ IF index[c] < 0 THEN Register(c, evs) ELSE Change(c, evs)
          /\ UNCHANGED failed
     ELSE failed' = {c} /\ UNCHANGED <<events, index, channels, pollFds>>
  /\ UNCHANGED <<ready, revents>>

(* The asserts of Channel::Remove and RemoveChannel.                       *)
RemoveAsserts(c) ==
  /\ events[c] = {}
  /\ c \in channels
  /\ SlotOf(c) \in DOMAIN pollFds
  /\ pollFds[SlotOf(c)] = [fd |-> c, ignored |-> TRUE, events |-> events[c]]

(* Faulty variant: the channel that moves into the gap keeps its index.    *)
Moved_IndexKept(c) == index

(* The indices once the last slot has moved into the gap c leaves.         *)
Moved(c) == IF SlotOf(c) = Len(pollFds) THEN index
            ELSE [index EXCEPT ![pollFds[Len(pollFds)].fd] = index[c]]

(* A removal in turn: of a registered channel that asks for nothing.       *)
RemoveInTurn(c) == c \in channels /\ events[c] = {}

RemoveChannel(c) ==
  /\ Outside
  /\ misused' = IF RemoveInTurn(c) THEN misused ELSE misused \cup {c}
  /\ IF RemoveAsserts(c)
     THEN /\ channels' = channels \ {c}
          /\ index' = Moved(c)
          /\ pollFds' = [i \in 1..(Len(pollFds) - 1) |->
                           pollFds[IF i = SlotOf(c) THEN Len(pollFds) ELSE i]]
          /\ UNCHANGED failed
     ELSE failed' = {c} /\ UNCHANGED <<index, channels, pollFds>>
  /\ UNCHANGED <<events, ready, revents>>

(* poll(2) returns, once the events of the last poll are handled.          *)
PollReturns ==
  /\ Outside
  /\ revents = Nothing
  /\ ready' \in [Fds -> SUBSET (Events \cup Alarms)] \ {Nothing}
  /\ UNCHANGED <<events, index, channels, pollFds, revents, failed, misused>>

(* What poll(2) leaves in the revents of c's slot, if it has one.          *)
Revents(c) ==
  UNION {ready[c] \cap (pollFds[i].events \cup Alarms) :
           i \in {j \in DOMAIN pollFds : pollFds[j].fd = c /\ ~pollFds[j].ignored}}

(* FillActiveChannels, with its assert: the end of Poll().                 *)
Report ==
  /\ failed = {} /\ ready # Nothing
  /\ revents' = [c \in Fds |-> Revents(c)]
  /\ failed' = {c \in Fds : Revents(c) # {} /\ c \notin channels}
  /\ ready' = Nothing
  /\ UNCHANGED <<events, index, channels, pollFds, misused>>

-----------------------------------------------------------------------------
(* What the owners of the channels do with them.                           *)

(* EventLoop's and TimerQueue's constructors, Acceptor::Listen,            *)
(* TcpConnection::ConnectionEstablished: once per channel.                 *)
EnableReading(c) == /\ index[c] = -1
                    /\ UpdateChannel(c, events[c] \cup {"in"})

(* TcpConnection::SendInLoop, on a connection that may be closed already.  *)
EnableWriting(c) == /\ index[c] # -1
                    /\ UpdateChannel(c, events[c] \cup {"out"})

(* TcpConnection::HandleWrite, when the channel is writing.                *)
DisableWriting(c) == /\ "out" \in events[c]
                     /\ UpdateChannel(c, events[c] \ {"out"})

(* TcpConnection::HandleClose and ConnectionDestroyed, and the destructors *)
(* of the loop, the timer queue and the acceptor, whose channel may never  *)
(* have been enabled.                                                      *)
DisableAll(c) == UpdateChannel(c, {})

(* The same destructors and ConnectionDestroyed, which may have left its   *)
(* channel enabled.                                                        *)
Remove(c) == RemoveChannel(c)

(* The channel is destroyed, once the loop has no event of it left to      *)
(* handle, and a new one made for the same descriptor.                     *)
Recreate(c) ==
  /\ Outside
  /\ c \notin channels /\ index[c] # -1
  /\ revents[c] = {}
  /\ index' = [index EXCEPT ![c] = -1]
  /\ events' = [events EXCEPT ![c] = {}]
  /\ misused' = misused \ {c}
  /\ UNCHANGED <<channels, pollFds, ready, revents, failed>>

HandleEvents(c) ==
  /\ Outside
  /\ revents[c] # {}
  /\ revents' = [revents EXCEPT ![c] = {}]
  /\ UNCHANGED <<events, index, channels, pollFds, ready, failed, misused>>

Next == \/ \E c \in Fds : \/ EnableReading(c) \/ EnableWriting(c)
                          \/ DisableWriting(c) \/ DisableAll(c)
                          \/ Remove(c) \/ Recreate(c) \/ HandleEvents(c)
        \/ PollReturns \/ Report

Spec == Init /\ [][Next]_vars

-----------------------------------------------------------------------------
(* Properties                                                              *)

(* The map, the array and the channels' indices stay one bijection through *)
(* every sequence of registrations and swap-removals, and every slot holds *)
(* its channel's current interest.                                         *)
BookkeepingOK ==
  /\ \A c \in channels : /\ SlotOf(c) \in DOMAIN pollFds
                         /\ pollFds[SlotOf(c)].fd = c
                         /\ pollFds[SlotOf(c)].events = events[c]
  /\ \A i \in DOMAIN pollFds : /\ pollFds[i].fd \in channels
                               /\ SlotOf(pollFds[i].fd) = i

(* An assert of UpdateChannel, RemoveChannel or FillActiveChannels fails   *)
(* only on a channel that was itself updated or removed out of turn since  *)
(* it was made: the poller's own tables never fail one, and no channel's   *)
(* misuse makes another's assert fail.                                     *)
AssertsHold == failed \subseteq misused

(* PollPoller implements PollSet: after any history, poll reports to each  *)
(* channel exactly what is ready of what it asked for, unless it is muted. *)
PS == INSTANCE PollSet WITH
        registered <- channels, interest <- events,
        muted <- {pollFds[i].fd : i \in {j \in DOMAIN pollFds : pollFds[j].ignored}}

Implements == PS!Spec
=============================================================================
