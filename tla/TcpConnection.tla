---------------------------- MODULE TcpConnection ----------------------------
(***************************************************************************)
(* SummerNet/net/TcpConnection: one accepted connection, from the functor  *)
(* that establishes it to the removal of its channel.                      *)
(*                                                                         *)
(* The connection's own code runs on the thread Io of its loop: the four   *)
(* event callbacks, the functors posted to the loop (a queue executed from *)
(* the front, which is what EventLoop implements) and the user callbacks   *)
(* they call, during which user code may itself Send and Shutdown.  Other  *)
(* threads call Send and Shutdown at any time; Shutdown reads state_,      *)
(* writes it and posts in three steps.                                     *)
(*                                                                         *)
(* External: the socket (what poll, readv and write may return, given what *)
(* the peer did) and the TcpServer, reduced to the entry of its map.       *)
(***************************************************************************)
EXTENDS Naturals, Sequences

CONSTANTS Callers,     \* threads other than Io that use the connection
          Io,          \* the thread of the connection's loop
          Setups,      \* the ways the library may be used
          MsgLen,      \* bytes in a message
          MaxSent,     \* bound: bytes each thread sends
          MaxInbox     \* bound: messages from the peer waiting to be read

Threads == Callers \cup {Io}

(* pooled: the loop is one of the pool, not the server's own; dies: the    *)
(* TcpServer may be destroyed; shutters: the threads that call Shutdown.   *)
Setup == [pooled : BOOLEAN, dies : BOOLEAN, shutters : SUBSET Threads]

ASSUME ThreadAssumption == Io \notin Callers
ASSUME SetupAssumption == Setups \subseteq Setup
ASSUME BoundAssumption == MsgLen \in Nat \ {0} /\ MaxSent \in [Threads -> Nat] /\ MaxInbox \in Nat

VARIABLES
  setup,     \* how the library is used
  state,     \* state_
  events,    \* the channel's events_
  slot,      \* the channel in the poller; "ignored": its descriptor is negated
  output,    \* outputBuffer_: bytes <<t, i>>, the i-th of thread t
  pending,   \* functors of this connection posted to its loop
  pc,        \* Io: in the loop, dispatching events, or in a user callback
  revents,   \* events yet to be dispatched
  shutting,  \* shutting[t]: how far t is in Shutdown()
  server,    \* the server's map entry
  failed,    \* an assert or AssertInLoopThread has failed
  sent,      \* sent[t]: bytes t has passed to Send
  wire,      \* bytes the kernel has accepted
  shut,      \* SHUT_WR was done
  killed,    \* SIGPIPE has killed the process
  peer,      \* the peer's end; with a RST the socket's error is pending, and it
             \* is ECONNRESET ("reset") or, behind a FIN, EPIPE ("broken"),
             \* until something reads it ("dead")
  inbox      \* messages from the peer waiting to be read

chanVars   == <<events, slot>>
socketVars == <<wire, shut, killed>>
streamVars == <<output, wire, shut, killed>>
peerVars   == <<peer, inbox>>
usageVars  == <<setup, shutting, server>>
vars == <<state, chanVars, streamVars, pending, pc, revents, usageVars, failed,
          sent, peerVars>>

States    == {"CONNECTING", "CONNECTED", "DISCONNECTING", "DISCONNECTED"}
Callbacks == {"established", "message", "closed", "destroyed"}
Byte      == UNION {{t} \X (1..MaxSent[t]) : t \in Threads}
Functor   == [op : {"established", "shutdown", "destroyed"}]
             \cup [op : {"send"}, data : Seq(Byte)]

TypeOK ==
  /\ setup \in Setups
  /\ state \in States
  /\ events \in SUBSET {"in", "out"}
  /\ slot \in {"none", "watched", "ignored", "removed"}
  /\ output \in Seq(Byte)
  /\ pending \in Seq(Functor)
  /\ pc \in {"loop", "events"} \cup Callbacks
  /\ revents \in SUBSET {"err", "hup", "in", "out"}
  /\ shutting \in [Callers -> {"no", "checked", "stored"}]
  /\ server \in {"mapped", "asked", "erased"}
  /\ failed \in BOOLEAN
  /\ sent \in [Threads -> Nat] /\ \A t \in Threads : sent[t] <= MaxSent[t]
  /\ wire \in Seq(Byte)
  /\ shut \in BOOLEAN
  /\ killed \in BOOLEAN
  /\ peer \in {"open", "closed", "reset", "broken", "dead"}
  /\ inbox \in 0..MaxInbox
  /\ slot = "none" <=> state = "CONNECTING"
  /\ pc = "loop" => revents = {}

(* TcpServer::NewConnection has made the connection, entered it into the   *)
(* map and handed ConnectionEstablished to its loop.                       *)
Init ==
  /\ setup \in Setups
  /\ state = "CONNECTING"
  /\ events = {} /\ slot = "none"
  /\ output = <<>>
  /\ pending = <<[op |-> "established"]>>
  /\ pc = "loop" /\ revents = {}
  /\ shutting = [t \in Callers |-> "no"]
  /\ server = "mapped"
  /\ failed = FALSE
  /\ sent = [t \in Threads |-> 0]
  /\ wire = <<>> /\ shut = FALSE /\ killed = FALSE
  /\ peer = "open" /\ inbox = 0

-----------------------------------------------------------------------------
(* Channel operations, on a poller that is PollPoller.                     *)

Writing == "out" \in events

(* UpdateChannel on a channel that was removed fails its first assert.     *)
EnableWriting ==
  /\ events' = events \cup {"out"}
  /\ failed' = (slot = "removed")
  /\ UNCHANGED slot

(* Faulty variant: DisableReading instead.                                 *)
DisableAll_ReadingOnly ==
  /\ events' = events \ {"in"}
  /\ slot' = IF events' = {} THEN "ignored" ELSE slot

(* A slot whose channel asks for nothing is ignored from then on.          *)
DisableAll ==
  /\ events' = {}
  /\ slot' = "ignored"

Remove ==
  /\ failed' = (events # {} \/ slot # "ignored")
  /\ slot' = IF failed' THEN slot ELSE "removed"
  /\ UNCHANGED events

-----------------------------------------------------------------------------
(* The methods that run in the loop.                                       *)

(* write(2) fails with ECONNRESET or EPIPE.                                *)
WriteFails == shut \/ peer \notin {"open", "closed"}

(* ECONNRESET is returned, once.  EPIPE comes with SIGPIPE, which kills the *)
(* process: IgnoreSigPipe is a class of which there is no object.          *)
WriteError ==
  IF peer = "reset" THEN peer' = "dead" /\ UNCHANGED killed
  ELSE killed' = TRUE /\ UNCHANGED peer

(* Faulty variant: outputBuffer_ is not looked at.                         *)
WritesDirectly_Always == TRUE

(* Nothing is queued in front of the data: SendInLoop may write at once.   *)
WritesDirectly == ~Writing /\ output = <<>>

(* SendInLoop once the kernel took the first n bytes.                      *)
Queue(data, n) ==
  /\ wire' = wire \o SubSeq(data, 1, n)
  /\ output' = output \o SubSeq(data, n + 1, Len(data))
  /\ IF n < Len(data) /\ ~Writing THEN EnableWriting
     ELSE UNCHANGED <<chanVars, failed>>
  /\ UNCHANGED <<killed, peer>>

(* SendInLoop drops the data.                                              *)
GiveUp == UNCHANGED <<chanVars, failed, output, wire>>

(* Faulty variant: a write that would block counts as an error.            *)
SendInLoop_BlockIsFatal(data) ==
  /\ IF state = "DISCONNECTED" THEN GiveUp /\ UNCHANGED <<killed, peer>>
     ELSE IF ~WritesDirectly THEN Queue(data, 0)
     ELSE IF WriteFails THEN GiveUp /\ WriteError
     ELSE \/ GiveUp /\ UNCHANGED <<killed, peer>>
          \/ \E n \in 1..Len(data) : Queue(data, n)
  /\ UNCHANGED shut

(* SendInLoop: a write that would block takes no byte.                     *)
SendInLoop(data) ==
  /\ IF state = "DISCONNECTED" THEN GiveUp /\ UNCHANGED <<killed, peer>>
     ELSE IF ~WritesDirectly THEN Queue(data, 0)
     ELSE IF WriteFails THEN GiveUp /\ WriteError
     ELSE \E n \in 0..Len(data) : Queue(data, n)
  /\ UNCHANGED shut

(* Faulty variant: SHUT_WR without waiting for the output.                 *)
ShutdownInLoop_AtOnce == shut' = TRUE

(* HandleWrite calls it again when the output is drained.                  *)
ShutdownInLoop == shut' = (shut \/ ~Writing)

(* Faulty variant: state_ is left at CONNECTING.                           *)
ConnectionEstablished_NoState ==
  /\ failed' = (state # "CONNECTING")
  /\ events' = events \cup {"in"}
  /\ slot' = "watched"
  /\ pc' = "established"
  /\ UNCHANGED state

ConnectionEstablished ==
  /\ failed' = (state # "CONNECTING")
  /\ state' = "CONNECTED"
  /\ events' = events \cup {"in"}
  /\ slot' = "watched"
  /\ pc' = "established"

(* Its connectionCallback_ and the rest follow as Destroyed.               *)
ConnectionDestroyed ==
  IF state = "CONNECTED"
  THEN /\ state' = "DISCONNECTED"
       /\ DisableAll
       /\ pc' = "destroyed"
       /\ UNCHANGED failed
  ELSE Remove /\ UNCHANGED <<state, pc>>

(* Up to connectionCallback_; closeCallback_ follows as Closed.            *)
HandleClose ==
  /\ failed' = (state \notin {"CONNECTED", "DISCONNECTING"})
  /\ state' = "DISCONNECTED"
  /\ DisableAll
  /\ pc' = "closed"

-----------------------------------------------------------------------------
(* The loop's thread.                                                      *)

Running == ~failed /\ ~killed

(* One functor.                                                            *)
RunFunctor ==
  /\ Running
  /\ pc = "loop" /\ pending # <<>>
  /\ pending' = Tail(pending)
  /\ LET f == Head(pending) IN
       \/ /\ f.op = "established"
          /\ ConnectionEstablished
          /\ UNCHANGED <<output, socketVars, peer>>
       \/ /\ f.op = "destroyed"
          /\ ConnectionDestroyed
          /\ UNCHANGED <<output, socketVars, peer>>
       \/ /\ f.op = "shutdown"
          /\ ShutdownInLoop
          /\ UNCHANGED <<state, chanVars, pc, failed, output, wire, killed, peer>>
       \/ /\ f.op = "send"
          /\ SendInLoop(f.data)
          /\ UNCHANGED <<state, pc>>
  /\ UNCHANGED <<setup, revents, shutting, server, sent, inbox>>

Readable == inbox > 0 \/ peer # "open"
HungUp   == peer \notin {"open", "closed"} \/ (peer = "closed" /\ shut)

(* What poll(2) may report.  Room in the socket is up to the peer; POLLHUP *)
(* may come without POLLIN when there is nothing left to read.             *)
CanReport(evs) ==
  /\ evs # {}
  /\ "out" \in evs => Writing
  /\ "err" \in evs <=> peer \in {"reset", "broken"}
  /\ "hup" \in evs <=> HungUp
  /\ "in" \in evs => Readable
  /\ Readable => "in" \in evs \/ (HungUp /\ inbox = 0)

(* poll(2) reports the channel and the loop calls Channel::HandleEvents.   *)
Poll(evs) ==
  /\ pc = "loop" /\ slot = "watched"
  /\ CanReport(evs)
  /\ revents' = evs
  /\ pc' = "events"
  /\ UNCHANGED <<state, chanVars, streamVars, pending, usageVars, failed,
                 sent, peerVars>>

(* errorCallback_: reading SO_ERROR clears the error.                      *)
HandleError ==
  /\ pc = "events" /\ "err" \in revents
  /\ revents' = revents \ {"err"}
  /\ peer' = IF peer \in {"reset", "broken"} THEN "dead" ELSE peer
  /\ UNCHANGED <<state, chanVars, streamVars, pending, pc, usageVars, failed,
                 sent, inbox>>

(* closeCallback_ on POLLHUP without POLLIN.                               *)
HandleHangUp ==
  /\ pc = "events" /\ "err" \notin revents
  /\ "hup" \in revents /\ "in" \notin revents
  /\ revents' = revents \ {"hup"}
  /\ HandleClose
  /\ UNCHANGED <<streamVars, pending, usageVars, sent, peerVars>>

(* HandleRead: the data that arrived, the end of the stream (a RST behind  *)
(* the FIN does not hide it) or an error.                                  *)
HandleRead ==
  /\ pc = "events" /\ "err" \notin revents /\ "in" \in revents
  /\ revents' = revents \ {"in", "hup"}
  /\ \/ /\ peer # "reset" /\ inbox > 0
        /\ inbox' = 0
        /\ pc' = "message"
        /\ UNCHANGED <<state, chanVars, failed, peer>>
     \/ /\ peer # "reset" /\ inbox = 0
        /\ HandleClose
        /\ UNCHANGED peerVars
     \/ /\ peer = "reset"
        /\ peer' = "dead"
        /\ UNCHANGED <<state, chanVars, pc, failed, inbox>>
  /\ UNCHANGED <<streamVars, pending, usageVars, sent>>

(* Faulty variant: a Shutdown that found output queued is forgotten.       *)
Drained_Only == events' = events \ {"out"} /\ UNCHANGED shut

(* Faulty variant: the channel goes on asking for POLLOUT.                 *)
Drained_StillWriting == UNCHANGED events /\ shut' = (shut \/ state = "DISCONNECTING")

(* The output is empty: DisableWriting, and the SHUT_WR that waited for it.*)
Drained ==
  /\ events' = events \ {"out"}
  /\ shut' = (shut \/ state = "DISCONNECTING")

(* HandleWrite: some bytes go, or write(2) fails: ECONNRESET is logged.    *)
HandleWrite ==
  /\ pc = "events" /\ revents = {"out"}
  /\ revents' = {}
  /\ \/ /\ Writing /\ ~WriteFails
        /\ \E n \in 1..Len(output) :
             /\ wire' = wire \o SubSeq(output, 1, n)
             /\ output' = SubSeq(output, n + 1, Len(output))
             /\ IF output' = <<>> THEN Drained ELSE UNCHANGED <<events, shut>>
        /\ UNCHANGED <<killed, peer>>
     \/ /\ Writing /\ WriteFails
        /\ WriteError
        /\ UNCHANGED <<events, output, wire, shut>>
     \/ ~Writing /\ UNCHANGED <<events, output, socketVars, peer>>
  /\ UNCHANGED <<state, slot, pending, pc, usageVars, failed, sent, inbox>>

HandledEvents ==
  /\ pc = "events" /\ revents = {}
  /\ pc' = "loop"
  /\ UNCHANGED <<state, chanVars, streamVars, pending, revents, usageVars,
                 failed, sent, peerVars>>

(* A user callback returns: the first connectionCallback_, messageCallback_*)
Return ==
  /\ pc \in {"established", "message"}
  /\ pc' = IF pc = "message" THEN "events" ELSE "loop"
  /\ UNCHANGED <<state, chanVars, streamVars, pending, revents, usageVars,
                 failed, sent, peerVars>>

(* Faulty variant: no closeCallback_.                                      *)
Closed_NoCallback ==
  /\ pc = "closed"
  /\ pc' = "events"
  /\ UNCHANGED <<state, chanVars, streamVars, pending, revents, usageVars,
                 failed, sent, peerVars>>

(* The rest of HandleClose: closeCallback_ is TcpServer::RemoveConnection, *)
(* which erases the entry and destroys the connection, on the spot when    *)
(* the server runs in this loop.                                           *)
Closed ==
  /\ pc = "closed"
  /\ pc' = "events"
  /\ IF setup.pooled
     THEN server' = "asked" /\ UNCHANGED <<chanVars, failed>>
     ELSE server' = "erased" /\ Remove
  /\ UNCHANGED <<setup, state, streamVars, pending, revents, shutting, sent,
                 peerVars>>

(* The rest of ConnectionDestroyed.                                        *)
Destroyed ==
  /\ pc = "destroyed"
  /\ pc' = "loop"
  /\ Remove
  /\ UNCHANGED <<state, streamVars, pending, revents, usageVars, sent,
                 peerVars>>

-----------------------------------------------------------------------------
(* User code.                                                              *)

NextBytes(t) == [i \in 1..MsgLen |-> <<t, sent[t] + i>>]
Counted(t)   == /\ sent[t] + MsgLen <= MaxSent[t]
                /\ sent' = [sent EXCEPT ![t] = @ + MsgLen]

(* In a callback of this connection or of anything else on its loop.       *)
InUserCode == pc \in Callbacks \/ (pc = "loop" /\ state # "CONNECTING")

(* RunInLoop executes SendInLoop before it returns.                        *)
IoSend ==
  /\ InUserCode
  /\ Counted(Io)
  /\ SendInLoop(NextBytes(Io))
  /\ UNCHANGED <<state, pending, pc, revents, usageVars, inbox>>

IoShutdown ==
  /\ Io \in setup.shutters
  /\ InUserCode /\ state = "CONNECTED"
  /\ state' = "DISCONNECTING"
  /\ ShutdownInLoop
  /\ UNCHANGED <<chanVars, output, wire, killed, pending, pc, revents,
                 usageVars, failed, sent, peerVars>>

(* Another thread got the connection from the first connectionCallback_.   *)
(* The data it passes outlives the functor.                                *)
Send(t) ==
  /\ state # "CONNECTING" /\ shutting[t] = "no"
  /\ Counted(t)
  /\ pending' = Append(pending, [op |-> "send", data |-> NextBytes(t)])
  /\ UNCHANGED <<state, chanVars, streamVars, pc, revents, usageVars, failed,
                 peerVars>>

(* Shutdown(): if(state_ == CONNECTED) ...                                 *)
ShutdownCheck(t) ==
  /\ t \in setup.shutters
  /\ shutting[t] = "no" /\ state = "CONNECTED"
  /\ shutting' = [shutting EXCEPT ![t] = "checked"]
  /\ UNCHANGED <<setup, state, chanVars, streamVars, pending, pc, revents,
                 server, failed, sent, peerVars>>

(* ... state_ = DISCONNECTING ...                                          *)
ShutdownStore(t) ==
  /\ shutting[t] = "checked"
  /\ shutting' = [shutting EXCEPT ![t] = "stored"]
  /\ state' = "DISCONNECTING"
  /\ UNCHANGED <<setup, chanVars, streamVars, pending, pc, revents, server,
                 failed, sent, peerVars>>

(* ... RunInLoop(ShutdownInLoop).                                          *)
ShutdownPost(t) ==
  /\ shutting[t] = "stored"
  /\ shutting' = [shutting EXCEPT ![t] = "no"]
  /\ pending' = Append(pending, [op |-> "shutdown"])
  /\ UNCHANGED <<setup, state, chanVars, streamVars, pc, revents, server,
                 failed, sent, peerVars>>

-----------------------------------------------------------------------------
(* The server and the peer.                                                *)

(* RemoveConnectionInLoop, on the server's own loop.                       *)
RemoveConnectionInLoop ==
  /\ Running
  /\ server = "asked"
  /\ server' = "erased"
  /\ pending' = Append(pending, [op |-> "destroyed"])
  /\ UNCHANGED <<setup, state, chanVars, streamVars, pc, revents, shutting,
                 failed, sent, peerVars>>

(* ~TcpServer, on the server's loop, which executes ConnectionDestroyed    *)
(* there: AssertInLoopThread fails unless it is the connection's own.      *)
DestroyServer ==
  /\ setup.dies
  /\ server # "erased" /\ (~setup.pooled => pc = "loop" /\ slot # "none")
  /\ server' = "erased"
  /\ IF setup.pooled THEN failed' = TRUE /\ UNCHANGED <<state, chanVars, pc>>
     ELSE ConnectionDestroyed
  /\ UNCHANGED <<setup, streamVars, pending, revents, shutting, sent,
                 peerVars>>

PeerSends ==
  /\ peer = "open" /\ inbox < MaxInbox
  /\ inbox' = inbox + 1
  /\ UNCHANGED <<state, chanVars, streamVars, pending, pc, revents,
                 usageVars, failed, sent, peer>>

(* A FIN, then possibly a RST, which discards what was not read.           *)
PeerLeaves ==
  /\ \/ peer = "open" /\ peer' = "closed" /\ UNCHANGED inbox
     \/ peer = "open" /\ peer' = "reset" /\ inbox' = 0
     \/ peer = "closed" /\ peer' = "broken" /\ inbox' = 0
  /\ UNCHANGED <<state, chanVars, streamVars, pending, pc, revents,
                 usageVars, failed, sent>>

PollWith(e) == /\ Running
               /\ \E evs \in SUBSET {"err", "hup", "in", "out"} : e \in evs /\ Poll(evs)

LoopStep == /\ Running
            /\ \/ RunFunctor
               \/ HandleError \/ HandleHangUp \/ HandleRead \/ HandleWrite
               \/ HandledEvents \/ Return \/ Closed \/ Destroyed

FinishShutdown(t) == Running /\ (ShutdownStore(t) \/ ShutdownPost(t))

UserStep == /\ Running
            /\ \/ IoSend \/ IoShutdown \/ DestroyServer \/ PeerSends \/ PeerLeaves
               \/ \E t \in Callers : Send(t) \/ ShutdownCheck(t)

Next == \/ LoopStep \/ UserStep \/ RemoveConnectionInLoop
        \/ \E e \in {"err", "hup", "in", "out"} : PollWith(e)
        \/ \E t \in Callers : FinishShutdown(t)

Spec == Init /\ [][Next]_vars

(* The loop's thread and the server's are scheduled; each iteration of the *)
(* loop runs the functors posted to it and polls; the peer goes on reading *)
(* while it has not left; a Shutdown that was begun is completed.          *)
FairSpec ==
  /\ Spec
  /\ WF_vars(LoopStep) /\ SF_vars(RunFunctor)
  /\ \A e \in {"hup", "in", "out"} : SF_vars(PollWith(e))
  /\ WF_vars(RemoveConnectionInLoop)
  /\ \A t \in Callers : WF_vars(FinishShutdown(t))

-----------------------------------------------------------------------------
(* Properties                                                              *)

(* The asserts of TcpConnection, Channel::Remove and PollPoller, and the   *)
(* AssertInLoopThread of ConnectionDestroyed, hold when they are reached.  *)
AssertsHold == ~failed

(* They do if only the loop's thread calls Shutdown, and a server that is  *)
(* destroyed shares its connections' loop and none of them is shut down.   *)
Careful == /\ setup.shutters \subseteq {Io}
           /\ setup.dies => ~setup.pooled /\ setup.shutters = {}

CarefulUseSafe == Careful => AssertsHold

(* The bytes the kernel took, followed by those queued, are whole messages *)
(* and each thread's in the order it sent them: neither a partial write    *)
(* nor a direct write while others are queued cuts or reorders any.        *)
StreamIntact ==
  LET s == wire \o output
      Last(b) == b[2] % MsgLen = 0
      First(b) == (b[2] - 1) % MsgLen = 0
  IN \A i \in DOMAIN s :
       /\ ~Last(s[i]) => i < Len(s) /\ s[i + 1] = <<s[i][1], s[i][2] + 1>>
       /\ ~First(s[i]) => i > 1 /\ s[i - 1] = <<s[i][1], s[i][2] - 1>>
       /\ \A j \in 1..(i - 1) : s[j][1] = s[i][1] => s[j][2] < s[i][2]

(* What is lost of a thread's data is lost at its end: no message is sent  *)
(* or queued after one that was dropped, unless Shutdown on another thread *)
(* reopened the connection in between.                                     *)
NothingSkipped ==
  setup.shutters \subseteq {Io} =>
    LET s == wire \o output
    IN \A i \in DOMAIN s :
         s[i][2] > 1 => \E j \in 1..(i - 1) : s[j] = <<s[i][1], s[i][2] - 1>>

(* While the channel is polled, it asks for POLLOUT exactly when there is  *)
(* output: neither a busy loop nor bytes that nothing will ever write.     *)
WritingIffOutput == slot = "watched" => (Writing <=> output # <<>>)

(* Bytes that were queued are going to be written: the channel is polled   *)
(* and no SHUT_WR came before them, even when Shutdown was called behind   *)
(* them.  Only a peer that left, if just with a half-close, or a destroyed *)
(* server makes the connection drop them.                                  *)
OutputKept ==
  output # <<>> => IF slot = "watched" THEN ~shut ELSE peer # "open" \/ setup.dies

(* A Shutdown takes effect, now or once the output is drained, unless the  *)
(* connection is closed first, whichever thread calls it and however its   *)
(* steps interleave with HandleWrite.  SIGPIPE may end the process first.  *)
ShutdownCompletes ==
  (state = "DISCONNECTING" /\ slot = "watched")
    ~> (shut \/ slot # "watched" \/ failed \/ killed)

(* Once the peer has left, the connection is closed, erased by the server  *)
(* and its channel removed, unless an assert fails (AssertsHold says when  *)
(* none does) or something is written before that and SIGPIPE kills the    *)
(* process.                                                                *)
PeerLeftIsRemoved == (peer # "open") ~> (slot = "removed" \/ failed \/ killed)
=============================================================================
