------------------------------ MODULE TcpServer ------------------------------
(***************************************************************************)
(* SummerNet/net/TcpServer with its Acceptor: many connections on the      *)
(* server's own loop, or on those of its pool in turn.                     *)
(*                                                                         *)
(* Every loop's thread goes round: poll, the callbacks of the channels     *)
(* that were ready, then the functors that were posted to it, taken in one *)
(* batch.  The functors hold references to connections until the batch is  *)
(* destroyed.  A connection lives while the server's map, a functor or its *)
(* user refers to it; the last reference, on whichever thread it is        *)
(* dropped, closes the descriptor, which the next accept may return again. *)
(*                                                                         *)
(* Of a connection only what the server relies on is kept: its state, its  *)
(* channel's slot and the callbacks its user got, with what Send and       *)
(* Shutdown may do to them on any thread (TcpConnection has the bytes and  *)
(* the functors).  How a hand-over wakes a loop up is in EventLoop, how a  *)
(* pool's threads start and stop in LoopThreads.                           *)
(***************************************************************************)
EXTENDS Naturals, Sequences, Functions

CONSTANTS MaxThreads,  \* bound: loops of the pool
          MaxConns,    \* bound: connections accepted
          MaxShared,   \* bound: of which threads but their loop's shut down
          Fds,         \* the descriptors the process may still open
          None         \* "no descriptor", "no loop"

ASSUME BoundAssumption == MaxThreads \in Nat /\ MaxConns \in Nat /\ MaxShared \in Nat
ASSUME NoneAssumption == None \notin Fds \cup Nat

Base     == 0                 \* the server's own loop
Loops    == 0..MaxThreads
Conns    == 1..MaxConns
Listener == 0                 \* the acceptor's channel

VARIABLES
  threadNum,     \* loops of the pool
  server,        \* "new"; "up": listening; destroyed in a functor: "gone", or
                 \* in the callback of another channel of its loop: "torn"
  turn,          \* the pool's next_
  connectionId,  \* connectionId_
  map,           \* connectionMap_
  conn,          \* the connections
  users,         \* those that user code, or a Send or Shutdown it called,
                 \* refers to
  shutting,      \* those that a thread has found connected in Shutdown(), and
                 \* is about to mark
  left,          \* those whose peer has left
  waiting,       \* clients waiting to be accepted
  pc,            \* where each loop's thread is
  active,        \* channels ready and not yet handled
  queue,         \* functors posted to each loop
  batch,         \* functors taken and not yet executed
  held,          \* connections the executed ones still refer to
  failed         \* what ended the program

serverVars == <<server, map>>
acceptVars == <<turn, connectionId, waiting>>
loopVars   == <<pc, active, batch, held>>
farVars    == <<left, shutting>>
vars == <<threadNum, serverVars, acceptVars, conn, users, farVars, loopVars, queue, failed>>

Functor == [op : {"established", "remove", "destroyed"}, conn : Conns]

Connection == [loop : Loops \cup {None}, fd : Fds \cup {None},
               state : {"none", "CONNECTING", "CONNECTED", "DISCONNECTING", "DISCONNECTED"},
               slot : {"none", "watched", "ignored", "writing", "removed"}, calls : 0..2]

TypeOK ==
  /\ threadNum \in 0..MaxThreads
  /\ server \in {"new", "up", "gone", "torn"}
  /\ turn \in 0..MaxThreads /\ (turn < threadNum \/ turn = 0)
  /\ connectionId \in 0..MaxConns /\ waiting \in 0..(MaxConns - connectionId)
  /\ map \subseteq 1..connectionId /\ users \subseteq 1..connectionId /\ left \subseteq 1..connectionId
  /\ shutting \subseteq users
  /\ conn \in [Conns -> Connection]
  /\ pc \in [Loops -> {"poll", "events", "run", "stopped"}]
  /\ active \in [Loops -> SUBSET (Conns \cup {Listener})]
  /\ queue \in [Loops -> Seq(Functor)] /\ batch \in [Loops -> Seq(Functor)]
  /\ held \in [Loops -> SUBSET Conns]
  /\ failed \in {"no", "accept", "destructor", "assert", "dangling", "sigpipe"}

(* The base thread is not in Loop() yet.                                   *)
Init ==
  /\ threadNum \in 0..MaxThreads
  /\ server = "new"
  /\ turn = 0 /\ connectionId = 0
  /\ map = {}
  /\ conn = [c \in Conns |-> [loop |-> None, fd |-> None, state |-> "none",
                              slot |-> "none", calls |-> 0]]
  /\ users = {} /\ left = {} /\ shutting = {} /\ waiting = 0
  /\ pc = [l \in Loops |-> IF l = Base THEN "run" ELSE "poll"]
  /\ active = [l \in Loops |-> {}]
  /\ queue = [l \in Loops |-> <<>>] /\ batch = [l \in Loops |-> <<>>]
  /\ held = [l \in Loops |-> {}]
  /\ failed = "no"

-----------------------------------------------------------------------------
(* References and descriptors.                                             *)

(* Faulty variant: std::bind with a plain pointer to the connection.       *)
Holds_Pointer(f) == IF f.op = "destroyed" THEN {} ELSE {f.conn}

(* The references a functor holds.                                         *)
Holds(f) == {f.conn}

InFunctors(l) == held[l] \cup UNION {Holds(f) : f \in Range(queue[l] \o batch[l])}

HeldByLibrary == map \cup UNION {InFunctors(l) : l \in Loops}

Alive(c) == c \in HeldByLibrary \cup users

OpenFds == {conn[c].fd : c \in {e \in Conns : Alive(e)}}

(* "writing": it was ignored, and asks for POLLOUT again, to no avail.      *)
Registered(c) == conn[c].slot \in {"watched", "ignored", "writing"}

-----------------------------------------------------------------------------
(* What a method makes of connection r.                                    *)

Established(r) == [r EXCEPT !.state = "CONNECTED", !.slot = "watched", !.calls = @ + 1]

(* The poller of r's loop knows no channel with r's descriptor.            *)
EstablishedAsserts(r) ==
  /\ r.state = "CONNECTING"
  /\ \A c \in Conns : Registered(c) /\ conn[c].loop = r.loop => conn[c].fd # r.fd

Closed(r) == [r EXCEPT !.state = "DISCONNECTED", !.slot = "ignored", !.calls = @ + 1]

(* HandleClose's, and that of the UpdateChannel it calls.                  *)
ClosedAsserts(r) == r.state \in {"CONNECTED", "DISCONNECTING"} /\ r.slot # "removed"

(* Faulty variant: the user is told once more.                             *)
Disabled_Always(r) == Closed(r)

(* ConnectionDestroyed in front of channel_->Remove().                     *)
Disabled(r) == IF r.state = "CONNECTED" THEN Closed(r) ELSE r

(* A Shutdown that marks a connection too late lets a Send through to it,  *)
(* whose EnableWriting the poller does not act upon.                       *)
Reopen(r) == [r EXCEPT !.state = "DISCONNECTING", !.slot = "writing"]

Destroyed(r) == [Disabled(r) EXCEPT !.slot = "removed"]

DestroyedAsserts(r) == Disabled(r).slot = "ignored"

AssertThat(a) == failed' = IF a THEN "no" ELSE "assert"

Post(l, op, c) == queue' = [queue EXCEPT ![l] = Append(@, [op |-> op, conn |-> c])]

-----------------------------------------------------------------------------
(* Accepting.                                                              *)

(* User code runs on the base thread, in a functor or outside Loop(); in   *)
(* the callback of a channel that is not the server's, a timer's perhaps.  *)
InFunctor  == pc[Base] = "run"
InCallback == pc[Base] = "events"

(* Start(): the pool's loops run, the acceptor listens.                    *)
Start ==
  /\ server = "new" /\ InFunctor
  /\ server' = "up"
  /\ UNCHANGED <<threadNum, map, acceptVars, conn, users, farVars, loopVars, queue, failed>>

ClientArrives ==
  /\ server = "up" /\ waiting + connectionId < MaxConns
  /\ waiting' = waiting + 1
  /\ UNCHANGED <<threadNum, serverVars, turn, connectionId, conn, users, farVars, loopVars,
                 queue, failed>>

(* It may leave before it is accepted, even after poll(2) reported it.     *)
ClientGivesUp ==
  /\ waiting > 0
  /\ waiting' = waiting - 1
  /\ UNCHANGED <<threadNum, serverVars, turn, connectionId, conn, users, farVars, loopVars,
                 queue, failed>>

NextLoop == IF threadNum = 0 THEN Base ELSE turn + 1

(* Faulty variant: wraps round one too late.                               *)
Advance_Late == IF turn + 1 > threadNum THEN 0 ELSE turn + 1

Advance == IF turn + 1 >= threadNum THEN 0 ELSE turn + 1

(* NewConnection with the descriptor d.  ConnectionEstablished runs before *)
(* it returns or is posted; its callback may keep a reference.             *)
NewConnection(d) ==
  LET c == connectionId + 1
      r == [loop |-> NextLoop, fd |-> d, state |-> "CONNECTING", slot |-> "none", calls |-> 0]
  IN /\ connectionId' = c
     /\ turn' = Advance
     /\ map' = map \cup {c}
     /\ IF r.loop = Base
        THEN /\ AssertThat(EstablishedAsserts(r))
             /\ conn' = [conn EXCEPT ![c] = Established(r)]
             /\ users' \in {users, users \cup {c}}
             /\ UNCHANGED queue
        ELSE /\ conn' = [conn EXCEPT ![c] = r]
             /\ Post(r.loop, "established", c)
             /\ UNCHANGED <<users, failed>>

Handling(l, ch) == /\ pc[l] = "events" /\ ch \in active[l]
                   /\ active' = [active EXCEPT ![l] = @ \ {ch}]

(* Acceptor::HandleRead when accept(2) succeeds.                           *)
Accept ==
  /\ Handling(Base, Listener) /\ server = "up"
  /\ waiting > 0 /\ waiting' = waiting - 1
  /\ \E d \in Fds \ OpenFds : NewConnection(d)
  /\ UNCHANGED <<threadNum, server, farVars, pc, batch, held>>

(* No descriptor is left, or the client is gone: accept(2) returns -1, on  *)
(* which SetNonblockAndCloseOnExec ends the program.                       *)
AcceptFails ==
  /\ Handling(Base, Listener) /\ server = "up"
  /\ waiting = 0 \/ OpenFds = Fds
  /\ failed' = "accept"
  /\ UNCHANGED <<threadNum, serverVars, acceptVars, conn, users, farVars, pc, batch, held, queue>>

-----------------------------------------------------------------------------
(* The loops.                                                              *)

Ready(l) == {c \in left : conn[c].loop = l /\ conn[c].slot = "watched"}
            \cup {ch \in {Listener} : l = Base /\ server = "up" /\ waiting > 0}

(* A pool's loop that was told to quit may go round once more.             *)
Poll(l) ==
  /\ pc[l] = "poll" /\ (Ready(l) # {} \/ queue[l] # <<>>)
  /\ active' = [active EXCEPT ![l] = Ready(l)]
  /\ pc' = [pc EXCEPT ![l] = "events"]
  /\ UNCHANGED <<threadNum, serverVars, acceptVars, conn, users, farVars, batch, held, queue, failed>>

(* HandleClose, and RemoveConnection as its closeCallback_: on the base    *)
(* loop the connection is erased and destroyed before it returns.          *)
HandleClose(l, c) ==
  /\ c \in Conns /\ Handling(l, c) /\ Alive(c)
  /\ LET r == conn[c] IN
       IF l = Base
       THEN /\ AssertThat(ClosedAsserts(r) /\ c \in map /\ DestroyedAsserts(Closed(r)))
            /\ conn' = [conn EXCEPT ![c] = IF failed' = "no" THEN Destroyed(Closed(r)) ELSE r]
            /\ map' = map \ {c}
            /\ UNCHANGED queue
       ELSE /\ AssertThat(ClosedAsserts(r))
            /\ conn' = [conn EXCEPT ![c] = IF failed' = "no" THEN Closed(r) ELSE r]
            /\ Post(Base, "remove", c)
            /\ UNCHANGED map
  /\ UNCHANGED <<threadNum, server, acceptVars, users, farVars, pc, batch, held>>

(* On the base loop, when a Shutdown on another thread marks the           *)
(* connection before its callback, in which the user sends, returns:       *)
(* POLLOUT is asked for again, and Channel::Remove's assert fails.         *)
HandleCloseReopens(c) ==
  /\ Handling(Base, c) /\ Alive(c) /\ c \in shutting
  /\ ClosedAsserts(conn[c])
  /\ conn' = [conn EXCEPT ![c] = Reopen(Closed(@))]
  /\ map' = map \ {c}
  /\ failed' = "assert"
  /\ UNCHANGED <<threadNum, server, acceptVars, users, farVars, pc, batch, held, queue>>

(* The loop calls a channel that no longer exists.                         *)
HandleDangling(l, ch) ==
  /\ Handling(l, ch)
  /\ IF ch = Listener THEN server # "up" ELSE ~Alive(ch)
  /\ failed' = "dangling"
  /\ UNCHANGED <<threadNum, serverVars, acceptVars, conn, users, farVars, pc, batch, held, queue>>

TakeBatch(l) ==
  /\ pc[l] = "events" /\ active[l] = {}
  /\ pc' = [pc EXCEPT ![l] = "run"]
  /\ batch' = [batch EXCEPT ![l] = queue[l]]
  /\ queue' = [queue EXCEPT ![l] = <<>>]
  /\ UNCHANGED <<threadNum, serverVars, acceptVars, conn, users, farVars, active, held, failed>>

Running(l, op, c) ==
  /\ pc[l] = "run" /\ batch[l] # <<>> /\ Head(batch[l]) = [op |-> op, conn |-> c]
  /\ batch' = [batch EXCEPT ![l] = Tail(@)]
  /\ held' = [held EXCEPT ![l] = @ \cup Holds(Head(batch[l]))]
  /\ UNCHANGED <<threadNum, server, acceptVars, farVars, pc, active>>

ConnectionEstablished(l, c) ==
  /\ Running(l, "established", c)
  /\ AssertThat(l = conn[c].loop /\ EstablishedAsserts(conn[c]))
  /\ conn' = [conn EXCEPT ![c] = Established(@)]
  /\ users' \in {users, users \cup {c}}
  /\ UNCHANGED <<map, queue>>

(* Faulty variant: on the server's loop, as ~TcpServer does.               *)
DestroyOn_Server(c) == Base

DestroyOn(c) == conn[c].loop

(* Faulty variant: the connection is only forgotten.                       *)
RemoveConnectionInLoop_Only(l, c) ==
  /\ Running(l, "remove", c)
  /\ AssertThat(l = Base /\ c \in map)
  /\ map' = map \ {c}
  /\ UNCHANGED <<conn, users, queue>>

RemoveConnectionInLoop(l, c) ==
  /\ Running(l, "remove", c)
  /\ AssertThat(l = Base /\ c \in map)
  /\ map' = map \ {c}
  /\ Post(DestroyOn(c), "destroyed", c)
  /\ UNCHANGED <<conn, users>>

ConnectionDestroyed(l, c) ==
  /\ Running(l, "destroyed", c)
  /\ AssertThat(l = conn[c].loop /\ DestroyedAsserts(conn[c]))
  /\ conn' = [conn EXCEPT ![c] = IF failed' = "no" THEN Destroyed(@) ELSE @]
  /\ UNCHANGED <<map, users, queue>>

(* The batch goes out of scope, and its references with it.                *)
EndBatch(l) ==
  /\ pc[l] = "run" /\ batch[l] = <<>>
  /\ held' = [held EXCEPT ![l] = {}]
  /\ pc' = [pc EXCEPT ![l] = "poll"]
  /\ UNCHANGED <<threadNum, serverVars, acceptVars, conn, users, farVars, active, batch, queue, failed>>

(* A pool's loop sees the Quit() of ~EventLoopThreadPool; the functors it  *)
(* has not taken are destroyed with it.                                    *)
StopLoop(l) ==
  /\ l # Base /\ server \in {"gone", "torn"} /\ pc[l] = "poll"
  /\ pc' = [pc EXCEPT ![l] = "stopped"]
  /\ queue' = [queue EXCEPT ![l] = <<>>]
  /\ UNCHANGED <<threadNum, serverVars, acceptVars, conn, users, farVars, active, batch, held, failed>>

-----------------------------------------------------------------------------
(* Users and peers.                                                        *)

(* A user, or the last functor of its, drops the reference, on any thread. *)
Release(c) ==
  /\ c \in users \ shutting /\ users' = users \ {c}
  /\ UNCHANGED <<threadNum, serverVars, acceptVars, conn, farVars, loopVars, queue, failed>>

InUserCode(l) == pc[l] \in {"events", "run"}

(* User code calls Shutdown on the connection's loop.                      *)
Shutdown(c) ==
  /\ Alive(c) /\ conn[c].state = "CONNECTED" /\ InUserCode(conn[c].loop)
  /\ conn' = [conn EXCEPT ![c].state = "DISCONNECTING"]
  /\ UNCHANGED <<threadNum, serverVars, acceptVars, users, farVars, loopVars, queue, failed>>

(* Another thread calls it: if(state_ == CONNECTED) ...                    *)
ShutdownCheck(c) ==
  /\ c \in users \ shutting /\ c <= MaxShared /\ conn[c].state = "CONNECTED"
  /\ shutting' = shutting \cup {c}
  /\ UNCHANGED <<threadNum, serverVars, acceptVars, conn, users, left, loopVars, queue, failed>>

(* ... state_ = DISCONNECTING.  There may be more such threads.            *)
ShutdownStore(c) ==
  /\ c \in shutting /\ shutting' \in {shutting, shutting \ {c}}
  /\ conn' = [conn EXCEPT ![c].state = "DISCONNECTING"]
  /\ UNCHANGED <<threadNum, serverVars, acceptVars, users, left, loopVars, queue, failed>>

(* SendInLoop, as far as the server is concerned.  What it writes to a     *)
(* peer that left or behind a SHUT_WR may raise SIGPIPE; and a connection  *)
(* that was closed and is DISCONNECTING again gets its writing enabled.    *)
Send(c) ==
  /\ Alive(c) /\ InUserCode(conn[c].loop)
  /\ \/ /\ conn[c].state = "DISCONNECTING" \/ (conn[c].state = "CONNECTED" /\ c \in left)
        /\ failed' = "sigpipe"
        /\ UNCHANGED conn
     \/ /\ conn[c].state = "DISCONNECTING" /\ conn[c].slot # "watched"
        /\ AssertThat(conn[c].slot # "removed")
        /\ conn' = [conn EXCEPT ![c] = IF failed' = "no" THEN Reopen(@) ELSE @]
  /\ UNCHANGED <<threadNum, serverVars, acceptVars, users, farVars, loopVars, queue>>

PeerLeaves(c) ==
  /\ c <= connectionId /\ c \notin left
  /\ left' = left \cup {c}
  /\ UNCHANGED <<threadNum, serverVars, acceptVars, conn, users, shutting, loopVars, queue,
                 failed>>

(* The asserts of ~TcpServer and its members: each connection is destroyed *)
(* on the base thread, and ~Acceptor removes a channel it has registered.  *)
(* They may fail too when a connection is reopened in its callback.        *)
DestructorAsserts ==
  /\ \A c \in map : conn[c].loop = Base /\ DestroyedAsserts(conn[c])
  /\ server = "up"

DestroyServer ==
  /\ server \in {"new", "up"} /\ (InFunctor \/ InCallback)
  /\ server' = IF InFunctor THEN "gone" ELSE "torn"
  /\ \/ /\ DestructorAsserts
        /\ conn' = [c \in Conns |-> IF c \in map THEN Destroyed(conn[c]) ELSE conn[c]]
        /\ map' = {}
        /\ UNCHANGED failed
     \/ /\ ~DestructorAsserts \/ map \cap shutting # {}
        /\ failed' = "destructor"
        /\ UNCHANGED <<conn, map>>
  /\ UNCHANGED <<threadNum, acceptVars, users, farVars, loopVars, queue>>

-----------------------------------------------------------------------------
LoopStep(l) ==
  /\ failed = "no"
  /\ \/ Poll(l) \/ TakeBatch(l) \/ EndBatch(l)
     \/ l = Base /\ (Accept \/ AcceptFails)
     \/ \E ch \in active[l] : \/ HandleClose(l, ch) \/ HandleDangling(l, ch)
                              \/ l = Base /\ HandleCloseReopens(ch)
     \/ \E c \in Conns : \/ ConnectionEstablished(l, c) \/ ConnectionDestroyed(l, c)
                         \/ RemoveConnectionInLoop(l, c)

UserStep ==
  /\ failed = "no"
  /\ \/ Start \/ DestroyServer \/ ClientArrives \/ ClientGivesUp
     \/ \E c \in Conns : \/ Release(c) \/ Shutdown(c) \/ ShutdownCheck(c) \/ ShutdownStore(c)
                         \/ Send(c) \/ PeerLeaves(c)
     \/ \E l \in Loops : StopLoop(l)

Next == UserStep \/ \E l \in Loops : LoopStep(l)

Spec == Init /\ [][Next]_vars

(* The loops' threads are scheduled and callbacks return; nothing is       *)
(* assumed of users, clients and peers.                                    *)
FairSpec == Spec /\ \A l \in Loops : WF_vars(LoopStep(l))

-----------------------------------------------------------------------------
(* Properties                                                              *)

(* A connection that is closed, on whose state_ a Shutdown came too late.  *)
Reopened(c) == conn[c].state = "DISCONNECTING" /\ conn[c].slot # "watched"

(* The asserts hold and every callback and functor meets what it refers to,*)
(* however connections, descriptors and threads are interleaved.  Three    *)
(* causes remain: ~TcpServer's own asserts ("destructor"), a server that   *)
(* was destroyed in a callback of its loop's while channels of its own     *)
(* were still to be handled, and a Shutdown on another thread that marks a *)
(* connection DISCONNECTING after it was closed, so that a Send enables    *)
(* its writing again.                                                      *)
AssertsHold ==
  failed \in {"assert", "dangling"} => server = "torn" \/ \E c \in Conns : Reopened(c)

(* The channel of every connection that a running loop's poller refers to, *)
(* or is about to call, exists: nothing closes a descriptor that is still  *)
(* polled, on whichever thread the last reference is dropped.              *)
RegisteredExists ==
  /\ \A c \in Conns : Registered(c) /\ pc[conn[c].loop] # "stopped" => Alive(c)
  /\ \A l \in Loops : server # "torn" => \A c \in active[l] \cap Conns : Alive(c)

(* TcpServer implements Sessions: no descriptor is shared or closed early, *)
(* each user is called back twice, also when the server is destroyed.      *)
Desc(c) == IF Alive(c) THEN conn[c].fd ELSE None

S == INSTANCE Sessions WITH calls <- [c \in Conns |-> conn[c].calls],
                            desc <- [c \in Conns |-> Desc(c)]

Implements == S!Spec

(* A connection whose peer has left is erased and removed from its poller, *)
(* and the library drops its last reference: only a user can keep the      *)
(* descriptor open.  Peers do not come back, and a released connection     *)
(* stays so: that there are always moments again at which all who left are *)
(* released says that each of them is, in the end.                         *)
Released(c) == /\ c \notin HeldByLibrary
               /\ \/ conn[c].slot = "removed"
                  \/ \E l \in Loops : conn[c].loop = l /\ pc[l] = "stopped"

LeaversReleased == []<>(failed # "no" \/ \A c \in left : Released(c))
=============================================================================
