------------------------------ MODULE EventLoop ------------------------------
(***************************************************************************)
(* SummerNet/net/EventLoop: one loop per thread, and functors handed from  *)
(* thread to thread.                                                       *)
(*                                                                         *)
(* A loop's thread repeats: block in poll(2), run the callbacks of the     *)
(* channels that are ready, then take all pending functors in one swap     *)
(* under the mutex and run them.  Another thread hands a functor over in   *)
(* two steps, push_back under the mutex and then an 8-byte write to the    *)
(* loop's wakeup pipe; anything may happen in between.  The pipe is a      *)
(* blocking one of finite capacity, counted here in 8-byte messages, and   *)
(* each iteration of the loop reads at most one message back.              *)
(*                                                                         *)
(* A functor is an opaque value.  Its body, like the callback of an I/O    *)
(* channel, is user code: while it lasts (pc = "functor" or "callback")    *)
(* the loop's thread may itself call RunInLoop and Quit, on any loop.      *)
(***************************************************************************)
EXTENDS Naturals, Sequences, FiniteSets

CONSTANTS Loops,     \* the event loops; l also names the thread that runs l
          Clients,   \* threads that run no event loop
          Functors,  \* functor objects, each handed over at most once
          PipeCap,   \* 8-byte messages a wakeup pipe holds before write blocks
          None       \* "no loop"

ASSUME PipeCapAssumption == PipeCap \in Nat \ {0}
ASSUME ThreadAssumption == Loops \cap Clients = {} /\ None \notin Loops

Threads == Loops \cup Clients

VARIABLES
  pc,        \* pc[l]: where l's thread is
  looping,   \* looping_
  quit,      \* quit_
  handling,  \* handlingPendingFunctors_
  pending,   \* pendingFunctors_, guarded by mutex_
  functors,  \* the local vector of HandlePendingFunctors, executed ones removed
  active,    \* activeChannels_, handled ones removed
  pipe,      \* messages in the wakeup pipe
  waking,    \* waking[t]: the loop that thread t has yet to write a wakeup to
  fresh,     \* functors nobody has handed over yet
  ran        \* history: ran[l] lists the functors l has executed, in order

vars == <<pc, looping, quit, handling, pending, functors, active, pipe,
          waking, fresh, ran>>

queueVars == <<pending, fresh, ran>>
loopVars  == <<pc, looping, quit, handling, functors, active>>

(* "io" stands for every channel but the wakeup channel.                   *)
ChannelKinds == {"wakeup", "io"}

PCs == {"idle", "test", "poll", "events", "callback", "run", "functor"}

TypeOK ==
  /\ pc \in [Loops -> PCs]
  /\ looping \in [Loops -> BOOLEAN]
  /\ quit \in [Loops -> BOOLEAN]
  /\ handling \in [Loops -> BOOLEAN]
  /\ pending \in [Loops -> Seq(Functors)]
  /\ functors \in [Loops -> Seq(Functors)]
  /\ active \in [Loops -> SUBSET ChannelKinds]
  /\ pipe \in [Loops -> 0..PipeCap]
  /\ waking \in [Threads -> Loops \cup {None}]
  /\ fresh \in SUBSET Functors
  /\ ran \in [Loops -> Seq(Functors)]

Init ==
  /\ pc = [l \in Loops |-> "idle"]
  /\ looping = [l \in Loops |-> FALSE]
  /\ quit = [l \in Loops |-> FALSE]
  /\ handling = [l \in Loops |-> FALSE]
  /\ pending = [l \in Loops |-> <<>>]
  /\ functors = [l \in Loops |-> <<>>]
  /\ active = [l \in Loops |-> {}]
  /\ pipe = [l \in Loops |-> 0]
  /\ waking = [t \in Threads |-> None]
  /\ fresh = Functors
  /\ ran = [l \in Loops |-> <<>>]

-----------------------------------------------------------------------------
(* Calls made by user code.                                                *)

(* Thread t executes user code: a client thread always does; a loop's      *)
(* thread does outside Loop(), in a channel callback and in a functor.     *)
(* A thread blocked in Wakeup()'s write is in none of them.                *)
CanCall(t) == /\ waking[t] = None
              /\ t \in Loops => pc[t] \in {"idle", "callback", "functor"}

IsInLoopThread(t, l) == t = l

(* Faulty variant: only functors queued by a functor wake the loop up.     *)
NeedsWakeup_OnlyNested(t, l) == handling[l]

NeedsWakeup(t, l) == ~IsInLoopThread(t, l) \/ handling[l]

(* RunInLoop on the loop's own thread: functor() before returning.         *)
RunNow(t, l, f) ==
  /\ CanCall(t)
  /\ IsInLoopThread(t, l)
  /\ f \in fresh
  /\ fresh' = fresh \ {f}
  /\ ran' = [ran EXCEPT ![l] = Append(@, f)]
  /\ UNCHANGED <<loopVars, pending, pipe, waking>>

(* RunInLoop on another thread: QueueInLoop's critical section.  The call  *)
(* of Wakeup() that follows it is a step of its own.                       *)
QueueInLoop(t, l, f) ==
  /\ CanCall(t)
  /\ ~IsInLoopThread(t, l)
  /\ f \in fresh
  /\ fresh' = fresh \ {f}
  /\ pending' = [pending EXCEPT ![l] = Append(@, f)]
  /\ waking' = [waking EXCEPT ![t] = IF NeedsWakeup(t, l) THEN l ELSE None]
  /\ UNCHANGED <<loopVars, ran, pipe>>

(* Faulty variant: the write never blocks.                                 *)
Wakeup_NeverBlocks(t) ==
  /\ waking[t] # None
  /\ pipe' = [pipe EXCEPT ![waking[t]] = @ + 1]
  /\ waking' = [waking EXCEPT ![t] = None]
  /\ UNCHANGED <<loopVars, queueVars>>

(* Faulty variant: the write may be repeated after it succeeded.           *)
Wakeup_Repeats(t) ==
  /\ waking[t] # None
  /\ pipe[waking[t]] < PipeCap
  /\ pipe' = [pipe EXCEPT ![waking[t]] = @ + 1]
  /\ waking' \in {waking, [waking EXCEPT ![t] = None]}
  /\ UNCHANGED <<loopVars, queueVars>>

(* The write of Wakeup(); it blocks while the pipe is full.                *)
Wakeup(t) ==
  /\ waking[t] # None
  /\ pipe[waking[t]] < PipeCap
  /\ pipe' = [pipe EXCEPT ![waking[t]] = @ + 1]
  /\ waking' = [waking EXCEPT ![t] = None]
  /\ UNCHANGED <<loopVars, queueVars>>

(* Quit() only sets the flag: it does not wake the loop up.                *)
Quit(t, l) ==
  /\ CanCall(t)
  /\ quit' = [quit EXCEPT ![l] = TRUE]
  /\ UNCHANGED <<queueVars, pc, looping, handling, functors, active, pipe, waking>>

-----------------------------------------------------------------------------
(* The loop's thread, inside Loop().                                       *)

(* Entry of Loop().  A Quit() made before this point is forgotten.         *)
Loop(l) ==
  /\ pc[l] = "idle" /\ waking[l] = None
  /\ ~looping[l]
  /\ quit' = [quit EXCEPT ![l] = FALSE]
  /\ looping' = [looping EXCEPT ![l] = TRUE]
  /\ pc' = [pc EXCEPT ![l] = "test"]
  /\ UNCHANGED <<queueVars, handling, functors, active, pipe, waking>>

(* Faulty variant: quit_ = false inside the while loop.                    *)
Iterate_ClearsQuit(l) ==
  /\ pc[l] = "test"
  /\ quit' = [quit EXCEPT ![l] = FALSE]
  /\ active' = [active EXCEPT ![l] = {}]
  /\ pc' = [pc EXCEPT ![l] = "poll"]
  /\ UNCHANGED <<queueVars, looping, handling, functors, pipe, waking>>

(* while(!quit_)                                                           *)
Iterate(l) ==
  /\ pc[l] = "test"
  /\ ~quit[l]
  /\ active' = [active EXCEPT ![l] = {}]
  /\ pc' = [pc EXCEPT ![l] = "poll"]
  /\ UNCHANGED <<queueVars, looping, quit, handling, functors, pipe, waking>>

Stop(l) ==
  /\ pc[l] = "test"
  /\ quit[l]
  /\ looping' = [looping EXCEPT ![l] = FALSE]
  /\ pc' = [pc EXCEPT ![l] = "idle"]
  /\ UNCHANGED <<queueVars, quit, handling, functors, active, pipe, waking>>

(* poll(2) returns with the channels cs ready.                             *)
PollReturns(l, cs) ==
  /\ pc[l] = "poll"
  /\ active' = [active EXCEPT ![l] = cs]
  /\ pc' = [pc EXCEPT ![l] = "events"]
  /\ UNCHANGED <<queueVars, looping, quit, handling, functors, pipe, waking>>

(* The wakeup pipe is readable, some other channel may be ready as well.   *)
PollWakeup(l) == /\ pipe[l] > 0
                 /\ \E cs \in SUBSET ChannelKinds : "wakeup" \in cs /\ PollReturns(l, cs)

(* Only another channel is ready.                                          *)
PollIo(l) == pipe[l] = 0 /\ PollReturns(l, {"io"})

(* Nothing is ready for PollTimeout milliseconds.                          *)
PollTimeout(l) == pipe[l] = 0 /\ PollReturns(l, {})

(* poll(2) fails (EINTR): no channel is handled in this iteration.         *)
PollFails(l) == PollReturns(l, {})

(* Faulty variant: the wakeup callback leaves the message in the pipe.     *)
HandleRead_ReadsNothing(l) ==
  /\ pc[l] = "events" /\ "wakeup" \in active[l]
  /\ active' = [active EXCEPT ![l] = @ \ {"wakeup"}]
  /\ UNCHANGED <<queueVars, pc, looping, quit, handling, functors, pipe, waking>>

(* EventLoop::HandleRead, the callback of the wakeup channel: one message  *)
(* is read, however many there are.                                        *)
HandleRead(l) ==
  /\ pc[l] = "events" /\ "wakeup" \in active[l]
  /\ pipe[l] > 0
  /\ pipe' = [pipe EXCEPT ![l] = @ - 1]
  /\ active' = [active EXCEPT ![l] = @ \ {"wakeup"}]
  /\ UNCHANGED <<queueVars, pc, looping, quit, handling, functors, waking>>

(* Another channel's callback, entered and left.                           *)
BeginCallback(l) ==
  /\ pc[l] = "events" /\ "io" \in active[l]
  /\ active' = [active EXCEPT ![l] = @ \ {"io"}]
  /\ pc' = [pc EXCEPT ![l] = "callback"]
  /\ UNCHANGED <<queueVars, looping, quit, handling, functors, pipe, waking>>

EndCallback(l) ==
  /\ pc[l] = "callback" /\ waking[l] = None
  /\ pc' = [pc EXCEPT ![l] = "events"]
  /\ UNCHANGED <<queueVars, looping, quit, handling, functors, active, pipe, waking>>

(* Faulty variant: pendingFunctors_ is copied, not swapped.                *)
LeftBehind_Copied(l) == pending[l]

(* What pendingFunctors_ holds once the critical section of                *)
(* HandlePendingFunctors has swapped it with the local vector, which each  *)
(* call constructs empty.                                                  *)
LeftBehind(l) == <<>>

(* HandlePendingFunctors up to the end of its critical section.            *)
TakeFunctors(l) ==
  /\ pc[l] = "events" /\ active[l] = {}
  /\ handling' = [handling EXCEPT ![l] = TRUE]
  /\ functors' = [functors EXCEPT ![l] = pending[l]]
  /\ pending' = [pending EXCEPT ![l] = LeftBehind(l)]
  /\ pc' = [pc EXCEPT ![l] = "run"]
  /\ UNCHANGED <<looping, quit, active, pipe, waking, fresh, ran>>

(* One functor() of its loop, entered and left.                            *)
BeginFunctor(l) ==
  /\ pc[l] = "run" /\ functors[l] # <<>>
  /\ ran' = [ran EXCEPT ![l] = Append(@, Head(functors[l]))]
  /\ functors' = [functors EXCEPT ![l] = Tail(@)]
  /\ pc' = [pc EXCEPT ![l] = "functor"]
  /\ UNCHANGED <<looping, quit, handling, pending, active, pipe, waking, fresh>>

EndFunctor(l) ==
  /\ pc[l] = "functor" /\ waking[l] = None
  /\ pc' = [pc EXCEPT ![l] = "run"]
  /\ UNCHANGED <<queueVars, looping, quit, handling, functors, active, pipe, waking>>

(* The functors are exhausted: back to the head of the while loop.         *)
FinishFunctors(l) ==
  /\ pc[l] = "run" /\ functors[l] = <<>>
  /\ handling' = [handling EXCEPT ![l] = FALSE]
  /\ pc' = [pc EXCEPT ![l] = "test"]
  /\ UNCHANGED <<queueVars, looping, quit, functors, active, pipe, waking>>

-----------------------------------------------------------------------------
Call(t) == \E l \in Loops : \/ Quit(t, l)
                            \/ \E f \in Functors : RunNow(t, l, f) \/ QueueInLoop(t, l, f)

(* The steps l's thread takes on its own, once inside Loop().              *)
LoopStep(l) == \/ Iterate(l) \/ Stop(l)
               \/ PollWakeup(l)
               \/ HandleRead(l) \/ BeginCallback(l) \/ EndCallback(l)
               \/ TakeFunctors(l) \/ BeginFunctor(l) \/ EndFunctor(l)
               \/ FinishFunctors(l)

Next == \/ \E t \in Threads : Call(t) \/ Wakeup(t)
        \/ \E l \in Loops : Loop(l) \/ LoopStep(l)
                         \/ PollIo(l) \/ PollTimeout(l) \/ PollFails(l)

Spec == Init /\ [][Next]_vars

(* Threads are scheduled, callbacks and functors return, and a write to a  *)
(* pipe with room completes.  Nothing is assumed of poll's timeout or of   *)
(* other channels becoming ready.                                          *)
ThreadFairness == /\ \A l \in Loops : WF_vars(LoopStep(l))
                  /\ \A t \in Threads : WF_vars(Wakeup(t))

FairSpec == Spec /\ ThreadFairness

(* Two more assumptions that some of the properties below make: poll(2)    *)
(* returns after PollTimeout when nothing is ready,                        *)
TimesOut(l) == WF_vars(PollTimeout(l))

(* and does not fail each time a wakeup could be reported.                 *)
PollsWell(l) == SF_vars(PollWakeup(l))

-----------------------------------------------------------------------------
(* Properties                                                              *)

(* No lost wakeup: while functors are pending, a wakeup message is in the  *)
(* pipe, or a thread is about to write one, or the loop's thread has left  *)
(* poll(2) and not yet taken the functors.  So it never sleeps on them.    *)
NoLostWakeup ==
  \A l \in Loops :
    pending[l] # <<>> => \/ pipe[l] > 0
                        \/ \E t \in Threads : waking[t] = l
                        \/ pc[l] \in {"events", "callback"}

(* EventLoop implements FunctorQueue: whatever the threads' interleaving,  *)
(* however often the loop is quit and restarted, every functor posted by   *)
(* another thread is executed once, in posting order, by the loop's thread.*)
FQ == INSTANCE FunctorQueue WITH queue <- [l \in Loops |-> functors[l] \o pending[l]]

Implements == FQ!Spec

(* A functor posted to a looping loop is executed unless the loop is told  *)
(* to quit and leaves Loop() first, though poll(2) is never assumed to     *)
(* time out, or its thread stays blocked in a wakeup write to another loop.*)
PostedRuns ==
  \A l \in Loops, f \in Functors :
    (looping[l] /\ \E i \in DOMAIN pending[l] : pending[l][i] = f)
      ~> \/ ~looping[l] \/ \E i \in DOMAIN ran[l] : ran[l][i] = f
         \/ [](waking[l] # None)

(* Quit() writes no wakeup, yet a looping loop that is told to quit leaves *)
(* Loop(), at the latest when poll(2) times out, unless its thread stays   *)
(* blocked in a wakeup write to another loop.                              *)
QuitStops ==
  \A l \in Loops : TimesOut(l) =>
    ((looping[l] /\ quit[l]) ~> (~looping[l] \/ [](waking[l] # None)))

(* The thread of m writes a wakeup to loop k, which is itself blocked in   *)
(* such a write or does not loop: nobody reads the pipe m may wait for.    *)
BlockedOn(m, k) == waking[m] = k /\ (waking[k] # None \/ ~looping[k])

(* Backpressure resolves itself: a thread blocked on the full pipe of a    *)
(* looping loop l gets through unless l is told to quit and leaves Loop(), *)
(* or l's own thread is for good blocked on a loop that reads nothing.     *)
WriterReleased ==
  (\A m \in Loops : PollsWell(m)) =>
    \A t \in Threads, l \in Loops :
      (waking[t] = l /\ looping[l])
        ~> \/ waking[t] # l
           \/ ~looping[l]
           \/ [](\E m \in Loops : BlockedOn(l, m))

(* Two loops can block for ever, each on the other's full pipe.  It takes  *)
(* PipeCap + 1 functors posted each way, however few are still pending.    *)
MutualBlockNeedsBacklog ==
  \A l, m \in Loops :
    (/\ waking[l] = m /\ pipe[m] = PipeCap
     /\ waking[m] = l /\ pipe[l] = PipeCap)
      => Cardinality(Functors \ fresh) >= 2 * PipeCap + 2
=============================================================================
