----------------------------- MODULE LoopThreads -----------------------------
(***************************************************************************)
(* SummerNet/net/EventLoopThread and EventLoopThreadPool, on the Mutex and *)
(* Condition of SummerNet/base.                                            *)
(*                                                                         *)
(* A base thread starts threads one by one.  Each constructs an EventLoop  *)
(* on its own stack, publishes its address in loop_ under mutex_, notifies *)
(* and enters Loop(); Start() waits for the address.  The base thread is   *)
(* a pool, which hands its loops out in turn and only tells them to Quit   *)
(* when it is destroyed, or a user of single EventLoopThreads, whose       *)
(* destructor also joins the thread.                                       *)
(*                                                                         *)
(* The mutex is modelled with the field that IsLockedByThisThread reads,   *)
(* written before or after the pthread call but never together with it.    *)
(* What a loop does in Loop() until it sees quit_ is in EventLoop.         *)
(***************************************************************************)
EXTENDS Integers, Sequences

CONSTANTS MaxThreads,  \* bound: threads started
          MaxPicks,    \* bound: calls of GetNextLoop
          Asserts,     \* a build with asserts
          None         \* "no thread"

ASSUME BoundAssumption == MaxThreads \in Nat \ {0} /\ MaxPicks \in Nat
ASSUME FlagAssumption == Asserts \in BOOLEAN
ASSUME NoneAssumption == None \notin Nat

Base    == 0
Workers == 1..MaxThreads
Threads == Workers \cup {Base}

VARIABLES
  use,        \* "pool" or "thread"
  threadNum,  \* threadNum_
  pc,         \* where the base thread is
  at,         \* the thread it starts or destroys
  thread,     \* where each thread is
  loop,       \* the threads whose loop_ is not nullptr
  owner,      \* owner[w]: the thread that has w's mutex_ locked
  holder,     \* holder[w]: holder_ of w's mutex_
  quit,       \* the loops with quit_ set
  looping,    \* the loops with looping_ set
  loops,      \* loops_
  next,       \* next_
  given,      \* history: how often GetNextLoop returned each loop
  failed      \* an assert has failed

lockVars == <<owner, holder>>
flagVars == <<quit, looping>>
poolVars == <<use, threadNum, loops, next, given>>
vars == <<poolVars, pc, at, thread, loop, lockVars, flagVars, failed>>

Starting == {"lock", "locked", "test", "wait", "asleep", "unlock"}

PoolTypeOK ==
  /\ use \in {"pool", "thread"} /\ threadNum \in 0..MaxThreads
  /\ loops \in Seq(Workers) /\ Len(loops) <= threadNum
  /\ next \in 0..MaxThreads /\ (next < Len(loops) \/ next = 0)
  /\ given \in [Threads -> 0..MaxPicks]

TypeOK ==
  /\ PoolTypeOK
  /\ pc \in Starting \cup {"next", "up", "quit", "join", "down", "crashed"}
  /\ at \in 0..(MaxThreads + 1)
  /\ thread \in [Workers -> {"none", "begun", "lock", "locked", "publish", "notify",
                             "unlock", "release", "enter", "entered", "loop",
                             "left", "destroy", "done"}]
  /\ loop \in SUBSET Workers
  /\ owner \in [Workers -> Threads \cup {None}]
  /\ holder \in [Workers -> Threads \cup {None}]
  /\ quit \in SUBSET Workers /\ looping \in SUBSET Workers
  /\ failed \in BOOLEAN

Init ==
  /\ use \in {"pool", "thread"} /\ threadNum \in 0..MaxThreads
  /\ pc = "next" /\ at = 0
  /\ thread = [w \in Workers |-> "none"]
  /\ loop = {}
  /\ owner = [w \in Workers |-> None] /\ holder = [w \in Workers |-> None]
  /\ quit = {} /\ looping = {}
  /\ loops = <<>> /\ next = 0
  /\ given = [t \in Threads |-> 0]
  /\ failed = FALSE

-----------------------------------------------------------------------------
(* Mutex: the two halves of Lock() and of Unlock().                        *)

TakeMutex(t, w)  == owner[w] = None /\ owner' = [owner EXCEPT ![w] = t] /\ UNCHANGED holder
AssignHolder(t, w) == holder' = [holder EXCEPT ![w] = t] /\ UNCHANGED owner
UnassignHolder(w)  == holder' = [holder EXCEPT ![w] = None] /\ UNCHANGED owner
GiveMutex(w)     == owner' = [owner EXCEPT ![w] = None] /\ UNCHANGED holder

-----------------------------------------------------------------------------
(* EventLoopThread::Start, for each thread.                                *)

StartThread ==
  /\ pc = "next" /\ at < threadNum
  /\ at' = at + 1
  /\ thread' = [thread EXCEPT ![at + 1] = "begun"]
  /\ pc' = "lock"
  /\ UNCHANGED <<poolVars, loop, lockVars, flagVars, failed>>

(* MutexGuard guard(mutex_), and the return from pthread_cond_wait.        *)
StartLock ==
  /\ \/ pc = "lock" /\ TakeMutex(Base, at) /\ pc' = "locked"
     \/ pc = "locked" /\ AssignHolder(Base, at) /\ pc' = "test"
  /\ UNCHANGED <<poolVars, at, thread, loop, flagVars, failed>>

(* Faulty variant: loop_ is not looked at.                                 *)
StartTest_Skipped ==
  /\ pc = "test"
  /\ UnassignHolder(at)
  /\ pc' = "unlock"
  /\ UNCHANGED <<poolVars, at, thread, loop, flagVars, failed>>

(* Faulty variant: Wait() without its UnassignGuard.                       *)
StartTest_HolderKept ==
  /\ pc = "test"
  /\ IF at \in loop THEN UnassignHolder(at) ELSE UNCHANGED lockVars
  /\ pc' = IF at \in loop THEN "unlock" ELSE "wait"
  /\ UNCHANGED <<poolVars, at, thread, loop, flagVars, failed>>

(* while(loop_ == nullptr): Wait() and Unlock() both reset holder_ first.  *)
StartTest ==
  /\ pc = "test"
  /\ UnassignHolder(at)
  /\ pc' = IF at \in loop THEN "unlock" ELSE "wait"
  /\ UNCHANGED <<poolVars, at, thread, loop, flagVars, failed>>

(* pthread_cond_wait unlocks and sleeps.                                   *)
StartWait ==
  /\ pc = "wait"
  /\ GiveMutex(at)
  /\ pc' = "asleep"
  /\ UNCHANGED <<poolVars, at, thread, loop, flagVars, failed>>

(* It may return without a notification.                                   *)
SpuriousWakeup ==
  /\ pc = "asleep"
  /\ pc' = "lock"
  /\ UNCHANGED <<poolVars, at, thread, loop, lockVars, flagVars, failed>>

(* Start() returns; the pool keeps the pointer.                            *)
StartReturn ==
  /\ pc = "unlock"
  /\ GiveMutex(at)
  /\ loops' = Append(loops, at)
  /\ pc' = "next"
  /\ UNCHANGED <<use, threadNum, next, given, at, thread, loop, flagVars, failed>>

AllStarted ==
  /\ pc = "next" /\ at = threadNum
  /\ pc' = "up"
  /\ UNCHANGED <<poolVars, at, thread, loop, lockVars, flagVars, failed>>

-----------------------------------------------------------------------------
(* EventLoopThread::ThreadFunc.                                            *)

GoTo(w, p, q) == thread[w] = p /\ thread' = [thread EXCEPT ![w] = q]

Construct(w) ==
  /\ GoTo(w, "begun", "lock")
  /\ UNCHANGED <<poolVars, pc, at, loop, lockVars, flagVars, failed>>

FuncLock(w) ==
  /\ \/ GoTo(w, "lock", "locked") /\ TakeMutex(w, w)
     \/ GoTo(w, "locked", "publish") /\ AssignHolder(w, w)
  /\ UNCHANGED <<poolVars, pc, at, loop, flagVars, failed>>

Publish(w) ==
  /\ GoTo(w, "publish", "notify")
  /\ loop' = loop \cup {w}
  /\ UNCHANGED <<poolVars, pc, at, lockVars, flagVars, failed>>

(* Faulty variant: nobody is notified.                                     *)
NotifyAll_Forgotten(w) ==
  /\ GoTo(w, "notify", "unlock")
  /\ UNCHANGED <<poolVars, pc, at, loop, lockVars, flagVars, failed>>

NotifyAll(w) ==
  /\ GoTo(w, "notify", "unlock")
  /\ pc' = IF pc = "asleep" /\ at = w THEN "lock" ELSE pc
  /\ UNCHANGED <<poolVars, at, loop, lockVars, flagVars, failed>>

FuncUnlock(w) ==
  /\ \/ GoTo(w, "unlock", "release") /\ UnassignHolder(w)
     \/ GoTo(w, "release", "enter") /\ GiveMutex(w)
  /\ UNCHANGED <<poolVars, pc, at, loop, flagVars, failed>>

(* Faulty variant: looping_ = true before quit_ = false.                   *)
EnterLoop_Swapped(w) ==
  /\ \/ GoTo(w, "enter", "entered") /\ looping' = looping \cup {w} /\ UNCHANGED quit
     \/ GoTo(w, "entered", "loop") /\ quit' = quit \ {w} /\ UNCHANGED looping
  /\ UNCHANGED <<poolVars, pc, at, loop, lockVars, failed>>

(* quit_ = false, looping_ = true.                                         *)
EnterLoop(w) ==
  /\ \/ GoTo(w, "enter", "entered") /\ quit' = quit \ {w} /\ UNCHANGED looping
     \/ GoTo(w, "entered", "loop") /\ looping' = looping \cup {w} /\ UNCHANGED quit
  /\ UNCHANGED <<poolVars, pc, at, loop, lockVars, failed>>

LeaveLoop(w) ==
  /\ w \in quit
  /\ GoTo(w, "loop", "left")
  /\ looping' = looping \ {w}
  /\ UNCHANGED <<poolVars, pc, at, loop, lockVars, quit, failed>>

(* loop_ = nullptr, without the mutex.                                     *)
ClearLoop(w) ==
  /\ GoTo(w, "left", "destroy")
  /\ loop' = loop \ {w}
  /\ UNCHANGED <<poolVars, pc, at, lockVars, flagVars, failed>>

(* ~EventLoop, which asserts looping_; a failed assert ends the program,   *)
(* and what the model does behind it means nothing.                        *)
DestroyLoop(w) ==
  /\ GoTo(w, "destroy", "done")
  /\ failed' = (Asserts /\ w \notin looping)
  /\ UNCHANGED <<poolVars, pc, at, loop, lockVars, flagVars>>

-----------------------------------------------------------------------------
(* The pool and the destructors.                                           *)

(* The loop GetNextLoop returns: the base loop when the pool has none.     *)
NextLoop == IF loops = <<>> THEN Base ELSE loops[next + 1]

(* Faulty variants: the counter stays; it wraps round one too late.        *)
Advance_Not == next
Advance_Late == IF next + 1 > Len(loops) THEN 0 ELSE next + 1

Advance == IF next + 1 >= Len(loops) THEN 0 ELSE next + 1

GetNextLoop ==
  /\ pc = "up" /\ use = "pool"
  /\ given[NextLoop] < MaxPicks
  /\ given' = [given EXCEPT ![NextLoop] = @ + 1]
  /\ next' = Advance
  /\ UNCHANGED <<use, threadNum, loops, pc, at, thread, loop, lockVars, flagVars, failed>>

Destroy ==
  /\ pc = "up"
  /\ pc' = "quit" /\ at' = 1
  /\ UNCHANGED <<poolVars, thread, loop, lockVars, flagVars, failed>>

(* ~EventLoopThread of one that was never started calls Quit() on a loop_   *)
(* that is nullptr; what the model does behind it means nothing.           *)
DestroyUnstarted ==
  /\ pc = "next" /\ use = "thread" /\ at < threadNum
  /\ pc' = "crashed"
  /\ UNCHANGED <<poolVars, at, thread, loop, lockVars, flagVars, failed>>

(* The pool calls Quit() on its pointer, ~EventLoopThread on its loop_.    *)
Quit ==
  /\ pc = "quit" /\ at <= Len(loops)
  /\ quit' = quit \cup {loops[at]}
  /\ IF use = "pool" THEN at' = at + 1 /\ UNCHANGED pc
     ELSE pc' = "join" /\ UNCHANGED at
  /\ UNCHANGED <<poolVars, thread, loop, lockVars, looping, failed>>

Join ==
  /\ pc = "join" /\ thread[loops[at]] = "done"
  /\ pc' = "quit" /\ at' = at + 1
  /\ UNCHANGED <<poolVars, thread, loop, lockVars, flagVars, failed>>

Destroyed ==
  /\ pc = "quit" /\ at > Len(loops)
  /\ pc' = "down"
  /\ UNCHANGED <<poolVars, at, thread, loop, lockVars, flagVars, failed>>

-----------------------------------------------------------------------------
Start == \/ StartThread \/ StartLock \/ StartTest \/ StartWait
         \/ StartReturn \/ AllStarted

ThreadFunc(w) == \/ Construct(w) \/ FuncLock(w) \/ Publish(w) \/ NotifyAll(w)
                 \/ FuncUnlock(w) \/ EnterLoop(w) \/ LeaveLoop(w)
                 \/ ClearLoop(w) \/ DestroyLoop(w)

Next == \/ Start \/ SpuriousWakeup
        \/ \E w \in Workers : ThreadFunc(w)
        \/ GetNextLoop \/ Destroy \/ DestroyUnstarted \/ Quit \/ Join \/ Destroyed

Spec == Init /\ [][Next]_vars

(* The threads are scheduled, and one that waits for a mutex gets it if it *)
(* is unlocked again and again.  Nothing makes the base thread destroy what*)
(* it started, and no wakeup has to be spurious.                           *)
FairSpec == /\ Spec
            /\ WF_vars(Start) /\ SF_vars(StartLock)
            /\ \A w \in Workers : WF_vars(ThreadFunc(w)) /\ SF_vars(FuncLock(w))

-----------------------------------------------------------------------------
(* Properties                                                              *)

(* A thread that IsLockedByThisThread() calls the holder has the mutex,    *)
(* through every wait and wakeup.                                          *)
HolderHasMutex == \A w \in Workers : holder[w] # None => holder[w] = owner[w]

(* The loops that Start() returned exist until they were told to quit, so  *)
(* neither GetNextLoop nor a destructor's Quit() meets one that is gone.   *)
Exists(w) == thread[w] \notin {"none", "begun", "done"}
LoopsExist == \A i \in DOMAIN loops : Exists(loops[i]) \/ loops[i] \in quit

(* GetNextLoop spreads its calls evenly over the loops of the pool.        *)
SpreadEvenly ==
  \A i, j \in DOMAIN loops :
    i < j => given[loops[i]] - given[loops[j]] \in {0, 1}

(* Start() returns although no wakeup of the wait is ever spurious.        *)
StartReturns == (pc \in Starting) ~> (pc = "next")

(* A Quit() that finds the loop looping ends its thread.  One that comes   *)
(* before quit_ = false is forgotten: ~EventLoopThread then joins for ever.*)
QuitEndsThread ==
  \A w \in Workers : (w \in quit /\ w \in looping) ~> (thread[w] = "done")

(* The asserts hold: in particular that of ~EventLoop.                     *)
AssertsHold == ~failed
=============================================================================
