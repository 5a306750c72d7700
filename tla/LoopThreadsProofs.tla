-------------------------- MODULE LoopThreadsProofs --------------------------
(* Theorems about LoopThreads, for every number of threads and of picks,    *)
(* with asserts and without.                                                *)
EXTENDS LoopThreads, TLAPS

(* The inductive invariant.  Threads are started one by one, in order, and  *)
(* the i-th pointer that Start() returned is the i-th thread's.             *)
InTurn ==
  /\ \A i \in 1..Len(loops) : loops[i] = i
  /\ pc \in Starting => at \in 1..threadNum /\ Len(loops) = at - 1
  /\ pc = "next" => Len(loops) = at
  /\ pc \in {"up", "quit", "join", "down"} => Len(loops) = threadNum
  /\ pc = "quit" => at \in 1..(Len(loops) + 1)
  /\ pc = "join" => at \in 1..Len(loops)
  /\ pc \in Starting \cup {"next"} => \A w \in Workers : w > at => thread[w] = "none"

(* Where each side stands inside the critical section it has the mutex, and *)
(* has given up holder_ before it gives up the mutex.                       *)
Critical ==
  /\ pc \in {"locked", "test", "wait", "unlock"} => owner[at] = Base
  /\ pc \in {"wait", "unlock"} => holder[at] = None
  /\ \A w \in Workers :
       /\ thread[w] \in {"locked", "publish", "notify", "unlock", "release"} => owner[w] = w
       /\ thread[w] = "release" => holder[w] = None

(* A loop_ that is set, and so one that was returned, belongs to a thread   *)
(* with an EventLoop, until that thread leaves Loop(), having seen quit_.   *)
Published ==
  /\ \A w \in loop : thread[w] \notin {"none", "begun"}
  /\ pc = "unlock" => thread[at] \notin {"none", "begun"}
  /\ \A w \in 1..Len(loops) : thread[w] \notin {"none", "begun"}
  /\ \A w \in Workers : thread[w] \in {"left", "destroy", "done"} => w \in quit

(* The turns of GetNextLoop: those before next_ are one ahead.              *)
InRotation ==
  /\ pc \in Starting \cup {"next"} => next = 0 /\ given = [t \in Threads |-> 0]
  /\ \A i, j \in 1..Len(loops) :
       i < j => given[i] - given[j] = IF i <= next /\ next < j THEN 1 ELSE 0

IInv == TypeOK /\ HolderHasMutex /\ InTurn /\ Critical /\ Published /\ InRotation
-----------------------------------------------------------------------------
LEMMA InitEstablishes == Init => IInv
<1> USE BoundAssumption, NoneAssumption
<1> SUFFICES ASSUME Init PROVE IInv
  OBVIOUS
<1> USE DEF Init, Starting, Workers, Threads, Base
<1>1. PoolTypeOK
  BY DEF PoolTypeOK
<1>2. TypeOK
  <2>1. /\ pc \in Starting \cup {"next", "up", "quit", "join", "down", "crashed"}
        /\ at \in 0..(MaxThreads + 1)
    OBVIOUS
  <2>2. thread \in [Workers -> {"none", "begun", "lock", "locked", "publish", "notify",
                             "unlock", "release", "enter", "entered", "loop",
                             "left", "destroy", "done"}]
    OBVIOUS
  <2>3. owner \in [Workers -> Threads \cup {None}]
    OBVIOUS
  <2>4. loop \in SUBSET Workers /\ quit \in SUBSET Workers /\ looping \in SUBSET Workers
    OBVIOUS
  <2>5. failed \in BOOLEAN
    OBVIOUS
  <2>6. QED
    BY <1>1, <2>1, <2>2, <2>3, <2>4, <2>5 DEF TypeOK
<1>3. HolderHasMutex /\ InTurn /\ Critical /\ Published /\ InRotation
  BY DEF HolderHasMutex, InTurn, Critical, Published, InRotation
<1>4. QED
  BY <1>2, <1>3 DEF IInv

(* The thread that Start() or a destructor works on is one of the threads.  *)
LEMMA AtIsThread ==
  ASSUME TypeOK, InTurn
  PROVE  /\ pc \in Starting => at \in Workers
         /\ pc = "next" /\ at < threadNum => at + 1 \in Workers
         /\ pc \in {"quit", "join"} /\ at <= Len(loops) => at \in Workers /\ loops[at] = at
BY BoundAssumption DEF TypeOK, PoolTypeOK, InTurn, Workers, Starting

LEMMA ReturnedAreThreads ==
  ASSUME PoolTypeOK
  PROVE  Len(loops) \in Nat /\ \A w \in 1..Len(loops) : w \in Workers /\ w \in Threads
<1>1. Len(loops) \in Nat /\ threadNum \in Nat /\ Len(loops) <= threadNum /\ threadNum <= MaxThreads
  BY BoundAssumption DEF PoolTypeOK
<1>2. QED
  BY <1>1, BoundAssumption DEF Workers, Threads

LEMMA PoolTypeStep == IInv /\ [Next]_vars => PoolTypeOK'
<1> SUFFICES ASSUME IInv, [Next]_vars PROVE PoolTypeOK'
  OBVIOUS
<1> USE BoundAssumption, AtIsThread DEF IInv, TypeOK, PoolTypeOK
<1>1. CASE UNCHANGED poolVars
  BY <1>1 DEF poolVars
<1>2. CASE StartReturn
  <2>1. at \in Workers /\ Len(loops) < threadNum
    BY <1>2 DEF StartReturn, InTurn, Starting, Workers
  <2>2. loops' \in Seq(Workers) /\ Len(loops') = Len(loops) + 1
    BY <1>2, <2>1 DEF StartReturn
  <2>3. QED
    BY <1>2, <2>1, <2>2 DEF StartReturn
<1>3. CASE GetNextLoop
  <2>1. next' \in 0..MaxThreads /\ (next' < Len(loops) \/ next' = 0)
    BY <1>3 DEF GetNextLoop, Advance
  <2>2. given' \in [Threads -> 0..MaxPicks]
    <3>1. given[NextLoop] + 1 \in 0..MaxPicks \/ NextLoop \notin Threads
      BY <1>3 DEF GetNextLoop
    <3>2. QED
      BY <1>3, <3>1 DEF GetNextLoop
  <2>3. QED
    BY <1>3, <2>1, <2>2 DEF GetNextLoop
<1>4. QED
  BY <1>1, <1>2, <1>3
     DEF Next, Start, ThreadFunc, vars, StartThread, StartLock, StartTest, StartWait,
         AllStarted, SpuriousWakeup, Construct, FuncLock, Publish, NotifyAll, FuncUnlock,
         EnterLoop, LeaveLoop, ClearLoop, DestroyLoop, Destroy, DestroyUnstarted, Quit, Join,
         Destroyed

LEMMA TypeStep == IInv /\ [Next]_vars => TypeOK'
<1> SUFFICES ASSUME IInv, [Next]_vars PROVE TypeOK'
  OBVIOUS
<1> USE PoolTypeStep, BoundAssumption, AtIsThread
    DEF IInv, TypeOK, Starting, Workers, Threads, Base, lockVars, flagVars
<1>1. CASE StartThread
  BY <1>1 DEF StartThread
<1>2. CASE StartLock
  BY <1>2 DEF StartLock, TakeMutex, AssignHolder
<1>3. CASE StartTest
  BY <1>3 DEF StartTest, UnassignHolder
<1>4. CASE StartWait
  BY <1>4 DEF StartWait, GiveMutex
<1>5. CASE StartReturn
  BY <1>5 DEF StartReturn, GiveMutex
<1>6. CASE AllStarted \/ SpuriousWakeup
  BY <1>6 DEF AllStarted, SpuriousWakeup
<1>7. ASSUME NEW w \in Workers, Construct(w) \/ FuncLock(w) \/ Publish(w) PROVE TypeOK'
  <2>1. CASE Construct(w)
    BY <2>1 DEF Construct, GoTo
  <2>2. CASE FuncLock(w)
    <3>1. owner' \in [Workers -> Threads \cup {None}] /\ holder' \in [Workers -> Threads \cup {None}]
      BY <2>2, ZenonT(40) DEF FuncLock, TakeMutex, AssignHolder
    <3>2. QED
      BY <2>2, <3>1 DEF FuncLock, GoTo
  <2>3. CASE Publish(w)
    BY <2>3 DEF Publish, GoTo
  <2>4. QED
    BY <1>7, <2>1, <2>2, <2>3
<1>8. ASSUME NEW w \in Workers, NotifyAll(w) \/ FuncUnlock(w) PROVE TypeOK'
  BY <1>8 DEF NotifyAll, FuncUnlock, GoTo, GiveMutex, UnassignHolder
<1>9. ASSUME NEW w \in Workers, EnterLoop(w) \/ LeaveLoop(w) PROVE TypeOK'
  BY <1>9 DEF EnterLoop, LeaveLoop, GoTo
<1>10. ASSUME NEW w \in Workers, ClearLoop(w) PROVE TypeOK'
  BY <1>10 DEF ClearLoop, GoTo
<1>11. ASSUME NEW w \in Workers, DestroyLoop(w) PROVE TypeOK'
  <2>1. failed' \in BOOLEAN
    BY <1>11, FlagAssumption DEF DestroyLoop
  <2>2. QED
    BY <1>11, <2>1 DEF DestroyLoop, GoTo
<1>12. CASE GetNextLoop
  BY <1>12 DEF GetNextLoop
<1>13. CASE Destroy \/ DestroyUnstarted \/ Quit \/ Join \/ Destroyed
  <2>1. CASE Destroy \/ DestroyUnstarted \/ Destroyed
    <3>1. pc' \in {"quit", "down", "crashed"} /\ at' \in 0..(MaxThreads + 1)
      BY <2>1 DEF Destroy, DestroyUnstarted, Destroyed
    <3>2. UNCHANGED <<thread, loop, lockVars, flagVars, failed>>
      BY <2>1 DEF Destroy, DestroyUnstarted, Destroyed
    <3>3. QED
      BY <3>1, <3>2
  <2>2. CASE Quit
    <3>1. at \in Workers /\ loops[at] \in Workers
      BY <2>2 DEF Quit
    <3>2. pc' \in {"quit", "join"} /\ at' \in 0..(MaxThreads + 1)
      BY <2>2, <3>1 DEF Quit
    <3>3. quit' \in SUBSET Workers
      BY <2>2, <3>1 DEF Quit
    <3>4. QED
      BY <2>2, <3>2, <3>3 DEF Quit
  <2>3. CASE Join
    <3>1. at + 1 \in 0..(MaxThreads + 1)
      BY <2>3 DEF Join, InTurn, PoolTypeOK
    <3>2. QED
      BY <2>3, <3>1 DEF Join
  <2>4. QED
    BY <1>13, <2>1, <2>2, <2>3
<1>14. CASE UNCHANGED vars
  BY <1>14 DEF vars
<1>15. QED
  BY <1>1, <1>2, <1>3, <1>4, <1>5, <1>6, <1>7, <1>8, <1>9, <1>10, <1>11, <1>12,
     <1>13, <1>14 DEF Next, Start, ThreadFunc
-----------------------------------------------------------------------------
LEMMA HolderStep == IInv /\ [Next]_vars => HolderHasMutex'
<1> SUFFICES ASSUME IInv, [Next]_vars PROVE HolderHasMutex'
  OBVIOUS
<1> USE BoundAssumption, NoneAssumption, AtIsThread
    DEF IInv, TypeOK, HolderHasMutex, Starting
<1>1. CASE UNCHANGED lockVars
  BY <1>1 DEF lockVars
<1>2. CASE StartLock
  <2>1. CASE TakeMutex(Base, at)
    BY <2>1 DEF TakeMutex
  <2>2. CASE pc = "locked" /\ AssignHolder(Base, at)
    BY <2>2 DEF AssignHolder, Critical
  <2>3. QED
    BY <1>2, <2>1, <2>2 DEF StartLock
<1>3. CASE StartTest
  BY <1>3 DEF StartTest, UnassignHolder
<1>4. CASE StartWait \/ StartReturn
  BY <1>4 DEF StartWait, StartReturn, GiveMutex, Critical
<1>5. ASSUME NEW w \in Workers, FuncLock(w) PROVE HolderHasMutex'
  <2>1. CASE TakeMutex(w, w)
    BY <2>1 DEF TakeMutex
  <2>2. CASE thread[w] = "locked" /\ AssignHolder(w, w)
    BY <2>2 DEF AssignHolder, Critical
  <2>3. QED
    BY <1>5, <2>1, <2>2 DEF FuncLock, GoTo
<1>6. ASSUME NEW w \in Workers, FuncUnlock(w) PROVE HolderHasMutex'
  <2>1. CASE UnassignHolder(w)
    BY <2>1 DEF UnassignHolder
  <2>2. CASE thread[w] = "release" /\ GiveMutex(w)
    BY <2>2 DEF GiveMutex, Critical
  <2>3. QED
    BY <1>6, <2>1, <2>2 DEF FuncUnlock, GoTo
<1>7. QED
  BY <1>1, <1>2, <1>3, <1>4, <1>5, <1>6
     DEF Next, Start, ThreadFunc, vars, StartThread, AllStarted, SpuriousWakeup, Construct,
         Publish, NotifyAll, EnterLoop, LeaveLoop, ClearLoop, DestroyLoop, GetNextLoop,
         Destroy, DestroyUnstarted, Quit, Join, Destroyed

LEMMA InTurnStep == IInv /\ [Next]_vars => InTurn'
<1> SUFFICES ASSUME IInv, [Next]_vars PROVE InTurn'
  OBVIOUS
<1> USE BoundAssumption, AtIsThread
    DEF IInv, TypeOK, PoolTypeOK, InTurn, Starting, Workers, poolVars
<1>1. CASE StartThread
  BY <1>1 DEF StartThread
<1>2. CASE StartLock \/ StartTest \/ StartWait \/ SpuriousWakeup
  BY <1>2, SMTT(30) DEF StartLock, StartTest, StartWait, SpuriousWakeup
<1>3. CASE StartReturn
  <2>1. Len(loops') = at /\ \A i \in 1..at : loops'[i] = i
    BY <1>3 DEF StartReturn
  <2>2. QED
    BY <1>3, <2>1 DEF StartReturn
<1>4. CASE AllStarted
  BY <1>4 DEF AllStarted
<1>5. ASSUME NEW w \in Workers, ThreadFunc(w) PROVE InTurn'
  <2>1. thread[w] # "none" /\ \A v \in Workers \ {w} : thread'[v] = thread[v]
    BY <1>5 DEF ThreadFunc, Construct, FuncLock, Publish, NotifyAll, FuncUnlock, EnterLoop,
                LeaveLoop, ClearLoop, DestroyLoop, GoTo
  <2>2. UNCHANGED <<threadNum, loops, at>>
    BY <1>5 DEF ThreadFunc, Construct, FuncLock, Publish, NotifyAll, FuncUnlock, EnterLoop,
                LeaveLoop, ClearLoop, DestroyLoop
  <2>3. pc' = pc \/ (pc = "asleep" /\ pc' = "lock")
    BY <1>5 DEF ThreadFunc, Construct, FuncLock, Publish, NotifyAll, FuncUnlock, EnterLoop,
                LeaveLoop, ClearLoop, DestroyLoop
  <2>4. QED
    BY <2>1, <2>2, <2>3
<1>6. CASE GetNextLoop
  BY <1>6 DEF GetNextLoop
<1>7. CASE DestroyUnstarted
  BY <1>7 DEF DestroyUnstarted
<1>8. CASE Destroy \/ Quit
  BY <1>8, SMTT(30) DEF Destroy, Quit
<1>9. CASE Join \/ Destroyed
  <2>1. CASE Join
    <3>1. pc' = "quit" /\ at' = at + 1 /\ loops' = loops /\ at \in 1..Len(loops) /\ pc = "join"
      BY <2>1 DEF Join
    <3>2. UNCHANGED <<threadNum, thread>> /\ Len(loops) \in Nat
      BY <2>1 DEF Join
    <3>3. QED
      BY <3>1, <3>2
  <2>2. CASE Destroyed
    BY <2>2 DEF Destroyed
  <2>3. QED
    BY <1>9, <2>1, <2>2
<1>10. CASE UNCHANGED vars
  BY <1>10 DEF vars
<1>11. QED
  BY <1>1, <1>2, <1>3, <1>4, <1>5, <1>6, <1>7, <1>8, <1>9, <1>10 DEF Next, Start

LEMMA CriticalStep == IInv /\ [Next]_vars => Critical'
<1> SUFFICES ASSUME IInv, [Next]_vars PROVE Critical'
  OBVIOUS
<1> USE BoundAssumption, NoneAssumption, AtIsThread
    DEF IInv, TypeOK, Critical, Starting, Workers, Base, lockVars
<1>1. CASE StartThread
  BY <1>1 DEF StartThread
<1>2. CASE StartLock
  BY <1>2 DEF StartLock, TakeMutex, AssignHolder
<1>3. CASE StartTest
  BY <1>3 DEF StartTest, UnassignHolder
<1>4. CASE StartWait \/ StartReturn
  BY <1>4 DEF StartWait, StartReturn, GiveMutex
<1>5. CASE AllStarted \/ SpuriousWakeup
  BY <1>5 DEF AllStarted, SpuriousWakeup
<1>6. ASSUME NEW w \in Workers, FuncLock(w) PROVE Critical'
  <2>1. CASE GoTo(w, "lock", "locked") /\ TakeMutex(w, w)
    BY <1>6, <2>1 DEF FuncLock, GoTo, TakeMutex
  <2>2. CASE GoTo(w, "locked", "publish") /\ AssignHolder(w, w)
    BY <1>6, <2>2 DEF FuncLock, GoTo, AssignHolder
  <2>3. QED
    BY <1>6, <2>1, <2>2 DEF FuncLock
<1>7. ASSUME NEW w \in Workers, FuncUnlock(w) PROVE Critical'
  <2>1. CASE GoTo(w, "unlock", "release") /\ UnassignHolder(w)
    BY <1>7, <2>1 DEF FuncUnlock, GoTo, UnassignHolder
  <2>2. CASE GoTo(w, "release", "enter") /\ GiveMutex(w)
    BY <1>7, <2>2 DEF FuncUnlock, GoTo, GiveMutex
  <2>3. QED
    BY <1>7, <2>1, <2>2 DEF FuncUnlock
<1>8. ASSUME NEW w \in Workers, Construct(w) \/ Publish(w) \/ NotifyAll(w) PROVE Critical'
  BY <1>8 DEF Construct, Publish, NotifyAll, GoTo
<1>9. ASSUME NEW w \in Workers, EnterLoop(w) \/ LeaveLoop(w) PROVE Critical'
  BY <1>9 DEF EnterLoop, LeaveLoop, GoTo
<1>10. ASSUME NEW w \in Workers, ClearLoop(w) \/ DestroyLoop(w) PROVE Critical'
  BY <1>10 DEF ClearLoop, DestroyLoop, GoTo
<1>11. CASE GetNextLoop \/ Destroy \/ DestroyUnstarted \/ Quit \/ Join \/ Destroyed
  BY <1>11 DEF GetNextLoop, Destroy, DestroyUnstarted, Quit, Join, Destroyed
<1>12. CASE UNCHANGED vars
  BY <1>12 DEF vars
<1>13. QED
  BY <1>1, <1>2, <1>3, <1>4, <1>5, <1>6, <1>7, <1>8, <1>9, <1>10, <1>11, <1>12
     DEF Next, Start, ThreadFunc

LEMMA PublishedStep == IInv /\ [Next]_vars => Published'
<1> SUFFICES ASSUME IInv, [Next]_vars PROVE Published'
  OBVIOUS
<1> USE AtIsThread, ReturnedAreThreads
    DEF IInv, TypeOK, Published, Starting, poolVars, flagVars
<1>1. CASE StartThread
  <2>1. at + 1 \notin loop /\ at + 1 \notin 1..Len(loops)
    BY <1>1 DEF StartThread, InTurn
  <2>2. QED
    BY <1>1, <2>1 DEF StartThread
<1>2. CASE StartLock \/ StartTest \/ StartWait \/ AllStarted \/ SpuriousWakeup
  BY <1>2 DEF StartLock, StartTest, StartWait, AllStarted, SpuriousWakeup
<1>3. CASE StartReturn
  <2>1. Len(loops') = at /\ Len(loops) = at - 1
    BY <1>3 DEF StartReturn, InTurn
  <2>2. QED
    BY <1>3, <2>1 DEF StartReturn
<1>4. ASSUME NEW w \in Workers, Construct(w) PROVE Published'
  BY <1>4 DEF Construct, GoTo
<1>5. ASSUME NEW w \in Workers, FuncLock(w) \/ Publish(w) \/ NotifyAll(w) \/ FuncUnlock(w)
      PROVE Published'
  BY <1>5 DEF FuncLock, Publish, NotifyAll, FuncUnlock, GoTo
<1>6. ASSUME NEW w \in Workers, EnterLoop(w) \/ LeaveLoop(w) PROVE Published'
  BY <1>6 DEF EnterLoop, LeaveLoop, GoTo
<1>7. ASSUME NEW w \in Workers, ClearLoop(w) \/ DestroyLoop(w) PROVE Published'
  BY <1>7 DEF ClearLoop, DestroyLoop, GoTo
<1>8. CASE GetNextLoop \/ Destroy \/ DestroyUnstarted \/ Quit \/ Join \/ Destroyed
  BY <1>8 DEF GetNextLoop, Destroy, DestroyUnstarted, Quit, Join, Destroyed
<1>9. CASE UNCHANGED vars
  BY <1>9 DEF vars
<1>10. QED
  BY <1>1, <1>2, <1>3, <1>4, <1>5, <1>6, <1>7, <1>8, <1>9 DEF Next, Start, ThreadFunc

LEMMA InRotationStep == IInv /\ [Next]_vars => InRotation'
<1> SUFFICES ASSUME IInv, [Next]_vars PROVE InRotation'
  OBVIOUS
<1> USE ReturnedAreThreads DEF IInv, TypeOK, InRotation, Starting
<1>1. CASE StartReturn
  <2>1. given' = [t \in Threads |-> 0] /\ next' = 0 /\ pc' = "next"
    BY <1>1 DEF StartReturn
  <2>2. Len(loops') \in Nat /\ \A w \in 1..Len(loops') : w \in Threads
    <3>1. Len(loops') = at /\ at \in 1..threadNum /\ threadNum \in 0..MaxThreads
      BY <1>1 DEF StartReturn, InTurn, PoolTypeOK
    <3>2. QED
      BY <3>1, BoundAssumption DEF Threads, Workers
  <2>3. QED
    BY <2>1, <2>2
<1>2. CASE GetNextLoop
  <2>1. pc' = "up" /\ loops' = loops
    BY <1>2 DEF GetNextLoop
  <2>2. SUFFICES ASSUME NEW i \in 1..Len(loops), NEW j \in 1..Len(loops), i < j
                 PROVE  given'[i] - given'[j] = IF i <= next' /\ next' < j THEN 1 ELSE 0
    BY <2>1
  <2>3. i \in Threads /\ j \in Threads /\ given[i] \in Nat /\ given[j] \in Nat
    BY BoundAssumption DEF PoolTypeOK
  <2>4. given[i] - given[j] = IF i <= next /\ next < j THEN 1 ELSE 0
    BY <2>2
  <2>5. NextLoop = next + 1
    <3>1. Len(loops) > 0 /\ loops # <<>> /\ next + 1 \in 1..Len(loops)
      BY BoundAssumption DEF PoolTypeOK
    <3>2. QED
      BY <3>1 DEF InTurn, NextLoop
  <2>6. given'[i] = (IF i = next + 1 THEN given[i] + 1 ELSE given[i])
        /\ given'[j] = (IF j = next + 1 THEN given[j] + 1 ELSE given[j])
    BY <1>2, <2>3, <2>5 DEF GetNextLoop, PoolTypeOK
  <2>7. next' = IF next + 1 >= Len(loops) THEN 0 ELSE next + 1
    BY <1>2 DEF GetNextLoop, Advance
  <2>8. next \in Nat /\ Len(loops) \in Nat /\ next < Len(loops)
    BY BoundAssumption DEF PoolTypeOK
  <2>9. CASE i = next + 1
    BY <2>2, <2>3, <2>4, <2>6, <2>7, <2>8, <2>9
  <2>10. CASE j = next + 1
    BY <2>2, <2>3, <2>4, <2>6, <2>7, <2>8, <2>10
  <2>11. CASE i # next + 1 /\ j # next + 1
    BY <2>2, <2>3, <2>4, <2>6, <2>7, <2>8, <2>11
  <2>12. QED
    BY <2>9, <2>10, <2>11
<1>3. CASE UNCHANGED poolVars /\ (pc' \in Starting \cup {"next"} => pc \in Starting \cup {"next"})
  BY <1>3 DEF poolVars
<1>4. ASSUME NEW w \in Workers, ThreadFunc(w)
      PROVE  UNCHANGED poolVars /\ (pc' \in Starting \cup {"next"} => pc \in Starting \cup {"next"})
  BY <1>4 DEF ThreadFunc, Construct, FuncLock, Publish, NotifyAll, FuncUnlock, EnterLoop,
              LeaveLoop, ClearLoop, DestroyLoop
<1>5. QED
  BY <1>1, <1>2, <1>3, <1>4
     DEF Next, Start, vars, StartThread, StartLock, StartTest, StartWait, AllStarted,
         SpuriousWakeup, Destroy, DestroyUnstarted, Quit, Join, Destroyed

LEMMA Inductive == Spec => []IInv
<1>1. IInv /\ [Next]_vars => IInv'
  BY TypeStep, HolderStep, InTurnStep, CriticalStep, PublishedStep, InRotationStep DEF IInv
<1>2. QED
  BY <1>1, InitEstablishes, PTL DEF Spec

-----------------------------------------------------------------------------
(* Every variable keeps its type in every reachable state: no more loops    *)
(* than threads asked for, next_ inside the pool, each thread at a place of *)
(* ThreadFunc.                                                              *)
THEOREM TypeCorrect == Spec => []TypeOK
<1>1. IInv => TypeOK
  BY DEF IInv
<1>2. QED
  BY <1>1, Inductive, PTL

(* IsLockedByThisThread() is right whenever it says yes: through Lock(),    *)
(* Unlock() and Wait(), with spurious wakeups, the thread in holder_ has    *)
(* the pthread mutex.                                                       *)
THEOREM HolderSafe == Spec => []HolderHasMutex
<1>1. IInv => HolderHasMutex
  BY DEF IInv
<1>2. QED
  BY <1>1, Inductive, PTL

(* Start() never returns, and GetNextLoop never hands out, a loop that does *)
(* not exist yet or that is gone without having been told to quit.          *)
THEOREM LoopsSafe == Spec => []LoopsExist
<1>1. IInv => LoopsExist
  <2> SUFFICES ASSUME IInv, NEW i \in DOMAIN loops
               PROVE  Exists(loops[i]) \/ loops[i] \in quit
    BY DEF LoopsExist
  <2>1. i \in 1..Len(loops) /\ loops[i] = i
    BY DEF IInv, TypeOK, PoolTypeOK, InTurn
  <2>2. QED
    BY <2>1, ReturnedAreThreads DEF IInv, TypeOK, Published, Exists
<1>2. QED
  BY <1>1, Inductive, PTL

(* However many loops the pool has, GetNextLoop gives none of them two      *)
(* turns more than another, and the earlier ones first.                     *)
THEOREM SpreadSafe == Spec => []SpreadEvenly
<1>1. IInv => SpreadEvenly
  <2> SUFFICES ASSUME IInv, NEW i \in DOMAIN loops, NEW j \in DOMAIN loops, i < j
               PROVE  given[loops[i]] - given[loops[j]] \in {0, 1}
    BY DEF SpreadEvenly
  <2>1. i \in 1..Len(loops) /\ j \in 1..Len(loops) /\ loops[i] = i /\ loops[j] = j
    BY DEF IInv, TypeOK, PoolTypeOK, InTurn
  <2>2. QED
    BY <2>1 DEF IInv, InRotation
<1>2. QED
  BY <1>1, Inductive, PTL
=============================================================================
