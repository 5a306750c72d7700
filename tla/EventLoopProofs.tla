--------------------------- MODULE EventLoopProofs ---------------------------
(* Theorems about EventLoop, for every set of loops, clients and functors   *)
(* and every capacity of the wakeup pipes.                                  *)
EXTENDS EventLoop, SequenceTheorems, FiniteSetTheorems, TLAPS

(* Every variable keeps its type in every reachable state; for the pipes:  *)
(* no more messages than PipeCap, and no read of an empty pipe.            *)
THEOREM TypeCorrect == Spec => []TypeOK
<1> USE PipeCapAssumption, ThreadAssumption
<1>1. Init => TypeOK
  BY DEF Init, TypeOK, PCs, Threads
<1>2. TypeOK /\ [Next]_vars => TypeOK'
  <2> SUFFICES ASSUME TypeOK, [Next]_vars PROVE TypeOK'
    OBVIOUS
  <2> USE DEF TypeOK, PCs, ChannelKinds, Threads, loopVars, queueVars
  <2>1. ASSUME NEW t \in Threads, NEW l \in Loops, Quit(t, l) PROVE TypeOK'
    BY <2>1 DEF Quit
  <2>2. ASSUME NEW t \in Threads, NEW l \in Loops, NEW f \in Functors, RunNow(t, l, f)
        PROVE TypeOK'
    BY <2>2 DEF RunNow
  <2>3. ASSUME NEW t \in Threads, NEW l \in Loops, NEW f \in Functors, QueueInLoop(t, l, f)
        PROVE TypeOK'
    BY <2>3 DEF QueueInLoop
  <2>4. ASSUME NEW t \in Threads, Wakeup(t) PROVE TypeOK'
    BY <2>4 DEF Wakeup
  <2>5. ASSUME NEW l \in Loops, Loop(l) PROVE TypeOK'
    BY <2>5 DEF Loop
  <2>6. ASSUME NEW l \in Loops, Iterate(l) PROVE TypeOK'
    BY <2>6 DEF Iterate
  <2>7. ASSUME NEW l \in Loops, Stop(l) PROVE TypeOK'
    BY <2>7 DEF Stop
  <2>8. ASSUME NEW l \in Loops, NEW cs \in SUBSET ChannelKinds, PollReturns(l, cs)
        PROVE TypeOK'
    BY <2>8 DEF PollReturns
  <2>9. ASSUME NEW l \in Loops, PollWakeup(l) PROVE TypeOK'
    BY <2>8, <2>9 DEF PollWakeup
  <2>10. ASSUME NEW l \in Loops, PollIo(l) \/ PollTimeout(l) \/ PollFails(l) PROVE TypeOK'
    <3>1. {"io"} \in SUBSET ChannelKinds /\ {} \in SUBSET ChannelKinds
      OBVIOUS
    <3>2. QED
      BY <2>8, <2>10, <3>1 DEF PollIo, PollTimeout, PollFails
  <2>11. ASSUME NEW l \in Loops, HandleRead(l) PROVE TypeOK'
    BY <2>11 DEF HandleRead
  <2>12. ASSUME NEW l \in Loops, BeginCallback(l) PROVE TypeOK'
    BY <2>12 DEF BeginCallback
  <2>13. ASSUME NEW l \in Loops, EndCallback(l) PROVE TypeOK'
    BY <2>13 DEF EndCallback
  <2>14. ASSUME NEW l \in Loops, TakeFunctors(l) PROVE TypeOK'
    BY <2>14 DEF TakeFunctors, LeftBehind
  <2>15. ASSUME NEW l \in Loops, BeginFunctor(l) PROVE TypeOK'
    BY <2>15 DEF BeginFunctor
  <2>16. ASSUME NEW l \in Loops, EndFunctor(l) PROVE TypeOK'
    BY <2>16 DEF EndFunctor
  <2>17. ASSUME NEW l \in Loops, FinishFunctors(l) PROVE TypeOK'
    BY <2>17 DEF FinishFunctors
  <2>18. CASE UNCHANGED vars
    BY <2>18 DEF vars
  <2>19. QED
    BY <2>1, <2>2, <2>3, <2>4, <2>5, <2>6, <2>7, <2>9, <2>10, <2>11, <2>12,
       <2>13, <2>14, <2>15, <2>16, <2>17, <2>18 DEF Next, Call, LoopStep
<1>3. QED
  BY <1>1, <1>2, PTL DEF Spec

-----------------------------------------------------------------------------
(* What is taken is executed before anything else is taken: nothing is in  *)
(* the model's functors[l] outside HandlePendingFunctors, where the code's *)
(* vector does not exist.                                                  *)
Drained == \A l \in Loops : functors[l] # <<>> => pc[l] \in {"run", "functor"}

LEMMA DrainedInv == Spec => []Drained
<1>1. Init => Drained
  BY DEF Init, Drained
<1>2. TypeOK /\ Drained /\ [Next]_vars => Drained'
  <2> SUFFICES ASSUME TypeOK, Drained, [Next]_vars PROVE Drained'
    OBVIOUS
  <2> USE DEF TypeOK, Drained, loopVars, queueVars
  <2>1. ASSUME NEW l \in Loops, TakeFunctors(l) PROVE Drained'
    BY <2>1 DEF TakeFunctors
  <2>2. ASSUME NEW l \in Loops, BeginFunctor(l) PROVE Drained'
    BY <2>2 DEF BeginFunctor
  <2>3. ASSUME NEW l \in Loops, EndFunctor(l) PROVE Drained'
    BY <2>3 DEF EndFunctor
  <2>4. ASSUME NEW l \in Loops, FinishFunctors(l) PROVE Drained'
    BY <2>4 DEF FinishFunctors
  <2>5. ASSUME NEW t \in Threads, Call(t) \/ Wakeup(t) PROVE Drained'
    BY <2>5 DEF Call, Quit, RunNow, QueueInLoop, Wakeup
  <2>6. ASSUME NEW l \in Loops, Loop(l) \/ Iterate(l) \/ Stop(l) PROVE Drained'
    BY <2>6 DEF Loop, Iterate, Stop
  <2>7. ASSUME NEW l \in Loops, PollWakeup(l) \/ PollIo(l) \/ PollTimeout(l) \/ PollFails(l)
        PROVE Drained'
    BY <2>7 DEF PollWakeup, PollIo, PollTimeout, PollFails, PollReturns
  <2>8. ASSUME NEW l \in Loops, HandleRead(l) \/ BeginCallback(l) \/ EndCallback(l)
        PROVE Drained'
    BY <2>8 DEF HandleRead, BeginCallback, EndCallback
  <2>9. CASE UNCHANGED vars
    BY <2>9 DEF vars
  <2>10. QED
    BY <2>1, <2>2, <2>3, <2>4, <2>5, <2>6, <2>7, <2>8, <2>9 DEF Next, LoopStep
<1>3. QED
  BY <1>1, <1>2, TypeCorrect, PTL DEF Spec

(* The hand-over of RunInLoop, though split into a push and a write, never *)
(* leaves a functor behind in a loop that could sleep on it.               *)
THEOREM WakeupSafe == Spec => []NoLostWakeup
<1>1. Init => NoLostWakeup
  BY DEF Init, NoLostWakeup
<1>2. TypeOK /\ NoLostWakeup /\ [Next]_vars => NoLostWakeup'
  <2> SUFFICES ASSUME TypeOK, NoLostWakeup, [Next]_vars PROVE NoLostWakeup'
    OBVIOUS
  <2> USE PipeCapAssumption, ThreadAssumption
      DEF TypeOK, NoLostWakeup, loopVars, queueVars, Threads
  <2>1. ASSUME NEW t \in Threads, NEW l \in Loops, Quit(t, l) PROVE NoLostWakeup'
    BY <2>1 DEF Quit
  <2>2. ASSUME NEW t \in Threads, NEW l \in Loops, NEW f \in Functors, RunNow(t, l, f)
        PROVE NoLostWakeup'
    BY <2>2 DEF RunNow
  <2>3. ASSUME NEW t \in Threads, NEW l \in Loops, NEW f \in Functors, QueueInLoop(t, l, f)
        PROVE NoLostWakeup'
    <3>1. waking' = [waking EXCEPT ![t] = l] /\ waking[t] = None
      BY <2>3 DEF QueueInLoop, NeedsWakeup, IsInLoopThread, CanCall
    <3>2. ASSUME NEW m \in Loops, m # l PROVE pending'[m] = pending[m]
      BY <2>3, <3>2 DEF QueueInLoop
    <3>3. UNCHANGED <<pipe, pc>>
      BY <2>3 DEF QueueInLoop
    <3>4. \A m \in Loops, u \in Threads : waking[u] = m => waking'[u] = m
      BY <3>1
    <3>5. waking'[t] = l
      BY <3>1
    <3>6. QED
      BY <3>2, <3>3, <3>4, <3>5
  <2>4. ASSUME NEW t \in Threads, Wakeup(t) PROVE NoLostWakeup'
    <3>1. PICK l \in Loops : waking[t] = l
      BY <2>4 DEF Wakeup
    <3>2. pipe'[l] > 0 /\ \A m \in Loops : pipe[m] > 0 => pipe'[m] > 0
      BY <2>4, <3>1 DEF Wakeup
    <3>3. \A m \in Loops \ {l}, u \in Threads : waking[u] = m => waking'[u] = m
      BY <2>4, <3>1 DEF Wakeup
    <3>4. UNCHANGED <<pending, pc>>
      BY <2>4 DEF Wakeup
    <3>5. QED
      BY <3>2, <3>3, <3>4
  <2>5. ASSUME NEW l \in Loops, Loop(l) PROVE NoLostWakeup'
    BY <2>5 DEF Loop
  <2>6. ASSUME NEW l \in Loops, Iterate(l) \/ Stop(l) PROVE NoLostWakeup'
    BY <2>6 DEF Iterate, Stop
  <2>7. ASSUME NEW l \in Loops, PollWakeup(l) \/ PollIo(l) \/ PollTimeout(l) \/ PollFails(l)
        PROVE NoLostWakeup'
    BY <2>7 DEF PollWakeup, PollIo, PollTimeout, PollFails, PollReturns
  <2>8. ASSUME NEW l \in Loops, HandleRead(l) PROVE NoLostWakeup'
    BY <2>8 DEF HandleRead
  <2>9. ASSUME NEW l \in Loops, BeginCallback(l) \/ EndCallback(l) PROVE NoLostWakeup'
    BY <2>9 DEF BeginCallback, EndCallback
  <2>10. ASSUME NEW l \in Loops, TakeFunctors(l) PROVE NoLostWakeup'
    BY <2>10 DEF TakeFunctors, LeftBehind
  <2>11. ASSUME NEW l \in Loops, BeginFunctor(l) PROVE NoLostWakeup'
    BY <2>11 DEF BeginFunctor
  <2>12. ASSUME NEW l \in Loops, EndFunctor(l) \/ FinishFunctors(l) PROVE NoLostWakeup'
    BY <2>12 DEF EndFunctor, FinishFunctors
  <2>13. CASE UNCHANGED vars
    BY <2>13 DEF vars
  <2>14. QED
    BY <2>1, <2>2, <2>3, <2>4, <2>5, <2>6, <2>7, <2>8, <2>9, <2>10, <2>11,
       <2>12, <2>13 DEF Next, Call, LoopStep
<1>3. QED
  BY <1>1, <1>2, TypeCorrect, PTL DEF Spec

-----------------------------------------------------------------------------
(* Pushing at the back of the second of two sequences pushes at the back   *)
(* of their concatenation: push_back on pendingFunctors_, behind the       *)
(* functors the loop is already executing.                                 *)
LEMMA ConcatAppend ==
  ASSUME NEW S, NEW s \in Seq(S), NEW t \in Seq(S), NEW e \in S
  PROVE  s \o Append(t, e) = Append(s \o t, e)
<1>1. Append(t, e) = t \o <<e>> /\ <<e>> \in Seq(S) /\ s \o t \in Seq(S)
  BY AppendIsConcat, ConcatProperties
<1>2. Append(s \o t, e) = (s \o t) \o <<e>>
  BY <1>1, AppendIsConcat
<1>3. (s \o t) \o <<e>> = s \o (t \o <<e>>)
  BY <1>1, ConcatAssociative
<1>4. QED
  BY <1>1, <1>2, <1>3

(* Taking the head of the first of two sequences takes the head of their   *)
(* concatenation: the loop executes the oldest functor posted to it.       *)
LEMMA ConcatHeadTail ==
  ASSUME NEW S, NEW s \in Seq(S), NEW t \in Seq(S), s # <<>>
  PROVE  /\ s \o t # <<>>
         /\ Head(s \o t) = Head(s)
         /\ Tail(s \o t) = Tail(s) \o t
<1>1. Len(s) >= 1 /\ s \o t \in Seq(S) /\ Len(s \o t) = Len(s) + Len(t)
  BY ConcatProperties
<1>2. s \o t # <<>> /\ Tail(s) \in Seq(S) /\ Len(Tail(s)) = Len(s) - 1
  BY <1>1, HeadTailProperties
<1>3. Head(s \o t) = Head(s)
  BY <1>1, ConcatProperties
<1>4. Tail(s \o t) \in Seq(S) /\ Tail(s) \o t \in Seq(S)
  BY <1>1, <1>2, HeadTailProperties, ConcatProperties
<1>5. Len(Tail(s \o t)) = Len(Tail(s) \o t)
  BY <1>1, <1>2, HeadTailProperties, ConcatProperties
<1>6. ASSUME NEW i \in 1..Len(Tail(s \o t)) PROVE Tail(s \o t)[i] = (Tail(s) \o t)[i]
  <2>1. i \in Nat /\ i + 1 \in 1..(Len(s) + Len(t)) /\ i \in 1..(Len(Tail(s)) + Len(t))
    BY <1>1, <1>2, HeadTailProperties
  <2>2. Tail(s \o t)[i] = (s \o t)[i + 1]
    BY <1>1, <1>2, HeadTailProperties
  <2>3. (s \o t)[i + 1] = IF i + 1 <= Len(s) THEN s[i + 1] ELSE t[i + 1 - Len(s)]
    BY <2>1, ConcatProperties
  <2>4. (Tail(s) \o t)[i]
          = IF i <= Len(Tail(s)) THEN Tail(s)[i] ELSE t[i - Len(Tail(s))]
    BY <1>2, <2>1, ConcatProperties
  <2>5. i <= Len(Tail(s)) => Tail(s)[i] = s[i + 1]
    BY <2>1, HeadTailProperties
  <2>6. QED
    BY <1>1, <1>2, <2>1, <2>2, <2>3, <2>4, <2>5
<1>7. QED
  BY <1>2, <1>3, <1>4, <1>5, <1>6, SeqEqual

(* EventLoop implements FunctorQueue: a step of the event loops is a step  *)
(* of the queues they promise, or changes nothing a caller can tell.       *)
THEOREM ImplementsQueue == Spec => Implements
<1> DEFINE q == [l \in Loops |-> functors[l] \o pending[l]]
<1>1. Init => FQ!Init
  BY DEF Init, FQ!Init
<1>2. TypeOK /\ Drained /\ [Next]_vars => [FQ!Next]_(FQ!vars)
  <2> SUFFICES ASSUME TypeOK, Drained, [Next]_vars
               PROVE FQ!Next \/ UNCHANGED <<fresh, q, ran>>
    BY DEF FQ!vars
  <2> USE DEF TypeOK
  <2>1. ASSUME NEW t \in Threads, NEW l \in Loops, NEW f \in Functors, RunNow(t, l, f)
        PROVE FQ!RunNow(l, f)
    BY <2>1 DEF RunNow, FQ!RunNow, loopVars
  <2>2. ASSUME NEW t \in Threads, NEW l \in Loops, NEW f \in Functors, QueueInLoop(t, l, f)
        PROVE FQ!Post(l, f)
    <3>1. functors[l] \o Append(pending[l], f) = Append(functors[l] \o pending[l], f)
      BY ConcatAppend
    <3>2. pending' = [pending EXCEPT ![l] = Append(@, f)] /\ UNCHANGED functors
      BY <2>2 DEF QueueInLoop, loopVars
    <3>3. q' = [q EXCEPT ![l] = Append(@, f)]
      BY <3>1, <3>2
    <3>4. QED
      BY <2>2, <3>3 DEF QueueInLoop, FQ!Post
  <2>3. ASSUME NEW l \in Loops, BeginFunctor(l) PROVE FQ!RunNext(l)
    <3>1. /\ functors[l] \o pending[l] # <<>>
          /\ Head(functors[l] \o pending[l]) = Head(functors[l])
          /\ Tail(functors[l] \o pending[l]) = Tail(functors[l]) \o pending[l]
      BY <2>3, ConcatHeadTail DEF BeginFunctor
    <3>2. functors' = [functors EXCEPT ![l] = Tail(@)] /\ UNCHANGED pending
      BY <2>3 DEF BeginFunctor
    <3>3. q' = [q EXCEPT ![l] = Tail(@)]
      BY <3>1, <3>2
    <3>4. QED
      BY <2>3, <3>1, <3>3 DEF BeginFunctor, FQ!RunNext
  <2>4. ASSUME NEW l \in Loops, TakeFunctors(l) PROVE UNCHANGED <<fresh, q, ran>>
    <3>1. functors[l] = <<>>
      BY <2>4 DEF TakeFunctors, Drained
    <3>2. functors'[l] = pending[l] /\ pending'[l] = <<>>
      BY <2>4, <3>1 DEF TakeFunctors, LeftBehind
    <3>3. \A m \in Loops \ {l} : functors'[m] = functors[m] /\ pending'[m] = pending[m]
      BY <2>4 DEF TakeFunctors
    <3>4. functors'[l] \o pending'[l] = functors[l] \o pending[l]
      BY <3>1, <3>2, ConcatEmptySeq
    <3>5. \A m \in Loops : functors'[m] \o pending'[m] = functors[m] \o pending[m]
      BY <3>3, <3>4
    <3>6. UNCHANGED <<fresh, ran>>
      BY <2>4 DEF TakeFunctors
    <3>7. QED
      BY <3>5, <3>6
  <2>5. ASSUME NEW t \in Threads, NEW l \in Loops, Quit(t, l)
        PROVE UNCHANGED <<fresh, q, ran>>
    BY <2>5 DEF Quit, queueVars
  <2>6. ASSUME NEW l \in Loops, Loop(l) \/ Iterate(l) \/ Stop(l)
        PROVE UNCHANGED <<fresh, q, ran>>
    BY <2>6 DEF Loop, Iterate, Stop, queueVars
  <2>7. ASSUME NEW l \in Loops, PollWakeup(l) \/ PollIo(l) \/ PollTimeout(l) \/ PollFails(l)
        PROVE UNCHANGED <<fresh, q, ran>>
    BY <2>7 DEF PollWakeup, PollIo, PollTimeout, PollFails, PollReturns, queueVars
  <2>8. ASSUME NEW l \in Loops, HandleRead(l) \/ BeginCallback(l) \/ EndCallback(l)
        PROVE UNCHANGED <<fresh, q, ran>>
    BY <2>8 DEF HandleRead, BeginCallback, EndCallback, queueVars
  <2>9. ASSUME NEW l \in Loops, EndFunctor(l) \/ FinishFunctors(l)
        PROVE UNCHANGED <<fresh, q, ran>>
    BY <2>9 DEF EndFunctor, FinishFunctors, queueVars
  <2>10. CASE UNCHANGED vars
    BY <2>10 DEF vars
  <2>11. ASSUME NEW t \in Threads, Wakeup(t) PROVE UNCHANGED <<fresh, q, ran>>
    BY <2>11 DEF Wakeup, loopVars, queueVars
  <2>12. QED
    BY <2>1, <2>2, <2>3, <2>4, <2>5, <2>6, <2>7, <2>8, <2>9, <2>10, <2>11
       DEF Next, Call, LoopStep, FQ!Next
<1>3. QED
  BY <1>1, <1>2, TypeCorrect, DrainedInv, PTL DEF Spec, Implements, FQ!Spec
-----------------------------------------------------------------------------
(* Wakeup messages are backed by functors: each one written or about to be *)
(* written to a loop's pipe has a functor of its own that was handed to    *)
(* that loop.                                                              *)
Handed(l)  == Range(functors[l]) \cup Range(pending[l]) \cup Range(ran[l])
Writers(l) == {t \in Threads : waking[t] = l}

Covers(H, p, W) == /\ IsFiniteSet(H) /\ IsFiniteSet(W)
                   /\ p + Cardinality(W) <= Cardinality(H)

Backed == \A l \in Loops : Covers(Handed(l), pipe[l], Writers(l))

(* A functor is handed over once, to one loop; no loop wakes itself up.     *)
Apart ==
  /\ IsFiniteSet(Functors \ fresh)
  /\ \A l \in Loops : Handed(l) \subseteq Functors \ fresh /\ waking[l] # l
  /\ \A l, m \in Loops : l # m => Handed(l) \cap Handed(m) = {}

LEMMA CoversEmpty == Covers({}, 0, {})
  BY FS_EmptySet DEF Covers

LEMMA CoversMore ==
  ASSUME NEW H, NEW p \in Nat, NEW W, Covers(H, p, W), NEW f, f \notin H, NEW t
  PROVE  Covers(H \cup {f}, p, W) /\ Covers(H \cup {f}, p, W \cup {t})
<1>1. IsFiniteSet(H) /\ IsFiniteSet(W) /\ Cardinality(H) \in Nat /\ Cardinality(W) \in Nat
  BY FS_CardinalityType DEF Covers
<1>2. IsFiniteSet(H \cup {f}) /\ Cardinality(H \cup {f}) = Cardinality(H) + 1
  BY <1>1, FS_AddElement
<1>3. /\ IsFiniteSet(W \cup {t}) 
      /\ Cardinality(W \cup {t}) = IF t \in W THEN Cardinality(W) ELSE Cardinality(W) + 1
  BY <1>1, FS_AddElement
<1>4. QED
  BY <1>1, <1>2, <1>3 DEF Covers

LEMMA CoversWritten ==
  ASSUME NEW H, NEW p \in Nat, NEW W, Covers(H, p, W), NEW t \in W
  PROVE  Covers(H, p + 1, W \ {t})
<1>1. IsFiniteSet(W) /\ Cardinality(H) \in Nat /\ Cardinality(W) \in Nat
  BY FS_CardinalityType DEF Covers
<1>2. IsFiniteSet(W \ {t}) /\ Cardinality(W \ {t}) = Cardinality(W) - 1
  BY <1>1, FS_RemoveElement
<1>3. QED
  BY <1>1, <1>2 DEF Covers

LEMMA CoversRead ==
  ASSUME NEW H, NEW p \in Nat, NEW W, Covers(H, p, W), p > 0
  PROVE  Covers(H, p - 1, W)
<1>1. Cardinality(H) \in Nat /\ Cardinality(W) \in Nat
  BY FS_CardinalityType DEF Covers
<1>2. QED
  BY <1>1 DEF Covers

LEMMA CoversBlocked ==
  ASSUME NEW H, NEW p \in Nat, NEW W, Covers(H, p, W), NEW t \in W
  PROVE  IsFiniteSet(H) /\ Cardinality(H) \in Nat /\ Cardinality(H) >= p + 1
<1>1. IsFiniteSet(H) /\ Cardinality(H) \in Nat /\ Cardinality(W) \in Nat
  BY FS_CardinalityType DEF Covers
<1>2. Cardinality(W) # 0
  BY FS_EmptySet DEF Covers
<1>3. QED
  BY <1>1, <1>2 DEF Covers

LEMMA RangeAppend ==
  ASSUME NEW S, NEW s \in Seq(S), NEW e \in S
  PROVE  Range(Append(s, e)) = Range(s) \cup {e}
<1> DEFINE n == Len(s)
<1>1. n \in Nat /\ DOMAIN s = 1..n
  BY LenProperties
<1>2. /\ DOMAIN Append(s, e) = 1..(n + 1)
      /\ \A i \in 1..n : Append(s, e)[i] = s[i]
      /\ Append(s, e)[n + 1] = e
  BY <1>1, AppendProperties, LenProperties
<1>3. QED
  BY <1>1, <1>2 DEF Range

LEMMA RangeHeadTail ==
  ASSUME NEW S, NEW s \in Seq(S), s # <<>>
  PROVE  Range(s) = {Head(s)} \cup Range(Tail(s)) /\ Head(s) \in S /\ Tail(s) \in Seq(S)
<1> DEFINE n == Len(s)
<1>1. n \in Nat /\ n > 0 /\ DOMAIN s = 1..n /\ Head(s) = s[1]
  BY LenProperties, EmptySeq
<1>2. /\ Head(s) \in S /\ Tail(s) \in Seq(S)
      /\ DOMAIN Tail(s) = 1..(n - 1)
      /\ \A i \in 1..(n - 1) : Tail(s)[i] = s[i + 1]
  BY <1>1, HeadTailProperties, LenProperties
<1>3. ASSUME NEW f \in Range(s), f # Head(s) PROVE f \in Range(Tail(s))
  <2>1. PICK i \in 1..n : s[i] = f /\ i # 1
    BY <1>1, <1>3 DEF Range
  <2>2. i - 1 \in DOMAIN Tail(s) /\ Tail(s)[i - 1] = f
    BY <1>1, <1>2, <2>1
  <2>3. QED
    BY <2>2 DEF Range
<1>4. ASSUME NEW f \in Range(Tail(s)) PROVE f \in Range(s)
  <2>1. PICK i \in 1..(n - 1) : Tail(s)[i] = f
    BY <1>2, <1>4 DEF Range
  <2>2. i + 1 \in DOMAIN s /\ s[i + 1] = f
    BY <1>1, <1>2, <2>1
  <2>3. QED
    BY <2>2 DEF Range
<1>5. QED
  BY <1>1, <1>2, <1>3, <1>4 DEF Range

(* A functor that nobody had yet is handed to l, and nothing else changes   *)
(* hands.                                                                   *)
HandsOver(l, f) ==
  /\ f \in fresh /\ fresh' = fresh \ {f}
  /\ Handed(l)' = Handed(l) \cup {f}
  /\ \A m \in Loops \ {l} : Handed(m)' = Handed(m)

KeepsHanded == fresh' = fresh /\ \A m \in Loops : Handed(m)' = Handed(m)

LEMMA HandedStep ==
  ASSUME TypeOK, Drained, [Next]_vars
  PROVE  \/ /\ KeepsHanded
            /\ \/ UNCHANGED <<pipe, waking>>
               \/ \E t \in Threads : Wakeup(t)
               \/ \E l \in Loops : HandleRead(l)
         \/ \E t \in Threads, l \in Loops, f \in Functors :
               /\ HandsOver(l, f) /\ pipe' = pipe
               /\ waking' = waking \/ (t # l /\ waking[t] = None
                                        /\ waking' = [waking EXCEPT ![t] = l])
<1> USE DEF TypeOK, loopVars, queueVars
<1>1. ASSUME NEW t \in Threads, NEW l \in Loops, NEW f \in Functors, RunNow(t, l, f)
      PROVE  HandsOver(l, f) /\ UNCHANGED <<pipe, waking>>
  <2>1. Range(Append(ran[l], f)) = Range(ran[l]) \cup {f}
    BY RangeAppend
  <2>2. /\ ran'[l] = Append(ran[l], f) /\ \A m \in Loops \ {l} : ran'[m] = ran[m]
        /\ UNCHANGED <<functors, pending, pipe, waking>> /\ f \in fresh /\ fresh' = fresh \ {f}
    BY <1>1 DEF RunNow
  <2>3. QED
    BY <2>1, <2>2 DEF HandsOver, Handed
<1>2. ASSUME NEW t \in Threads, NEW l \in Loops, NEW f \in Functors, QueueInLoop(t, l, f)
      PROVE  /\ HandsOver(l, f) /\ pipe' = pipe
             /\ t # l /\ waking[t] = None /\ waking' = [waking EXCEPT ![t] = l]
  <2>1. Range(Append(pending[l], f)) = Range(pending[l]) \cup {f}
    BY RangeAppend
  <2>2. /\ pending'[l] = Append(pending[l], f)
        /\ \A m \in Loops \ {l} : pending'[m] = pending[m]
        /\ UNCHANGED <<functors, ran, pipe>> /\ f \in fresh /\ fresh' = fresh \ {f}
    BY <1>2 DEF QueueInLoop
  <2>3. t # l /\ waking[t] = None /\ waking' = [waking EXCEPT ![t] = l]
    BY <1>2 DEF QueueInLoop, NeedsWakeup, IsInLoopThread, CanCall
  <2>4. QED
    BY <2>1, <2>2, <2>3 DEF HandsOver, Handed
<1>3. ASSUME NEW l \in Loops, TakeFunctors(l) PROVE KeepsHanded /\ UNCHANGED <<pipe, waking>>
  <2>1. /\ functors'[l] = pending[l] /\ pending'[l] = <<>> /\ functors[l] = <<>>
        /\ \A m \in Loops \ {l} : functors'[m] = functors[m] /\ pending'[m] = pending[m]
        /\ UNCHANGED <<ran, fresh, pipe, waking>>
    BY <1>3 DEF TakeFunctors, LeftBehind, Drained
  <2>2. QED
    BY <2>1 DEF KeepsHanded, Handed
<1>4. ASSUME NEW l \in Loops, BeginFunctor(l) PROVE KeepsHanded /\ UNCHANGED <<pipe, waking>>
  <2>1. functors[l] # <<>> /\ functors[l] \in Seq(Functors) /\ ran[l] \in Seq(Functors)
    BY <1>4 DEF BeginFunctor
  <2>2. /\ Range(functors[l]) = {Head(functors[l])} \cup Range(Tail(functors[l]))
        /\ Head(functors[l]) \in Functors
    BY <2>1, RangeHeadTail
  <2>3. Range(Append(ran[l], Head(functors[l]))) = Range(ran[l]) \cup {Head(functors[l])}
    BY <2>1, <2>2, RangeAppend
  <2>4. /\ functors'[l] = Tail(functors[l]) /\ ran'[l] = Append(ran[l], Head(functors[l]))
        /\ \A m \in Loops \ {l} : functors'[m] = functors[m] /\ ran'[m] = ran[m]
        /\ UNCHANGED <<pending, fresh, pipe, waking>>
    BY <1>4 DEF BeginFunctor
  <2>5. QED
    BY <2>2, <2>3, <2>4 DEF KeepsHanded, Handed
<1>5. ASSUME UNCHANGED <<functors, pending, ran, fresh>> PROVE KeepsHanded
  BY <1>5 DEF KeepsHanded, Handed
<1>6. ASSUME NEW t \in Threads, NEW l \in Loops, Quit(t, l)
      PROVE  UNCHANGED <<functors, pending, ran, fresh, pipe, waking>>
  BY <1>6 DEF Quit
<1>7. ASSUME NEW l \in Loops, Loop(l) \/ Iterate(l) \/ Stop(l)
      PROVE  UNCHANGED <<functors, pending, ran, fresh, pipe, waking>>
  BY <1>7 DEF Loop, Iterate, Stop
<1>8. ASSUME NEW l \in Loops, PollWakeup(l) \/ PollIo(l) \/ PollTimeout(l) \/ PollFails(l)
      PROVE  UNCHANGED <<functors, pending, ran, fresh, pipe, waking>>
  BY <1>8 DEF PollWakeup, PollIo, PollTimeout, PollFails, PollReturns
<1>9. ASSUME NEW l \in Loops, BeginCallback(l) \/ EndCallback(l) \/ EndFunctor(l) \/ FinishFunctors(l)
      PROVE  UNCHANGED <<functors, pending, ran, fresh, pipe, waking>>
  BY <1>9 DEF BeginCallback, EndCallback, EndFunctor, FinishFunctors
<1>10. ASSUME NEW t \in Threads, Wakeup(t) PROVE UNCHANGED <<functors, pending, ran, fresh>>
  BY <1>10 DEF Wakeup
<1>11. ASSUME NEW l \in Loops, HandleRead(l) PROVE UNCHANGED <<functors, pending, ran, fresh>>
  BY <1>11 DEF HandleRead
<1>12. CASE UNCHANGED vars
  BY <1>5, <1>12 DEF vars
<1>13. QED
  BY <1>1, <1>2, <1>3, <1>4, <1>5, <1>6, <1>7, <1>8, <1>9, <1>10, <1>11, <1>12
     DEF Next, Call, LoopStep

(* Two loops that block each other have been handed PipeCap + 1 functors    *)
(* each: what is written to a pipe never outruns what is handed over, so    *)
(* the mutual block takes that long a backlog of wakeups.                   *)
THEOREM MutualBlockBound == Spec => []MutualBlockNeedsBacklog
<1>1. Init => Backed /\ Apart
  <2> SUFFICES ASSUME Init PROVE Backed /\ Apart
    OBVIOUS
  <2>1. Range(<<>>) = {}
    BY DEF Range
  <2>2. \A l \in Loops : Handed(l) = {} /\ Writers(l) = {} /\ pipe[l] = 0 /\ waking[l] # l
    BY <2>1, ThreadAssumption DEF Init, Handed, Writers, Threads
  <2>3. Functors \ fresh = {}
    BY DEF Init
  <2>4. Backed
    BY <2>2, CoversEmpty DEF Backed
  <2>5. Apart
    BY <2>2, <2>3, FS_EmptySet DEF Apart
  <2>6. QED
    BY <2>4, <2>5
<1>2. TypeOK /\ Drained /\ Backed /\ Apart /\ [Next]_vars => Backed' /\ Apart'
  <2> SUFFICES ASSUME TypeOK, Drained, Backed, Apart, [Next]_vars PROVE Backed' /\ Apart'
    OBVIOUS
  <2> USE ThreadAssumption DEF TypeOK, Threads
  <2>1. ASSUME KeepsHanded PROVE (\A l \in Loops : waking'[l] # l) => Apart'
    BY <2>1 DEF KeepsHanded, Apart
  <2>2. ASSUME KeepsHanded, UNCHANGED <<pipe, waking>> PROVE Backed' /\ Apart'
    <3>1. \A l \in Loops : Writers(l)' = Writers(l)
      BY <2>2 DEF Writers
    <3>2. QED
      BY <2>1, <2>2, <3>1 DEF KeepsHanded, Backed, Apart
  <2>3. ASSUME KeepsHanded, NEW t \in Threads, Wakeup(t) PROVE Backed' /\ Apart'
    <3>1. PICK l \in Loops : waking[t] = l
      BY <2>3 DEF Wakeup
    <3>2. /\ pipe'[l] = pipe[l] + 1 /\ \A m \in Loops \ {l} : pipe'[m] = pipe[m]
          /\ waking' = [waking EXCEPT ![t] = None]
      BY <2>3, <3>1 DEF Wakeup
    <3>3. Writers(l)' = Writers(l) \ {t} /\ t \in Writers(l)
          /\ \A m \in Loops \ {l} : Writers(m)' = Writers(m)
      BY <3>1, <3>2 DEF Writers
    <3>4. PICK H, W, p : H = Handed(l) /\ W = Writers(l) /\ p = pipe[l] /\ p \in Nat
      BY PipeCapAssumption
    <3>5. Backed'
      <4>1. Covers(H, p, W) /\ t \in W
        BY <3>3, <3>4 DEF Backed
      <4>2. Covers(H, p + 1, W \ {t})
        BY <3>4, <4>1, CoversWritten
      <4>3. Handed(l)' = H /\ pipe'[l] = p + 1 /\ Writers(l)' = W \ {t}
        BY <2>3, <3>2, <3>3, <3>4 DEF KeepsHanded
      <4>4. ASSUME NEW m \in Loops, m # l PROVE Covers(Handed(m)', pipe'[m], Writers(m)')
        BY <2>3, <3>2, <3>3, <4>4 DEF Backed, KeepsHanded
      <4>5. Covers(Handed(l)', pipe'[l], Writers(l)')
        BY <4>2, <4>3
      <4>6. QED
        BY <4>4, <4>5 DEF Backed
    <3>6. \A m \in Loops : waking'[m] # m
      BY <3>2 DEF Apart
    <3>7. QED
      BY <2>1, <2>3, <3>5, <3>6
  <2>4. ASSUME KeepsHanded, NEW l \in Loops, HandleRead(l) PROVE Backed' /\ Apart'
    <3>1. /\ pipe[l] > 0 /\ pipe'[l] = pipe[l] - 1
          /\ \A m \in Loops \ {l} : pipe'[m] = pipe[m]
          /\ waking' = waking
      BY <2>4 DEF HandleRead
    <3>2. PICK H, W, p : H = Handed(l) /\ W = Writers(l) /\ p = pipe[l] /\ p \in Nat
      BY PipeCapAssumption
    <3>3. \A m \in Loops : Writers(m)' = Writers(m) /\ waking'[m] # m
      BY <3>1 DEF Writers, Apart
    <3>4. Backed'
      <4>1. Covers(H, p, W) /\ p > 0
        BY <3>1, <3>2 DEF Backed
      <4>2. Covers(H, p - 1, W)
        BY <3>2, <4>1, CoversRead
      <4>3. Handed(l)' = H /\ pipe'[l] = p - 1 /\ Writers(l)' = W
        BY <2>4, <3>1, <3>2, <3>3 DEF KeepsHanded
      <4>4. ASSUME NEW m \in Loops, m # l PROVE Covers(Handed(m)', pipe'[m], Writers(m)')
        BY <2>4, <3>1, <3>3, <4>4 DEF Backed, KeepsHanded
      <4>5. Covers(Handed(l)', pipe'[l], Writers(l)')
        BY <4>2, <4>3
      <4>6. QED
        BY <4>4, <4>5 DEF Backed
    <3>5. QED
      BY <2>1, <2>4, <3>3, <3>4
  <2>5. ASSUME NEW t \in Threads, NEW l \in Loops, NEW f \in Functors, HandsOver(l, f), pipe' = pipe,
               waking' = waking \/ (t # l /\ waking[t] = None /\ waking' = [waking EXCEPT ![t] = l])
        PROVE  Backed' /\ Apart'
    <3>1. \A m \in Loops : f \notin Handed(m)
      BY <2>5 DEF HandsOver, Apart
    <3> PICK U : U = Functors \ fresh
      OBVIOUS
    <3>2. PICK H, W, p : /\ H = Handed(l) /\ W = Writers(l) /\ p = pipe[l] /\ p \in Nat
                         /\ U = Functors \ fresh
      BY PipeCapAssumption
    <3>3. /\ Writers(l)' = W \/ Writers(l)' = W \cup {t}
          /\ \A m \in Loops \ {l} : Writers(m)' = Writers(m)
      BY <2>5, <3>2 DEF Writers
    <3>4. Handed(l)' = H \cup {f} /\ \A m \in Loops \ {l} : Handed(m)' = Handed(m)
      BY <2>5, <3>2 DEF HandsOver
    <3>5. Backed'
      <4>1. Covers(H, p, W) /\ f \notin H
        BY <3>1, <3>2 DEF Backed
      <4>2. Covers(H \cup {f}, p, W) /\ Covers(H \cup {f}, p, W \cup {t})
        BY <3>2, <4>1, CoversMore
      <4>3. ASSUME NEW m \in Loops, m # l PROVE Covers(Handed(m)', pipe'[m], Writers(m)')
        BY <2>5, <3>3, <3>4, <4>3 DEF Backed
      <4>4. Covers(Handed(l)', pipe'[l], Writers(l)')
        BY <2>5, <3>2, <3>3, <3>4, <4>2
      <4>5. QED
        BY <4>3, <4>4 DEF Backed
    <3>6. IsFiniteSet(U)
      BY <3>2 DEF Apart
    <3>7. Functors \ fresh' = U \cup {f}
      BY <2>5, <3>2 DEF HandsOver
    <3>8. IsFiniteSet(Functors \ fresh')
      <4>1. IsFiniteSet(U \cup {f})
        BY <3>6, FS_AddElement
      <4>2. QED
        BY <3>7, <4>1, Zenon
    <3>9. \A m \in Loops : waking'[m] # m
      BY <2>5 DEF Apart
    <3>10. ASSUME NEW m \in Loops PROVE Handed(m)' \subseteq Functors \ fresh'
      <4>1. Handed(m) \subseteq U
        BY <3>2 DEF Apart
      <4>2. CASE m = l
        BY <3>2, <3>4, <3>7, <4>1, <4>2
      <4>3. CASE m # l
        BY <3>4, <3>7, <4>1, <4>3
      <4>4. QED
        BY <4>2, <4>3
    <3>11. ASSUME NEW m \in Loops, NEW k \in Loops, m # k PROVE Handed(m)' \cap Handed(k)' = {}
      <4>1. Handed(m) \cap Handed(k) = {} /\ f \notin Handed(m) /\ f \notin Handed(k)
        BY <3>1, <3>11 DEF Apart
      <4>2. CASE m = l
        BY <3>2, <3>4, <3>11, <4>1, <4>2
      <4>3. CASE k = l
        BY <3>2, <3>4, <3>11, <4>1, <4>3
      <4>4. CASE m # l /\ k # l
        BY <3>4, <4>1, <4>4
      <4>5. QED
        BY <4>2, <4>3, <4>4
    <3>12. Apart'
      BY <3>8, <3>9, <3>10, <3>11 DEF Apart
    <3>13. QED
      BY <3>5, <3>12
  <2>6. QED
    BY <2>2, <2>3, <2>4, <2>5, HandedStep
<1>3. TypeOK /\ Backed /\ Apart => MutualBlockNeedsBacklog
  <2> SUFFICES ASSUME TypeOK, Backed, Apart, NEW l \in Loops, NEW m \in Loops,
                      waking[l] = m, pipe[m] = PipeCap, waking[m] = l, pipe[l] = PipeCap
               PROVE  Cardinality(Functors \ fresh) >= 2 * PipeCap + 2
    BY DEF MutualBlockNeedsBacklog
  <2> DEFINE L == Handed(l)
             M == Handed(m)
             U == Functors \ fresh
  <2>1. l # m /\ l \in Writers(m) /\ m \in Writers(l)
    BY DEF Apart, Writers, Threads
  <2>2. /\ IsFiniteSet(L) /\ Cardinality(L) \in Nat /\ Cardinality(L) >= PipeCap + 1
        /\ IsFiniteSet(M) /\ Cardinality(M) \in Nat /\ Cardinality(M) >= PipeCap + 1
    BY <2>1, CoversBlocked, PipeCapAssumption DEF Backed
  <2>3. L \cap M = {} /\ L \cup M \subseteq U /\ IsFiniteSet(U)
    BY <2>1 DEF Apart
  <2> HIDE DEF L, M, U
  <2>4. Cardinality(L \cap M) = 0
    BY <2>3, FS_EmptySet
  <2>5. Cardinality(L \cup M) = Cardinality(L) + Cardinality(M) - Cardinality(L \cap M)
    BY <2>2, FS_Union
  <2>6. Cardinality(L \cup M) <= Cardinality(U) /\ Cardinality(U) \in Nat
    BY <2>3, FS_Subset, FS_CardinalityType
  <2>7. Cardinality(U) >= 2 * PipeCap + 2
    BY <2>2, <2>4, <2>5, <2>6, PipeCapAssumption
  <2>8. QED
    BY <2>7 DEF U
<1>4. QED
  BY <1>1, <1>2, <1>3, TypeCorrect, DrainedInv, PTL DEF Spec
=============================================================================
