-------------------------- MODULE TimerQueueProofs --------------------------
(* Theorems about TimerQueue, for every set of timers, every capacity of    *)
(* the pipe and every number of expirations.                                *)
EXTENDS TimerQueue, SequenceTheorems, FiniteSetTheorems, TLAPS

(* The copies of an id in a pipe.                                           *)
Places(q, id) == {i \in DOMAIN q : q[i] = id}
Count(q, id) == Cardinality(Places(q, id))

(* An expiration is being written, is in the pipe, or has had its run:      *)
(* never two of these.                                                      *)
Writing(id) == IF thread[id] = "writing" THEN 1 ELSE 0

Accounted ==
  \A id \in Timers : /\ runs[id] + Count(pipe, id) + Writing(id) <= fired[id]
                     /\ current = id => runs[id] > 0

(* A timer that does not repeat expires once, and waits only before that.   *)
OneShot ==
  \A id \in Timers : ~repeat[id] => /\ fired[id] <= 1
                                    /\ thread[id] = "waiting" => fired[id] = 0

(* Before its thread exists a timer has not expired, and who it is was      *)
(* decided once: its id was drawn and at most one functor adds it.          *)
Fresh ==
  /\ \A id \in Timers : thread[id] = "none" => fired[id] = 0
  /\ \A id \in unused : thread[id] = "none"
  /\ \A i \in DOMAIN pending : pending[i].op = "add" =>
       /\ pending[i].id \notin unused
       /\ thread[pending[i].id] = "none"
       /\ \A j \in DOMAIN pending :
            pending[j].op = "add" /\ pending[j].id = pending[i].id => i = j

(* The parts of TimersKept that are not a matter of counting.               *)
Listed ==
  /\ failed # "read"
  /\ \A id \in Timers :
       /\ thread[id] \in {"waiting", "writing"} \/ Count(pipe, id) > 0 => id \in timerList
       /\ thread[id] # "none" /\ id \notin timerList => ~repeat[id] /\ fired[id] > 0

IInv == TypeOK /\ Accounted /\ OneShot /\ Fresh /\ Listed
-----------------------------------------------------------------------------
(* Counting in sequences.                                                   *)
LEMMA CountType ==
  ASSUME NEW q \in Seq(Timers), NEW id
  PROVE  /\ IsFiniteSet(Places(q, id)) /\ Count(q, id) \in Nat
         /\ Count(q, id) > 0 <=> Places(q, id) # {}
<1>1. DOMAIN q = 1..Len(q) /\ Len(q) \in Nat
  BY LenProperties
<1>2. IsFiniteSet(1..Len(q))
  BY <1>1, FS_Interval
<1>3. IsFiniteSet(Places(q, id))
  BY <1>1, <1>2, FS_Subset DEF Places
<1>4. QED
  BY <1>3, FS_CardinalityType, FS_EmptySet DEF Count

LEMMA CountAppend ==
  ASSUME NEW q \in Seq(Timers), NEW e \in Timers, NEW id
  PROVE  Count(Append(q, e), id) = Count(q, id) + (IF e = id THEN 1 ELSE 0)
<1> DEFINE n == Len(q)
<1>1. n \in Nat /\ DOMAIN q = 1..n
  BY LenProperties
<1>2. /\ DOMAIN Append(q, e) = 1..(n + 1)
      /\ \A i \in 1..n : Append(q, e)[i] = q[i]
      /\ Append(q, e)[n + 1] = e
  BY <1>1, AppendProperties, LenProperties
<1>3. Places(Append(q, e), id) = Places(q, id) \cup (IF e = id THEN {n + 1} ELSE {})
  <2>1. ASSUME NEW i
        PROVE  i \in Places(Append(q, e), id) <=> i \in Places(q, id) \/ (e = id /\ i = n + 1)
    <3>1. CASE i \in 1..n
      BY <1>1, <1>2, <3>1 DEF Places
    <3>2. CASE i = n + 1
      BY <1>1, <1>2, <3>2 DEF Places
    <3>3. CASE i \notin 1..(n + 1)
      BY <1>1, <1>2, <3>3 DEF Places
    <3>4. QED
      BY <1>1, <3>1, <3>2, <3>3
  <2>2. QED
    BY <2>1
<1>4. n + 1 \notin Places(q, id)
  BY <1>1 DEF Places
<1>5. IsFiniteSet(Places(q, id)) /\ Count(q, id) \in Nat
  BY CountType
<1>6. /\ IsFiniteSet(Places(q, id) \cup {n + 1})
      /\ Cardinality(Places(q, id) \cup {n + 1}) = Cardinality(Places(q, id)) + 1
  BY <1>4, <1>5, FS_AddElement
<1>7. CASE e = id
  BY <1>3, <1>6, <1>7 DEF Count
<1>8. CASE e # id
  <2>1. Places(Append(q, e), id) = Places(q, id)
    BY <1>3, <1>8
  <2>2. QED
    BY <1>5, <1>8, <2>1 DEF Count
<1>9. QED
  BY <1>7, <1>8

LEMMA CountTail ==
  ASSUME NEW q \in Seq(Timers), q # <<>>, NEW id
  PROVE  Count(Tail(q), id) = Count(q, id) - (IF Head(q) = id THEN 1 ELSE 0)
<1> DEFINE n == Len(q)
<1> DEFINE rest == Places(q, id) \ {1}
<1> DEFINE shift == [i \in rest |-> i - 1]
<1>1. n \in Nat /\ n > 0 /\ DOMAIN q = 1..n /\ Head(q) = q[1]
  BY LenProperties, EmptySeq
<1>2. /\ DOMAIN Tail(q) = 1..(n - 1)
      /\ \A i \in 1..(n - 1) : Tail(q)[i] = q[i + 1]
  BY <1>1, HeadTailProperties, LenProperties
<1>3. shift \in Bijection(rest, Places(Tail(q), id))
  <2>1. \A i \in rest : i \in 2..n /\ shift[i] = i - 1 /\ q[i] = id
    BY <1>1 DEF Places
  <2>2. \A i \in rest : shift[i] \in Places(Tail(q), id)
    BY <1>1, <1>2, <2>1 DEF Places
  <2>3. \A k \in Places(Tail(q), id) : k + 1 \in rest /\ shift[k + 1] = k
    BY <1>1, <1>2 DEF Places
  <2>4. \A i, j \in rest : shift[i] = shift[j] => i = j
    BY <1>1, <2>1
  <2>5. shift \in [rest -> Places(Tail(q), id)]
    BY <2>2
  <2> HIDE DEF shift, rest
  <2>6. QED
    BY <2>3, <2>4, <2>5 DEF Bijection, Injection, Surjection, IsInjective
<1>4. IsFiniteSet(Places(q, id)) /\ Count(q, id) \in Nat
  BY CountType
<1>5. 1 \in Places(q, id) <=> Head(q) = id
  BY <1>1 DEF Places
<1>6. IsFiniteSet(rest)
      /\ Cardinality(rest) = Count(q, id) - (IF Head(q) = id THEN 1 ELSE 0)
  <2>1. CASE Head(q) = id
    <3>1. 1 \in Places(q, id)
      BY <1>5, <2>1
    <3>2. /\ IsFiniteSet(Places(q, id) \ {1})
          /\ Cardinality(Places(q, id) \ {1}) = Cardinality(Places(q, id)) - 1
      BY <1>4, <3>1, FS_RemoveElement
    <3>3. QED
      BY <2>1, <3>2 DEF Count
  <2>2. CASE Head(q) # id
    <3>1. rest = Places(q, id)
      BY <1>5, <2>2
    <3> HIDE DEF rest
    <3>2. QED
      BY <1>4, <2>2, <3>1 DEF Count
  <2>3. QED
    BY <2>1, <2>2
<1>7. Cardinality(Places(Tail(q), id)) = Cardinality(rest)
  <2> HIDE DEF shift, rest
  <2>1. ExistsBijection(rest, Places(Tail(q), id))
    BY <1>3 DEF ExistsBijection
  <2>2. QED
    BY <1>6, <2>1, FS_Bijection
<1>8. QED
  BY <1>6, <1>7 DEF Count
-----------------------------------------------------------------------------
(* What one timer's numbers say: together the parts of IInv bound a timer   *)
(* that does not repeat to one copy, one run, or none.                      *)
LEMMA Numbers ==
  ASSUME TypeOK, Accounted, NEW id \in Timers
  PROVE  /\ runs[id] \in Nat /\ fired[id] \in 0..MaxFires /\ MaxFires \in Nat
         /\ Count(pipe, id) \in Nat /\ Writing(id) \in {0, 1}
         /\ thread[id] = "writing" <=> Writing(id) = 1
         /\ runs[id] + Count(pipe, id) + Writing(id) <= fired[id]
<1>1. Count(pipe, id) \in Nat
  BY CountType DEF TypeOK
<1>2. MaxFires \in Nat
  BY BoundAssumption
<1>3. QED
  BY <1>1, <1>2 DEF TypeOK, Accounted, Writing

LEMMA InitEstablishes == Init => IInv
<1> SUFFICES ASSUME Init PROVE IInv
  OBVIOUS
<1>1. TypeOK
  BY BoundAssumption DEF Init, TypeOK
<1>2. \A id \in Timers : Count(pipe, id) = 0
  <2>1. \A id \in Timers : Places(pipe, id) = {}
    BY DEF Init, Places
  <2>2. QED
    BY <2>1, FS_EmptySet DEF Count
<1>3. Accounted /\ Listed
  BY <1>2, NoneAssumption DEF Init, Accounted, Listed, Writing
<1>4. OneShot /\ Fresh
  BY DEF Init, OneShot, Fresh
<1>5. QED
  BY <1>1, <1>3, <1>4 DEF IInv

(* A timer is added while it has no thread.                                 *)
LEMMA AddKeeps ==
  ASSUME IInv, NEW id \in Timers, NEW r \in BOOLEAN, AddTimerInLoop(id, r),
         thread[id] = "none", UNCHANGED <<pipe, current, fired, runs>>,
         unused' \in SUBSET unused, id \notin unused',
         pending' \in Seq(Functor),
         \A i \in DOMAIN pending' : pending'[i].op = "add" =>
           /\ pending'[i].id \notin unused' \cup {id}
           /\ thread[pending'[i].id] = "none"
           /\ \A j \in DOMAIN pending' :
                pending'[j].op = "add" /\ pending'[j].id = pending'[i].id => i = j
  PROVE  IInv'
<1> USE DEF IInv
<1>1. /\ timerList' = timerList \cup {id}
      /\ repeat' = [repeat EXCEPT ![id] = r]
      /\ thread' = [thread EXCEPT ![id] = "waiting"]
      /\ UNCHANGED <<cancelled, failed, pipe, current, fired, runs>>
  BY DEF AddTimerInLoop
<1>2. TypeOK'
  BY <1>1 DEF TypeOK
<1>3. \A i \in DOMAIN pending' : pending'[i].op = "add" => pending'[i].id \in Timers
  BY DEF Functor
<1>4. Fresh'
  BY <1>1, <1>3 DEF TypeOK, Fresh
<1>5. fired[id] = 0
  BY DEF Fresh
<1>6. OneShot'
  BY <1>1, <1>5 DEF TypeOK, OneShot
<1>7. Accounted'
  BY <1>1 DEF TypeOK, Accounted, Writing
<1>8. Listed'
  BY <1>1 DEF TypeOK, Listed
<1>9. QED
  BY <1>2, <1>4, <1>6, <1>7, <1>8

(* A cancellation at most ends a wait.                                      *)
LEMMA CancelKeeps ==
  ASSUME IInv, NEW id \in Timers, CancelInLoop(id),
         UNCHANGED <<unused, pipe, current, fired, runs>>,
         pending' = pending \/ (pending # <<>> /\ pending' = Tail(pending))
  PROVE  IInv'
<1> USE DEF IInv
<1>1. /\ UNCHANGED <<timerList, repeat, unused, pipe, current, fired, runs>>
      /\ cancelled' \in SUBSET Timers
      /\ thread' \in [Timers -> {"none", "waiting", "writing", "written", "done"}]
      /\ \A t \in Timers : \/ thread'[t] = thread[t]
                           \/ thread[t] = "waiting" /\ thread'[t] = "done" /\ t \in timerList
      /\ failed' \in {failed, "cancel"}
  BY DEF CancelInLoop, Aborted, TypeOK
<1>2. /\ pending' \in Seq(Functor)
      /\ \A i \in DOMAIN pending' :
           \E k \in DOMAIN pending : /\ pending'[i] = pending[k]
                                     /\ k = IF pending' = pending THEN i ELSE i + 1
  <2>1. CASE pending' = pending
    BY <2>1 DEF TypeOK
  <2>2. CASE pending # <<>> /\ pending' = Tail(pending) /\ pending' # pending
    BY <2>2, HeadTailProperties, LenProperties DEF TypeOK
  <2>3. QED
    BY <2>1, <2>2
<1>3. TypeOK'
  BY <1>1, <1>2 DEF TypeOK
<1>4. \A k \in DOMAIN pending : pending[k].op = "add" => pending[k].id \in Timers
  BY ElementOfSeq, LenProperties DEF TypeOK, Functor
<1>5. Fresh'
  <2>1. \A t \in Timers : thread'[t] = "none" => fired'[t] = 0
    BY <1>1 DEF Fresh
  <2>2. \A t \in unused' : thread'[t] = "none"
    BY <1>1 DEF Fresh, TypeOK
  <2>3. ASSUME NEW i \in DOMAIN pending', pending'[i].op = "add"
        PROVE  /\ pending'[i].id \notin unused'
               /\ thread'[pending'[i].id] = "none"
               /\ \A j \in DOMAIN pending' :
                    pending'[j].op = "add" /\ pending'[j].id = pending'[i].id => i = j
    <3>1. \A j \in DOMAIN pending : j \in Int
      BY LenProperties DEF TypeOK
    <3>2. \A j \in DOMAIN pending' : j \in Int
      BY <1>2, LenProperties
    <3>3. PICK k \in DOMAIN pending : /\ pending'[i] = pending[k]
                                      /\ k = IF pending' = pending THEN i ELSE i + 1
      BY <1>2
    <3>4. /\ pending[k].id \notin unused /\ thread[pending[k].id] = "none"
          /\ pending[k].id \in Timers
      BY <1>4, <2>3, <3>3 DEF Fresh
    <3>5. ASSUME NEW j \in DOMAIN pending',
                 pending'[j].op = "add", pending'[j].id = pending'[i].id
          PROVE  i = j
      <4>1. PICK l \in DOMAIN pending : /\ pending'[j] = pending[l]
                                        /\ l = IF pending' = pending THEN j ELSE j + 1
        BY <1>2
      <4>2. k = l
        BY <2>3, <3>3, <3>5, <4>1 DEF Fresh
      <4>3. QED
        BY <3>1, <3>2, <3>3, <4>1, <4>2
    <3>6. QED
      BY <1>1, <3>3, <3>4, <3>5
  <2>4. QED
    BY <2>1, <2>2, <2>3 DEF Fresh
<1>6. OneShot'
  BY <1>1 DEF OneShot
<1>7. Accounted'
  BY <1>1, Numbers DEF Accounted, Writing
<1>8. Listed'
  BY <1>1 DEF Listed
<1>9. QED
  BY <1>3, <1>5, <1>6, <1>7, <1>8

(* The loop reads an id from the pipe; its timer is in the list.            *)
LEMMA ReadKeeps == ASSUME IInv, HandleRead PROVE IInv'
<1> USE DEF IInv
<1> DEFINE id == Head(pipe)
<1>1. /\ current = None /\ pipe \in Seq(Timers) /\ pipe # <<>> /\ pipe' = Tail(pipe)
      /\ UNCHANGED <<unused, pending, repeat, cancelled, thread, fired>>
  BY DEF HandleRead, TypeOK
<1>2. /\ id \in Timers /\ pipe' \in Seq(Timers) /\ Len(pipe') <= PipeCap
      /\ \A t \in Timers : Count(pipe', t) = Count(pipe, t) - (IF id = t THEN 1 ELSE 0)
  <2>1. id \in Timers /\ pipe' \in Seq(Timers) /\ Len(pipe') = Len(pipe) - 1 /\ Len(pipe) \in Nat
    BY <1>1, HeadTailProperties, LenProperties
  <2>2. QED
    BY <1>1, <2>1, CountTail, BoundAssumption DEF TypeOK
<1>3. \A t \in Timers : Count(pipe', t) \in Nat
  BY <1>2, CountType
<1>4. ASSUME NEW t \in Timers
      PROVE  /\ Count(pipe', t) <= Count(pipe, t)
             /\ Count(pipe', t) > 0 => Count(pipe, t) > 0
             /\ id = t => Count(pipe', t) = Count(pipe, t) - 1
             /\ Count(pipe', t) \in Nat /\ Count(pipe, t) \in Nat /\ Writing(t) \in Nat
             /\ runs[t] \in Nat /\ fired[t] \in Nat
             /\ runs[t] + Count(pipe, t) + Writing(t) <= fired[t]
  <2>1. /\ Count(pipe', t) = Count(pipe, t) - (IF id = t THEN 1 ELSE 0)
        /\ Count(pipe', t) \in Nat
    BY <1>2, <1>3
  <2>2. /\ Count(pipe, t) \in Nat /\ Writing(t) \in Nat
        /\ runs[t] \in Nat /\ fired[t] \in Nat
        /\ runs[t] + Count(pipe, t) + Writing(t) <= fired[t]
    BY Numbers
  <2>3. QED
    BY <2>1, <2>2
<1>5. Count(pipe, id) > 0 /\ id \in timerList
  BY <1>2, <1>3, Numbers DEF Listed
<1>6. failed' = failed
  BY <1>5 DEF HandleRead
<1>7. Fresh' /\ OneShot'
  BY <1>1 DEF Fresh, OneShot
<1>8. CASE Skipped(id)
  <2>1. UNCHANGED <<current, runs>> /\ timerList' = Finished(id)
    BY <1>5, <1>8 DEF HandleRead
  <2>2. TypeOK'
    BY <1>1, <1>2, <1>6, <2>1 DEF TypeOK, Finished
  <2>3. Accounted'
    <3>1. \A t \in Timers : runs'[t] = runs[t] /\ fired'[t] = fired[t]
                             /\ Writing(t)' = Writing(t) /\ (current' = t <=> current = t)
      BY <1>1, <2>1 DEF Writing
    <3>2. QED
      BY <1>4, <3>1 DEF Accounted
  <2>4. Listed'
    <3>1. \A t \in Timers : Count(pipe', t) > 0 => Count(pipe, t) > 0
      BY <1>4
    <3>2. ~repeat[id] => /\ fired[id] = 1 /\ Count(pipe, id) = 1 /\ Writing(id) = 0
                         /\ thread[id] # "waiting"
      BY <1>2, <1>5, Numbers DEF OneShot
    <3>3. ~repeat[id] => /\ fired[id] > 0 /\ Count(pipe', id) = 0
                         /\ thread[id] \notin {"waiting", "writing"}
      BY <1>2, <3>2 DEF Writing
    <3>4. QED
      BY <1>1, <1>2, <1>6, <2>1, <3>1, <3>3 DEF Listed, Finished
  <2>5. QED
    BY <1>7, <2>2, <2>3, <2>4
<1>9. CASE ~Skipped(id)
  <2>1. /\ current' = id /\ runs' = [runs EXCEPT ![id] = @ + 1]
        /\ timerList' = timerList
    BY <1>5, <1>9 DEF HandleRead
  <2>2. \A t \in Timers : runs'[t] = runs[t] + (IF id = t THEN 1 ELSE 0)
    BY <1>2, <2>1 DEF TypeOK
  <2>3. Accounted'
    <3>1. \A t \in Timers : fired'[t] = fired[t] /\ Writing(t)' = Writing(t)
      BY <1>1 DEF Writing
    <3>2. QED
      BY <1>4, <2>1, <2>2, <3>1 DEF Accounted
  <2>4. TypeOK'
    <3>1. runs[id] + 1 <= fired[id] /\ runs[id] + 1 \in 0..MaxFires
      BY <1>2, <1>5, Numbers, SMTT(30)
    <3>2. runs' \in [Timers -> 0..MaxFires]
      BY <1>2, <2>1, <3>1 DEF TypeOK
    <3>3. QED
      BY <1>1, <1>2, <1>6, <2>1, <3>2 DEF TypeOK
  <2>5. Listed'
    <3>1. \A t \in Timers : Count(pipe', t) > 0 => Count(pipe, t) > 0
      BY <1>4
    <3>2. QED
      BY <1>1, <1>6, <2>1, <3>1 DEF Listed
  <2>6. QED
    BY <1>7, <2>3, <2>4, <2>5
<1>10. QED
  BY <1>8, <1>9

(* The timer's thread writes the id, if there is room.                      *)
LEMMA WriteKeeps == ASSUME IInv, NEW id \in Timers, HandleTimeout(id) PROVE IInv'
<1> USE DEF IInv
<1>1. /\ thread[id] = "writing" /\ Len(pipe) < PipeCap /\ pipe' = Append(pipe, id)
      /\ thread' = [thread EXCEPT ![id] = "written"]
      /\ UNCHANGED <<unused, pending, timerList, repeat, cancelled, current, fired, runs, failed>>
  BY DEF HandleTimeout
<1>2. /\ pipe' \in Seq(Timers) /\ Len(pipe') <= PipeCap
      /\ \A t \in Timers : Count(pipe', t) = Count(pipe, t) + (IF id = t THEN 1 ELSE 0)
  <2>1. /\ pipe' \in Seq(Timers) /\ Len(pipe') = Len(pipe) + 1 /\ Len(pipe) \in Nat
    BY <1>1, AppendProperties, LenProperties DEF TypeOK
  <2>2. QED
    BY <1>1, <2>1, CountAppend, BoundAssumption DEF TypeOK
<1>3. TypeOK'
  BY <1>1, <1>2 DEF TypeOK
<1>4. \A t \in Timers : Writing(t)' = Writing(t) - (IF id = t THEN 1 ELSE 0)
  BY <1>1 DEF TypeOK, Writing
<1>5. Accounted'
  <2>1. ASSUME NEW t \in Timers
        PROVE  /\ runs'[t] + Count(pipe', t) + Writing(t)' <= fired'[t]
               /\ current' = t => runs'[t] > 0
    <3>1. /\ runs[t] \in Nat /\ Count(pipe, t) \in Nat /\ Writing(t) \in Nat /\ fired[t] \in Nat
          /\ runs[t] + Count(pipe, t) + Writing(t) <= fired[t]
          /\ current = t => runs[t] > 0
      BY Numbers DEF Accounted
    <3>2. QED
      BY <1>1, <1>2, <1>4, <3>1, SMTT(30)
  <2>2. QED
    BY <2>1 DEF Accounted
<1>6. OneShot'
  BY <1>1 DEF TypeOK, OneShot
<1>7. Fresh'
  <2>1. \A t \in Timers : thread'[t] = "none" <=> thread[t] = "none"
    BY <1>1 DEF TypeOK
  <2>2. \A k \in DOMAIN pending : pending[k].op = "add" => pending[k].id \in Timers
    BY ElementOfSeq, LenProperties DEF TypeOK, Functor
  <2>3. QED
    BY <1>1, <2>1, <2>2 DEF Fresh, TypeOK
<1>8. Listed'
  BY <1>1, <1>2, Numbers DEF TypeOK, Listed
<1>9. QED
  BY <1>3, <1>5, <1>6, <1>7, <1>8

(* The steps that leave the pipe and the list alone.                        *)
LEMMA ExpireKeeps == ASSUME IInv, NEW id \in Timers, Expire(id) PROVE IInv'
<1> USE DEF IInv
<1>1. /\ thread[id] = "waiting" /\ fired[id] < MaxFires
      /\ thread' = [thread EXCEPT ![id] = "writing"]
      /\ fired' = [fired EXCEPT ![id] = @ + 1]
      /\ UNCHANGED <<unused, pending, timerList, repeat, cancelled, pipe, current, runs, failed>>
  BY DEF Expire
<1>2. TypeOK'
  BY <1>1, BoundAssumption DEF TypeOK
<1>3. \A t \in Timers : /\ fired'[t] = fired[t] + (IF t = id THEN 1 ELSE 0)
                        /\ Writing(t)' = Writing(t) + (IF t = id THEN 1 ELSE 0)
  BY <1>1 DEF TypeOK, Writing
<1>4. Accounted'
  <2>1. ASSUME NEW t \in Timers
        PROVE  /\ runs'[t] + Count(pipe', t) + Writing(t)' <= fired'[t]
               /\ current' = t => runs'[t] > 0
    <3>1. /\ runs[t] \in Nat /\ Count(pipe, t) \in Nat /\ Writing(t) \in Nat /\ fired[t] \in Nat
          /\ runs[t] + Count(pipe, t) + Writing(t) <= fired[t]
          /\ current = t => runs[t] > 0
      BY Numbers DEF Accounted
    <3>2. QED
      BY <1>1, <1>3, <3>1
  <2>2. QED
    BY <2>1 DEF Accounted
<1>5. OneShot'
  BY <1>1 DEF TypeOK, OneShot
<1>6. Fresh'
  <2>1. \A t \in Timers : thread'[t] = "none" <=> thread[t] = "none" /\ t # id
    BY <1>1 DEF TypeOK
  <2>2. \A k \in DOMAIN pending : pending[k].op = "add" => pending[k].id \in Timers
    BY ElementOfSeq, LenProperties DEF TypeOK, Functor
  <2>3. QED
    BY <1>1, <2>1, <2>2 DEF Fresh, TypeOK
<1>7. Listed'
  BY <1>1 DEF TypeOK, Listed
<1>8. QED
  BY <1>2, <1>4, <1>5, <1>6, <1>7

LEMMA RearmKeeps == ASSUME IInv, NEW id \in Timers, Rearm(id) PROVE IInv'
<1> USE DEF IInv
<1>1. /\ thread[id] = "written"
      /\ thread' = [thread EXCEPT ![id] = Rearmed(id)]
      /\ failed' \in {"no", "crash"}
      /\ UNCHANGED <<unused, pending, timerList, repeat, cancelled, pipe, current, fired, runs>>
  BY DEF Rearm
<1>2. /\ Rearmed(id) \in {"waiting", "done"}
      /\ Rearmed(id) = "waiting" <=> repeat[id]
  BY DEF Rearmed
<1>3. TypeOK'
  BY <1>1, <1>2 DEF TypeOK
<1>4. Accounted'
  <2>1. \A t \in Timers : Writing(t)' = Writing(t)
    BY <1>1, <1>2 DEF TypeOK, Writing
  <2>2. QED
    BY <1>1, <2>1 DEF Accounted
<1>5. OneShot'
  BY <1>1, <1>2 DEF TypeOK, OneShot
<1>6. Fresh'
  <2>1. \A t \in Timers : thread'[t] = "none" <=> thread[t] = "none"
    BY <1>1, <1>2 DEF TypeOK
  <2>2. \A k \in DOMAIN pending : pending[k].op = "add" => pending[k].id \in Timers
    BY ElementOfSeq, LenProperties DEF TypeOK, Functor
  <2>3. QED
    BY <1>1, <2>1, <2>2 DEF Fresh, TypeOK
<1>7. Listed'
  BY <1>1, <1>2 DEF TypeOK, Listed
<1>8. QED
  BY <1>3, <1>4, <1>5, <1>6, <1>7

(* The callback that returns was its timer's only run, or it repeats.       *)
LEMMA EndKeeps == ASSUME IInv, EndCallback PROVE IInv'
<1> USE DEF IInv
<1>1. /\ current \in Timers /\ timerList' = Finished(current) /\ current' = None
      /\ UNCHANGED <<unused, pending, repeat, cancelled, thread, pipe, fired, runs, failed>>
  BY DEF EndCallback, TypeOK
<1>2. TypeOK'
  BY <1>1 DEF TypeOK, Finished
<1>3. Accounted'
  BY <1>1, NoneAssumption DEF Accounted, Writing
<1>4. ~repeat[current] => /\ fired[current] > 0 /\ Count(pipe, current) = 0
                          /\ thread[current] \notin {"waiting", "writing"}
  <2>1. /\ runs[current] > 0
        /\ ~repeat[current] => /\ fired[current] <= 1
                               /\ thread[current] = "waiting" => fired[current] = 0
    BY <1>1 DEF Accounted, OneShot
  <2>2. QED
    BY <1>1, <2>1, Numbers
<1>5. Listed'
  BY <1>1, <1>4 DEF Listed, Finished
<1>6. OneShot' /\ Fresh'
  BY <1>1 DEF OneShot, Fresh
<1>7. QED
  BY <1>2, <1>3, <1>5, <1>6

(* A functor that adds is posted once, with an id nobody has.               *)
LEMMA PostKeeps ==
  ASSUME IInv, NEW f \in Functor, pending' = Append(pending, f),
         unused' \in SUBSET unused,
         f.op = "add" => f.id \in unused /\ f.id \notin unused',
         UNCHANGED <<timerList, repeat, cancelled, thread, pipe, current, fired, runs, failed>>
  PROVE  IInv'
<1> USE DEF IInv
<1> DEFINE n == Len(pending)
<1>1. n \in Nat /\ DOMAIN pending = 1..n
  BY LenProperties DEF TypeOK
<1>2. /\ pending' \in Seq(Functor) /\ DOMAIN pending' = 1..(n + 1)
      /\ \A i \in 1..n : pending'[i] = pending[i]
      /\ pending'[n + 1] = f
  BY <1>1, AppendProperties, LenProperties DEF TypeOK
<1>3. TypeOK'
  BY <1>2 DEF TypeOK
<1>4. \A i \in DOMAIN pending : pending[i].op = "add" => pending[i].id \notin unused
  BY DEF Fresh
<1>5. Fresh'
  <2>1. ASSUME NEW i \in DOMAIN pending', pending'[i].op = "add"
        PROVE  /\ pending'[i].id \notin unused'
               /\ thread'[pending'[i].id] = "none"
               /\ \A j \in DOMAIN pending' :
                    pending'[j].op = "add" /\ pending'[j].id = pending'[i].id => i = j
    <3>1. CASE i = n + 1
      <4>1. pending'[i] = f /\ f.id \in unused
        BY <1>2, <2>1, <3>1
      <4>2. \A j \in 1..n : pending'[j].op = "add" => pending'[j].id # f.id
        BY <1>1, <1>2, <1>4, <4>1
      <4>3. QED
        BY <1>1, <1>2, <2>1, <3>1, <4>1, <4>2 DEF Fresh
    <3>2. CASE i # n + 1
      <4>1. i \in 1..n /\ pending'[i] = pending[i] /\ pending[i].id \notin unused
        BY <1>1, <1>2, <1>4, <2>1, <3>2
      <4>2. \A j \in 1..n : pending'[j].op = "add" /\ pending'[j].id = pending'[i].id => i = j
        BY <1>1, <1>2, <2>1, <4>1 DEF Fresh
      <4>3. f.op = "add" => f.id # pending'[i].id
        BY <4>1
      <4>4. thread'[pending'[i].id] = "none"
        BY <1>1, <2>1, <4>1 DEF Fresh
      <4>5. QED
        BY <1>1, <1>2, <4>1, <4>2, <4>3, <4>4
    <3>3. QED
      BY <3>1, <3>2
  <2>2. QED
    BY <2>1 DEF Fresh
<1>6. Accounted' /\ OneShot' /\ Listed'
  BY DEF Accounted, OneShot, Listed, Writing
<1>7. QED
  BY <1>3, <1>5, <1>6

LEMMA StepKeeps == IInv /\ [Next]_vars => IInv'
<1> SUFFICES ASSUME IInv, [Next]_vars PROVE IInv'
  OBVIOUS
<1>1. pending \in Seq(Functor) /\ unused \in SUBSET Timers
  BY DEF IInv, TypeOK
<1>2. CASE RunFunctor
  <2> DEFINE f == Head(pending)
  <2>1. /\ pending # <<>> /\ pending' = Tail(pending) /\ f \in Functor
        /\ UNCHANGED <<unused, pipe, current, fired, runs>>
    BY <1>1, <1>2, HeadTailProperties DEF RunFunctor
  <2>2. CASE f.op = "add" /\ AddTimerInLoop(f.id, f.repeat)
    <3>1. Len(pending) \in Nat /\ DOMAIN pending = 1..Len(pending) /\ Len(pending) > 0
      BY <1>1, <2>1, LenProperties, EmptySeq
    <3>2. /\ pending' \in Seq(Functor) /\ DOMAIN pending' = 1..(Len(pending) - 1)
          /\ \A i \in 1..(Len(pending) - 1) : pending'[i] = pending[i + 1]
      BY <1>1, <2>1, <3>1, HeadTailProperties, LenProperties
    <3>3. f = pending[1] /\ f.id \in Timers /\ f.repeat \in BOOLEAN
      BY <1>1, <2>1, <2>2 DEF Functor
    <3>4. thread[f.id] = "none" /\ f.id \notin unused
      BY <2>2, <3>1, <3>3 DEF IInv, Fresh
    <3>5. ASSUME NEW i \in DOMAIN pending', pending'[i].op = "add"
          PROVE  /\ pending'[i].id \notin unused' \cup {f.id}
                 /\ thread[pending'[i].id] = "none"
                 /\ \A j \in DOMAIN pending' :
                      pending'[j].op = "add" /\ pending'[j].id = pending'[i].id => i = j
      <4>1. i + 1 \in DOMAIN pending /\ i + 1 # 1 /\ pending'[i] = pending[i + 1]
        BY <3>1, <3>2, <3>5
      <4>2. pending[i + 1].id # f.id
        BY <2>2, <3>1, <3>3, <3>5, <4>1 DEF IInv, Fresh
      <4>3. pending[i + 1].id \notin unused /\ thread[pending[i + 1].id] = "none"
        BY <3>5, <4>1 DEF IInv, Fresh
      <4>4. \A j \in DOMAIN pending' :
              pending'[j].op = "add" /\ pending'[j].id = pending'[i].id => i = j
        <5>1. ASSUME NEW j \in DOMAIN pending',
                     pending'[j].op = "add", pending'[j].id = pending'[i].id
              PROVE  i = j
          <6>1. j + 1 \in DOMAIN pending /\ pending'[j] = pending[j + 1]
            BY <3>1, <3>2, <5>1
          <6>2. i + 1 = j + 1
            BY <3>5, <4>1, <5>1, <6>1 DEF IInv, Fresh
          <6>3. QED
            BY <3>2, <6>2
        <5>2. QED
          BY <5>1
      <4>5. QED
        BY <2>1, <4>1, <4>2, <4>3, <4>4
    <3> HIDE DEF f
    <3>6. QED
      BY <2>1, <2>2, <3>2, <3>3, <3>4, <3>5, AddKeeps
  <2>3. CASE f.op = "cancel" /\ CancelInLoop(f.id)
    <3>1. f.id \in Timers
      BY <2>1, <2>3 DEF Functor
    <3> HIDE DEF f
    <3>2. QED
      BY <2>1, <2>3, <3>1, CancelKeeps
  <2>4. QED
    BY <1>2, <2>2, <2>3 DEF RunFunctor
<1>3. CASE HandleRead
  BY <1>3, ReadKeeps
<1>4. CASE EndCallback
  BY <1>4, EndKeeps
<1>5. ASSUME NEW id \in Timers, Cancel(id) PROVE IInv'
  <2>1. PICK f \in Functor : f.op = "cancel" /\ pending' = Append(pending, f)
    BY <1>5 DEF Cancel, Functor
  <2>2. QED
    BY <1>5, <2>1, PostKeeps DEF Cancel
<1>6. ASSUME NEW id \in Timers, CancelHere(id) PROVE IInv'
  BY <1>6, CancelKeeps DEF CancelHere
<1>7. ASSUME NEW id \in Timers, TimerStep(id) PROVE IInv'
  BY <1>7, ExpireKeeps, WriteKeeps, RearmKeeps DEF TimerStep
<1>8. ASSUME NEW id \in Timers, NEW r \in BOOLEAN, AddTimer(id, r) PROVE IInv'
  <2>1. PICK f \in Functor : f.op = "add" /\ f.id = id /\ pending' = Append(pending, f)
    BY <1>8 DEF AddTimer, Functor
  <2>2. QED
    BY <1>8, <2>1, PostKeeps DEF AddTimer
<1>9. ASSUME NEW id \in Timers, NEW r \in BOOLEAN, AddHere(id, r) PROVE IInv'
  <2>1. /\ id \in unused /\ unused' = unused \ {id} /\ AddTimerInLoop(id, r)
        /\ UNCHANGED <<pending, pipe, current, fired, runs>>
    BY <1>9 DEF AddHere
  <2>2. thread[id] = "none"
    BY <2>1 DEF IInv, Fresh
  <2>3. \A i \in DOMAIN pending : pending[i].op = "add" =>
          /\ pending[i].id \notin unused' \cup {id}
          /\ thread[pending[i].id] = "none"
          /\ \A j \in DOMAIN pending :
               pending[j].op = "add" /\ pending[j].id = pending[i].id => i = j
    BY <2>1 DEF IInv, Fresh
  <2>4. QED
    BY <1>1, <2>1, <2>2, <2>3, AddKeeps
<1>10. CASE UNCHANGED vars
  BY <1>10 DEF vars, IInv, TypeOK, Accounted, OneShot, Fresh, Listed, Writing
<1>11. QED
  BY <1>2, <1>3, <1>4, <1>5, <1>6, <1>7, <1>8, <1>9, <1>10 DEF Next

LEMMA Inductive == Spec => []IInv
  BY InitEstablishes, StepKeeps, PTL DEF Spec
-----------------------------------------------------------------------------
(* Every variable keeps its type: the pipe never holds more than its        *)
(* capacity, though any number of threads write to it.                      *)
THEOREM TypeCorrect == Spec => []TypeOK
<1>1. IInv => TypeOK
  BY DEF IInv
<1>2. QED
  BY <1>1, Inductive, PTL

(* HandleRead finds every id it reads in timerList_, and only a timer that  *)
(* is done leaves the list.                                                 *)
THEOREM TimersSafe == Spec => []TimersKept
<1>1. IInv => TimersKept
  <2> SUFFICES ASSUME IInv PROVE TimersKept
    OBVIOUS
  <2>1. ASSUME NEW id \in Timers
        PROVE  /\ thread[id] \in {"waiting", "writing"} \/ Places(pipe, id) # {}
                    => id \in timerList
               /\ thread[id] # "none" /\ id \notin timerList => ~repeat[id] /\ fired[id] > 0
               /\ ~repeat[id] => /\ Cardinality(Places(pipe, id)) <= 1
                                 /\ Places(pipe, id) # {} =>
                                      thread[id] \in {"written", "done"} /\ current # id
    <3>1. /\ Count(pipe, id) > 0 <=> Places(pipe, id) # {}
          /\ thread[id] \in {"none", "waiting", "writing", "written", "done"}
      BY CountType DEF IInv, TypeOK
    <3>2. /\ runs[id] \in Nat /\ fired[id] \in Nat
          /\ Count(pipe, id) \in Nat /\ Writing(id) \in {0, 1}
          /\ thread[id] = "writing" <=> Writing(id) = 1
          /\ runs[id] + Count(pipe, id) + Writing(id) <= fired[id]
      BY Numbers DEF IInv
    <3>3. /\ thread[id] = "none" => fired[id] = 0
          /\ current = id => runs[id] > 0
          /\ ~repeat[id] => fired[id] <= 1 /\ (thread[id] = "waiting" => fired[id] = 0)
      BY DEF IInv, Fresh, Accounted, OneShot
    <3>4. ~repeat[id] => /\ Count(pipe, id) <= 1
                         /\ Count(pipe, id) > 0 =>
                              /\ thread[id] \notin {"none", "waiting", "writing"}
                              /\ current # id
      BY <3>2, <3>3
    <3>5. /\ thread[id] \in {"waiting", "writing"} \/ Count(pipe, id) > 0 => id \in timerList
          /\ thread[id] # "none" /\ id \notin timerList => ~repeat[id] /\ fired[id] > 0
      BY DEF IInv, Listed
    <3>6. QED
      BY <3>1, <3>4, <3>5 DEF Count
  <2>2. failed # "read"
    BY DEF IInv, Listed
  <2>3. QED
    BY <2>1, <2>2 DEF TimersKept, Places
<1>2. QED
  BY <1>1, Inductive, PTL

(* No callback runs more often than its timer expired, a timer's that does  *)
(* not repeat at most once: the write, the pipe and the read neither lose   *)
(* track of an expiration nor double it.                                    *)
THEOREM RunsSafe == Spec => []RunsAreExpirations
<1>1. IInv => RunsAreExpirations
  <2> SUFFICES ASSUME IInv, NEW id \in Timers
               PROVE  runs[id] <= fired[id] /\ (~repeat[id] => runs[id] <= 1)
    BY DEF RunsAreExpirations
  <2>1. ~repeat[id] => fired[id] <= 1
    BY DEF IInv, OneShot
  <2>2. QED
    BY <2>1, Numbers DEF IInv
<1>2. QED
  BY <1>1, Inductive, PTL

(* No step runs the callback of a timer whose cancellation has executed:    *)
(* only HandleRead starts callbacks, and it looks at the flag.              *)
THEOREM CancelSafe == Spec => CancelledStaysQuiet
<1>1. ASSUME IInv, [Next]_vars, NEW id \in cancelled PROVE runs'[id] = runs[id]
  <2>1. CASE HandleRead
    <3>1. \/ runs' = runs
          \/ ~Skipped(Head(pipe)) /\ runs' = [runs EXCEPT ![Head(pipe)] = @ + 1]
      BY <2>1 DEF HandleRead
    <3>2. QED
      BY <1>1, <3>1 DEF Skipped, IInv, TypeOK
  <2>2. CASE ~HandleRead
    <3>1. runs' = runs
      BY <1>1, <2>2 DEF Next, vars, RunFunctor, EndCallback, Cancel, CancelHere, TimerStep,
                        Expire, HandleTimeout, Rearm, AddTimer, AddHere
    <3>2. QED
      BY <3>1
  <2>3. QED
    BY <2>1, <2>2
<1>2. IInv /\ [Next]_vars => [\A id \in cancelled : runs'[id] = runs[id]]_vars
  BY <1>1
<1>3. QED
  BY <1>2, Inductive, PTL DEF Spec, CancelledStaysQuiet
=============================================================================
