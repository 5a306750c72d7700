---------------------------- MODULE FunctorQueue ----------------------------
(***************************************************************************)
(* What EventLoop promises to the callers of RunInLoop, without wakeup     *)
(* pipes, polling or locks: a functor handed to the loop's own thread is   *)
(* executed on the spot; one handed over by another thread joins a queue   *)
(* that the loop's thread executes from the front.  EventLoop implements   *)
(* this specification (EventLoop!Implements).                              *)
(***************************************************************************)
EXTENDS Naturals, Sequences

CONSTANTS Loops,     \* the event loops, each one with its own thread
          Functors   \* the functor objects, each handed over at most once

VARIABLES fresh,     \* functors not yet handed to any loop
          queue,     \* queue[l]: handed over to l and not yet executed
          ran        \* ran[l]: executed by l's thread, in order

vars == <<fresh, queue, ran>>

Init == /\ fresh = Functors
        /\ queue = [l \in Loops |-> <<>>]
        /\ ran = [l \in Loops |-> <<>>]

(* A caller on l's own thread: the functor runs before the call returns.   *)
RunNow(l, f) == /\ f \in fresh
                /\ fresh' = fresh \ {f}
                /\ ran' = [ran EXCEPT ![l] = Append(@, f)]
                /\ UNCHANGED queue

(* A caller on any other thread.                                           *)
Post(l, f) == /\ f \in fresh
              /\ fresh' = fresh \ {f}
              /\ queue' = [queue EXCEPT ![l] = Append(@, f)]
              /\ UNCHANGED ran

(* l's thread executes the oldest functor that was posted to it.           *)
RunNext(l) == /\ queue[l] # <<>>
              /\ ran' = [ran EXCEPT ![l] = Append(@, Head(queue[l]))]
              /\ queue' = [queue EXCEPT ![l] = Tail(@)]
              /\ UNCHANGED fresh

Next == \E l \in Loops : \/ \E f \in Functors : RunNow(l, f) \/ Post(l, f)
                         \/ RunNext(l)

Spec == Init /\ [][Next]_vars
=============================================================================
