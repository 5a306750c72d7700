----------------------------- MODULE TimerQueue -----------------------------
(***************************************************************************)
(* SummerNet/net/TimerQueue, Timer and TimerId.                            *)
(*                                                                         *)
(* Every timer has a thread of its own that waits for the expiration and   *)
(* then writes the timer's id to the queue's pipe; the loop's thread reads *)
(* one id at a time, runs the callback and erases the timer when it does   *)
(* not repeat.  Timers are added and cancelled by functors of the loop;    *)
(* code that runs on the loop's thread adds and cancels on the spot.       *)
(*                                                                         *)
(* A thread blocked in, or just back from, its write races with all that.  *)
(* A timer may be erased while its thread is still inside HandleTimeout:   *)
(* what the thread then reads of it is undefined behaviour, here the value *)
(* that was there or a crash.                                              *)
(***************************************************************************)
EXTENDS Naturals, Sequences, FiniteSets

CONSTANTS Timers,    \* timer ids, each given out once
          PipeCap,   \* ids the pipe holds before a write blocks
          MaxFires,  \* bound: expirations of a timer
          None       \* "no timer"

ASSUME BoundAssumption == PipeCap \in Nat \ {0} /\ MaxFires \in Nat
ASSUME NoneAssumption == None \notin Timers

VARIABLES
  unused,     \* ids not given out yet
  pending,    \* functors posted to the loop by other threads
  timerList,  \* keys of timerList_
  repeat,     \* repeat_ of each timer
  cancelled,  \* the timers with the flag set
  thread,     \* each timer's thread
  pipe,       \* ids in the pipe
  current,    \* the timer whose callback the loop is running
  fired,      \* history: expirations of each timer
  runs,       \* history: runs of its callback
  failed      \* "read", "cancel": that method's assert failed; "crash"

vars == <<unused, pending, timerList, repeat, cancelled, thread, pipe, current,
          fired, runs, failed>>

Functor == [op : {"add"}, id : Timers, repeat : BOOLEAN] \cup [op : {"cancel"}, id : Timers]

TypeOK ==
  /\ unused \in SUBSET Timers
  /\ pending \in Seq(Functor)
  /\ timerList \in SUBSET Timers
  /\ repeat \in [Timers -> BOOLEAN]
  /\ cancelled \in SUBSET Timers
  /\ thread \in [Timers -> {"none", "waiting", "writing", "written", "done"}]
  /\ pipe \in Seq(Timers) /\ Len(pipe) <= PipeCap
  /\ current \in Timers \cup {None}
  /\ fired \in [Timers -> 0..MaxFires]
  /\ runs \in [Timers -> 0..MaxFires]
  /\ failed \in {"no", "read", "cancel", "crash"}

Init ==
  /\ unused = Timers
  /\ pending = <<>>
  /\ timerList = {}
  /\ repeat = [id \in Timers |-> FALSE]
  /\ cancelled = {}
  /\ thread = [id \in Timers |-> "none"]
  /\ pipe = <<>>
  /\ current = None
  /\ fired = [id \in Timers |-> 0]
  /\ runs = [id \in Timers |-> 0]
  /\ failed = "no"

Running == failed = "no"

-----------------------------------------------------------------------------
(* The loop's thread.                                                      *)

(* Timer's constructor starts the thread; nothing else runs on the loop's  *)
(* thread before the timer is in the map.                                  *)
AddTimerInLoop(id, r) ==
  /\ timerList' = timerList \cup {id}
  /\ repeat' = [repeat EXCEPT ![id] = r]
  /\ thread' = [thread EXCEPT ![id] = "waiting"]
  /\ UNCHANGED <<cancelled, failed>>

(* Timer::Cancel ends the wait, if there still is one.                     *)
Aborted(id) == IF thread[id] = "waiting" THEN [thread EXCEPT ![id] = "done"] ELSE thread

(* Faulty variant: the cancelled timer is erased at once.                  *)
CancelInLoop_Erases(id) ==
  /\ timerList' = timerList \ {id}
  /\ cancelled' = cancelled \cup {id}
  /\ thread' = Aborted(id)
  /\ UNCHANGED <<failed, repeat>>

CancelInLoop(id) ==
  /\ IF id \in timerList
     THEN /\ cancelled' = cancelled \cup {id}
          /\ thread' = Aborted(id)
          /\ UNCHANGED failed
     ELSE failed' = "cancel" /\ UNCHANGED <<cancelled, thread>>
  /\ UNCHANGED <<timerList, repeat>>

RunFunctor ==
  /\ Running
  /\ current = None /\ pending # <<>>
  /\ pending' = Tail(pending)
  /\ LET f == Head(pending) IN
       \/ f.op = "add" /\ AddTimerInLoop(f.id, f.repeat)
       \/ f.op = "cancel" /\ CancelInLoop(f.id)
  /\ UNCHANGED <<unused, pipe, current, fired, runs>>

(* Faulty variant: the flag is not looked at.                              *)
Skipped_Never(id) == FALSE

Skipped(id) == id \in cancelled

(* A timer that does not repeat is erased once its id has been read.       *)
Finished(id) == IF repeat[id] THEN timerList ELSE timerList \ {id}

(* HandleRead up to the callback, or all of it when there is none to run.  *)
HandleRead ==
  /\ Running
  /\ current = None /\ pipe # <<>>
  /\ pipe' = Tail(pipe)
  /\ LET id == Head(pipe) IN
       IF id \notin timerList
       THEN failed' = "read" /\ UNCHANGED <<current, runs, timerList>>
       ELSE IF Skipped(id)
       THEN timerList' = Finished(id) /\ UNCHANGED <<current, runs, failed>>
       ELSE /\ current' = id
            /\ runs' = [runs EXCEPT ![id] = @ + 1]
            /\ UNCHANGED <<timerList, failed>>
  /\ UNCHANGED <<unused, pending, repeat, cancelled, thread, fired>>

(* The callback returns.                                                   *)
EndCallback ==
  /\ Running
  /\ current # None
  /\ timerList' = Finished(current)
  /\ current' = None
  /\ UNCHANGED <<unused, pending, repeat, cancelled, thread, pipe, fired, runs, failed>>

(* User code on the loop's thread, a timer's callback or any other.        *)
AddHere(id, r) ==
  /\ Running
  /\ id \in unused /\ unused' = unused \ {id}
  /\ AddTimerInLoop(id, r)
  /\ UNCHANGED <<pending, pipe, current, fired, runs>>

CancelHere(id) ==
  /\ Running
  /\ id \notin unused \cup cancelled
  /\ CancelInLoop(id)
  /\ UNCHANGED <<unused, pending, pipe, current, fired, runs>>

-----------------------------------------------------------------------------
(* Other threads: AddTimer and Cancel of the queue.                        *)

AddTimer(id, r) ==
  /\ Running
  /\ id \in unused /\ unused' = unused \ {id}
  /\ pending' = Append(pending, [op |-> "add", id |-> id, repeat |-> r])
  /\ UNCHANGED <<timerList, repeat, cancelled, thread, pipe, current, fired, runs, failed>>

(* Bound: a timer's cancellation is posted once.                           *)
Cancel(id) ==
  /\ Running
  /\ id \notin unused
  /\ \A i \in DOMAIN pending : pending[i] # [op |-> "cancel", id |-> id]
  /\ id \notin cancelled
  /\ pending' = Append(pending, [op |-> "cancel", id |-> id])
  /\ UNCHANGED <<unused, timerList, repeat, cancelled, thread, pipe, current,
                 fired, runs, failed>>

-----------------------------------------------------------------------------
(* The timer's thread.                                                     *)

(* The wait ends: from here on Timer::Cancel finds nothing to abort.       *)
Expire(id) ==
  /\ Running
  /\ thread[id] = "waiting" /\ fired[id] < MaxFires
  /\ thread' = [thread EXCEPT ![id] = "writing"]
  /\ fired' = [fired EXCEPT ![id] = @ + 1]
  /\ UNCHANGED <<unused, pending, timerList, repeat, cancelled, pipe, current, runs, failed>>

(* Faulty variant: the write never blocks and the pipe grows.              *)
HandleTimeout_NeverBlocks(id) ==
  /\ Running
  /\ thread[id] = "writing"
  /\ pipe' = Append(pipe, id)
  /\ thread' = [thread EXCEPT ![id] = "written"]
  /\ UNCHANGED <<unused, pending, timerList, repeat, cancelled, current, fired, runs, failed>>

(* Faulty variant: the pipe is non-blocking and a full one loses the id.   *)
HandleTimeout_Drops(id) ==
  /\ Running
  /\ thread[id] = "writing"
  /\ pipe' = IF Len(pipe) < PipeCap THEN Append(pipe, id) ELSE pipe
  /\ thread' = [thread EXCEPT ![id] = "written"]
  /\ UNCHANGED <<unused, pending, timerList, repeat, cancelled, current, fired, runs, failed>>

(* Faulty variant: the write may be repeated after it succeeded.           *)
HandleTimeout_Repeats(id) ==
  /\ Running
  /\ thread[id] = "writing" /\ Len(pipe) < PipeCap
  /\ pipe' = Append(pipe, id)
  /\ thread' \in {thread, [thread EXCEPT ![id] = "written"]}
  /\ UNCHANGED <<unused, pending, timerList, repeat, cancelled, current, fired, runs, failed>>

(* HandleTimeout's write, which blocks while the pipe is full.             *)
HandleTimeout(id) ==
  /\ Running
  /\ thread[id] = "writing" /\ Len(pipe) < PipeCap
  /\ pipe' = Append(pipe, id)
  /\ thread' = [thread EXCEPT ![id] = "written"]
  /\ UNCHANGED <<unused, pending, timerList, repeat, cancelled, current, fired, runs, failed>>

(* A repeating timer waits again, cancelled or not; another's thread ends. *)
Rearmed(id) == IF repeat[id] THEN "waiting" ELSE "done"

(* The rest of HandleTimeout, on a timer that may have been erased.        *)
Rearm(id) ==
  /\ Running
  /\ thread[id] = "written"
  /\ thread' = [thread EXCEPT ![id] = Rearmed(id)]
  /\ failed' \in IF id \in timerList THEN {"no"} ELSE {"no", "crash"}
  /\ UNCHANGED <<unused, pending, timerList, repeat, cancelled, pipe, current, fired, runs>>

-----------------------------------------------------------------------------
TimerStep(id) == Expire(id) \/ HandleTimeout(id) \/ Rearm(id)

Next == \/ RunFunctor \/ HandleRead \/ EndCallback
        \/ \E id \in Timers : \/ Cancel(id) \/ CancelHere(id) \/ TimerStep(id)
                              \/ \E r \in BOOLEAN : AddTimer(id, r) \/ AddHere(id, r)

Spec == Init /\ [][Next]_vars

(* The loop goes round, callbacks return, and a thread that waits for room *)
(* in the pipe gets its turn.                                              *)
FairSpec == /\ Spec
            /\ WF_vars(RunFunctor) /\ SF_vars(HandleRead) /\ WF_vars(EndCallback)
            /\ \A id \in Timers : SF_vars(HandleTimeout(id))

-----------------------------------------------------------------------------
(* Properties                                                              *)

(* Cancellations, firings and re-armings, in whatever order, leave the     *)
(* loop a timer for every id it may still read: the ids in the pipe and    *)
(* those a thread has yet to write are in timerList_, so HandleRead finds  *)
(* them.  A timer leaves the list, and may be freed under its own thread,  *)
(* only if it does not repeat and has expired, its one id read.            *)
TimersKept ==
  LET Copies(id) == {i \in DOMAIN pipe : pipe[i] = id}
  IN /\ failed # "read"
     /\ \A id \in Timers :
          /\ thread[id] \in {"waiting", "writing"} \/ Copies(id) # {} => id \in timerList
          /\ thread[id] # "none" /\ id \notin timerList => ~repeat[id] /\ fired[id] > 0
          /\ ~repeat[id] => /\ Cardinality(Copies(id)) <= 1
                            /\ Copies(id) # {} => thread[id] \in {"written", "done"} /\ current # id

(* Once CancelInLoop has executed, the callback never starts again, though *)
(* the id may be in the pipe already and the timer's thread still firing.  *)
CancelledStaysQuiet == [][\A id \in cancelled : runs'[id] = runs[id]]_vars

(* No callback runs more often than its timer expired, one that does not   *)
(* repeat no more than once.                                               *)
RunsAreExpirations ==
  \A id \in Timers : runs[id] <= fired[id] /\ (~repeat[id] => runs[id] <= 1)

(* Every expiration of a timer is followed by a run of its callback, even  *)
(* if the pipe is full when it expires, unless the timer is cancelled.     *)
ExpirationRuns ==
  \A id \in Timers :
    thread[id] = "writing" ~> (runs[id] = fired[id] \/ id \in cancelled \/ ~Running)

(* The assert of CancelInLoop: the timer to cancel is in timerList_.       *)
CancelFindsTimer == failed # "cancel"
=============================================================================
