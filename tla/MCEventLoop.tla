---------------------------- MODULE MCEventLoop ----------------------------
(* Instances of EventLoop for TLC. *)
EXTENDS EventLoop, TLC

(* The functors are interchangeable, and so are the loops: nothing depends *)
(* on which is which.                                                      *)
Symmetry == Permutations(Functors) \cup Permutations(Loops)

(* Symmetry is not sound for liveness.  What is: as the functors are       *)
(* interchangeable, whoever posts one takes a fixed one of those left; no  *)
(* fairness is assumed of the calls.  A functor that RunInLoop executes on *)
(* the spot touches neither queue nor pipe and is left to the other run.   *)
InTurn == \/ fresh' = fresh
          \/ pending' # pending /\ fresh \ fresh' = {CHOOSE f \in fresh : TRUE}

InTurnSpec == Init /\ [][Next /\ InTurn]_vars /\ ThreadFairness
=============================================================================
