------------------------------ MODULE Sessions ------------------------------
(***************************************************************************)
(* What a TcpServer promises about its connections, without loops, threads *)
(* or channels: a connection gets a descriptor nobody else has, its user   *)
(* is called back twice, up and down, while the descriptor is open, and    *)
(* only then is it closed.  TcpServer implements this specification        *)
(* (TcpServer!Implements).                                                 *)
(***************************************************************************)
EXTENDS Naturals

CONSTANTS Conns, Fds,
          None         \* "no descriptor"

VARIABLES calls,  \* calls of each connection's connectionCallback_
          desc    \* the descriptor it has open

vars == <<calls, desc>>

Init == calls = [c \in Conns |-> 0] /\ desc = [c \in Conns |-> None]

Open(c) == /\ calls[c] = 0 /\ desc[c] = None
           /\ \A e \in Conns \ {c} : desc[e] # desc'[c]

Close(c) == desc'[c] = None /\ calls'[c] = 2

CallBack(c) == /\ calls'[c] = calls[c] + 1
               /\ desc[c] # None \/ desc'[c] # None

(* Several connections may advance at once, and one by several steps.      *)
Next == /\ calls' \in [Conns -> 0..2] /\ desc' \in [Conns -> Fds \cup {None}]
        /\ \A c \in Conns : /\ calls'[c] # calls[c] => CallBack(c)
                            /\ desc'[c] # desc[c] => Open(c) \/ Close(c)

Spec == Init /\ [][Next]_vars
=============================================================================
