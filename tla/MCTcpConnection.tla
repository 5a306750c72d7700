--------------------------- MODULE MCTcpConnection ---------------------------
(* Instances of TcpConnection for TLC. *)
EXTENDS TcpConnection

(* The ways to use the library, but for those whose behaviours and         *)
(* properties are those of another with more callers of Shutdown.          *)
AllSetups == {s \in Setup : /\ s.shutters # Callers
                            /\ s.shutters = {} => s.dies /\ ~s.pooled}

(* Another thread calls Shutdown.                                          *)
ForeignShutdown == {[pooled |-> TRUE, dies |-> FALSE, shutters |-> Callers]}

(* Two messages from each other thread, one from the loop's.               *)
SentBound == [t \in Threads |-> IF t = Io THEN MsgLen ELSE 2 * MsgLen]

OneEach == [t \in Threads |-> MsgLen]
=============================================================================
