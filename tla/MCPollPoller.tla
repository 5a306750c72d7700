---------------------------- MODULE MCPollPoller ----------------------------
(* Instances of PollPoller for TLC. *)
EXTENDS PollPoller, TLC

(* Nothing depends on which descriptor is which.                           *)
Symmetry == Permutations(Fds)
=============================================================================
