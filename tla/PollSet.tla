------------------------------ MODULE PollSet ------------------------------
(***************************************************************************)
(* What PollPoller promises to the channels of its loop, without slots or  *)
(* indices: poll reports to each registered channel exactly what is ready  *)
(* of the things it asked for, and the alarms.  A channel whose interest    *)
(* became empty is muted: nothing reports it until it is removed, not even *)
(* a new interest; one that registers with none is not muted.  PollPoller  *)
(* implements this (PollPoller!Implements).                                *)
(***************************************************************************)
CONSTANTS Fds,      \* file descriptors, each one with its channel
          Events,   \* what a channel can ask for
          Alarms    \* what poll(2) reports unasked

VARIABLES
  registered,  \* the channels
  interest,    \* what each asked for last
  muted,       \* those that asked for nothing once registered
  ready,       \* what was ready on each descriptor, until poll reports it
  revents      \* what poll reported to each and is not handled yet

vars == <<registered, interest, muted, ready, revents>>

Nothing == [c \in Fds |-> {}]

Init == /\ registered = {}
        /\ interest = Nothing
        /\ muted = {}
        /\ ready = Nothing
        /\ revents = Nothing

Update(c, evs) ==
  /\ registered' = registered \cup {c}
  /\ interest' = [interest EXCEPT ![c] = evs]
  /\ muted' = IF c \in registered /\ evs = {} THEN muted \cup {c} ELSE muted
  /\ UNCHANGED <<ready, revents>>

Remove(c) ==
  /\ c \in registered /\ interest[c] = {}
  /\ registered' = registered \ {c}
  /\ muted' = muted \ {c}
  /\ UNCHANGED <<interest, ready, revents>>

PollReturns ==
  /\ revents = Nothing /\ ready = Nothing
  /\ ready' \in [Fds -> SUBSET (Events \cup Alarms)] \ {Nothing}
  /\ UNCHANGED <<registered, interest, muted, revents>>

Report ==
  /\ ready # Nothing
  /\ revents' = [c \in Fds |-> IF c \in registered \ muted
                              THEN ready[c] \cap (interest[c] \cup Alarms)
                              ELSE {}]
  /\ ready' = Nothing
  /\ UNCHANGED <<registered, interest, muted>>

Handle(c) ==
  /\ revents[c] # {}
  /\ revents' = [revents EXCEPT ![c] = {}]
  /\ UNCHANGED <<registered, interest, muted, ready>>

Next == \/ \E c \in Fds : \/ \E evs \in SUBSET Events : Update(c, evs)
                          \/ Remove(c) \/ Handle(c)
        \/ PollReturns \/ Report

Spec == Init /\ [][Next]_vars
=============================================================================
