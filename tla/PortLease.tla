----------------------------- MODULE PortLease ------------------------------
(***************************************************************************)
(* What sink_tcp.c promises to its peers, without slots, tasks and locks:  *)
(* a port with a fixed number of sessions, at most one of which owns the   *)
(* wire.  Ownership is taken when it is free, and ends with the session or *)
(* with the device; it never passes from one session to another.  Module   *)
(* SinkTcp implements this specification.                                  *)
(***************************************************************************)
EXTENDS Naturals, FiniteSets

CONSTANTS Peers,      \* who may open a session
          Capacity,   \* how many sessions there may be
          Nobody

VARIABLES
    sessions,   \* the peers that have a session
    owner       \* the session whose SET-... is applied to the wire

leaseVars == <<sessions, owner>>

Init ==
    /\ sessions = {}
    /\ owner = Nobody

Open(c) ==
    /\ c \notin sessions
    /\ Cardinality(sessions) < Capacity
    /\ sessions' = sessions \cup {c}
    /\ UNCHANGED owner

\* First come, first served.
Claim(c) ==
    /\ c \in sessions
    /\ owner = Nobody
    /\ owner' = c
    /\ UNCHANGED sessions

\* A session ends, and with it its own claim only.
Leave(c) ==
    /\ c \in sessions
    /\ sessions' = sessions \ {c}
    /\ owner' = IF owner = c THEN Nobody ELSE owner

\* The device goes away, or reboots.
Revoke ==
    /\ owner' = Nobody
    /\ UNCHANGED sessions

Next ==
    \/ \E c \in Peers : Open(c) \/ Claim(c) \/ Leave(c)
    \/ Revoke

Spec == Init /\ [][Next]_leaseVars
=============================================================================
