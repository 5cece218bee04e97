------------------------------ MODULE TxMaster ------------------------------
(***************************************************************************)
(* What bridge.h (15-22) and the comment at bridge.c:217-220 promise of    *)
(* the "Single-Writer-Soft-Lock", without the bridge's tasks, tables and   *)
(* clock: the stick tolerates one TX master at a time.  In AUTO mode the   *)
(* first sender takes the lock and keeps it until the line has been        *)
(* silent for the idle time, and a slow transfer of the master does not    *)
(* release it.  In PINNED mode only the pinned sink is admitted.           *)
(*                                                                         *)
(* Spec is the promise.  SpecWithOvertaking is what module Bridge          *)
(* implements: the promise, and the one step that breaks it.               *)
(***************************************************************************)
CONSTANTS Sinks,    \* the sinks that may send to the source
          NULL      \* "nobody", the initial master

VARIABLES
    pinned,    \* is the master pinned by the operator?
    master,    \* the TX master, NULL when nobody is
    silent,    \* has no transfer been completed for longer than the idle time?
    writers    \* the sinks with an admitted transfer under way

tmVars == <<pinned, master, silent, writers>>

Init ==
    /\ pinned = FALSE
    /\ master = NULL
    /\ silent \in BOOLEAN
    /\ writers = {}

\* The lock is free: nobody has it, or the line is silent and nobody is in the
\* middle of a transfer.
Free == ~pinned /\ (master = NULL \/ (silent /\ writers = {}))

Take(s) ==
    /\ master' = s
    /\ writers' = writers \cup {s}
    /\ UNCHANGED <<pinned, silent>>

Admit(s) == (master = s \/ Free) /\ Take(s)

\* Breaks the promise: s takes the lock from a master that others' transfers,
\* or its own, are still under way for.
Overtake(s) == ~pinned /\ silent /\ writers # {} /\ Take(s)

\* A transfer of s ends; s may have others under way.  Only a transfer that
\* reached the device counts as activity on the line.
Finish(s) ==
    /\ s \in writers
    /\ writers' \in {writers, writers \ {s}}
    /\ silent' => silent
    /\ UNCHANGED <<pinned, master>>

\* A transfer of the firmware itself, which bypasses the lock, is activity too.
SystemSent ==
    /\ silent' = FALSE
    /\ UNCHANGED <<pinned, master, writers>>

IdleTimeout ==
    /\ silent' = TRUE
    /\ UNCHANGED <<pinned, master, writers>>

\* The operator hands the lock over, or frees it, at once.
Pin(s) ==
    /\ pinned' = TRUE
    /\ master' = s
    /\ UNCHANGED <<silent, writers>>

Auto ==
    /\ pinned' = FALSE
    /\ master' = NULL
    /\ UNCHANGED <<silent, writers>>

Next ==
    \/ \E s \in Sinks : Admit(s) \/ Finish(s) \/ Pin(s)
    \/ SystemSent
    \/ IdleTimeout
    \/ Auto

Spec == Init /\ [][Next]_tmVars

SpecWithOvertaking == Init /\ [][Next \/ \E s \in Sinks : Overtake(s)]_tmVars
=============================================================================
