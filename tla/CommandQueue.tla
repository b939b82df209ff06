---------------------------- MODULE CommandQueue ----------------------------
(***************************************************************************)
(* What the outbound queue promises its host, with no leases, passes,      *)
(* crashes or caches: a command that was accepted into the queue stays     *)
(* there until the server has it or the user drops it.  Delivery is at     *)
(* least once; the server deduplicates.                                    *)
(***************************************************************************)
CONSTANT Cmds

VARIABLES
    queued,     \* commands with a row in the outbox
    delivered,  \* commands the server has accepted
    dropped     \* commands the user discarded

qvars == <<queued, delivered, dropped>>

Init ==
    /\ queued = {}
    /\ delivered = {}
    /\ dropped = {}

Enqueue(c) ==
    /\ c \notin queued \cup delivered \cup dropped
    /\ queued' = queued \cup {c}
    /\ UNCHANGED <<delivered, dropped>>

\* A request that was on the wire when its command was dropped may still land.
Deliver(c) ==
    /\ c \in queued \cup dropped
    /\ delivered' = delivered \cup {c}
    /\ UNCHANGED <<queued, dropped>>

Retire(c) ==
    /\ c \in queued \cap delivered
    /\ queued' = queued \ {c}
    /\ UNCHANGED <<delivered, dropped>>

Drop(c) ==
    /\ c \in queued \cup delivered \cup dropped
    /\ queued' = queued \ {c}
    /\ dropped' = dropped \cup {c}
    /\ UNCHANGED delivered

\* A row already out of the queue may come back (an unfenced write of a row
\* read before its deletion): never one the queue had not finished with.
Reinstate(c) ==
    /\ c \in delivered \cup dropped
    /\ queued' = queued \cup {c}
    /\ UNCHANGED <<delivered, dropped>>

Next ==
    \E c \in Cmds :
        Enqueue(c) \/ Deliver(c) \/ Retire(c) \/ Drop(c) \/ Reinstate(c)

Spec == Init /\ [][Next]_qvars
=============================================================================
