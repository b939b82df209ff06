--------------------------- MODULE MCOutboxEngine ---------------------------
(* Instances of OutboxEngine for TLC. *)
EXTENDS OutboxEngine

CONSTANTS p1, p2, t1, t2

\* Two calls of flushOutbox / recoverLocalState in one tab.
SameTab == [p \in {p1, p2} |-> t1]

OnePass == [p \in {p1} |-> t1]
=============================================================================
