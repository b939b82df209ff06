--------------------------- MODULE MCOutboxClient ---------------------------
(* Instances of OutboxClient for TLC: one tab, one pass, two calls. *)
EXTENDS OutboxClient, TLC

CONSTANTS p1, p2, o1, o2, t1

OneTab == [p \in Passes |-> t1]
OpsInTab == [o \in Ops |-> t1]

\* One call at most sends, another handles the queued row.
SenderAndUser == [o \in Ops |-> IF o = o1 THEN {"queue", "send"}
                                         ELSE {"retry", "discard"}]

=============================================================================
