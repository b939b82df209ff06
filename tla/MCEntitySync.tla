----------------------------- MODULE MCEntitySync -----------------------------
(* Instances of EntitySync for TLC. *)
EXTENDS EntitySync

CONSTANTS u1, u2

\* Past a hazard the invariants promise nothing, nor does a disposed client:
\* such states are not expanded.
Unharmed == hazards = {} /\ ~disposed

\* u1 has a direct channel with the tab and is announced by id, u2 with the
\* whole collection.
TwoKinds == \A n \in mail : n.key = IF n.user = u1 THEN u1 ELSE All
=============================================================================
