----------------------------- MODULE MCConnection -----------------------------
(* Instances of Connection for TLC. *)
EXTENDS Connection, TLC

CONSTANTS h1, h2, r1, r2, g1

\* Host calls are interchangeable.
SwapTasks == Permutations(Hosts)
=============================================================================
