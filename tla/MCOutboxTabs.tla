---------------------------- MODULE MCOutboxTabs ----------------------------
(***************************************************************************)
(* OutboxEngine with two passes at a time: of one tab, or one of each of   *)
(* two tabs, as the initial state has it.                                  *)
(***************************************************************************)
EXTENDS OutboxEngine, TLC

CONSTANTS p1, p2, p3, t1, t2

VARIABLE apart      \* the two passes run in different tabs

TwoAndOne == [p \in {p1, p2, p3} |-> IF p = p3 THEN t2 ELSE t1]

\* The pass that never runs; without p3 its tab holds nothing either.
Resting == IF apart THEN p2 ELSE p3

TabsInit == Init /\ apart \in BOOLEAN

TabsNext ==
    /\ Next
    /\ pc'[Resting] = "idle"
    /\ ~apart => held'[t2] = {}
    /\ UNCHANGED apart

TabsSpec == TabsInit /\ [][TabsNext]_<<vars, apart>>

\* Exchanging the passes of one tab changes nothing, nor exchanging the tabs
\* with a pass of each.
Swaps == {f \in Permutations({p1, p2, p3, t1, t2}) :
            \/ /\ {f[p1], f[p2]} = {p1, p2} /\ f[p3] = p3 /\ f[t1] = t1
            \/ f[p1] = p3 /\ f[p3] = p1 /\ f[p2] = p2 /\ f[t1] = t2}
=============================================================================
