----------------------------- MODULE MCSyncTabs -----------------------------
(***************************************************************************)
(* ChannelSync with one tab open at a time, or two: as the initial state   *)
(* has it.                                                                 *)
(***************************************************************************)
EXTENDS ChannelSync, FiniteSets, TLC

CONSTANTS t1, t2

VARIABLE alone      \* at most one tab is open

TabsInit == Init /\ alone \in BOOLEAN

\* Two tabs see two commits and wait for one write each.
TabsNext ==
    /\ Next
    /\ IF alone THEN Cardinality(open') <= 1
       ELSE /\ head' <= 2
            /\ \A t \in Tabs : Len(writes'[t]) <= 1
    /\ UNCHANGED alone

TabsSpec == TabsInit /\ [][TabsNext]_<<vars, alone>>

\* Tabs are interchangeable.
SwapTabs == Permutations(Tabs)

\* Past a hazard the invariants promise nothing: such states are not expanded.
Unharmed == hazards = {}
=============================================================================
