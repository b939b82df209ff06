----------------------------- MODULE ChannelSync ------------------------------
(***************************************************************************)
(* The cursor of one conversation: what channel.latest_pts says the cache  *)
(* has, and the rows it really has.  The sync engine (src/sync-engine.ts)  *)
(* fills gaps page by page from latest_pts on; pushes, ACKs of own sends   *)
(* and bootstraps (src/client.ts) move the same cursor.                    *)
(*                                                                         *)
(* Tabs share one database and have a memory each.  Memory changes first;  *)
(* most database writes are not awaited.  The writes of one tab take       *)
(* effect in the order they were issued, those of two tabs in any order.   *)
(*                                                                         *)
(* A commit is its pts: the server numbers the commits of a channel 1, 2,  *)
(* ...  The channel row exists.  Contents, unread counts and read cursors  *)
(* are left out.                                                           *)
(*                                                                         *)
(* Names ending in _Slip are deliberate errors nothing uses: see README.   *)
(***************************************************************************)
EXTENDS Naturals, Sequences

CONSTANTS
    Tabs,
    MaxPts,     \* bound: commits of the server
    PageLimit,  \* pageLimit
    MaxWrites   \* bound: writes a tab has issued that are not done

ASSUME SyncAssumption ==
    /\ MaxPts \in Nat
    /\ PageLimit \in Nat \ {0}
    /\ MaxWrites \in Nat

VARIABLES
    head,       \* the last commit of the server
    rows,       \* database: the commits whose message row is stored
    saved,      \* database: latest_pts of the channel row
    open,       \* the tabs that are open
    latest,     \* per tab: latest_pts of the channel record in memory
    writes,     \* per tab: the writes issued and not yet done
    pc,         \* per tab: where runSync is suspended
    cursor,     \* per tab: cursor.value
    found,      \* per tab: the channel record it is about to publish
    boot,       \* per tab: a bootstrap is saved and not yet in memory
    hazards     \* history: what has broken the cursor from outside a page

dbVars   == <<rows, saved>>
runVars  == <<pc, cursor, found>>
vars     == <<head, dbVars, open, latest, writes, runVars, boot, hazards>>

Pts == 0..MaxPts

Write == [op : {"channel", "row", "page", "empty", "clear", "reset"}, pts : Pts]

RowWrites == {w \in Write : w.op = "row"}

SyncTypeOK ==
    /\ head \in Pts /\ saved \in Pts
    /\ rows \subseteq 1..head
    /\ open \subseteq Tabs
    /\ latest \in [Tabs -> Pts]
    /\ \A t \in Tabs : \A i \in DOMAIN writes[t] : writes[t][i] \in Write
    /\ pc \in [Tabs -> {"idle", "asking", "merging", "seeding", "emptying",
                        "publishing", "wiping", "clearing", "reloading", "synced"}]
    /\ cursor \in [Tabs -> Pts]
    /\ found \in [Tabs -> Pts]
    /\ boot \in [Tabs -> BOOLEAN]
    /\ hazards \subseteq {"gap", "torn", "wiped"}

Init ==
    /\ head = 0 /\ rows = {} /\ saved = 0
    /\ open = {}
    /\ latest = [t \in Tabs |-> 0]
    /\ writes = [t \in Tabs |-> <<>>]
    /\ pc = [t \in Tabs |-> "idle"]
    /\ cursor = [t \in Tabs |-> 0]
    /\ found = [t \in Tabs |-> 0]
    /\ boot = [t \in Tabs |-> FALSE]
    /\ hazards = {}

-----------------------------------------------------------------------------
Larger(a, b)  == IF a < b THEN b ELSE a
Smaller(a, b) == IF a < b THEN a ELSE b

W(op, pts) == [op |-> op, pts |-> pts]

At(t, l) == t \in open /\ pc[t] = l

Issue(t, ws) ==
    /\ Len(writes[t]) + Len(ws) <= MaxWrites
    /\ writes' = [writes EXCEPT ![t] = @ \o ws]

\* The commits the cache has, or will have once its row writes are done.
Stored ==
    rows \cup UNION {{w.pts : w \in {writes[t][i] : i \in DOMAIN writes[t]} \cap RowWrites} :
                     t \in open}

Goto(t, l) == pc' = [pc EXCEPT ![t] = l]

\* runSync of t returns or throws.
EndRun(t, l) ==
    /\ Goto(t, l)
    /\ cursor' = IF l = "idle" THEN [cursor EXCEPT ![t] = 0] ELSE cursor
    /\ found' = [found EXCEPT ![t] = 0]

-----------------------------------------------------------------------------
(* The server and the tabs.                                                *)

Commit ==
    /\ head < MaxPts
    /\ head' = head + 1
    /\ UNCHANGED <<dbVars, open, latest, writes, runVars, boot, hazards>>

\* A tab hydrates its memory from the channel row.
OpenTab(t) ==
    /\ t \notin open
    /\ open' = open \cup {t}
    /\ latest' = [latest EXCEPT ![t] = saved]
    /\ UNCHANGED <<head, dbVars, writes, runVars, boot, hazards>>

\* The row of a commit is lost while the cursor write issued with it is not.
Torn(t, is) ==
    IF \E i \in is : writes[t][i].op = "row" /\ writes[t][i].pts \notin rows
    THEN hazards \cup {"torn"} ELSE hazards

\* Closed or crashed: what was issued and not done is lost.
CloseTab(t) ==
    /\ t \in open
    /\ open' = open \ {t}
    /\ hazards' = Torn(t, DOMAIN writes[t])
    /\ writes' = [writes EXCEPT ![t] = <<>>]
    /\ latest' = [latest EXCEPT ![t] = 0]
    /\ boot' = [boot EXCEPT ![t] = FALSE]
    /\ EndRun(t, "idle")
    /\ UNCHANGED <<head, dbVars>>

-----------------------------------------------------------------------------
(* What moves the cursor besides sync.                                     *)

\* latest_pts passes a commit nothing has stored.
Gap(m) == IF \E k \in 1..(m - 1) : k \notin Stored THEN hazards \cup {"gap"} ELSE hazards

\* absorbPushIntoCache: delivered in any order, more than once or not at all.
\* The channel row is written before the message row, neither is awaited.
Push(t, m) ==
    /\ t \in open /\ m \in 1..head
    /\ latest' = [latest EXCEPT ![t] = Larger(@, m)]
    /\ Issue(t, <<W("channel", Larger(latest[t], m)), W("row", m)>>)
    /\ hazards' = IF m > latest[t] THEN Gap(m) ELSE hazards
    /\ UNCHANGED <<head, dbVars, open, runVars, boot>>

\* applyAck has stored the row of an own message; refreshChannelOnSend lifts.
OwnSent(t, m) ==
    /\ t \in open /\ m \in 1..head
    /\ rows' = rows \cup {m}
    /\ latest' = [latest EXCEPT ![t] = Larger(@, m)]
    /\ Issue(t, IF m > latest[t] THEN <<W("channel", m)>> ELSE <<>>)
    /\ hazards' = IF m > latest[t] THEN Gap(m) ELSE hazards
    /\ UNCHANGED <<head, saved, open, runVars, boot>>

\* Any update of another field writes the record back as memory has it.
PutChannel(t) ==
    /\ t \in open
    /\ Issue(t, <<W("channel", latest[t])>>)
    /\ UNCHANGED <<head, dbVars, open, latest, runVars, boot, hazards>>

\* bootstrapChannels rebuilds the record with latest_pts "0", database first.
Bootstrap(t) ==
    /\ t \in open /\ ~boot[t]
    /\ \A i \in DOMAIN writes[t] : writes[t][i].op # "reset"
    /\ Issue(t, <<W("reset", 0)>>)
    /\ UNCHANGED <<head, dbVars, open, latest, runVars, boot, hazards>>

Bootstrapped(t) ==
    /\ boot[t]
    /\ boot' = [boot EXCEPT ![t] = FALSE]
    /\ latest' = [latest EXCEPT ![t] = 0]
    /\ UNCHANGED <<head, dbVars, open, writes, runVars, hazards>>

-----------------------------------------------------------------------------
(* runSync.                                                                *)

SyncChannel(t) ==
    /\ At(t, "idle")
    /\ Goto(t, "asking")
    /\ cursor' = [cursor EXCEPT ![t] = latest[t]]
    /\ UNCHANGED <<head, dbVars, open, latest, writes, found, boot, hazards>>

GotPage_Slip(t) ==
    /\ At(t, "asking")
    /\ cursor[t] < head
    /\ Issue(t, <<W("page", cursor[t] + PageLimit)>>)
    /\ Goto(t, "merging")
    /\ UNCHANGED <<head, dbVars, open, latest, cursor, found, boot, hazards>>

\* The answer may be older than the server's last commit.
GotPage(t) ==
    /\ At(t, "asking")
    /\ cursor[t] < head
    /\ \E last \in (cursor[t] + 1)..Smaller(cursor[t] + PageLimit, head) :
         Issue(t, <<W("page", last)>>)
    /\ Goto(t, "merging")
    /\ UNCHANGED <<head, dbVars, open, latest, cursor, found, boot, hazards>>

\* persistEmptyPage takes the record from memory, and writes it after an await
\* when the server's pts differs.
GotEmpty(t) ==
    /\ At(t, "asking")
    /\ \/ Goto(t, "seeding") /\ found' = [found EXCEPT ![t] = latest[t]]
       \/ Goto(t, "synced") /\ UNCHANGED found
    /\ UNCHANGED <<head, dbVars, open, latest, writes, cursor, boot, hazards>>

Seed(t) ==
    /\ At(t, "seeding")
    /\ Issue(t, <<W("empty", found[t])>>)
    /\ Goto(t, "emptying")
    /\ UNCHANGED <<head, dbVars, open, latest, cursor, found, boot, hazards>>

\* Transport error, another code, or 20902, which leaves the cache untouched.
Rejected(t) ==
    /\ At(t, "asking")
    /\ EndRun(t, "idle")
    /\ UNCHANGED <<head, dbVars, open, latest, writes, boot, hazards>>

\* Memory takes the record the transaction ended with; then the next page, if
\* the server has more and the page cap is not reached.
Publish(t) ==
    /\ At(t, "publishing")
    /\ latest' = [latest EXCEPT ![t] = found[t]]
    /\ \E l \in {"asking", "synced"} : Goto(t, l)
    /\ found' = [found EXCEPT ![t] = 0]
    /\ UNCHANGED <<head, dbVars, open, writes, cursor, boot, hazards>>

\* `synced` or `current`.
Return(t) ==
    /\ At(t, "synced")
    /\ EndRun(t, "idle")
    /\ UNCHANGED <<head, dbVars, open, latest, writes, boot, hazards>>

\* 20900: back to "0", the channel row not awaited; sync_state next.
Resync(t) ==
    /\ At(t, "asking")
    /\ EndRun(t, "wiping")
    /\ latest' = [latest EXCEPT ![t] = 0]
    /\ Issue(t, <<W("channel", 0)>>)
    /\ UNCHANGED <<head, dbVars, open, boot, hazards>>

Wipe(t) ==
    /\ At(t, "wiping")
    /\ Issue(t, <<W("clear", 0)>>)
    /\ Goto(t, "clearing")
    /\ UNCHANGED <<head, dbVars, open, latest, cursor, found, boot, hazards>>

\* openConversation stores the newest commits, or fails; then the hint is
\* written with the record memory has.
Reload(t) ==
    /\ At(t, "reloading")
    /\ \E k \in 1..(head + 1) : rows' = rows \cup k..head
    /\ \/ Issue(t, <<W("channel", latest[t])>>)
       \/ UNCHANGED writes
    /\ EndRun(t, "idle")
    /\ UNCHANGED <<head, saved, open, latest, boot, hazards>>

-----------------------------------------------------------------------------
(* The database runs the writes.                                           *)

Done(t) == writes' = [writes EXCEPT ![t] = Tail(@)]

Next1(t, op) == t \in open /\ writes[t] # <<>> /\ Head(writes[t]).op = op

RunChannel(t) ==
    /\ Next1(t, "channel")
    /\ saved' = Head(writes[t]).pts
    /\ Done(t)
    /\ UNCHANGED <<head, rows, open, latest, runVars, boot, hazards>>

RunRow(t) ==
    /\ Next1(t, "row")
    /\ rows' = rows \cup {Head(writes[t]).pts}
    /\ Done(t)
    /\ UNCHANGED <<head, saved, open, latest, runVars, boot, hazards>>

RunPage_Slip(t) ==
    /\ Next1(t, "page")
    /\ LET last == Head(writes[t]).pts IN
       /\ rows' = rows \cup (cursor[t] + 1)..last
       /\ saved' = Larger(saved, head)
       /\ cursor' = [cursor EXCEPT ![t] = head]
       /\ found' = [found EXCEPT ![t] = saved']
    /\ Goto(t, "publishing")
    /\ Done(t)
    /\ UNCHANGED <<head, open, latest, boot, hazards>>

\* mergeCommits: rows, projection and cursor in one transaction, the
\* projection from the channel row it reads there.
RunPage(t) ==
    /\ Next1(t, "page")
    /\ LET last == Head(writes[t]).pts IN
       /\ rows' = rows \cup (cursor[t] + 1)..last
       /\ saved' = Larger(saved, last)
       /\ cursor' = [cursor EXCEPT ![t] = last]
       /\ found' = [found EXCEPT ![t] = saved']
    /\ Goto(t, "publishing")
    /\ Done(t)
    /\ UNCHANGED <<head, open, latest, boot, hazards>>

RunEmpty(t) ==
    /\ Next1(t, "empty")
    /\ saved' = Head(writes[t]).pts
    /\ Goto(t, "publishing")
    /\ Done(t)
    /\ UNCHANGED <<head, rows, open, latest, cursor, found, boot, hazards>>

\* Some record, in memory or being written, counts on the rows.
Relied ==
    \/ saved > 0
    \/ \E t \in open : \/ latest[t] > 0 \/ found[t] > 0 \/ cursor[t] > 0
                       \/ \E i \in DOMAIN writes[t] : writes[t][i].op = "channel" /\ writes[t][i].pts > 0

RunClear(t) ==
    /\ Next1(t, "clear")
    /\ rows' = {}
    /\ hazards' = IF Relied THEN hazards \cup {"wiped"} ELSE hazards
    /\ Goto(t, "reloading")
    /\ Done(t)
    /\ UNCHANGED <<head, saved, open, latest, cursor, found, boot>>

RunReset(t) ==
    /\ Next1(t, "reset")
    /\ saved' = 0
    /\ boot' = [boot EXCEPT ![t] = TRUE]
    /\ Done(t)
    /\ UNCHANGED <<head, rows, open, latest, runVars, hazards>>

\* A write rejects: what nobody awaits is swallowed, a page is thrown to the
\* caller of syncChannel, a failed clear is swallowed too.
WriteFails(t) ==
    /\ t \in open /\ writes[t] # <<>>
    /\ hazards' = Torn(t, {1})
    /\ Done(t)
    /\ CASE Head(writes[t]).op \in {"page", "empty"} -> EndRun(t, "idle")
         [] Head(writes[t]).op = "clear" -> EndRun(t, "reloading")
         [] OTHER -> UNCHANGED runVars
    /\ UNCHANGED <<head, dbVars, open, latest, boot>>

-----------------------------------------------------------------------------
Run(t) ==
    \/ SyncChannel(t) \/ GotPage(t) \/ GotEmpty(t) \/ Seed(t) \/ Rejected(t)
    \/ Publish(t) \/ Return(t) \/ Resync(t) \/ Wipe(t) \/ Reload(t)

Database(t) ==
    \/ RunChannel(t) \/ RunRow(t) \/ RunPage(t) \/ RunEmpty(t)
    \/ RunClear(t) \/ RunReset(t) \/ WriteFails(t)

Lift(t) ==
    \/ \E m \in 1..head : Push(t, m) \/ OwnSent(t, m)
    \/ PutChannel(t) \/ Bootstrap(t) \/ Bootstrapped(t)

Next ==
    \/ Commit
    \/ \E t \in Tabs : OpenTab(t) \/ CloseTab(t)
    \/ \E t \in Tabs : Run(t) \/ Database(t) \/ Lift(t)

Spec == Init /\ [][Next]_vars

-----------------------------------------------------------------------------
\* The cursor passes no commit the cache lacks: neither the stored one nor that
\* of an open tab, whatever pages, pushes, reloads, failed writes and stale
\* records of two tabs interleave.  Three things break it from outside a page,
\* and hazards names them: a push or an ACK beyond a gap, a message row lost
\* after the cursor that was issued with it, rows wiped under a cursor in use.
CursorCovered ==
    hazards = {} => 1..saved \subseteq Stored /\ \A t \in open : 1..latest[t] \subseteq Stored

\* When syncChannel resolves as `synced` or `current`, the cache has every
\* commit up to the cursor it ended with (runSync), the page cap included.
SyncedIsComplete ==
    hazards = {} => \A t \in Tabs : pc[t] = "synced" => 1..cursor[t] \subseteq Stored

-----------------------------------------------------------------------------
(* What the README says, and run push_skips_gap refutes.                   *)

\* "PTS-based gap-fill": after a sync the cache has every commit up to the
\* cursor, gaps that pushes left included.
SyncFillsGaps == \A t \in Tabs : pc[t] = "synced" => 1..cursor[t] \subseteq Stored
=============================================================================
