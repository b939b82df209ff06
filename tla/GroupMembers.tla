----------------------------- MODULE GroupMembers -----------------------------
(***************************************************************************)
(* The local roster of one group: src/cache/group-member-store.ts and its  *)
(* callers in src/client.ts.                                               *)
(*                                                                         *)
(* The server stamps every change of a member, leaving included, with the  *)
(* next version.  A row is what the table holds of a member: v, the        *)
(* version it was stored under, 0 for a row of group/member/list, which    *)
(* has none, and of, the version of the change it shows, 0 for no row.     *)
(*                                                                         *)
(* A CALL is one syncGroupMembers or persistGroupMembers, of this tab or   *)
(* another: the database is all they share, and each awaits between its    *)
(* writes.  An account switch clears the metadata, the watermark with it,  *)
(* and leaves the rows (ensureCacheOwner).                                 *)
(* Names ending in _Slip are deliberate errors nothing uses: see README.   *)
(***************************************************************************)
EXTENDS Naturals, FiniteSetsExt

CONSTANTS
    Members, Calls,
    MaxChanges,     \* bound: changes of the server
    PageSize,       \* changes in one answer; 200 in the code
    MaxPages        \* pages of one sync; 50 in the code

ASSUME RosterAssumption ==
    /\ Members # {}
    /\ {MaxChanges, PageSize, MaxPages} \subseteq Nat \ {0}

VARIABLES
    roster,     \* server: per member, the version of its last change and whether it is in
    rows,       \* the table group_members
    mark,       \* the watermark of the group in cache_metadata, 0 for none
    call,       \* the running calls
    told,       \* history: what the server had when it last answered a sync
    harms       \* history: what no version protects the table from

rosterVars == <<roster, rows, mark, call, told, harms>>

Versions == 0..MaxChanges
NoRow    == [v |-> 0, of |-> 0]
Nothing  == [m \in Members |-> NoRow]
Resting  == [at |-> "idle", since |-> 0, asof |-> 0, put |-> Nothing, drop |-> {},
             old |-> Nothing, next |-> 0, more |-> FALSE, pages |-> 0]

RosterRow == [v : Versions, of : Versions]

RosterTypeOK ==
    /\ roster \in [Members -> [v : Versions, in : BOOLEAN]]
    /\ rows \in [Members -> RosterRow]
    /\ mark \in Versions /\ told \in Versions
    /\ call \in [Calls -> [at : {"idle", "ask", "read", "put", "drop", "mark", "advance"},
                           since : Versions, asof : Versions, put : [Members -> RosterRow],
                           drop : SUBSET Members, old : [Members -> RosterRow], next : Versions,
                           more : BOOLEAN, pages : 0..MaxPages]]
    /\ harms \subseteq {"late", "cut"}

RosterInit ==
    /\ roster = [m \in Members |-> [v |-> 0, in |-> FALSE]]
    /\ rows = Nothing /\ mark = 0 /\ told = 0 /\ harms = {}
    /\ call = [c \in Calls |-> Resting]

-----------------------------------------------------------------------------
TopChange == Max({roster[m].v : m \in Members})

\* groupMemberSyncWatermark: what was saved, else the largest stored version.
Watermark == IF mark > 0 THEN mark ELSE Max({rows[m].v : m \in Members})

\* isNewer; of two rows without a version the one answered later (cached_at),
\* whose answer shows the later change.
IsNewer(row, old) ==
    \/ old.of = 0
    \/ row.v > old.v
    \/ row.v = old.v /\ row.of >= old.of

\* The changes after since that make one page.
Page(since) == {m \in Members :
    /\ roster[m].v > since
    /\ Cardinality({n \in Members : roster[n].v > since /\ roster[n].v < roster[m].v}) < PageSize}

Blame(condition, harm) == harms' = IF condition THEN harms \cup {harm} ELSE harms

Step(c, at) == call' = [call EXCEPT ![c].at = at]

-----------------------------------------------------------------------------
\* Someone joins, changes or leaves.
ChangeMember(m) ==
    /\ TopChange < MaxChanges
    /\ \E b \in {roster[m].in, ~roster[m].in} :
          /\ roster[m].in \/ b
          /\ roster' = [roster EXCEPT ![m] = [v |-> TopChange + 1, in |-> b]]
    /\ UNCHANGED <<rows, mark, call, told, harms>>

\* syncGroupMembers begins.
SyncRoster(c) ==
    /\ call[c].at = "idle"
    /\ call' = [call EXCEPT ![c] = [Resting EXCEPT !.at = "ask", !.since = Watermark]]
    /\ UNCHANGED <<roster, rows, mark, told, harms>>

\* The server answers with a page of changes, tombstones among them.
SyncAnswer(c) ==
    /\ call[c].at = "ask"
    /\ LET since == call[c].since
           page  == Page(since)
           in    == {m \in page : roster[m].in}
       IN  call' = [call EXCEPT ![c] = [@ EXCEPT
                !.at = "read", !.asof = TopChange,
                !.put = [m \in Members |-> IF m \in in THEN [v |-> roster[m].v, of |-> roster[m].v]
                                           ELSE NoRow],
                !.drop = page \ in,
                !.next = Max({since} \cup {roster[m].v : m \in page}),
                !.more = \E m \in Members \ page : roster[m].v > since,
                !.pages = call[c].pages + 1]]
    /\ told' = TopChange
    /\ UNCHANGED <<roster, rows, mark, harms>>

\* group/member/list answers: the whole roster, or a page of it.
ListAnswer(c) ==
    /\ call[c].at = "idle"
    /\ LET in == {m \in Members : roster[m].in}
       IN  \E shown \in SUBSET in, full \in BOOLEAN :
              /\ full => shown = in
              /\ call' = [call EXCEPT ![c] = [Resting EXCEPT
                    !.at = "read", !.asof = TopChange,
                    !.put = [m \in Members |-> IF m \in shown THEN [v |-> 0, of |-> roster[m].v]
                                               ELSE NoRow],
                    !.drop = IF full THEN Members \ in ELSE {}]]
    /\ UNCHANGED <<roster, rows, mark, told, harms>>

\* A late answer that finds no row, a row of a list, or one that changed since
\* it was read, has no version to lose to.
Unguarded(c) ==
    /\ call[c].asof < told
    /\ \E m \in Members : call[c].put[m].of # 0 /\ (rows[m].v = 0 \/ rows[m] # call[c].old[m])

\* upsertGroupMembers reads the rows it may replace...
ReadRows(c) ==
    /\ call[c].at = "read"
    /\ LET new == call[c].put
       IN  call' = [call EXCEPT ![c].at = "put", ![c].old =
                       [m \in Members |-> IF new[m].of # 0 THEN rows[m] ELSE NoRow]]
    /\ UNCHANGED <<roster, rows, mark, told, harms>>

\* Rows without a version replace all.
PutRows_Slip(c) ==
    /\ call[c].at = "put"
    /\ LET new == call[c].put
       IN  rows' = [m \in Members |-> IF new[m].of # 0 THEN new[m] ELSE rows[m]]
    /\ Blame(Unguarded(c), "late")
    /\ call' = [call EXCEPT ![c].at = "drop", ![c].put = Nothing, ![c].old = Nothing,
                                ![c].asof = IF call[c].drop = {} THEN 0 ELSE @]
    /\ UNCHANGED <<roster, mark, told>>

\* ... and puts those that are newer than what it read.
PutRows(c) ==
    /\ call[c].at = "put"
    /\ LET new == call[c].put
       IN  rows' = [m \in Members |->
                IF new[m].of # 0 /\ IsNewer(new[m], call[c].old[m]) THEN new[m] ELSE rows[m]]
    /\ Blame(Unguarded(c), "late")
    /\ call' = [call EXCEPT ![c].at = "drop", ![c].put = Nothing, ![c].old = Nothing,
                                ![c].asof = IF call[c].drop = {} THEN 0 ELSE @]
    /\ UNCHANGED <<roster, mark, told>>

\* The tombstones of a page, or pruneGroupMembers of a whole list.
DropRows(c) ==
    /\ call[c].at = "drop"
    /\ rows' = [m \in Members |-> IF m \in call[c].drop THEN NoRow ELSE rows[m]]
    /\ Blame(call[c].asof < told /\ call[c].drop # {}, "late")
    /\ call' = [call EXCEPT ![c] = IF @.pages = 0 THEN Resting
                                           ELSE [@ EXCEPT !.at = "mark", !.drop = {}, !.asof = 0]]
    /\ UNCHANGED <<roster, mark, told>>

\* The end of a page: ask on, unless the server has no more, did not move or
\* the guard is spent.
Turn(c) ==
    LET on == call[c].more /\ call[c].next > call[c].since /\ call[c].pages < MaxPages
    IN  call' = [call EXCEPT ![c] =
            IF on THEN [@ EXCEPT !.at = "ask", !.since = call[c].next, !.next = 0, !.more = FALSE]
                  ELSE Resting]

\* advanceGroupMemberWatermark reads what there is...
ReadMark(c) ==
    /\ call[c].at = "mark"
    /\ IF call[c].next > call[c].since /\ call[c].next > Watermark
       THEN Step(c, "advance")
       ELSE Turn(c)
    /\ UNCHANGED <<roster, rows, mark, told, harms>>

\* ... and saves what is larger.
AdvanceMark(c) ==
    /\ call[c].at = "advance"
    /\ mark' = call[c].next
    /\ Turn(c)
    /\ UNCHANGED <<roster, rows, told, harms>>

\* A request fails; the rest of the sync is dropped.
RosterFails(c) ==
    /\ call[c].at = "ask"
    /\ call' = [call EXCEPT ![c] = Resting]
    /\ UNCHANGED <<roster, rows, mark, told, harms>>

\* The page is reloaded, or the tab dies, with its call at any point.
RosterCrash(c) ==
    /\ call[c].at # "idle"
    /\ Blame(call[c].at = "drop" /\ call[c].drop # {}, "cut")
    /\ call' = [call EXCEPT ![c] = Resting]
    /\ UNCHANGED <<roster, rows, mark, told>>

\* ensureCacheOwner finds another owner.
SwitchAccount ==
    /\ mark' = 0
    /\ UNCHANGED <<roster, rows, call, told, harms>>

RosterStep(c) ==
    \/ SyncRoster(c) \/ SyncAnswer(c) \/ ListAnswer(c)
    \/ ReadRows(c) \/ PutRows(c) \/ DropRows(c) \/ ReadMark(c) \/ AdvanceMark(c)
    \/ RosterFails(c) \/ RosterCrash(c)

RosterNext ==
    \/ \E m \in Members : ChangeMember(m)
    \/ \E c \in Calls : RosterStep(c)
    \/ SwitchAccount

RosterSpec == RosterInit /\ [][RosterNext]_rosterVars

-----------------------------------------------------------------------------
(***************************************************************************)
(* The watermark from which the next sync asks covers nothing the table    *)
(* lacks: a member whose last change it covers is shown as of that change, *)
(* and one who left is gone, or is about to be dropped by a running call.  *)
(* Crashes, failed pages, lists that come between and an account switch    *)
(* leave it so.  What breaks it for good, because a deleted row has no     *)
(* version to compare and a first page is written in two steps, is named   *)
(* in harms.                                                               *)
(***************************************************************************)
WatermarkIsHonest ==
    harms = {} => \A m \in Members :
        roster[m].v \in 1..Watermark =>
            \/ rows[m].of = IF roster[m].in THEN roster[m].v ELSE 0
            \/ \E c \in Calls : call[c].at = "drop" /\ m \in call[c].drop
=============================================================================
