------------------------------ MODULE FriendSync ------------------------------
(***************************************************************************)
(* The incremental sweeps of friendships and of groups, bootstrapFriend-   *)
(* ships and bootstrapGroups of src/client.ts, over their table and the    *)
(* ProfileStore in memory, and the username a friend row brings along.     *)
(*                                                                         *)
(* The server stamps every change of a peer with the next version and      *)
(* answers with the latest change of each peer after a version.  A row is  *)
(* the version it came with, 0 for none.  No cursor is stored: a sweep     *)
(* starts after the largest version it finds in memory and in the table,   *)
(* so what lies at or below that is never asked for again.  Sweeps are not *)
(* coalesced: an invalidation, refreshFriendships and a login overlap.     *)
(* A request that is not accepted reads as a deletion.                     *)
(* Names ending in _Slip are deliberate errors nothing uses: see README.   *)
(***************************************************************************)
EXTENDS Naturals, FiniteSetsExt

CONSTANTS
    Peers, Sweeps,
    MaxEdits,       \* bound: changes of the server
    SweepPage       \* rows of one answer; 100 in the code

ASSUME FriendAssumption ==
    Peers # {} /\ {MaxEdits, SweepPage} \subseteq Nat \ {0}

VARIABLES
    kind,       \* what is swept: "friend", or "group", whose deletions are skipped
    peers,      \* server: per peer, the version of its last change and whether it is in
    saved,      \* the table
    loaded,     \* the ProfileStore
    sweep,      \* the running sweeps
    named,      \* the users in memory that show a username
    names,      \* the same, in the table of users
    pen,        \* writes of usernames on their way to the table
    ills        \* history: what the sweeps do not protect the table from

friendVars == <<kind, peers, saved, loaded, sweep, named, names, pen, ills>>

Edits   == 0..MaxEdits
Nobody  == [p \in Peers |-> 0]
AtRest  == [at |-> "idle", since |-> 0, up |-> Nobody, gone |-> {}]
NoPen   == [p \in Peers |-> "no"]
Highest(row) == Max({row[p] : p \in Peers})

FriendTypeOK ==
    /\ kind \in {"friend", "group"}
    /\ peers \in [Peers -> [v : Edits, in : BOOLEAN]]
    /\ saved \in [Peers -> Edits] /\ loaded \in [Peers -> Edits]
    /\ sweep \in [Sweeps -> [at : {"idle", "table", "ask", "put", "drop", "apply"},
                             since : Edits, up : [Peers -> Edits], gone : SUBSET Peers]]
    /\ named \subseteq Peers /\ names \subseteq Peers
    /\ pen \in [Peers -> {"no", "name", "blank"}]
    /\ ills \subseteq {"late", "cut", "both", "blind"}

FriendInit ==
    /\ kind \in {"friend", "group"}
    /\ peers = [p \in Peers |-> [v |-> 0, in |-> FALSE]]
    /\ saved = Nobody /\ loaded = Nobody
    /\ sweep = [s \in Sweeps |-> AtRest]
    /\ named = {} /\ names = {} /\ pen = NoPen /\ ills = {}

(* ------------------------------ server ------------------------------ *)

LatestEdit == Max({peers[p].v : p \in Peers})

\* A peer is befriended, edited or removed.
PeerChanges(p) ==
    /\ LatestEdit < MaxEdits
    /\ \E in \in BOOLEAN :
        /\ in \/ peers[p].in
        /\ peers' = [peers EXCEPT ![p] = [v |-> LatestEdit + 1, in |-> in]]
    /\ UNCHANGED <<kind, saved, loaded, sweep, named, names, pen, ills>>

\* One answer: the changes after the version asked for, oldest first.
PageAfter(since) ==
    LET after == {p \in Peers : peers[p].v > since}
    IN  {p \in after : Cardinality({q \in after : peers[q].v <= peers[p].v}) <= SweepPage}

(* ------------------------------ a sweep ------------------------------ *)

Collect_Slip(x, page) ==
    [x EXCEPT !.up = [p \in Peers |-> IF p \in page /\ peers[p].in
                                      THEN peers[p].v ELSE x.up[p]]]

\* What a page adds: its rows to one list, its deletions to another, which a
\* sweep of groups does not keep.
Collect(x, page) ==
    [x EXCEPT !.up   = [p \in Peers |-> IF p \in page /\ peers[p].in
                                        THEN peers[p].v ELSE x.up[p]],
              !.gone = @ \cup IF kind = "friend" THEN {p \in page : ~peers[p].in} ELSE {}]

\* The sweep looks for its starting point in memory, then in the table.
SweepBegins(s) ==
    /\ sweep[s].at = "idle"
    /\ sweep' = [sweep EXCEPT ![s] = [AtRest EXCEPT !.at = "table", !.since = Highest(loaded)]]
    /\ UNCHANGED <<kind, peers, saved, loaded, named, names, pen, ills>>

SweepStarts(s) ==
    /\ sweep[s].at = "table"
    /\ sweep' = [sweep EXCEPT ![s].at = "ask", ![s].since = Max({@, Highest(saved)})]
    /\ UNCHANGED <<kind, peers, saved, loaded, named, names, pen, ills>>

\* A page is answered; the last one sends the sweep to its writes.
PageAnswered(s) ==
    LET x    == sweep[s]
        page == PageAfter(x.since)
        next == Max({peers[p].v : p \in page} \cup {x.since})
        y    == Collect(x, page)
    IN  /\ x.at = "ask"
        /\ sweep' = [sweep EXCEPT ![s] =
               IF PageAfter(next) # {} THEN [y EXCEPT !.since = next]
               ELSE IF y.up = Nobody /\ y.gone = {} THEN AtRest
               ELSE [y EXCEPT !.since = next, !.at = "put"]]
        /\ UNCHANGED <<kind, peers, saved, loaded, named, names, pen, ills>>

Over(row, x) == [p \in Peers |-> IF x.up[p] # 0 THEN x.up[p] ELSE row[p]]
Less(row, x) == [p \in Peers |-> IF p \in x.gone THEN 0 ELSE row[p]]

\* A write of a row or a deletion the server has overtaken, and a peer in both
\* lists.
Ills(x) ==
    (IF \E p \in Peers : \/ x.up[p] \notin {0, peers[p].v}
                         \/ p \in x.gone /\ peers[p].v > x.since
     THEN {"late"} ELSE {})
    \cup (IF \E p \in x.gone : x.up[p] # 0 THEN {"both"} ELSE {})

RowsPut(s) ==
    /\ sweep[s].at = "put"
    /\ saved' = Over(saved, sweep[s])
    /\ ills' = ills \cup Ills(sweep[s])
    /\ sweep' = [sweep EXCEPT ![s].at = "drop"]
    /\ UNCHANGED <<kind, peers, loaded, named, names, pen>>

RowsDropped(s) ==
    /\ sweep[s].at = "drop"
    /\ saved' = Less(saved, sweep[s])
    /\ ills' = ills \cup Ills(sweep[s])
    /\ sweep' = [sweep EXCEPT ![s].at = "apply"]
    /\ UNCHANGED <<kind, peers, loaded, named, names, pen>>

\* applyDelta, upserts before deletions.
ApplyDelta(row, x) == Less(Over(row, x), x)

Ingested(x) == {p \in Peers : x.up[p] # 0} \ named

Cleared_Slip(x, known) == {}

\* Who is gone and in memory with a username loses it.
Cleared(x, known) == x.gone \cap known

\* The rest runs without a pause: memory, then the usernames the rows bring,
\* then those the deletions take away, whose writes nobody awaits.
SweepApplied(s) ==
    LET x     == sweep[s]
        in    == Ingested(x)
        clear == Cleared(x, named \cup in)
    IN  /\ x.at = "apply"
        /\ loaded' = ApplyDelta(loaded, x)
        /\ ills' = ills \cup Ills(x)
        /\ sweep' = [sweep EXCEPT ![s] = AtRest]
        /\ IF kind = "friend"
           THEN /\ named' = (named \cup in) \ clear
                /\ pen' = [p \in Peers |-> IF p \in clear THEN "blank"
                                           ELSE IF p \in in THEN "name" ELSE pen[p]]
           ELSE UNCHANGED <<named, pen>>
        /\ UNCHANGED <<kind, peers, saved, names>>

NamesWritten ==
    /\ pen # NoPen
    /\ names' = (names \cup {p \in Peers : pen[p] = "name"}) \ {p \in Peers : pen[p] = "blank"}
    /\ pen' = NoPen
    /\ UNCHANGED <<kind, peers, saved, loaded, sweep, named, ills>>

\* The request or a write rejects, or the page is reloaded: what the sweep has
\* already written stays.  Only a pause between its writes does harm.
Torn(x) == IF x.at \in {"drop", "apply"} THEN {"cut"} ELSE {}

SweepFails(s) ==
    /\ sweep[s].at \in {"ask", "put", "drop"}
    /\ sweep' = [sweep EXCEPT ![s] = AtRest]
    /\ ills' = ills \cup Torn(sweep[s])
    /\ UNCHANGED <<kind, peers, saved, loaded, named, names, pen>>

\* A reload hydrates the stores from the tables before it sweeps, unless a
\* refreshFriendships comes first and the stores are no longer empty.
Reload ==
    /\ loaded' \in {saved, Nobody}
    /\ named' \in {names, {}}
    /\ sweep' = [s \in Sweeps |-> AtRest]
    /\ pen' = NoPen
    /\ ills' = ills \cup (UNION {Torn(sweep[s]) : s \in Sweeps})
                    \cup (IF pen # NoPen THEN {"cut"} ELSE {})
                    \cup (IF loaded' # saved \/ named' # names THEN {"blind"} ELSE {})
    /\ UNCHANGED <<kind, peers, saved, names>>

FriendNext ==
    \/ \E p \in Peers : PeerChanges(p)
    \/ \E s \in Sweeps : \/ SweepBegins(s) \/ SweepStarts(s) \/ PageAnswered(s) \/ RowsPut(s)
                         \/ RowsDropped(s) \/ SweepApplied(s) \/ SweepFails(s)
    \/ NamesWritten \/ Reload

FriendSpec == FriendInit /\ [][FriendNext]_friendVars

(* ----------------------------- properties ----------------------------- *)

Quiet == \A s \in Sweeps : sweep[s].at = "idle"

\* Between sweeps, what no later sweep will ask for is right: a peer whose
\* last change is at or below the largest version held has the row of that
\* change, or none if it was a deletion.  refreshFriendships promises
\* "harmless and convergent" (client.ts:2768).
SkippedIsRight ==
    Quiet => \A p \in Peers :
        peers[p].v <= Max({Highest(loaded), Highest(saved)}) =>
            \/ saved[p] = IF peers[p].in THEN peers[p].v ELSE 0
            \/ kind = "group" /\ ~peers[p].in

\* What neither a slow answer, nor a crash between two writes, nor a peer in
\* both lists, nor a sweep before the hydration has touched.
FriendUnharmed == ills = {}

\* Between undisturbed sweeps the promise holds; memory lists the friends the
\* table lists; and the username of somebody who is no friend is gone from
\* memory, and from the table once the writes on their way have landed
\* (client.ts:2585 to 2587).
SweepsConverge ==
    FriendUnharmed /\ Quiet =>
        /\ SkippedIsRight
        /\ loaded = saved
        /\ named \subseteq {p \in Peers : saved[p] # 0}
        /\ pen = NoPen => names = named
===============================================================================
