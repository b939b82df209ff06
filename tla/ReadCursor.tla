------------------------------ MODULE ReadCursor ------------------------------
(***************************************************************************)
(* The record of one conversation as its badge sees it: read_pts and       *)
(* unread_count, in the memory of a tab and in the database.  Whoever      *)
(* changes a field writes the whole record, from memory, and does not wait *)
(* (src/client.ts); sync pages and bootstraps write the database first and *)
(* memory after an await.                                                  *)
(*                                                                         *)
(* The server numbers the messages of others 1, 2, ...; own messages never *)
(* count and are left out, and so are the other fields of the record.      *)
(* `counted` is history: the messages unread_count stands for.             *)
(* Names ending in _Slip are deliberate errors nothing uses: see README.   *)
(***************************************************************************)
EXTENDS Naturals, Sequences, FiniteSetsExt

CONSTANTS
    MaxMessages,    \* bound: messages of the server
    MaxPuts         \* bound: writes issued and not done

ASSUME ReadAssumption == MaxMessages \in Nat \ {0} /\ MaxPuts \in Nat \ {0}

VARIABLES
    top,        \* server: its last message
    readUpTo,   \* server: the cursor of this user
    kept,       \* database: the channel record
    storedMsgs, \* database: the messages with a row
    shown,      \* memory: the channel record
    puts,       \* writes issued and not done
    page,       \* the sync page being merged
    load,       \* the bootstrap under way
    blots       \* history: what makes count, memory and database disagree

readVars == <<top, readUpTo, kept, storedMsgs, shown, puts, page, load, blots>>

Messages == 1..MaxMessages
Cursor   == 0..MaxMessages

ChannelRecord == [read : Cursor, unread : Nat, counted : SUBSET Messages]
Unread        == [read |-> 0, unread |-> 0, counted |-> {}]

PageAt == {"idle", "seed", "stored", "publish"}
LoadAt == {"idle", "cursors", "put", "publish"}

ReadTypeOK ==
    /\ top \in Cursor /\ readUpTo \in 0..top
    /\ {kept, shown} \subseteq ChannelRecord
    /\ storedMsgs \subseteq 1..top
    /\ Len(puts) <= MaxPuts
    /\ \A i \in DOMAIN puts : puts[i] \in [op : {"record", "row", "page", "empty", "load"},
                                           rec : ChannelRecord, rows : SUBSET Messages]
    /\ page \in [at : PageAt, rec : ChannelRecord]
    /\ load \in [at : LoadAt, rec : ChannelRecord]
    /\ blots \subseteq {"again", "torn", "lost", "overtaken"}

NoPage == [at |-> "idle", rec |-> Unread]

ReadInit ==
    /\ top = 0 /\ readUpTo = 0
    /\ kept = Unread /\ shown = Unread /\ storedMsgs = {}
    /\ puts = <<>> /\ page = NoPage /\ load = NoPage
    /\ blots = {}

-----------------------------------------------------------------------------
Put(op, rec, rows) == [op |-> op, rec |-> rec, rows |-> rows]

IssuePuts(ws) ==
    /\ Len(puts) + Len(ws) <= MaxPuts
    /\ puts' = puts \o ws

\* rec has counted the messages of ms.
Count(rec, ms) == [rec EXCEPT !.unread = @ + Cardinality(ms), !.counted = @ \cup ms]

Recounted(rec, ms) == IF ms \cap rec.counted # {} THEN {"again"} ELSE {}

\* The database has, or is about to have, a record that memory will take.
Adopting == page.at \in {"stored", "publish"} \/ load.at \in {"put", "publish"}

Overtake == IF Adopting THEN {"overtaken"} ELSE {}

\* The database only when the conversation has something unread.
Change_Slip(rec) ==
    /\ shown' = rec
    /\ IF rec.unread > 0 THEN IssuePuts(<<Put("record", rec, {})>>) ELSE UNCHANGED puts
    /\ blots' = blots \cup Overtake

\* Memory now, the database later.
Change(rec) ==
    /\ shown' = rec
    /\ IssuePuts(<<Put("record", rec, {})>>)
    /\ blots' = blots \cup Overtake

-----------------------------------------------------------------------------
(* The server.                                                             *)

SomeoneWrites ==
    /\ top < MaxMessages
    /\ top' = top + 1
    /\ UNCHANGED <<readUpTo, kept, storedMsgs, shown, puts, page, load, blots>>

\* On another device; or a request of markRead gets there: the server keeps the
\* larger cursor and refuses one beyond its last message.
ServerReads ==
    /\ \E v \in (readUpTo + 1)..top : readUpTo' = v
    /\ UNCHANGED <<top, kept, storedMsgs, shown, puts, page, load, blots>>

-----------------------------------------------------------------------------
(* Cursors.                                                                *)

\* The count is left to the server.
ApplyReadCursor_Slip(v) ==
    IF v > shown.read
    THEN Change([shown EXCEPT !.read = v])
    ELSE UNCHANGED <<shown, puts, blots>>

\* applyReadCursorUpdate: a cursor that advances zeroes the count.
ApplyReadCursor(v) ==
    IF v > shown.read
    THEN Change([shown EXCEPT !.read = v, !.unread = 0, !.counted = {}])
    ELSE UNCHANGED <<shown, puts, blots>>

\* The accepted cursor comes back, as the answer of markRead or pushed as
\* self_read_pts_updated: late, out of order, more than once or never.
CursorArrives ==
    /\ \E v \in 1..readUpTo : ApplyReadCursor(v)
    /\ UNCHANGED <<top, readUpTo, kept, storedMsgs, page, load>>

\* applyChannelFlags, and any other field.
PatchFlags ==
    /\ Change(shown)
    /\ UNCHANGED <<top, readUpTo, kept, storedMsgs, page, load>>

-----------------------------------------------------------------------------
(* Messages.                                                               *)

\* absorbPushIntoCache, of a message or of a change of its status: whether the
\* row is there already plays no part in the count.
AbsorbPush ==
    /\ \E m \in 1..top :
          IF m > shown.read
          THEN /\ shown' = Count(shown, {m})
               /\ IssuePuts(<<Put("record", Count(shown, {m}), {}), Put("row", Unread, {m})>>)
               /\ blots' = blots \cup Overtake \cup Recounted(shown, {m})
          ELSE /\ IssuePuts(<<Put("row", Unread, {m})>>)
               /\ UNCHANGED <<shown, blots>>
    /\ UNCHANGED <<top, readUpTo, kept, storedMsgs, page, load>>

\* openConversation, scrollHistory, jumpToMessageContext: rows and no count.
HistoryRows ==
    /\ \E from, to \in 1..top : storedMsgs' = storedMsgs \cup from..to
    /\ UNCHANGED <<top, readUpTo, kept, shown, puts, page, load, blots>>

\* clearChannelMessages, of a resync.
WipeRows ==
    /\ storedMsgs # {}
    /\ storedMsgs' = {}
    /\ UNCHANGED <<top, readUpTo, kept, shown, puts, page, load, blots>>

\* A page of commits, or an empty one, whose record persistEmptyPage takes
\* from memory.
PageArrives ==
    /\ page.at = "idle"
    /\ \/ \E from, to \in 1..top :
             /\ from <= to
             /\ IssuePuts(<<Put("page", Unread, from..to)>>)
             /\ page' = [page EXCEPT !.at = "stored"]
       \/ page' = [at |-> "seed", rec |-> shown] /\ UNCHANGED puts
    /\ UNCHANGED <<top, readUpTo, kept, storedMsgs, shown, load, blots>>

SeedEmptyPage ==
    /\ page.at = "seed"
    /\ IssuePuts(<<Put("empty", page.rec, {})>>)
    /\ page' = [page EXCEPT !.at = "stored"]
    /\ UNCHANGED <<top, readUpTo, kept, storedMsgs, shown, load, blots>>

\* Memory takes the record the transaction ended with.
PublishPage ==
    /\ page.at = "publish"
    /\ shown' = page.rec
    /\ page' = NoPage
    /\ blots' = IF load.at \in {"put", "publish"} THEN blots \cup {"overtaken"} ELSE blots
    /\ UNCHANGED <<top, readUpTo, kept, storedMsgs, puts, load>>

-----------------------------------------------------------------------------
(* bootstrapChannels: counts first, cursors with a later request.          *)

LoadChannels ==
    /\ load.at = "idle"
    /\ LET ms == (readUpTo + 1)..top IN load' = [at |-> "cursors", rec |-> Count(Unread, ms)]
    /\ UNCHANGED <<top, readUpTo, kept, storedMsgs, shown, puts, page, blots>>

\* torn: the cursor has passed messages of the count.
LoadCursors ==
    /\ load.at = "cursors"
    /\ LET rec == [load.rec EXCEPT !.read = readUpTo] IN
       /\ load' = [at |-> "put", rec |-> rec]
       /\ IssuePuts(<<Put("load", rec, {})>>)
       /\ blots' = IF rec.counted \cap 1..readUpTo = {} THEN blots ELSE blots \cup {"torn"}
    /\ UNCHANGED <<top, readUpTo, kept, storedMsgs, shown, page>>

PublishLoad ==
    /\ load.at = "publish"
    /\ shown' = load.rec
    /\ load' = NoPage
    /\ blots' = IF page.at \in {"stored", "publish"} THEN blots \cup {"overtaken"} ELSE blots
    /\ UNCHANGED <<top, readUpTo, kept, storedMsgs, puts, page>>

-----------------------------------------------------------------------------
(* The database runs the writes in the order they were issued.             *)

Runs(op) == puts # <<>> /\ Head(puts).op = op /\ puts' = Tail(puts)

RunRecord ==
    /\ Runs("record")
    /\ kept' = Head(puts).rec
    /\ UNCHANGED <<top, readUpTo, storedMsgs, shown, page, load, blots>>

RunRow ==
    /\ Runs("row")
    /\ storedMsgs' = storedMsgs \cup Head(puts).rows
    /\ UNCHANGED <<top, readUpTo, kept, shown, page, load, blots>>

\* mergeCommits reads the record and the rows in its transaction and counts
\* what has no row and lies above the cursor.
RunPage ==
    /\ Runs("page")
    /\ LET new == {m \in Head(puts).rows \ storedMsgs : m > kept.read} IN
       /\ kept' = Count(kept, new)
       /\ blots' = blots \cup Recounted(kept, new)
    /\ storedMsgs' = storedMsgs \cup Head(puts).rows
    /\ page' = [at |-> "publish", rec |-> kept']
    /\ UNCHANGED <<top, readUpTo, shown, load>>

RunEmpty ==
    /\ Runs("empty")
    /\ kept' = Head(puts).rec
    /\ page' = [page EXCEPT !.at = "publish"]
    /\ UNCHANGED <<top, readUpTo, storedMsgs, shown, load, blots>>

RunLoad ==
    /\ Runs("load")
    /\ kept' = Head(puts).rec
    /\ load' = [load EXCEPT !.at = "publish"]
    /\ UNCHANGED <<top, readUpTo, storedMsgs, shown, page, blots>>

\* A write fails: swallowed, or thrown by the page or the bootstrap.
PutFails ==
    /\ puts # <<>>
    /\ puts' = Tail(puts)
    /\ LET op == Head(puts).op IN
       /\ blots' = IF op = "record" THEN blots \cup {"lost"} ELSE blots
       /\ page' = IF op \in {"page", "empty"} THEN NoPage ELSE page
       /\ load' = IF op = "load" THEN NoPage ELSE load
    /\ UNCHANGED <<top, readUpTo, kept, storedMsgs, shown>>

\* A reload drops what is under way; the new page starts from the database.
ReloadPage ==
    /\ shown' = kept
    /\ puts' = <<>> /\ page' = NoPage /\ load' = NoPage
    /\ UNCHANGED <<top, readUpTo, kept, storedMsgs, blots>>

ReadNext ==
    \/ SomeoneWrites \/ ServerReads \/ CursorArrives \/ PatchFlags
    \/ AbsorbPush \/ HistoryRows \/ WipeRows
    \/ PageArrives \/ SeedEmptyPage \/ PublishPage
    \/ LoadChannels \/ LoadCursors \/ PublishLoad
    \/ RunRecord \/ RunRow \/ RunPage \/ RunEmpty \/ RunLoad \/ PutFails \/ ReloadPage

ReadSpec == ReadInit /\ [][ReadNext]_readVars

-----------------------------------------------------------------------------
(***************************************************************************)
(* The badge never exceeds the messages above the cursor beside it, in     *)
(* memory or stored, whatever pushes, pages, cursors and bootstraps        *)
(* interleave, are lost or come twice -- until a message is counted again  *)
(* or a bootstrap joins a count with a later cursor.                       *)
(***************************************************************************)
BadgeWithinUnread ==
    blots \cap {"again", "torn"} = {} =>
        \A rec \in {shown, kept} : rec.unread <= top - rec.read

(***************************************************************************)
(* With no write and no answer under way the database has the record       *)
(* memory shows, so a reload changes nothing: unless a write was lost, or  *)
(* the record was changed between the moment a page or a bootstrap had it  *)
(* written and the moment memory took it.                                  *)
(***************************************************************************)
ShownIsKept ==
    (blots \cap {"lost", "overtaken"} = {} /\ puts = <<>> /\ ~Adopting) => kept = shown

-----------------------------------------------------------------------------
(* What src/README.md:647 says, and TLC refutes (README, "Also seen").       *)

\* "messages with pts <= read_pts are read": a record whose cursor is at the
\* last message of the conversation has no unread ones.
AllReadShowsNone == shown.read = top => shown.unread = 0
=============================================================================
