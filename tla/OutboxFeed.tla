------------------------------ MODULE OutboxFeed ------------------------------
(***************************************************************************)
(* What a host is told of the outbox: onOutboxMutation, observeOutbox and  *)
(* the event outbox_drained, src/client.ts 3145 to 3285, over the listing  *)
(* of src/cache/outbox-store.ts.                                           *)
(*                                                                         *)
(* A write that is announced leads to a read of the whole table, whose     *)
(* result goes to the observers; reads end in the order they began.  Some  *)
(* writes are not announced: the row of a message before its inline send   *)
(* and its deletion after one, the reset of a retry, the bookkeeping of a  *)
(* repair, and all writes of another tab.                                  *)
(* Names ending in _Slip are deliberate errors nothing uses: see README.   *)
(***************************************************************************)
EXTENDS Naturals, Sequences

CONSTANTS
    Sends,
    MaxReads,       \* bound: snapshot reads under way
    MaxWrites       \* bound: writes

ASSUME OutboxFeedAssumption == {MaxReads, MaxWrites} \subseteq Nat \ {0}

VARIABLES
    table,      \* the table: per command its status, "none" for no row
    owed,       \* commands whose write is still to be announced
    reads,      \* snapshot reads under way: of all observers, or of a new one
    presented,  \* what the observer was shown last
    observing,  \* whether it is subscribed, and has been shown anything
    nonEmpty,   \* outboxLastNonEmpty
    badge,      \* the host's: on at a snapshot with rows, off at outbox_drained
    writes,     \* writes so far
    quietly     \* history: a write nobody announced, since the last full read or ever,
                \* and a first snapshot with rows before any full read saw them

outboxFeedVars == <<table, owed, reads, presented, observing, nonEmpty, badge, writes, quietly>>

Statuses == {"none", "pending", "sending", "failed", "ack_pending"}
NoRows   == [s \in Sends |-> "none"]

OutboxFeedTypeOK ==
    /\ table \in [Sends -> Statuses] /\ presented \in [Sends -> Statuses]
    /\ owed \subseteq Sends
    /\ reads \in Seq({"all", "one"}) /\ Len(reads) <= MaxReads
    /\ observing \in {"no", "new", "yes"}
    /\ nonEmpty \in BOOLEAN /\ badge \in BOOLEAN
    /\ writes \in 0..MaxWrites
    /\ quietly \subseteq {"write", "ever", "early"}

OutboxFeedInit ==
    /\ table = NoRows /\ presented = NoRows /\ owed = {} /\ reads = <<>>
    /\ observing = "no" /\ nonEmpty = FALSE /\ badge = FALSE
    /\ writes = 0 /\ quietly = {}

Writes(s, status) ==
    /\ writes < MaxWrites
    /\ writes' = writes + 1
    /\ table' = [table EXCEPT ![s] = status]

\* The engine's and the client's writes that are followed by an announcement:
\* a claim, a failure, a kept ACK, a row retired, a row discarded.
AnnouncedWrite(s) ==
    /\ table[s] # "none"
    /\ \E status \in Statuses \ {"pending"} :
        /\ table[s] = "ack_pending" => status \in {"none", "ack_pending"}
        /\ Writes(s, status)
    /\ owed' = owed \cup {s}
    /\ UNCHANGED <<reads, presented, observing, nonEmpty, badge, quietly>>

\* sendTextMessage off line: the row, and then its announcement.
QueuedOffline(s) ==
    /\ table[s] = "none"
    /\ Writes(s, "pending")
    /\ owed' = owed \cup {s}
    /\ UNCHANGED <<reads, presented, observing, nonEmpty, badge, quietly>>

\* The row before an inline send and its deletion after, a retry, another tab.
SilentWrite(s) ==
    /\ \/ table[s] = "none" /\ Writes(s, "pending")
       \/ table[s] \in {"pending", "sending"} /\ Writes(s, "none")
       \/ table[s] = "failed" /\ Writes(s, "pending")
    /\ quietly' = quietly \cup {"write", "ever"}
    /\ UNCHANGED <<owed, reads, presented, observing, nonEmpty, badge>>

Announce_Slip(s) ==
    /\ s \in owed /\ Len(reads) < MaxReads
    /\ owed' = owed \ {s}
    /\ reads' = IF reads = <<>> THEN <<"all">> ELSE reads
    /\ UNCHANGED <<table, presented, observing, nonEmpty, badge, writes, quietly>>

\* onOutboxMutation: the event, and a read of the table nobody awaits.
Announce(s) ==
    /\ s \in owed /\ Len(reads) < MaxReads
    /\ owed' = owed \ {s}
    /\ reads' = Append(reads, "all")
    /\ UNCHANGED <<table, presented, observing, nonEmpty, badge, writes, quietly>>

\* observeOutbox, whose first snapshot is a read of its own.
Observe ==
    /\ observing = "no" /\ Len(reads) < MaxReads
    /\ observing' = "new"
    /\ reads' = Append(reads, "one")
    /\ UNCHANGED <<table, owed, presented, nonEmpty, badge, writes, quietly>>

\* Whether a snapshot ends a time of rows.
Drained(now) == nonEmpty /\ now = NoRows

\* notifyOutboxObservers and snapshotOneObserver once their read is in; a read
\* that rejects tells nobody anything.
ReadEnds ==
    /\ reads # <<>>
    /\ reads' = Tail(reads)
    /\ IF observing = "no" THEN UNCHANGED <<presented, observing>>
       ELSE presented' = table /\ observing' = "yes"
    /\ IF Head(reads) = "one"
       THEN /\ badge' = (badge \/ (observing # "no" /\ table # NoRows))
            /\ quietly' = quietly \cup IF table # NoRows /\ ~nonEmpty THEN {"early"} ELSE {}
            /\ UNCHANGED nonEmpty
       ELSE /\ nonEmpty' = (table # NoRows)
            /\ badge' = ((badge \/ (observing # "no" /\ table # NoRows)) /\ ~Drained(table))
            /\ quietly' = quietly \ {"write"}
    /\ UNCHANGED <<table, owed, writes>>

ReadRejects ==
    /\ reads # <<>>
    /\ reads' = Tail(reads)
    /\ quietly' = quietly \cup {"write", "ever"}
    /\ UNCHANGED <<table, owed, presented, observing, nonEmpty, badge, writes>>

\* A reload forgets who observed and that there were rows.
FeedReload ==
    /\ owed' = {} /\ reads' = <<>> /\ presented' = NoRows
    /\ observing' = "no" /\ nonEmpty' = FALSE /\ badge' = FALSE
    /\ quietly' = {}
    /\ UNCHANGED <<table, writes>>

OutboxFeedNext ==
    \/ \E s \in Sends : AnnouncedWrite(s) \/ QueuedOffline(s) \/ SilentWrite(s) \/ Announce(s)
    \/ Observe \/ ReadEnds \/ ReadRejects \/ FeedReload

OutboxFeedSpec == OutboxFeedInit /\ [][OutboxFeedNext]_outboxFeedVars

(* ----------------------------- properties ----------------------------- *)

ToldAll == owed = {} /\ reads = <<>>

\* Once every announcement is made and every read is in, the observer has been
\* shown the table, unless something was written since that nobody announced.
\* The badge a host keeps by snapshots and outbox_drained is off over an empty
\* table, unless there ever was such a write, or the first snapshot of an
\* observer showed rows that outboxLastNonEmpty knew nothing of.
ObserverIsCurrent ==
    ToldAll => /\ observing = "yes" /\ "write" \notin quietly => presented = table
               /\ quietly = {} /\ badge => table # NoRows

\* observeOutbox promises a snapshot "on every persisted state mutation"
\* (client.ts:3140) and outbox_drained fires "once whenever the outbox
\* transitions from non-empty to empty", for "pending badge" UIs
\* (events.ts:193): a badge is not left on over an empty table.
BadgeGoesOff == ToldAll /\ table = NoRows => ~badge
===============================================================================
