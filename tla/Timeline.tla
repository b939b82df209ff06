------------------------------- MODULE Timeline -------------------------------
(***************************************************************************)
(* The messages of one conversation, in the memory of a tab                *)
(* (src/cache/message-store.ts) and in the database                        *)
(* (src/cache/indexeddb-store.ts), as sends, pushes, history answers and   *)
(* sync pages write them.  The server numbers messages 1, 2, ..., and the  *)
(* number is server_message_id as well as pts.  A row carries the number   *)
(* (smid), the number of the local send (lmid) and its pts, 0 for none,    *)
(* and an id minted where the row was built.                               *)
(*                                                                         *)
(* Transactions of the tab run one after the other, in the order issued    *)
(* (`jobs`); what the caller does in the same tick as the commit is part   *)
(* of the job.  The database picks any of several rows an index may name   *)
(* first: ids are random.  `losses` is history: what makes memory or       *)
(* database lose a fact.                                                   *)
(* Names ending in _Slip are deliberate errors nothing uses: see README.   *)
(***************************************************************************)
EXTENDS Naturals, Sequences, FiniteSetsExt

CONSTANTS
    MaxLog,     \* bound: messages of the conversation
    MaxSends,   \* bound: messages this device sends
    MaxIds,     \* bound: row ids in use at once
    MaxJobs,    \* bound: transactions issued and not done
    Window      \* rows of a window, local or remote

ASSUME TimelineAssumption ==
    {MaxLog, MaxSends, MaxIds, MaxJobs, Window} \subseteq Nat \ {0} /\ MaxSends <= MaxLog

VARIABLES
    log,        \* server: per message, the send it came from and whether it is revoked
    command,    \* outbox: per send, message_id of its command, 0 for none
    sends,      \* sends begun
    inline,     \* sends whose call still awaits its answer
    disk,       \* database: the rows, each keyed under the mode `by`
    diskMode,   \* database: the order mode of the conversation
    buffer,     \* memory: the rows
    bufferMode, \* memory: the order mode
    jobs,       \* transactions issued and not done
    fetch,      \* the history call under way
    losses       \* history: see above

outVars      == <<command, sends, inline>>
diskVars     == <<disk, diskMode>>
bufferVars   == <<buffer, bufferMode>>
timelineVars == <<log, outVars, diskVars, bufferVars, jobs, fetch, losses>>

Ids   == 1..MaxIds
Modes == {"pts", "server_id"}

MessageRecord ==
    [id : Ids, smid : 0..MaxLog, lmid : 0..MaxSends, pts : 0..MaxLog, body : BOOLEAN,
     status : {"pending", "sent", "received"}, revoked : BOOLEAN, exact : BOOLEAN,
     by : Modes \cup {"none"}]

\* The columns only the database has: the key is written under one mode.
Stamp(r, mode) == [r EXCEPT !.by = mode]
Strip(r)       == [r EXCEPT !.by = "none"]

Fetches == {"idle", "opening", "window", "asked", "answered", "storing", "reread"}
NoFetch == [at |-> "idle", kind |-> "open", rows |-> {}]

TimelineTypeOK ==
    /\ Len(log) <= MaxLog
    /\ \A m \in DOMAIN log : log[m] \in [lmid : 0..MaxSends, revoked : BOOLEAN]
    /\ command \in [1..MaxSends -> 0..MaxIds] /\ sends \in 0..MaxSends /\ inline \subseteq 1..sends
    /\ disk \subseteq MessageRecord /\ \A r \in disk : r.by \in Modes
    /\ buffer \subseteq MessageRecord /\ \A r \in buffer : r.by = "none"
    /\ {diskMode, bufferMode} \subseteq Modes
    /\ Len(jobs) <= MaxJobs
    /\ fetch.at \in Fetches /\ fetch.rows \subseteq MessageRecord
    /\ losses \subseteq {"late", "overtaken", "lost", "split", "blank"}

TimelineInit ==
    /\ log = <<>>
    /\ command = [l \in 1..MaxSends |-> 0] /\ sends = 0 /\ inline = {}
    /\ disk = {} /\ diskMode = "pts"
    /\ buffer = {} /\ bufferMode = "pts"
    /\ jobs = <<>> /\ fetch = NoFetch
    /\ losses = {}

-----------------------------------------------------------------------------
(* Rows as each source builds them.                                        *)

Mine(m) == log[m].lmid # 0

Echo(i, l) ==
    [id |-> i, smid |-> 0, lmid |-> l, pts |-> 0, body |-> TRUE,
     status |-> "pending", revoked |-> FALSE, exact |-> TRUE, by |-> "none"]

\* A push gives the time in seconds and says "received" whoever wrote.
PushRow(i, m, body, revoked) ==
    [id |-> i, smid |-> m, lmid |-> log[m].lmid, pts |-> m, body |-> body,
     status |-> "received", revoked |-> revoked, exact |-> FALSE, by |-> "none"]

\* History does not know the send, and may leave the pts out.
HistoryRow(i, m, withPts) ==
    [id |-> i, smid |-> m, lmid |-> 0, pts |-> IF withPts THEN m ELSE 0, body |-> TRUE,
     status |-> IF Mine(m) THEN "sent" ELSE "received",
     revoked |-> log[m].revoked, exact |-> TRUE, by |-> "none"]

\* A commit never says revoked.
CommitRow(i, m) ==
    [id |-> i, smid |-> m, lmid |-> log[m].lmid, pts |-> m, body |-> TRUE,
     status |-> IF Mine(m) THEN "sent" ELSE "received", revoked |-> FALSE, exact |-> TRUE,
     by |-> "none"]

UsedIds ==
    {r.id : r \in buffer \cup fetch.rows} \cup {r.id : r \in disk}
        \cup (UNION {{r.id : r \in jobs[j].rows} : j \in DOMAIN jobs})
        \cup {command[l] : l \in 1..MaxSends}

Free    == Ids \ UsedIds
Mint(k) == LET free == Free IN CHOOSE i \in free : Cardinality({j \in free : j <= i}) = k

-----------------------------------------------------------------------------
(* Order and identity.                                                     *)

HasPtsGap(r) == r.smid # 0 /\ r.pts = 0

\* displaySortKey: pending rows last; local_order_seq follows the sends.
SortKey(r, mode) ==
    <<IF r.smid = 0 THEN 1 ELSE 0, IF mode = "pts" THEN r.pts ELSE r.smid, r.smid, r.lmid>>

Precedes(j, k) == \E i \in 1..4 : j[i] < k[i] /\ \A h \in 1..(i - 1) : j[h] = k[h]

Same(a, b) == \/ a.smid # 0 /\ a.smid = b.smid
              \/ a.lmid # 0 /\ a.lmid = b.lmid

-----------------------------------------------------------------------------
(* Memory.                                                                 *)

\* What memory holds of the messages of rows gives way to them.
Overlay(old, rows) ==
    {m \in old : \A r \in rows : m.id # r.id /\ ~Same(m, r)} \cup rows

\* A confirmed row without pts is proof; its absence from a window is none.
NoteRows(mode, rows) == IF \E r \in rows : HasPtsGap(r) THEN "server_id" ELSE mode

\* The mode is what the database said last.
UpsertBuffer_Slip(rows) ==
    /\ buffer' = Overlay(buffer, rows)
    /\ UNCHANGED bufferMode

UpsertBuffer(rows) ==
    /\ buffer' = Overlay(buffer, rows)
    /\ bufferMode' = NoteRows(bufferMode, rows)

\* Rows of memory before or after the window stay.
ReplaceWindow(mode, rows) ==
    LET noted  == NoteRows(mode, rows)
        key(r) == SortKey(r, noted)
        outside == {m \in buffer : \/ \A r \in rows : Precedes(key(m), key(r))
                                   \/ \A r \in rows : Precedes(key(r), key(m))}
    IN  /\ bufferMode' = noted
        /\ buffer' = Overlay(outside, rows)

\* The push is taken as it is whenever it has a body.
MergeOnPushAbsorb_Slip(known, r) ==
    IF known = {} THEN [r EXCEPT !.status = IF Mine(r.smid) /\ r.body THEN "sent" ELSE @]
    ELSE LET e == CHOOSE e \in known : TRUE IN
         [r EXCEPT !.id = e.id, !.body = @ \/ e.body,
                   !.status = IF e.status \in {"pending", "sent"} THEN "sent" ELSE @]

\* mergeOnPushAbsorb: known is the row of memory the push is about, or {}.
MergeOnPushAbsorb(known, r) ==
    IF known = {} THEN [r EXCEPT !.status = IF Mine(r.smid) /\ r.body THEN "sent" ELSE @]
    ELSE LET e == CHOOSE e \in known : TRUE IN
         [e EXCEPT !.smid = IF @ # 0 THEN @ ELSE r.smid,
                   !.lmid = IF @ # 0 THEN @ ELSE r.lmid,
                   !.pts = IF @ # 0 THEN @ ELSE r.pts,
                   !.body = @ \/ r.body,
                   !.status = IF @ \in {"pending", "sent"} THEN "sent"
                              ELSE IF r.body THEN r.status ELSE @,
                   !.revoked = @ \/ r.revoked]

-----------------------------------------------------------------------------
(* Database.                                                               *)

\* findExisting: by id, then by either network identity.
Existing(rows, r) ==
    LET byId   == {e \in rows : e.id = r.id}
        bySmid == {e \in rows : r.smid # 0 /\ e.smid = r.smid}
        byLmid == {e \in rows : r.lmid # 0 /\ e.lmid = r.lmid}
    IN  IF byId # {} THEN byId ELSE IF bySmid # {} THEN bySmid ELSE byLmid

\* What the row had survives a write that does not know it, except smid, lmid
\* and pts, which are the write's.
Merged(e, r) ==
    [r EXCEPT !.id = e.id,
              !.body = r.body \/ e.body,
              !.status = IF e.status = "sent" /\ ~r.body THEN "sent" ELSE r.status,
              !.revoked = r.revoked \/ e.revoked,
              !.exact = r.exact \/ e.exact]

UpsertRow(rows, r) ==
    LET found == Existing(rows, r)
        e     == CHOOSE e \in found : TRUE
    IN  IF found = {} THEN rows \cup {Stamp(r, diskMode)}
        ELSE (rows \ {e}) \cup {Stamp(Merged(e, r), diskMode)}

\* Rows of one call, one after the other.
UpsertRows(rows, answer) == FoldSet(LAMBDA r, acc : UpsertRow(acc, r), rows, answer)

\* One mode for every key, degraded as long as a gap is left.
ReconcileOrderMode_Slip(rows) ==
    LET want == NoteRows("pts", rows) IN
    /\ diskMode' = want
    /\ disk' = rows

ReconcileOrderMode(rows) ==
    LET want == NoteRows("pts", rows) IN
    /\ diskMode' = want
    /\ disk' = IF want = diskMode THEN rows ELSE {Stamp(Strip(r), want) : r \in rows}

\* The index &server_message_id refuses a second row with the number.
Legal(rows) == \A a, b \in rows : (a.smid # 0 /\ a.smid = b.smid) => a = b

ByLmid(l) == {r \in disk : r.lmid = l}

\* applyAck: the row that an index lookup by lmid found, if any, keeps its id;
\* the row known by smid only is absorbed.
Acked(local, acked) ==
    IF local = {} THEN acked ELSE [acked EXCEPT !.id = (CHOOSE e \in local : TRUE).id]

ApplyAck_Slip(local, acked) ==
    LET kept == Acked(local, acked) IN
    ReconcileOrderMode({r \in disk : r \notin local /\ r.id # kept.id} \cup {Stamp(kept, diskMode)})

ApplyAck(local, acked) ==
    LET kept == Acked(local, acked) IN
    ReconcileOrderMode({r \in disk : /\ r \notin local
                                     /\ r.smid # acked.smid
                                     /\ r.id # kept.id} \cup {Stamp(kept, diskMode)})

\* What an index lookup that finds these rows returns.
Firsts(rows) == IF rows = {} THEN {{}} ELSE {{r} : r \in rows}

-----------------------------------------------------------------------------
Job(op, rows) == [op |-> op, rows |-> rows]
Issue(op, rows) == Len(jobs) < MaxJobs /\ jobs' = Append(jobs, Job(op, rows))
Queued(ops) == \E j \in DOMAIN jobs : jobs[j].op \in ops
Heads(op) == jobs # <<>> /\ Head(jobs).op = op
Ended == jobs' = Tail(jobs)
FollowedBy(op, rows) == jobs' = Append(Tail(jobs), Job(op, rows))
TheRow == CHOOSE r \in Head(jobs).rows : TRUE

\* Memory changes while these transactions, or an answer, may bring it older rows.
Overtakes(ops) ==
    IF Queued(ops) \/ ("history" \in ops /\ fetch.at = "answered") THEN {"overtaken"} ELSE {}

(* The server.                                                             *)

\* A send of this device that it has yet to number keeps its place.
PeerWrites ==
    /\ Len(log) < MaxLog
    /\ log' = Append(log, [lmid |-> 0, revoked |-> FALSE])
    /\ UNCHANGED <<outVars, diskVars, bufferVars, jobs, fetch, losses>>

Accept(l) ==
    /\ Len(log) < MaxLog
    /\ command[l] # 0 /\ \A m \in DOMAIN log : log[m].lmid # l
    /\ log' = Append(log, [lmid |-> l, revoked |-> FALSE])
    /\ UNCHANGED <<outVars, diskVars, bufferVars, jobs, fetch, losses>>

\* By the author on any device, perhaps before this one has applied the ack.
Revoke(m) ==
    /\ ~log[m].revoked
    /\ log' = [log EXCEPT ![m].revoked = TRUE]
    /\ losses' = IF Mine(m) /\ command[log[m].lmid] # 0 THEN losses \cup {"late"} ELSE losses
    /\ UNCHANGED <<outVars, diskVars, bufferVars, jobs, fetch>>

-----------------------------------------------------------------------------
(* Sends.                                                                  *)

\* The echo is on screen before the row and its command are durable.
SendText ==
    /\ sends < MaxSends /\ Free # {}
    /\ LET echo == {Echo(Mint(1), sends + 1)} IN UpsertBuffer(echo) /\ Issue("create", echo)
    /\ sends' = sends + 1
    /\ inline' = inline \cup {sends + 1}
    /\ UNCHANGED <<log, command, diskVars, fetch, losses>>

RunCreate ==
    /\ Heads("create") /\ Ended
    /\ disk' = disk \cup {Stamp(TheRow, diskMode)}
    /\ command' = [command EXCEPT ![TheRow.lmid] = TheRow.id]
    /\ UNCHANGED <<log, sends, inline, diskMode, bufferVars, fetch, losses>>

\* What the ack is put on.  The call that sent still has the echo it stored; the
\* engine takes the row of memory the command names, if it is of that send, else
\* the stored row, else makes the echo again.
Pending(l) ==
    LET owned  == {r \in buffer : r.id = command[l] /\ r.lmid = l}
        stored == {Strip(r) : r \in {e \in ByLmid(l) : e.id = command[l]}}
        other  == {Strip(r) : r \in ByLmid(l)}
    IN  IF l \in inline THEN {Echo(command[l], l)}
        ELSE IF owned # {} THEN owned
        ELSE IF stored # {} THEN stored
        ELSE IF other # {} THEN other
        ELSE {Echo(command[l], l)}

Ack(l) ==
    /\ command[l] # 0 /\ ~Queued({"ack"})
    /\ \E m \in DOMAIN log, base \in Pending(l) :
        /\ log[m].lmid = l
        /\ Issue("ack", {[base EXCEPT !.smid = m, !.lmid = l, !.pts = m, !.status = "sent"]})
    /\ UNCHANGED <<log, outVars, diskVars, bufferVars, fetch, losses>>

\* Message and command in one transaction; memory gets the row as stored.
RunAck ==
    /\ Heads("ack") /\ Ended
    /\ \E local \in Firsts(ByLmid(TheRow.lmid)) :
        /\ ApplyAck(local, TheRow)
        /\ UpsertBuffer({Acked(local, TheRow)})
    /\ command' = [command EXCEPT ![TheRow.lmid] = 0]
    /\ inline' = inline \ {TheRow.lmid}
    /\ losses' = losses \cup Overtakes({"reread"})
    /\ UNCHANGED <<log, sends, fetch>>

\* The answer is lost; the engine takes over.
InlineThrows(l) ==
    /\ l \in inline /\ command[l] # 0
    /\ inline' = inline \ {l}
    /\ UNCHANGED <<log, command, sends, diskVars, bufferVars, jobs, fetch, losses>>

-----------------------------------------------------------------------------
(* Pushes: the message with its body, or a status of it without.           *)

Absorb(m, body) ==
    LET push  == PushRow(Mint(1), m, body, log[m].revoked)
        match == {r \in buffer : Same(r, push)}
        key(r) == SortKey(r, bufferMode)
        known == {r \in match : \A o \in match \ {r} : Precedes(key(r), key(o))}
        row   == MergeOnPushAbsorb(known, push)
    IN  /\ Free # {}
        /\ Issue("row", {row}) /\ UpsertBuffer({row})
        /\ losses' = losses \cup Overtakes({"window", "history", "reread", "page", "publish"})
                          \cup (IF match = {} /\ ~body /\ Mine(m) THEN {"blank"} ELSE {})
        /\ UNCHANGED <<log, outVars, diskVars, fetch>>

RunPushed ==
    /\ Heads("row") /\ Ended
    /\ LET rows == UpsertRow(disk, TheRow) IN
       IF Legal(rows) THEN ReconcileOrderMode(rows) ELSE UNCHANGED diskVars
    /\ losses' = IF Cardinality({r \in disk : Same(r, TheRow)}) > 1 THEN losses \cup {"split"} ELSE losses
    /\ UNCHANGED <<log, outVars, bufferVars, fetch>>

-----------------------------------------------------------------------------
(* openConversation, scrollHistory and jumpToMessageContext.               *)

OpenConversation ==
    /\ fetch.at = "idle" /\ Issue("mode", {})
    /\ fetch' = [fetch EXCEPT !.at = "opening", !.kind = "open"]
    /\ UNCHANGED <<log, outVars, diskVars, bufferVars, losses>>

RunMode ==
    /\ Heads("mode") /\ FollowedBy("window", {})
    /\ bufferMode' = diskMode
    /\ fetch' = [fetch EXCEPT !.at = "window"]
    /\ UNCHANGED <<log, outVars, diskVars, buffer, losses>>

\* getMessageWindow: the last rows in the order of the stored keys.
MessageWindow ==
    {r \in disk : Cardinality({o \in disk : Precedes(SortKey(r, r.by), SortKey(o, o.by))}) < Window}

RunWindow ==
    /\ Heads("window") /\ Ended
    /\ IF disk = {} THEN UNCHANGED bufferVars
       ELSE ReplaceWindow(bufferMode, {Strip(r) : r \in MessageWindow})
    /\ fetch' = [fetch EXCEPT !.at = "asked"]
    /\ UNCHANGED <<log, outVars, diskVars, losses>>

\* scrollHistory and jumpToMessageContext: older rows, or rows around a message.
PageHistory ==
    /\ fetch.at = "idle" /\ log # <<>>
    /\ fetch' = [fetch EXCEPT !.at = "asked", !.kind = "page"]
    /\ UNCHANGED <<log, outVars, diskVars, bufferVars, jobs, losses>>

\* The server answers with the last messages, or with those up to any other;
\* the answer travels.
AnswerHistory ==
    /\ fetch.at = "asked"
    /\ \E hi \in IF fetch.kind = "open" THEN {Len(log)} ELSE DOMAIN log, withPts \in BOOLEAN :
        LET n == IF hi < Window THEN hi ELSE Window IN
        /\ Cardinality(Free) >= n
        /\ fetch' = IF n = 0 THEN NoFetch
                    ELSE [fetch EXCEPT !.at = "answered",
                          !.rows = {HistoryRow(Mint(k), hi - n + k, withPts) : k \in 1..n}]
    /\ UNCHANGED <<log, outVars, diskVars, bufferVars, jobs, losses>>

StoreHistory ==
    /\ fetch.at = "answered" /\ Issue("history", fetch.rows)
    /\ fetch' = [fetch EXCEPT !.at = "storing", !.rows = {}]
    /\ UNCHANGED <<log, outVars, diskVars, bufferVars, losses>>

\* Memory gets the rows of the answer, not the rows as stored: after a look at
\* the mode when the conversation is opened, at once when it is scrolled.
RunHistory ==
    /\ Heads("history")
    /\ LET answer == Head(jobs).rows
           rows   == UpsertRows(disk, answer) IN
       \/ /\ Legal(rows) /\ ReconcileOrderMode(rows)
          /\ fetch.kind = "open"
          /\ FollowedBy("reread", answer)
          /\ UNCHANGED <<bufferVars, fetch, losses>>
       \/ /\ Legal(rows) /\ ReconcileOrderMode(rows)
          /\ fetch.kind # "open"
          /\ UpsertBuffer(answer) /\ Ended
          /\ fetch' = NoFetch /\ losses' = losses \cup Overtakes({"publish"})
       \/ /\ ~Legal(rows) /\ Ended
          /\ fetch' = NoFetch
          /\ UNCHANGED <<diskVars, bufferVars, losses>>
    /\ UNCHANGED <<log, outVars>>

RunReread ==
    /\ Heads("reread") /\ Ended
    /\ ReplaceWindow(diskMode, Head(jobs).rows)
    /\ fetch' = NoFetch /\ losses' = losses \cup Overtakes({"publish"})
    /\ UNCHANGED <<log, outVars, diskVars>>

-----------------------------------------------------------------------------
(* Sync pages, of one commit.                                              *)

SyncPage(m) ==
    /\ ~Queued({"page", "publish"}) /\ Free # {}
    /\ Issue("page", {CommitRow(Mint(1), m)})
    /\ UNCHANGED <<log, outVars, diskVars, bufferVars, fetch, losses>>

\* A pending row of the send takes the commit as its ack, on its own id;
\* otherwise the commit is stored.  Memory is to get the row read again.
RunMerge ==
    /\ Heads("page")
    /\ LET c     == TheRow
           known == {r \in disk : r.smid = c.smid}
           rows  == UpsertRow(disk, c)
       IN
       \E local \in Firsts(IF c.lmid = 0 THEN {} ELSE ByLmid(c.lmid)) :
       \/ /\ \E r \in local : r.status = "pending"
          /\ ApplyAck(local, c)
       \/ /\ \A r \in local : r.status # "pending"
          /\ IF Legal(rows) THEN ReconcileOrderMode(rows) ELSE UNCHANGED diskVars
    /\ FollowedBy("publish", {Strip(r) : r \in {e \in disk' : e.smid = TheRow.smid}})
    /\ UNCHANGED <<log, outVars, bufferVars, fetch, losses>>

RunPublish ==
    /\ Heads("publish") /\ Ended
    /\ buffer' = Overlay(buffer, Head(jobs).rows)
    /\ bufferMode' = NoteRows(diskMode, Head(jobs).rows)
    /\ losses' = losses \cup Overtakes({"history", "reread"})
    /\ UNCHANGED <<log, outVars, diskVars, fetch>>

-----------------------------------------------------------------------------
(* Faults.                                                                 *)

\* The transaction aborts.  A push is not told; a send takes its echo back; the
\* other callers throw, and an ack leaves its command to be sent again.
JobFails ==
    /\ jobs # <<>> /\ Ended
    /\ LET op == Head(jobs).op IN
       /\ losses' = IF op \in {"row", "window", "reread", "publish"} THEN losses \cup {"lost"} ELSE losses
       /\ buffer' = IF op = "create" THEN {r \in buffer : r.id # TheRow.id} ELSE buffer
       /\ inline' = IF op \in {"create", "ack"} THEN inline \ {TheRow.lmid} ELSE inline
       /\ fetch' = IF op \in {"mode", "window", "history", "reread"} THEN NoFetch ELSE fetch
    /\ UNCHANGED <<log, command, sends, diskVars, bufferMode>>

TabReloads ==
    /\ buffer' = {} /\ bufferMode' = "pts"
    /\ jobs' = <<>> /\ fetch' = NoFetch /\ inline' = {}
    /\ UNCHANGED <<log, command, sends, diskVars, losses>>

TimelineNext ==
    \/ PeerWrites \/ SendText \/ RunCreate \/ RunAck \/ RunPushed
    \/ \E l \in 1..sends : Accept(l) \/ Ack(l) \/ InlineThrows(l)
    \/ \E m \in DOMAIN log : Revoke(m) \/ SyncPage(m) \/ \E body \in BOOLEAN : Absorb(m, body)
    \/ OpenConversation \/ RunMode \/ RunWindow \/ PageHistory
    \/ AnswerHistory \/ StoreHistory \/ RunHistory \/ RunReread
    \/ RunMerge \/ RunPublish \/ JobFails \/ TabReloads

TimelineSpec == TimelineInit /\ [][TimelineNext]_timelineVars

-----------------------------------------------------------------------------
Regresses(old, new) ==
    \E a \in old, b \in new :
        /\ a.smid # 0 /\ a.smid = b.smid
        /\ \/ a.body /\ ~b.body
           \/ a.revoked /\ ~b.revoked
           \/ a.exact /\ ~b.exact
           \/ a.status = "sent" /\ b.status # "sent"

(***************************************************************************)
(* A write may add facts, never erase them: no message on screen or on     *)
(* disk loses its text, its revocation, its precise time or the fact that  *)
(* it was sent, whichever of push, page, history and ack comes last --     *)
(* unless a push overtakes an answer memory is about to take, its write is *)
(* lost, or a message is revoked before its ack is applied.                *)
(***************************************************************************)
NothingErased ==
    [][losses' = {} => ~Regresses(buffer, buffer') /\ ~Regresses(disk, disk')]_timelineVars

(***************************************************************************)
(* One logical message, one row: in memory and on disk, no two rows share  *)
(* a server id or a send, through echoes, self pushes, history copies,     *)
(* commits and acks -- unless a push reaches a history copy while the echo *)
(* of the same send is still there.                                        *)
(***************************************************************************)
OneRowEach ==
    losses = {} => \A rows \in {buffer, disk} : \A a, b \in rows : Same(a, b) => a = b

(***************************************************************************)
(* The stored keys of the conversation are all written under the one mode  *)
(* the metadata names, and it is the degraded one while a confirmed row    *)
(* has no pts: a range scan of the index is the display order.             *)
(***************************************************************************)
KeysUnderOneMode ==
    /\ \A r \in disk : r.by = diskMode
    /\ (\E r \in disk : HasPtsGap(r)) => diskMode = "server_id"

(***************************************************************************)
(* With nothing under way, memory does not sort by pts while it shows a    *)
(* confirmed row without one: it would come before the whole conversation. *)
(***************************************************************************)
ShownInOrder ==
    (losses = {} /\ jobs = <<>> /\ fetch.at = "idle" /\ bufferMode = "pts") =>
        \A r \in buffer : ~HasPtsGap(r)

-----------------------------------------------------------------------------
(* What the code says, and TLC refutes (README, "Also seen").               *)

\* A message row with no command is permanently sending, and is not allowed
\* to be: a pending row has the command that will settle it.
PendingIsQueued == \A r \in disk : r.status = "pending" => command[r.lmid] # 0
=============================================================================
