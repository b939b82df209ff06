------------------------------- MODULE Receipts -------------------------------
(***************************************************************************)
(* How far the others have read one conversation, as its record says:      *)
(* peer_read_pts, raised by pushes (maybeConsumeReadCursorPush and         *)
(* absorbPeerReadCursor of src/client.ts) and rebuilt by bootstrapChannels *)
(* from the cursors of its second request.  In a direct conversation it is *)
(* the other one's cursor, in a group an aggregate nothing but a push has. *)
(*                                                                         *)
(* Memory changes at once; the record is then written from memory, and the *)
(* write is not awaited.  Zero stands for no cursor.                       *)
(* Names ending in _Slip are deliberate errors nothing uses: see README.   *)
(***************************************************************************)
EXTENDS Naturals, Sequences, FiniteSets

CONSTANTS
    MaxSeen,        \* bound: cursors
    MaxQueue,       \* bound: writes issued and not done
    MaxTold         \* bound: events

ASSUME ReceiptAssumption == {MaxSeen, MaxQueue, MaxTold} \subseteq Nat \ {0}

VARIABLES
    isGroup,    \* the conversation is a group
    seenBy,     \* server: how far the others have read
    sentUpTo,   \* server: the cursor as an incremental request knows it
    peer,       \* memory: peer_read_pts
    peerKept,   \* database: peer_read_pts
    queue,      \* writes issued and not done, the sweep's among them
    bootstrap,  \* bootstrapChannelsInflight: the record on its way, or none
    notices,    \* peer_read_cursor_updated events since the page was loaded
    faults      \* history: a write lost, a record replaced by an older one

receiptVars == <<isGroup, seenBy, sentUpTo, peer, peerKept, queue, bootstrap, notices, faults>>

Seen == 0..MaxSeen

ReceiptTypeOK ==
    /\ isGroup \in BOOLEAN
    /\ {seenBy, sentUpTo, peer, peerKept} \subseteq Seen
    /\ Len(queue) <= MaxQueue
    /\ \A i \in 1..Len(queue) : queue[i] \in [by : {"memory", "sweep"}, peer : Seen]
    /\ bootstrap \in [at : {"idle", "asked", "joined", "put", "stored"}, peer : Seen]
    /\ \A i \in 1..Len(notices) : notices[i] \in Seen
    /\ faults \subseteq {"lost", "older", "overtaken"}

NoSweep == [at |-> "idle", peer |-> 0]

ReceiptInit ==
    /\ isGroup \in BOOLEAN
    /\ seenBy = 0 /\ sentUpTo = 0 /\ peer = 0 /\ peerKept = 0
    /\ queue = <<>> /\ bootstrap = NoSweep /\ notices = <<>> /\ faults = {}

OtherReads ==
    /\ \E v \in (seenBy + 1)..MaxSeen : seenBy' = v
    /\ UNCHANGED <<isGroup, sentUpTo, peer, peerKept, queue, bootstrap, notices, faults>>

Enqueue(by, v) ==
    /\ Len(queue) < MaxQueue
    /\ queue' = Append(queue, [by |-> by, peer |-> v])

\* A sweep that has read what memory was, or written, will undo this change.
Crossing == IF bootstrap.at \in {"put", "stored"} THEN {"overtaken"} ELSE {}

AbsorbPeer_Slip(v) ==
    IF v = peer THEN UNCHANGED <<peer, queue, notices, faults>>
    ELSE /\ peer' = v /\ Enqueue("memory", v)
         /\ notices' = Append(notices, v)
         /\ faults' = faults \cup Crossing

\* absorbPeerReadCursor, and the event when it advanced.
AbsorbPeer(v) ==
    IF v <= peer THEN UNCHANGED <<peer, queue, notices, faults>>
    ELSE /\ peer' = v /\ Enqueue("memory", v)
         /\ notices' = Append(notices, v)
         /\ faults' = faults \cup Crossing

\* peer_read_pts_updated or group_read_aggregate_updated: late, out of order,
\* more than once or never.
PeerPush ==
    /\ Len(notices) < MaxTold
    /\ \E v \in 1..seenBy : AbsorbPeer(v)
    /\ UNCHANGED <<isGroup, seenBy, sentUpTo, peerKept, bootstrap>>

\* Any other field of the record changes: all of it is written, from memory.
OtherField ==
    /\ Enqueue("memory", peer)
    /\ faults' = faults \cup Crossing
    /\ UNCHANGED <<isGroup, seenBy, sentUpTo, peer, peerKept, bootstrap, notices>>

(* ----------------------------- the sweep ----------------------------- *)

\* bootstrapChannels; who calls while one runs shares it.
BootstrapStarts ==
    /\ bootstrap.at = "idle"
    /\ bootstrap' = [NoSweep EXCEPT !.at = "asked"]
    /\ UNCHANGED <<isGroup, seenBy, sentUpTo, peer, peerKept, queue, notices, faults>>

\* The join takes the cursor of the answer.  A request since a version has only
\* a cursor that moved after it, and a group none of a peer.
Joined(since) == IF isGroup \/ seenBy <= since THEN 0 ELSE seenBy

BootstrapJoins ==
    /\ bootstrap.at = "asked"
    /\ \E since \in {0, sentUpTo} : bootstrap' = [at |-> "joined", peer |-> Joined(since)]
    /\ sentUpTo' = seenBy
    /\ UNCHANGED <<isGroup, seenBy, peer, peerKept, queue, notices, faults>>

BootstrapStores ==
    /\ bootstrap.at = "joined"
    /\ Enqueue("sweep", bootstrap.peer)
    /\ bootstrap' = [bootstrap EXCEPT !.at = "put"]
    /\ UNCHANGED <<isGroup, seenBy, sentUpTo, peer, peerKept, notices, faults>>

\* Memory takes the record; nobody is told of a cursor.
BootstrapPublishes ==
    /\ bootstrap.at = "stored"
    /\ peer' = bootstrap.peer
    /\ faults' = faults \cup IF bootstrap.peer < peer THEN {"older"} ELSE {}
    /\ bootstrap' = NoSweep
    /\ UNCHANGED <<isGroup, seenBy, sentUpTo, peerKept, queue, notices>>

\* A request rejects: the callers see it, nothing is written.
BootstrapFails ==
    /\ bootstrap.at = "asked"
    /\ bootstrap' = NoSweep
    /\ UNCHANGED <<isGroup, seenBy, sentUpTo, peer, peerKept, queue, notices, faults>>

(* ---------------------------- the database ---------------------------- *)

WriteRuns ==
    /\ queue # <<>> /\ queue' = Tail(queue)
    /\ peerKept' = Head(queue).peer
    /\ bootstrap' = IF Head(queue).by = "sweep" THEN [bootstrap EXCEPT !.at = "stored"]
                    ELSE bootstrap
    /\ UNCHANGED <<isGroup, seenBy, sentUpTo, peer, notices, faults>>

\* A write from memory fails and nobody hears of it; the sweep's fails the sweep.
WriteFails ==
    /\ queue # <<>> /\ queue' = Tail(queue)
    /\ IF Head(queue).by = "sweep" THEN bootstrap' = NoSweep /\ UNCHANGED faults
       ELSE faults' = faults \cup {"lost"} /\ UNCHANGED bootstrap
    /\ UNCHANGED <<isGroup, seenBy, sentUpTo, peer, peerKept, notices>>

\* The new page starts from the database.
PageReloads ==
    /\ peer' = peerKept
    /\ queue' = <<>> /\ bootstrap' = NoSweep /\ notices' = <<>> /\ faults' = {}
    /\ UNCHANGED <<isGroup, seenBy, sentUpTo, peerKept>>

ReceiptNext ==
    \/ OtherReads \/ PeerPush \/ OtherField
    \/ BootstrapStarts \/ BootstrapJoins \/ BootstrapStores \/ BootstrapPublishes \/ BootstrapFails
    \/ WriteRuns \/ WriteFails \/ PageReloads

ReceiptSpec == ReceiptInit /\ [][ReceiptNext]_receiptVars

(* ----------------------------- properties ----------------------------- *)

\* Pushes late, repeated and out of order move the receipt forward only: an
\* event is told once and never below an earlier one, and memory is where the
\* last told left it or beyond, until a sweep puts an older record in its
\* place.  Settled, the database agrees with memory, unless a write was lost
\* or the record changed between a sweep's write and its publication.
ReceiptsAdvance ==
    /\ "older" \notin faults =>
          /\ \A i, j \in 1..Len(notices) : i < j => notices[i] < notices[j]
          /\ notices # <<>> => peer >= notices[Len(notices)]
    /\ queue = <<>> /\ bootstrap = NoSweep /\ faults \cap {"lost", "overtaken"} = {} =>
          peerKept = peer

\* The record holds the "authoritative high-water mark" (client.ts:4091).
ReceiptsStay == [][peer' >= peer \/ notices' = <<>>]_receiptVars
===============================================================================
