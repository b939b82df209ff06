------------------------------- MODULE Inbound -------------------------------
(***************************************************************************)
(* One message of a peer on its three ways into memory and database: a     *)
(* push, a history answer and a sync commit, each with an adapter of its   *)
(* own (src/cache/canonical-inbound.ts) into one row, and what a renderer  *)
(* then gets of the row (src/message-content.ts).  The conversation has    *)
(* two commits: the message, and later its revocation.                     *)
(*                                                                         *)
(* A text is abstracted to the envelopes an old client left around it and  *)
(* the reply anchor the outermost one names; a payload to its form and     *)
(* what it carries.  `clouds` is history.                                  *)
(* Names ending in _Slip are deliberate errors nothing uses: see README.   *)
(***************************************************************************)
EXTENDS MessageText

VARIABLES
    wire,       \* server: the message
    taken,      \* server: the message has been revoked
    visible,    \* memory: the row of the message, or NoMessage
    stored,     \* database: per commit, its row or NoMessage
    consumed,   \* database: pts of the sync cursor
    clouds      \* history: "blank" when a status came before the message,
                \* "status" when one with a payload came after it

inboundVars == <<wire, taken, visible, stored, consumed, clouds>>

WireMessage ==
    [kind : {"text", "image"}, wraps : 0..MaxWraps, captioned : BOOLEAN,
     reply : Replies, whole : BOOLEAN]   \* whole: sent on a whole second

Payload(f, m, r) == [form |-> f, meta |-> m, reply |-> r]
NoPayload      == Payload("none", FALSE, "none")
NoMessage      == [kind |-> "none"]

InboundRow ==
    [kind : {"text", "image", "revoke", "status"}, text : [wraps : 0..(MaxWraps + 1), reply : Replies],
     body : BOOLEAN, payload : [form : {"none", "raw", "json", "fb"}, meta : BOOLEAN, reply : Replies],
     exact : BOOLEAN, pts : BOOLEAN, revoked : BOOLEAN]

InboundTypeOK ==
    /\ wire \in WireMessage /\ taken \in BOOLEAN
    /\ visible \in InboundRow \cup {NoMessage}
    /\ stored \in [1..2 -> InboundRow \cup {NoMessage}]
    /\ consumed \in 0..2 /\ clouds \subseteq {"blank", "status"}

\* A text is never empty; an image may have no caption.
InboundInit ==
    /\ wire \in {w \in WireMessage : w.captioned \/ (w.kind = "image" /\ w.wraps = 0)}
    /\ taken = FALSE /\ visible = NoMessage
    /\ stored = [c \in 1..2 |-> NoMessage]
    /\ consumed = 0 /\ clouds = {}

-----------------------------------------------------------------------------
HasMeta == wire.kind = "image"
HasData == HasMeta \/ wire.reply # "none"

(***************************************************************************)
(* projectMessageContent: the text from the content, the metadata from the *)
(* payload alone, the anchor from the payload or else from an envelope the *)
(* content still is.                                                       *)
(***************************************************************************)
Project(row) ==
    [kind  |-> row.kind,
     text  |-> row.body /\ Unwrapped(row.text) = Plain(0),
     meta  |-> row.payload.form \in {"json", "fb"} /\ row.payload.meta,
     reply |-> Anchored(row.payload.reply) \/ Anchored(row.text.reply)]

Told == [kind |-> wire.kind, text |-> wire.captioned, meta |-> HasMeta, reply |-> Anchored(wire.reply)]

-----------------------------------------------------------------------------
(* The adapters.                                                           *)

Row(text, payload, exact, pts, revoked) ==
    [kind |-> wire.kind, text |-> text, body |-> wire.captioned, payload |-> payload,
     exact |-> exact, pts |-> pts, revoked |-> revoked]

\* A table of flatbuffers has a number for the anchor: "null" is none.
Table == Payload("fb", HasMeta, IF Anchored(wire.reply) THEN "id" ELSE "none")

\* pushToMessageRecord: JSON first, then text as it is, then a table.
FromPush(payload) == Row(Unwrapped(Plain(wire.wraps)), payload, FALSE, TRUE, taken)

PushPayloads ==
    {Payload("json", HasMeta, wire.reply), Table}
        \cup IF HasData THEN {} ELSE {Payload("raw", FALSE, "none")}

\* buildEnvelopePayload: history has no payload, so one is made of its parts.
EnvelopeOf(meta, reply) ==
    IF meta \/ reply # "none" THEN Payload("json", meta, reply) ELSE NoPayload

\* Metadata and anchor stand beside the content or inside it; a missing anchor
\* beside it may be null, which String() makes "null".
FromHistory(anchor, withPts) ==
    Row(Unwrapped(Plain(wire.wraps)), EnvelopeOf(HasMeta, anchor), TRUE, withPts, taken)

HistoryAnchors == IF wire.reply = "none" THEN {"none", "null"} ELSE {wire.reply}

\* commitToMessageRecord, of the content a server without canonical events
\* sends: text as it is or in an envelope, or an object with its metadata.
\* extractContent takes no envelope off.
FromLegacyCommit ==
    (IF HasMeta THEN {}
     ELSE {Row(IF wire.reply = "none" THEN Plain(wire.wraps)
               ELSE [wraps |-> wire.wraps + 1, reply |-> wire.reply], NoPayload, TRUE, TRUE, FALSE)})
    \cup {Row(Plain(wire.wraps), Payload("json", HasMeta, wire.reply), TRUE, TRUE, FALSE)}

\* A canonical event replaces it as a whole; one of another version, or that
\* does not decode, is as if absent.
ResolveCommit == FromLegacyCommit \cup {Row(Plain(wire.wraps), Table, TRUE, TRUE, FALSE)}

\* Only a new message is taken from a canonical event, or recognised at all:
\* the commit of a revocation is a row like any other.
RevokeCommit ==
    [kind |-> "revoke", text |-> Plain(0), body |-> TRUE, payload |-> NoPayload,
     exact |-> TRUE, pts |-> TRUE, revoked |-> FALSE]

-----------------------------------------------------------------------------
(* The writes, of which Timeline models the identities.                    *)

\* A push is taken as the newer row, text or not.
MergeOnPush_Slip(old, new) ==
    IF old = NoMessage THEN new
    ELSE [new EXCEPT !.exact = old.exact, !.pts = @ \/ old.pts, !.revoked = @ \/ old.revoked]

\* Memory: only a push with a text may change what is shown, but the payload of
\* any push replaces the row's.
MergeOnPush(old, new) ==
    IF old = NoMessage THEN new
    ELSE [old EXCEPT !.kind = IF new.body THEN new.kind ELSE @,
                     !.text = IF new.body THEN new.text ELSE @,
                     !.body = @ \/ new.body,
                     !.payload = IF new.payload.form # "none" THEN new.payload ELSE @,
                     !.pts = @ \/ new.pts,
                     !.revoked = @ \/ new.revoked]

\* The more precise of the two times, which are the same instant.
MergeSentAt(old, new) == old \/ new

\* Whatever is written last is shown.
MergeRow_Slip(old, new) ==
    IF old = NoMessage THEN new
    ELSE [new EXCEPT !.exact = MergeSentAt(old.exact, @), !.revoked = @ \/ old.revoked]

\* Database: only a write with a text may change what is shown.
MergeRow(old, new) ==
    IF old = NoMessage THEN new
    ELSE [new EXCEPT !.kind = IF new.body THEN @ ELSE old.kind,
                     !.text = IF new.body THEN @ ELSE old.text,
                     !.body = @ \/ old.body,
                     !.payload = IF ~new.body \/ @.form = "none" THEN old.payload ELSE @,
                     !.exact = MergeSentAt(old.exact, @),
                     !.revoked = @ \/ old.revoked]

Store(c, row) == stored' = [stored EXCEPT ![c] = MergeRow(@, row)]

\* messageEquals looks at neither the payload nor the precision of the time.
SameCommit(old, new) ==
    /\ old # NoMessage
    /\ old.kind = new.kind /\ old.body = new.body /\ (old.body => old.text = new.text)
    /\ old.pts = new.pts /\ old.revoked = new.revoked
    /\ old.exact \/ wire.whole

-----------------------------------------------------------------------------
\* The row is merged into memory, and what memory then has is written.
Absorbed(row) ==
    /\ visible' = MergeOnPush(visible, row)
    /\ Store(1, visible')

Push ==
    /\ \E p \in PushPayloads : Absorbed(FromPush(p))
    /\ UNCHANGED <<wire, taken, consumed, clouds>>

\* A status of the message: no text, and perhaps a payload, not the message's.
StatusPush ==
    /\ \E p \in {NoPayload, Payload("json", FALSE, "none")} :
        /\ Absorbed([kind |-> "status", text |-> Plain(0), body |-> FALSE, payload |-> p,
                     exact |-> FALSE, pts |-> TRUE, revoked |-> taken])
        /\ clouds' = clouds \cup (IF visible = NoMessage THEN {"blank"} ELSE {})
                            \cup (IF p # NoPayload THEN {"status"} ELSE {})
    /\ UNCHANGED <<wire, taken, consumed>>

\* Memory gets the rows of the answer, not the rows as stored.
History ==
    /\ \E anchor \in HistoryAnchors, withPts \in BOOLEAN :
        LET row == FromHistory(anchor, withPts) IN Store(1, row) /\ visible' = row
    /\ UNCHANGED <<wire, taken, consumed, clouds>>

\* A page of one commit; another tab, or a failed write of the cursor, may
\* bring the same page again.  Memory gets the rows as stored.
SyncMessage ==
    /\ \E row \in ResolveCommit :
        IF SameCommit(stored[1], row) THEN UNCHANGED stored ELSE Store(1, row)
    /\ visible' = stored'[1]
    /\ consumed' = IF consumed = 0 THEN 1 ELSE consumed
    /\ UNCHANGED <<wire, taken, clouds>>

SyncRevoke ==
    /\ taken /\ consumed >= 1
    /\ Store(2, RevokeCommit)
    /\ consumed' = 2
    /\ UNCHANGED <<wire, taken, visible, clouds>>

ServerRevokes ==
    /\ ~taken /\ taken' = TRUE
    /\ UNCHANGED <<wire, visible, stored, consumed, clouds>>

\* The tab is loaded again, and may open the conversation from the database.
Reopen ==
    /\ visible' \in {NoMessage, stored[1]}
    /\ UNCHANGED <<wire, taken, stored, consumed, clouds>>

InboundNext ==
    Push \/ StatusPush \/ History \/ SyncMessage \/ SyncRevoke \/ ServerRevokes \/ Reopen

InboundSpec == InboundInit /\ [][InboundNext]_inboundVars

-----------------------------------------------------------------------------
(***************************************************************************)
(* The same message looks the same whichever way it came, and however the  *)
(* ways were mixed: kind, text, metadata and reply anchor are those the    *)
(* server holds, on screen and on disk, and an anchor it does not hold is  *)
(* never shown -- unless a status of the message came before the message,  *)
(* or came with a payload.                                                 *)
(***************************************************************************)
OneStory ==
    clouds = {} => \A row \in {visible, stored[1]} \ {NoMessage} : Project(row) = Told

\* What the code says, and run revoke_unapplied refutes: sync delivers the
\* revocations history leaves out, so behind the cursor they have been applied.
RevokesApplied == consumed = 2 => stored[1].revoked

\* What merge.ts:25 says, and TLC refutes (README): a push that matches a row
\* may add facts, never erase them.
StatusErasesNothing == [][StatusPush /\ visible # NoMessage => Project(visible') = Project(visible)]_inboundVars
=============================================================================
