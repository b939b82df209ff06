------------------------------ MODULE OwnMessage ------------------------------
(***************************************************************************)
(* One message of this device, from what sendTextMessage is given to its   *)
(* forms: the echo in memory, the row and the command in the database, the *)
(* request of the inline attempt, those the outbox makes later, and a row  *)
(* rebuilt from the command when the row was lost (src/client.ts from      *)
(* 1774, src/cache/rebuild.ts, src/content-type.ts).                       *)
(*                                                                         *)
(* What becomes of the command is OutboxEngine's matter; here it is what   *)
(* each form says: kind, text, metadata, reply anchor, people mentioned.   *)
(* Names ending in _Slip are deliberate errors nothing uses: see README.   *)
(***************************************************************************)
EXTENDS MessageText, FiniteSets

VARIABLES
    draft,      \* what the host hands over
    echo,       \* memory: the row shown, or NoDraftRow
    ownRow,     \* database: the row, or NoDraftRow
    outboxRow,  \* database: the outbox row, or NoOutboxRow
    inlineDue,  \* the inline attempt is still to be made
    accepted    \* server: what it read of the requests it took

ownVars == <<draft, echo, ownRow, outboxRow, inlineDue, accepted>>

NoDraftRow == [type |-> "none"]
NoOutboxRow  == [type |-> "none"]

Tags  == {"text", "image", "voice", "new"}  \* "new": a number BY_TAG does not have
Types == {"text", "image", "voice", "unknown"}

OwnTexts    == [wraps : 0..9, reply : Replies]
OwnPayloads == [form : {"raw", "fb"}, text : OwnTexts, meta : BOOLEAN, reply : {"none", "id"},
                people : UNION {[1..n -> Named] : n \in 0..MaxTokens}]
NoBytes     == [form |-> "none"]

\* The frame of an envelope read as text: nothing takes it off.
Framing == Plain(9)

OwnTypeOK ==
    /\ draft.tag \in Tags /\ draft.text \in OwnTexts /\ draft.marks \in Texts
    /\ draft.payload \in OwnPayloads \cup {NoBytes}
    /\ \A row \in {echo, ownRow} \ {NoDraftRow} :
        row.type \in Types /\ row.text \in OwnTexts /\ row.payload \in OwnPayloads
    /\ outboxRow # NoOutboxRow => /\ outboxRow.type \in Types /\ outboxRow.payload \in OwnPayloads
                              /\ outboxRow.encoding \in {"raw", "fb", "unknown"}
    /\ inlineDue \in BOOLEAN /\ Cardinality(accepted) <= 2

(* ------------------------------ what is sent ---------------------------- *)

\* The people picked from the roster while writing, in the order of the text.
PickedIn(marks, picks) ==
    LET at == Selected([i \in 1..Len(marks) |-> i], picks)
    IN  [i \in 1..Len(at) |-> marks[at[i]]]

\* Text, perhaps taken over from a message of an old client with its anchor,
\* and perhaps with an anchor and mentions beside it.  early: by a version
\* that did not store how its bytes are to be read.
TextDrafts ==
    {[tag |-> tag, text |-> text, marks |-> marks, people |-> PickedIn(marks, picks),
      reply |-> reply, payload |-> NoBytes, early |-> early] :
        tag \in {"text", "new"},
        text \in {t \in [wraps : 0..MaxWraps, reply : Replies] : t.wraps = 0 => t.reply = "none"},
        marks \in Texts, picks \in SUBSET (1..MaxTokens), reply \in {"none", "id"},
        early \in BOOLEAN}

\* encodeMediaPayload.
MediaPayload(caption) ==
    [form |-> "fb", text |-> caption, meta |-> TRUE, reply |-> "none", people |-> <<>>]

\* buildSendImageInput and its like, which refuse an image without thumbnail.
MediaDrafts ==
    {[tag |-> tag, text |-> Plain(0), marks |-> <<>>, people |-> <<>>,
      reply |-> "none", payload |-> MediaPayload(Plain(0)), early |-> FALSE] :
        tag \in {"image", "voice"}}

Sendable(d) == \A i \in 1..Len(d.people) : d.people[i] \in Named

OwnDrafts == {d \in TextDrafts : Sendable(d)} \cup MediaDrafts

OwnInit ==
    /\ draft \in OwnDrafts
    /\ echo = NoDraftRow /\ ownRow = NoDraftRow /\ outboxRow = NoOutboxRow
    /\ inlineDue = FALSE /\ accepted = {}

-----------------------------------------------------------------------------
\* contentTypeFromWireTag and contentTypeToWireTag.
TypeOfTag(tag)  == IF tag = "new" THEN "unknown" ELSE tag
TagOfType(type) == IF type = "unknown" THEN "text" ELSE type

\* protocolIdString.
ProtocolId(reply) == IF reply = "id" THEN reply ELSE "none"

IsLegacy(d)  == d.text.wraps > 0
ReplyOf(d)   == IF d.reply # "none" THEN d.reply ELSE ProtocolId(d.text.reply)
Content(d)   == IF IsLegacy(d) THEN Unwrapped(d.text) ELSE d.text

\* The anchor alone is forgotten.
InEnvelope_Slip(d) == IsLegacy(d) \/ d.people # <<>>

\* An envelope only where something does not fit raw text.
InEnvelope(d) == IsLegacy(d) \/ ReplyOf(d) # "none" \/ d.people # <<>>

\* The bytes, and how they are to be read.
Encoded(d) ==
    IF d.payload # NoBytes THEN d.payload
    ELSE IF InEnvelope(d)
    THEN [form |-> "fb", text |-> Content(d), meta |-> FALSE, reply |-> ReplyOf(d), people |-> d.people]
    ELSE [form |-> "raw", text |-> Content(d), meta |-> FALSE, reply |-> "none", people |-> <<>>]

\* An anchor alone is taken for text.
EncodingOf_Slip(d) == IF d.payload # NoBytes \/ d.people # <<>> THEN "fb" ELSE "raw"

EncodingOf(d) == Encoded(d).form

\* buildOutboxRow.
OutboxRowOf(d) ==
    [type |-> TypeOfTag(d.tag), payload |-> Encoded(d),
     encoding |-> IF d.early THEN "unknown" ELSE EncodingOf(d)]

\* The record of the local echo.
EchoOf(d) == [type |-> TypeOfTag(d.tag), text |-> Content(d), payload |-> Encoded(d)]

\* normalizeRecord.
Normalised(row) == IF row = NoDraftRow THEN row ELSE [row EXCEPT !.text = Unwrapped(@)]

\* isRebuildableFromPayload.
Rebuilds(type) == type = "text"

\* decodeRebuildableContent.  Bytes that do not say what they are may be read
\* as an envelope even where they are text, with any body.
RebuiltTexts(c) ==
    CASE c.encoding = "raw" -> {IF c.payload.form = "raw" THEN c.payload.text ELSE Framing}
      [] c.encoding = "fb"  -> {c.payload.text}
      [] OTHER -> {c.payload.text} \cup IF c.payload.form = "raw" THEN {Framing} ELSE {}

RowRebuilt(c, text) == [type |-> c.type, text |-> text, payload |-> c.payload]

(* ------------------------------ what is read ---------------------------- *)

Shows(type, text, payload) ==
    [type |-> type, text |-> Unwrapped(text) = Plain(0),
     meta |-> payload.form = "fb" /\ payload.meta,
     reply |-> (payload.form = "fb" /\ Anchored(payload.reply)) \/ Anchored(text.reply),
     people |-> Pairing(draft.marks, IF payload.form = "fb" THEN Unique(payload.people) ELSE <<>>)]

ShownOf(row) == Shows(row.type, row.text, row.payload)

\* The server decodes a typed envelope, or else takes the bytes as text.
ReadOf(tag, payload) == Shows(tag, payload.text, payload)

Meant ==
    [type |-> draft.tag, text |-> TRUE, meta |-> draft.payload # NoBytes,
     reply |-> Anchored(ReplyOf(draft)), people |-> Pairing(draft.marks, Unique(draft.people))]

-----------------------------------------------------------------------------
\* sendTextMessage up to its transaction, without which nothing remains of it.
Compose ==
    /\ outboxRow = NoOutboxRow /\ accepted = {} /\ ownRow = NoDraftRow
    /\ echo' = Normalised(EchoOf(draft))
    /\ ownRow' = EchoOf(draft)
    /\ outboxRow' = OutboxRowOf(draft)
    /\ inlineDue' \in BOOLEAN
    /\ UNCHANGED <<draft, accepted>>

\* The inline attempt, of the request made before anything was stored.
Attempt ==
    /\ inlineDue /\ inlineDue' = FALSE
    /\ accepted' = accepted \cup {ReadOf(draft.tag, Encoded(draft))}
    /\ UNCHANGED <<draft, echo, ownRow, outboxRow>>

\* buildRequest, of the command.
Flush ==
    /\ outboxRow # NoOutboxRow
    /\ accepted' = accepted \cup {ReadOf(TagOfType(outboxRow.type), outboxRow.payload)}
    /\ UNCHANGED <<draft, echo, ownRow, outboxRow, inlineDue>>

\* The row is gone, as it is for commands of an early version.
LoseRow ==
    /\ outboxRow # NoOutboxRow /\ ~inlineDue
    /\ ownRow' = NoDraftRow /\ echo' = NoDraftRow
    /\ UNCHANGED <<draft, outboxRow, inlineDue, accepted>>

\* The engine needs the row: to apply an ACK, which retires the command, or
\* before it.  A payload that does not carry the body is left to repair.
Restore ==
    /\ outboxRow # NoOutboxRow
    /\ IF ownRow # NoDraftRow THEN UNCHANGED <<ownRow, echo>>
       ELSE /\ Rebuilds(outboxRow.type)
            /\ \E text \in RebuiltTexts(outboxRow) : ownRow' = RowRebuilt(outboxRow, text)
            /\ echo' = Normalised(ownRow')
    /\ outboxRow' \in {outboxRow} \cup IF accepted # {} THEN {NoOutboxRow} ELSE {}
    /\ UNCHANGED <<draft, inlineDue, accepted>>

OwnReload ==
    /\ echo' = Normalised(ownRow) /\ inlineDue' = FALSE
    /\ UNCHANGED <<draft, ownRow, outboxRow, accepted>>

OwnNext == Compose \/ Attempt \/ Flush \/ LoseRow \/ Restore \/ OwnReload

OwnSpec == OwnInit /\ [][OwnNext]_ownVars

(* ----------------------------- properties ----------------------------- *)

\* The row had to be rebuilt of bytes that do not say how to read them.
Guessed == draft.early /\ ownRow # NoDraftRow /\ ownRow.text = Framing

\* Every form of the message says what was meant: what its sender sees before
\* and after a reload, a row rebuilt from nothing but the command, and what
\* the server reads, whether of the first attempt or of a retry -- unless its
\* type is one this version has no name for, or a row of an early version had
\* to be rebuilt by guessing.
OwnStory ==
    draft.tag # "new" /\ ~Guessed =>
        /\ \A row \in {echo, ownRow} \ {NoDraftRow} : ShownOf(row) = Meant
        /\ accepted \subseteq {Meant}

\* A mention never opens the profile of another: it is of the one who is named
\* there, or of nobody (message-content.ts:204).  Where all who are named were
\* picked, each once, it is of nobody no longer, whatever links stand between.
MentionsAreRight ==
    LET named == Selected(draft.marks, Named \cup {"here"})
    IN  /\ Len(Meant.people) = Len(named)
        /\ \A i \in 1..Len(named) : Meant.people[i] \in {named[i], "nobody"}
        /\ draft.people = named /\ Unique(named) = named => Meant.people = named
===============================================================================
