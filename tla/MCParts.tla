------------------------------- MODULE MCParts -------------------------------
(***************************************************************************)
(* The components that share no state, side by side: a behaviour of this   *)
(* module is a behaviour of one of them, chosen in the initial state,      *)
(* while the others rest in theirs.  One run so checks them all.           *)
(***************************************************************************)
EXTENDS ChunkedUpload, GroupMembers, ReadCursor, Migration, Inbound, RuntimeState,
        FriendSync, RoomFeed, EventFeed, AvatarCache, OutboxFeed,
        ConversationFeed, Receipts, Timeline, OwnMessage

VARIABLE part

partsVars == <<part, uploadVars, rosterVars, readVars, migrationVars, inboundVars, runtimeVars,
               friendVars, roomVars, feedVars, avatarVars, outboxFeedVars,
               conversationVars, receiptVars, timelineVars, ownVars>>

\* A component that rests has one initial state, chosen here.
OldAtRest   == CHOOSE o \in [Rows -> LegacyMessage] :
                   \A i, j \in Rows : i # j => RecordKey(o[i]) # RecordKey(o[j])
\* The rows are interchangeable: they come by conversation and network id.
RowRank(r)  == r.channel * (LastSmid + 1) + r.smid
OldInOrder  == {o \in [Rows -> LegacyMessage] :
                   \A i, j \in Rows : i < j => RowRank(o[i]) <= RowRank(o[j])}
\* The conversations are interchangeable: the first command is in the first.
SendsInOne  == {s \in [Commands -> LegacyCommand] : s[1].channel = 1}
SendsAtRest == CHOOSE s \in SendsInOne : TRUE
WireAtRest  == CHOOSE w \in WireMessage : w.captioned
DraftAtRest == CHOOSE d \in OwnDrafts : TRUE

InitialOf(p, all, resting) == IF part = p THEN all ELSE {resting}

PartsInit ==
    /\ part \in {"upload", "roster", "read", "migration", "inbound", "runtime",
                 "friends", "rooms", "feed", "avatar", "outbox", "conversation",
                 "receipts", "timeline", "own"}
    /\ old \in InitialOf("migration", OldInOrder, OldAtRest)
    /\ sendRows \in InitialOf("migration", SendsInOne, SendsAtRest)
    /\ wire \in InitialOf("inbound", WireMessage, WireAtRest)
    /\ online \in InitialOf("runtime", BOOLEAN, TRUE)
    /\ kind \in InitialOf("friends", {"friend", "group"}, "friend")
    /\ remote \in InitialOf("avatar", {0, 1}, 0) /\ entry \in InitialOf("avatar", {0, 1}, 0)
    /\ MigrationInit /\ InboundInit /\ RuntimeInit /\ FriendInit /\ AvatarInit
    /\ isGroup \in InitialOf("receipts", BOOLEAN, FALSE)
    /\ draft \in InitialOf("own", OwnDrafts, DraftAtRest) /\ OwnInit
    /\ ConversationInit /\ ReceiptInit /\ TimelineInit
    /\ UploadInit /\ RosterInit /\ ReadInit /\ RoomInit /\ FeedInit /\ OutboxFeedInit

RestExcept(p) ==
    /\ part = p /\ UNCHANGED part
    /\ p # "upload"    => UNCHANGED uploadVars
    /\ p # "roster"    => UNCHANGED rosterVars
    /\ p # "read"      => UNCHANGED readVars
    /\ p # "migration" => UNCHANGED migrationVars
    /\ p # "inbound"   => UNCHANGED inboundVars
    /\ p # "runtime"   => UNCHANGED runtimeVars
    /\ p # "friends"   => UNCHANGED friendVars
    /\ p # "rooms"     => UNCHANGED roomVars
    /\ p # "feed"      => UNCHANGED feedVars
    /\ p # "avatar"    => UNCHANGED avatarVars
    /\ p # "outbox"    => UNCHANGED outboxFeedVars
    /\ p # "conversation" => UNCHANGED conversationVars
    /\ p # "receipts"  => UNCHANGED receiptVars
    /\ p # "timeline"  => UNCHANGED timelineVars
    /\ p # "own"       => UNCHANGED ownVars

PartsNext ==
    \/ part = "upload"    /\ UploadNext     /\ RestExcept("upload")
    \/ part = "roster"    /\ RosterNext     /\ RestExcept("roster")
    \/ part = "read"      /\ ReadNext       /\ RestExcept("read")
    \/ part = "migration" /\ MigrationNext  /\ RestExcept("migration")
    \/ part = "inbound"   /\ InboundNext    /\ RestExcept("inbound")
    \/ part = "runtime"   /\ RuntimeNext    /\ RestExcept("runtime")
    \/ part = "friends"   /\ FriendNext     /\ RestExcept("friends")
    \/ part = "rooms"     /\ RoomNext       /\ RestExcept("rooms")
    \/ part = "feed"      /\ FeedNext       /\ RestExcept("feed")
    \/ part = "avatar"    /\ AvatarNext     /\ RestExcept("avatar")
    \/ part = "outbox"    /\ OutboxFeedNext /\ RestExcept("outbox")
    \/ part = "conversation" /\ ConversationNext /\ RestExcept("conversation")
    \/ part = "receipts"  /\ ReceiptNext    /\ RestExcept("receipts")
    \/ part = "timeline"  /\ TimelineNext   /\ RestExcept("timeline")
    \/ part = "own"       /\ OwnNext        /\ RestExcept("own")

PartsSpec ==
    /\ PartsInit /\ [][PartsNext]_partsVars
    /\ WF_partsVars(part = "upload" /\ UploadStep /\ RestExcept("upload"))

\* Past a known harm the invariants promise nothing: not expanded.
PartsUnharmed == harms = {} /\ blots = {} /\ FriendUnharmed /\ losses = {}

\* Members are interchangeable, and so are peers: the first to change is the
\* same one in every behaviour.
OneChangesFirst ==
    /\ \A m \in Members \ {CHOOSE m \in Members : TRUE} : roster[m].v # 1
    /\ \A p \in Peers \ {CHOOSE p \in Peers : TRUE} : peers[p].v # 1

\* Two messages of the timeline come from others, to a tab that has issued at
\* most one transaction, and none of them is revoked.
TwoOnlyRead ==
    Len(log) = 2 => /\ Len(jobs) <= 1 /\ sends = 0
                    /\ \A m \in 1..2 : ~log[m].revoked

\* The variables of the part that moves keep to their ranges.
PartsTypeOK ==
    CASE part = "upload"    -> UploadTypeOK
      [] part = "roster"    -> RosterTypeOK
      [] part = "read"      -> ReadTypeOK
      [] part = "migration" -> MigrationTypeOK
      [] part = "inbound"   -> InboundTypeOK
      [] part = "runtime"   -> RuntimeTypeOK
      [] part = "friends"   -> FriendTypeOK
      [] part = "rooms"     -> RoomTypeOK
      [] part = "feed"      -> FeedTypeOK
      [] part = "avatar"    -> AvatarTypeOK
      [] part = "outbox"    -> OutboxFeedTypeOK
      [] part = "conversation" -> ConversationTypeOK
      [] part = "receipts"  -> ReceiptTypeOK
      [] part = "timeline"  -> TimelineTypeOK
      [] part = "own"       -> OwnTypeOK

\* What an upload returns is whole, and on the way there the client knows every
\* gap (ChunkedUpload).
UploadIsWhole == part = "upload" => ReturnedIsWhole /\ GapsCoverMissing

\* Nothing keeps a record of what it does not hold: a watermark never runs
\* ahead of the members stored below it (GroupMembers), and sweeps that did
\* not cross leave friends and groups as the server has them (FriendSync).
CollectionsConverge ==
    /\ part = "roster"  => WatermarkIsHonest
    /\ part = "friends" => SweepsConverge

\* The record of a conversation: the badge counts no more than is unread, what
\* is shown is what is kept (ReadCursor), and the others' receipt moves forward
\* only (Receipts).
RecordIsSound ==
    /\ part = "read"     => BadgeWithinUnread /\ ShownIsKept
    /\ part = "receipts" => ReceiptsAdvance

\* An upgrade of the database keeps every message and every command that can be
\* delivered, and no clash of keys aborts it (Migration).
UpgradeIsSafe ==
    part = "migration" => CommandsResolved /\ NoMessageLost /\ UpgradeNeverAborts

\* A message says the same in each of its forms: one received, whichever way it
\* came (Inbound); one sent, to its sender, to the server and when rebuilt
\* (OwnMessage); one shown by patches, to an observer that applies every one of
\* them (ConversationFeed); and its mentions are of the people named
\* (MessageText).
SameMessage ==
    /\ part = "inbound" => OneStory
    /\ part = "own" => OwnStory /\ MentionsAreRight
    /\ part = "conversation" => PatchesTell

\* Who listens hears: the observer of the outbox its rows (OutboxFeed), every
\* listener every event, and a poller all but what overran the history
\* (EventFeed).
HostIsTold ==
    /\ part = "outbox" => ObserverIsCurrent
    /\ part = "feed" => EachHearsAll /\ PollerMissesOverrunOnly

\* Memory and database keep the messages of a conversation apart, under one
\* order, and show them in it (Timeline).
TimelineIsOrderly ==
    part = "timeline" => OneRowEach /\ KeysUnderOneMode /\ ShownInOrder

\* The rooms the server serves are the rooms the host asked for, and what is
\* posted in them arrives once (RoomFeed).
RoomsServed == part = "rooms" => RoomsAgree /\ RoomHeard

\* What a UI is handed holds: the banner says what the session is, an expired
\* session shows (RuntimeState), and an avatar's URL is alive (AvatarCache).
ShownIsTrue ==
    /\ part = "runtime" => BannerIsTrue /\ ExpiryIsShown
    /\ part = "avatar"  => OneLiveHandle

\* An upload ends, FairUpload's promise, where the upload is the part that moves.
UploadEndsHere == part = "upload" => UploadEnds
=============================================================================
