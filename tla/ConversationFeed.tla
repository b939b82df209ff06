---------------------------- MODULE ConversationFeed ----------------------------
(***************************************************************************)
(* What an observer of one conversation is told: the buffer of             *)
(* src/cache/message-store.ts, which hands out the whole of it with every  *)
(* change (a snapshot) and what changed (a patch, of rows and of ids).     *)
(*                                                                         *)
(* A row has its id, the message it stands for (two rows with a network    *)
(* identity in common stand for one), what a reader sees of it, and the    *)
(* place the database gave it among the pending.  Messages are numbered as *)
(* the server numbers them, which is their order under either order mode;  *)
(* the database keeps one row for a message, and keeps up with memory (the *)
(* rows of one message that live side by side are module Timeline's).      *)
(* Names ending in _Slip are deliberate errors nothing uses: see README.   *)
(***************************************************************************)
EXTENDS FiniteSets, Selection

CONSTANTS
    MaxShown,       \* bound: messages of the conversation
    MaxRowIds       \* bound: ids minted

ASSUME ConversationAssumption == {MaxShown, MaxRowIds} \subseteq Nat \ {0}

VARIABLES
    screen,     \* memory: the rows, in display order
    onDisk,     \* database: the rows
    saving,     \* sends whose transaction has not ended, in the order they began
    view,       \* the observer's rows, kept by patches
    unsaid,     \* history: changes of the buffer no patch told of
    count       \* messages there are, ids minted, and places given

conversationVars == <<screen, onDisk, saving, view, unsaid, count>>

ShownRow == [id : 1..MaxRowIds, msg : 1..MaxShown, face : {0, 1}, seq : 0..MaxShown,
             sent : BOOLEAN]

ConversationTypeOK ==
    /\ Range(screen) \cup Range(saving) \cup onDisk \subseteq ShownRow
    /\ \A r \in view : [r EXCEPT !.seq = 0] \in ShownRow
    /\ unsaid \subseteq {"absorbed", "refilled", "cleared"}
    /\ count \in [posts : 0..MaxShown, ids : 0..MaxRowIds, seqs : 0..MaxShown]

ConversationInit ==
    /\ screen = <<>> /\ onDisk = {} /\ saving = <<>> /\ view = {} /\ unsaid = {}
    /\ count = [posts |-> 0, ids |-> 0, seqs |-> 0]

(* ------------------------------ the buffer ------------------------------ *)

IdsOf(rows) == {r.id : r \in rows}

\* compareDisplayOrder: pending rows last, by their place, none before any.
OrderKey(r) == IF r.sent THEN <<0, r.msg>> ELSE <<1, r.seq>>

ComesBefore(r, s) ==
    LET a == OrderKey(r)  b == OrderKey(s) IN a[1] < b[1] \/ (a[1] = b[1] /\ a[2] < b[2])

\* Sorting is stable.
Sorted(rows) ==
    LET Rank(i) == Cardinality({j \in 1..Len(rows) :
                       ComesBefore(rows[j], rows[i]) \/ (~ComesBefore(rows[i], rows[j]) /\ j <= i)})
    IN  [k \in 1..Len(rows) |-> rows[CHOOSE i \in 1..Len(rows) : Rank(i) = k]]

\* A map by id: a row takes the place of its namesake, or comes last.
Placed(rows, r) ==
    IF r.id \in IdsOf(Range(rows))
    THEN [i \in 1..Len(rows) |-> IF rows[i].id = r.id THEN r ELSE rows[i]]
    ELSE Append(rows, r)

PlacedAll(rows, more) == FoldLeft(Placed, rows, more)

\* messageEquals, which does not look at the place.
Alike(r, s) == [r EXCEPT !.seq = 0] = [s EXCEPT !.seq = 0]

\* absorbDuplicates: other rows of the same messages go.
WithoutDuplicates(rows, incoming) ==
    Selected(rows, {r \in Range(rows) : \/ r.id \in IdsOf(Range(incoming))
                                        \/ \A s \in Range(incoming) : s.msg # r.msg})

\* notify: the observer applies the patch.
Notify(upserted, removed) ==
    view' = {v \in view : v.id \notin removed \cup IdsOf(upserted)} \cup upserted

Untold(gap, rows) == IF rows = {} THEN {} ELSE {gap}

Upsert_Slip(rows) ==
    LET merged  == Sorted(PlacedAll(WithoutDuplicates(screen, rows), rows))
        changed == {r \in Range(rows) : r.id \notin IdsOf(Range(screen))}
    IN  /\ screen' = merged /\ Notify(changed, {}) /\ UNCHANGED unsaid

\* upsertMessages; without a change it stores nothing.
Upsert(rows) ==
    LET kept    == WithoutDuplicates(screen, rows)
        changed == {r \in Range(rows) : \A s \in Range(kept) : s.id = r.id => ~Alike(s, r)}
    IN  IF changed = {} THEN UNCHANGED <<screen, view, unsaid>>
        ELSE /\ screen' = Sorted(PlacedAll(kept, rows))
             /\ Notify(changed, {})
             /\ unsaid' = unsaid \cup Untold("absorbed", Range(screen) \ Range(kept))

\* replaceWindow: what lies outside the window stays, but for duplicates.
RefillWindow(rows) ==
    LET window  == Sorted(rows)
        outside == Selected(screen, {r \in Range(screen) : \/ ComesBefore(r, Head(window))
                                                           \/ ComesBefore(Last(window), r)})
        merged  == Sorted(PlacedAll(WithoutDuplicates(outside, window), window))
        was     == IdsOf(Range(screen))
    IN  /\ screen' = merged
        /\ Notify({r \in Range(merged) : r.id \notin was}, was \ IdsOf(Range(merged)))
        /\ unsaid' = unsaid \cup Untold("refilled", {r \in Range(merged) :
                       \E s \in Range(screen) : s.id = r.id /\ ~Alike(s, r)})

\* replaceMessage: of the rows that go the patch names the one replaced.
ReplaceMessage(replaced, next) ==
    LET kept == Selected(screen, {r \in Range(screen) : /\ r.id \notin {replaced, next.id}
                                                        /\ r.msg # next.msg})
    IN  /\ screen' = Sorted(Append(kept, next))
        /\ Notify({next}, IF replaced # next.id THEN {replaced} ELSE {})
        /\ UNCHANGED unsaid

RemoveMessage(id) ==
    /\ id \in IdsOf(Range(screen))
    /\ screen' = Selected(screen, {r \in Range(screen) : r.id # id})
    /\ Notify({}, {id})
    /\ UNCHANGED unsaid

(* ---------------------------- its callers ---------------------------- *)

DiskKeeps(r) == onDisk' = {s \in onDisk : s.msg # r.msg /\ s.id # r.id} \cup {r}

\* sendTextMessage shows the message before the database has it.
SendEcho ==
    /\ count.posts < MaxShown /\ count.ids < MaxRowIds
    /\ count' = [count EXCEPT !.posts = @ + 1, !.ids = @ + 1]
    /\ LET echo == [id |-> count'.ids, msg |-> count'.posts, face |-> 0, seq |-> 0,
                    sent |-> FALSE]
       IN  Upsert(<<echo>>) /\ saving' = Append(saving, echo)
    /\ UNCHANGED onDisk

\* The transaction gives it its place, and it is published once more.
EchoSaved ==
    /\ saving # <<>> /\ saving' = Tail(saving)
    /\ count' = [count EXCEPT !.seqs = @ + 1]
    /\ LET saved == [Head(saving) EXCEPT !.seq = count'.seqs]
       IN  Upsert(<<saved>>) /\ DiskKeeps(saved)

EchoFails ==
    /\ saving # <<>> /\ saving' = Tail(saving)
    /\ RemoveMessage(Head(saving).id)
    /\ UNCHANGED <<onDisk, count>>

\* The ack, of an inline send or the engine's, or of a page that holds it.
AckArrives ==
    /\ \E p \in onDisk :
          /\ ~p.sent
          /\ LET acked == [p EXCEPT !.sent = TRUE]
             IN  ReplaceMessage(p.id, acked) /\ DiskKeeps(acked)
    /\ UNCHANGED <<saving, count>>

\* discardOutbox, which takes the message with it.
DiscardPending ==
    /\ \E p \in onDisk : ~p.sent /\ RemoveMessage(p.id) /\ onDisk' = onDisk \ {p}
    /\ UNCHANGED <<saving, count>>

\* absorbPushIntoCache: a message, or a revocation, merged with the row there is.
PushArrives(face) ==
    /\ UNCHANGED saving
    /\ \E m \in 1..MaxShown :
        LET known == {r \in Range(screen) : r.msg = m}
            old   == CHOOSE r \in known : TRUE
        IN  /\ m <= count.posts + 1
            /\ IF known # {}
               THEN LET r == [old EXCEPT !.sent = TRUE, !.face = IF face = 1 THEN 1 ELSE @]
                    IN  Upsert(<<r>>) /\ DiskKeeps(r) /\ UNCHANGED count
               ELSE LET r == [id |-> count.ids + 1, msg |-> m, face |-> face, seq |-> 0,
                              sent |-> TRUE]
                    IN  /\ count.ids < MaxRowIds
                        /\ \A d \in Range(saving) \cup onDisk : d.msg = m => d.sent
                        /\ count' = [count EXCEPT !.ids = @ + 1,
                                                  !.posts = IF m > @ THEN m ELSE @]
                        /\ Upsert(<<r>>)
                        /\ IF \E d \in onDisk : d.msg = m THEN UNCHANGED onDisk
                           ELSE DiskKeeps(r)

\* Rows of the messages from..to as the server has them, with ids of their own.
Fetched(from, to) ==
    [i \in 1..(to - from + 1) |-> [id |-> count.ids + i, msg |-> from + i - 1, face |-> 0,
                                   seq |-> 0, sent |-> TRUE]]

AnswerOf(from, to) ==
    /\ from <= to /\ to <= count.posts
    /\ \A r \in Range(screen) \cup Range(saving) \cup onDisk : r.msg \in from..to => r.sent
    /\ count.ids + (to - from + 1) <= MaxRowIds
    /\ count' = [count EXCEPT !.ids = @ + (to - from + 1)]

\* openConversation shows what the database has, then what the server answers.
OpenCached ==
    /\ onDisk # {}
    /\ RefillWindow(SetToSeq(onDisk))
    /\ UNCHANGED <<onDisk, saving, count>>

OpenAnswer ==
    /\ \E from, to \in 1..MaxShown : AnswerOf(from, to) /\ RefillWindow(Fetched(from, to))
    /\ UNCHANGED <<onDisk, saving>>

\* scrollHistory and jumpToMessageContext.
ScrollAnswer ==
    /\ \E from, to \in 1..MaxShown : AnswerOf(from, to) /\ Upsert(Fetched(from, to))
    /\ UNCHANGED <<onDisk, saving>>

\* clearBuffer, of a resync; the database loses what is not pending with it.
ResyncClears ==
    /\ screen # <<>>
    /\ screen' = <<>>
    /\ Notify({}, IdsOf(Range(screen)))
    /\ onDisk' = {r \in onDisk : ~r.sent}
    /\ UNCHANGED <<saving, unsaid, count>>

\* clear, when the database turns out to be another account's: nobody is told.
OwnerChanges ==
    /\ screen' = <<>> /\ onDisk' = {}
    /\ unsaid' = unsaid \cup Untold("cleared", Range(screen))
    /\ UNCHANGED <<saving, view, count>>

\* A host that subscribes takes the buffer as it is.
ObserverJoins ==
    /\ view' = Range(screen) /\ unsaid' = {}
    /\ UNCHANGED <<screen, onDisk, saving, count>>

FeedReloads ==
    /\ screen' = <<>> /\ saving' = <<>> /\ view' = {} /\ unsaid' = {}
    /\ UNCHANGED <<onDisk, count>>

ConversationNext ==
    \/ SendEcho \/ EchoSaved \/ EchoFails \/ AckArrives \/ DiscardPending
    \/ \E face \in {0, 1} : PushArrives(face)
    \/ OpenCached \/ OpenAnswer \/ ScrollAnswer
    \/ ResyncClears \/ OwnerChanges \/ ObserverJoins \/ FeedReloads

ConversationSpec == ConversationInit /\ [][ConversationNext]_conversationVars

(* ----------------------------- properties ----------------------------- *)

\* An observer that applies every patch shows the buffer, as long as no row
\* went unnamed (an absorbed duplicate, a buffer of another account) and no
\* window changed a row it kept; and whatever came in, the buffer shows a
\* message once.
PatchesTell ==
    /\ unsaid = {} => {[r EXCEPT !.seq = 0] : r \in Range(screen)}
                        = {[v EXCEPT !.seq = 0] : v \in view}
    /\ \A i, j \in 1..Len(screen) : i # j => screen[i].msg # screen[j].msg

\* A patch has the "ids removed from the buffer" (cache/types.ts:494), and with
\* upserted gives "incremental UI hints" (README.md:300): who applies them
\* shows no message twice.
PatchesSuffice == \A v, w \in view : v.msg = w.msg => v = w

\* client.ts:1898 publishes the place the database gave lest "two consecutive
\* sends would render in an order the database disagrees with".
PendingAsStored ==
    \A i, j \in 1..Len(screen) :
        \A p, q \in onDisk :
            (/\ i < j /\ ~screen[i].sent /\ ~screen[j].sent
             /\ p.id = screen[i].id /\ q.id = screen[j].id) => p.seq < q.seq
===============================================================================
