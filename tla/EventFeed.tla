------------------------------ MODULE EventFeed ------------------------------
(***************************************************************************)
(* The event bus of src/events.ts and what handleIncoming of src/client.ts *)
(* puts on it.                                                             *)
(*                                                                         *)
(* emit numbers an event, keeps the last HistoryLimit of them and calls a  *)
(* copy of the list of listeners, all in one synchronous run.  A listener  *)
(* may itself make the client emit, subscribe or unsubscribe: the calls    *)
(* under way are a stack.  A poller lives on eventsSince alone, from the   *)
(* number it saw last.                                                     *)
(* Names ending in _Slip are deliberate errors nothing uses: see README.   *)
(***************************************************************************)
EXTENDS Integers, Sequences, FiniteSets

CONSTANTS
    Listeners,
    HistoryLimit,   \* 1024 in the code unless configured
    MaxEvents       \* bound: events

ASSUME FeedAssumption == {HistoryLimit, MaxEvents} \subseteq Nat \ {0}

VARIABLES
    authed,     \* whether the client is authenticated
    inbox,      \* the packet at hand, "" for none, and the pushes of it still to emit
    acked,      \* whether it was answered before anything was done with it
    emitted,    \* nextSequenceId
    past,       \* history
    list,       \* listeners, in the order they subscribed
    stack,      \* the calls of emit under way: the event and who is still to hear it
    joined,     \* history: per listener, the events it was to hear
    listened,   \* history: per listener, the events it heard, in order
    seen        \* the poller: the last number it saw and the events it missed

feedVars == <<authed, inbox, acked, emitted, past, list, stack, joined, listened, seen>>

\* What arrives: requests want an answer; notifications and transfers are
\* taken only from an authenticated link and within their bounds.
Packets == [kind : {"push", "batch", "notification", "transfer", "pong", "publish", "unknown"},
            request : BOOLEAN, sound : BOOLEAN]
Empty == [kind |-> "", request |-> FALSE, sound |-> FALSE]
Heard(seq) == {seq[i] : i \in 1..Len(seq)}

FeedTypeOK ==
    /\ authed \in BOOLEAN /\ acked \in BOOLEAN
    /\ inbox \in Packets \cup {Empty}
    /\ emitted \in 0..MaxEvents
    /\ Heard(past) \subseteq 1..MaxEvents /\ Len(past) <= HistoryLimit
    /\ Heard(list) \subseteq Listeners
    /\ \A i \in 1..Len(stack) : /\ stack[i].event \in 1..MaxEvents
                                /\ Heard(stack[i].rest) \subseteq Listeners
    /\ \A l \in Listeners : Heard(listened[l]) \subseteq joined[l]
    /\ seen.upto \in 0..MaxEvents /\ seen.missed \subseteq 1..MaxEvents

FeedInit ==
    /\ authed = FALSE /\ inbox = Empty /\ acked = FALSE
    /\ emitted = 0 /\ past = <<>> /\ list = <<>> /\ stack = <<>>
    /\ joined = [l \in Listeners |-> {}] /\ listened = [l \in Listeners |-> <<>>]
    /\ seen = [upto |-> 0, missed |-> {}]

(* -------------------------------- emit -------------------------------- *)

\* Trimmed by the length it had before the event.
Remembered_Slip(events, e) ==
    IF Len(events) > HistoryLimit THEN Append(Tail(events), e) ELSE Append(events, e)

\* The history after one more event.
Remembered(events, e) ==
    LET more == Append(events, e)
    IN  IF Len(more) > HistoryLimit THEN Tail(more) ELSE more

\* The first listener is left out.
Audience_Slip == IF list = <<>> THEN list ELSE Tail(list)

\* The listeners an event is for: a copy, whatever they do to the list.
Audience == list

Emit ==
    /\ emitted < MaxEvents
    /\ emitted' = emitted + 1
    /\ past' = Remembered(past, emitted + 1)
    /\ stack' = Append(stack, [event |-> emitted + 1, rest |-> Audience])
    /\ joined' = [l \in Listeners |-> joined[l] \cup IF l \in Heard(list) THEN {emitted + 1}
                                                     ELSE {}]

Top == stack[Len(stack)]

\* The next listener of the innermost emit hears its event; an error it
\* throws is swallowed.  What it does in return are the actions below.
Tell ==
    /\ stack # <<>> /\ Top.rest # <<>>
    /\ listened' = [listened EXCEPT ![Head(Top.rest)] = Append(@, Top.event)]
    /\ stack' = [stack EXCEPT ![Len(stack)].rest = Tail(@)]
    /\ UNCHANGED <<authed, inbox, acked, emitted, past, list, joined, seen>>

EmitReturns ==
    /\ stack # <<>> /\ Top.rest = <<>>
    /\ stack' = SubSeq(stack, 1, Len(stack) - 1)
    /\ UNCHANGED <<authed, inbox, acked, emitted, past, list, joined, listened, seen>>

\* The client emits of its own, between packets or inside a listener.
ClientEmits ==
    /\ inbox = Empty \/ stack # <<>>
    /\ Emit
    /\ authed' \in BOOLEAN
    /\ UNCHANGED <<inbox, acked, list, listened, seen>>

Subscribes(l) ==
    /\ inbox = Empty \/ stack # <<>>
    /\ l \notin Heard(list) /\ joined[l] = {}
    /\ list' = Append(list, l)
    /\ UNCHANGED <<authed, inbox, acked, emitted, past, stack, joined, listened, seen>>

\* indexOf and splice.
Unsubscribes(l) ==
    /\ inbox = Empty \/ stack # <<>>
    /\ \E i \in 1..Len(list) :
          /\ list[i] = l /\ \A j \in 1..(i - 1) : list[j] # l
          /\ list' = SubSeq(list, 1, i - 1) \o SubSeq(list, i + 1, Len(list))
    /\ UNCHANGED <<authed, inbox, acked, emitted, past, stack, joined, listened, seen>>

(* --------------------------- handleIncoming --------------------------- *)

\* A push that wants an answer is answered before it is decoded.
PacketArrives(p) ==
    /\ inbox = Empty /\ stack = <<>> /\ emitted < MaxEvents
    /\ inbox' = p
    /\ acked' = (p.request /\ p.kind \in {"push", "batch"})
    /\ UNCHANGED <<authed, emitted, past, list, stack, joined, listened, seen>>

\* Whether a packet becomes an event: the fences of handleIncoming, and for a
\* push that it carries neither a read cursor nor an invalidation.
Dispatched(p) ==
    CASE p.kind \in {"notification", "transfer"} -> ~p.request /\ authed /\ p.sound
      [] p.kind \in {"push", "publish"}          -> p.sound
      [] p.kind \in {"batch", "pong"}            -> TRUE
      [] OTHER                                   -> FALSE

PacketHandled ==
    /\ inbox # Empty /\ stack = <<>>
    /\ IF Dispatched(inbox) THEN Emit ELSE UNCHANGED <<emitted, past, stack, joined>>
    /\ inbox' = Empty /\ acked' = FALSE
    /\ UNCHANGED <<authed, list, listened, seen>>

(* ------------------------------ a poller ------------------------------ *)

\* eventsSince(from, limit), oldest first.  The history is in the order of the
\* numbers (PollerMissesOverrunOnly): what is not later than `from` comes first.
EventsSince(from, limit) ==
    LET known == Cardinality({i \in 1..Len(past) : past[i] <= from})
        last  == IF known + limit < Len(past) THEN known + limit ELSE Len(past)
    IN  SubSeq(past, known + 1, last)

\* The poller moves to the last event of the answer and misses what it did
\* not hold.
PollsEvents(limit) ==
    LET got == EventsSince(seen.upto, limit)
    IN  /\ stack = <<>> /\ got # <<>>
        /\ seen' = [upto   |-> got[Len(got)],
                    missed |-> seen.missed \cup ((seen.upto + 1)..got[Len(got)] \ Heard(got))]
        /\ UNCHANGED <<authed, inbox, acked, emitted, past, list, stack, joined, listened>>

FeedNext ==
    \/ Tell \/ EmitReturns \/ ClientEmits \/ PacketHandled
    \/ \E l \in Listeners : Subscribes(l) \/ Unsubscribes(l)
    \/ \E p \in Packets : PacketArrives(p)
    \/ \E limit \in 1..2 : PollsEvents(limit)

FeedSpec == FeedInit /\ [][FeedNext]_feedVars

(* ----------------------------- properties ----------------------------- *)

\* Once no emit is under way, every listener has heard exactly once each event
\* emitted while it was subscribed, whatever listeners emitted, subscribed
\* and unsubscribed in between.  The order is not promised: an event emitted
\* by a listener reaches the listeners after it first.
EachHearsAll ==
    stack = <<>> => \A l \in Listeners : /\ Heard(listened[l]) = joined[l]
                                         /\ Len(listened[l]) = Cardinality(joined[l])

\* A poller misses an event only when it fell behind by the whole history, and
\* it can tell: what it was given then does not begin at the next number
\* (events.ts:5, client.ts:3363).
PollerMissesOverrunOnly ==
    /\ \A e \in seen.missed : \E f \in 1..emitted : f >= e + HistoryLimit
    /\ past = [i \in 1..Len(past) |-> emitted - Len(past) + i]
    /\ Len(past) = IF emitted < HistoryLimit THEN emitted ELSE HistoryLimit
===============================================================================
