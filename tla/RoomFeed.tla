------------------------------- MODULE RoomFeed -------------------------------
(***************************************************************************)
(* Subscriptions and the broadcasts they bring: subscribe, the replay of   *)
(* activeSubscriptions after a reconnect, and handlePublishRequest with    *)
(* its window against repeats, all of src/client.ts.                       *)
(*                                                                         *)
(* The link keeps the order of requests and of answers.  The server        *)
(* answers a request to subscribe, if it grants it, with the posts of the  *)
(* room so far, which overlap what it sent before, and sends each new post *)
(* to who is subscribed.  A new link starts without subscriptions.         *)
(* Names ending in _Slip are deliberate errors nothing uses: see README.   *)
(***************************************************************************)
EXTENDS Naturals, Sequences, FiniteSets, Functions

CONSTANTS
    Rooms,
    RoomWindow,     \* ROOM_DEDUP_WINDOW, 256 in the code
    MaxPosts,       \* bound: posts of all rooms together
    MaxCalls,       \* bound: calls
    MaxLinks        \* bound: links

ASSUME RoomAssumption == {RoomWindow, MaxPosts, MaxCalls, MaxLinks} \subseteq Nat \ {0}

VARIABLES
    active,     \* activeSubscriptions
    granted,    \* server: the rooms this link is subscribed to
    wish,       \* history: the rooms the caller's last answered calls leave it in
    asks,       \* requests on their way, each with who asked
    answers,    \* answers on their way
    replaying,  \* the rooms the replay has still to visit, and whether it runs
    links,      \* links and calls so far, and whether the last link is up
    posts,      \* server: the posts of each room
    frames,     \* frames on their way
    window,     \* roomSeenOrder; roomSeenMsgIds is its range
    heard,      \* per room, the posts emitted as channel_publish_received
    upsets      \* history: a refused replay, and one that crossed a call

roomVars == <<active, granted, wish, asks, answers, replaying, links, posts, frames,
              window, heard, upsets>>

Ask      == [room : Rooms, join : BOOLEAN, by : {"caller", "replay"}]
Posted   == Cardinality({p \in Rooms \X (1..MaxPosts) : p[2] <= posts[p[1]]})
NoReplay == [on |-> FALSE, left |-> {}]

RoomTypeOK ==
    /\ active \subseteq Rooms /\ granted \subseteq Rooms /\ wish \subseteq Rooms
    /\ Range(asks) \subseteq Ask
    /\ \A i \in 1..Len(answers) : answers[i].ask \in Ask /\ answers[i].ok \in BOOLEAN
    /\ replaying.on \in BOOLEAN /\ replaying.left \subseteq Rooms
    /\ links.up \in BOOLEAN /\ links.n \in 1..MaxLinks /\ links.calls \in 0..MaxCalls
    /\ \A r \in Rooms : /\ posts[r] \in 0..MaxPosts
                        /\ Range(window[r]) \subseteq 1..MaxPosts
                        /\ Len(window[r]) <= RoomWindow
                        /\ Range(heard[r]) \subseteq 1..MaxPosts
    /\ upsets \subseteq {"refused", "crossed"}

RoomInit ==
    /\ active = {} /\ granted = {} /\ wish = {}
    /\ asks = <<>> /\ answers = <<>> /\ frames = <<>>
    /\ replaying = NoReplay
    /\ links = [n |-> 1, up |-> TRUE, calls |-> 0]
    /\ posts = [r \in Rooms |-> 0]
    /\ window = [r \in Rooms |-> <<>>] /\ heard = [r \in Rooms |-> <<>>]
    /\ upsets = {}

(* --------------------------- subscriptions --------------------------- *)

\* subscribeChannel and unsubscribeChannel: one request, tracked by its answer.
CallSubscribe(r, join) ==
    /\ links.up /\ links.calls < MaxCalls
    /\ asks' = Append(asks, [room |-> r, join |-> join, by |-> "caller"])
    /\ links' = [links EXCEPT !.calls = @ + 1]
    /\ UNCHANGED <<active, granted, wish, answers, replaying, posts, frames,
                   window, heard, upsets>>

\* The server grants or refuses, and replays the room to who joins it.
ServerAnswers ==
    /\ asks # <<>>
    /\ LET q == Head(asks)
       IN  \E ok \in BOOLEAN :
            /\ answers' = Append(answers, [ask |-> q, ok |-> ok])
            /\ granted' = IF ~ok THEN granted
                          ELSE IF q.join THEN granted \cup {q.room} ELSE granted \ {q.room}
            /\ frames' = frames \o IF ok /\ q.join
                                   THEN [i \in 1..posts[q.room] |-> [room |-> q.room, id |-> i]]
                                   ELSE <<>>
            /\ upsets' = upsets \cup IF ~ok /\ q.by = "replay" THEN {"refused"} ELSE {}
    /\ asks' = Tail(asks)
    /\ UNCHANGED <<active, wish, replaying, links, posts, window, heard>>

Tracked_Slip(q, ok) ==
    IF q.join THEN active \cup {q.room} ELSE active \ {q.room}

\* What a granted request leaves in activeSubscriptions.
Tracked(q, ok) ==
    IF ~ok THEN active
    ELSE IF q.join THEN active \cup {q.room} ELSE active \ {q.room}

Answered ==
    /\ answers # <<>>
    /\ LET a == Head(answers)
       IN  /\ active' = Tracked(a.ask, a.ok)
           /\ wish' = IF ~a.ok \/ a.ask.by = "replay" THEN wish
                      ELSE IF a.ask.join THEN wish \cup {a.ask.room}
                      ELSE wish \ {a.ask.room}
           /\ replaying' = IF replaying.on /\ active' \ active # {}
                           THEN [replaying EXCEPT !.left = @ \cup {a.ask.room}] ELSE replaying
    /\ answers' = Tail(answers)
    /\ UNCHANGED <<granted, asks, links, posts, frames, window, heard, upsets>>

\* The replay walks the map, one answer at a time.  The walk sees what was
\* removed before it gets there, and what was added.
WaitsForReplay ==
    \/ \E i \in 1..Len(asks) : asks[i].by = "replay"
    \/ \E i \in 1..Len(answers) : answers[i].ask.by = "replay"

ReplayNext(r) ==
    /\ replaying.on /\ ~WaitsForReplay
    /\ r \in replaying.left \cap active
    /\ asks' = Append(asks, [room |-> r, join |-> TRUE, by |-> "replay"])
    /\ replaying' = [replaying EXCEPT !.left = @ \ {r}]
    /\ upsets' = upsets \cup
           IF \/ \E i \in 1..Len(asks) : asks[i].room = r
              \/ \E i \in 1..Len(answers) : answers[i].ask.room = r
           THEN {"crossed"} ELSE {}
    /\ UNCHANGED <<active, granted, wish, answers, links, posts, frames, window, heard>>

ReplayDone ==
    /\ replaying.on /\ ~WaitsForReplay /\ replaying.left \cap active = {}
    /\ replaying' = NoReplay
    /\ UNCHANGED <<active, granted, wish, asks, answers, links, posts, frames, window,
                   heard, upsets>>

\* The link drops: what is under way rejects.  disconnect() forgets the rooms.
LinkDrops ==
    /\ links.up
    /\ \E bye \in BOOLEAN : /\ active' = IF bye THEN {} ELSE active
                            /\ wish' = IF bye THEN {} ELSE wish
    /\ links' = [links EXCEPT !.up = FALSE]
    /\ granted' = {} /\ asks' = <<>> /\ answers' = <<>> /\ frames' = <<>>
    /\ replaying' = NoReplay
    /\ UNCHANGED <<posts, window, heard, upsets>>

\* attemptReconnect, authenticated again, starts the replay.
LinkReturns ==
    /\ ~links.up /\ links.n < MaxLinks
    /\ links' = [links EXCEPT !.n = @ + 1, !.up = TRUE]
    /\ replaying' = [on |-> TRUE, left |-> Rooms]
    /\ UNCHANGED <<active, granted, wish, asks, answers, posts, frames, window, heard, upsets>>

(* --------------------------- broadcasts --------------------------- *)

RoomPost(r) ==
    /\ Posted < MaxPosts
    /\ posts' = [posts EXCEPT ![r] = @ + 1]
    /\ frames' = IF r \in granted THEN Append(frames, [room |-> r, id |-> posts[r] + 1])
                 ELSE frames
    /\ UNCHANGED <<active, granted, wish, asks, answers, replaying, links, window, heard,
                   upsets>>

\* The window keeps the last RoomWindow posts it let through, first in first out.
Windowed(order, id) ==
    LET longer == Append(order, id)
    IN  IF Len(longer) > RoomWindow THEN Tail(longer) ELSE longer

IsDuplicate_Slip(r, id) == window[r] # <<>> /\ id < window[r][Len(window[r])]

\* isDuplicateRoomMessage; a frame without an id is never one.
IsDuplicate(r, id) == id \in Range(window[r])

\* handlePublishRequest; typing and presence pass through without a trace.
FrameArrives ==
    /\ frames # <<>>
    /\ LET f == Head(frames)
       IN  IF IsDuplicate(f.room, f.id) THEN UNCHANGED <<window, heard>>
           ELSE /\ window' = [window EXCEPT ![f.room] = Windowed(@, f.id)]
                /\ heard' = [heard EXCEPT ![f.room] = Append(@, f.id)]
    /\ frames' = Tail(frames)
    /\ UNCHANGED <<active, granted, wish, asks, answers, replaying, links, posts, upsets>>

RoomNext ==
    \/ \E r \in Rooms : \/ \E join \in BOOLEAN : CallSubscribe(r, join)
                        \/ ReplayNext(r) \/ RoomPost(r)
    \/ ServerAnswers \/ Answered \/ ReplayDone \/ LinkDrops \/ LinkReturns \/ FrameArrives

RoomSpec == RoomInit /\ [][RoomNext]_roomVars

(* ----------------------------- properties ----------------------------- *)

RoomIdle == links.up /\ asks = <<>> /\ answers = <<>> /\ ~replaying.on

\* Once a link has settled, the rooms the next replay and the next sync will
\* visit are those the server serves and those the caller was told it is in,
\* unless the server refused the replay or the replay crossed a call.
RoomsAgree ==
    RoomIdle /\ upsets = {} => active = granted /\ active = wish

\* Who settled in a room misses no post of it and hears none twice, except
\* that a post the window has let go may come again with a replay
\* (client.ts:805 to 808).
RoomHeard ==
    \A r \in Rooms :
        /\ \A i, j \in 1..Len(heard[r]) :
              i < j /\ heard[r][i] = heard[r][j] => j - i > RoomWindow
        /\ links.up /\ r \in granted /\ frames = <<>> => 1..posts[r] \subseteq Range(heard[r])
===============================================================================
