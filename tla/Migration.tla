------------------------------- MODULE Migration -------------------------------
(***************************************************************************)
(* The upgrades of a cache database that move the messages under their     *)
(* stable id (src/cache/idb-schema.ts, versions 11 to 13): commands are    *)
(* linked to the message they deliver, the rows move to messages_v2 one by *)
(* one, and every command is checked against where its row went.  The      *)
(* upgrades are one transaction: a crash is as if they had not begun.      *)
(*                                                                         *)
(* Rows keep the number they have in `old` as their id, which version 10   *)
(* minted; command c is rebuilt, if it must be, as the row LastRow + c.    *)
(* Names ending in _Slip are deliberate errors nothing uses: see README.   *)
(***************************************************************************)
EXTENDS Naturals, FiniteSets

CONSTANTS
    LastRow,        \* rows of the old store
    LastCommand,    \* commands of the outbox
    LastSmid        \* network ids in use

ASSUME MigrationAssumption == {LastRow, LastCommand, LastSmid} \subseteq Nat

Rows     == 1..LastRow
Commands == 1..LastCommand
Rebuilt  == {LastRow + c : c \in Commands}
Channels == 1..2

VARIABLES
    old,        \* the old store
    sendRows,   \* the commands
    stage,      \* the upgrade under way
    work,       \* rows still to move, then commands still to check
    v2,         \* ids in messages_v2
    holder,     \* which row holds each network id, 0 for none
    redirect,   \* row -> the row that replaced it, 0 for none
    quarantine  \* rows set aside

migrationVars == <<old, sendRows, stage, work, v2, holder, redirect, quarantine>>

\* key: record_key is "s:" and the network id, "l:" and the local id, or neither.
LegacyMessage ==
    {r \in [channel : Channels, smid : 0..LastSmid, lmid : 0..LastCommand, pts : BOOLEAN,
            key : {"s", "l", "card"}] :
        /\ r.key = "s" => r.smid # 0
        /\ r.key = "l" => r.lmid # 0
        /\ r.key = "card" => r.smid = 0 /\ r.lmid = 0
        /\ r.pts => r.smid # 0}

RecordKey(r) == <<r.channel, r.key, IF r.key = "s" THEN r.smid ELSE r.lmid>>

\* link: message_id, 0 for none, perhaps of a row of another send or of none.
LegacyCommand ==
    [channel : Channels, link : 0..LastRow, key : {"l", "none"}, rebuildable : BOOLEAN,
     broken : {FALSE}]

MigrationTypeOK ==
    /\ stage \in {"link", "move", "check", "done"}
    /\ v2 \subseteq Rows \cup Rebuilt /\ quarantine \subseteq Rows
    /\ holder \in [1..LastSmid -> 0..LastRow] /\ redirect \in [Rows -> 0..LastRow]
    /\ \A c \in Commands : sendRows[c].link \in 0..(LastRow + LastCommand)

MigrationInit ==
    /\ old \in [Rows -> LegacyMessage]
    /\ \A i, j \in Rows : i # j /\ old[i].key # "card" => RecordKey(old[i]) # RecordKey(old[j])
    /\ sendRows \in [Commands -> LegacyCommand]
    /\ stage = "link" /\ work = {}
    /\ v2 = {} /\ quarantine = {}
    /\ holder = [s \in 1..LastSmid |-> 0] /\ redirect = [i \in Rows |-> 0]

-----------------------------------------------------------------------------
\* A command may only point at the message of its own send.
Owns(r, c) == r.channel = sendRows[c].channel /\ r.lmid = c

\* The row the command's record_key names; a row acked since has another key.
ByKey(c) == {i \in Rows : sendRows[c].key = "l" /\ Owns(old[i], c) /\ old[i].key = "l"}

ByLocal(c) == {i \in Rows : Owns(old[i], c)}

\* Version 11: a link is kept if it is true, and derived if there is another.
Linked(c) ==
    LET named == {i \in Rows : i = sendRows[c].link /\ Owns(old[i], c)}
    IN  IF named # {} THEN named
        ELSE IF ByKey(c) # {} THEN ByKey(c)
        ELSE IF ByLocal(c) # {} THEN ByLocal(c) ELSE {0}

LinkCommands ==
    /\ stage = "link" /\ stage' = "move"
    /\ \E links \in [Commands -> 0..LastRow] :
        /\ \A c \in Commands : links[c] \in Linked(c)
        /\ sendRows' = [c \in Commands |-> [sendRows[c] EXCEPT !.link = links[c]]]
    /\ work' = Rows
    /\ UNCHANGED <<old, v2, holder, redirect, quarantine>>

-----------------------------------------------------------------------------
(* Version 12: the rows.                                                   *)

\* A conversation goes in the order of pts, or of network ids when a confirmed
\* row of it has no pts, pending rows last.  Both orders follow the server.
Rank(r) == IF r.smid = 0 THEN LastSmid + 1 ELSE r.smid

Completeness(r) == (IF r.pts THEN 2 ELSE 0) + (IF r.lmid # 0 THEN 1 ELSE 0)

Hold(i) == holder' = [holder EXCEPT ![old[i].smid] = i]

\* The more complete of two copies stays, beside the other.
Replace_Slip(i, held) ==
    /\ v2' = v2 \cup {i}
    /\ redirect' = [redirect EXCEPT ![held] = i]
    /\ Hold(i)

Replace(i, held) ==
    /\ v2' = (v2 \ {held}) \cup {i}
    /\ redirect' = [redirect EXCEPT ![held] = i]
    /\ Hold(i)

GiveWay(i, held) == redirect' = [redirect EXCEPT ![i] = held] /\ UNCHANGED <<v2, holder>>

\* A copy of another conversation goes the way of a copy of the same.
Clash_Slip(i, held) ==
    /\ IF Completeness(old[i]) > Completeness(old[held]) THEN Replace(i, held) ELSE GiveWay(i, held)
    /\ UNCHANGED quarantine

\* Two rows claim one network id: copies of one message, of which the more
\* complete is kept, or messages of two conversations, of which the second is
\* set aside.
Clash(i, held) ==
    IF old[held].channel = old[i].channel
    THEN /\ IF Completeness(old[i]) > Completeness(old[held])
            THEN Replace(i, held) ELSE GiveWay(i, held)
         /\ UNCHANGED quarantine
    ELSE /\ quarantine' = quarantine \cup {i}
         /\ GiveWay(i, held)

MoveRow(i) ==
    /\ stage = "move" /\ i \in work
    /\ \A j \in work : old[j].channel = old[i].channel => Rank(old[i]) <= Rank(old[j])
    /\ work' = work \ {i}
    /\ IF old[i].smid = 0
       THEN v2' = v2 \cup {i} /\ UNCHANGED <<holder, redirect, quarantine>>
       ELSE IF holder[old[i].smid] = 0
       THEN v2' = v2 \cup {i} /\ Hold(i) /\ UNCHANGED <<redirect, quarantine>>
       ELSE Clash(i, holder[old[i].smid])
    /\ UNCHANGED <<old, sendRows, stage>>

RowsMoved ==
    /\ stage = "move" /\ work = {}
    /\ stage' = "check" /\ work' = Commands
    /\ UNCHANGED <<old, sendRows, v2, holder, redirect, quarantine>>

-----------------------------------------------------------------------------
(* Version 12: the commands.                                               *)

\* One hop.
Target(link) == IF link \in Rows /\ redirect[link] # 0 THEN redirect[link] ELSE link

Kept(c, ids) == {i \in ids \cap v2 : Owns(old[i], c)}

\* A link is followed, whatever it points at.
Found_Slip(c) ==
    IF sendRows[c].link # 0 THEN {Target(sendRows[c].link)} ELSE Kept(c, Rows)

\* The link followed, the row of record_key, the row of the send.
Found(c) ==
    LET named == Kept(c, {Target(sendRows[c].link)})
        byKey == Kept(c, ByKey(c))
    IN  IF named # {} THEN named ELSE IF byKey # {} THEN byKey ELSE Kept(c, Rows)

CheckCommand(c) ==
    /\ stage = "check" /\ c \in work
    /\ \A d \in work : c <= d
    /\ work' = work \ {c}
    /\ \/ \E i \in Found(c) :
            /\ sendRows' = [sendRows EXCEPT ![c].link = i]
            /\ UNCHANGED v2
       \/ /\ Found(c) = {} /\ sendRows[c].rebuildable
          /\ v2' = v2 \cup {LastRow + c}
          /\ sendRows' = [sendRows EXCEPT ![c].link = LastRow + c]
       \/ /\ Found(c) = {} /\ ~sendRows[c].rebuildable
          /\ sendRows' = [sendRows EXCEPT ![c].link = 0, ![c].broken = TRUE]
          /\ UNCHANGED v2
    /\ UNCHANGED <<old, stage, holder, redirect, quarantine>>

\* Version 13 drops the old store.
UpgradeDone ==
    /\ stage = "check" /\ work = {} /\ stage' = "done"
    /\ UNCHANGED <<old, sendRows, work, v2, holder, redirect, quarantine>>

MigrationNext ==
    \/ LinkCommands \/ RowsMoved \/ UpgradeDone
    \/ \E i \in Rows : MoveRow(i)
    \/ \E c \in Commands : CheckCommand(c)

MigrationSpec == MigrationInit /\ [][MigrationNext]_migrationVars

-----------------------------------------------------------------------------
(***************************************************************************)
(* Every command comes out of the upgrade linked to a row of its own send  *)
(* that exists, or marked as unrecoverable: a command with neither is      *)
(* damaged data on every flush, and a wrong link lets an ack rewrite       *)
(* another message.                                                        *)
(***************************************************************************)
CommandsResolved ==
    stage = "done" =>
        \A c \in Commands :
            IF sendRows[c].broken THEN sendRows[c].link = 0
            ELSE /\ sendRows[c].link \in v2
                 /\ sendRows[c].link = LastRow + c \/ Owns(old[sendRows[c].link], c)

(***************************************************************************)
(* No row of the old store is lost: it moves, or a copy of the same        *)
(* message in the same conversation is there, or it is set aside.          *)
(***************************************************************************)
NoMessageLost ==
    stage = "done" =>
        \A i \in Rows :
            \/ i \in v2 \cup quarantine
            \/ old[i].smid # 0 /\ \E j \in v2 \cap Rows :
                    old[j].smid = old[i].smid /\ old[j].channel = old[i].channel

(***************************************************************************)
(* At no point do two rows of the new store hold one network id: the       *)
(* unique index would abort the upgrade and the database could not be      *)
(* opened.                                                                 *)
(***************************************************************************)
UpgradeNeverAborts ==
    \A i, j \in v2 \cap Rows : i # j /\ old[i].smid # 0 => old[i].smid # old[j].smid
=============================================================================
