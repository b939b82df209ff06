----------------------------- MODULE PartsProofs -----------------------------
(***************************************************************************)
(* The components that share no state, for every value of their constants: *)
(* the upgrade of a cache database, whatever messages and commands it      *)
(* finds; the upload of an attachment, whatever its size; what the runtime *)
(* of a UI shows and the avatars it hands out; a message of this device in *)
(* each of its forms; and, from the lemmas of FeedProofs, messages         *)
(* received, channel records, rooms, events, the observed outbox, group    *)
(* rosters and the sweeps of friends and groups; and, from TimelineProofs, *)
(* the messages of a conversation in memory and database, and the patches  *)
(* its observer is told.                                                   *)
(***************************************************************************)
EXTENDS MCParts, FeedProofs, TimelineProofs, FiniteSetTheorems, WellFoundedInduction, TLAPS

-----------------------------------------------------------------------------
(* The upgrade of a cache database (Migration).                            *)

\* A row has moved: it is there, or a copy that says the same is, or it is set
\* aside.
Survives(i) ==
    \/ i \in v2 \cup quarantine
    \/ old[i].smid # 0 /\ \E j \in v2 \cap Rows :
            old[j].smid = old[i].smid /\ old[j].channel = old[i].channel

\* holder is the unique index of the new store: it names the row that has the
\* network id.
IndexAgrees ==
    /\ \A s \in 1..LastSmid : holder[s] # 0 => holder[s] \in v2 /\ old[holder[s]].smid = s
    /\ \A i \in v2 \cap Rows : old[i].smid # 0 => holder[old[i].smid] = i

\* What is over for a command: a row of its own, or the verdict.
Resolved(c) ==
    IF sendRows[c].broken THEN sendRows[c].link = 0
    ELSE /\ sendRows[c].link \in v2
         /\ sendRows[c].link = LastRow + c \/ Owns(old[sendRows[c].link], c)

\* How far the upgrade is.
Progress ==
    /\ stage = "link" => work = {} /\ v2 = {} /\ \A s \in 1..LastSmid : holder[s] = 0
    /\ stage = "move" => work \subseteq Rows /\ \A i \in Rows \ work : Survives(i)
    /\ stage \in {"link", "move"} => \A c \in Commands : ~sendRows[c].broken
    /\ stage = "check" => /\ \A i \in Rows : Survives(i)
                          /\ work \subseteq Commands
                          /\ \A c \in work : ~sendRows[c].broken
                          /\ \A c \in Commands \ work : Resolved(c)
    /\ stage = "done" => /\ \A i \in Rows : Survives(i)
                         /\ \A c \in Commands : Resolved(c)

OldStore ==
    /\ old \in [Rows -> LegacyMessage]
    /\ sendRows \in [Commands -> [channel : Channels, link : Nat, key : {"l", "none"},
                                  rebuildable : BOOLEAN, broken : BOOLEAN]]

MigrationSound == OldStore /\ MigrationTypeOK /\ IndexAgrees /\ Progress

LEMMA MigrationNumbers ==
    /\ LastRow \in Nat /\ LastCommand \in Nat /\ LastSmid \in Nat
    /\ \A c \in Commands : c \in Nat /\ LastRow + c \notin Rows /\ LastRow + c # 0
    /\ \A i \in Rows : i \in Nat /\ i # 0 /\ i \in 0..LastRow
BY MigrationAssumption DEF Rows, Commands

LEMMA OldRows ==
    ASSUME OldStore, NEW i \in Rows
    PROVE  old[i].smid \in 0..LastSmid /\ (old[i].smid # 0 => old[i].smid \in 1..LastSmid)
BY MigrationNumbers DEF OldStore, LegacyMessage

LEMMA MigrationStarts == MigrationInit => MigrationSound
<1> SUFFICES ASSUME MigrationInit PROVE MigrationSound
  OBVIOUS
<1>0. 0..LastRow \subseteq Nat /\ 0..LastRow \subseteq 0..(LastRow + LastCommand)
  BY MigrationNumbers
<1>1. OldStore
  <2>1. sendRows \in [Commands -> [channel : Channels, link : 0..LastRow, key : {"l", "none"},
                                   rebuildable : BOOLEAN, broken : {FALSE}]]
    BY DEF MigrationInit, LegacyCommand
  <2>2. \A c \in Commands : sendRows[c] \in [channel : Channels, link : Nat, key : {"l", "none"},
                                             rebuildable : BOOLEAN, broken : BOOLEAN]
    BY <2>1, <1>0
  <2> QED BY <2>1, <2>2 DEF MigrationInit, OldStore
<1>2. MigrationTypeOK
  <2>1. \A c \in Commands : sendRows[c].link \in 0..(LastRow + LastCommand)
    BY <1>0 DEF MigrationInit, LegacyCommand
  <2>2. holder \in [1..LastSmid -> 0..LastRow] /\ redirect \in [Rows -> 0..LastRow]
    <3>1. 0 \in 0..LastRow BY MigrationNumbers
    <3> QED BY <3>1 DEF MigrationInit
  <2>3. stage = "link" /\ v2 = {} /\ quarantine = {} BY DEF MigrationInit
  <2> QED BY <2>1, <2>2, <2>3 DEF MigrationTypeOK
<1>3. IndexAgrees BY DEF MigrationInit, IndexAgrees
<1>4. Progress BY DEF MigrationInit, Progress, LegacyCommand
<1> QED BY <1>1, <1>2, <1>3, <1>4 DEF MigrationSound

\* The derived are chosen among the rows, or none.
LEMMA LinkKeepsSound == ASSUME MigrationSound, LinkCommands PROVE MigrationSound'
<1>1. PICK derived \in [Commands -> 0..LastRow] :
        sendRows' = [c \in Commands |-> [sendRows[c] EXCEPT !.link = derived[c]]]
  BY DEF LinkCommands
<1>2. 0..LastRow \subseteq Nat /\ 0..LastRow \subseteq 0..(LastRow + LastCommand)
  BY MigrationNumbers
<1>3. \A c \in Commands :
        /\ sendRows'[c].link = derived[c] /\ derived[c] \in 0..LastRow
        /\ sendRows'[c].broken = sendRows[c].broken
        /\ sendRows'[c] \in [channel : Channels, link : Nat, key : {"l", "none"},
                             rebuildable : BOOLEAN, broken : BOOLEAN]
  BY <1>1, <1>2 DEF MigrationSound, OldStore
<1>4. stage = "link" /\ stage' = "move" /\ work' = Rows
      /\ UNCHANGED <<old, v2, holder, redirect, quarantine>>
  BY DEF LinkCommands
<1>5. OldStore' BY <1>1, <1>3, <1>4 DEF MigrationSound, OldStore
<1>6. MigrationTypeOK' BY <1>2, <1>3, <1>4 DEF MigrationSound, MigrationTypeOK
<1>7. IndexAgrees' BY <1>4 DEF MigrationSound, IndexAgrees
<1>8. Progress' BY <1>3, <1>4 DEF MigrationSound, Progress
<1> QED BY <1>5, <1>6, <1>7, <1>8 DEF MigrationSound

\* A row that moves takes its id, the place of a poorer copy, or gives way; the
\* rows that moved before still survive, perhaps in it.
LEMMA MoveKeepsSound ==
    ASSUME MigrationSound, NEW i \in Rows, MoveRow(i)
    PROVE  MigrationSound'
<1>a. OldStore /\ MigrationTypeOK /\ IndexAgrees /\ Progress BY DEF MigrationSound
<1>b. /\ stage = "move" /\ stage' = "move" /\ i \in work /\ work' = work \ {i}
      /\ UNCHANGED <<old, sendRows>>
  BY DEF MoveRow
<1>c. work \subseteq Rows /\ (\A k \in Rows \ work : Survives(k)) BY <1>a, <1>b DEF Progress
<1>d. \A k \in Rows : old[k].smid \in Nat /\ (old[k].smid # 0 => old[k].smid \in 1..LastSmid)
  BY <1>a, OldRows, MigrationNumbers
<1>e. i \in 0..LastRow /\ i # 0 BY MigrationNumbers
<1> DEFINE s == old[i].smid
           h == holder[s]
<1>f. s # 0 => s \in 1..LastSmid /\ h \in 0..LastRow BY <1>a, <1>d DEF MigrationTypeOK
<1>g. s # 0 /\ h # 0 => h \in v2 /\ h \in Rows /\ old[h].smid = s
  <2>1. s # 0 /\ h # 0 => h \in Rows BY <1>f, MigrationNumbers DEF Rows
  <2> QED BY <2>1, <1>a, <1>f DEF IndexAgrees
<1> HIDE DEF s, h
\* The four ways of a row.
<1>1. \/ /\ s = 0 /\ v2' = v2 \cup {i} /\ UNCHANGED <<holder, redirect, quarantine>>
      \/ /\ s # 0 /\ h = 0 /\ v2' = v2 \cup {i} /\ holder' = [holder EXCEPT ![s] = i]
         /\ UNCHANGED <<redirect, quarantine>>
      \/ /\ s # 0 /\ h # 0 /\ old[h].channel = old[i].channel
         /\ v2' = (v2 \ {h}) \cup {i} /\ redirect' = [redirect EXCEPT ![h] = i]
         /\ holder' = [holder EXCEPT ![s] = i] /\ quarantine' = quarantine
      \/ /\ s # 0 /\ h # 0 /\ UNCHANGED <<v2, holder>> /\ redirect' = [redirect EXCEPT ![i] = h]
         /\ \/ old[h].channel = old[i].channel /\ quarantine' = quarantine
            \/ quarantine' = quarantine \cup {i}
  <2>1. CASE s = 0 BY <2>1 DEF MoveRow, s
  <2>2. CASE s # 0 /\ h = 0 BY <2>2 DEF MoveRow, Hold, s, h
  <2>3. CASE s # 0 /\ h # 0
    <3>1. Clash(i, h) BY <2>3 DEF MoveRow, s, h
    <3>2. CASE old[h].channel = old[i].channel
      <4>1. (Replace(i, h) \/ GiveWay(i, h)) /\ quarantine' = quarantine
        BY <3>1, <3>2 DEF Clash
      <4> QED BY <2>3, <3>2, <4>1 DEF Replace, GiveWay, Hold, s
    <3>3. CASE old[h].channel # old[i].channel
      BY <2>3, <3>1, <3>3 DEF Clash, GiveWay
    <3> QED BY <3>2, <3>3
  <2> QED BY <2>1, <2>2, <2>3
<1>2. MigrationTypeOK'
  <2>1. v2 \subseteq Rows \cup Rebuilt /\ v2' \subseteq v2 \cup {i} BY <1>a, <1>1 DEF MigrationTypeOK
  <2>2. quarantine' \subseteq Rows BY <1>a, <1>1 DEF MigrationTypeOK
  <2>3. holder' \in [1..LastSmid -> 0..LastRow] BY <1>a, <1>e, <1>f, <1>1 DEF MigrationTypeOK
  <2>4. redirect' \in [Rows -> 0..LastRow] BY <1>a, <1>e, <1>f, <1>g, <1>1 DEF MigrationTypeOK
  <2> QED BY <1>a, <1>b, <2>1, <2>2, <2>3, <2>4 DEF MigrationTypeOK
<1>3. IndexAgrees'
  <2>1. ASSUME NEW t \in 1..LastSmid, holder'[t] # 0
        PROVE  holder'[t] \in v2' /\ old[holder'[t]].smid = t
    <3>1. holder[t] # 0 => holder[t] \in v2 /\ old[holder[t]].smid = t BY <1>a DEF IndexAgrees
    <3>2. CASE t = s /\ holder' = [holder EXCEPT ![s] = i]
      <4>1. holder'[t] = i BY <3>2, <1>a DEF MigrationTypeOK
      <4>2. old[i].smid = t BY <3>2 DEF s
      <4>3. CASE holder' = holder
        <5>1. s # 0 /\ h = i BY <4>1, <4>3, <3>2, <2>1 DEF h
        <5>2. i \in v2 BY <5>1, <1>e, <1>g
        <5>3. v2 \subseteq v2' BY <5>1, <5>2, <1>1
        <5> QED BY <5>2, <5>3, <4>1, <4>2
      <4>4. CASE holder' # holder BY <4>1, <4>2, <4>4, <1>1
      <4> QED BY <4>3, <4>4
    <3>3. CASE t # s \/ holder' = holder
      <4>1. holder'[t] = holder[t] BY <3>3, <1>1, <1>a DEF MigrationTypeOK
      <4>2. CASE v2 \subseteq v2' BY <3>1, <4>1, <4>2, <2>1
      <4>3. CASE ~ (v2 \subseteq v2')
        <5>1. /\ s # 0 /\ h # 0 /\ v2' = (v2 \ {h}) \cup {i}
              /\ holder' = [holder EXCEPT ![s] = i]
          BY <4>3, <1>1
        <5>2. CASE t # s
          <6>1. old[holder[t]].smid # old[h].smid BY <3>1, <4>1, <2>1, <5>1, <5>2, <1>g
          <6> QED BY <6>1, <3>1, <4>1, <2>1, <5>1
        <5>3. CASE t = s
          <6>1. holder[t] = h /\ holder'[t] = i
            BY <5>1, <5>3, <1>f, <1>a DEF MigrationTypeOK, h
          <6>2. holder'[t] = i /\ old[i].smid = t BY <6>1, <5>3 DEF s
          <6> QED BY <6>2, <5>1
        <5> QED BY <5>2, <5>3
      <4> QED BY <4>2, <4>3
    <3> QED BY <3>2, <3>3, <1>1
  <2>2. ASSUME NEW k \in v2' \cap Rows, old[k].smid # 0 PROVE holder'[old[k].smid] = k
    <3>1. k \in v2 => holder[old[k].smid] = k BY <1>a, <2>2 DEF IndexAgrees
    <3>2. old[k].smid \in 1..LastSmid BY <1>d, <2>2
    <3>3. CASE k = i
      <4>1. \/ holder' = [holder EXCEPT ![s] = i]
            \/ holder' = holder /\ k \in v2
            \/ s = 0
        BY <1>1, <2>2, <3>3 DEF s
      <4>2. s # 0 /\ s = old[k].smid BY <3>3, <2>2 DEF s
      <4>3. CASE holder' = [holder EXCEPT ![s] = i]
        BY <3>2, <3>3, <4>2, <4>3, <1>a DEF MigrationTypeOK
      <4>4. CASE holder' = holder /\ k \in v2 BY <3>1, <4>4
      <4> QED BY <4>1, <4>2, <4>3, <4>4
    <3>4. CASE k # i
      <4>1. k \in v2 BY <3>4, <2>2, <1>1
      <4>2. old[k].smid = s => k = h BY <4>1, <3>1 DEF h
      <4>3. CASE old[k].smid = s
        <5>1. k = h /\ s # 0 /\ h # 0 BY <4>2, <4>3, <2>2, MigrationNumbers
        <5>2. holder' = holder BY <5>1, <2>2, <3>4, <1>1
        <5> QED BY <5>2, <4>1, <3>1
      <4>4. CASE old[k].smid # s
        <5>1. holder'[old[k].smid] = holder[old[k].smid]
          BY <4>4, <3>2, <1>1, <1>a DEF MigrationTypeOK
        <5> QED BY <5>1, <4>1, <3>1
      <4> QED BY <4>3, <4>4
    <3> QED BY <3>3, <3>4
  <2> QED BY <1>b, <2>1, <2>2 DEF IndexAgrees
<1>4. ASSUME NEW k \in Rows \ work' PROVE Survives(k)'
  <2>1. CASE k = i
    <3>1. CASE i \in v2' \cup quarantine' BY <2>1, <3>1 DEF Survives
    <3>2. CASE i \notin v2' \cup quarantine'
      <4>1. s # 0 /\ h # 0 /\ v2' = v2 /\ old[h].channel = old[i].channel
        BY <3>2, <1>1
      <4>2. h \in v2' \cap Rows /\ old[h].smid = old[i].smid BY <4>1, <1>g DEF s
      <4> QED BY <2>1, <4>1, <4>2, <1>b DEF Survives, s
    <3> QED BY <3>1, <3>2
  <2>2. CASE k # i
    <3>1. Survives(k) BY <2>2, <1>4, <1>b, <1>c
    <3>2. CASE v2 \subseteq v2' /\ quarantine \subseteq quarantine'
      BY <3>1, <3>2, <1>b DEF Survives
    <3>3. CASE ~ (v2 \subseteq v2' /\ quarantine \subseteq quarantine')
      <4>1. /\ s # 0 /\ h # 0 /\ old[h].channel = old[i].channel
            /\ v2' = (v2 \ {h}) \cup {i} /\ quarantine' = quarantine
        BY <3>3, <1>1
      <4>2. old[i].smid = old[h].smid /\ i \in v2' \cap Rows BY <4>1, <1>g DEF s
      <4>3. CASE k \in quarantine \/ (k \in v2 /\ k # h) BY <4>1, <4>3 DEF Survives
      <4>4. CASE k = h
        BY <4>1, <4>2, <4>4, <1>b DEF Survives, s
      <4>5. CASE k \notin v2 \cup quarantine
        <5>1. PICK j \in v2 \cap Rows :
                old[k].smid # 0 /\ old[j].smid = old[k].smid /\ old[j].channel = old[k].channel
          BY <3>1, <4>5 DEF Survives
        <5>2. CASE j # h
          <6>1. j \in v2' \cap Rows BY <5>2, <4>1
          <6> QED BY <5>1, <6>1, <1>b DEF Survives
        <5>3. CASE j = h BY <4>1, <4>2, <5>1, <5>3, <1>b DEF Survives
        <5> QED BY <5>2, <5>3
      <4> QED BY <4>3, <4>4, <4>5
    <3> QED BY <3>2, <3>3
  <2> QED BY <2>1, <2>2
<1>5. Progress'
  <2>1. work' \subseteq Rows BY <1>b, <1>c
  <2>2. \A c \in Commands : ~sendRows'[c].broken BY <1>a, <1>b DEF Progress
  <2> QED BY <1>b, <1>4, <2>1, <2>2 DEF Progress
<1>6. OldStore' BY <1>a, <1>b DEF OldStore
<1> QED BY <1>2, <1>3, <1>5, <1>6 DEF MigrationSound

LEMMA RowsMovedKeepsSound == ASSUME MigrationSound, RowsMoved PROVE MigrationSound'
<1>1. /\ stage = "move" /\ work = {} /\ stage' = "check" /\ work' = Commands
      /\ UNCHANGED <<old, sendRows, v2, holder, redirect, quarantine>>
  BY DEF RowsMoved
<1>2. OldStore' /\ MigrationTypeOK' /\ IndexAgrees'
  BY <1>1 DEF MigrationSound, OldStore, MigrationTypeOK, IndexAgrees
<1>3. \A i \in Rows : Survives(i)' BY <1>1 DEF MigrationSound, Progress, Survives
<1>4. \A c \in Commands : ~sendRows'[c].broken BY <1>1 DEF MigrationSound, Progress
<1>5. Progress' BY <1>1, <1>3, <1>4 DEF Progress
<1> QED BY <1>2, <1>5 DEF MigrationSound

LEMMA UpgradeDoneKeepsSound == ASSUME MigrationSound, UpgradeDone PROVE MigrationSound'
<1>1. /\ stage = "check" /\ work = {} /\ stage' = "done"
      /\ UNCHANGED <<old, sendRows, work, v2, holder, redirect, quarantine>>
  BY DEF UpgradeDone
<1>2. OldStore' /\ MigrationTypeOK' /\ IndexAgrees'
  BY <1>1 DEF MigrationSound, OldStore, MigrationTypeOK, IndexAgrees
<1>3. \A i \in Rows : Survives(i)' BY <1>1 DEF MigrationSound, Progress, Survives
<1>4. \A c \in Commands : Resolved(c)'
  BY <1>1 DEF MigrationSound, Progress, Resolved, Owns
<1>5. Progress' BY <1>1, <1>3, <1>4 DEF Progress
<1> QED BY <1>2, <1>5 DEF MigrationSound

\* What a command is linked to is a row of its own send that is in the new
\* store; a rebuilt row takes an id no row has.
LEMMA CheckKeepsSound ==
    ASSUME MigrationSound, NEW c \in Commands, CheckCommand(c)
    PROVE  MigrationSound'
<1>a. OldStore /\ MigrationTypeOK /\ IndexAgrees /\ Progress BY DEF MigrationSound
<1>b. /\ stage = "check" /\ stage' = "check" /\ c \in work /\ work' = work \ {c}
      /\ UNCHANGED <<old, holder, redirect, quarantine>>
  BY DEF CheckCommand
<1>c. /\ work \subseteq Commands /\ (\A i \in Rows : Survives(i))
      /\ (\A d \in work : ~sendRows[d].broken) /\ (\A d \in Commands \ work : Resolved(d))
  BY <1>a, <1>b DEF Progress
<1>d. c \in Nat /\ LastRow + c \notin Rows /\ LastRow + c # 0 /\ LastRow + c \in Rebuilt
  BY MigrationNumbers DEF Rebuilt
<1>e. sendRows[c] \in [channel : Channels, link : Nat, key : {"l", "none"},
                       rebuildable : BOOLEAN, broken : BOOLEAN]
  BY <1>a DEF OldStore
<1>f. Found(c) \subseteq v2 /\ (\A i \in Found(c) : Owns(old[i], c)) BY DEF Found, Kept
<1>g. \A i \in Found(c) : i \in 0..(LastRow + LastCommand)
  <2>1. \A i \in v2 : i \in 0..(LastRow + LastCommand)
    BY <1>a, MigrationNumbers DEF MigrationTypeOK, Rows, Rebuilt, Commands
  <2> QED BY <2>1, <1>f
\* The three ways of a command: its link, its verdict, the rows.
<1>1. PICK l \in 0..(LastRow + LastCommand), b \in BOOLEAN :
        /\ sendRows' = [sendRows EXCEPT ![c] = [sendRows[c] EXCEPT !.link = l, !.broken = b]]
        /\ \/ l \in v2 /\ b = FALSE /\ Owns(old[l], c) /\ v2' = v2
           \/ l = LastRow + c /\ b = FALSE /\ v2' = v2 \cup {LastRow + c}
           \/ l = 0 /\ b = TRUE /\ v2' = v2
  <2>1. sendRows[c].broken = FALSE BY <1>b, <1>c, <1>e
  <2>2. ASSUME NEW l PROVE [sendRows EXCEPT ![c].link = l]
            = [sendRows EXCEPT ![c] = [sendRows[c] EXCEPT !.link = l, !.broken = FALSE]]
    BY <2>1, <1>e
  <2>3. CASE \E i \in Found(c) : sendRows' = [sendRows EXCEPT ![c].link = i] /\ UNCHANGED v2
    <3>1. PICK i \in Found(c) : sendRows' = [sendRows EXCEPT ![c].link = i] /\ UNCHANGED v2
      BY <2>3
    <3> QED BY <3>1, <2>2, <1>f, <1>g
  <2>4. CASE v2' = v2 \cup {LastRow + c} /\ sendRows' = [sendRows EXCEPT ![c].link = LastRow + c]
    <3>1. LastRow + c \in 0..(LastRow + LastCommand) BY MigrationNumbers DEF Commands
    <3> QED BY <3>1, <2>4, <2>2
  <2>5. CASE v2' = v2 /\ sendRows' = [sendRows EXCEPT ![c].link = 0, ![c].broken = TRUE]
    <3>1. 0 \in 0..(LastRow + LastCommand) BY MigrationNumbers
    <3>2. [sendRows EXCEPT ![c].link = 0, ![c].broken = TRUE]
            = [sendRows EXCEPT ![c] = [sendRows[c] EXCEPT !.link = 0, !.broken = TRUE]]
      BY <1>e
    <3> QED BY <3>1, <3>2, <2>5
  <2> QED BY <2>3, <2>4, <2>5 DEF CheckCommand
<1>2. /\ sendRows'[c].link = l /\ sendRows'[c].broken = b
      /\ sendRows'[c].channel = sendRows[c].channel
      /\ \A d \in Commands \ {c} : sendRows'[d] = sendRows[d]
  BY <1>1, <1>e, <1>a DEF OldStore
<1>3. v2 \subseteq v2' /\ v2' \subseteq v2 \cup Rebuilt /\ v2' \cap Rows = v2 \cap Rows
  BY <1>1, <1>d
<1>4. OldStore'
  <2>1. l \in Nat BY MigrationNumbers
  <2>2. [sendRows[c] EXCEPT !.link = l, !.broken = b]
          \in [channel : Channels, link : Nat, key : {"l", "none"},
               rebuildable : BOOLEAN, broken : BOOLEAN]
    BY <1>e, <2>1
  <2> QED BY <1>1, <1>a, <1>b, <2>2 DEF OldStore
<1>5. MigrationTypeOK' BY <1>1, <1>2, <1>3, <1>a, <1>b DEF MigrationTypeOK
<1>6. IndexAgrees' BY <1>a, <1>b, <1>3 DEF IndexAgrees
<1>7. \A i \in Rows : Survives(i)' BY <1>b, <1>c, <1>3 DEF Survives
<1>8. ASSUME NEW d \in Commands \ work' PROVE Resolved(d)'
  <2>1. CASE d = c
    <3>1. sendRows'[c].link = l /\ sendRows'[c].broken = b BY <1>2
    <3>2. CASE l \in v2 /\ b = FALSE /\ Owns(old[l], c)
      <4>1. Owns(old[l], c)' BY <3>2, <1>2, <1>b DEF Owns
      <4> QED BY <2>1, <3>1, <3>2, <4>1, <1>3, <1>b DEF Resolved
    <3>3. CASE l = LastRow + c /\ b = FALSE /\ v2' = v2 \cup {LastRow + c}
      BY <2>1, <3>1, <3>3 DEF Resolved
    <3>4. CASE l = 0 /\ b = TRUE BY <2>1, <3>1, <3>4 DEF Resolved
    <3> QED BY <1>1, <3>2, <3>3, <3>4
  <2>2. CASE d # c
    <3>1. Resolved(d) /\ sendRows'[d] = sendRows[d] BY <2>2, <1>8, <1>b, <1>c, <1>2
    <3> QED BY <3>1, <1>3, <1>b DEF Resolved, Owns
  <2> QED BY <2>1, <2>2
<1>9. Progress'
  <2>1. work' \subseteq Commands /\ (\A d \in work' : ~sendRows'[d].broken)
    BY <1>b, <1>c, <1>2
  <2> QED BY <1>b, <1>7, <1>8, <2>1 DEF Progress
<1> QED BY <1>4, <1>5, <1>6, <1>9 DEF MigrationSound

LEMMA MigrationKeepsSound ==
    ASSUME MigrationSound, MigrationNext \/ UNCHANGED migrationVars
    PROVE  MigrationSound'
<1>1. CASE UNCHANGED migrationVars
  <2>1. UNCHANGED <<old, sendRows, stage, work, v2, holder, redirect, quarantine>>
    BY <1>1 DEF migrationVars
  <2>2. OldStore' /\ MigrationTypeOK' /\ IndexAgrees'
    BY <2>1 DEF MigrationSound, OldStore, MigrationTypeOK, IndexAgrees
  <2>3. \A i : Survives(i)' = Survives(i) BY <2>1 DEF Survives
  <2>4. \A c : Resolved(c)' = Resolved(c) BY <2>1 DEF Resolved, Owns
  <2>5. Progress' BY <2>1, <2>3, <2>4 DEF MigrationSound, Progress
  <2> QED BY <2>2, <2>5 DEF MigrationSound
<1>2. CASE LinkCommands BY <1>2, LinkKeepsSound
<1>3. CASE RowsMoved BY <1>3, RowsMovedKeepsSound
<1>4. CASE UpgradeDone BY <1>4, UpgradeDoneKeepsSound
<1>5. CASE \E i \in Rows : MoveRow(i) BY <1>5, MoveKeepsSound
<1>6. CASE \E c \in Commands : CheckCommand(c) BY <1>6, CheckKeepsSound
<1> QED BY <1>1, <1>2, <1>3, <1>4, <1>5, <1>6 DEF MigrationNext

LEMMA SoundUpgrade == MigrationSound => CommandsResolved /\ NoMessageLost /\ UpgradeNeverAborts
<1> SUFFICES ASSUME MigrationSound
             PROVE  CommandsResolved /\ NoMessageLost /\ UpgradeNeverAborts
  OBVIOUS
<1>1. CommandsResolved BY DEF MigrationSound, Progress, Resolved, CommandsResolved
<1>2. NoMessageLost BY DEF MigrationSound, Progress, Survives, NoMessageLost
<1>3. UpgradeNeverAborts BY DEF MigrationSound, IndexAgrees, UpgradeNeverAborts
<1> QED BY <1>1, <1>2, <1>3

(***************************************************************************)
(* An upgrade of a cache database, of any rows and commands a version 10   *)
(* store may hold: every command ends with a row of its own send or with   *)
(* the verdict that it has none, no message is lost, and at no point do    *)
(* two rows claim one network id, which would abort the upgrade            *)
(* (src/cache/idb-schema.ts, versions 11 to 13).                           *)
(***************************************************************************)
THEOREM UpgradeHolds == PartsSpec => []UpgradeIsSafe
<1>1. PartsInit => MigrationSound BY MigrationStarts DEF PartsInit
<1>2. MigrationSound /\ [PartsNext]_partsVars => MigrationSound'
  <2> SUFFICES ASSUME MigrationSound, PartsNext \/ UNCHANGED partsVars PROVE MigrationSound'
    OBVIOUS
  <2>1. MigrationNext \/ UNCHANGED migrationVars BY DEF PartsNext, RestExcept, partsVars
  <2> QED BY <2>1, MigrationKeepsSound
<1>3. MigrationSound => UpgradeIsSafe BY SoundUpgrade DEF UpgradeIsSafe
<1> QED BY <1>1, <1>2, <1>3, PTL DEF PartsSpec

(***************************************************************************)
(* The same of Migration by itself, whose initial stores are in no order.  *)
(***************************************************************************)
THEOREM AnyUpgradeHolds ==
    MigrationSpec => [](CommandsResolved /\ NoMessageLost /\ UpgradeNeverAborts)
<1>1. MigrationSound /\ [MigrationNext]_migrationVars => MigrationSound'
  BY MigrationKeepsSound
<1> QED BY MigrationStarts, <1>1, SoundUpgrade, PTL DEF MigrationSpec

-----------------------------------------------------------------------------
(* The upload of an attachment (ChunkedUpload).                            *)

InSession == {"status", "send", "resync", "partUrls", "parts", "complete"}

\* The session in use is the one the blob in hand was sealed for, and its
\* budgets are not spent.
SessionHolds ==
    /\ pc \in InSession => session \in Sessions /\ sealed = session /\ failures <= Retries
    /\ pc \in InSession \ {"complete"} => round <= Retries
    /\ pc = "again" => session = 1

\* The server holds a session under its own sealing, and whole once it is done.
ServerHolds ==
    /\ \A w \in late : w.of = w.session
    /\ \A s \in Sessions : \A u \in Units : held[s][u] \in {0, s}
    /\ \A s \in Sessions : life[s] = "done" => Missing(s) = {}

\* What is missing is known to be, until nothing is.
GapsHold ==
    /\ pc \in {"send", "resync", "partUrls"} => Missing(session) \subseteq gaps
    /\ pc = "complete" => Missing(session) = {}

ResultHolds == result # 0 => pc = "done" /\ life[result] = "done"

CallTypeOK ==
    /\ pc \in InSession \cup
              {"prepare", "claim", "force", "again", "claimAgain", "done", "failed"}
    /\ session \in 0..2 /\ sealed \in 0..2 /\ result \in 0..2
    /\ gaps \subseteq Units /\ todo \subseteq Parts
    /\ size \in 1..MaxPiece /\ failures \in 0..(Retries + 1) /\ round \in 0..(Retries + 1)

ServerTypeOK ==
    /\ held \in [Sessions -> [Units -> 0..2]]
    /\ life \in [Sessions -> {"none", "proxy", "s3", "done", "gone"}]
    /\ late \subseteq Write

CallSound   == CallTypeOK /\ SessionHolds /\ GapsHold /\ ResultHolds
ServerSound == ServerTypeOK /\ ServerHolds
UploadSound == CallSound /\ ServerSound

LEMMA UploadNumbers ==
    /\ Size \in Nat /\ Size > 0 /\ MaxPiece \in Nat /\ MaxPiece > 0 /\ PartSize \in Nat /\ PartSize > 0
    /\ Retries \in Nat /\ Retries > 0 /\ MaxLate \in Nat
    /\ Sessions = {1, 2} /\ 0..2 = {0, 1, 2} /\ Units \subseteq Nat
BY UploadAssumption DEF Sessions, Units

\* A set of numbers that is not empty has a least.
LEMMA LeastUnit ==
    ASSUME NEW S, S \subseteq Nat, S # {}
    PROVE  Min(S) \in S /\ \A u \in S : Min(S) <= u
<1>1. \E m \in S : \A u \in S : ~ (<<u, m>> \in OpToRel(<, Nat))
  BY WFMin, NatLessThanWellFounded
<1>2. PICK m \in S : \A u \in S : ~ (u < m) BY <1>1 DEF OpToRel
<1>3. \A u \in S : m <= u BY <1>2
<1> QED BY <1>3 DEF Min

\* The piece that is next lies in the gaps and has a size.
LEMMA PieceIsKnown ==
    ASSUME CallTypeOK, gaps # {}
    PROVE  Piece \subseteq gaps /\ Cardinality(Piece) \in Nat
<1>1. gaps \subseteq Nat /\ size \in Nat
  <2>1. gaps \subseteq Units /\ size \in 1..MaxPiece BY DEF CallTypeOK
  <2> QED BY <2>1, UploadNumbers
<1>2. Min(gaps) \in Nat BY <1>1, LeastUnit
<1> DEFINE least == Min(gaps)
<1>3. Piece = {u \in least..(least + size - 1) : least..u \subseteq gaps} BY DEF Piece
<1>4. least \in Nat BY <1>2
<1> HIDE DEF least
<1>5. ASSUME NEW u \in Piece PROVE u \in gaps
  <2>1. u \in least..(least + size - 1) /\ least..u \subseteq gaps BY <1>3, <1>5
  <2>2. u \in least..u BY <1>1, <1>4, <2>1
  <2> QED BY <2>1, <2>2
<1>6. IsFiniteSet(least..(least + size - 1)) BY <1>1, <1>4, FS_Interval
<1>7. Piece \in SUBSET (least..(least + size - 1)) BY <1>3
<1>8. IsFiniteSet(Piece) BY <1>6, <1>7, FS_Subset
<1> QED BY <1>5, <1>8, FS_CardinalityType

\* The next size, grown or halved, is one the client may send.
LEMMA SizesAreSizes ==
    ASSUME CallTypeOK
    PROVE  /\ Max({1, size \div 2}) \in 1..MaxPiece
           /\ gaps # {} => 1..Min({MaxPiece, 4 * Cardinality(Piece)}) \subseteq 1..MaxPiece
<1>1. size \in 1..MaxPiece /\ MaxPiece \in Nat BY UploadNumbers DEF CallTypeOK
<1>2. size \div 2 \in Nat /\ size \div 2 <= size BY <1>1
<1>3. Max({1, size \div 2}) \in 1..MaxPiece
  <2> DEFINE half == size \div 2
  <2>1. half \in Nat /\ half <= MaxPiece BY <1>1, <1>2
  <2> HIDE DEF half
  <2>2. \E x \in {1, half} : \A y \in {1, half} : x >= y
    <3>1. CASE half >= 1 BY <3>1, <2>1
    <3>2. CASE ~ (half >= 1) BY <3>2, <2>1
    <3> QED BY <3>1, <3>2
  <2>3. Max({1, half}) \in {1, half} /\ Max({1, half}) >= 1 BY <2>2 DEF Max
  <2>4. Max({1, half}) \in 1..MaxPiece BY <2>1, <2>3, <1>1
  <2> QED BY <2>4 DEF half
<1>4. ASSUME gaps # {} PROVE 1..Min({MaxPiece, 4 * Cardinality(Piece)}) \subseteq 1..MaxPiece
  <2> DEFINE most == 4 * Cardinality(Piece)
  <2>1. most \in Nat BY <1>4, PieceIsKnown
  <2> HIDE DEF most
  <2>2. {MaxPiece, most} \subseteq Nat /\ {MaxPiece, most} # {} BY <1>1, <2>1
  <2>3. Min({MaxPiece, most}) \in Nat /\ Min({MaxPiece, most}) <= MaxPiece
    BY <2>2, LeastUnit
  <2>4. 1..Min({MaxPiece, most}) \subseteq 1..MaxPiece BY <2>3, <1>1
  <2> QED BY <2>4 DEF most
<1> QED BY <1>3, <1>4

LEMMA UploadStarts == UploadInit => UploadSound
<1> SUFFICES ASSUME UploadInit PROVE UploadSound
  OBVIOUS
<1>1. CallTypeOK /\ ServerTypeOK
  <2>1. size = 1 /\ 1 \in 1..MaxPiece /\ 0 \in 0..(Retries + 1) BY UploadNumbers DEF UploadInit
  <2>2. held \in [Sessions -> [Units -> 0..2]] BY UploadNumbers DEF UploadInit
  <2> QED BY <2>1, <2>2, UploadNumbers DEF UploadInit, CallTypeOK, ServerTypeOK
<1>2. ServerHolds BY DEF UploadInit, ServerHolds
<1>3. SessionHolds /\ GapsHold /\ ResultHolds
  BY DEF UploadInit, SessionHolds, GapsHold, ResultHolds, InSession
<1> QED BY <1>1, <1>2, <1>3 DEF UploadSound, CallSound, ServerSound

(* What the call does by itself, the server's next state given.            *)

\* The call leaves its session: it throws, ends with a claim, or asks again.
LEMMA LeavingKeepsCall ==
    ASSUME CallSound, pc # "done",
           NEW l \in {"claim", "force", "claimAgain", "done", "failed"}, Goto(l)
    PROVE  CallSound'
<1>1. pc' = l /\ UNCHANGED <<session, sealed, gaps, size, failures, todo, round, result>>
  BY DEF Goto
<1>2. CallTypeOK' BY <1>1 DEF CallSound, CallTypeOK
<1>3. SessionHolds' /\ GapsHold' BY <1>1 DEF SessionHolds, GapsHold, InSession
<1>4. ResultHolds' BY <1>1 DEF CallSound, ResultHolds
<1> QED BY <1>2, <1>3, <1>4 DEF CallSound

LEMMA ThrowKeepsCall == ASSUME CallSound, pc # "done", Throw PROVE CallSound'
BY LeavingKeepsCall DEF Throw

LEMMA GoneKeepsCall == ASSUME CallSound, pc \in InSession, Gone PROVE CallSound'
<1>1. CASE session = 1
  <2>1. pc' = "again" /\ UNCHANGED <<session, sealed, gaps, size, failures, todo, round, result>>
    BY <1>1 DEF Gone, Goto
  <2>2. CallTypeOK' BY <2>1 DEF CallSound, CallTypeOK
  <2>3. SessionHolds' /\ GapsHold' BY <1>1, <2>1 DEF SessionHolds, GapsHold, InSession
  <2>4. ResultHolds' BY <2>1 DEF CallSound, ResultHolds, InSession
  <2> QED BY <2>2, <2>3, <2>4 DEF CallSound
<1>2. CASE session # 1 BY <1>2, LeavingKeepsCall DEF Gone, InSession
<1> QED BY <1>1, <1>2

\* Another attempt is counted, and past the budget the call throws.
LEMMA TryAgainKeepsCall ==
    ASSUME CallSound, pc = "send", NEW v \in {"retry", "resync"}, TryAgain(v),
           \A s \in Sessions : Missing(s)' \subseteq Missing(s)
    PROVE  CallSound'
<1>a. CallTypeOK /\ SessionHolds /\ GapsHold /\ ResultHolds BY DEF CallSound
<1>1. /\ failures' = failures + 1 /\ size' \in {size, Max({1, size \div 2})}
      /\ UNCHANGED <<session, sealed, gaps, todo, round, result>>
  BY DEF TryAgain
<1>2. \/ failures' > Retries /\ pc' = "failed"
      \/ ~ (failures' > Retries) /\ pc' \in {"send", "resync"}
  BY DEF TryAgain
<1>3. session \in Sessions /\ sealed = session /\ failures <= Retries /\ round <= Retries
  BY <1>a DEF SessionHolds, InSession
<1>4. failures \in Nat /\ Retries \in Nat /\ failures' \in 0..(Retries + 1)
  BY <1>a, <1>1, <1>3, UploadNumbers DEF CallTypeOK
<1>5. size' \in 1..MaxPiece BY <1>a, <1>1, SizesAreSizes DEF CallTypeOK
<1>6. CallTypeOK' BY <1>a, <1>1, <1>2, <1>4, <1>5 DEF CallTypeOK, InSession
<1>7. SessionHolds' BY <1>1, <1>2, <1>3, <1>4 DEF SessionHolds, InSession
<1>8. GapsHold'
  <2>1. Missing(session) \subseteq gaps BY <1>a DEF GapsHold
  <2>2. Missing(session)' \subseteq gaps' BY <2>1, <1>1, <1>3
  <2> QED BY <2>2, <1>2 DEF GapsHold
<1>9. ResultHolds' BY <1>a, <1>1 DEF ResultHolds
<1> QED BY <1>6, <1>7, <1>8, <1>9 DEF CallSound

\* The piece leaves the gaps: the server has it.
LEMMA AdvanceKeepsCall ==
    ASSUME CallSound, pc = "send", gaps # {}, Advance,
           Missing(session)' \subseteq Missing(session) \ Piece
    PROVE  CallSound'
<1>a. CallTypeOK /\ SessionHolds /\ GapsHold /\ ResultHolds BY DEF CallSound
<1>1. /\ gaps' = gaps \ Piece /\ failures' = 0
      /\ size' \in 1..Min({MaxPiece, 4 * Cardinality(Piece)})
      /\ UNCHANGED <<pc, session, sealed, todo, round, result>>
  BY DEF Advance
<1>2. CallTypeOK'
  <2>1. size' \in 1..MaxPiece BY <1>a, <1>1, SizesAreSizes
  <2>2. failures' \in 0..(Retries + 1) BY <1>1, UploadNumbers
  <2> QED BY <1>a, <1>1, <2>1, <2>2 DEF CallTypeOK
<1>3. SessionHolds' BY <1>a, <1>1, UploadNumbers DEF SessionHolds
<1>4. GapsHold'
  <2>1. Missing(session)' \subseteq gaps' BY <1>a, <1>1 DEF GapsHold
  <2> QED BY <2>1, <1>1 DEF GapsHold
<1>5. ResultHolds' BY <1>a, <1>1 DEF ResultHolds
<1> QED BY <1>2, <1>3, <1>4, <1>5 DEF CallSound

(* What the server does by itself.                                         *)

LEMMA RestKeepsServer ==
    ASSUME ServerSound, UNCHANGED serverVars
    PROVE  ServerSound' /\ \A s \in Sessions : Missing(s)' = Missing(s)
<1>1. UNCHANGED <<held, life, late>> BY DEF serverVars
<1> QED BY <1>1 DEF ServerSound, ServerTypeOK, ServerHolds, Missing

LEMMA LateKeepsServer ==
    ASSUME ServerSound, UNCHANGED <<held, life>>,
           NEW w \in Write, w.of = w.session, late' \subseteq late \cup {w}
    PROVE  ServerSound' /\ \A s \in Sessions : Missing(s)' = Missing(s)
BY DEF ServerSound, ServerTypeOK, ServerHolds, Missing

\* A write of a session's own sealing leaves it what it is, with less missing.
LEMMA WriteKeepsServer ==
    ASSUME ServerSound, NEW w \in Write, w.of = w.session, held' = Stored(w),
           life' = life, late' \subseteq late
    PROVE  /\ ServerSound'
           /\ \A s \in Sessions : Missing(s)' \subseteq Missing(s)
           /\ Missing(w.session)' \subseteq Missing(w.session) \ w.units
<1>a. ServerTypeOK /\ ServerHolds BY DEF ServerSound
<1>1. w.session \in Sessions /\ w.of \in Sessions /\ w.of \in 1..2 /\ w.units \subseteq Units
  BY DEF Write, Sessions
<1> DEFINE there == [u \in Units |-> IF u \in w.units THEN w.of ELSE held[w.session][u]]
<1>2. held' = [held EXCEPT ![w.session] = there] BY DEF Stored
<1>3. there \in [Units -> 0..2]
  BY <1>a, <1>1, UploadNumbers DEF ServerTypeOK
<1>4. \A u \in Units : there[u] = IF u \in w.units THEN w.of ELSE held[w.session][u]
  OBVIOUS
<1> HIDE DEF there
<1>5. held' \in [Sessions -> [Units -> 0..2]] BY <1>a, <1>2, <1>3 DEF ServerTypeOK
<1>6. /\ held'[w.session] = there
      /\ \A s \in Sessions \ {w.session} : held'[s] = held[s]
  BY <1>a, <1>1, <1>2 DEF ServerTypeOK
<1>7. \A s \in Sessions, u \in Units : held'[s][u] = held[s][u] \/ held'[s][u] = s
  BY <1>1, <1>4, <1>6
<1>8. ASSUME NEW s \in Sessions PROVE Missing(s)' \subseteq Missing(s)
  <2>1. s # 0 BY UploadNumbers
  <2> QED BY <2>1, <1>7 DEF Missing
<1>9. Missing(w.session)' \subseteq Missing(w.session) \ w.units
  <2>1. w.of # 0 BY <1>1
  <2>2. ASSUME NEW u \in w.units PROVE held'[w.session][u] # 0
    <3>1. held'[w.session][u] = there[u] /\ there[u] = w.of BY <1>1, <1>4, <1>6
    <3> QED BY <3>1, <2>1
  <2> QED BY <2>2, <1>1, <1>8 DEF Missing
<1>10. ServerTypeOK' BY <1>a, <1>5 DEF ServerTypeOK
<1>11. ServerHolds'
  <2>1. \A s \in Sessions, u \in Units : held'[s][u] \in {0, s} BY <1>a, <1>7 DEF ServerHolds
  <2>2. \A s \in Sessions : life'[s] = "done" => Missing(s)' = {} BY <1>a, <1>8 DEF ServerHolds
  <2> QED BY <1>a, <2>1, <2>2 DEF ServerHolds
<1> QED BY <1>8, <1>9, <1>10, <1>11 DEF ServerSound

\* A session's life goes on: it is done only when nothing of it is missing.
LEMMA LifeKeepsServer ==
    ASSUME ServerSound, UNCHANGED <<held, late>>, NEW s \in Sessions,
           NEW l \in {"proxy", "s3", "done", "gone"}, life' = [life EXCEPT ![s] = l],
           l = "done" => Missing(s) = {}
    PROVE  ServerSound' /\ \A x \in Sessions : Missing(x)' = Missing(x)
<1>a. ServerTypeOK /\ ServerHolds BY DEF ServerSound
<1>1. \A x \in Sessions : Missing(x)' = Missing(x) BY DEF Missing
<1>2. ServerTypeOK' BY <1>a DEF ServerTypeOK
<1>3. \A x \in Sessions : life'[x] = "done" => life[x] = "done" \/ (x = s /\ l = "done")
  BY <1>a DEF ServerTypeOK
<1>4. ServerHolds' BY <1>a, <1>1, <1>3 DEF ServerHolds
<1> QED BY <1>1, <1>2, <1>4 DEF ServerSound

(* The steps of the call.                                                  *)

\* A session opens with its own sealing and its own budget.
LEMMA OpeningKeepsSound ==
    ASSUME UploadSound, NEW s \in Sessions, Opened(s), pc # "done"
    PROVE  UploadSound'
<1>a. CallTypeOK /\ ResultHolds /\ ServerSound BY DEF UploadSound, CallSound
<1>1. /\ session' = s /\ sealed' = s /\ pc' = "status" /\ size' = 1 /\ failures' = 0
      /\ round' = 0 /\ gaps' = {} /\ todo' = {} /\ UNCHANGED <<result, held, late>>
  BY DEF Opened
<1>2. PICK t \in {"proxy", "s3"} : life' = [life EXCEPT ![s] = t] BY DEF Opened
<1>3. ServerSound' BY <1>a, <1>1, <1>2, LifeKeepsServer
<1>4. CallTypeOK'
  <2>1. 1 \in 1..MaxPiece /\ 0 \in 0..(Retries + 1) /\ s \in 0..2 BY UploadNumbers
  <2>2. result' \in 0..2 /\ pc' \in InSession BY <1>a, <1>1 DEF CallTypeOK, InSession
  <2> QED BY <1>1, <2>1, <2>2 DEF CallTypeOK
<1>5. SessionHolds' BY <1>1, UploadNumbers DEF SessionHolds
<1>6. GapsHold' /\ ResultHolds' BY <1>a, <1>1 DEF GapsHold, ResultHolds
<1> QED BY <1>3, <1>4, <1>5, <1>6 DEF UploadSound, CallSound

\* A step of the call alone, that leaves its session.
LEMMA LeavingKeepsSound ==
    ASSUME UploadSound, UNCHANGED serverVars, pc # "done",
           \/ Throw
           \/ pc \in InSession /\ Gone
           \/ \E l \in {"claim", "force", "claimAgain", "done", "failed"} : Goto(l)
    PROVE  UploadSound'
<1>1. CallSound /\ ServerSound BY DEF UploadSound
<1>2. ServerSound' BY <1>1, RestKeepsServer
<1>3. CallSound' BY <1>1, ThrowKeepsCall, GoneKeepsCall, LeavingKeepsCall
<1> QED BY <1>2, <1>3 DEF UploadSound

LEMMA TokenKeepsSound ==
    ASSUME UploadSound, Prepare \/ Claim \/ ClaimMissed \/ Again \/ ClaimAgain
    PROVE  UploadSound'
<1>1. pc \in {"prepare", "claim", "force", "again", "claimAgain"}
  BY DEF Prepare, Claim, ClaimMissed, Again, ClaimAgain
<1>2. CASE \E s \in Sessions : Opened(s) BY <1>1, <1>2, OpeningKeepsSound
<1>3. CASE /\ UNCHANGED serverVars
           /\ Throw \/ \E l \in {"claim", "force", "claimAgain", "done", "failed"} : Goto(l)
  BY <1>1, <1>3, LeavingKeepsSound
<1> QED BY <1>2, <1>3, UploadNumbers DEF Prepare, Claim, ClaimMissed, Again, ClaimAgain, Refused

\* The end of the sending is where nothing is missing.
LEMMA WholeKeepsSound ==
    ASSUME UploadSound, UNCHANGED serverVars, pc \in InSession, Goto("complete"),
           Missing(session) = {}
    PROVE  UploadSound'
<1>a. CallTypeOK /\ SessionHolds /\ ResultHolds /\ ServerSound BY DEF UploadSound, CallSound
<1>1. pc' = "complete" /\ UNCHANGED <<session, sealed, gaps, size, failures, todo, round, result>>
  BY DEF Goto
<1>2. ServerSound' /\ \A s \in Sessions : Missing(s)' = Missing(s) BY <1>a, RestKeepsServer
<1>3. session \in Sessions BY <1>a DEF SessionHolds
<1>4. CallTypeOK' BY <1>a, <1>1 DEF CallTypeOK, InSession
<1>5. SessionHolds' BY <1>a, <1>1 DEF SessionHolds, InSession
<1>6. GapsHold'
  <2>1. Missing(session)' = Missing(session) BY <1>1, <1>2, <1>3
  <2>2. Missing(session') = {} /\ Missing(session)' = {} BY <2>1, <1>1
  <2> QED BY <2>2, <1>1 DEF GapsHold
<1>7. ResultHolds' BY <1>a, <1>1 DEF ResultHolds, InSession
<1> QED BY <1>2, <1>4, <1>5, <1>6, <1>7 DEF UploadSound, CallSound

\* What is asked of the server is what it lacks.
LEMMA AskingKeepsSound ==
    ASSUME UploadSound, UNCHANGED serverVars, pc \in InSession,
           gaps' = Missing(session), todo' \subseteq Parts,
           UNCHANGED <<session, sealed, size, failures, result>>,
           round' \in 0..(Retries + 1),
           \/ pc' = "failed"
           \/ pc' = "complete" /\ Missing(session) = {}
           \/ pc' \in {"send", "partUrls"} /\ round' <= Retries
    PROVE  UploadSound'
<1>a. CallTypeOK /\ SessionHolds /\ ResultHolds /\ ServerSound BY DEF UploadSound, CallSound
<1>1. ServerSound' /\ \A s \in Sessions : Missing(s)' = Missing(s) BY <1>a, RestKeepsServer
<1>2. session \in Sessions /\ sealed = session /\ failures <= Retries BY <1>a DEF SessionHolds
<1>3. CallTypeOK'
  <2>1. Missing(session) \subseteq Units BY DEF Missing
  <2> QED BY <1>a, <2>1 DEF CallTypeOK, InSession
<1>4. SessionHolds' BY <1>2 DEF SessionHolds, InSession
<1>5. GapsHold'
  <2>1. Missing(session)' = Missing(session) BY <1>1, <1>2
  <2> QED BY <2>1 DEF GapsHold
<1>6. ResultHolds' BY <1>a DEF ResultHolds, InSession
<1> QED BY <1>1, <1>3, <1>4, <1>5, <1>6 DEF UploadSound, CallSound

LEMMA StatusKeepsSound == ASSUME UploadSound, Status PROVE UploadSound'
<1>a. SessionHolds /\ ServerHolds /\ CallTypeOK BY DEF UploadSound, CallSound, ServerSound
<1>1. pc = "status" /\ pc \in InSession /\ UNCHANGED serverVars BY DEF Status, InSession
<1>2. session \in Sessions /\ round <= Retries BY <1>a, <1>1 DEF SessionHolds
<1>3. CASE Throw \/ Gone BY <1>1, <1>3, LeavingKeepsSound
<1>4. CASE life[session] = "done" /\ Goto("complete")
  <2>1. Missing(session) = {} BY <1>4, <1>2, <1>a DEF ServerHolds
  <2> QED BY <2>1, <1>1, <1>4, WholeKeepsSound
<1>5. CASE /\ gaps' = Missing(session)
           /\ pc' \in {"send", "partUrls"}
           /\ todo' \subseteq Parts
           /\ UNCHANGED <<session, sealed, size, failures, round, result>>
  <2>1. round' \in 0..(Retries + 1) /\ round' <= Retries BY <1>5, <1>2, <1>a DEF CallTypeOK
  <2> QED BY <2>1, <1>1, <1>5, AskingKeepsSound
<1>6. \/ Throw \/ Gone
      \/ life[session] = "done" /\ Goto("complete")
      \/ /\ gaps' = Missing(session)
         /\ pc' \in {"send", "partUrls"}
         /\ todo' \subseteq Parts
         /\ UNCHANGED <<session, sealed, size, failures, round, result>>
  BY DEF Status, MissingParts
<1> QED BY <1>3, <1>4, <1>5, <1>6

LEMMA ResyncKeepsSound == ASSUME UploadSound, Resync PROVE UploadSound'
<1>a. SessionHolds /\ ServerHolds /\ CallTypeOK BY DEF UploadSound, CallSound, ServerSound
<1>1. pc = "resync" /\ pc \in InSession /\ UNCHANGED serverVars BY DEF Resync, InSession
<1>2. session \in Sessions /\ round <= Retries BY <1>a, <1>1 DEF SessionHolds
<1>3. CASE Throw \/ Gone BY <1>1, <1>3, LeavingKeepsSound
<1>4. CASE life[session] = "done" /\ Goto("complete")
  <2>1. Missing(session) = {} BY <1>4, <1>2, <1>a DEF ServerHolds
  <2> QED BY <2>1, <1>1, <1>4, WholeKeepsSound
<1>5. CASE /\ gaps' = Missing(session) /\ pc' = "send"
           /\ UNCHANGED <<session, sealed, size, failures, todo, round, result>>
  <2>1. /\ round' \in 0..(Retries + 1) /\ round' <= Retries /\ todo' \subseteq Parts
        /\ UNCHANGED <<session, sealed, size, failures, result>>
    BY <1>5, <1>2, <1>a DEF CallTypeOK
  <2> QED BY <2>1, <1>1, <1>5, AskingKeepsSound
<1> QED BY <1>3, <1>4, <1>5 DEF Resync

\* A chunk the server says it has leaves the gaps, and no other answer takes
\* anything out of them.
LEMMA PutChunkKeepsSound == ASSUME UploadSound, PutChunk PROVE UploadSound'
<1>a. CallTypeOK /\ SessionHolds /\ CallSound /\ ServerSound /\ ServerHolds
  BY DEF UploadSound, CallSound, ServerSound
<1>b. pc = "send" /\ gaps # {} /\ pc \in InSession BY DEF PutChunk, InSession
<1>c. session \in Sessions /\ sealed = session BY <1>a, <1>b DEF SessionHolds
<1>d. Piece \subseteq Units BY <1>a, <1>b, PieceIsKnown DEF CallTypeOK
<1>e. PICK w \in Write : w = [session |-> session, units |-> Piece, of |-> sealed]
  BY <1>c, <1>d DEF Write
<1>f. w.of = w.session /\ w.session = session /\ w.units = Piece BY <1>c, <1>e
<1>1. ASSUME NEW code \in Answers(Piece), NEW e \in BOOLEAN, React(Verdict(code, e)),
             UNCHANGED serverVars
      PROVE  UploadSound'
  <2>1. ServerSound' /\ \A s \in Sessions : Missing(s)' = Missing(s)
    BY <1>a, <1>1, RestKeepsServer
  <2>2. CASE Verdict(code, e) = "ok" /\ Advance
    <3>1. code \in {"ok", "completed"} BY <2>2 DEF Verdict
    <3>2. Piece \cap Missing(session) = {}
      <4>1. CASE life[session] = "done" BY <4>1, <1>a, <1>c DEF ServerHolds
      <4>2. CASE life[session] # "done" BY <4>2, <3>1, <1>1 DEF Answers
      <4> QED BY <4>1, <4>2
    <3>3. Missing(session)' \subseteq Missing(session) \ Piece
      <4>1. Missing(session)' = Missing(session) BY <2>1, <2>2, <1>c DEF Advance
      <4> QED BY <4>1, <3>2
    <3>4. CallSound' BY <2>2, <3>3, <1>a, <1>b, AdvanceKeepsCall
    <3> QED BY <2>1, <3>4 DEF UploadSound
  <2>3. CASE Gone \/ Throw BY <2>3, <1>1, <1>b, LeavingKeepsSound DEF InSession
  <2>4. CASE \E v \in {"retry", "resync"} : TryAgain(v)
    <3>1. CallSound' BY <2>1, <2>4, <1>a, <1>b, TryAgainKeepsCall
    <3> QED BY <2>1, <3>1 DEF UploadSound
  <2> QED BY <1>1, <2>2, <2>3, <2>4 DEF React
<1>2. ASSUME held' = Stored(w), UNCHANGED <<life, late>>, React("ok") \/ TryAgain("retry")
      PROVE  UploadSound'
  <2>1. /\ ServerSound'
        /\ \A s \in Sessions : Missing(s)' \subseteq Missing(s)
        /\ Missing(w.session)' \subseteq Missing(w.session) \ w.units
    BY <1>a, <1>f, <1>2, WriteKeepsServer
  <2>2. session' = session BY <1>2 DEF React, Advance, TryAgain
  <2>5. Missing(session)' \subseteq Missing(session) \ Piece BY <2>1, <2>2, <1>f
  <2>3. CASE Advance
    <3>1. CallSound' BY <2>5, <2>3, <1>a, <1>b, AdvanceKeepsCall
    <3> QED BY <2>1, <3>1 DEF UploadSound
  <2>4. CASE TryAgain("retry")
    <3>1. CallSound' BY <2>1, <2>4, <1>a, <1>b, TryAgainKeepsCall
    <3> QED BY <2>1, <3>1 DEF UploadSound
  <2> QED BY <1>2, <2>3, <2>4 DEF React
<1>3. ASSUME late' = late \cup {w}, TryAgain("retry"), UNCHANGED <<held, life>>
      PROVE  UploadSound'
  <2>1. ServerSound' /\ \A s \in Sessions : Missing(s)' = Missing(s)
    BY <1>a, <1>f, <1>3, LateKeepsServer
  <2>2. CallSound' BY <2>1, <1>3, <1>a, <1>b, TryAgainKeepsCall
  <2> QED BY <2>1, <2>2 DEF UploadSound
<1>4. ASSUME Throw, UNCHANGED serverVars PROVE UploadSound'
  BY <1>4, <1>b, LeavingKeepsSound
<1> QED BY <1>1, <1>2, <1>3, <1>4, <1>e DEF PutChunk

LEMMA EndKeepsSound ==
    ASSUME UploadSound, AllSent \/ NothingMissing
    PROVE  UploadSound'
<1>1. /\ pc \in {"send", "partUrls"} /\ gaps = {} /\ Goto("complete") /\ UNCHANGED serverVars
  BY DEF AllSent, NothingMissing
<1>2. Missing(session) = {} BY <1>1 DEF UploadSound, CallSound, GapsHold
<1> QED BY <1>1, <1>2, WholeKeepsSound DEF InSession

LEMMA PartUrlsKeepsSound == ASSUME UploadSound, PartUrls PROVE UploadSound'
<1>a. CallTypeOK /\ SessionHolds /\ ResultHolds /\ ServerSound BY DEF UploadSound, CallSound
<1>1. pc = "partUrls" /\ pc \in InSession /\ UNCHANGED serverVars BY DEF PartUrls, InSession
<1>2. CASE Gone \/ Throw BY <1>1, <1>2, LeavingKeepsSound
<1>3. CASE /\ pc' = "parts" /\ failures' = 0
           /\ UNCHANGED <<session, sealed, gaps, size, todo, round, result>>
  <2>1. ServerSound' BY <1>a, <1>1, RestKeepsServer
  <2>2. CallTypeOK' BY <1>a, <1>3, UploadNumbers DEF CallTypeOK, InSession
  <2>3. SessionHolds' BY <1>a, <1>1, <1>3, UploadNumbers DEF SessionHolds, InSession
  <2>4. GapsHold' /\ ResultHolds' BY <1>a, <1>1, <1>3 DEF GapsHold, ResultHolds
  <2> QED BY <2>1, <2>2, <2>3, <2>4 DEF UploadSound, CallSound
<1> QED BY <1>2, <1>3 DEF PartUrls

\* A part that is sent, or tried again.
LEMMA PutPartKeepsSound == ASSUME UploadSound, PutPart PROVE UploadSound'
<1>a. CallTypeOK /\ SessionHolds /\ ResultHolds /\ CallSound /\ ServerSound
  BY DEF UploadSound, CallSound
<1>b. pc = "parts" /\ pc \in InSession BY DEF PutPart, InSession
<1>c. session \in Sessions /\ sealed = session /\ failures <= Retries
  BY <1>a, <1>b DEF SessionHolds
<1> DEFINE p == Min(todo)
           w == [session |-> session, units |-> UnitsOf(p), of |-> sealed]
<1>d. w \in Write /\ w.of = w.session BY <1>c DEF Write, UnitsOf
<1>1. ServerSound'
  <2>1. CASE held' = Stored(w) /\ UNCHANGED <<life, late>>
    <3> HIDE DEF w
    <3> QED BY <2>1, <1>a, <1>d, WriteKeepsServer
  <2>2. CASE late' = late \cup {w} /\ UNCHANGED <<held, life>>
    <3> HIDE DEF w
    <3> QED BY <2>2, <1>a, <1>d, LateKeepsServer
  <2>3. CASE UNCHANGED serverVars BY <2>3, <1>a, RestKeepsServer
  <2> QED BY <2>1, <2>2, <2>3 DEF PutPart
<1>2. \/ Throw
      \/ /\ failures # Retries /\ failures' = failures + 1
         /\ UNCHANGED <<pc, session, sealed, gaps, size, todo, round, result>>
      \/ /\ todo' = todo \ {p} /\ failures' = 0
         /\ UNCHANGED <<pc, session, sealed, gaps, size, round, result>>
  BY DEF PutPart
<1>3. CallSound'
  <2>1. CASE Throw BY <2>1, <1>a, <1>b, ThrowKeepsCall
  <2>2. CASE /\ failures' \in 0..Retries /\ todo' \subseteq todo
             /\ UNCHANGED <<pc, session, sealed, gaps, size, round, result>>
    <3>1. failures' \in 0..(Retries + 1) /\ failures' <= Retries BY <2>2, UploadNumbers
    <3>2. CallTypeOK' BY <1>a, <2>2, <3>1 DEF CallTypeOK
    <3>3. SessionHolds' BY <1>a, <2>2, <3>1 DEF SessionHolds
    <3>4. GapsHold' /\ ResultHolds' BY <1>b, <1>a, <2>2 DEF GapsHold, ResultHolds
    <3> QED BY <3>2, <3>3, <3>4 DEF CallSound
  <2>3. failures \in Nat /\ Retries \in Nat BY <1>a, UploadNumbers DEF CallTypeOK
  <2> HIDE DEF p
  <2> QED BY <1>2, <1>c, <2>1, <2>2, <2>3
<1> QED BY <1>1, <1>3 DEF UploadSound

LEMMA PartStatusKeepsSound == ASSUME UploadSound, PartStatus PROVE UploadSound'
<1>a. CallTypeOK /\ SessionHolds BY DEF UploadSound, CallSound
<1>1. pc = "parts" /\ pc \in InSession /\ UNCHANGED serverVars BY DEF PartStatus, InSession
<1>2. CASE Gone \/ Throw BY <1>1, <1>2, LeavingKeepsSound
<1>3. CASE /\ gaps' = Missing(session) /\ round' = round + 1 /\ todo' \subseteq Parts
           /\ \/ pc' = "complete" /\ gaps' = {}
              \/ pc' = "partUrls" /\ round' <= Retries
              \/ pc' = "failed"
           /\ UNCHANGED <<session, sealed, size, failures, result>>
  <2>1. round' \in 0..(Retries + 1)
    <3>1. round <= Retries /\ round \in Nat
      BY <1>a, <1>1, UploadNumbers DEF SessionHolds, CallTypeOK
    <3> QED BY <3>1, <1>3, UploadNumbers
  <2> QED BY <2>1, <1>1, <1>3, AskingKeepsSound
<1>4. \/ Gone \/ Throw
      \/ /\ gaps' = Missing(session) /\ round' = round + 1 /\ todo' \subseteq Parts
         /\ \/ pc' = "complete" /\ gaps' = {}
            \/ pc' = "partUrls" /\ round' <= Retries
            \/ pc' = "failed"
         /\ UNCHANGED <<session, sealed, size, failures, result>>
  BY DEF PartStatus, MissingParts
<1> QED BY <1>2, <1>3, <1>4

\* The server completes what is whole; its answer may be lost.
LEMMA CompleteKeepsSound == ASSUME UploadSound, Complete PROVE UploadSound'
<1>a. CallTypeOK /\ SessionHolds /\ ResultHolds /\ CallSound /\ ServerSound /\ ServerTypeOK
  BY DEF UploadSound, CallSound, ServerSound
<1>b. pc = "complete" /\ pc \in InSession BY DEF Complete, InSession
<1>c. session \in Sessions BY <1>a, <1>b DEF SessionHolds
<1>1. CASE (Throw \/ Gone) /\ UNCHANGED serverVars BY <1>1, <1>b, LeavingKeepsSound
<1>2. CASE /\ life' = [life EXCEPT ![session] = "gone"] /\ Gone /\ UNCHANGED <<held, late>>
  <2>1. ServerSound' BY <1>2, <1>a, <1>c, LifeKeepsServer
  <2>2. CallSound' BY <1>2, <1>a, <1>b, GoneKeepsCall
  <2> QED BY <2>1, <2>2 DEF UploadSound
<1>3. CASE /\ Missing(session) = {} /\ life' = [life EXCEPT ![session] = "done"]
           /\ \/ pc' = "done" /\ result' = session
              \/ pc' = "failed" /\ UNCHANGED result
           /\ UNCHANGED <<session, sealed, gaps, size, failures, todo, round, held, late>>
  <2>1. ServerSound' BY <1>3, <1>a, <1>c, LifeKeepsServer
  <2>2. CallTypeOK' BY <1>3, <1>a DEF CallTypeOK
  <2>3. SessionHolds' /\ GapsHold' BY <1>3 DEF SessionHolds, GapsHold, InSession
  <2>4. ResultHolds'
    <3>1. life'[session] = "done" BY <1>3, <1>a, <1>c DEF ServerTypeOK
    <3>2. result' # 0 => pc' = "done" /\ result' = session
      BY <1>3, <1>a, <1>b DEF ResultHolds
    <3> QED BY <3>1, <3>2 DEF ResultHolds
  <2> QED BY <2>1, <2>2, <2>3, <2>4 DEF UploadSound, CallSound
<1> QED BY <1>1, <1>2, <1>3 DEF Complete

\* The server by itself: sessions end, and late writes land.
LEMMA ServerKeepsSound ==
    ASSUME UploadSound,
           \/ \E s \in Sessions : Expire(s) \/ Close(s)
           \/ \E w \in late : Land(w)
    PROVE  UploadSound'
<1>a. CallSound /\ ServerSound /\ ServerTypeOK /\ ServerHolds
  BY DEF UploadSound, ServerSound
<1>b. UNCHANGED <<pc, session, sealed, gaps, size, failures, todo, round, result>>
  BY DEF Expire, Close, Land, callVars
<1>1. /\ ServerSound'
      /\ \A s \in Sessions : Missing(s)' \subseteq Missing(s)
      /\ \A s \in Sessions : life[s] = "done" => life'[s] = "done"
  <2>1. ASSUME NEW s \in Sessions, Expire(s) \/ Close(s)
        PROVE  /\ ServerSound' /\ \A x \in Sessions : Missing(x)' = Missing(x)
               /\ \A x \in Sessions : life[x] = "done" => life'[x] = "done"
    <3>1. PICK l \in {"done", "gone"} : /\ life' = [life EXCEPT ![s] = l]
                                        /\ l = "done" => Missing(s) = {}
      BY <2>1 DEF Expire, Close
    <3>2. life[s] # "done" /\ UNCHANGED <<held, late>> BY <2>1 DEF Expire, Close
    <3>3. ServerSound' /\ \A x \in Sessions : Missing(x)' = Missing(x)
      BY <3>1, <3>2, <1>a, LifeKeepsServer
    <3>4. \A x \in Sessions : life[x] = "done" => life'[x] = "done"
      BY <3>1, <3>2, <1>a DEF ServerTypeOK
    <3> QED BY <3>3, <3>4
  <2>2. ASSUME NEW w \in late, Land(w)
        PROVE  /\ ServerSound' /\ \A s \in Sessions : Missing(s)' \subseteq Missing(s)
               /\ life' = life
    <3>1. w \in Write /\ w.of = w.session BY <1>a DEF ServerTypeOK, ServerHolds
    <3>2. life' = life /\ late' \subseteq late /\ (held' = Stored(w) \/ held' = held)
      BY <2>2 DEF Land
    <3>3. CASE held' = Stored(w) BY <3>1, <3>2, <3>3, <1>a, WriteKeepsServer
    <3>4. CASE held' = held
      <4>1. late' \subseteq late \cup {w} BY <3>2
      <4> QED BY <3>1, <3>2, <3>4, <4>1, <1>a, LateKeepsServer
    <3> QED BY <3>2, <3>3, <3>4
  <2> QED BY <2>1, <2>2
<1>2. CallTypeOK' /\ SessionHolds' BY <1>a, <1>b DEF CallSound, CallTypeOK, SessionHolds
<1>3. GapsHold'
  <2>1. pc \in InSession => session \in Sessions BY <1>a DEF CallSound, SessionHolds
  <2>2. session \in Sessions => Missing(session)' \subseteq Missing(session) BY <1>1, <1>b
  <2> QED BY <2>1, <2>2, <1>a, <1>b DEF CallSound, GapsHold, InSession
<1>4. ResultHolds'
  <2>1. result # 0 => result \in Sessions BY <1>a, UploadNumbers DEF CallSound, CallTypeOK
  <2> QED BY <2>1, <1>1, <1>a, <1>b DEF CallSound, ResultHolds
<1> QED BY <1>1, <1>2, <1>3, <1>4 DEF UploadSound, CallSound

LEMMA UploadKeepsSound ==
    ASSUME UploadSound, UploadNext \/ UNCHANGED uploadVars
    PROVE  UploadSound'
<1>1. CASE UNCHANGED uploadVars
  <2>1. /\ UNCHANGED <<pc, session, sealed, gaps, size, failures, todo, round, result>>
        /\ UNCHANGED <<held, life, late>>
    BY <1>1 DEF uploadVars, callVars, serverVars
  <2>2. ServerSound' BY <2>1, RestKeepsServer DEF UploadSound, serverVars
  <2>3. CallSound' BY <2>1 DEF UploadSound, CallSound, CallTypeOK, SessionHolds, GapsHold,
                               ResultHolds, Missing
  <2> QED BY <2>2, <2>3 DEF UploadSound
<1>2. CASE UploadStep
  BY <1>2, TokenKeepsSound, StatusKeepsSound, PutChunkKeepsSound, EndKeepsSound,
     ResyncKeepsSound, PartUrlsKeepsSound, PutPartKeepsSound, PartStatusKeepsSound,
     CompleteKeepsSound DEF UploadStep
<1> QED BY <1>1, <1>2, ServerKeepsSound DEF UploadNext

LEMMA SoundUpload ==
    UploadSound => UploadTypeOK /\ ReturnedIsWhole /\ GapsCoverMissing
<1> SUFFICES ASSUME UploadSound PROVE UploadTypeOK /\ ReturnedIsWhole /\ GapsCoverMissing
  OBVIOUS
<1>a. CallTypeOK /\ ServerTypeOK /\ ResultHolds /\ GapsHold /\ ServerHolds
  BY DEF UploadSound, CallSound, ServerSound
<1>1. UploadTypeOK BY <1>a DEF CallTypeOK, ServerTypeOK, UploadTypeOK, InSession
<1>2. ReturnedIsWhole
  <2> SUFFICES ASSUME result # 0, NEW u \in Units
               PROVE  life[result] = "done" /\ held[result][u] = result
    BY <1>a DEF ReturnedIsWhole, ResultHolds
  <2>1. life[result] = "done" /\ result \in Sessions
    BY <1>a, UploadNumbers DEF ResultHolds, CallTypeOK
  <2>2. held[result][u] # 0 BY <2>1, <1>a DEF ServerHolds, Missing
  <2> QED BY <2>1, <2>2, <1>a DEF ServerHolds
<1>3. GapsCoverMissing BY <1>a DEF GapsHold, GapsCoverMissing
<1> QED BY <1>1, <1>2, <1>3

(***************************************************************************)
(* An upload of any size, in pieces of any size, under any retries: the    *)
(* token returned is of a session the server has every byte of, sealed for *)
(* that session, and until then no gap is forgotten                        *)
(* (src/chunked-upload.ts, uploadSealedAttachment).                        *)
(***************************************************************************)
THEOREM UploadHolds == PartsSpec => []UploadIsWhole
<1>1. PartsInit => UploadSound BY UploadStarts DEF PartsInit
<1>2. UploadSound /\ [PartsNext]_partsVars => UploadSound'
  <2> SUFFICES ASSUME UploadSound, PartsNext \/ UNCHANGED partsVars PROVE UploadSound'
    OBVIOUS
  <2>1. UploadNext \/ UNCHANGED uploadVars BY DEF PartsNext, RestExcept, partsVars
  <2> QED BY <2>1, UploadKeepsSound
<1>3. UploadSound => UploadIsWhole BY SoundUpload DEF UploadIsWhole
<1> QED BY <1>1, <1>2, <1>3, PTL DEF PartsSpec

-----------------------------------------------------------------------------
(* The banner of a UI (RuntimeState).                                      *)

\* The slice of a runtime that exists is where the client is, however late the
\* runtime was created.
SliceFollows ==
    live =>
        /\ slice.reachable = online
        /\ slice.authenticated <=> link = "authenticated"
        /\ link = "authenticated" =>
             /\ slice.error # "auth_expired"
             /\ syncing => feed \/ readiness \in {"authenticated", "syncing_critical"}

\* Nobody but a runtime that exists is told of expired credentials.
ExpiryHolds ==
    /\ expired => live
    /\ live /\ expired /\ loose = {} => slice.error = "auth_expired"

Slice == [reachable : BOOLEAN, gateway : BOOLEAN, authenticated : BOOLEAN,
          reconnecting : BOOLEAN, busy : BOOLEAN, error : Errors]

RuntimeTyped ==
    /\ link \in Links /\ readiness \in Readiness /\ queued \in 0..1
    /\ online \in BOOLEAN /\ expired \in BOOLEAN /\ live \in BOOLEAN
    /\ syncing \in BOOLEAN /\ hadSession \in BOOLEAN /\ feed \in BOOLEAN
    /\ slice \in Slice /\ loose \subseteq {"overruled"}

RuntimeSound == RuntimeTyped /\ SliceFollows /\ ExpiryHolds

\* What a connection state makes of a slice.
LEMMA ConnectionShows ==
    ASSUME NEW c \in Slice, NEW s \in Links, NEW had \in BOOLEAN
    PROVE  /\ ApplyConnectionState(s, c, had) \in Slice
           /\ ApplyConnectionState(s, c, had).reachable = c.reachable
           /\ ApplyConnectionState(s, c, had).authenticated <=> s = "authenticated"
           /\ s = "authenticated" => ApplyConnectionState(s, c, had).error = "none"
           /\ s # "authenticated" => ApplyConnectionState(s, c, had).error
                                       \in {c.error, "gateway_disconnected", "network_unavailable"}
BY DEF ApplyConnectionState, Slice, Errors, Links

\* What the other callbacks make of one.
LEMMA CallbacksShow ==
    ASSUME NEW c \in Slice
    PROVE  /\ \A d \in {ClearServerBusy(c), Busy(c)} :
                d \in Slice /\ d.reachable = c.reachable /\ d.authenticated = c.authenticated
           /\ ClearServerBusy(c).error \in {c.error, "none"}
           /\ ClearServerBusy(c).error = "none" => c.error \in {"none", "server_busy"}
           /\ Busy(c).error = "server_busy"
           /\ AuthLost(c) \in Slice /\ AuthLost(c).reachable = c.reachable
           /\ AuthLost(c).authenticated = FALSE /\ AuthLost(c).error = "auth_expired"
           /\ \A on \in BOOLEAN :
                /\ SetReachable(on, c) \in Slice /\ SetReachable(on, c).reachable = on
                /\ SetReachable(on, c).authenticated = c.authenticated
                /\ SetReachable(on, c).error \in {c.error, "network_unavailable"}
BY DEF ClearServerBusy, Busy, AuthLost, SetReachable, Slice, Errors

\* A slice that is shown stays what the flags say, and another error over an
\* expired session is remembered.
LEMMA ShowingKeeps ==
    ASSUME RuntimeSound, NEW c \in Slice, Shown(c), c.error # "none" \/ slice.error # "auth_expired"
    PROVE  /\ slice' \in Slice /\ loose' \subseteq {"overruled"}
           /\ live => slice' = c
           /\ live /\ expired /\ loose' = {} => c.error = "auth_expired"
<1>1. slice \in Slice /\ loose \subseteq {"overruled"} BY DEF RuntimeSound, RuntimeTyped
<1>2. slice' \in Slice /\ loose' \subseteq {"overruled"} /\ (live => slice' = c)
  BY <1>1 DEF Shown
<1>3. ASSUME live, expired, loose' = {} PROVE c.error = "auth_expired"
  <2>1. loose = {} BY <1>3 DEF Shown
  <2>2. slice.error = "auth_expired" BY <2>1, <1>3 DEF RuntimeSound, ExpiryHolds
  <2> QED BY <2>1, <2>2, <1>3 DEF Shown
<1> QED BY <1>2, <1>3

LEMMA RuntimeStarts == RuntimeInit => RuntimeSound
<1> SUFFICES ASSUME RuntimeInit PROVE RuntimeSound
  OBVIOUS
<1>a. Fresh \in Slice BY DEF Fresh, Slice, Errors
<1>1. slice \in Slice BY <1>a DEF RuntimeInit
<1>b. link \in Links /\ readiness \in Readiness /\ queued \in 0..1
  BY DEF RuntimeInit, Links, Readiness
<1>c. /\ online \in BOOLEAN /\ expired \in BOOLEAN /\ live \in BOOLEAN
      /\ syncing \in BOOLEAN /\ hadSession \in BOOLEAN /\ feed \in BOOLEAN
  BY Zenon DEF RuntimeInit
<1>d. loose \subseteq {"overruled"} BY DEF RuntimeInit
<1>2. RuntimeTyped BY <1>1, <1>b, <1>c, <1>d DEF RuntimeTyped
<1>3. SliceFollows /\ ExpiryHolds BY DEF RuntimeInit, SliceFollows, ExpiryHolds
<1> QED BY <1>2, <1>3 DEF RuntimeSound

LEMMA SetStateKeepsSound == ASSUME RuntimeSound, SetState PROVE RuntimeSound'
<1>a. /\ link \in Links /\ readiness \in Readiness /\ queued \in 0..1
      /\ online \in BOOLEAN /\ expired \in BOOLEAN /\ live \in BOOLEAN
      /\ syncing \in BOOLEAN /\ hadSession \in BOOLEAN /\ feed \in BOOLEAN
      /\ slice \in Slice /\ SliceFollows /\ ExpiryHolds
  BY DEF RuntimeSound, RuntimeTyped
<1>1. PICK s \in Steps[link] :
        /\ link' = s
        /\ readiness' = IF s \in Down THEN "disconnected"
                        ELSE IF s = "authenticated" THEN "authenticated" ELSE readiness
        /\ expired' = (expired /\ s # "authenticated")
        /\ Shown(ApplyConnectionState(s, slice, hadSession))
        /\ hadSession' = (hadSession \/ (live /\ s = "authenticated"))
        /\ UNCHANGED <<online, queued, live, syncing, feed>>
  BY DEF SetState
<1> DEFINE c == ApplyConnectionState(s, slice, hadSession)
<1>2. s \in Links BY <1>1, <1>a DEF Steps, Links
<1>3. /\ c \in Slice /\ c.reachable = slice.reachable
      /\ c.authenticated <=> s = "authenticated"
      /\ s = "authenticated" => c.error = "none"
      /\ s # "authenticated" =>
           c.error \in {slice.error, "gateway_disconnected", "network_unavailable"}
  BY <1>a, <1>2, ConnectionShows
<1>4. Shown(c) BY <1>1
<1> HIDE DEF c
<1>5. slice' \in Slice /\ loose' \subseteq {"overruled"} /\ (live => slice' = c)
  BY <1>3, <1>4, <1>a DEF Shown, RuntimeSound, RuntimeTyped
<1>6. ExpiryHolds'
  <2>1. expired' => live' BY <1>1, <1>a DEF ExpiryHolds
  <2>2. ASSUME live', expired', loose' = {} PROVE slice'.error = "auth_expired"
    <3>1. live /\ expired /\ s # "authenticated" BY <1>1, <2>2
    <3>2. loose = {} BY <1>4, <2>2 DEF Shown
    <3>3. slice.error = "auth_expired" BY <3>1, <3>2, <1>a DEF ExpiryHolds
    <3>4. c.error # "none" BY <3>1, <3>3, <1>3
    <3>5. c.error = "auth_expired" BY <1>4, <2>2, <3>1, <3>3, <3>4 DEF Shown
    <3> QED BY <3>1, <3>5, <1>5
  <2> QED BY <2>1, <2>2 DEF ExpiryHolds
<1>7. SliceFollows'
  <2> SUFFICES ASSUME live
               PROVE  /\ slice'.reachable = online
                      /\ slice'.authenticated <=> s = "authenticated"
                      /\ s = "authenticated" =>
                           slice'.error # "auth_expired" /\ readiness' = "authenticated"
    BY <1>1 DEF SliceFollows
  <2>1. slice' = c /\ slice.reachable = online BY <1>5, <1>a DEF SliceFollows
  <2>2. s = "authenticated" => readiness' = "authenticated" BY <1>1 DEF Down
  <2> QED BY <2>1, <2>2, <1>3
<1>8. readiness' \in Readiness /\ expired' \in BOOLEAN /\ hadSession' \in BOOLEAN
  BY <1>1, <1>a DEF Readiness
<1> QED BY <1>1, <1>2, <1>5, <1>6, <1>7, <1>8, <1>a DEF RuntimeSound, RuntimeTyped

LEMMA AuthRefusedKeepsSound == ASSUME RuntimeSound, AuthRefused PROVE RuntimeSound'
<1>a. /\ link \in Links /\ readiness \in Readiness /\ queued \in 0..1
      /\ online \in BOOLEAN /\ expired \in BOOLEAN /\ live \in BOOLEAN
      /\ syncing \in BOOLEAN /\ hadSession \in BOOLEAN /\ feed \in BOOLEAN
      /\ slice \in Slice /\ SliceFollows /\ ExpiryHolds
  BY DEF RuntimeSound, RuntimeTyped
<1>1. PICK s \in {"disconnected", "connected"} :
        /\ link' = s
        /\ readiness' = IF s \in Down THEN "disconnected" ELSE readiness
        /\ Shown(AuthLost(ApplyConnectionState(s, slice, hadSession)))
  BY DEF AuthRefused
<1>2. expired' = (expired \/ live) /\ UNCHANGED <<online, queued, live, syncing, hadSession, feed>>
  BY DEF AuthRefused
<1> DEFINE c == AuthLost(ApplyConnectionState(s, slice, hadSession))
<1>3. c \in Slice /\ c.reachable = slice.reachable /\ c.authenticated = FALSE
      /\ c.error = "auth_expired"
  <2>1. s \in Links BY DEF Links
  <2>2. /\ ApplyConnectionState(s, slice, hadSession) \in Slice
        /\ ApplyConnectionState(s, slice, hadSession).reachable = slice.reachable
    BY <1>a, <2>1, ConnectionShows
  <2> DEFINE b == ApplyConnectionState(s, slice, hadSession)
  <2>3. b \in Slice /\ b.reachable = slice.reachable BY <2>2
  <2> HIDE DEF b
  <2>4. /\ AuthLost(b) \in Slice /\ AuthLost(b).reachable = b.reachable
        /\ AuthLost(b).authenticated = FALSE /\ AuthLost(b).error = "auth_expired"
    BY <2>3, CallbacksShow
  <2> QED BY <2>3, <2>4 DEF b
<1>4. Shown(c) BY <1>1
<1> HIDE DEF c
<1>5. slice' \in Slice /\ loose' \subseteq {"overruled"} /\ (live => slice' = c)
  BY <1>3, <1>4, <1>a DEF Shown, RuntimeSound, RuntimeTyped
<1>6. ExpiryHolds' BY <1>2, <1>3, <1>5, <1>a DEF ExpiryHolds
<1>7. SliceFollows' BY <1>1, <1>2, <1>3, <1>5, <1>a DEF SliceFollows
<1>8. link' \in Links /\ readiness' \in Readiness /\ expired' \in BOOLEAN
  BY <1>1, <1>2, <1>a DEF Readiness, Links
<1> QED BY <1>2, <1>5, <1>6, <1>7, <1>8, <1>a DEF RuntimeSound, RuntimeTyped

\* A step that shows a slice of the same session, whatever it says of errors.
LEMMA ShowingKeepsSound ==
    ASSUME RuntimeSound, NEW c \in Slice, Shown(c),
           c.authenticated = slice.authenticated, live => c.reachable = online',
           c.error \in {slice.error, "network_unavailable", "server_busy"}
             \/ (c.error = "none" /\ slice.error # "auth_expired"),
           UNCHANGED <<link, expired, live, hadSession>>,
           readiness' \in Readiness, online' \in BOOLEAN, queued' \in 0..1,
           syncing' \in BOOLEAN, feed' \in BOOLEAN,
           live /\ syncing' /\ link = "authenticated" =>
             feed' \/ readiness' \in {"authenticated", "syncing_critical"}
    PROVE  RuntimeSound'
<1>a. /\ link \in Links /\ expired \in BOOLEAN /\ live \in BOOLEAN /\ hadSession \in BOOLEAN
      /\ SliceFollows /\ ExpiryHolds
  BY DEF RuntimeSound, RuntimeTyped
<1>1. /\ slice' \in Slice /\ loose' \subseteq {"overruled"}
      /\ live => slice' = c
      /\ live /\ expired /\ loose' = {} => c.error = "auth_expired"
  BY ShowingKeeps
<1>2. ExpiryHolds' BY <1>1, <1>a DEF ExpiryHolds
<1>3. live /\ link = "authenticated" => c.error # "auth_expired" BY <1>a DEF SliceFollows
<1>4. SliceFollows' BY <1>1, <1>3, <1>a DEF SliceFollows
<1> QED BY <1>1, <1>2, <1>4, <1>a DEF RuntimeSound, RuntimeTyped

LEMMA OtherRuntimeStepsKeepSound ==
    ASSUME RuntimeSound,
           \/ CriticalSync \/ OutboxChanges \/ BrowserGoes
           \/ MarkSyncStarted \/ MarkSyncCompleted \/ MarkSyncFailed \/ ServerBusySignal
    PROVE  RuntimeSound'
<1>a. /\ link \in Links /\ readiness \in Readiness /\ queued \in 0..1
      /\ online \in BOOLEAN /\ expired \in BOOLEAN /\ live \in BOOLEAN
      /\ syncing \in BOOLEAN /\ hadSession \in BOOLEAN /\ feed \in BOOLEAN
      /\ slice \in Slice /\ loose \subseteq {"overruled"} /\ SliceFollows /\ ExpiryHolds
  BY DEF RuntimeSound, RuntimeTyped
<1>b. live => slice.reachable = online BY <1>a DEF SliceFollows
<1>c. live /\ syncing /\ link = "authenticated" =>
        feed \/ readiness \in {"authenticated", "syncing_critical"}
  BY <1>a DEF SliceFollows
<1>d. /\ \A d \in {ClearServerBusy(slice), Busy(slice)} :
           d \in Slice /\ d.reachable = slice.reachable /\ d.authenticated = slice.authenticated
      /\ ClearServerBusy(slice).error \in {slice.error, "none"}
      /\ ClearServerBusy(slice).error = "none" => slice.error \in {"none", "server_busy"}
      /\ Busy(slice).error = "server_busy"
      /\ \A on \in BOOLEAN :
           /\ SetReachable(on, slice) \in Slice /\ SetReachable(on, slice).reachable = on
           /\ SetReachable(on, slice).authenticated = slice.authenticated
           /\ SetReachable(on, slice).error \in {slice.error, "network_unavailable"}
  BY ZenonT(60), <1>a, CallbacksShow
<1>1. CASE CriticalSync
  <2>1. PICK r \in Readiness :
          /\ readiness' = r /\ r \in {"syncing_critical", "ready", "critical_failed"}
          /\ syncing' = IF live THEN SyncRunning(r, syncing) ELSE syncing
          /\ Shown(IF r = "ready" THEN ClearServerBusy(slice) ELSE slice)
    BY <1>1 DEF CriticalSync, Readiness
  <2>2. UNCHANGED <<link, online, expired, queued, live, hadSession, feed>>
    BY <1>1 DEF CriticalSync
  <2>3. live => syncing' = (r = "syncing_critical") BY <2>1 DEF SyncRunning
  <2>4. syncing' \in BOOLEAN BY <2>1, <2>3, <1>a
  <2>5. CASE r = "ready"
    BY <2>1, <2>2, <2>3, <2>4, <2>5, <1>a, <1>b, <1>d, ShowingKeepsSound
  <2>6. CASE r # "ready"
    BY <2>1, <2>2, <2>3, <2>4, <2>6, <1>a, <1>b, ShowingKeepsSound
  <2> QED BY <2>5, <2>6
<1>2. CASE OutboxChanges
  <2>1. /\ queued' = 1 - queued /\ queued' \in 0..1
        /\ UNCHANGED <<link, readiness, online, expired, live, syncing, hadSession, feed>>
    BY <1>2, <1>a DEF OutboxChanges
  <2>2. CASE Shown(ClearServerBusy(slice))
    BY <2>1, <2>2, <1>a, <1>b, <1>c, <1>d, ShowingKeepsSound
  <2>3. CASE Shown(slice) BY <2>1, <2>3, <1>a, <1>b, <1>c, ShowingKeepsSound
  <2> QED BY <1>2, <2>2, <2>3 DEF OutboxChanges
<1>3. CASE BrowserGoes
  <2>1. /\ online' = ~online /\ online' \in BOOLEAN /\ Shown(SetReachable(online', slice))
        /\ UNCHANGED <<link, readiness, expired, queued, live, syncing, hadSession, feed>>
    BY <1>3, <1>a DEF BrowserGoes
  <2>2. PICK on \in BOOLEAN : online' = on BY <2>1
  <2>3. Shown(SetReachable(on, slice)) BY <2>1, <2>2
  <2> QED BY <2>1, <2>2, <2>3, <1>a, <1>c, <1>d, ShowingKeepsSound
<1>4. CASE MarkSyncStarted
  <2>1. /\ live /\ feed' = TRUE /\ syncing' = TRUE
        /\ UNCHANGED <<link, readiness, online, expired, queued, live, slice, hadSession, loose>>
    BY <1>4 DEF MarkSyncStarted, clientVars
  <2>2. SliceFollows' /\ ExpiryHolds' BY <2>1, <1>a DEF SliceFollows, ExpiryHolds
  <2> QED BY <2>1, <2>2, <1>a DEF RuntimeSound, RuntimeTyped
<1>5. CASE MarkSyncCompleted \/ MarkSyncFailed
  <2>1. /\ feed' = FALSE /\ syncing' = FALSE
        /\ UNCHANGED <<link, readiness, online, expired, queued, live, hadSession>>
    BY <1>5 DEF MarkSyncCompleted, MarkSyncFailed, clientVars
  <2>2. \/ Shown(ClearServerBusy(slice)) \/ Shown(Busy(slice)) \/ Shown(slice)
    BY <1>5 DEF MarkSyncCompleted, MarkSyncFailed
  <2>3. CASE Shown(ClearServerBusy(slice))
    BY <2>1, <2>3, <1>a, <1>b, <1>d, ShowingKeepsSound
  <2>4. CASE Shown(Busy(slice)) BY <2>1, <2>4, <1>a, <1>b, <1>d, ShowingKeepsSound
  <2>5. CASE Shown(slice) BY <2>1, <2>5, <1>a, <1>b, ShowingKeepsSound
  <2> QED BY <2>2, <2>3, <2>4, <2>5
<1>6. CASE ServerBusySignal
  <2>1. /\ Shown(Busy(slice))
        /\ UNCHANGED <<link, readiness, online, expired, queued, live, syncing, hadSession, feed>>
    BY <1>6 DEF ServerBusySignal, clientVars
  <2> QED BY <2>1, <1>a, <1>b, <1>c, <1>d, ShowingKeepsSound
<1> QED BY <1>1, <1>2, <1>3, <1>4, <1>5, <1>6

\* A runtime comes, is emptied, and goes.
LEMMA PageKeepsSound ==
    ASSUME RuntimeSound, CreateRuntime \/ ResetRuntime \/ DisposeRuntime
    PROVE  RuntimeSound'
<1>a. /\ link \in Links /\ readiness \in Readiness /\ queued \in 0..1
      /\ online \in BOOLEAN /\ expired \in BOOLEAN /\ live \in BOOLEAN
      /\ syncing \in BOOLEAN /\ hadSession \in BOOLEAN /\ feed \in BOOLEAN
      /\ slice \in Slice /\ loose \subseteq {"overruled"} /\ SliceFollows /\ ExpiryHolds
  BY DEF RuntimeSound, RuntimeTyped
<1>b. Fresh \in Slice /\ Fresh.reachable = TRUE /\ Fresh.authenticated = FALSE
  BY DEF Fresh, Slice, Errors
<1>1. CASE CreateRuntime
  <2> DEFINE start == IF online THEN Fresh ELSE SetReachable(FALSE, Fresh)
  <2>1. start \in Slice /\ start.reachable = online
    <3>1. SetReachable(FALSE, Fresh) \in Slice /\ SetReachable(FALSE, Fresh).reachable = FALSE
      BY <1>b, CallbacksShow
    <3> QED BY <3>1, <1>a, <1>b
  <2>2. /\ ~live /\ live' = TRUE /\ slice' = ApplyConnectionState(link, start, FALSE)
        /\ hadSession' = (link = "authenticated") /\ syncing' = SyncRunning(readiness, FALSE)
        /\ UNCHANGED <<link, readiness, online, expired, queued, feed, loose>>
    BY <1>1 DEF CreateRuntime, clientVars
  <2> HIDE DEF start
  <2>3. /\ slice' \in Slice /\ slice'.reachable = online
        /\ slice'.authenticated <=> link = "authenticated"
        /\ link = "authenticated" => slice'.error = "none"
    BY <1>a, <2>1, <2>2, ConnectionShows
  <2>4. syncing' = (readiness = "syncing_critical") BY <2>2 DEF SyncRunning
  <2>5. SliceFollows' BY <2>2, <2>3, <2>4 DEF SliceFollows
  <2>6. ExpiryHolds' BY <2>2, <1>a DEF ExpiryHolds
  <2> QED BY <2>2, <2>3, <2>4, <2>5, <2>6, <1>a DEF RuntimeSound, RuntimeTyped
<1>2. CASE ResetRuntime
  <2>1. /\ link = "disconnected" /\ slice' = [Fresh EXCEPT !.reachable = slice.reachable]
        /\ syncing' = FALSE /\ hadSession' = FALSE /\ feed' = FALSE /\ expired' = FALSE
        /\ loose' = {} /\ UNCHANGED <<link, readiness, online, queued, live>>
    BY <1>2 DEF ResetRuntime
  <2>2. slice' \in Slice /\ slice'.reachable = slice.reachable /\ slice'.authenticated = FALSE
    BY <2>1, <1>a DEF Fresh, Slice, Errors
  <2>3. SliceFollows' /\ ExpiryHolds' BY <2>1, <2>2, <1>a DEF SliceFollows, ExpiryHolds
  <2> QED BY <2>1, <2>2, <2>3, <1>a DEF RuntimeSound, RuntimeTyped
<1>3. CASE DisposeRuntime
  <2>1. /\ live' = FALSE /\ slice' = Fresh /\ syncing' = FALSE /\ hadSession' = FALSE
        /\ feed' = FALSE /\ loose' = {} /\ expired' = FALSE
        /\ UNCHANGED <<link, readiness, online, queued>>
    BY <1>3 DEF DisposeRuntime
  <2>2. SliceFollows' /\ ExpiryHolds' BY <2>1 DEF SliceFollows, ExpiryHolds
  <2> QED BY <2>1, <2>2, <1>a, <1>b DEF RuntimeSound, RuntimeTyped
<1> QED BY <1>1, <1>2, <1>3

LEMMA RuntimeKeepsSound ==
    ASSUME RuntimeSound, RuntimeNext \/ UNCHANGED runtimeVars
    PROVE  RuntimeSound'
<1>1. CASE UNCHANGED runtimeVars
  <2>1. UNCHANGED <<link, readiness, online, expired, queued, live, slice, syncing, hadSession,
                    feed, loose>>
    BY <1>1 DEF runtimeVars, clientVars
  <2> QED BY <2>1 DEF RuntimeSound, RuntimeTyped, SliceFollows, ExpiryHolds
<1> QED BY <1>1, SetStateKeepsSound, AuthRefusedKeepsSound, OtherRuntimeStepsKeepSound,
           PageKeepsSound DEF RuntimeNext

LEMMA SoundRuntime == RuntimeSound => BannerIsTrue /\ ExpiryIsShown
BY DEF RuntimeSound, SliceFollows, ExpiryHolds, RuntimeTyped, BannerIsTrue, ExpiryIsShown, Banner

-----------------------------------------------------------------------------
(* The pictures of users (AvatarCache).                                    *)

\* A copy that was handed out names the picture its object URL was made of.
Truthful(copy) == copy # NoCopy => copy.obj \in 1..made.n /\ made.of[copy.obj] = copy.src

\* One object URL is not revoked: the memo's.  What is shown as fresh is a copy
\* of the URL it was rendered for.
HandlesHold ==
    /\ 1..made.n \ dead = {memo.obj} \ {0}
    /\ Truthful(memo) /\ \A c \in Asked : Truthful(asked[c].got)
    /\ Truthful(showing.copy)
    /\ showing.fresh = "fresh_local" => showing.copy # NoCopy /\ showing.copy.src = showing.for

Copy    == [src : Urls, obj : Handles]
Asking  == [at : {"idle", "match", "read", "fetch", "put"}, url : Urls, got : Copy, blob : Urls]
AskedOK == asked \in [Asked -> Asking]

AvatarTyped ==
    /\ remote \in Urls /\ entry \in Urls /\ memo \in Copy /\ AskedOK
    /\ made \in [n : Handles, of : [1..MaxHandles -> Urls]] /\ dead \subseteq 1..made.n
    /\ showing.fresh \in {"fresh_local", "stale_local", "remote_only", "fallback"}

AvatarSound == AvatarTyped /\ HandlesHold

LEMMA AvatarNumbers ==
    /\ MaxUrls \in Nat /\ MaxHandles \in Nat /\ MaxUrls > 0 /\ MaxHandles > 0
    /\ 0 \in Urls /\ 1 \in Urls /\ 0 \in Handles /\ Handles \subseteq Nat
    /\ NoCopy \in Copy /\ NoCopy.obj = 0
BY AvatarAssumption DEF Urls, Handles, NoCopy, Copy

LEMMA AvatarStarts == AvatarInit => AvatarSound
<1> SUFFICES ASSUME AvatarInit PROVE AvatarSound
  OBVIOUS
<1>1. Waiting \in Asking BY AvatarNumbers DEF Waiting, Asking
<1>2. AskedOK BY <1>1 DEF AvatarInit, AskedOK
<1>3. made \in [n : Handles, of : [1..MaxHandles -> Urls]] /\ made.n = 0
  BY AvatarNumbers DEF AvatarInit
<1>4. AvatarTyped BY <1>2, <1>3, AvatarNumbers DEF AvatarInit, AvatarTyped
<1>5. HandlesHold
  <2>1. 1..made.n = {} BY <1>3
  <2> QED BY <2>1, AvatarNumbers DEF AvatarInit, HandlesHold, Truthful, Waiting
<1> QED BY <1>4, <1>5 DEF AvatarSound

\* A new object URL takes the place of the memo's; those made before show what
\* they showed.
LEMMA ReplacingKeeps ==
    ASSUME AvatarSound, NEW src \in Urls, ReplaceMemo(src)
    PROVE  /\ made' \in [n : Handles, of : [1..MaxHandles -> Urls]] /\ dead' \subseteq 1..made'.n
           /\ memo' \in Copy
           /\ 1..made'.n \ dead' = {memo'.obj} \ {0}
           /\ memo'.obj \in 1..made'.n /\ made'.of[memo'.obj] = memo'.src
           /\ \A copy : Truthful(copy) => Truthful(copy)'
<1>a. AvatarTyped /\ HandlesHold BY DEF AvatarSound
<1> DEFINE n == made.n
<1>1. n \in Nat /\ n < MaxHandles /\ MaxHandles \in Nat /\ dead \subseteq 1..n
      /\ made.of \in [1..MaxHandles -> Urls]
  BY <1>a, AvatarNumbers DEF ReplaceMemo, AvatarTyped, Handles
<1>2. /\ made' = [n |-> n + 1, of |-> [made.of EXCEPT ![n + 1] = src]]
      /\ dead' = dead \cup ({memo.obj} \ {0}) /\ memo' = [src |-> src, obj |-> n + 1]
  BY DEF ReplaceMemo
<1>3. 1..n \ dead = {memo.obj} \ {0} BY <1>a DEF HandlesHold
<1> HIDE DEF n
<1>4. n + 1 \in 1..MaxHandles /\ n + 1 \in Handles /\ 1..(n + 1) = (1..n) \cup {n + 1}
      /\ n + 1 \notin 1..n /\ n + 1 # 0
  BY <1>1 DEF Handles
<1>5. dead' = 1..n BY <1>1, <1>2, <1>3
<1>6. /\ made'.n = n + 1 /\ made'.of = [made.of EXCEPT ![n + 1] = src]
      /\ memo'.obj = n + 1 /\ memo'.src = src
  BY <1>2
<1>7. made'.of \in [1..MaxHandles -> Urls] /\ made'.of[n + 1] = src
      /\ \A h \in 1..n : made'.of[h] = made.of[h]
  BY <1>1, <1>4, <1>6
<1>8. made' \in [n : Handles, of : [1..MaxHandles -> Urls]] /\ memo' \in Copy
  BY <1>2, <1>4, <1>6, <1>7 DEF Copy
<1>9. \A copy : Truthful(copy) => Truthful(copy)'
  <2> SUFFICES ASSUME NEW copy, Truthful(copy), copy # NoCopy
               PROVE  copy.obj \in 1..made'.n /\ made'.of[copy.obj] = copy.src
    BY DEF Truthful
  <2>1. copy.obj \in 1..n /\ made.of[copy.obj] = copy.src BY DEF Truthful, n
  <2> QED BY <2>1, <1>4, <1>6, <1>7
<1> QED BY <1>4, <1>5, <1>6, <1>7, <1>8, <1>9

\* A caller moves on, holding what it may hold.
LEMMA MovingKeeps ==
    ASSUME AvatarSound, NEW c \in Asked, NEW next \in Asking,
           asked' = [asked EXCEPT ![c] = next], Truthful(next.got),
           UNCHANGED <<remote, entry, memo, made, dead, showing>>
    PROVE  AvatarSound'
<1>a. AvatarTyped /\ HandlesHold BY DEF AvatarSound
<1>1. asked \in [Asked -> Asking] BY <1>a DEF AvatarTyped, AskedOK
<1>2. AskedOK' BY <1>1 DEF AskedOK
<1>3. \A d \in Asked : asked'[d] = IF d = c THEN next ELSE asked[d] BY <1>1
<1>4. \A copy : Truthful(copy) => Truthful(copy)' BY DEF Truthful
<1>5. \A d \in Asked : Truthful(asked[d].got) BY <1>a DEF HandlesHold
<1>6. \A d \in Asked : Truthful(asked[d].got)'
  BY <1>3, <1>4, <1>5 DEF Truthful
<1>7. Truthful(memo)' /\ Truthful(showing.copy)' BY <1>a DEF HandlesHold, Truthful
<1>8. AvatarTyped' BY <1>a, <1>2 DEF AvatarTyped
<1>9. HandlesHold' BY <1>a, <1>6, <1>7 DEF HandlesHold, Truthful
<1> QED BY <1>8, <1>9 DEF AvatarSound

\* What a caller is answered: the copy, or nothing yet.
LEMMA WantsAnswers ==
    ASSUME NEW c \in Asked, NEW url \in Urls, NEW copy \in Copy, Wants(c, url, copy)
    PROVE  \E next \in Asking : /\ asked' = [asked EXCEPT ![c] = next]
                                /\ next.got \in {copy, NoCopy}
<1> DEFINE answer == [Waiting EXCEPT !.got = copy]
           start  == [Waiting EXCEPT !.at = "fetch", !.url = url]
<1>1. answer \in Asking /\ answer.got = copy BY AvatarNumbers DEF Asking, Waiting
<1>2. start \in Asking /\ start.got = NoCopy BY AvatarNumbers DEF Asking, Waiting
<1>3. asked' = [asked EXCEPT ![c] = answer] \/ asked' = [asked EXCEPT ![c] = start]
  BY DEF Wants, Returns
<1> HIDE DEF answer, start
<1> QED BY <1>1, <1>2, <1>3

\* The steps of a caller that make no object URL.
LEMMA AskingKeeps ==
    ASSUME AvatarSound, NEW c \in Asked,
           \/ \E url \in {0, remote} : AsksFor(c, url)
           \/ Matches(c) \/ Downloads(c)
    PROVE  AvatarSound'
<1>a. /\ remote \in Urls /\ entry \in Urls /\ memo \in Copy /\ Truthful(memo)
      /\ asked \in [Asked -> Asking] /\ asked[c] \in Asking /\ Truthful(asked[c].got)
  BY DEF AvatarSound, AvatarTyped, HandlesHold, AskedOK
<1>b. Truthful(NoCopy) BY DEF Truthful
<1>c. asked[c].url \in Urls /\ asked[c].got \in Copy /\ asked[c].blob \in Urls
  BY <1>a DEF Asking
<1>d. UNCHANGED <<remote, entry, memo, made, dead, showing>>
  BY DEF AsksFor, Matches, Downloads
<1>1. ASSUME NEW url \in Urls, NEW copy \in Copy, Truthful(copy), Wants(c, url, copy)
      PROVE  AvatarSound'
  BY <1>1, <1>b, <1>d, WantsAnswers, MovingKeeps
<1>2. ASSUME NEW url \in {0, remote}, AsksFor(c, url) PROVE AvatarSound'
  <2>1. url \in Urls BY <1>a, AvatarNumbers
  <2>2. CASE memo # NoCopy BY <2>1, <2>2, <1>1, <1>2, <1>a DEF AsksFor
  <2>3. CASE memo = NoCopy
    <3> DEFINE next == [Waiting EXCEPT !.at = "match", !.url = url]
    <3>1. next \in Asking /\ next.got = NoCopy BY <2>1, AvatarNumbers DEF Asking, Waiting
    <3>2. asked' = [asked EXCEPT ![c] = next] BY <1>2, <2>3 DEF AsksFor
    <3> HIDE DEF next
    <3> QED BY <3>1, <3>2, <1>b, <1>d, MovingKeeps
  <2> QED BY <2>2, <2>3
<1>3. ASSUME Matches(c) PROVE AvatarSound'
  <2>1. CASE entry = 0 BY <2>1, <1>1, <1>3, <1>b, <1>c, AvatarNumbers DEF Matches
  <2>2. CASE entry # 0
    <3> DEFINE next == [asked[c] EXCEPT !.at = "read", !.blob = entry]
    <3>1. next \in Asking /\ next.got = asked[c].got BY <1>a, <1>c DEF Asking
    <3>2. asked' = [asked EXCEPT ![c] = next] BY <1>3, <2>2, <1>a DEF Matches
    <3> HIDE DEF next
    <3> QED BY <3>1, <3>2, <1>a, <1>d, MovingKeeps
  <2> QED BY <2>1, <2>2
<1>4. ASSUME Downloads(c) PROVE AvatarSound'
  <2>1. CASE Returns(c, NoCopy)
    <3> DEFINE next == [Waiting EXCEPT !.got = NoCopy]
    <3>1. next \in Asking /\ next.got = NoCopy BY AvatarNumbers DEF Asking, Waiting
    <3>2. asked' = [asked EXCEPT ![c] = next] BY <2>1 DEF Returns
    <3> HIDE DEF next
    <3> QED BY <3>1, <3>2, <1>b, <1>d, MovingKeeps
  <2>2. CASE Goes(c, "put")
    <3> DEFINE next == [asked[c] EXCEPT !.at = "put"]
    <3>1. next \in Asking /\ next.got = asked[c].got BY <1>a, <1>c DEF Asking
    <3>2. asked' = [asked EXCEPT ![c] = next] BY <2>2, <1>a DEF Goes
    <3> HIDE DEF next
    <3> QED BY <3>1, <3>2, <1>a, <1>d, MovingKeeps
  <2> QED BY <2>1, <2>2, <1>4 DEF Downloads
<1> QED BY <1>2, <1>3, <1>4

\* The steps that make an object URL: the caller gets the memo's new copy.
LEMMA MakingKeeps ==
    ASSUME AvatarSound, NEW c \in Asked, NEW src \in Urls, ReplaceMemo(src),
           NEW next \in Asking, asked' = [asked EXCEPT ![c] = next],
           next.got \in {memo', NoCopy}, entry' \in Urls, UNCHANGED <<remote, showing>>
    PROVE  AvatarSound'
<1>a. AvatarTyped /\ HandlesHold BY DEF AvatarSound
<1>1. /\ made' \in [n : Handles, of : [1..MaxHandles -> Urls]] /\ dead' \subseteq 1..made'.n
      /\ memo' \in Copy /\ 1..made'.n \ dead' = {memo'.obj} \ {0}
      /\ memo'.obj \in 1..made'.n /\ made'.of[memo'.obj] = memo'.src
      /\ \A copy : Truthful(copy) => Truthful(copy)'
  BY ReplacingKeeps
<1>2. Truthful(memo)' BY <1>1 DEF Truthful
<1>3. asked \in [Asked -> Asking] BY <1>a DEF AvatarTyped, AskedOK
<1>4. AskedOK' BY <1>3 DEF AskedOK
<1>5. \A d \in Asked : asked'[d] = IF d = c THEN next ELSE asked[d] BY <1>3
<1>6. Truthful(NoCopy)' /\ (next.got = memo' => Truthful(next.got)')
  BY <1>2 DEF Truthful
<1>7. \A d \in Asked : Truthful(asked[d].got) BY <1>a DEF HandlesHold
<1>8. \A d \in Asked : Truthful(asked[d].got)'
  <2> SUFFICES ASSUME NEW d \in Asked PROVE Truthful(asked[d].got)'
    OBVIOUS
  <2>1. CASE d = c BY <2>1, <1>2, <1>5 DEF Truthful
  <2>2. CASE d # c BY <2>2, <1>1, <1>5, <1>7 DEF Truthful
  <2> QED BY <2>1, <2>2
<1>9. Truthful(showing.copy)'
  <2>1. Truthful(showing.copy) BY <1>a DEF HandlesHold
  <2> QED BY <2>1, <1>1 DEF Truthful
<1>10. AvatarTyped' BY <1>a, <1>1, <1>4 DEF AvatarTyped
<1>11. HandlesHold' BY <1>a, <1>1, <1>2, <1>8, <1>9 DEF HandlesHold, Truthful
<1> QED BY <1>10, <1>11 DEF AvatarSound

LEMMA AvatarKeepsSound ==
    ASSUME AvatarSound, AvatarNext \/ UNCHANGED avatarVars
    PROVE  AvatarSound'
<1>a. AvatarTyped /\ HandlesHold BY DEF AvatarSound
<1>b. asked \in [Asked -> Asking] BY <1>a DEF AvatarTyped, AskedOK
<1>1. CASE UNCHANGED avatarVars
  <2>1. UNCHANGED <<remote, entry, memo, made, dead, asked, showing>> BY <1>1 DEF avatarVars
  <2> QED BY <2>1 DEF AvatarSound, AvatarTyped, AskedOK, HandlesHold, Truthful
<1>2. CASE RemoteChanges
  <2>1. remote' \in Urls BY <1>2, <1>a, AvatarNumbers DEF RemoteChanges, AvatarTyped, Urls
  <2> QED BY <2>1, <1>2, <1>a
      DEF RemoteChanges, AvatarSound, AvatarTyped, AskedOK, HandlesHold, Truthful
<1>3. CASE Clears
  <2>1. /\ memo # NoCopy /\ dead' = dead \cup {memo.obj} /\ memo' = NoCopy
        /\ UNCHANGED <<remote, entry, made, asked, showing>>
    BY <1>3 DEF Clears
  <2>2. memo.obj \in 1..made.n BY <2>1, <1>a DEF HandlesHold, Truthful
  <2>3. dead' \subseteq 1..made'.n /\ 1..made'.n \ dead' = {memo'.obj} \ {0}
    BY <2>1, <2>2, <1>a, AvatarNumbers DEF AvatarTyped, HandlesHold
  <2>4. AvatarTyped' BY <2>1, <2>3, <1>a, AvatarNumbers DEF AvatarTyped, AskedOK
  <2>5. HandlesHold' BY <2>1, <2>3, <1>a DEF HandlesHold, Truthful
  <2> QED BY <2>4, <2>5 DEF AvatarSound
<1>4. ASSUME NEW c \in Asked, ReadsCopy(c) PROVE AvatarSound'
  <2>1. asked[c].blob \in Urls /\ asked[c].url \in Urls BY <1>b DEF Asking
  <2>2. memo' \in Copy BY <2>1, <1>4, ReplacingKeeps DEF ReadsCopy
  <2>3. PICK next \in Asking : /\ asked' = [asked EXCEPT ![c] = next]
                               /\ next.got \in {memo', NoCopy}
    BY <2>1, <2>2, <1>4, WantsAnswers DEF ReadsCopy
  <2>4. ReplaceMemo(asked[c].blob) /\ entry' \in Urls /\ UNCHANGED <<remote, showing>>
    BY <1>4, <1>a DEF ReadsCopy, AvatarTyped
  <2> QED BY <2>1, <2>3, <2>4, MakingKeeps
<1>5. ASSUME NEW c \in Asked, Puts(c) PROVE AvatarSound'
  <2>1. asked[c].url \in Urls BY <1>b DEF Asking
  <2>2. CASE entry' = asked[c].url /\ ReplaceMemo(asked[c].url) /\ Returns(c, memo')
    <3> DEFINE next == [Waiting EXCEPT !.got = memo']
    <3>1. memo' \in Copy BY <2>1, <2>2, ReplacingKeeps
    <3>2. next \in Asking /\ next.got = memo' BY <3>1, AvatarNumbers DEF Asking, Waiting
    <3>3. asked' = [asked EXCEPT ![c] = next] BY <2>2 DEF Returns
    <3>4. UNCHANGED <<remote, showing>> BY <1>5 DEF Puts
    <3> HIDE DEF next
    <3> QED BY <2>1, <2>2, <3>2, <3>3, <3>4, MakingKeeps
  <2>3. CASE Returns(c, NoCopy) /\ UNCHANGED <<entry, memo, made, dead>>
    <3> DEFINE next == [Waiting EXCEPT !.got = NoCopy]
    <3>1. next \in Asking /\ next.got = NoCopy BY AvatarNumbers DEF Asking, Waiting
    <3>2. asked' = [asked EXCEPT ![c] = next] BY <2>3 DEF Returns
    <3>3. Truthful(NoCopy) BY DEF Truthful
    <3>4. UNCHANGED <<remote, entry, memo, made, dead, showing>> BY <2>3, <1>5 DEF Puts
    <3> HIDE DEF next
    <3> QED BY <3>1, <3>2, <3>3, <3>4, MovingKeeps
  <2> QED BY <2>2, <2>3, <1>5 DEF Puts
<1>6. ASSUME NEW c \in Asked, Renders(c) PROVE AvatarSound'
  <2> DEFINE got == asked[c].got
  <2>1. /\ showing' = [copy |-> got, fresh |-> Freshness(got), for |-> remote]
        /\ UNCHANGED <<remote, entry, memo, made, dead, asked>>
    BY <1>6 DEF Renders
  <2>2. Truthful(got) BY <1>a DEF HandlesHold
  <2>3. /\ Freshness(got) \in {"fresh_local", "stale_local", "remote_only", "fallback"}
        /\ Freshness(got) = "fresh_local" => got # NoCopy /\ got.src = remote
    BY DEF Freshness
  <2> HIDE DEF got
  <2>4. /\ showing'.fresh \in {"fresh_local", "stale_local", "remote_only", "fallback"}
        /\ showing'.copy = got /\ showing'.for = remote
        /\ showing'.fresh = "fresh_local" => got # NoCopy /\ got.src = remote
    BY <2>1, <2>3
  <2>5. AvatarTyped' BY <2>1, <2>4, <1>a DEF AvatarTyped, AskedOK
  <2>6. HandlesHold' BY <2>1, <2>2, <2>4, <1>a DEF HandlesHold, Truthful
  <2> QED BY <2>5, <2>6 DEF AvatarSound
<1> QED BY <1>1, <1>2, <1>3, <1>4, <1>5, <1>6, AskingKeeps DEF AvatarNext

LEMMA SoundAvatar == AvatarSound => OneLiveHandle
<1> SUFFICES ASSUME AvatarSound PROVE OneLiveHandle
  OBVIOUS
<1>1. AvatarTyped /\ HandlesHold BY DEF AvatarSound
<1>2. memo.obj # 0 => made.of[memo.obj] = memo.src
  BY <1>1, AvatarNumbers DEF HandlesHold, Truthful
<1>3. showing.fresh = "fresh_local" => made.of[showing.copy.obj] = showing.for
  BY <1>1 DEF HandlesHold, Truthful
<1> QED BY <1>1, <1>2, <1>3 DEF OneLiveHandle, HandlesHold

(***************************************************************************)
(* Whatever order the callbacks, page loads and caller steps come in, the  *)
(* banner names the state the connection is in and says the credentials    *)
(* expired when they did (src/runtime), and the one live object URL of a   *)
(* user's picture is the memo's (src/runtime/avatar-cache.ts): for any     *)
(* number of callers, URLs and pictures.                                   *)
(***************************************************************************)
THEOREM ShownHolds == PartsSpec => []ShownIsTrue
<1>1. PartsInit => RuntimeSound /\ AvatarSound
  BY RuntimeStarts, AvatarStarts DEF PartsInit
<1>2. RuntimeSound /\ AvatarSound /\ [PartsNext]_partsVars => (RuntimeSound /\ AvatarSound)'
  <2> SUFFICES ASSUME RuntimeSound, AvatarSound, PartsNext \/ UNCHANGED partsVars
               PROVE  RuntimeSound' /\ AvatarSound'
    OBVIOUS
  <2>1. RuntimeNext \/ UNCHANGED runtimeVars BY DEF PartsNext, RestExcept, partsVars
  <2>2. AvatarNext \/ UNCHANGED avatarVars BY DEF PartsNext, RestExcept, partsVars
  <2> QED BY <2>1, <2>2, RuntimeKeepsSound, AvatarKeepsSound
<1>3. RuntimeSound /\ AvatarSound => ShownIsTrue
  BY SoundRuntime, SoundAvatar DEF ShownIsTrue
<1> QED BY <1>1, <1>2, <1>3, PTL DEF PartsSpec

-----------------------------------------------------------------------------
(* A message of this device (OwnMessage).                                  *)

\* c[k] is what is kept of the first k members of s, each once.
Uniting(c, X, s) ==
    /\ c \in [0..Len(s) -> Seq(X)] /\ c[0] = <<>>
    /\ \A k \in 1..Len(s) : c[k] = IF s[k] \in ToSet(c[k - 1]) THEN c[k - 1]
                                   ELSE Append(c[k - 1], s[k])

LEMMA UniqueSteps ==
    ASSUME NEW X, NEW s \in Seq(X)
    PROVE  \E c : Uniting(c, X, s) /\ Unique(s) = c[Len(s)]
<1> DEFINE D == 1..Len(s)
           F == [p \in Seq(X) \X X |-> IF p[2] \in ToSet(p[1]) THEN p[1] ELSE Append(p[1], p[2])]
           g == CHOOSE g : g = [t \in SUBSET DOMAIN s |->
                    IF t = {} THEN <<>>
                    ELSE IF s[Max(t)] \in ToSet(g[t \ {Max(t)}]) THEN g[t \ {Max(t)}]
                         ELSE Append(g[t \ {Max(t)}], s[Max(t)])]
           c == [k \in 0..Len(s) |-> g[1..k]]
           Wrong == {k \in 0..Len(s) : c[k] \notin Seq(X)}
<1>1. Len(s) \in Nat /\ DOMAIN s = D /\ \A i \in D : s[i] \in X
  OBVIOUS
<1>2. g = [t \in SUBSET D |-> IF t = {} THEN <<>>
                              ELSE IF s[Max(t)] \in ToSet(g[t \ {Max(t)}]) THEN g[t \ {Max(t)}]
                                   ELSE Append(g[t \ {Max(t)}], s[Max(t)])]
  <2>1. F \in [Seq(X) \X X -> Seq(X)] /\ <<>> \in Seq(X)
    OBVIOUS
  <2> HIDE DEF F
  <2>2. PICK h \in [SUBSET D -> Seq(X)] :
           \A t \in SUBSET D : h[t] = IF t = {} THEN <<>> ELSE F[<<h[t \ {Max(t)}], s[Max(t)]>>]
    <3>1. PICK Y : Y = Seq(X)
      OBVIOUS
    <3>2. F \in [Y \X X -> Y] /\ <<>> \in Y
      BY <2>1, <3>1
    <3>3. PICK h : FoldsWith(h, Y, F, <<>>, s)
      BY <3>2, FoldOver
    <3> QED BY <3>1, <3>3 DEF FoldsWith
  <2>3. \A t \in SUBSET D : t # {} => Max(t) \in D /\ t \ {Max(t)} \in SUBSET D
    BY <1>1, MaxIsMember
  <2>4. \A t \in SUBSET D :
           h[t] = IF t = {} THEN <<>>
                  ELSE IF s[Max(t)] \in ToSet(h[t \ {Max(t)}]) THEN h[t \ {Max(t)}]
                       ELSE Append(h[t \ {Max(t)}], s[Max(t)])
    <3> SUFFICES ASSUME NEW t \in SUBSET D
                 PROVE  h[t] = IF t = {} THEN <<>>
                               ELSE IF s[Max(t)] \in ToSet(h[t \ {Max(t)}]) THEN h[t \ {Max(t)}]
                                    ELSE Append(h[t \ {Max(t)}], s[Max(t)])
      OBVIOUS
    <3>1. CASE t = {}
      BY <3>1, <2>2
    <3>2. CASE t # {}
      <4>1. PICK a, x : a = h[t \ {Max(t)}] /\ x = s[Max(t)]
        OBVIOUS
      <4>2. a \in Seq(X) /\ x \in X
        BY <4>1, <3>2, <2>2, <2>3, <1>1
      <4>3. h[t] = F[<<a, x>>]
        BY <4>1, <3>2, <2>2
      <4>4. F[<<a, x>>] = IF x \in ToSet(a) THEN a ELSE Append(a, x)
        BY <4>2 DEF F
      <4> QED BY <4>1, <4>3, <4>4, <3>2
    <3> QED BY <3>1, <3>2
  <2>5. h = [t \in SUBSET D |-> IF t = {} THEN <<>>
                                ELSE IF s[Max(t)] \in ToSet(h[t \ {Max(t)}]) THEN h[t \ {Max(t)}]
                                     ELSE Append(h[t \ {Max(t)}], s[Max(t)])]
    <3> DEFINE k == [t \in SUBSET D |-> IF t = {} THEN <<>>
                                ELSE IF s[Max(t)] \in ToSet(h[t \ {Max(t)}]) THEN h[t \ {Max(t)}]
                                     ELSE Append(h[t \ {Max(t)}], s[Max(t)])]
    <3>1. \A t \in SUBSET D : h[t] = k[t]
      BY <2>4
    <3>2. k = [t \in SUBSET D |-> k[t]] /\ h = [t \in SUBSET D |-> h[t]]
      OBVIOUS
    <3> HIDE DEF k
    <3>3. h = k
      BY <3>1, <3>2
    <3> QED BY <3>3 DEF k
  <2> HIDE DEF D
  <2> QED BY <2>5, <1>1
<1>3. Unique(s) = g[DOMAIN s]
  BY DEF Unique, FoldLeft, MapThenFoldSet
<1> HIDE DEF g
<1>4. c[0] = <<>>
  <2>1. 1..0 = {}
    OBVIOUS
  <2> QED BY <1>1, <1>2, <2>1
<1>5. \A k \in 1..Len(s) : c[k] = IF s[k] \in ToSet(c[k - 1]) THEN c[k - 1]
                                  ELSE Append(c[k - 1], s[k])
  <2> SUFFICES ASSUME NEW k \in 1..Len(s)
               PROVE  c[k] = IF s[k] \in ToSet(c[k - 1]) THEN c[k - 1] ELSE Append(c[k - 1], s[k])
    OBVIOUS
  <2>1. k \in Nat /\ k # 0 /\ 1..k \in SUBSET D /\ 1..k # {} /\ k - 1 \in 0..Len(s) /\ k \in 0..Len(s)
    <3>1. k \in Nat /\ k # 0 /\ k <= Len(s) /\ k - 1 \in 0..Len(s) /\ k \in 0..Len(s)
      BY <1>1
    <3>2. 1 \in 1..k /\ \A i \in 1..k : i \in D
      BY <3>1, <1>1
    <3> QED BY <3>1, <3>2
  <2>2. Max(1..k) = k /\ (1..k) \ {k} = 1..(k - 1)
    BY <2>1, LastOfPrefix
  <2>3. g[1..k] = IF s[k] \in ToSet(g[1..(k - 1)]) THEN g[1..(k - 1)] ELSE Append(g[1..(k - 1)], s[k])
    <3> DEFINE t == 1..k
    <3>1. t \in SUBSET D /\ t # {} /\ Max(t) = k /\ t \ {k} = 1..(k - 1)
      BY <2>1, <2>2
    <3> HIDE DEF t, D
    <3>2. g[t] = IF s[Max(t)] \in ToSet(g[t \ {Max(t)}]) THEN g[t \ {Max(t)}]
                 ELSE Append(g[t \ {Max(t)}], s[Max(t)])
      BY <3>1, <1>2
    <3> QED BY <3>1, <3>2 DEF t
  <2> QED BY <2>1, <2>3
<1>6. Wrong = {}
  <2>1. Wrong \subseteq 0..Len(s) /\ 0 \notin Wrong
    BY <1>4
  <2>2. \A k \in 1..Len(s) : k \in Wrong => k - 1 \in Wrong
    <3> SUFFICES ASSUME NEW k \in 1..Len(s), c[k - 1] \in Seq(X) PROVE c[k] \in Seq(X)
      BY <1>1
    <3>1. s[k] \in X
      BY <1>1
    <3> HIDE DEF c
    <3>2. Append(c[k - 1], s[k]) \in Seq(X)
      BY <3>1, Appended
    <3> QED BY <1>5, <3>2
  <2> HIDE DEF Wrong
  <2> QED BY <2>1, <2>2, <1>1, NeverWrong
<1>7. c \in [0..Len(s) -> Seq(X)]
  <2>1. \A k \in 0..Len(s) : c[k] \in Seq(X)
    BY <1>6
  <2> QED BY <2>1
<1>8. Unique(s) = c[Len(s)]
  BY <1>1, <1>3
<1> HIDE DEF c
<1>9. Uniting(c, X, s)
  BY <1>4, <1>5, <1>7 DEF Uniting
<1> QED BY <1>8, <1>9

\* uniqueStrings drops members and moves none.
LEMMA UniqueMembers ==
    ASSUME NEW X, NEW s \in Seq(X)
    PROVE  /\ Unique(s) \in Seq(X) /\ Len(Unique(s)) \in Nat /\ Len(Unique(s)) <= Len(s)
           /\ Len(Unique(s)) = Len(s) => \A i \in 1..Len(s) : Unique(s)[i] = s[i]
<1>1. PICK c : Uniting(c, X, s) /\ Unique(s) = c[Len(s)]
  BY UniqueSteps
<1>2. /\ c \in [0..Len(s) -> Seq(X)] /\ c[0] = <<>>
      /\ \A k \in 1..Len(s) : c[k] = IF s[k] \in ToSet(c[k - 1]) THEN c[k - 1]
                                     ELSE Append(c[k - 1], s[k])
      /\ Len(s) \in Nat
  BY <1>1 DEF Uniting
<1> DEFINE Upto(k) == Len(c[k]) <= k /\ (Len(c[k]) = k => \A i \in 1..k : c[k][i] = s[i])
           Wrong == {k \in 0..Len(s) : ~Upto(k)}
<1>3. Wrong \subseteq 0..Len(s) /\ 0 \notin Wrong
  BY <1>2
<1>4. ASSUME NEW k \in 1..Len(s), k - 1 \notin Wrong PROVE k \notin Wrong
  <2>1. k - 1 \in 0..Len(s) /\ k \in Nat
    BY <1>2
  <2>2. Upto(k - 1)
    BY <1>4, <2>1
  <2>3. PICK a : a = c[k - 1]
    OBVIOUS
  <2>4. a \in Seq(X) /\ Len(a) \in Nat
    <3>1. a \in Seq(X)
      BY <2>3, <2>1, <1>2
    <3> QED BY <3>1
  <2>5. PICK x : x = s[k] /\ x \in X
    BY <1>2
  <2>6. Len(a) <= k - 1 /\ (Len(a) = k - 1 => \A i \in 1..(k - 1) : a[i] = s[i])
    BY <2>2, <2>3
  <2>7. CASE x \in ToSet(a)
    <3>1. c[k] = a
      BY <2>7, <2>3, <2>5, <1>2
    <3>2. Len(a) <= k /\ Len(a) # k
      BY <2>1, <2>4, <2>6
    <3>3. Upto(k)
      BY <3>1, <3>2
    <3> HIDE DEF Upto
    <3> QED BY <3>3
  <2>8. CASE x \notin ToSet(a)
    <3>1. c[k] = Append(a, x)
      BY <2>8, <2>3, <2>5, <1>2
    <3>2. Len(c[k]) = Len(a) + 1 /\ c[k][Len(a) + 1] = x /\ \A i \in 1..Len(a) : c[k][i] = a[i]
      BY <3>1, <2>4, <2>5, Appended
    <3>3. Len(a) + 1 = k => \A i \in 1..k : c[k][i] = s[i]
      <4> SUFFICES ASSUME Len(a) + 1 = k, NEW i \in 1..k PROVE c[k][i] = s[i]
        OBVIOUS
      <4>1. CASE i = k
        BY <4>1, <3>2, <2>5
      <4>2. CASE i # k
        <5>1. i \in 1..(k - 1) /\ Len(a) = k - 1
          BY <4>2, <2>1, <2>4
        <5> QED BY <5>1, <3>2, <2>6
      <4> QED BY <4>1, <4>2
    <3>4. Upto(k)
      BY <3>2, <3>3, <2>1, <2>4, <2>6
    <3> HIDE DEF Upto
    <3> QED BY <3>4
  <2> QED BY <2>7, <2>8
<1>5. Wrong = {}
  <2> HIDE DEF Wrong
  <2> QED BY <1>2, <1>3, <1>4, NeverWrong
<1>6. Upto(Len(s)) /\ c[Len(s)] \in Seq(X)
  <2>1. Len(s) \in 0..Len(s)
    BY <1>2
  <2> HIDE DEF Upto
  <2> QED BY <1>2, <1>5, <2>1
<1> QED BY <1>1, <1>6

\* p[1] to p[m] rise, up to z.
Rising(p, m, z) ==
    /\ \A i \in 1..m : p[i] \in 1..z
    /\ \A i, j \in 1..m : i < j => p[i] < p[j]

Among(p, m, q, n) == \A i \in 1..m : \E j \in 1..n : q[j] = p[i]

\* Two rising lists of places, one within the other.
LEMMA RisingPlaces ==
    ASSUME NEW m \in Nat, NEW n \in Nat, NEW z \in Nat,
           NEW p, Rising(p, m, z), NEW q, Rising(q, n, z), Among(p, m, q, n)
    PROVE  m <= n /\ (m = n => \A i \in 1..m : p[i] = q[i])
<1> USE DEF Rising, Among
<1> DEFINE h == [i \in 1..m |-> CHOOSE j \in 1..n : q[j] = p[i]]
<1>1. \A i \in 1..m : h[i] \in 1..n /\ q[h[i]] = p[i]
  OBVIOUS
<1>2. h \in [1..m -> 1..n]
  BY <1>1
<1> HIDE DEF h
<1>3. \A i, j \in 1..m : h[i] = h[j] => i = j
  <2> SUFFICES ASSUME NEW i \in 1..m, NEW j \in 1..m, h[i] = h[j], i # j PROVE FALSE
    OBVIOUS
  <2>1. p[i] = p[j]
    BY <1>1
  <2>2. i < j \/ j < i
    OBVIOUS
  <2>3. p[i] < p[j] \/ p[j] < p[i]
    BY <2>2
  <2>4. p[i] \in Nat /\ p[j] \in Nat
    OBVIOUS
  <2> QED BY <2>1, <2>3, <2>4
<1>4. PICK A : A = 1..m
  OBVIOUS
<1>5. PICK B : B = 1..n
  OBVIOUS
<1>6. IsFiniteSet(A) /\ Cardinality(A) = m
  <2>1. 1 \in Int /\ m \in Int
    OBVIOUS
  <2>2. IsFiniteSet(A) /\ Cardinality(A) = IF 1 > m THEN 0 ELSE m - 1 + 1
    BY <1>4, <2>1, FS_Interval
  <2> QED BY <2>2
<1>7. IsFiniteSet(B) /\ Cardinality(B) = n
  <2>1. 1 \in Int /\ n \in Int
    OBVIOUS
  <2>2. IsFiniteSet(B) /\ Cardinality(B) = IF 1 > n THEN 0 ELSE n - 1 + 1
    BY <1>5, <2>1, FS_Interval
  <2> QED BY <2>2
<1>8. h \in Injection(A, B)
  BY <1>2, <1>3, <1>4, <1>5 DEF Injection, IsInjective
<1>9. m <= n /\ (m = n => h \in Surjection(A, B))
  BY <1>6, <1>7, <1>8, FS_Injection
<1>10. ASSUME m = n PROVE \A i \in 1..m : p[i] = q[i]
  <2>0. /\ A = B
        /\ \A i \in 1..m : q[i] \in 1..z /\ p[i] \in 1..z
        /\ \A i, j \in 1..m : i < j => q[i] < q[j]
        /\ \A i \in 1..m : \E j \in 1..m : q[j] = p[i]
    BY <1>4, <1>5, <1>10
  <2>1. \A j \in 1..m : \E i \in 1..m : p[i] = q[j]
    <3>1. \A j \in A : \E i \in A : h[i] = j
      BY <2>0, <1>9, <1>10 DEF Surjection
    <3>2. \A i \in A : q[h[i]] = p[i]
      BY <1>1, <1>4
    <3>3. \A j \in A : \E i \in A : p[i] = q[j]
      BY <3>1, <3>2
    <3> QED BY <3>3, <1>4
  <2> DEFINE T == {i \in 1..m : p[i] # q[i]}
  <2>2. ASSUME T # {} PROVE FALSE
    <3>1. T \subseteq Nat
      OBVIOUS
    <3>2. PICK k \in T : \A j \in T : k <= j
      BY <2>2, <3>1, LeastNumber
    <3>3. k \in 1..m /\ p[k] # q[k] /\ p[k] \in Nat /\ q[k] \in Nat
      BY <2>0
    <3>4. \A j \in 1..m : j < k => p[j] = q[j]
      <4> SUFFICES ASSUME NEW j \in 1..m, j < k PROVE p[j] = q[j]
        OBVIOUS
      <4>1. j \notin T
        BY <3>2, <3>3
      <4> QED BY <4>1
    <3>5. CASE p[k] < q[k]
      <4>1. PICK j \in 1..m : q[j] = p[k]
        BY <3>3, <2>0
      <4>2. ~(k < j) /\ k # j
        <5>1. k < j => q[k] < q[j]
          BY <3>3, <2>0
        <5> QED BY <3>3, <3>5, <4>1, <5>1
      <4>3. j < k
        BY <3>3, <4>2
      <4>4. p[j] < p[k] /\ p[j] = q[j]
        BY <3>3, <3>4, <4>3
      <4> QED BY <3>3, <4>1, <4>4
    <3>6. CASE q[k] < p[k]
      <4>1. PICK j \in 1..m : p[j] = q[k]
        BY <2>1, <3>3
      <4>2. ~(k < j) /\ k # j
        BY <3>3, <3>6, <4>1
      <4>3. j < k
        BY <3>3, <4>2
      <4>4. q[j] < q[k] /\ p[j] = q[j]
        BY <3>3, <3>4, <4>3, <2>0
      <4>5. q[k] < q[k]
        BY <4>1, <4>4
      <4> QED BY <3>3, <4>5
    <3> QED BY <3>3, <3>5, <3>6
  <2> QED BY <2>2
<1> QED BY <1>9, <1>10

\* The marks of those named, everybody among them.
NamedIn(marks) == Selected(marks, Named \cup {"here"})

\* Marks that name nobody in particular, and those that name.
LEMMA MarksOf ==
    ASSUME NEW marks \in Texts
    PROVE  /\ marks \in Seq(Marks) /\ Len(marks) \in Nat /\ Len(marks) <= MaxTokens
           /\ MaxTokens \in Nat /\ Marks \ {"link"} = Named \cup {"here"}
           /\ Spans(marks) = NamedIn(marks)
<1>1. MaxTokens \in Nat
  BY TextAssumption
<1>2. PICK n \in 0..MaxTokens : marks \in [1..n -> Marks]
  BY DEF Texts
<1>3. n \in Nat
  BY <1>1, <1>2
<1>4. PICK X : X = Marks
  OBVIOUS
<1>5. marks \in Seq(X) /\ Len(marks) = n
  BY <1>2, <1>3, <1>4
<1>6. Marks \ {"link"} = Named \cup {"here"}
  BY NamedAssumption DEF Marks
<1>7. marks \in Seq(Marks) /\ Len(marks) \in Nat /\ Len(marks) <= MaxTokens
  BY <1>1, <1>2, <1>3, <1>4, <1>5
<1> QED BY <1>1, <1>6, <1>7 DEF Spans, NamedIn

OnlyNamed(people) == \A i \in 1..Len(people) : people[i] \in Named

\* The people picked are some of those named in the text, in its order.
LEMMA PickedMembers ==
    ASSUME NEW marks \in Texts, NEW picks,
           NEW people, people = PickedIn(marks, picks),
           OnlyNamed(people), NEW marked, marked = NamedIn(marks)
    PROVE  /\ people \in Seq(Named) /\ Len(people) \in Nat /\ Len(people) <= MaxTokens
           /\ people \in [1..Len(people) -> Named]
           /\ marked \in Seq(Marks) /\ Len(marked) \in Nat /\ Len(people) <= Len(marked)
           /\ Len(people) = Len(marked) => \A i \in 1..Len(marked) : people[i] = marked[i]
<1> USE DEF OnlyNamed, NamedIn
<1>1. /\ marks \in Seq(Marks) /\ Len(marks) \in Nat /\ Len(marks) <= MaxTokens /\ MaxTokens \in Nat
  BY MarksOf
<1>2. PICK z : z = Len(marks) /\ z \in Nat
  BY <1>1
<1>3. PICK row : row = [i \in 1..z |-> i]
  OBVIOUS
<1>4. row \in Seq(Nat) /\ Len(row) = z /\ \A i \in 1..z : row[i] = i
  <2>1. \A i \in 1..z : i \in Nat
    BY <1>2
  <2>2. row \in [1..z -> Nat]
    BY <1>3, <2>1
  <2> QED BY <1>2, <1>3, <2>2
<1>5. PICK at : at = Selected(row, picks)
  OBVIOUS
<1>6. at \in Seq(Nat) /\ \E e : PlacesOf(e, row, picks, at)
  <2>1. PICK X : X = Nat
    OBVIOUS
  <2> QED BY <1>4, <1>5, <2>1, SelectedPlaces
<1>7. PICK p : PlacesOf(p, row, picks, at)
  BY <1>6
<1>8. PICK m : m = Len(at) /\ m \in Nat
  BY <1>6
<1>9. /\ p \in [1..m -> 1..z] /\ \A i, j \in 1..m : i < j => p[i] < p[j]
      /\ \A i \in 1..m : at[i] = p[i]
  <2>1. /\ p \in [1..m -> 1..z] /\ \A i, j \in 1..m : i < j => p[i] < p[j]
        /\ \A i \in 1..m : at[i] = row[p[i]]
    BY <1>4, <1>7, <1>8 DEF PlacesOf
  <2> QED BY <1>4, <2>1
<1>10. people = [i \in 1..m |-> marks[at[i]]]
  BY <1>2, <1>3, <1>5, <1>8 DEF PickedIn
<1>11. DOMAIN people = 1..m /\ \A i \in 1..m : people[i] = marks[p[i]]
  BY <1>9, <1>10
<1>12. Len(people) = m
  <2>1. \A i \in 1..m : p[i] \in 1..z
    BY <1>9
  <2>2. \A i \in 1..z : marks[i] \in Marks
    BY <1>1, <1>2
  <2>3. people \in [1..m -> Marks]
    BY <1>10, <1>11, <2>1, <2>2
  <2>4. PICK X : X = Marks
    OBVIOUS
  <2>5. people \in Seq(X)
    BY <1>8, <2>3, <2>4
  <2> QED BY <1>8, <1>11, <2>5
<1>13. people \in [1..m -> Named]
  <2>1. \A i \in 1..m : people[i] \in Named
    BY <1>12
  <2> QED BY <1>10, <2>1
<1>14. people \in Seq(Named)
  BY <1>8, <1>13
<1>15. PICK S : S = Named \cup {"here"}
  OBVIOUS
<1>16. PICK X : X = Marks
  OBVIOUS
<1>17. marked \in Seq(X) /\ \E e : PlacesOf(e, marks, S, marked)
  <2>1. marks \in Seq(X)
    BY <1>1, <1>16
  <2> QED BY <2>1, <1>15, SelectedPlaces
<1>18. PICK q : PlacesOf(q, marks, S, marked)
  BY <1>17
<1>19. PICK n : n = Len(marked) /\ n \in Nat
  BY <1>17
<1>20. /\ q \in [1..n -> 1..z] /\ \A i, j \in 1..n : i < j => q[i] < q[j]
       /\ \A i \in 1..n : marked[i] = marks[q[i]]
       /\ \A j \in 1..z : marks[j] \in S => \E i \in 1..n : q[i] = j
  BY <1>2, <1>18, <1>19 DEF PlacesOf
<1>21. \A i \in 1..m : \E j \in 1..n : q[j] = p[i]
  <2> SUFFICES ASSUME NEW i \in 1..m PROVE \E j \in 1..n : q[j] = p[i]
    OBVIOUS
  <2>1. p[i] \in 1..z
    BY <1>9
  <2>2. marks[p[i]] \in S
    BY <1>11, <1>12, <1>15
  <2> QED BY <1>20, <2>1, <2>2
<1>22. m <= n /\ (m = n => \A i \in 1..m : p[i] = q[i])
  <2>1. Rising(p, m, z) /\ Rising(q, n, z) /\ Among(p, m, q, n)
    BY <1>9, <1>20, <1>21 DEF Rising, Among
  <2> QED BY <2>1, <1>2, <1>8, <1>19, RisingPlaces
<1>23. ASSUME m = n PROVE \A i \in 1..n : people[i] = marked[i]
  <2> SUFFICES ASSUME NEW i \in 1..n PROVE people[i] = marked[i]
    OBVIOUS
  <2>1. i \in 1..m
    BY <1>23
  <2>2. p[i] = q[i]
    BY <2>1, <1>22, <1>23
  <2>3. people[i] = marks[p[i]]
    BY <2>1, <1>11
  <2>4. marked[i] = marks[q[i]]
    BY <1>20
  <2> QED BY <2>2, <2>3, <2>4
<1>24. m <= MaxTokens
  <2>1. PICK A : A = 1..m
    OBVIOUS
  <2>2. PICK B : B = 1..z
    OBVIOUS
  <2>3. p \in Injection(A, B)
    <3>1. \A i, j \in 1..m : p[i] = p[j] => i = j
      <4> SUFFICES ASSUME NEW i \in 1..m, NEW j \in 1..m, p[i] = p[j], i # j PROVE FALSE
        OBVIOUS
      <4>1. i < j \/ j < i
        OBVIOUS
      <4>2. p[i] < p[j] \/ p[j] < p[i]
        BY <1>9, <4>1
      <4>3. p[i] \in 1..z
        BY <1>9
      <4> QED BY <4>2, <4>3, <1>2
    <3> QED BY <3>1, <1>9, <2>1, <2>2 DEF Injection, IsInjective
  <2>4. IsFiniteSet(A) /\ Cardinality(A) = m
    <3>1. 1 \in Int /\ m \in Int
      BY <1>8
    <3>2. IsFiniteSet(A) /\ Cardinality(A) = IF 1 > m THEN 0 ELSE m - 1 + 1
      BY <2>1, <3>1, FS_Interval
    <3> QED BY <3>2, <1>8
  <2>5. IsFiniteSet(B) /\ Cardinality(B) = z
    <3>1. 1 \in Int /\ z \in Int
      BY <1>2
    <3>2. IsFiniteSet(B) /\ Cardinality(B) = IF 1 > z THEN 0 ELSE z - 1 + 1
      BY <2>2, <3>1, FS_Interval
    <3> QED BY <3>2, <1>2
  <2>6. m <= z
    BY <2>3, <2>4, <2>5, FS_Injection
  <2> QED BY <2>6, <1>1, <1>2, <1>8
<1> QED BY <1>8, <1>12, <1>13, <1>14, <1>16, <1>17, <1>19, <1>22, <1>23, <1>24

\* The bytes of a draft, and whom they mention.
People == UNION {[1..n -> Named] : n \in 0..MaxTokens}

\* What a draft is, however it was made.
LEMMA DraftParts ==
    ASSUME MaxWraps <= 2, NEW d \in OwnDrafts
    PROVE  /\ d.tag \in Tags /\ d.text \in OwnTexts /\ d.marks \in Texts
           /\ d.payload \in OwnPayloads \cup {NoBytes} /\ d.early \in BOOLEAN
           /\ d.reply \in {"none", "id"} /\ d.people \in People
           /\ d.people \in Seq(Named)
           /\ Content(d) = Plain(0)
           /\ d.payload # NoBytes => /\ d.payload = MediaPayload(Plain(0))
                                     /\ d.people = <<>> /\ ReplyOf(d) = "none"
           /\ Len(d.people) <= Len(NamedIn(d.marks))
           /\ NamedIn(d.marks) \in Seq(Marks)
           /\ Len(d.people) = Len(NamedIn(d.marks)) =>
                 \A i \in 1..Len(d.people) : d.people[i] = NamedIn(d.marks)[i]
<1>1. MaxWraps \in Nat /\ MaxTokens \in Nat
  BY TextAssumption
<1>2. /\ Plain(0) = [wraps |-> 0, reply |-> "none"] /\ Plain(0).wraps = 0 /\ Plain(0).reply = "none"
      /\ Plain(0) \in OwnTexts
  BY DEF Plain, OwnTexts, Replies
<1>3. PICK marked : marked = NamedIn(d.marks)
  OBVIOUS
<1>4. CASE d \in TextDrafts /\ Sendable(d)
  <2>1. PICK tag \in {"text", "new"},
             text \in {t \in [wraps : 0..MaxWraps, reply : Replies] : t.wraps = 0 => t.reply = "none"},
             marks \in Texts, picks \in SUBSET (1..MaxTokens), reply \in {"none", "id"},
             early \in BOOLEAN :
                 d = [tag |-> tag, text |-> text, marks |-> marks, people |-> PickedIn(marks, picks),
                      reply |-> reply, payload |-> NoBytes, early |-> early]
    BY <1>4 DEF TextDrafts
  <2>2. /\ d.tag = tag /\ d.text = text /\ d.marks = marks /\ d.people = PickedIn(marks, picks)
        /\ d.reply = reply /\ d.payload = NoBytes /\ d.early = early
    BY <2>1
  <2>3. text.wraps \in 0..MaxWraps /\ text.reply \in Replies /\ (text.wraps = 0 => text.reply = "none")
        /\ text = [wraps |-> text.wraps, reply |-> text.reply]
    OBVIOUS
  <2>4. text \in OwnTexts
    <3>1. text.wraps \in 0..9
      BY <1>1, <2>3
    <3> QED BY <2>3, <3>1 DEF OwnTexts
  <2>5. Content(d) = Plain(0)
    <3>1. CASE text.wraps > 0
      <4>1. ~(text.wraps > 3)
        BY <1>1, <2>3
      <4> QED BY <2>2, <3>1, <4>1 DEF Content, IsLegacy, Unwrapped
    <3>2. CASE text.wraps = 0
      BY <2>2, <2>3, <3>2, <1>2 DEF Content, IsLegacy
    <3> QED BY <3>1, <3>2, <2>3, <1>1
  <2>6. PICK people : people = PickedIn(marks, picks)
    OBVIOUS
  <2>7. \A i \in 1..Len(people) : people[i] \in Named
    BY <1>4, <2>2, <2>6 DEF Sendable
  <2>8. /\ people \in Seq(Named) /\ Len(people) \in Nat /\ Len(people) <= MaxTokens
        /\ people \in [1..Len(people) -> Named]
        /\ marked \in Seq(Marks) /\ Len(marked) \in Nat /\ Len(people) <= Len(marked)
        /\ Len(people) = Len(marked) => \A i \in 1..Len(marked) : people[i] = marked[i]
    <3>1. marked = NamedIn(marks)
      BY <1>3, <2>2
    <3>2. OnlyNamed(people)
      BY <2>7 DEF OnlyNamed
    <3> QED BY <3>1, <3>2, <2>6, PickedMembers
  <2>9. people \in People
    <3>1. Len(people) \in 0..MaxTokens
      BY <2>8, <1>1
    <3> QED BY <3>1, <2>8 DEF People
  <2>10. d.tag \in Tags
    BY <2>2 DEF Tags
  <2>11. d.payload \in OwnPayloads \cup {NoBytes} /\ d.payload = NoBytes
    BY <2>2
  <2>12. Len(people) = Len(marked) => \A i \in 1..Len(people) : people[i] = marked[i]
    BY <2>8
  <2>13. d.people = people /\ d.early \in BOOLEAN /\ d.reply \in {"none", "id"} /\ d.marks \in Texts
    BY <2>2, <2>6
  <2>14. d.text \in OwnTexts
    BY <2>2, <2>4
  <2> QED BY <2>5, <2>8, <2>9, <2>10, <2>11, <2>12, <2>13, <2>14, <1>3
<1>5. CASE d \in MediaDrafts
  <2>1. PICK tag \in {"image", "voice"} :
            d = [tag |-> tag, text |-> Plain(0), marks |-> <<>>, people |-> <<>>,
                 reply |-> "none", payload |-> MediaPayload(Plain(0)), early |-> FALSE]
    BY <1>5 DEF MediaDrafts
  <2>2. /\ d.tag = tag /\ d.text = Plain(0) /\ d.marks = <<>> /\ d.people = <<>>
        /\ d.reply = "none" /\ d.payload = MediaPayload(Plain(0)) /\ d.early = FALSE
    BY <2>1
  <2>3. PICK none : none = <<>>
    OBVIOUS
  <2>4. 0 \in 0..MaxTokens /\ 1..0 = {}
    BY <1>1
  <2>5. none \in Seq(Named) /\ none \in [1..0 -> Named] /\ Len(none) = 0 /\ none \in [1..0 -> Marks]
    BY <2>3
  <2>6. none \in People /\ none \in Texts
    BY <2>4, <2>5 DEF People, Texts
  <2>7. Content(d) = Plain(0) /\ ReplyOf(d) = "none"
    BY <2>2, <1>2 DEF Content, IsLegacy, ReplyOf, ProtocolId
  <2>8. MediaPayload(Plain(0)) \in OwnPayloads
    BY <1>2, <2>3, <2>6 DEF MediaPayload, OwnPayloads, People
  <2>9. marked \in Seq(Marks) /\ Len(marked) \in Nat
    <3>1. PICK S : S = Named \cup {"here"}
      OBVIOUS
    <3>2. PICK X : X = Marks
      OBVIOUS
    <3>3. none \in Seq(X)
      BY <2>3
    <3>4. marked = Selected(none, S)
      BY <1>3, <2>2, <2>3, <3>1 DEF NamedIn
    <3>5. marked \in Seq(X)
      BY <3>3, <3>4, SelectedPlaces
    <3> QED BY <3>2, <3>5
  <2>10. d.tag \in Tags /\ d.early \in BOOLEAN
    BY <2>2 DEF Tags
  <2>11. d.people = none /\ d.marks = none
    BY <2>2, <2>3
  <2>12. Len(d.people) <= Len(marked)
    BY <2>5, <2>9, <2>11
  <2>13. \A i \in 1..Len(d.people) : d.people[i] = marked[i]
    BY <2>5, <2>11
  <2>14. d.text \in OwnTexts /\ d.payload \in OwnPayloads \cup {NoBytes} /\ d.reply \in {"none", "id"}
    BY <2>2, <2>8, <1>2
  <2> QED BY <2>2, <2>5, <2>6, <2>7, <2>9, <2>10, <2>11, <2>12, <2>13, <2>14, <1>3
<1> QED BY <1>4, <1>5 DEF OwnDrafts

\* The bytes made of a draft.
LEMMA BytesOf ==
    ASSUME MaxWraps <= 2, NEW d \in OwnDrafts
    PROVE  /\ Encoded(d) \in OwnPayloads /\ Encoded(d).text = Plain(0)
           /\ Encoded(d).form = "fb" =>
                 /\ Encoded(d).meta <=> d.payload # NoBytes
                 /\ Encoded(d).reply = ReplyOf(d) /\ Encoded(d).people = d.people
           /\ Encoded(d).form = "raw" =>
                 /\ d.payload = NoBytes /\ ReplyOf(d) = "none" /\ d.people = <<>>
           /\ ReplyOf(d) \in {"none", "id"}
<1>1. Plain(0) \in OwnTexts
  BY DEF Plain, OwnTexts, Replies
<1>2. ReplyOf(d) \in {"none", "id"}
  BY DraftParts DEF ReplyOf, ProtocolId
<1>3. PICK c : c = Encoded(d)
  OBVIOUS
<1>4. CASE d.payload # NoBytes
  <2>1. c = MediaPayload(Plain(0)) /\ d.people = <<>> /\ ReplyOf(d) = "none"
    BY <1>3, <1>4, DraftParts DEF Encoded
  <2>2. c \in OwnPayloads
    BY <2>1, <1>4, DraftParts
  <2> QED BY <1>2, <1>3, <1>4, <2>1, <2>2 DEF MediaPayload
<1>5. CASE d.payload = NoBytes /\ InEnvelope(d)
  <2>1. c = [form |-> "fb", text |-> Plain(0), meta |-> FALSE, reply |-> ReplyOf(d), people |-> d.people]
    BY <1>3, <1>5, DraftParts DEF Encoded
  <2>2. d.people \in People
    BY DraftParts
  <2>3. c \in OwnPayloads
    BY <2>1, <2>2, <1>1, <1>2 DEF OwnPayloads, People
  <2> QED BY <1>2, <1>3, <1>5, <2>1, <2>3
<1>6. CASE d.payload = NoBytes /\ ~InEnvelope(d)
  <2>1. c = [form |-> "raw", text |-> Plain(0), meta |-> FALSE, reply |-> "none", people |-> <<>>]
    BY <1>3, <1>6, DraftParts DEF Encoded
  <2>2. ReplyOf(d) = "none" /\ d.people = <<>>
    BY <1>6 DEF InEnvelope
  <2>3. d.people \in People
    BY DraftParts
  <2>4. c \in OwnPayloads
    BY <2>1, <2>2, <2>3, <1>1 DEF OwnPayloads, People
  <2> QED BY <1>2, <1>3, <1>6, <2>1, <2>2, <2>4
<1> QED BY <1>4, <1>5, <1>6

RowMade(t) == [type |-> TypeOfTag(draft.tag), text |-> t, payload |-> Encoded(draft)]

FirstRead == ReadOf(draft.tag, Encoded(draft))
LaterRead == ReadOf(TagOfType(TypeOfTag(draft.tag)), Encoded(draft))

\* The row is the draft's, but for a body guessed where nothing was said of the
\* bytes; the command is the draft's, and the server read nothing else.
OwnSound ==
    /\ draft \in OwnDrafts
    /\ echo = Normalised(ownRow)
    /\ \/ ownRow = NoDraftRow
       \/ ownRow = RowMade(Plain(0))
       \/ draft.early /\ ownRow = RowMade(Framing)
    /\ outboxRow = NoOutboxRow \/ outboxRow = OutboxRowOf(draft)
    /\ inlineDue \in BOOLEAN
    /\ \A a \in accepted : a = FirstRead \/ a = LaterRead

LEMMA OwnStart == OwnInit => OwnSound
BY DEF OwnInit, OwnSound, Normalised

\* What a step makes of the row, the command and the requests.
LEMMA OwnKept ==
    ASSUME OwnSound, draft' = draft, inlineDue' \in BOOLEAN, echo' = Normalised(ownRow'),
           \/ ownRow' = ownRow \/ ownRow' = NoDraftRow \/ ownRow' = RowMade(Plain(0))
           \/ draft.early /\ ownRow' = RowMade(Framing),
           outboxRow' = outboxRow \/ outboxRow' = NoOutboxRow \/ outboxRow' = OutboxRowOf(draft),
           \A a \in accepted' : a \in accepted \/ a = FirstRead \/ a = LaterRead
    PROVE  OwnSound'
<1>1. /\ draft' \in OwnDrafts
      /\ \/ ownRow' = NoDraftRow \/ ownRow' = RowMade(Plain(0))
         \/ draft.early /\ ownRow' = RowMade(Framing)
      /\ outboxRow' = NoOutboxRow \/ outboxRow' = OutboxRowOf(draft)
      /\ \A a \in accepted' : a = FirstRead \/ a = LaterRead
  BY DEF OwnSound
<1>2. /\ RowMade(Plain(0))' = RowMade(Plain(0)) /\ RowMade(Framing)' = RowMade(Framing)
      /\ FirstRead' = FirstRead /\ LaterRead' = LaterRead
      /\ OutboxRowOf(draft)' = OutboxRowOf(draft)
  BY DEF RowMade, FirstRead, LaterRead, ReadOf, Shows, Plain, Framing
<1> QED BY <1>1, <1>2 DEF OwnSound

\* Bytes of a draft, read again.
LEMMA RebuiltOf ==
    ASSUME MaxWraps <= 2, OwnSound, NEW t \in RebuiltTexts(OutboxRowOf(draft))
    PROVE  t = Plain(0) \/ (draft.early /\ t = Framing)
<1>1. draft \in OwnDrafts
  BY DEF OwnSound
<1>2. Encoded(draft).text = Plain(0) /\ Encoded(draft) \in OwnPayloads
  BY <1>1, BytesOf
<1>3. Encoded(draft).form \in {"raw", "fb"}
  BY <1>2 DEF OwnPayloads
<1>4. PICK c : c = OutboxRowOf(draft)
  OBVIOUS
<1>5. /\ c.payload = Encoded(draft)
      /\ c.encoding = (IF draft.early THEN "unknown" ELSE Encoded(draft).form)
  BY <1>4 DEF OutboxRowOf, EncodingOf
<1>6. t \in RebuiltTexts(c)
  BY <1>4
<1>7. CASE draft.early
  BY <1>2, <1>5, <1>6, <1>7 DEF RebuiltTexts
<1>8. CASE ~draft.early
  BY <1>2, <1>3, <1>5, <1>6, <1>8 DEF RebuiltTexts
<1> QED BY <1>7, <1>8

LEMMA OwnKeepsSound ==
    ASSUME MaxWraps <= 2, OwnSound, OwnNext \/ UNCHANGED ownVars
    PROVE  OwnSound'
<1>1. draft \in OwnDrafts /\ inlineDue \in BOOLEAN /\ echo = Normalised(ownRow)
  BY DEF OwnSound
<1>2. EchoOf(draft) = RowMade(Plain(0))
  BY <1>1, DraftParts DEF EchoOf, RowMade
<1>3. ASSUME Compose PROVE OwnSound'
  <2>1. /\ echo' = Normalised(EchoOf(draft)) /\ ownRow' = EchoOf(draft)
        /\ outboxRow' = OutboxRowOf(draft) /\ inlineDue' \in BOOLEAN
        /\ draft' = draft /\ accepted' = accepted
    BY <1>3 DEF Compose
  <2>2. echo' = Normalised(ownRow')
    BY <2>1
  <2> QED BY <1>2, <2>1, <2>2, OwnKept
<1>4. ASSUME Attempt PROVE OwnSound'
  <2>1. /\ inlineDue' \in BOOLEAN /\ UNCHANGED <<draft, echo, ownRow, outboxRow>>
        /\ \A a \in accepted' : a \in accepted \/ a = FirstRead
    BY <1>4 DEF Attempt, FirstRead
  <2>2. echo' = Normalised(ownRow')
    BY <1>1, <2>1
  <2> QED BY <2>1, <2>2, OwnKept
<1>5. ASSUME Flush PROVE OwnSound'
  <2>1. /\ outboxRow # NoOutboxRow /\ UNCHANGED <<draft, echo, ownRow, outboxRow, inlineDue>>
        /\ accepted' = accepted \cup {ReadOf(TagOfType(outboxRow.type), outboxRow.payload)}
    BY <1>5 DEF Flush
  <2>2. outboxRow = OutboxRowOf(draft)
    BY <2>1 DEF OwnSound
  <2>3. outboxRow.type = TypeOfTag(draft.tag) /\ outboxRow.payload = Encoded(draft)
    BY <2>2 DEF OutboxRowOf
  <2>4. \A a \in accepted' : a \in accepted \/ a = LaterRead
    BY <2>1, <2>3 DEF LaterRead
  <2>5. echo' = Normalised(ownRow') /\ inlineDue' \in BOOLEAN
    BY <1>1, <2>1
  <2> QED BY <2>1, <2>4, <2>5, OwnKept
<1>6. ASSUME LoseRow PROVE OwnSound'
  <2>1. ownRow' = NoDraftRow /\ echo' = NoDraftRow /\ UNCHANGED <<draft, outboxRow, inlineDue, accepted>>
    BY <1>6 DEF LoseRow
  <2>2. echo' = Normalised(ownRow')
    BY <2>1 DEF Normalised
  <2> QED BY <1>1, <2>1, <2>2, OwnKept
<1>7. ASSUME Restore PROVE OwnSound'
  <2>1. /\ outboxRow # NoOutboxRow /\ UNCHANGED <<draft, inlineDue, accepted>>
        /\ outboxRow' = outboxRow \/ outboxRow' = NoOutboxRow
    BY <1>7 DEF Restore
  <2>2. outboxRow = OutboxRowOf(draft)
    BY <2>1 DEF OwnSound
  <2>3. CASE ownRow # NoDraftRow
    <3>1. ownRow' = ownRow /\ echo' = echo
      BY <1>7, <2>3 DEF Restore
    <3>2. echo' = Normalised(ownRow')
      BY <3>1, <1>1
    <3> QED BY <1>1, <2>1, <3>1, <3>2, OwnKept
  <2>4. CASE ownRow = NoDraftRow
    <3>1. /\ \E text \in RebuiltTexts(outboxRow) : ownRow' = RowRebuilt(outboxRow, text)
          /\ echo' = Normalised(ownRow')
      BY <1>7, <2>4 DEF Restore
    <3>2. PICK t \in RebuiltTexts(OutboxRowOf(draft)) : ownRow' = RowRebuilt(OutboxRowOf(draft), t)
      BY <2>2, <3>1
    <3>3. ownRow' = RowMade(t)
      BY <3>2 DEF RowRebuilt, OutboxRowOf, RowMade
    <3>4. t = Plain(0) \/ (draft.early /\ t = Framing)
      BY <3>2, RebuiltOf
    <3> QED BY <1>1, <2>1, <3>1, <3>3, <3>4, OwnKept
  <2> QED BY <2>3, <2>4
<1>8. ASSUME OwnReload PROVE OwnSound'
  <2>1. echo' = Normalised(ownRow) /\ inlineDue' = FALSE /\ UNCHANGED <<draft, ownRow, outboxRow, accepted>>
    BY <1>8 DEF OwnReload
  <2>2. echo' = Normalised(ownRow') /\ inlineDue' \in BOOLEAN
    BY <2>1
  <2> QED BY <2>1, <2>2, OwnKept
<1>9. ASSUME UNCHANGED ownVars PROVE OwnSound'
  <2>1. UNCHANGED <<draft, echo, ownRow, outboxRow, inlineDue, accepted>>
    BY <1>9 DEF ownVars
  <2>2. echo' = Normalised(ownRow') /\ inlineDue' \in BOOLEAN
    BY <1>1, <2>1
  <2> QED BY <2>1, <2>2, OwnKept
<1> QED BY <1>3, <1>4, <1>5, <1>6, <1>7, <1>8, <1>9 DEF OwnNext

\* What a form of the draft shows, whatever form it is.
LEMMA FormsMean ==
    ASSUME MaxWraps <= 2, draft \in OwnDrafts
    PROVE  Shows(draft.tag, Plain(0), Encoded(draft)) = Meant
<1>1. PICK c : c = Encoded(draft)
  OBVIOUS
<1>2. /\ c \in OwnPayloads /\ c.form \in {"raw", "fb"} /\ c.meta \in BOOLEAN
      /\ c.form = "fb" => /\ c.meta <=> draft.payload # NoBytes
                          /\ c.reply = ReplyOf(draft) /\ c.people = draft.people
      /\ c.form = "raw" => draft.payload = NoBytes /\ ReplyOf(draft) = "none" /\ draft.people = <<>>
      /\ ReplyOf(draft) \in {"none", "id"}
  <2>1. c \in OwnPayloads
    BY <1>1, BytesOf
  <2> QED BY <1>1, <2>1, BytesOf DEF OwnPayloads
<1>3. Unwrapped(Plain(0)) = Plain(0) /\ ~Anchored(Plain(0).reply)
  BY DEF Unwrapped, Plain, Anchored
<1>4. Unique(<<>>) = <<>>
  <2>1. <<>> \in Seq(Named) /\ Len(<<>>) = 0
    OBVIOUS
  <2>2. Unique(<<>>) \in Seq(Named) /\ Len(Unique(<<>>)) \in Nat /\ Len(Unique(<<>>)) <= Len(<<>>)
    BY <2>1, UniqueMembers
  <2> QED BY <2>1, <2>2
<1>5. (IF c.form = "fb" THEN Unique(c.people) ELSE <<>>) = Unique(draft.people)
  BY <1>2, <1>4
<1>6. (c.form = "fb" /\ c.meta) = (draft.payload # NoBytes)
  BY <1>2
<1>7. ((c.form = "fb" /\ Anchored(c.reply)) \/ Anchored(Plain(0).reply)) = Anchored(ReplyOf(draft))
  BY <1>2, <1>3 DEF Anchored
<1> QED BY <1>1, <1>3, <1>5, <1>6, <1>7 DEF Shows, Meant

LEMMA SoundOwn ==
    ASSUME MaxWraps <= 2, OwnSound
    PROVE  OwnStory
<1> SUFFICES ASSUME draft.tag # "new", ~Guessed
             PROVE  /\ \A row \in {echo, ownRow} \ {NoDraftRow} : ShownOf(row) = Meant
                    /\ accepted \subseteq {Meant}
  BY DEF OwnStory
<1>1. draft \in OwnDrafts
  BY DEF OwnSound
<1>2. draft.tag \in Tags
  BY <1>1, DraftParts
<1>3. TypeOfTag(draft.tag) = draft.tag /\ TagOfType(TypeOfTag(draft.tag)) = draft.tag
  BY <1>2 DEF TypeOfTag, TagOfType, Tags
<1>4. Encoded(draft).text = Plain(0)
  BY <1>1, BytesOf
<1>5. FirstRead = Meant /\ LaterRead = Meant
  BY <1>1, <1>3, <1>4, FormsMean DEF FirstRead, LaterRead, ReadOf
<1>6. accepted \subseteq {Meant}
  BY <1>5 DEF OwnSound
<1>7. ASSUME ownRow # NoDraftRow
      PROVE  ownRow = RowMade(Plain(0)) /\ echo = ownRow
  <2>1. ownRow = RowMade(Plain(0))
    <3>1. draft.early => RowMade(Framing) # ownRow
      BY <1>7 DEF Guessed, RowMade
    <3> QED BY <1>7, <3>1 DEF OwnSound
  <2>2. echo = [ownRow EXCEPT !.text = Unwrapped(@)]
    BY <1>7 DEF OwnSound, Normalised
  <2>3. Unwrapped(Plain(0)) = Plain(0)
    BY DEF Unwrapped, Plain
  <2> QED BY <2>1, <2>2, <2>3 DEF RowMade
<1>8. ownRow = NoDraftRow => echo = NoDraftRow
  BY DEF OwnSound, Normalised
<1>9. ShownOf(RowMade(Plain(0))) = Meant
  BY <1>1, <1>3, FormsMean DEF ShownOf, RowMade
<1> QED BY <1>6, <1>7, <1>8, <1>9

LEMMA SoundMentions ==
    ASSUME MaxWraps <= 2, OwnSound
    PROVE  MentionsAreRight
<1>1. PICK marked : marked = NamedIn(draft.marks)
  OBVIOUS
<1>2. draft \in OwnDrafts
  BY DEF OwnSound
<1>3. PICK people : people = draft.people
  OBVIOUS
<1>4. /\ people \in Seq(Named) /\ draft.marks \in Texts
      /\ Len(people) <= Len(marked) /\ marked \in Seq(Marks)
      /\ Len(people) = Len(marked) => \A i \in 1..Len(people) : people[i] = marked[i]
  BY <1>1, <1>2, <1>3, DraftParts
<1>5. PICK u : u = Unique(people)
  OBVIOUS
<1>6. /\ u \in Seq(Named) /\ Len(u) \in Nat /\ Len(u) <= Len(people)
      /\ Len(u) = Len(people) => \A i \in 1..Len(people) : u[i] = people[i]
  BY <1>4, <1>5, UniqueMembers
<1>7. Spans(draft.marks) = marked
  BY <1>1, <1>4, MarksOf
<1>8. PICK n : n = Len(marked) /\ n \in Nat
  BY <1>4
<1>9. Meant.people = [i \in 1..n |-> IF n = Len(u) THEN u[i] ELSE "nobody"]
  BY <1>3, <1>5, <1>7, <1>8 DEF Meant, Pairing
<1>10. Len(people) \in Nat
  BY <1>4
<1>11. PICK said : said = Meant.people
  OBVIOUS
<1>12. n = Len(u) => \A i \in 1..n : u[i] = marked[i]
  BY <1>4, <1>6, <1>8, <1>10
<1>13. Len(said) = n
  <2>1. DOMAIN said = 1..n
    BY <1>9, <1>11
  <2>2. said \in Seq({said[i] : i \in 1..n})
    <3>1. PICK X : X = {said[i] : i \in 1..n}
      OBVIOUS
    <3>2. said \in [1..n -> X]
      BY <1>9, <1>11, <3>1
    <3> QED BY <3>1, <3>2, <1>8
  <2> QED BY <2>1, <2>2, <1>8
<1>14. \A i \in 1..n : said[i] \in {marked[i], "nobody"}
  BY <1>9, <1>11, <1>12
<1>15. people = marked /\ Unique(marked) = marked => said = marked
  <2> SUFFICES ASSUME people = marked, Unique(marked) = marked PROVE said = marked
    OBVIOUS
  <2>1. u = marked
    BY <1>5
  <2>2. said = [i \in 1..n |-> marked[i]]
    BY <1>8, <1>9, <1>11, <2>1
  <2>3. PICK X : X = Marks
    OBVIOUS
  <2>4. marked \in Seq(X)
    BY <1>4, <2>3
  <2>5. marked = [i \in 1..Len(marked) |-> marked[i]]
    BY <2>4
  <2> QED BY <2>2, <2>5, <1>8
<1> QED BY <1>1, <1>3, <1>8, <1>11, <1>13, <1>14, <1>15 DEF MentionsAreRight, NamedIn

LEMMA SoundOwnTyped ==
    ASSUME MaxWraps <= 2, OwnSound
    PROVE  OwnTypeOK
<1>1. draft \in OwnDrafts /\ inlineDue \in BOOLEAN
  BY DEF OwnSound
<1>2. /\ draft.tag \in Tags /\ draft.text \in OwnTexts /\ draft.marks \in Texts
      /\ draft.payload \in OwnPayloads \cup {NoBytes}
  BY <1>1, DraftParts
<1>3. Encoded(draft) \in OwnPayloads
  BY <1>1, BytesOf
<1>4. TypeOfTag(draft.tag) \in Types
  BY <1>2 DEF TypeOfTag, Tags, Types
<1>5. /\ Plain(0) \in OwnTexts /\ Framing \in OwnTexts
      /\ Unwrapped(Plain(0)) = Plain(0) /\ Unwrapped(Framing) \in OwnTexts
  BY DEF Plain, OwnTexts, Replies, Framing, Unwrapped
<1>6. ASSUME NEW row, row \in {echo, ownRow}, row # NoDraftRow
      PROVE  row.type \in Types /\ row.text \in OwnTexts /\ row.payload \in OwnPayloads
  <2>1. CASE ownRow = NoDraftRow
    BY <1>6, <2>1 DEF OwnSound, Normalised
  <2>2. ASSUME NEW t \in {Plain(0), Framing}, ownRow = RowMade(t), ownRow # NoDraftRow
        PROVE  row.type \in Types /\ row.text \in OwnTexts /\ row.payload \in OwnPayloads
    <3>1. echo = [RowMade(t) EXCEPT !.text = Unwrapped(@)]
      BY <2>2 DEF OwnSound, Normalised
    <3>2. row = RowMade(t) \/ row = [RowMade(t) EXCEPT !.text = Unwrapped(@)]
      BY <1>6, <2>2, <3>1
    <3> QED BY <1>3, <1>4, <1>5, <2>2, <3>2 DEF RowMade
  <2> QED BY <2>1, <2>2 DEF OwnSound
<1>7. ASSUME outboxRow # NoOutboxRow
      PROVE  /\ outboxRow.type \in Types /\ outboxRow.payload \in OwnPayloads
             /\ outboxRow.encoding \in {"raw", "fb", "unknown"}
  <2>1. outboxRow = OutboxRowOf(draft)
    BY <1>7 DEF OwnSound
  <2>2. Encoded(draft).form \in {"raw", "fb"}
    BY <1>3 DEF OwnPayloads
  <2> QED BY <1>3, <1>4, <2>1, <2>2 DEF OutboxRowOf, EncodingOf
<1>8. Cardinality(accepted) <= 2
  <2>1. PICK a, b : a = FirstRead /\ b = LaterRead
    OBVIOUS
  <2>2. PICK P : P = {a} \cup {b}
    OBVIOUS
  <2>3. PICK A : A = {a}
    OBVIOUS
  <2>4. IsFiniteSet(A) /\ Cardinality(A) = 1
    BY <2>3, FS_Singleton
  <2>5. IsFiniteSet(P) /\ (Cardinality(P) = 1 \/ Cardinality(P) = 2)
    <3>1. P = A \cup {b}
      BY <2>2, <2>3
    <3>2. /\ IsFiniteSet(A \cup {b})
          /\ Cardinality(A \cup {b}) = (IF b \in A THEN Cardinality(A) ELSE Cardinality(A) + 1)
      BY <2>4, FS_AddElement
    <3> QED BY <2>4, <3>1, <3>2
  <2>6. accepted \subseteq P
    BY <2>1, <2>2 DEF OwnSound
  <2>7. Cardinality(accepted) <= Cardinality(P) /\ Cardinality(accepted) \in Nat
    BY <2>5, <2>6, FS_Subset, FS_CardinalityType
  <2> QED BY <2>5, <2>7
<1> QED BY <1>1, <1>2, <1>6, <1>7, <1>8 DEF OwnTypeOK

-----------------------------------------------------------------------------
(* Theorems of the parts.                                                  *)

(***************************************************************************)
(* However many messages, cursors and writes there are, and in whatever    *)
(* order pushes, pages, bootstraps and the database take their turns: the  *)
(* badge of a conversation counts no more than is unread, and once settled *)
(* the database has what memory shows (src/client.ts, applyReadCursorUpdate*)
(* and absorbPushIntoCache); the receipt of the others moves forward only  *)
(* (absorbPeerReadCursor).                                                 *)
(***************************************************************************)
THEOREM RecordHolds == PartsSpec => []RecordIsSound
<1>1. PartsInit => ReadSound /\ ReceiptSound BY ReadStarts, ReceiptStarts DEF PartsInit
<1>2. ReadSound /\ ReceiptSound /\ [PartsNext]_partsVars => (ReadSound /\ ReceiptSound)'
  <2> SUFFICES ASSUME ReadSound, ReceiptSound, PartsNext \/ UNCHANGED partsVars
               PROVE  ReadSound' /\ ReceiptSound'
    OBVIOUS
  <2>1. ReadNext \/ UNCHANGED readVars BY DEF PartsNext, RestExcept, partsVars
  <2>2. ReceiptNext \/ UNCHANGED receiptVars BY DEF PartsNext, RestExcept, partsVars
  <2> QED BY <2>1, <2>2, ReadKeepsSound, ReceiptKeepsSound
<1>3. ReadSound /\ ReceiptSound => RecordIsSound
  BY SoundRead, SoundReceipt DEF RecordIsSound
<1> QED BY <1>1, <1>2, <1>3, PTL DEF PartsSpec

(***************************************************************************)
(* However many rooms, calls, links and posts there are, and whatever the  *)
(* server refuses: once a link has settled, the rooms it serves are those  *)
(* of activeSubscriptions and those the host was told it is in, if nothing *)
(* was refused to a replay and none crossed a call; who is in a room hears *)
(* each of its posts, and none again within the window                     *)
(* (src/client.ts, subscribeChannel, attemptReconnect and                  *)
(* isDuplicateRoomMessage).                                                *)
(***************************************************************************)
THEOREM RoomsHold == PartsSpec => []RoomsServed
<1>1. PartsInit => RoomSound BY RoomStarts DEF PartsInit
<1>2. RoomSound /\ [PartsNext]_partsVars => RoomSound'
  <2> SUFFICES ASSUME RoomSound, PartsNext \/ UNCHANGED partsVars
               PROVE  RoomSound'
    OBVIOUS
  <2>1. RoomNext \/ UNCHANGED roomVars BY DEF PartsNext, RestExcept, partsVars
  <2> QED BY <2>1, RoomKeepsSound
<1>3. RoomSound => RoomsServed BY SoundRooms DEF RoomsServed
<1> QED BY <1>1, <1>2, <1>3, PTL DEF PartsSpec

(***************************************************************************)
(* However many events, listeners and writes there are: a listener hears   *)
(* each event it was subscribed for once, also when a handler subscribes,  *)
(* unsubscribes or emits within a call, and a poller misses only what the  *)
(* history has let go (src/events.ts, emit and eventsSince); once its      *)
(* reads are done, an observer of the outbox has been shown the table as   *)
(* it is (src/client.ts, observeOutbox).                                   *)
(***************************************************************************)
THEOREM HostHolds == PartsSpec => []HostIsTold
<1>1. PartsInit => FeedSound /\ ObserverSound BY FeedStarts, ObserverStarts DEF PartsInit
<1>2. FeedSound /\ ObserverSound /\ [PartsNext]_partsVars => (FeedSound /\ ObserverSound)'
  <2> SUFFICES ASSUME FeedSound, ObserverSound, PartsNext \/ UNCHANGED partsVars
               PROVE  FeedSound' /\ ObserverSound'
    OBVIOUS
  <2>1. FeedNext \/ UNCHANGED feedVars BY DEF PartsNext, RestExcept, partsVars
  <2>2. OutboxFeedNext \/ UNCHANGED outboxFeedVars BY DEF PartsNext, RestExcept, partsVars
  <2> QED BY <2>1, <2>2, FeedKeepsSound, ObserverKeepsSound
<1>3. FeedSound /\ ObserverSound => HostIsTold BY SoundFeed, SoundObserver DEF HostIsTold
<1> QED BY <1>1, <1>2, <1>3, PTL DEF PartsSpec

(***************************************************************************)
(* However many members, peers, rows, calls and sweeps there are: where    *)
(* none of the named harms has come to pass, every member whose last       *)
(* change lies at or below the watermark of a group roster is in the table *)
(* as the server has it (src/client.ts, syncGroupMembers), and between     *)
(* sweeps of friends or groups nobody is left wrong whom no later sweep    *)
(* would ask for, memory lists whom the table lists, and a username in     *)
(* memory is that of somebody in the table (bootstrapFriendships and       *)
(* bootstrapGroups).                                                       *)
(***************************************************************************)
THEOREM CollectionsHold == PartsSpec => []CollectionsConverge
<1>1. PartsInit => RosterSound /\ FriendSound BY RosterStarts, FriendStarts DEF PartsInit
<1>2. RosterSound /\ FriendSound /\ [PartsNext]_partsVars => (RosterSound /\ FriendSound)'
  <2> SUFFICES ASSUME RosterSound, FriendSound, PartsNext \/ UNCHANGED partsVars
               PROVE  RosterSound' /\ FriendSound'
    OBVIOUS
  <2>1. RosterNext \/ UNCHANGED rosterVars BY DEF PartsNext, RestExcept, partsVars
  <2>2. FriendNext \/ UNCHANGED friendVars BY DEF PartsNext, RestExcept, partsVars
  <2> QED BY <2>1, <2>2, RosterKeepsSound, FriendKeepsSound
<1>3. RosterSound /\ FriendSound => CollectionsConverge
  BY SoundRoster, SoundFriends DEF CollectionsConverge
<1> QED BY <1>1, <1>2, <1>3, PTL DEF PartsSpec

(***************************************************************************)
(* However many messages, sends, ids and transactions there are, and in    *)
(* whatever order pushes, answers of history, pages, acks and reloads take *)
(* their turns: the stored keys of a conversation are all written under    *)
(* the one mode its metadata names; and until one of the named losses has  *)
(* come to pass, no two rows of memory or database are of one message, and *)
(* memory at rest does not sort by pts while it shows a message without    *)
(* one (src/cache/message-store.ts, src/cache/indexeddb-store.ts).         *)
(***************************************************************************)
THEOREM TimelineHolds == PartsSpec => []TimelineIsOrderly
<1>1. PartsInit => TimelineSound BY SoundStarts DEF PartsInit
<1>2. TimelineSound /\ [PartsNext]_partsVars => TimelineSound'
  <2> SUFFICES ASSUME TimelineSound, PartsNext \/ UNCHANGED partsVars
               PROVE  TimelineSound'
    OBVIOUS
  <2>1. TimelineNext \/ UNCHANGED timelineVars BY DEF PartsNext, RestExcept, partsVars
  <2> QED BY <2>1, SoundKeeps
<1>3. TimelineSound => TimelineIsOrderly BY SoundTimeline DEF TimelineIsOrderly
<1> QED BY <1>1, <1>2, <1>3, PTL DEF PartsSpec

(***************************************************************************)
(* In the same behaviours, a step before the first of those losses takes   *)
(* nothing away: no message on screen or in the database loses its text,   *)
(* its revocation, its precise time or that it was sent, whichever of      *)
(* push, page, history and ack is written last (mergeOnPushAbsorb,         *)
(* upsertMessages, applyAck).                                              *)
(***************************************************************************)
THEOREM NothingIsErased == PartsSpec => NothingErased
<1>1. PartsInit => TimelineSound BY SoundStarts DEF PartsInit
<1>2. TimelineSound /\ [PartsNext]_partsVars =>
        /\ TimelineSound'
        /\ [losses' = {} => ~Regresses(buffer, buffer') /\ ~Regresses(disk, disk')]_timelineVars
  <2> SUFFICES ASSUME TimelineSound, PartsNext \/ UNCHANGED partsVars
               PROVE  /\ TimelineSound'
                      /\ [losses' = {} => ~Regresses(buffer, buffer') /\ ~Regresses(disk, disk')]_timelineVars
    OBVIOUS
  <2>1. TimelineNext \/ UNCHANGED timelineVars BY DEF PartsNext, RestExcept, partsVars
  <2> QED BY <2>1, SoundKeeps, NothingRegresses
<1> QED BY <1>1, <1>2, PTL DEF PartsSpec, NothingErased

\* What the two invariants of the UI say of types.
LEMMA SoundRuntimeTyped == RuntimeSound => RuntimeTypeOK
BY DEF RuntimeSound, RuntimeTyped, RuntimeTypeOK, Slice

LEMMA SoundAvatarTyped == AvatarSound => AvatarTypeOK
BY DEF AvatarSound, AvatarTyped, AvatarTypeOK, AskedOK, Asking, Copy

(***************************************************************************)
(* Whatever is received, sent or shown, under at most two envelopes: each  *)
(* form of a message says the same.  Push, history and retries tell the    *)
(* row the server has (src/client.ts, absorbPushIntoCache and the page);   *)
(* the echo, the request and a rebuilt row mean what the host composed     *)
(* (sendTextMessage, src/cache/rebuild.ts); no mention is of somebody not  *)
(* named (src/message-content.ts); and an observer who applies every patch *)
(* sees the buffer (src/observe-messages.ts).                              *)
(***************************************************************************)
THEOREM MessagesSayTheSame ==
    ASSUME MaxWraps <= 2
    PROVE  PartsSpec => []SameMessage
<1>1. PartsInit => InboundSound /\ OwnSound /\ ConversationSound
  BY InboundStart, OwnStart, ConversationStart DEF PartsInit
<1>2. InboundSound /\ OwnSound /\ ConversationSound /\ [PartsNext]_partsVars
        => (InboundSound /\ OwnSound /\ ConversationSound)'
  <2> SUFFICES ASSUME InboundSound, OwnSound, ConversationSound, PartsNext \/ UNCHANGED partsVars
               PROVE  InboundSound' /\ OwnSound' /\ ConversationSound'
    OBVIOUS
  <2>1. InboundNext \/ UNCHANGED inboundVars BY DEF PartsNext, RestExcept, partsVars
  <2>2. OwnNext \/ UNCHANGED ownVars BY DEF PartsNext, RestExcept, partsVars
  <2>3. ConversationNext \/ UNCHANGED conversationVars BY DEF PartsNext, RestExcept, partsVars
  <2>4. ConversationSound' BY <2>3, ConversationStep, ConversationStill
  <2> QED BY <2>1, <2>2, <2>4, InboundKeepsSound, OwnKeepsSound
<1>3. InboundSound /\ OwnSound /\ ConversationSound => SameMessage
  BY SoundInbound, SoundOwn, SoundMentions, ObserverIsTold DEF SameMessage
<1> QED BY <1>1, <1>2, <1>3, PTL DEF PartsSpec

\* The parts, and all their invariants together.
PartNames == {"upload", "roster", "read", "migration", "inbound", "runtime", "friends", "rooms",
              "feed", "avatar", "outbox", "conversation", "receipts", "timeline", "own"}

PartsSound ==
    /\ part \in PartNames
    /\ UploadSound /\ RosterSound /\ ReadSound /\ MigrationSound /\ InboundSound
    /\ RuntimeSound /\ FriendSound /\ RoomSound /\ RoomBounds /\ FeedSound /\ FeedBounds
    /\ AvatarSound /\ ObserverSound /\ ConversationSound /\ ReceiptSound /\ TimelineSound
    /\ OwnSound

(***************************************************************************)
(* Whatever the constants: each variable of each part keeps to its range.  *)
(***************************************************************************)
THEOREM PartsAreTyped ==
    ASSUME MaxWraps <= 2
    PROVE  PartsSpec => []PartsTypeOK
<1>1. PartsInit => PartsSound
  BY UploadStarts, RosterStarts, ReadStarts, MigrationStarts, InboundStart, RuntimeStarts,
     FriendStarts, RoomStarts, RoomBoundsStart, FeedStarts, FeedBoundsStart, AvatarStarts,
     ObserverStarts, ConversationStart, ReceiptStarts, SoundStarts, OwnStart
     DEF PartsInit, PartsSound, PartNames
<1>2. PartsSound /\ [PartsNext]_partsVars => PartsSound'
  <2> SUFFICES ASSUME PartsSound, PartsNext \/ UNCHANGED partsVars PROVE PartsSound'
    OBVIOUS
  <2>1. UploadSound' /\ RosterSound' /\ ReadSound' /\ MigrationSound'
    <3>1. UploadNext \/ UNCHANGED uploadVars BY DEF PartsNext, RestExcept, partsVars
    <3>2. RosterNext \/ UNCHANGED rosterVars BY DEF PartsNext, RestExcept, partsVars
    <3>3. ReadNext \/ UNCHANGED readVars BY DEF PartsNext, RestExcept, partsVars
    <3>4. MigrationNext \/ UNCHANGED migrationVars BY DEF PartsNext, RestExcept, partsVars
    <3> QED BY <3>1, <3>2, <3>3, <3>4, UploadKeepsSound, RosterKeepsSound, ReadKeepsSound,
               MigrationKeepsSound DEF PartsSound
  <2>2. InboundSound' /\ RuntimeSound' /\ FriendSound' /\ AvatarSound'
    <3>1. InboundNext \/ UNCHANGED inboundVars BY DEF PartsNext, RestExcept, partsVars
    <3>2. RuntimeNext \/ UNCHANGED runtimeVars BY DEF PartsNext, RestExcept, partsVars
    <3>3. FriendNext \/ UNCHANGED friendVars BY DEF PartsNext, RestExcept, partsVars
    <3>4. AvatarNext \/ UNCHANGED avatarVars BY DEF PartsNext, RestExcept, partsVars
    <3> QED BY <3>1, <3>2, <3>3, <3>4, InboundKeepsSound, RuntimeKeepsSound, FriendKeepsSound,
               AvatarKeepsSound DEF PartsSound
  <2>3. RoomSound' /\ RoomBounds' /\ FeedSound' /\ FeedBounds' /\ ObserverSound'
    <3>1. RoomNext \/ UNCHANGED roomVars BY DEF PartsNext, RestExcept, partsVars
    <3>2. FeedNext \/ UNCHANGED feedVars BY DEF PartsNext, RestExcept, partsVars
    <3>3. OutboxFeedNext \/ UNCHANGED outboxFeedVars BY DEF PartsNext, RestExcept, partsVars
    <3> QED BY <3>1, <3>2, <3>3, RoomKeepsSound, RoomKeepsBounds, FeedKeepsSound, FeedKeepsBounds,
               ObserverKeepsSound DEF PartsSound
  <2>4. ConversationSound' /\ ReceiptSound' /\ TimelineSound' /\ OwnSound'
    <3>1. ConversationNext \/ UNCHANGED conversationVars BY DEF PartsNext, RestExcept, partsVars
    <3>2. ReceiptNext \/ UNCHANGED receiptVars BY DEF PartsNext, RestExcept, partsVars
    <3>3. TimelineNext \/ UNCHANGED timelineVars BY DEF PartsNext, RestExcept, partsVars
    <3>4. OwnNext \/ UNCHANGED ownVars BY DEF PartsNext, RestExcept, partsVars
    <3> QED BY <3>1, <3>2, <3>3, <3>4, ConversationStep, ConversationStill, ReceiptKeepsSound,
               SoundKeeps, OwnKeepsSound DEF PartsSound
  <2>5. part' = part BY DEF PartsNext, RestExcept, partsVars
  <2> QED BY <2>1, <2>2, <2>3, <2>4, <2>5 DEF PartsSound
<1>3. PartsSound => PartsTypeOK
  <2> SUFFICES ASSUME PartsSound PROVE PartsTypeOK
    OBVIOUS
  <2>1. UploadTypeOK BY SoundUpload DEF PartsSound
  <2>2. RosterTypeOK BY DEF PartsSound, RosterSound
  <2>3. ReadTypeOK BY SoundReadTyped DEF PartsSound
  <2>4. MigrationTypeOK BY DEF PartsSound, MigrationSound
  <2>5. InboundTypeOK BY SoundInbound DEF PartsSound
  <2>6. RuntimeTypeOK BY SoundRuntimeTyped DEF PartsSound
  <2>7. FriendTypeOK BY DEF PartsSound, FriendSound
  <2>8. RoomTypeOK BY SoundRoomTyped DEF PartsSound
  <2>9. FeedTypeOK BY SoundFeedTyped DEF PartsSound
  <2>10. AvatarTypeOK BY SoundAvatarTyped DEF PartsSound
  <2>11. OutboxFeedTypeOK BY DEF PartsSound, ObserverSound
  <2>12. ConversationTypeOK BY ObserverIsTold DEF PartsSound
  <2>13. ReceiptTypeOK BY SoundReceiptTyped DEF PartsSound
  <2>14. TimelineTypeOK BY SoundTimeline DEF PartsSound
  <2>15. OwnTypeOK BY SoundOwnTyped DEF PartsSound
  <2>16. part \in PartNames BY DEF PartsSound
  <2> QED BY <2>1, <2>2, <2>3, <2>4, <2>5, <2>6, <2>7, <2>8, <2>9, <2>10, <2>11, <2>12, <2>13,
             <2>14, <2>15, <2>16 DEF PartsTypeOK, PartNames
<1> QED BY <1>1, <1>2, <1>3, PTL DEF PartsSpec

=============================================================================
