--------------------------- MODULE ChannelSyncProofs ---------------------------
(***************************************************************************)
(* The cursor of a conversation passes no commit the cache lacks, for any  *)
(* number of tabs, commits and pending writes: type correctness and the    *)
(* inductive invariant behind CursorCovered and SyncedIsComplete.          *)
(***************************************************************************)
EXTENDS ChannelSync, TLAPS

SyncOps == {"page", "empty", "clear"}

\* The writes of a tab: a sync run has at most one of its own, the one it
\* waits for; a closed tab has none and no run.
WritesSound(t) ==
    /\ t \notin open =>
         writes[t] = <<>> /\ pc[t] = "idle" /\ cursor[t] = 0 /\ found[t] = 0
    /\ \A i \in DOMAIN writes[t] :
         /\ writes[t][i].op = "row" => writes[t][i].pts \in 1..head
         /\ writes[t][i].op = "page" => pc[t] = "merging" /\ writes[t][i].pts <= head
         /\ writes[t][i].op = "empty" => pc[t] = "emptying" /\ writes[t][i].pts = found[t]
         /\ writes[t][i].op = "clear" => pc[t] = "clearing"
    /\ \A i, j \in DOMAIN writes[t] :
         writes[t][i].op \in SyncOps /\ writes[t][j].op \in SyncOps => i = j

Orderly ==
    /\ SyncTypeOK
    /\ writes \in [Tabs -> Seq(Write)]
    /\ \A t \in Tabs : WritesSound(t)

Covers(n) == 1..n \subseteq Stored

\* Every number that may become a cursor is covered: the stored one, those in
\* memory, the one a run holds, and those in channel writes still to come.
TabCovered(t) ==
    /\ Covers(latest[t]) /\ Covers(cursor[t]) /\ Covers(found[t])
    /\ \A i \in DOMAIN writes[t] :
         writes[t][i].op = "channel" => Covers(writes[t][i].pts)

AllCovered == hazards = {} => Covers(saved) /\ \A t \in open : TabCovered(t)

-----------------------------------------------------------------------------
(* Queues of writes.                                                       *)

LEMMA WType == ASSUME NEW op \in {"channel", "row", "page", "empty", "clear", "reset"},
                      NEW n \in Pts
               PROVE  W(op, n) \in Write /\ W(op, n).op = op /\ W(op, n).pts = n
  BY DEF W, Write

\* What issuing does to the queue: the old writes stay where they are and the
\* new ones follow.
LEMMA Issued ==
  ASSUME Orderly, NEW t \in Tabs, NEW ws \in Seq(Write), Issue(t, ws)
  PROVE  /\ writes' \in [Tabs -> Seq(Write)]
         /\ \A s \in Tabs \ {t} : writes'[s] = writes[s]
         /\ \A i \in DOMAIN writes[t] :
              i \in DOMAIN writes'[t] /\ writes'[t][i] = writes[t][i]
         /\ \A k \in DOMAIN ws :
              /\ Len(writes[t]) + k \in DOMAIN writes'[t]
              /\ writes'[t][Len(writes[t]) + k] = ws[k]
         /\ \A j \in DOMAIN writes'[t] :
              \/ j \in DOMAIN writes[t]
              \/ /\ j - Len(writes[t]) \in DOMAIN ws
                 /\ writes'[t][j] = ws[j - Len(writes[t])]
<1>1. writes[t] \in Seq(Write)
  BY DEF Orderly
<1>2. writes' = [writes EXCEPT ![t] = writes[t] \o ws]
  BY DEF Issue
<1>3. writes'[t] = writes[t] \o ws
  BY <1>2 DEF Orderly
<1>4. writes[t] \o ws \in Seq(Write)
  BY <1>1
<1>5. writes' \in [Tabs -> Seq(Write)] /\ \A s \in Tabs \ {t} : writes'[s] = writes[s]
  BY <1>2, <1>4 DEF Orderly
<1>6. /\ Len(writes'[t]) = Len(writes[t]) + Len(ws)
      /\ DOMAIN writes'[t] = 1..Len(writes'[t])
      /\ DOMAIN writes[t] = 1..Len(writes[t])
      /\ DOMAIN ws = 1..Len(ws)
      /\ Len(writes[t]) \in Nat /\ Len(ws) \in Nat
  BY <1>1, <1>3
<1>7. \A j \in 1..(Len(writes[t]) + Len(ws)) :
        writes'[t][j] = IF j <= Len(writes[t]) THEN writes[t][j]
                        ELSE ws[j - Len(writes[t])]
  BY <1>1, <1>3
<1>8. \A k \in DOMAIN ws :
        /\ Len(writes[t]) + k \in DOMAIN writes'[t]
        /\ writes'[t][Len(writes[t]) + k] = ws[k]
  <2>1. TAKE k \in DOMAIN ws
  <2>2. /\ Len(writes[t]) + k \in 1..(Len(writes[t]) + Len(ws))
        /\ ~(Len(writes[t]) + k <= Len(writes[t]))
        /\ (Len(writes[t]) + k) - Len(writes[t]) = k
    BY <1>6
  <2>3. QED
    BY <1>6, <1>7, <2>2
<1>9. \A i \in DOMAIN writes[t] :
        i \in DOMAIN writes'[t] /\ writes'[t][i] = writes[t][i]
  BY <1>6, <1>7
<1>10. \A j \in DOMAIN writes'[t] :
         \/ j \in DOMAIN writes[t]
         \/ /\ j - Len(writes[t]) \in DOMAIN ws
            /\ writes'[t][j] = ws[j - Len(writes[t])]
  BY <1>6, <1>7
<1>11. QED
  BY <1>5, <1>8, <1>9, <1>10

\* What a finished write does: the queue moves up by one.
LEMMA Popped ==
  ASSUME Orderly, NEW t \in Tabs, writes[t] # <<>>, Done(t)
  PROVE  /\ writes' \in [Tabs -> Seq(Write)]
         /\ \A s \in Tabs \ {t} : writes'[s] = writes[s]
         /\ 1 \in DOMAIN writes[t] /\ Head(writes[t]) = writes[t][1]
         /\ \A j \in DOMAIN writes'[t] :
              j + 1 \in DOMAIN writes[t] /\ writes'[t][j] = writes[t][j + 1]
         /\ \A i \in DOMAIN writes[t] \ {1} :
              i - 1 \in DOMAIN writes'[t] /\ writes'[t][i - 1] = writes[t][i]
<1>1. writes[t] \in Seq(Write)
  BY DEF Orderly
<1>2. writes'[t] = Tail(writes[t]) /\ \A s \in Tabs \ {t} : writes'[s] = writes[s]
  BY DEF Done, Orderly
<1>3. Tail(writes[t]) \in Seq(Write)
  BY <1>1
<1>4. writes' \in [Tabs -> Seq(Write)]
  BY <1>3 DEF Done, Orderly
<1>5. /\ Len(writes[t]) \in Nat \ {0}
      /\ DOMAIN writes[t] = 1..Len(writes[t])
      /\ Len(writes'[t]) = Len(writes[t]) - 1
      /\ DOMAIN writes'[t] = 1..Len(writes'[t])
      /\ Head(writes[t]) = writes[t][1]
  BY <1>1, <1>2
<1>6. \A j \in 1..(Len(writes[t]) - 1) : writes'[t][j] = writes[t][j + 1]
  BY <1>1, <1>2, <1>5
<1>7. QED
  BY <1>2, <1>4, <1>5, <1>6

\* Stored, spelled out: in a row, or in a row write still to be done.
RowOrWrite(m) ==
    \/ m \in rows
    \/ \E t \in open : \E i \in DOMAIN writes[t] :
         writes[t][i].op = "row" /\ writes[t][i].pts = m

LEMMA StoredIs == Orderly => \A n : n \in Stored <=> RowOrWrite(n)
<1> SUFFICES ASSUME Orderly PROVE \A n : n \in Stored <=> RowOrWrite(n)
  OBVIOUS
<1>1. \A t \in open : \A i \in DOMAIN writes[t] :
        writes[t][i] \in RowWrites <=> writes[t][i].op = "row"
  BY DEF Orderly, SyncTypeOK, RowWrites
<1>2. QED
  BY <1>1 DEF Stored, RowOrWrite

\* A step that keeps the rows and every pending row write keeps what is stored.
LEMMA StoredGrows ==
  ASSUME Orderly, Orderly', rows \subseteq rows', open \subseteq open',
         \A t \in open : \A i \in DOMAIN writes[t] :
            writes[t][i].op = "row" =>
               \/ writes[t][i].pts \in rows'
               \/ \E j \in DOMAIN writes'[t] : writes'[t][j] = writes[t][i]
  PROVE  Stored \subseteq Stored'
<1>1. SUFFICES ASSUME NEW m, m \in Stored PROVE m \in Stored'
  OBVIOUS
<1>2. (\A n : n \in Stored <=> RowOrWrite(n))'
  BY StoredIs, PTL
<1>3. RowOrWrite(m)
  BY <1>1, StoredIs
<1>4. QED
  BY <1>2, <1>3 DEF RowOrWrite

-----------------------------------------------------------------------------
(* Order: types, and what a tab may be waiting for.                        *)

Waiting == {"merging", "emptying", "clearing"}

\* The step of one tab does not touch what the others wait for.
OthersKept(t) ==
    /\ head' = head /\ open' = open
    /\ \A s \in Tabs \ {t} :
         writes'[s] = writes[s] /\ pc'[s] = pc[s] /\ cursor'[s] = cursor[s] /\ found'[s] = found[s]

LEMMA InitOrderly == Init => Orderly
<1> SUFFICES ASSUME Init PROVE Orderly
  OBVIOUS
<1>1. \A t \in Tabs : writes[t] = <<>> /\ DOMAIN writes[t] = {}
  <2>1. DOMAIN <<>> = {}
    OBVIOUS
  <2>2. QED
    BY <2>1 DEF Init
<1>2. writes \in [Tabs -> Seq(Write)]
  BY DEF Init
<1>3. SyncTypeOK
  BY <1>1, SyncAssumption DEF Init, SyncTypeOK, Pts
<1>4. \A t \in Tabs : WritesSound(t)
  BY <1>1 DEF Init, WritesSound
<1>5. QED
  BY <1>2, <1>3, <1>4 DEF Orderly

LEMMA NothingAwaited ==
  ASSUME Orderly, NEW t \in Tabs, pc[t] \notin Waiting, NEW i \in DOMAIN writes[t]
  PROVE  writes[t][i].op \notin SyncOps
  BY DEF Orderly, WritesSound, Waiting, SyncOps

LEMMA OthersSound ==
  ASSUME Orderly, NEW t \in Tabs, OthersKept(t), NEW s \in Tabs \ {t}
  PROVE  WritesSound(s)'
  BY DEF Orderly, WritesSound, OthersKept

\* The run of a tab moves on and no write is issued.
LEMMA MovedSound ==
  ASSUME Orderly, NEW t \in Tabs, t \in open, OthersKept(t), writes'[t] = writes[t],
         \/ pc'[t] = pc[t] /\ found'[t] = found[t]
         \/ pc[t] \notin Waiting
  PROVE  \A s \in Tabs : WritesSound(s)'
<1>1. \A s \in Tabs : WritesSound(s)
  BY DEF Orderly
<1>2. WritesSound(t)'
  <2>1. CASE pc'[t] = pc[t] /\ found'[t] = found[t]
    BY <1>1, <2>1 DEF WritesSound, OthersKept
  <2>2. CASE pc[t] \notin Waiting
    BY <1>1, <2>2, NothingAwaited DEF WritesSound, OthersKept, SyncOps
  <2>3. QED
    BY <2>1, <2>2
<1>3. \A s \in Tabs \ {t} : WritesSound(s)'
  BY OthersSound
<1>4. QED
  BY <1>2, <1>3

\* The tab issues writes: a run issues one it waits for only when it waits for
\* none.
LEMMA IssuedSound ==
  ASSUME Orderly, NEW t \in Tabs, t \in open, OthersKept(t),
         NEW ws \in Seq(Write), Issue(t, ws),
         \/ pc'[t] = pc[t] /\ found'[t] = found[t]
         \/ pc[t] \notin Waiting,
         \A k \in DOMAIN ws :
            /\ ws[k].op = "row" => ws[k].pts \in 1..head
            /\ ws[k].op = "page" => pc'[t] = "merging" /\ ws[k].pts <= head
            /\ ws[k].op = "empty" => pc'[t] = "emptying" /\ ws[k].pts = found'[t]
            /\ ws[k].op = "clear" => pc'[t] = "clearing",
         \/ \A k \in DOMAIN ws : ws[k].op \notin SyncOps
         \/ pc[t] \notin Waiting /\ DOMAIN ws = {1}
  PROVE  /\ writes' \in [Tabs -> Seq(Write)]
         /\ \A s \in Tabs : WritesSound(s)'
<1>1. \A s \in Tabs : WritesSound(s)
  BY DEF Orderly
<1>2. /\ writes' \in [Tabs -> Seq(Write)]
      /\ \A s \in Tabs \ {t} : writes'[s] = writes[s]
      /\ \A i \in DOMAIN writes[t] : writes'[t][i] = writes[t][i]
      /\ \A j \in DOMAIN writes'[t] :
           \/ j \in DOMAIN writes[t]
           \/ /\ j - Len(writes[t]) \in DOMAIN ws
              /\ writes'[t][j] = ws[j - Len(writes[t])]
  BY Issued
<1>3. /\ DOMAIN writes'[t] \subseteq Nat
      /\ Len(writes[t]) \in Nat
  BY <1>2 DEF Orderly
<1>4. \A j \in DOMAIN writes'[t] :
         /\ writes'[t][j].op = "row" => writes'[t][j].pts \in 1..head
         /\ writes'[t][j].op = "page" => pc'[t] = "merging" /\ writes'[t][j].pts <= head
         /\ writes'[t][j].op = "empty" => pc'[t] = "emptying" /\ writes'[t][j].pts = found'[t]
         /\ writes'[t][j].op = "clear" => pc'[t] = "clearing"
  <2>1. TAKE j \in DOMAIN writes'[t]
  <2>2. CASE j \in DOMAIN writes[t]
    <3>1. CASE pc'[t] = pc[t] /\ found'[t] = found[t]
      BY <1>1, <1>2, <2>2, <3>1 DEF WritesSound
    <3>2. CASE pc[t] \notin Waiting
      BY <1>1, <1>2, <2>2, <3>2, NothingAwaited DEF WritesSound, SyncOps
    <3>3. QED
      BY <3>1, <3>2
  <2>3. CASE j \notin DOMAIN writes[t]
    BY <1>2, <2>3
  <2>4. QED
    BY <2>2, <2>3
<1>5. \A i, j \in DOMAIN writes'[t] :
         writes'[t][i].op \in SyncOps /\ writes'[t][j].op \in SyncOps => i = j
  <2>1. SUFFICES ASSUME NEW i \in DOMAIN writes'[t], NEW j \in DOMAIN writes'[t],
                        writes'[t][i].op \in SyncOps, writes'[t][j].op \in SyncOps
                 PROVE  i = j
    OBVIOUS
  <2>2. CASE \A k \in DOMAIN ws : ws[k].op \notin SyncOps
    <3>1. i \in DOMAIN writes[t] /\ j \in DOMAIN writes[t]
      BY <1>2, <2>1, <2>2
    <3>2. QED
      BY <1>1, <1>2, <2>1, <3>1 DEF WritesSound
  <2>3. CASE pc[t] \notin Waiting /\ DOMAIN ws = {1}
    <3>1. i \notin DOMAIN writes[t] /\ j \notin DOMAIN writes[t]
      BY <1>2, <2>1, <2>3, NothingAwaited
    <3>2. i - Len(writes[t]) = 1 /\ j - Len(writes[t]) = 1
      BY <1>2, <2>3, <3>1
    <3>3. QED
      BY <1>3, <3>2
  <2>4. QED
    BY <2>2, <2>3
<1>6. WritesSound(t)'
  BY <1>4, <1>5 DEF WritesSound, OthersKept
<1>7. \A s \in Tabs \ {t} : WritesSound(s)'
  BY OthersSound
<1>8. QED
  BY <1>2, <1>6, <1>7

\* A write is done: if it is the one the run waits for, no other is left.
LEMMA PoppedSound ==
  ASSUME Orderly, NEW t \in Tabs, t \in open, OthersKept(t),
         writes[t] # <<>>, Done(t),
         \/ pc'[t] = pc[t] /\ found'[t] = found[t]
         \/ Head(writes[t]).op \in SyncOps
  PROVE  /\ writes' \in [Tabs -> Seq(Write)]
         /\ \A s \in Tabs : WritesSound(s)'
<1>1. \A s \in Tabs : WritesSound(s)
  BY DEF Orderly
<1>2. /\ writes' \in [Tabs -> Seq(Write)]
      /\ \A s \in Tabs \ {t} : writes'[s] = writes[s]
      /\ 1 \in DOMAIN writes[t] /\ Head(writes[t]) = writes[t][1]
      /\ \A j \in DOMAIN writes'[t] :
           j + 1 \in DOMAIN writes[t] /\ writes'[t][j] = writes[t][j + 1]
  BY Popped
<1>3. DOMAIN writes'[t] \subseteq Nat \ {0}
  BY <1>2
<1>4. \A i, j \in DOMAIN writes'[t] :
         writes'[t][i].op \in SyncOps /\ writes'[t][j].op \in SyncOps => i = j
  <2>1. SUFFICES ASSUME NEW i \in DOMAIN writes'[t], NEW j \in DOMAIN writes'[t],
                        writes'[t][i].op \in SyncOps, writes'[t][j].op \in SyncOps
                 PROVE  i = j
    OBVIOUS
  <2>2. i + 1 = j + 1
    BY <1>1, <1>2, <2>1 DEF WritesSound
  <2>3. QED
    BY <1>3, <2>2
<1>5. \A j \in DOMAIN writes'[t] :
         /\ writes'[t][j].op = "row" => writes'[t][j].pts \in 1..head
         /\ writes'[t][j].op = "page" => pc'[t] = "merging" /\ writes'[t][j].pts <= head
         /\ writes'[t][j].op = "empty" => pc'[t] = "emptying" /\ writes'[t][j].pts = found'[t]
         /\ writes'[t][j].op = "clear" => pc'[t] = "clearing"
  <2>1. CASE pc'[t] = pc[t] /\ found'[t] = found[t]
    BY <1>1, <1>2, <2>1 DEF WritesSound
  <2>2. CASE Head(writes[t]).op \in SyncOps
    <3>1. ASSUME NEW j \in DOMAIN writes'[t]
          PROVE  writes'[t][j].op \notin SyncOps
      <4>1. j + 1 # 1
        BY <1>3, <3>1
      <4>2. QED
        BY <1>1, <1>2, <2>2, <3>1, <4>1 DEF WritesSound
    <3>2. QED
      BY <1>1, <1>2, <3>1 DEF WritesSound, SyncOps
  <2>3. QED
    BY <2>1, <2>2
<1>6. WritesSound(t)'
  BY <1>4, <1>5 DEF WritesSound, OthersKept
<1>7. \A s \in Tabs \ {t} : WritesSound(s)'
  BY OthersSound
<1>8. QED
  BY <1>2, <1>6, <1>7

\* Everything of the type invariant except the queues, kept by one step of t.
LEMMA TypeKept ==
  ASSUME Orderly, writes' \in [Tabs -> Seq(Write)], NEW t \in Tabs,
         head' = head, open' = open,
         saved' \in Pts, rows' \subseteq 1..head,
         \E n \in Pts : latest' = [latest EXCEPT ![t] = n],
         \E n \in Pts : cursor' = [cursor EXCEPT ![t] = n],
         \E n \in Pts : found' = [found EXCEPT ![t] = n],
         \E l \in {"idle", "asking", "merging", "seeding", "emptying", "publishing",
                   "wiping", "clearing", "reloading", "synced"} :
            pc' = [pc EXCEPT ![t] = l],
         \E b \in BOOLEAN : boot' = [boot EXCEPT ![t] = b],
         hazards' \subseteq hazards \cup {"gap", "torn", "wiped"}
  PROVE  SyncTypeOK'
<1>1. \A s \in Tabs : \A i \in DOMAIN writes'[s] : writes'[s][i] \in Write
  OBVIOUS
<1>2. /\ latest' \in [Tabs -> Pts] /\ cursor' \in [Tabs -> Pts] /\ found' \in [Tabs -> Pts]
      /\ boot' \in [Tabs -> BOOLEAN]
  BY DEF Orderly, SyncTypeOK
<1>3. pc' \in [Tabs -> {"idle", "asking", "merging", "seeding", "emptying",
                        "publishing", "wiping", "clearing", "reloading", "synced"}]
  BY DEF Orderly, SyncTypeOK
<1>4. QED
  BY <1>1, <1>2, <1>3 DEF Orderly, SyncTypeOK

\* A field that a step leaves alone, in the form TypeKept asks for.
LEMMA Untouched ==
  ASSUME Orderly, NEW t \in Tabs
  PROVE  /\ \E n \in Pts : latest = [latest EXCEPT ![t] = n]
         /\ \E n \in Pts : cursor = [cursor EXCEPT ![t] = n]
         /\ \E n \in Pts : found = [found EXCEPT ![t] = n]
         /\ \E b \in BOOLEAN : boot = [boot EXCEPT ![t] = b]
         /\ pc[t] \in {"idle", "asking", "merging", "seeding", "emptying", "publishing",
                       "wiping", "clearing", "reloading", "synced"}
         /\ pc = [pc EXCEPT ![t] = pc[t]]
         /\ latest[t] \in Pts /\ cursor[t] \in Pts /\ found[t] \in Pts
         /\ 0 \in Pts /\ head \in Pts /\ saved \in Pts
<1>1. /\ latest = [latest EXCEPT ![t] = latest[t]]
      /\ cursor = [cursor EXCEPT ![t] = cursor[t]]
      /\ found = [found EXCEPT ![t] = found[t]]
      /\ boot = [boot EXCEPT ![t] = boot[t]]
      /\ pc = [pc EXCEPT ![t] = pc[t]]
  BY DEF Orderly, SyncTypeOK
<1>2. 0 \in Pts
  BY SyncAssumption DEF Pts
<1>3. QED
  BY <1>1, <1>2 DEF Orderly, SyncTypeOK

\* Steps of a run that issue nothing.
LEMMA QuietRunOrderly ==
  ASSUME Orderly, NEW t \in Tabs,
         \/ SyncChannel(t) \/ GotEmpty(t) \/ Rejected(t) \/ Publish(t)
         \/ Return(t) \/ Bootstrapped(t)
  PROVE  Orderly'
<1>1. /\ UNCHANGED <<head, open, writes, saved, rows, hazards>>
      /\ Bootstrapped(t) \/ (t \in open /\ pc[t] \notin Waiting)
      /\ Bootstrapped(t) => UNCHANGED <<pc, cursor, found>>
  BY DEF SyncChannel, GotEmpty, Rejected, Publish, Return, Bootstrapped, At, Waiting,
         dbVars, runVars
<1>2. OthersKept(t)
  BY <1>1 DEF SyncChannel, GotEmpty, Rejected, Publish, Return, Goto, EndRun,
              OthersKept, Orderly, SyncTypeOK
<1>3. SyncTypeOK'
  <2>1. \E n \in Pts : latest' = [latest EXCEPT ![t] = n]
    BY Untouched DEF SyncChannel, GotEmpty, Rejected, Publish, Return, Bootstrapped
  <2>2. \E n \in Pts : cursor' = [cursor EXCEPT ![t] = n]
    BY <1>1, Untouched DEF SyncChannel, GotEmpty, Rejected, Publish, Return, EndRun
  <2>3. \E n \in Pts : found' = [found EXCEPT ![t] = n]
    BY <1>1, Untouched DEF SyncChannel, GotEmpty, Rejected, Publish, Return, EndRun
  <2>4. \E l \in {"idle", "asking", "merging", "seeding", "emptying", "publishing",
                   "wiping", "clearing", "reloading", "synced"} :
            pc' = [pc EXCEPT ![t] = l]
    BY <1>1, Untouched DEF SyncChannel, GotEmpty, Rejected, Publish, Return, EndRun, Goto
  <2>5. \E b \in BOOLEAN : boot' = [boot EXCEPT ![t] = b]
    BY Untouched DEF SyncChannel, GotEmpty, Rejected, Publish, Return, Bootstrapped
  <2>6. QED
    BY <1>1, <2>1, <2>2, <2>3, <2>4, <2>5, TypeKept DEF Orderly, SyncTypeOK
<1>4. \A s \in Tabs : WritesSound(s)'
  <2>1. CASE Bootstrapped(t)
    BY <1>1, <2>1 DEF Orderly, WritesSound
  <2>2. CASE ~Bootstrapped(t)
    BY <1>1, <1>2, <2>2, MovedSound
  <2>3. QED
    BY <2>1, <2>2
<1>5. QED
  BY <1>1, <1>3, <1>4 DEF Orderly

\* Steps that issue writes.
LEMMA IssuingOrderly ==
  ASSUME Orderly, NEW t \in Tabs,
         \/ GotPage(t) \/ Seed(t) \/ Resync(t) \/ Wipe(t)
         \/ PutChannel(t) \/ Bootstrap(t)
         \/ \E m \in 1..head : Push(t, m)
  PROVE  Orderly' /\ OthersKept(t) /\ t \in open
<1>1. UNCHANGED <<head, open, saved, rows>> /\ t \in open
  BY DEF GotPage, Seed, Resync, Wipe, PutChannel, Bootstrap, Push, At, dbVars
<1>2. \A s \in Tabs \ {t} : pc'[s] = pc[s] /\ cursor'[s] = cursor[s] /\ found'[s] = found[s]
  BY DEF GotPage, Seed, Resync, Wipe, PutChannel, Bootstrap, Push, EndRun, Goto, runVars,
         Orderly, SyncTypeOK
<1>3. \/ pc'[t] = pc[t] /\ found'[t] = found[t]
      \/ pc[t] \notin Waiting
  BY DEF GotPage, Seed, Resync, Wipe, PutChannel, Bootstrap, Push, At, Waiting, runVars
<1>4. PICK ws \in Seq(Write) :
        /\ Issue(t, ws)
        /\ \A k \in DOMAIN ws :
            /\ ws[k].op = "row" => ws[k].pts \in 1..head
            /\ ws[k].op = "page" => pc'[t] = "merging" /\ ws[k].pts <= head
            /\ ws[k].op = "empty" => pc'[t] = "emptying" /\ ws[k].pts = found'[t]
            /\ ws[k].op = "clear" => pc'[t] = "clearing"
        /\ \/ \A k \in DOMAIN ws : ws[k].op \notin SyncOps
           \/ pc[t] \notin Waiting /\ DOMAIN ws = {1}
  <2>1. CASE GotPage(t)
    <3>1. PICK last \in (cursor[t] + 1)..Smaller(cursor[t] + PageLimit, head) :
            Issue(t, <<W("page", last)>>)
      BY <2>1 DEF GotPage
    <3>2. last \in Pts /\ last <= head
      BY <3>1, SyncAssumption, Untouched DEF Smaller, Pts
    <3>3. W("page", last) \in Write /\ W("page", last).op = "page"
          /\ W("page", last).pts = last
      BY <3>2, WType
    <3>4. pc'[t] = "merging" /\ pc[t] \notin Waiting
      BY <2>1 DEF GotPage, At, Goto, Waiting, Orderly, SyncTypeOK
    <3>5. /\ <<W("page", last)>> \in Seq(Write) /\ DOMAIN <<W("page", last)>> = {1}
          /\ <<W("page", last)>>[1] = W("page", last)
      BY <3>3
    <3>6. QED
      BY <3>1, <3>2, <3>3, <3>4, <3>5
  <2>2. CASE Seed(t)
    <3>1. found[t] \in Pts /\ found'[t] = found[t]
      BY <2>2, Untouched DEF Seed
    <3>2. /\ W("empty", found[t]) \in Write /\ W("empty", found[t]).op = "empty"
          /\ W("empty", found[t]).pts = found[t]
      BY <3>1, WType
    <3>3. pc'[t] = "emptying" /\ pc[t] \notin Waiting
      BY <2>2 DEF Seed, At, Goto, Waiting, Orderly, SyncTypeOK
    <3>4. /\ <<W("empty", found[t])>> \in Seq(Write)
          /\ DOMAIN <<W("empty", found[t])>> = {1}
          /\ <<W("empty", found[t])>>[1] = W("empty", found[t])
      BY <3>2
    <3>5. QED
      BY <2>2, <3>1, <3>2, <3>3, <3>4 DEF Seed
  <2>3. CASE Wipe(t)
    <3>1. W("clear", 0) \in Write /\ W("clear", 0).op = "clear"
      BY Untouched, WType
    <3>2. pc'[t] = "clearing" /\ pc[t] \notin Waiting
      BY <2>3 DEF Wipe, At, Goto, Waiting, Orderly, SyncTypeOK
    <3>3. /\ <<W("clear", 0)>> \in Seq(Write) /\ DOMAIN <<W("clear", 0)>> = {1}
          /\ <<W("clear", 0)>>[1] = W("clear", 0)
      BY <3>1
    <3>4. QED
      BY <2>3, <3>1, <3>2, <3>3 DEF Wipe
  <2>4. CASE Resync(t) \/ PutChannel(t) \/ Bootstrap(t)
    <3>1. PICK op \in {"channel", "reset"}, n \in Pts : Issue(t, <<W(op, n)>>)
      BY <2>4, Untouched DEF Resync, PutChannel, Bootstrap
    <3>2. W(op, n) \in Write /\ W(op, n).op = op
      BY <3>1, WType
    <3>3. <<W(op, n)>> \in Seq(Write) /\ DOMAIN <<W(op, n)>> = {1} /\ <<W(op, n)>>[1] = W(op, n)
      BY <3>2
    <3>4. QED
      BY <3>1, <3>2, <3>3 DEF SyncOps
  <2>5. CASE \E m \in 1..head : Push(t, m)
    <3>1. PICK m \in 1..head : Push(t, m)
      BY <2>5
    <3> DEFINE ws == <<W("channel", Larger(latest[t], m)), W("row", m)>>
    <3>2. m \in Pts /\ Larger(latest[t], m) \in Pts
      BY <3>1, Untouched, SyncAssumption DEF Larger, Pts
    <3>3. /\ W("channel", Larger(latest[t], m)) \in Write
          /\ W("channel", Larger(latest[t], m)).op = "channel"
          /\ W("row", m) \in Write /\ W("row", m).op = "row" /\ W("row", m).pts = m
      BY <3>2, WType
    <3>4. /\ ws \in Seq(Write) /\ DOMAIN ws = {1, 2}
          /\ ws[1] = W("channel", Larger(latest[t], m)) /\ ws[2] = W("row", m)
      BY <3>3
    <3>5. Issue(t, ws)
      BY <3>1 DEF Push
    <3>6. QED
      BY <3>1, <3>3, <3>4, <3>5 DEF SyncOps
  <2>6. QED
    BY <2>1, <2>2, <2>3, <2>4, <2>5
<1>5. \A s \in Tabs \ {t} : writes'[s] = writes[s]
  BY <1>4, Issued
<1>6. OthersKept(t)
  BY <1>1, <1>2, <1>5 DEF OthersKept
<1>7. writes' \in [Tabs -> Seq(Write)] /\ \A s \in Tabs : WritesSound(s)'
  BY <1>1, <1>3, <1>4, <1>6, IssuedSound
<1>8. SyncTypeOK'
  <2>1. \E n \in Pts : latest' = [latest EXCEPT ![t] = n]
    <3>1. CASE \E m \in 1..head : Push(t, m)
      <4>1. PICK m \in 1..head : Push(t, m)
        BY <3>1
      <4>2. Larger(latest[t], m) \in Pts
        BY <4>1, Untouched, SyncAssumption DEF Larger, Pts
      <4>3. QED
        BY <4>1, <4>2 DEF Push
    <3>2. QED
      BY <3>1, Untouched DEF GotPage, Seed, Resync, Wipe, PutChannel, Bootstrap
  <2>2. \E n \in Pts : cursor' = [cursor EXCEPT ![t] = n]
    <3>1. cursor' = cursor
      BY DEF GotPage, Seed, Resync, Wipe, PutChannel, Bootstrap, Push, EndRun, runVars
    <3>2. QED
      BY <3>1, Untouched
  <2>3. \E n \in Pts : found' = [found EXCEPT ![t] = n]
    <3>1. found' = found \/ found' = [found EXCEPT ![t] = 0]
      BY DEF GotPage, Seed, Resync, Wipe, PutChannel, Bootstrap, Push, EndRun, runVars
    <3>2. QED
      BY <3>1, Untouched
  <2>4. \E l \in {"idle", "asking", "merging", "seeding", "emptying", "publishing",
                   "wiping", "clearing", "reloading", "synced"} :
            pc' = [pc EXCEPT ![t] = l]
    BY Untouched DEF GotPage, Seed, Resync, Wipe, PutChannel, Bootstrap, Push, EndRun, Goto,
                     runVars
  <2>5. \E b \in BOOLEAN : boot' = [boot EXCEPT ![t] = b]
    BY Untouched DEF GotPage, Seed, Resync, Wipe, PutChannel, Bootstrap, Push
  <2>6. hazards' \subseteq hazards \cup {"gap", "torn", "wiped"}
    BY DEF GotPage, Seed, Resync, Wipe, PutChannel, Bootstrap, Push, Gap
  <2>7. QED
    BY <1>1, <1>7, <2>1, <2>2, <2>3, <2>4, <2>5, <2>6, TypeKept DEF Orderly, SyncTypeOK
<1>9. QED
  BY <1>1, <1>6, <1>7, <1>8 DEF Orderly

LEMMA ChannelWrite ==
  ASSUME NEW n \in Pts
  PROVE  /\ <<W("channel", n)>> \in Seq(Write)
         /\ DOMAIN <<W("channel", n)>> = {1}
         /\ <<W("channel", n)>>[1] = W("channel", n)
         /\ W("channel", n).op = "channel" /\ W("channel", n).pts = n
<1>1. W("channel", n) \in Write /\ W("channel", n).op = "channel" /\ W("channel", n).pts = n
  BY WType
<1>2. QED
  BY <1>1

\* Steps that store rows themselves and may issue a channel write after.
LEMMA StoringOrderly ==
  ASSUME Orderly, NEW t \in Tabs,
         Reload(t) \/ \E m \in 1..head : OwnSent(t, m)
  PROVE  Orderly' /\ OthersKept(t) /\ t \in open
<1>1. UNCHANGED <<head, open, saved, boot>>
  BY DEF Reload, OwnSent
<1>2. t \in open /\ rows' \subseteq 1..head
  <2>1. rows \subseteq 1..head /\ head \in Nat
    BY SyncAssumption DEF Orderly, SyncTypeOK, Pts
  <2>2. CASE Reload(t)
    <3>1. PICK k \in 1..(head + 1) : rows' = rows \cup k..head
      BY <2>2 DEF Reload
    <3>2. k..head \subseteq 1..head
      BY <2>1, <3>1
    <3>3. QED
      BY <2>1, <2>2, <3>1, <3>2 DEF Reload, At
  <2>3. CASE \E m \in 1..head : OwnSent(t, m)
    BY <2>1, <2>3 DEF OwnSent
  <2>4. QED
    BY <2>2, <2>3
<1>3. /\ \A s \in Tabs \ {t} : pc'[s] = pc[s] /\ cursor'[s] = cursor[s] /\ found'[s] = found[s]
      /\ \/ pc'[t] = pc[t] /\ found'[t] = found[t]
         \/ pc[t] \notin Waiting
  BY DEF Reload, OwnSent, EndRun, Goto, At, Waiting, runVars, Orderly, SyncTypeOK
<1>4. \/ writes' = writes
      \/ Issue(t, <<>>)
      \/ \E n \in Pts : Issue(t, <<W("channel", n)>>)
  BY Untouched, SyncAssumption DEF Reload, OwnSent, Pts
<1>5. /\ OthersKept(t) /\ writes' \in [Tabs -> Seq(Write)]
      /\ \A s \in Tabs : WritesSound(s)'
  <2>1. CASE writes' = writes
    <3>1. OthersKept(t)
      BY <1>1, <1>3, <2>1 DEF OthersKept
    <3>2. QED
      BY <1>2, <1>3, <2>1, <3>1, MovedSound DEF Orderly
  <2>2. CASE Issue(t, <<>>)
    <3>1. <<>> \in Seq(Write) /\ DOMAIN <<>> = {}
      OBVIOUS
    <3>2. OthersKept(t)
      BY <1>1, <1>3, <2>2, <3>1, Issued DEF OthersKept
    <3>3. \A k \in DOMAIN <<>> : FALSE
      BY <3>1
    <3>4. QED
      BY <1>2, <1>3, <2>2, <3>1, <3>2, <3>3, IssuedSound
  <2>3. CASE \E n \in Pts : Issue(t, <<W("channel", n)>>)
    <3>1. PICK n \in Pts : Issue(t, <<W("channel", n)>>)
      BY <2>3
    <3> DEFINE ws == <<W("channel", n)>>
    <3>2. /\ ws \in Seq(Write)
          /\ \A k \in DOMAIN ws : ws[k].op = "channel"
      BY ChannelWrite
    <3> HIDE DEF ws
    <3>3. Issue(t, ws)
      BY <3>1 DEF ws
    <3>4. OthersKept(t)
      BY <1>1, <1>3, <3>2, <3>3, Issued DEF OthersKept
    <3>5. QED
      BY <1>2, <1>3, <3>2, <3>3, <3>4, IssuedSound DEF SyncOps
  <2>4. QED
    BY <1>4, <2>1, <2>2, <2>3
<1>6. SyncTypeOK'
  <2>1. \E n \in Pts : latest' = [latest EXCEPT ![t] = n]
    <3>1. CASE \E m \in 1..head : OwnSent(t, m)
      <4>1. PICK m \in 1..head : OwnSent(t, m)
        BY <3>1
      <4>2. Larger(latest[t], m) \in Pts
        BY <4>1, Untouched, SyncAssumption DEF Larger, Pts
      <4>3. QED
        BY <4>1, <4>2 DEF OwnSent
    <3>2. CASE Reload(t)
      BY <3>2, Untouched DEF Reload
    <3>3. QED
      BY <3>1, <3>2
  <2>2. /\ cursor' = cursor \/ cursor' = [cursor EXCEPT ![t] = 0]
        /\ found' = found \/ found' = [found EXCEPT ![t] = 0]
    BY DEF Reload, OwnSent, EndRun, runVars
  <2>3. /\ \E n \in Pts : cursor' = [cursor EXCEPT ![t] = n]
        /\ \E n \in Pts : found' = [found EXCEPT ![t] = n]
    BY <2>2, Untouched
  <2>4. \E l \in {"idle", "asking", "merging", "seeding", "emptying", "publishing",
                   "wiping", "clearing", "reloading", "synced"} :
            pc' = [pc EXCEPT ![t] = l]
    BY Untouched DEF Reload, OwnSent, EndRun, Goto, runVars
  <2>5. \E b \in BOOLEAN : boot' = [boot EXCEPT ![t] = b]
    BY <1>1, Untouched
  <2>6. hazards' \subseteq hazards \cup {"gap", "torn", "wiped"}
    BY DEF Reload, OwnSent, Gap
  <2>7. QED
    BY <1>1, <1>2, <1>5, <2>1, <2>3, <2>4, <2>5, <2>6, TypeKept, Untouched
<1>7. QED
  BY <1>2, <1>5, <1>6 DEF Orderly

\* What the database does with a write it takes from the queue.
LEMMA DatabaseOrderly ==
  ASSUME Orderly, NEW t \in Tabs, Database(t)
  PROVE  /\ Orderly' /\ OthersKept(t) /\ t \in open
         /\ writes[t] # <<>> /\ Done(t)
<1>1. /\ UNCHANGED <<head, open, latest>> /\ t \in open /\ writes[t] # <<>> /\ Done(t)
  BY DEF Database, RunChannel, RunRow, RunPage, RunEmpty, RunClear, RunReset, WriteFails,
         Next1
<1> DEFINE w == Head(writes[t])
<1>2. /\ w \in Write
      /\ w.op = "row" => w.pts \in 1..head
      /\ w.op = "page" => w.pts <= head
      /\ \A s \in Tabs \ {t} : writes'[s] = writes[s]
  BY <1>1, Popped DEF Orderly, WritesSound, SyncTypeOK
<1>3. w.pts \in Pts /\ w.op \in {"channel", "row", "page", "empty", "clear", "reset"}
  BY <1>2 DEF Write
<1>4. \/ UNCHANGED <<pc, found, cursor>>
      \/ w.op \in SyncOps
  BY DEF Database, RunChannel, RunRow, RunPage, RunEmpty, RunClear, RunReset, WriteFails,
         Next1, runVars, SyncOps
<1>5. \E n \in Pts : cursor' = [cursor EXCEPT ![t] = n]
  <2>1. CASE RunPage(t)
    BY <1>3, <2>1 DEF RunPage
  <2>2. CASE WriteFails(t)
    <3>1. \/ EndRun(t, "idle") \/ EndRun(t, "reloading") \/ UNCHANGED runVars
      BY <1>3, <2>2 DEF WriteFails
    <3>2. QED
      BY <3>1, Untouched DEF EndRun, runVars
  <2>3. CASE RunChannel(t) \/ RunRow(t) \/ RunEmpty(t) \/ RunClear(t) \/ RunReset(t)
    BY <2>3, Untouched DEF RunChannel, RunRow, RunEmpty, RunClear, RunReset, runVars
  <2>4. QED
    BY <2>1, <2>2, <2>3 DEF Database
<1>6. saved' \in Pts
  BY <1>3, Untouched
  DEF Database, RunChannel, RunRow, RunPage, RunEmpty, RunClear, RunReset, WriteFails,
      dbVars, Larger
<1>7. \E n \in Pts : found' = [found EXCEPT ![t] = n]
  <2>1. CASE RunPage(t)
    BY <1>6, <2>1 DEF RunPage
  <2>2. CASE WriteFails(t)
    <3>1. \/ EndRun(t, "idle") \/ EndRun(t, "reloading") \/ UNCHANGED runVars
      BY <1>3, <2>2 DEF WriteFails
    <3>2. QED
      BY <3>1, Untouched DEF EndRun, runVars
  <2>3. CASE RunChannel(t) \/ RunRow(t) \/ RunEmpty(t) \/ RunClear(t) \/ RunReset(t)
    BY <2>3, Untouched DEF RunChannel, RunRow, RunEmpty, RunClear, RunReset, runVars
  <2>4. QED
    BY <2>1, <2>2, <2>3 DEF Database
<1>8. \E l \in {"idle", "asking", "merging", "seeding", "emptying", "publishing",
                   "wiping", "clearing", "reloading", "synced"} :
            pc' = [pc EXCEPT ![t] = l]
  <2>1. CASE WriteFails(t)
    <3>1. \/ EndRun(t, "idle") \/ EndRun(t, "reloading") \/ UNCHANGED runVars
      BY <1>3, <2>1 DEF WriteFails
    <3>2. QED
      BY <3>1, Untouched DEF EndRun, Goto, runVars
  <2>2. CASE \/ RunChannel(t) \/ RunRow(t) \/ RunPage(t) \/ RunEmpty(t)
             \/ RunClear(t) \/ RunReset(t)
    BY <2>2, Untouched DEF RunChannel, RunRow, RunPage, RunEmpty, RunClear, RunReset,
                           runVars, Goto
  <2>3. QED
    BY <2>1, <2>2 DEF Database
<1>9. /\ \E b \in BOOLEAN : boot' = [boot EXCEPT ![t] = b]
      /\ hazards' \subseteq hazards \cup {"gap", "torn", "wiped"}
  BY Untouched
  DEF Database, RunChannel, RunRow, RunPage, RunEmpty, RunClear, RunReset, WriteFails, Torn
<1>10. rows' \subseteq 1..head
  <2>1. rows \subseteq 1..head
    BY DEF Orderly, SyncTypeOK
  <2>2. CASE RunPage(t)
    <3>1. w.pts <= head /\ cursor[t] \in Pts /\ rows' = rows \cup (cursor[t] + 1)..w.pts
      BY <1>2, <2>2, Untouched DEF RunPage, Next1
    <3>2. QED
      BY <1>3, <2>1, <3>1, Untouched, SyncAssumption DEF Pts
  <2>3. CASE ~RunPage(t)
    BY <1>2, <2>1, <2>3 DEF Database, RunChannel, RunRow, RunEmpty, RunClear, RunReset,
                            WriteFails, Next1, dbVars
  <2>4. QED
    BY <2>2, <2>3
<1>11. OthersKept(t)
  BY <1>1, <1>2, <1>5, <1>7, <1>8 DEF OthersKept, Orderly, SyncTypeOK
<1>12. writes' \in [Tabs -> Seq(Write)] /\ \A s \in Tabs : WritesSound(s)'
  BY <1>1, <1>4, <1>11, PoppedSound
<1>13. SyncTypeOK'
  <2>1. \E n \in Pts : latest' = [latest EXCEPT ![t] = n]
    BY <1>1, Untouched
  <2>2. QED
    BY <1>1, <1>5, <1>6, <1>7, <1>8, <1>9, <1>10, <1>12, <2>1, TypeKept
<1>14. QED
  BY <1>1, <1>11, <1>12, <1>13 DEF Orderly

\* The server commits; tabs open and close.
LEMMA OutsideOrderly ==
  ASSUME Orderly, NEW t \in Tabs, Commit \/ OpenTab(t) \/ CloseTab(t)
  PROVE  Orderly'
<1>1. \A s \in Tabs : WritesSound(s)
  BY DEF Orderly
<1>2. CASE Commit
  <2>1. head' \in Pts /\ head' = head + 1 /\ 1..head \subseteq 1..head'
    BY <1>2, SyncAssumption, Untouched DEF Commit, Pts
  <2>2. UNCHANGED <<rows, saved, open, latest, writes, pc, cursor, found, boot, hazards>>
    BY <1>2 DEF Commit, dbVars, runVars
  <2>3. SyncTypeOK'
    BY <2>1, <2>2 DEF Orderly, SyncTypeOK
  <2>4. ASSUME NEW s \in Tabs PROVE WritesSound(s)'
    <3>1. \A i \in DOMAIN writes[s] : writes[s][i].pts \in Pts
      BY DEF Orderly, SyncTypeOK, Write
    <3>2. \A n \in Pts : n <= head => n <= head'
      BY <2>1, SyncAssumption, Untouched DEF Pts
    <3>3. QED
      BY <1>1, <2>1, <2>2, <3>1, <3>2 DEF WritesSound
  <2>5. QED
    BY <2>2, <2>3, <2>4 DEF Orderly
<1>3. CASE OpenTab(t)
  <2>1. /\ UNCHANGED <<head, rows, saved, writes, pc, cursor, found, boot, hazards>>
        /\ latest' = [latest EXCEPT ![t] = saved]
        /\ open' = open \cup {t}
    BY <1>3 DEF OpenTab, dbVars, runVars
  <2>2. SyncTypeOK'
    BY <2>1 DEF Orderly, SyncTypeOK
  <2>3. \A s \in Tabs : WritesSound(s)'
    BY <1>1, <2>1 DEF WritesSound
  <2>4. QED
    BY <2>1, <2>2, <2>3 DEF Orderly
<1>4. CASE CloseTab(t)
  <2>1. /\ UNCHANGED <<head, rows, saved>>
        /\ open' = open \ {t}
        /\ hazards' \subseteq hazards \cup {"torn"}
        /\ writes' = [writes EXCEPT ![t] = <<>>]
        /\ latest' = [latest EXCEPT ![t] = 0]
        /\ boot' = [boot EXCEPT ![t] = FALSE]
        /\ pc' = [pc EXCEPT ![t] = "idle"]
        /\ cursor' = [cursor EXCEPT ![t] = 0]
        /\ found' = [found EXCEPT ![t] = 0]
    BY <1>4 DEF CloseTab, EndRun, Goto, Torn, dbVars
  <2>2. <<>> \in Seq(Write) /\ DOMAIN <<>> = {}
    OBVIOUS
  <2>3. writes' \in [Tabs -> Seq(Write)]
    BY <2>1, <2>2 DEF Orderly
  <2>4. 0 \in Pts
    BY Untouched
  <2>5. SyncTypeOK'
    <3>1. \A s \in Tabs : \A i \in DOMAIN writes'[s] : writes'[s][i] \in Write
      BY <2>3
    <3>2. QED
      BY <2>1, <2>4, <3>1 DEF Orderly, SyncTypeOK
  <2>6. ASSUME NEW s \in Tabs PROVE WritesSound(s)'
    <3>1. CASE s = t
      BY <2>1, <2>2, <3>1 DEF WritesSound, Orderly, SyncTypeOK
    <3>2. CASE s # t
      BY <1>1, <2>1, <3>2 DEF WritesSound, Orderly, SyncTypeOK
    <3>3. QED
      BY <3>1, <3>2
  <2>7. QED
    BY <2>3, <2>5, <2>6 DEF Orderly
<1>5. QED
  BY <1>2, <1>3, <1>4

LEMMA NextOrderly == Orderly /\ [Next]_vars => Orderly'
<1> SUFFICES ASSUME Orderly, [Next]_vars PROVE Orderly'
  OBVIOUS
<1>1. ASSUME NEW t \in Tabs, Commit \/ OpenTab(t) \/ CloseTab(t) PROVE Orderly'
  BY <1>1, OutsideOrderly
<1>2. CASE Commit
  <2>1. CASE Tabs = {}
    BY <1>2, <2>1, SyncAssumption DEF Commit, Orderly, SyncTypeOK, dbVars, runVars, Pts
  <2>2. QED
    BY <1>2, <2>1, OutsideOrderly
<1>3. ASSUME NEW t \in Tabs, Run(t) \/ Database(t) \/ Lift(t) PROVE Orderly'
  BY <1>3, QuietRunOrderly, IssuingOrderly, StoringOrderly, DatabaseOrderly DEF Run, Lift
<1>4. CASE UNCHANGED vars
  BY <1>4 DEF vars, dbVars, runVars, Orderly, SyncTypeOK, WritesSound
<1>5. QED
  BY <1>1, <1>2, <1>3, <1>4 DEF Next

-----------------------------------------------------------------------------
(* Coverage.                                                               *)

\* One tab moves and nothing stored is lost: only its own numbers, and the
\* stored one, have to be looked at.
LEMMA OneTabCovered ==
  ASSUME Orderly, AllCovered, NEW t \in Tabs, OthersKept(t),
         \A s \in Tabs \ {t} : latest'[s] = latest[s],
         hazards \subseteq hazards',
         hazards' = {} => Stored \subseteq Stored' /\ Covers(saved)' /\ TabCovered(t)'
  PROVE  AllCovered'
<1>1. SUFFICES ASSUME hazards' = {}
               PROVE  Covers(saved)' /\ \A s \in open : TabCovered(s)'
  BY DEF AllCovered, OthersKept
<1>2. hazards = {} /\ Stored \subseteq Stored' /\ Covers(saved)' /\ TabCovered(t)'
  BY <1>1
<1>3. ASSUME NEW s \in open, s # t PROVE TabCovered(s)'
  <2>1. TabCovered(s) /\ s \in Tabs
    BY <1>2 DEF AllCovered, Orderly, SyncTypeOK
  <2>2. /\ latest'[s] = latest[s] /\ cursor'[s] = cursor[s] /\ found'[s] = found[s]
        /\ writes'[s] = writes[s]
    BY <1>3, <2>1 DEF OthersKept
  <2>3. QED
    BY <1>2, <2>1, <2>2 DEF TabCovered, Covers
<1>4. QED
  BY <1>2, <1>3

\* What issuing does to what is stored.
LEMMA IssuedCovered ==
  ASSUME Orderly, Orderly', NEW t \in open, OthersKept(t),
         NEW ws \in Seq(Write), Issue(t, ws), rows \subseteq rows'
  PROVE  /\ Stored \subseteq Stored'
         /\ \A k \in DOMAIN ws : ws[k].op = "row" => ws[k].pts \in Stored'
         /\ (/\ \A i \in DOMAIN writes[t] :
                  writes[t][i].op = "channel" => 1..writes[t][i].pts \subseteq Stored
             /\ \A k \in DOMAIN ws :
                  ws[k].op = "channel" => 1..ws[k].pts \subseteq Stored')
            => \A j \in DOMAIN writes'[t] :
                  writes'[t][j].op = "channel" => 1..writes'[t][j].pts \subseteq Stored'
<1>0. t \in Tabs /\ open' = open
  BY DEF Orderly, SyncTypeOK, OthersKept
<1>1. /\ \A i \in DOMAIN writes[t] :
           i \in DOMAIN writes'[t] /\ writes'[t][i] = writes[t][i]
      /\ \A k \in DOMAIN ws :
           /\ Len(writes[t]) + k \in DOMAIN writes'[t]
           /\ writes'[t][Len(writes[t]) + k] = ws[k]
      /\ \A j \in DOMAIN writes'[t] :
           \/ j \in DOMAIN writes[t]
           \/ /\ j - Len(writes[t]) \in DOMAIN ws
              /\ writes'[t][j] = ws[j - Len(writes[t])]
  BY <1>0, Issued
<1>2. Stored \subseteq Stored'
  <2>1. ASSUME NEW s \in open, NEW i \in DOMAIN writes[s]
        PROVE  \E j \in DOMAIN writes'[s] : writes'[s][j] = writes[s][i]
    <3>1. CASE s = t
      BY <1>1, <2>1, <3>1
    <3>2. CASE s # t
      BY <2>1, <3>2 DEF OthersKept, Orderly, SyncTypeOK
    <3>3. QED
      BY <3>1, <3>2
  <2>2. QED
    BY <1>0, <2>1, StoredGrows
<1>3. ASSUME NEW k \in DOMAIN ws, ws[k].op = "row"
      PROVE  ws[k].pts \in Stored'
  <2>1. \E j \in DOMAIN writes'[t] :
          writes'[t][j].op = "row" /\ writes'[t][j].pts = ws[k].pts
    BY <1>1, <1>3
  <2>2. (\A n : n \in Stored <=> RowOrWrite(n))'
    BY StoredIs, PTL
  <2>3. QED
    BY <1>0, <2>1, <2>2 DEF RowOrWrite
<1>4. ASSUME \A i \in DOMAIN writes[t] :
                writes[t][i].op = "channel" => 1..writes[t][i].pts \subseteq Stored,
             \A k \in DOMAIN ws :
                ws[k].op = "channel" => 1..ws[k].pts \subseteq Stored',
             NEW j \in DOMAIN writes'[t], writes'[t][j].op = "channel"
      PROVE  1..writes'[t][j].pts \subseteq Stored'
  <2>1. CASE j \in DOMAIN writes[t]
    BY <1>1, <1>2, <1>4, <2>1
  <2>2. CASE j \notin DOMAIN writes[t]
    BY <1>1, <1>4, <2>2
  <2>3. QED
    BY <2>1, <2>2
<1>5. QED
  BY <1>2, <1>3, <1>4

\* What a finished write does: a row that does not get lost stays stored.
LEMMA PoppedCovered ==
  ASSUME Orderly, Orderly', NEW t \in open, OthersKept(t),
         writes[t] # <<>>, Done(t), rows \subseteq rows'
  PROVE  /\ Head(writes[t]).op # "row" \/ Head(writes[t]).pts \in rows'
              => Stored \subseteq Stored'
         /\ \A j \in DOMAIN writes'[t] : \E i \in DOMAIN writes[t] : writes'[t][j] = writes[t][i]
<1>0. t \in Tabs /\ open' = open
  BY DEF Orderly, SyncTypeOK, OthersKept
<1>1. /\ 1 \in DOMAIN writes[t] /\ Head(writes[t]) = writes[t][1]
      /\ \A j \in DOMAIN writes'[t] :
           j + 1 \in DOMAIN writes[t] /\ writes'[t][j] = writes[t][j + 1]
      /\ \A i \in DOMAIN writes[t] \ {1} :
           i - 1 \in DOMAIN writes'[t] /\ writes'[t][i - 1] = writes[t][i]
  BY <1>0, Popped
<1>2. ASSUME Head(writes[t]).op # "row" \/ Head(writes[t]).pts \in rows'
      PROVE  Stored \subseteq Stored'
  <2>1. ASSUME NEW s \in open, NEW i \in DOMAIN writes[s], writes[s][i].op = "row"
        PROVE  \/ writes[s][i].pts \in rows'
               \/ \E j \in DOMAIN writes'[s] : writes'[s][j] = writes[s][i]
    <3>1. CASE s = t /\ i = 1
      BY <1>1, <1>2, <2>1, <3>1
    <3>2. CASE s = t /\ i # 1
      BY <1>1, <2>1, <3>2
    <3>3. CASE s # t
      BY <2>1, <3>3 DEF OthersKept, Orderly, SyncTypeOK
    <3>4. QED
      BY <3>1, <3>2, <3>3
  <2>2. QED
    BY <1>0, <2>1, StoredGrows
<1>3. QED
  BY <1>1, <1>2

LEMMA NothingToCover == 1..0 = {}
  OBVIOUS

\* A step that issues nothing and stores nothing passes covered numbers on.
LEMMA QuietRunCovered ==
  ASSUME Orderly, AllCovered, NEW t \in Tabs,
         \/ SyncChannel(t) \/ GotEmpty(t) \/ Rejected(t) \/ Publish(t)
         \/ Return(t) \/ (Bootstrapped(t) /\ t \in open)
  PROVE  AllCovered'
<1>1. UNCHANGED <<head, open, writes, saved, rows, hazards>> /\ t \in open
  BY DEF SyncChannel, GotEmpty, Rejected, Publish, Return, Bootstrapped, At, dbVars
<1>2. OthersKept(t) /\ \A s \in Tabs \ {t} : latest'[s] = latest[s]
  BY <1>1 DEF SyncChannel, GotEmpty, Rejected, Publish, Return, Bootstrapped, Goto, EndRun,
              runVars, OthersKept, Orderly, SyncTypeOK
<1>3. /\ latest'[t] \in {0, latest[t], found[t]}
      /\ cursor'[t] \in {0, cursor[t], latest[t]}
      /\ found'[t] \in {0, found[t], latest[t]}
  BY DEF SyncChannel, GotEmpty, Rejected, Publish, Return, Bootstrapped, Goto, EndRun,
         runVars, Orderly, SyncTypeOK
<1>4. Stored' = Stored
  BY <1>1 DEF Stored
<1>5. ASSUME hazards' = {} PROVE Covers(saved)' /\ TabCovered(t)'
  BY <1>1, <1>3, <1>4, <1>5, NothingToCover DEF AllCovered, TabCovered, Covers
<1>6. QED
  BY <1>1, <1>2, <1>4, <1>5, OneTabCovered

LEMMA PushCovered ==
  ASSUME Orderly, AllCovered, NEW t \in Tabs, NEW m \in 1..head, Push(t, m)
  PROVE  AllCovered'
<1>1. Orderly' /\ OthersKept(t) /\ t \in open
  BY IssuingOrderly
<1> DEFINE big == Larger(latest[t], m)
           ws == <<W("channel", big), W("row", m)>>
<1>2. m \in Pts /\ big \in Pts /\ latest[t] \in Nat /\ m \in Nat \ {0}
  BY Untouched, SyncAssumption DEF Larger, Pts
<1>3. /\ W("channel", big) \in Write /\ W("channel", big).op = "channel"
      /\ W("channel", big).pts = big
      /\ W("row", m) \in Write /\ W("row", m).op = "row" /\ W("row", m).pts = m
  BY <1>2, WType
<1>4. /\ ws \in Seq(Write) /\ DOMAIN ws = {1, 2}
      /\ ws[1] = W("channel", big) /\ ws[2] = W("row", m)
  BY <1>3
<1>5. Issue(t, ws) /\ rows' = rows /\ saved' = saved
  BY DEF Push, dbVars
<1>6. /\ \A s \in Tabs \ {t} : latest'[s] = latest[s]
      /\ latest'[t] = big
      /\ cursor'[t] = cursor[t] /\ found'[t] = found[t]
      /\ hazards \subseteq hazards'
  BY DEF Push, Gap, runVars, Orderly, SyncTypeOK
<1>7. ASSUME hazards' = {}
      PROVE  Stored \subseteq Stored' /\ Covers(saved)' /\ TabCovered(t)'
  <2>1. Covers(saved) /\ TabCovered(t)
    BY <1>1, <1>6, <1>7 DEF AllCovered
  <2> HIDE DEF ws
  <2>2. Stored \subseteq Stored' /\ m \in Stored'
    BY <1>1, <1>3, <1>4, <1>5, IssuedCovered
  <2>3. 1..big \subseteq Stored'
    <3>1. CASE m > latest[t]
      <4>1. hazards' = Gap(m)
        BY <3>1 DEF Push
      <4>2. \A k \in 1..(m - 1) : k \in Stored
        BY <1>7, <4>1 DEF Gap
      <4>3. big = m /\ \A k \in 1..m : k = m \/ k \in 1..(m - 1)
        BY <1>2, <3>1 DEF Larger
      <4>4. QED
        BY <2>2, <4>2, <4>3
    <3>2. CASE ~(m > latest[t])
      <4>1. 1..big \subseteq 1..latest[t]
        BY <1>2, <3>2 DEF Larger
      <4>2. QED
        BY <2>1, <2>2, <4>1 DEF TabCovered, Covers
    <3>3. QED
      BY <3>1, <3>2
  <2>4. \A j \in DOMAIN writes'[t] :
          writes'[t][j].op = "channel" => 1..writes'[t][j].pts \subseteq Stored'
    <3>1. \A k \in DOMAIN ws : ws[k].op = "channel" => 1..ws[k].pts \subseteq Stored'
      BY <1>3, <1>4, <2>3
    <3>2. \A i \in DOMAIN writes[t] :
            writes[t][i].op = "channel" => 1..writes[t][i].pts \subseteq Stored
      BY <2>1 DEF TabCovered, Covers
    <3>3. QED
      BY <1>1, <1>4, <1>5, <3>1, <3>2, IssuedCovered
  <2>5. QED
    BY <1>5, <1>6, <2>1, <2>2, <2>3, <2>4 DEF TabCovered, Covers
<1>8. QED
  BY <1>1, <1>6, <1>7, OneTabCovered

\* The other steps that issue: a channel write carries a covered number.
LEMMA IssuingCovered ==
  ASSUME Orderly, AllCovered, NEW t \in Tabs,
         GotPage(t) \/ Seed(t) \/ Resync(t) \/ Wipe(t) \/ PutChannel(t) \/ Bootstrap(t)
  PROVE  AllCovered'
<1>1. Orderly' /\ OthersKept(t) /\ t \in open
  BY IssuingOrderly
<1>2. /\ UNCHANGED <<rows, saved, hazards>>
      /\ \A s \in Tabs \ {t} : latest'[s] = latest[s]
      /\ latest'[t] \in {0, latest[t]} /\ cursor'[t] = cursor[t] /\ found'[t] \in {0, found[t]}
  BY DEF GotPage, Seed, Resync, Wipe, PutChannel, Bootstrap, EndRun, dbVars, runVars,
         Orderly, SyncTypeOK
<1>3. PICK op \in {"channel", "row", "page", "empty", "clear", "reset"}, n \in Pts :
        /\ Issue(t, <<W(op, n)>>)
        /\ op = "channel" => n \in {0, latest[t]}
  <2>1. CASE GotPage(t)
    <3>1. PICK last \in (cursor[t] + 1)..Smaller(cursor[t] + PageLimit, head) :
            Issue(t, <<W("page", last)>>)
      BY <2>1 DEF GotPage
    <3>2. last \in Pts
      BY <3>1, SyncAssumption, Untouched DEF Smaller, Pts
    <3>3. QED
      BY <3>1, <3>2
  <2>2. CASE ~GotPage(t)
    BY <2>2, Untouched DEF Seed, Resync, Wipe, PutChannel, Bootstrap
  <2>3. QED
    BY <2>1, <2>2
<1> DEFINE ws == <<W(op, n)>>
<1>4. W(op, n) \in Write /\ W(op, n).op = op /\ W(op, n).pts = n
  BY <1>3, WType
<1>5. ws \in Seq(Write) /\ DOMAIN ws = {1} /\ ws[1] = W(op, n)
  BY <1>4
<1>6. ASSUME hazards' = {}
      PROVE  Stored \subseteq Stored' /\ Covers(saved)' /\ TabCovered(t)'
  <2>1. Covers(saved) /\ TabCovered(t)
    BY <1>1, <1>2, <1>6 DEF AllCovered
  <2>2. Issue(t, ws)
    BY <1>3
  <2> HIDE DEF ws
  <2>3. Stored \subseteq Stored'
    BY <1>1, <1>2, <1>5, <2>2, IssuedCovered
  <2>4. \A k \in DOMAIN ws : ws[k].op = "channel" => 1..ws[k].pts \subseteq Stored'
    BY <1>3, <1>4, <1>5, <2>1, <2>3, NothingToCover DEF TabCovered, Covers
  <2>5. \A i \in DOMAIN writes[t] :
          writes[t][i].op = "channel" => 1..writes[t][i].pts \subseteq Stored
    BY <2>1 DEF TabCovered, Covers
  <2>6. \A j \in DOMAIN writes'[t] :
          writes'[t][j].op = "channel" => 1..writes'[t][j].pts \subseteq Stored'
    BY <1>1, <1>2, <1>5, <2>2, <2>4, <2>5, IssuedCovered
  <2>7. QED
    BY <1>2, <2>1, <2>3, <2>6, NothingToCover DEF TabCovered, Covers
<1>7. QED
  BY <1>1, <1>2, <1>6, OneTabCovered

LEMMA StoringCovered ==
  ASSUME Orderly, AllCovered, NEW t \in Tabs,
         Reload(t) \/ \E m \in 1..head : OwnSent(t, m)
  PROVE  AllCovered'
<1>1. Orderly' /\ OthersKept(t) /\ t \in open
  BY StoringOrderly
<1>2. /\ rows \subseteq rows' /\ saved' = saved /\ hazards \subseteq hazards'
      /\ \A s \in Tabs \ {t} : latest'[s] = latest[s]
      /\ cursor'[t] \in {0, cursor[t]} /\ found'[t] \in {0, found[t]}
  BY DEF Reload, OwnSent, Gap, EndRun, runVars, Orderly, SyncTypeOK
<1>3. \/ writes' = writes
      \/ Issue(t, <<>>)
      \/ Issue(t, <<W("channel", latest'[t])>>) /\ latest'[t] \in Pts
  <2>1. CASE Reload(t)
    BY <2>1, Untouched DEF Reload
  <2>2. CASE \E m \in 1..head : OwnSent(t, m)
    <3>1. PICK m \in 1..head : OwnSent(t, m)
      BY <2>2
    <3>2. m \in Pts /\ (m > latest[t] => Larger(latest[t], m) = m)
      BY <3>1, Untouched, SyncAssumption DEF Larger, Pts
    <3>3. latest'[t] = Larger(latest[t], m)
      BY <3>1 DEF OwnSent, Orderly, SyncTypeOK
    <3>4. QED
      BY <3>1, <3>2, <3>3 DEF OwnSent
  <2>3. QED
    BY <2>1, <2>2
<1>4. ASSUME hazards' = {}
      PROVE  Stored \subseteq Stored' /\ Covers(saved)' /\ TabCovered(t)'
  <2>1. Covers(saved) /\ TabCovered(t)
    BY <1>1, <1>2, <1>4 DEF AllCovered
  <2>2. Stored \subseteq Stored'
    <3>1. CASE writes' = writes
      BY <1>1, <1>2, <3>1, StoredGrows DEF OthersKept
    <3>2. CASE Issue(t, <<>>)
      <4>1. <<>> \in Seq(Write)
        OBVIOUS
      <4>2. QED
        BY <1>1, <1>2, <3>2, <4>1, IssuedCovered
    <3>3. CASE Issue(t, <<W("channel", latest'[t])>>) /\ latest'[t] \in Pts
      <4>1. PICK n \in Pts : n = latest'[t]
        BY <3>3
      <4>2. <<W("channel", n)>> \in Seq(Write)
        BY ChannelWrite
      <4>3. QED
        BY <1>1, <1>2, <3>3, <4>1, <4>2, IssuedCovered
    <3>4. QED
      BY <1>3, <3>1, <3>2, <3>3
  <2>3. 1..latest'[t] \subseteq Stored'
    <3>1. CASE Reload(t)
      <4>1. latest' = latest
        BY <3>1 DEF Reload
      <4>2. QED
        BY <2>1, <2>2, <4>1 DEF TabCovered, Covers
    <3>2. CASE \E m \in 1..head : OwnSent(t, m)
      <4>1. PICK m \in 1..head : OwnSent(t, m)
        BY <3>2
      <4>2. m \in Nat \ {0} /\ latest[t] \in Nat
        BY <4>1, Untouched, SyncAssumption DEF Pts
      <4>3. latest'[t] = Larger(latest[t], m) /\ m \in rows'
        BY <4>1 DEF OwnSent, Orderly, SyncTypeOK
      <4>4. m \in Stored'
        BY <4>3 DEF Stored
      <4>5. CASE m > latest[t]
        <5>1. hazards' = Gap(m)
          BY <4>1, <4>5 DEF OwnSent
        <5>2. \A k \in 1..(m - 1) : k \in Stored
          BY <1>4, <5>1 DEF Gap
        <5>3. latest'[t] = m /\ \A k \in 1..m : k = m \/ k \in 1..(m - 1)
          BY <4>2, <4>3, <4>5 DEF Larger
        <5>4. QED
          BY <2>2, <4>4, <5>2, <5>3
      <4>6. CASE ~(m > latest[t])
        <5>1. 1..latest'[t] \subseteq 1..latest[t]
          BY <4>2, <4>3, <4>6 DEF Larger
        <5>2. QED
          BY <2>1, <2>2, <5>1 DEF TabCovered, Covers
      <4>7. QED
        BY <4>5, <4>6
    <3>3. QED
      BY <3>1, <3>2
  <2>4. \A j \in DOMAIN writes'[t] :
          writes'[t][j].op = "channel" => 1..writes'[t][j].pts \subseteq Stored'
    <3>1. \A i \in DOMAIN writes[t] :
            writes[t][i].op = "channel" => 1..writes[t][i].pts \subseteq Stored
      BY <2>1 DEF TabCovered, Covers
    <3>2. CASE writes' = writes
      BY <2>2, <3>1, <3>2
    <3>3. CASE Issue(t, <<>>)
      <4>1. <<>> \in Seq(Write) /\ \A k \in DOMAIN <<>> : FALSE
        OBVIOUS
      <4>2. QED
        BY <1>1, <1>2, <3>1, <3>3, <4>1, IssuedCovered
    <3>4. CASE Issue(t, <<W("channel", latest'[t])>>) /\ latest'[t] \in Pts
      <4>1. PICK n \in Pts : n = latest'[t]
        BY <3>4
      <4> DEFINE ws == <<W("channel", n)>>
      <4>2. ws \in Seq(Write) /\ \A k \in DOMAIN ws : ws[k].pts = n
        BY ChannelWrite
      <4>3. Issue(t, ws)
        BY <3>4, <4>1
      <4> HIDE DEF ws
      <4>4. \A k \in DOMAIN ws : ws[k].op = "channel" => 1..ws[k].pts \subseteq Stored'
        BY <2>3, <4>1, <4>2
      <4>5. QED
        BY <1>1, <1>2, <3>1, <4>2, <4>3, <4>4, IssuedCovered
    <3>5. QED
      BY <1>3, <3>2, <3>3, <3>4
  <2>5. QED
    BY <1>2, <2>1, <2>2, <2>3, <2>4, NothingToCover DEF TabCovered, Covers
<1>5. QED
  BY <1>1, <1>2, <1>4, OneTabCovered

\* The rows go under nobody's cursor, or the history says so.
LEMMA ClearCovered ==
  ASSUME Orderly, AllCovered, NEW t \in Tabs, RunClear(t)
  PROVE  AllCovered'
<1>1. Orderly' /\ OthersKept(t) /\ t \in open /\ writes[t] # <<>> /\ Done(t)
  BY DatabaseOrderly DEF Database
<1>2. UNCHANGED <<saved, open, latest, cursor, found>>
  BY DEF RunClear
<1>3. SUFFICES ASSUME ~Relied
               PROVE  AllCovered'
  BY DEF RunClear, AllCovered
<1>4. saved = 0
  BY <1>3, Untouched, SyncAssumption DEF Relied, Pts
<1>5. ASSUME NEW s \in open
      PROVE  /\ latest[s] = 0 /\ cursor[s] = 0 /\ found[s] = 0
             /\ \A j \in DOMAIN writes'[s] :
                  writes'[s][j].op = "channel" => writes'[s][j].pts = 0
  <2>1. s \in Tabs
    BY DEF Orderly, SyncTypeOK
  <2>2. latest[s] = 0 /\ cursor[s] = 0 /\ found[s] = 0
    BY <1>3, <2>1, Untouched, SyncAssumption DEF Relied, Pts
  <2>3. \A i \in DOMAIN writes[s] : writes[s][i].pts \in Nat
    BY <2>1, SyncAssumption DEF Orderly, SyncTypeOK, Write, Pts
  <2>4. \A i \in DOMAIN writes[s] : writes[s][i].op = "channel" => writes[s][i].pts = 0
    BY <1>3, <2>3 DEF Relied
  <2>5. \A j \in DOMAIN writes'[s] : \E i \in DOMAIN writes[s] : writes'[s][j] = writes[s][i]
    <3>1. CASE s = t
      BY <1>1, <2>1, <3>1, Popped
    <3>2. CASE s # t
      BY <1>1, <2>1, <3>2, Popped
    <3>3. QED
      BY <3>1, <3>2
  <2>6. QED
    BY <2>2, <2>4, <2>5
<1>6. QED
  BY <1>2, <1>4, <1>5, NothingToCover DEF AllCovered, TabCovered, Covers

LEMMA DatabaseCovered ==
  ASSUME Orderly, AllCovered, NEW t \in Tabs, Database(t)
  PROVE  AllCovered'
<1>1. Orderly' /\ OthersKept(t) /\ t \in open /\ writes[t] # <<>> /\ Done(t)
  BY DatabaseOrderly
<1> DEFINE w == Head(writes[t])
<1>2. /\ 1 \in DOMAIN writes[t] /\ w = writes[t][1] /\ w \in Write
  BY <1>1, Popped DEF Orderly, SyncTypeOK
<1>3. w.pts \in Nat /\ saved \in Nat /\ cursor[t] \in Nat /\ found[t] \in Nat
  BY <1>2, Untouched, SyncAssumption DEF Write, Pts
<1>4. CASE RunClear(t)
  BY <1>4, ClearCovered
<1>5. CASE ~RunClear(t)
  <2>1. rows \subseteq rows' /\ latest' = latest /\ hazards \subseteq hazards'
    BY <1>5 DEF Database, RunChannel, RunRow, RunPage, RunEmpty, RunReset, WriteFails,
                Torn, dbVars
  <2>2. ASSUME hazards' = {}
        PROVE  Stored \subseteq Stored' /\ Covers(saved)' /\ TabCovered(t)'
    <3>1. Covers(saved) /\ TabCovered(t)
      BY <1>1, <2>1, <2>2 DEF AllCovered
    <3>2. w.op # "row" \/ w.pts \in rows'
      <4>1. CASE RunRow(t)
        BY <4>1 DEF RunRow
      <4>2. CASE WriteFails(t)
        <5>1. hazards' = Torn(t, {1}) /\ rows' = rows
          BY <4>2 DEF WriteFails, dbVars
        <5>2. QED
          BY <1>2, <2>2, <5>1 DEF Torn
      <4>3. CASE RunChannel(t) \/ RunPage(t) \/ RunEmpty(t) \/ RunReset(t)
        BY <4>3 DEF RunChannel, RunPage, RunEmpty, RunReset, Next1
      <4>4. QED
        BY <1>5, <4>1, <4>2, <4>3 DEF Database
    <3>3. /\ Stored \subseteq Stored'
          /\ \A j \in DOMAIN writes'[t] : \E i \in DOMAIN writes[t] :
               writes'[t][j] = writes[t][i]
      BY <1>1, <2>1, <3>2, PoppedCovered
    <3>4. 1..latest'[t] \subseteq Stored' /\
          \A j \in DOMAIN writes'[t] :
            writes'[t][j].op = "channel" => 1..writes'[t][j].pts \subseteq Stored'
      BY <2>1, <3>1, <3>3 DEF TabCovered, Covers
    <3>5. 1..saved' \subseteq Stored' /\ 1..cursor'[t] \subseteq Stored'
          /\ 1..found'[t] \subseteq Stored'
      <4>1. CASE RunPage(t)
        <5>1. /\ rows' = rows \cup (cursor[t] + 1)..w.pts
              /\ saved' = Larger(saved, w.pts) /\ cursor'[t] = w.pts /\ found'[t] = saved'
          BY <4>1 DEF RunPage, Orderly, SyncTypeOK
        <5>2. rows' \subseteq Stored'
          BY DEF Stored
        <5>3. \A k \in 1..w.pts : k \in 1..cursor[t] \/ k \in (cursor[t] + 1)..w.pts
          BY <1>3
        <5>4. 1..w.pts \subseteq Stored'
          BY <3>1, <3>3, <5>1, <5>2, <5>3 DEF TabCovered, Covers
        <5>5. 1..saved' \subseteq Stored'
          BY <3>1, <3>3, <5>1, <5>4 DEF Larger, Covers
        <5>6. QED
          BY <5>1, <5>4, <5>5
      <4>2. CASE RunEmpty(t)
        <5>1. w.op = "empty" /\ saved' = w.pts /\ UNCHANGED <<cursor, found>>
          BY <4>2 DEF RunEmpty, Next1
        <5>2. w.pts = found[t]
          BY <1>2, <5>1 DEF Orderly, WritesSound
        <5>3. QED
          BY <3>1, <3>3, <5>1, <5>2 DEF TabCovered, Covers
      <4>3. CASE RunChannel(t)
        <5>1. w.op = "channel" /\ saved' = w.pts /\ UNCHANGED <<cursor, found>>
          BY <4>3 DEF RunChannel, Next1, runVars
        <5>2. QED
          BY <1>2, <3>1, <3>3, <5>1 DEF TabCovered, Covers
      <4>4. CASE RunRow(t) \/ RunReset(t)
        <5>1. saved' \in {0, saved} /\ UNCHANGED <<cursor, found>>
          BY <4>4 DEF RunRow, RunReset, runVars
        <5>2. QED
          BY <3>1, <3>3, <5>1, NothingToCover DEF TabCovered, Covers
      <4>5. CASE WriteFails(t)
        <5>1. saved' = saved /\ (EndRun(t, "idle") \/ EndRun(t, "reloading") \/ UNCHANGED runVars)
          BY <1>2, <4>5 DEF WriteFails, dbVars, Write
        <5>2. cursor'[t] \in {0, cursor[t]} /\ found'[t] \in {0, found[t]}
          BY <5>1 DEF EndRun, runVars, Orderly, SyncTypeOK
        <5>3. QED
          BY <3>1, <3>3, <5>1, <5>2, NothingToCover DEF TabCovered, Covers
      <4>6. QED
        BY <1>5, <4>1, <4>2, <4>3, <4>4, <4>5 DEF Database
    <3>6. QED
      BY <3>3, <3>4, <3>5 DEF TabCovered, Covers
  <2>3. QED
    BY <1>1, <2>1, <2>2, OneTabCovered
<1>6. QED
  BY <1>4, <1>5

LEMMA OutsideCovered ==
  ASSUME Orderly, AllCovered, Orderly',
         \/ Commit
         \/ \E t \in Tabs : OpenTab(t) \/ CloseTab(t)
         \/ \E t \in Tabs : Bootstrapped(t) /\ t \notin open
  PROVE  AllCovered'
<1>1. CASE Commit \/ \E t \in Tabs : Bootstrapped(t) /\ t \notin open
  <2>1. /\ UNCHANGED <<rows, saved, open, writes, cursor, found, hazards>>
        /\ \A s \in open : latest'[s] = latest[s]
    BY <1>1 DEF Commit, Bootstrapped, dbVars, runVars, Orderly, SyncTypeOK
  <2>2. Stored' = Stored
    BY <2>1 DEF Stored
  <2>3. QED
    BY <2>1, <2>2 DEF AllCovered, TabCovered, Covers
<1>2. ASSUME NEW t \in Tabs, OpenTab(t) PROVE AllCovered'
  <2>1. /\ UNCHANGED <<rows, saved, writes, cursor, found, hazards>>
        /\ open' = open \cup {t} /\ t \notin open
        /\ latest' = [latest EXCEPT ![t] = saved]
    BY <1>2 DEF OpenTab, dbVars, runVars
  <2>2. Stored \subseteq Stored'
    BY <2>1, StoredGrows
  <2>3. writes[t] = <<>> /\ cursor[t] = 0 /\ found[t] = 0
    BY <2>1 DEF Orderly, WritesSound
  <2>4. DOMAIN writes[t] = {}
    BY <2>3
  <2>5. \A s \in open' : latest'[s] = IF s = t THEN saved ELSE latest[s]
    BY <2>1 DEF Orderly, SyncTypeOK
  <2>6. QED
    BY <2>1, <2>2, <2>3, <2>4, <2>5, NothingToCover DEF AllCovered, TabCovered, Covers
<1>3. ASSUME NEW t \in Tabs, CloseTab(t) PROVE AllCovered'
  <2>1. /\ UNCHANGED <<rows, saved>>
        /\ open' = open \ {t}
        /\ hazards' = Torn(t, DOMAIN writes[t])
        /\ \A s \in open' : /\ latest'[s] = latest[s] /\ cursor'[s] = cursor[s]
                            /\ found'[s] = found[s] /\ writes'[s] = writes[s]
    BY <1>3 DEF CloseTab, EndRun, dbVars, Orderly, SyncTypeOK
  <2>2. SUFFICES ASSUME hazards' = {} PROVE AllCovered'
    BY DEF AllCovered
  <2>3. /\ hazards = {}
        /\ \A i \in DOMAIN writes[t] : writes[t][i].op = "row" => writes[t][i].pts \in rows
    BY <2>1, <2>2 DEF Torn
  <2>4. Stored \subseteq Stored'
    <3>1. SUFFICES ASSUME NEW m, RowOrWrite(m) PROVE RowOrWrite(m)'
      <4>1. (\A n : n \in Stored <=> RowOrWrite(n))'
        BY StoredIs, PTL
      <4>2. \A n : n \in Stored <=> RowOrWrite(n)
        BY StoredIs
      <4>3. QED
        BY <3>1, <4>1, <4>2
    <3>2. QED
      BY <2>1, <2>3, <3>1 DEF RowOrWrite
  <2>5. QED
    BY <2>1, <2>3, <2>4 DEF AllCovered, TabCovered, Covers
<1>4. QED
  BY <1>1, <1>2, <1>3

LEMMA NextCovered == Orderly /\ AllCovered /\ [Next]_vars => AllCovered'
<1> SUFFICES ASSUME Orderly, AllCovered, [Next]_vars PROVE AllCovered'
  OBVIOUS
<1>1. Orderly'
  BY NextOrderly
<1>2. ASSUME NEW t \in Tabs, Run(t) PROVE AllCovered'
  BY <1>2, QuietRunCovered, IssuingCovered, StoringCovered DEF Run
<1>3. ASSUME NEW t \in Tabs, Database(t) PROVE AllCovered'
  BY <1>3, DatabaseCovered
<1>4. ASSUME NEW t \in Tabs, Lift(t) PROVE AllCovered'
  <2>1. ASSUME NEW m \in 1..head, Push(t, m) PROVE AllCovered'
    BY <2>1, PushCovered
  <2>2. CASE PutChannel(t) \/ Bootstrap(t)
    BY <2>2, IssuingCovered
  <2>3. CASE \E m \in 1..head : OwnSent(t, m)
    BY <2>3, StoringCovered
  <2>4. CASE Bootstrapped(t)
    BY <1>1, <2>4, QuietRunCovered, OutsideCovered
  <2>5. QED
    BY <1>4, <2>1, <2>2, <2>3, <2>4 DEF Lift
<1>5. CASE Commit \/ \E t \in Tabs : OpenTab(t) \/ CloseTab(t)
  BY <1>1, <1>5, OutsideCovered
<1>6. CASE UNCHANGED vars
  <2>1. UNCHANGED <<rows, saved, open, writes, latest, cursor, found, hazards>>
    BY <1>6 DEF vars, dbVars, runVars
  <2>2. Stored' = Stored
    BY <2>1 DEF Stored
  <2>3. QED
    BY <2>1, <2>2 DEF AllCovered, TabCovered, Covers
<1>7. QED
  BY <1>2, <1>3, <1>4, <1>5, <1>6 DEF Next

LEMMA AlwaysCovered == Spec => [](Orderly /\ AllCovered)
<1>1. Init => AllCovered
  BY NothingToCover DEF Init, AllCovered, Covers
<1>2. QED
  BY <1>1, InitOrderly, NextOrderly, NextCovered, PTL DEF Spec

-----------------------------------------------------------------------------
\* The cursor, the pages and the queued writes keep their types: every pts
\* that is stored, held or on its way to the database is one the server gave
\* out, and no row is stored that the server has not committed.
THEOREM SyncTypeCorrect == Spec => []SyncTypeOK
<1>1. Orderly => SyncTypeOK
  BY DEF Orderly
<1>2. QED
  BY <1>1, AlwaysCovered, PTL

\* The cursor passes no commit the cache lacks, for any number of tabs, pages,
\* pushes and pending writes, unless one of the three named hazards happened.
THEOREM CursorHoldsItsRows == Spec => []CursorCovered
<1>1. AllCovered => CursorCovered
  BY DEF AllCovered, TabCovered, Covers, CursorCovered
<1>2. QED
  BY <1>1, AlwaysCovered, PTL

\* When syncChannel resolves, the cache has every commit up to the cursor the
\* run ended with.
THEOREM SyncDeliversItsCursor == Spec => []SyncedIsComplete
<1>1. Orderly /\ AllCovered => SyncedIsComplete
  <2>1. SUFFICES ASSUME Orderly, AllCovered, hazards = {},
                        NEW t \in Tabs, pc[t] = "synced"
                 PROVE  1..cursor[t] \subseteq Stored
    BY DEF SyncedIsComplete
  <2>2. t \in open
    BY <2>1 DEF Orderly, WritesSound
  <2>3. QED
    BY <2>1, <2>2 DEF AllCovered, TabCovered, Covers
<1>2. QED
  BY <1>1, AlwaysCovered, PTL
================================================================================
