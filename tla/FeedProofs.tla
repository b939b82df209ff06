------------------------------ MODULE FeedProofs ------------------------------
(***************************************************************************)
(* What arrives over the link and what is made of it, for every value of   *)
(* the constants: read cursors and badges (ReadCursor), the receipts of    *)
(* the others (Receipts), subscriptions and broadcasts (RoomFeed), a       *)
(* message on each of its ways in (Inbound); what the host is told of it,  *)
(* by the outbox observers (OutboxFeed) and the event bus (EventFeed); and *)
(* the collections fetched by version, group rosters (GroupMembers) and    *)
(* the sweeps of friends and groups (FriendSync).  RoomBounds and          *)
(* FeedBounds say how far rooms and events are counted, which their types  *)
(* need and their properties do not.                                       *)
(***************************************************************************)
EXTENDS ReadCursor, Receipts, RoomFeed, EventFeed, OutboxFeed, GroupMembers,
        FriendSync, Inbound, FiniteSetTheorems, WellFoundedInduction, TLAPS

-----------------------------------------------------------------------------
(* The badge of a conversation (ReadCursor).                               *)

\* The messages a record counts lie above the cursor beside it.
Faithful(rec) ==
    /\ rec.read \in 0..top /\ rec.unread \in Nat /\ rec.counted \subseteq 1..top
    /\ blots \cap {"again", "torn"} = {} =>
          /\ rec.counted \subseteq (rec.read + 1)..top
          /\ rec.unread = Cardinality(rec.counted)

\* Every record there is: in memory, stored, on its way to either.
Counts ==
    /\ Faithful(shown) /\ Faithful(kept) /\ Faithful(page.rec) /\ Faithful(load.rec)
    /\ \A i \in 1..Len(puts) : Faithful(puts[i].rec) /\ puts[i].rows \subseteq 1..top

\* A page or a bootstrap has one write at most, and takes from it what it wrote.
OfPage(op) == op \in {"page", "empty"}

Orders ==
    /\ \A i \in 1..Len(puts) :
          /\ OfPage(puts[i].op) => page.at = "stored"
          /\ puts[i].op = "load" => load.at = "put" /\ puts[i].rec = load.rec
          /\ puts[i].op = "empty" => puts[i].rec = page.rec
    /\ \A i, j \in 1..Len(puts) :
          \/ OfPage(puts[i].op) /\ OfPage(puts[j].op)
          \/ puts[i].op = "load" /\ puts[j].op = "load"
          => i = j

\* Nothing lost and nothing overtaken: the last write of a record has what
\* memory shows, and comes before the writes memory is yet to take over.
NoRecord == \A i \in 1..Len(puts) : puts[i].op # "record"

Agrees ==
    blots \cap {"lost", "overtaken"} = {} =>
      /\ \A i, j \in 1..Len(puts) :
            puts[i].op = "record" /\ (OfPage(puts[j].op) \/ puts[j].op = "load") => i < j
      /\ \A i \in 1..Len(puts) :
            puts[i].op = "record" /\ (\A j \in 1..Len(puts) : j > i => puts[j].op # "record")
                => puts[i].rec = shown
      /\ page.at = "publish" \/ load.at = "publish" => NoRecord
      /\ NoRecord /\ page.at # "publish" /\ load.at # "publish" => kept = shown
      /\ page.at = "publish" /\ load.at # "publish" => kept = page.rec
      /\ load.at = "publish" /\ page.at # "publish" => kept = load.rec

PutTo == [op : {"record", "row", "page", "empty", "load"}, rec : ChannelRecord,
          rows : SUBSET Messages]

ReadTyped ==
    /\ top \in Cursor /\ readUpTo \in 0..top /\ storedMsgs \subseteq 1..top
    /\ shown \in ChannelRecord /\ kept \in ChannelRecord
    /\ puts \in Seq(PutTo) /\ Len(puts) <= MaxPuts
    /\ page \in [at : PageAt, rec : ChannelRecord]
    /\ load \in [at : LoadAt, rec : ChannelRecord]
    /\ blots \subseteq {"again", "torn", "lost", "overtaken"}

ReadSound == ReadTyped /\ Counts /\ Orders /\ Agrees

LEMMA ReadNumbers ==
    /\ MaxMessages \in Nat /\ MaxPuts \in Nat /\ MaxMessages > 0 /\ MaxPuts > 0
    /\ Cursor \subseteq Nat /\ 0 \in Cursor
    /\ Unread \in ChannelRecord /\ Unread.read = 0 /\ Unread.unread = 0 /\ Unread.counted = {}
BY ReadAssumption DEF Cursor, Unread, ChannelRecord

LEMMA ReadStarts == ReadInit => ReadSound
<1> SUFFICES ASSUME ReadInit PROVE ReadSound
  OBVIOUS
<1>1. /\ top = 0 /\ readUpTo = 0 /\ kept = Unread /\ shown = Unread /\ storedMsgs = {}
      /\ puts = <<>> /\ page = NoPage /\ load = NoPage /\ blots = {}
  BY DEF ReadInit
<1>2. Len(puts) = 0 /\ 1..0 = {} /\ 0..0 = {0} /\ puts \in Seq(PutTo) BY <1>1
<1>3. NoPage \in [at : PageAt, rec : ChannelRecord] /\ NoPage \in [at : LoadAt, rec : ChannelRecord]
      /\ NoPage.at = "idle" /\ NoPage.rec = Unread
  BY ReadNumbers DEF NoPage, PageAt, LoadAt
<1>4. ReadTyped BY <1>1, <1>2, <1>3, ReadNumbers DEF ReadTyped
<1>5. Faithful(Unread)
  BY <1>1, <1>2, ReadNumbers, FS_EmptySet DEF Faithful
<1>6. Counts BY <1>1, <1>2, <1>3, <1>5 DEF Counts
<1>7. Orders BY <1>1, <1>2 DEF Orders
<1>8. Agrees BY <1>1, <1>2, <1>3 DEF Agrees, NoRecord
<1> QED BY <1>4, <1>6, <1>7, <1>8 DEF ReadSound

\* What a record counts, once it counts more of what is above its cursor.
LEMMA CountFaithful ==
    ASSUME ReadTyped, NEW rec \in ChannelRecord, Faithful(rec), NEW ms, ms \subseteq 1..top,
           \A m \in ms : m > rec.read
    PROVE  /\ Count(rec, ms) \in ChannelRecord
           /\ Count(rec, ms).read = rec.read
           /\ blots \cup Recounted(rec, ms) \subseteq blots' /\ top' = top
                => Faithful(Count(rec, ms))'
<1>1. top \in Nat /\ top <= MaxMessages /\ MaxMessages \in Nat
  BY ReadNumbers DEF ReadTyped, Cursor
<1>a. IsFiniteSet(1..top) BY <1>1, FS_Interval
<1>b. rec.counted \subseteq 1..top BY DEF Faithful
<1>2. IsFiniteSet(ms) /\ Cardinality(ms) \in Nat BY <1>a, FS_Subset, FS_CardinalityType
<1>3. IsFiniteSet(rec.counted) BY <1>a, <1>b, FS_Subset
<1>4. /\ rec.read \in Cursor /\ rec.unread \in Nat /\ rec.counted \subseteq Messages
  BY DEF ChannelRecord
<1>6. ms \subseteq Messages BY <1>1 DEF Messages
<1>5. /\ Count(rec, ms) \in ChannelRecord /\ Count(rec, ms).read = rec.read
      /\ Count(rec, ms).unread = rec.unread + Cardinality(ms)
      /\ Count(rec, ms).counted = rec.counted \cup ms
  <2> DEFINE k == rec.unread + Cardinality(ms)
             s == rec.counted \cup ms
  <2>1. Count(rec, ms) = [rec EXCEPT !.unread = k, !.counted = s] BY DEF Count
  <2>a. k \in Nat BY <1>2, <1>4
  <2>b. s \subseteq Messages BY <1>4, <1>6
  <2>2. k \in Nat /\ s \subseteq Messages BY <2>a, <2>b
  <2> HIDE DEF k, s
  <2> DEFINE r == [rec EXCEPT !.unread = k, !.counted = s]
  <2>3. r \in ChannelRecord /\ r.read = rec.read /\ r.unread = k /\ r.counted = s
    BY <2>2, <1>4 DEF ChannelRecord
  <2> QED BY <2>1, <2>3 DEF k, s
<1>8. ASSUME blots \cup Recounted(rec, ms) \subseteq blots', top' = top
      PROVE  Faithful(Count(rec, ms))'
  <2> DEFINE more == rec.counted \cup ms
             n == rec.unread + Cardinality(ms)
             r == Count(rec, ms)
  <2>1. r.read = rec.read /\ r.unread = n /\ r.counted = more BY <1>5
  <2>a. rec.read \in 0..top /\ rec.counted \subseteq 1..top BY DEF Faithful
  <2>b. n \in Nat BY <1>2, <1>4
  <2>2. n \in Nat /\ more \subseteq 1..top /\ rec.read \in 0..top BY <2>a, <2>b
  <2>3. ASSUME blots' \cap {"again", "torn"} = {}
        PROVE  more \subseteq (rec.read + 1)..top /\ n = Cardinality(more)
    <3>1. blots \cap {"again", "torn"} = {} /\ ms \cap rec.counted = {}
      BY <2>3, <1>8 DEF Recounted
    <3>2. rec.counted \subseteq (rec.read + 1)..top /\ rec.unread = Cardinality(rec.counted)
      BY <3>1 DEF Faithful
    <3>3. ms \subseteq (rec.read + 1)..top BY <1>1, <2>2
    <3>4. Cardinality(more) = Cardinality(rec.counted) + Cardinality(ms)
      <4>1. Cardinality(rec.counted) \in Nat BY <1>3, FS_CardinalityType
      <4>2. rec.counted \cap ms = {} /\ Cardinality(rec.counted \cap ms) = 0
        BY <3>1, FS_EmptySet
      <4>3. Cardinality(rec.counted \cup ms) = Cardinality(rec.counted) + Cardinality(ms)
                                               - Cardinality(rec.counted \cap ms)
        BY <1>2, <1>3, FS_Union
      <4> QED BY <1>2, <4>1, <4>2, <4>3
    <3> QED BY <3>2, <3>3, <3>4
  <2> HIDE DEF more, n
  <2> QED BY <2>1, <2>2, <2>3, <1>8 DEF Faithful, Count
<1> QED BY <1>5, <1>8

\* A record that is left alone stays faithful while the server moves on.
LEMMA FaithfulStays ==
    ASSUME NEW rec, Faithful(rec), top \in Nat, top' \in Nat, top <= top', blots \subseteq blots'
    PROVE  Faithful(rec)'
<1>1. rec.read \in 0..top' /\ rec.unread \in Nat /\ rec.counted \subseteq 1..top'
  BY DEF Faithful
<1>2. ASSUME blots' \cap {"again", "torn"} = {}
      PROVE  rec.counted \subseteq (rec.read + 1)..top' /\ rec.unread = Cardinality(rec.counted)
  BY <1>2 DEF Faithful
<1> QED BY <1>1, <1>2 DEF Faithful

-----------------------------------------------------------------------------
LEMMA IssuedPuts ==
    ASSUME ReadTyped, NEW ws \in Seq(PutTo), IssuePuts(ws)
    PROVE  /\ puts' \in Seq(PutTo) /\ Len(puts') = Len(puts) + Len(ws) /\ Len(puts') <= MaxPuts
           /\ \A i \in 1..Len(puts) : puts'[i] = puts[i]
           /\ \A i \in 1..Len(ws) : puts'[Len(puts) + i] = ws[i]
BY DEF ReadTyped, IssuePuts

LEMMA IssuedOne ==
    ASSUME ReadTyped, NEW w \in PutTo, IssuePuts(<<w>>)
    PROVE  /\ puts' \in Seq(PutTo) /\ Len(puts') = Len(puts) + 1 /\ Len(puts') <= MaxPuts
           /\ \A i \in 1..Len(puts) : puts'[i] = puts[i]
           /\ puts'[Len(puts) + 1] = w /\ Len(puts) \in Nat
<1>1. puts \in Seq(PutTo) /\ Len(puts) \in Nat BY DEF ReadTyped
<1>2. puts' = puts \o <<w>> /\ Len(puts) + 1 <= MaxPuts BY DEF IssuePuts
<1> QED BY <1>1, <1>2

LEMMA RunPuts ==
    ASSUME ReadTyped, puts # <<>>, puts' = Tail(puts)
    PROVE  /\ puts' \in Seq(PutTo) /\ Len(puts') = Len(puts) - 1 /\ Len(puts) \in Nat
           /\ Len(puts) > 0 /\ Len(puts') <= MaxPuts
           /\ \A i \in 1..Len(puts') : i + 1 \in 1..Len(puts) /\ puts'[i] = puts[i + 1]
           /\ 1 \in 1..Len(puts) /\ Head(puts) = puts[1] /\ Head(puts) \in PutTo
<1>1. puts \in Seq(PutTo) /\ Len(puts) <= MaxPuts /\ MaxPuts \in Nat
  BY ReadNumbers DEF ReadTyped
<1> QED BY <1>1

\* The record memory holds is replaced and its write issued, with a row perhaps.
LEMMA ChangeKeeps ==
    ASSUME ReadSound, NEW rec \in ChannelRecord, shown' = rec, Faithful(rec)',
           NEW row \in PutTo, row.op = "row", row.rec = Unread, row.rows \subseteq 1..top, NEW ws,
           ws = <<Put("record", rec, {})>> \/ ws = <<Put("record", rec, {}), row>>,
           IssuePuts(ws), blots \cup Overtake \subseteq blots',
           blots' \subseteq {"again", "torn", "lost", "overtaken"},
           UNCHANGED <<top, readUpTo, kept, storedMsgs, page, load>>
    PROVE  ReadSound'
<1>a. ReadTyped /\ Counts /\ Orders /\ Agrees BY DEF ReadSound
<1>b. top \in Nat /\ 1..top \subseteq Messages
  BY <1>a, ReadNumbers DEF ReadTyped, Cursor, Messages
<1>e. {} \in SUBSET Messages BY <1>b
<1>c. Put("record", rec, {}) \in PutTo BY <1>e DEF Put, PutTo
<1>d. /\ ws \in Seq(PutTo) /\ Len(ws) \in 1..2 /\ ws[1] = Put("record", rec, {})
      /\ Len(ws) = 2 => ws[2] = row
  <2> DEFINE p == Put("record", rec, {})
  <2>1. p \in PutTo BY <1>c
  <2> HIDE DEF p
  <2>2. CASE ws = <<p>> BY <2>1, <2>2
  <2>3. CASE ws = <<p, row>> BY <2>1, <2>3
  <2> QED BY <2>2, <2>3 DEF p
<1>1. /\ puts' \in Seq(PutTo) /\ Len(puts') = Len(puts) + Len(ws) /\ Len(puts') <= MaxPuts
      /\ \A i \in 1..Len(puts) : puts'[i] = puts[i]
      /\ \A i \in 1..Len(ws) : puts'[Len(puts) + i] = ws[i]
      /\ Len(puts) \in Nat
  BY <1>a, <1>d, IssuedPuts DEF ReadTyped
<1> DEFINE n == Len(puts)
<1>2. \A i \in 1..Len(puts') :
         \/ i \in 1..n /\ puts'[i] = puts[i]
         \/ i = n + 1 /\ puts'[i] = Put("record", rec, {})
         \/ i = n + 2 /\ puts'[i] = row
  <2> SUFFICES ASSUME NEW i \in 1..Len(puts')
               PROVE  \/ i \in 1..n /\ puts'[i] = puts[i]
                      \/ i = n + 1 /\ puts'[i] = Put("record", rec, {})
                      \/ i = n + 2 /\ puts'[i] = row
    OBVIOUS
  <2>1. i \in 1..n \/ (i - n \in 1..Len(ws) /\ i = n + (i - n)) BY <1>1, <1>d
  <2>2. CASE i \in 1..n BY <2>2, <1>1
  <2>3. CASE i - n \in 1..Len(ws) /\ i = n + (i - n)
    <3>1. puts'[i] = ws[i - n] BY <2>3, <1>1
    <3>2. i - n = 1 \/ (i - n = 2 /\ Len(ws) = 2)
      <4> DEFINE k == i - n
      <4>1. k \in 1..Len(ws) BY <2>3
      <4> HIDE DEF k
      <4>2. Len(ws) = 1 \/ Len(ws) = 2 BY <1>d
      <4>5. k \in Int /\ 1 <= k /\ k <= Len(ws) BY <4>1, <4>2
      <4>3. k = 1 \/ (k = 2 /\ Len(ws) = 2)
        <5>1. \A a \in Int, l \in {1, 2} : 1 <= a /\ a <= l => a = 1 \/ (a = 2 /\ l = 2)
          OBVIOUS
        <5> QED BY <4>2, <4>5, <5>1, Zenon
      <4> QED BY <4>3 DEF k
    <3> QED BY <3>1, <3>2, <2>3, <1>1, <1>d
  <2> QED BY <2>1, <2>2, <2>3
<1>3. n + 1 \in 1..Len(puts') /\ puts'[n + 1] = Put("record", rec, {})
  <2>1. 1 \in 1..Len(ws) BY <1>d
  <2>2. puts'[n + 1] = ws[1] BY <2>1, <1>1
  <2> QED BY <2>1, <2>2, <1>1, <1>d
<1>4. \A v : Faithful(v) => Faithful(v)'
  BY <1>b, FaithfulStays
<1>5. Faithful(Unread)' BY <1>b, ReadNumbers, FS_EmptySet DEF Faithful
<1>6. Counts'
  <2>1. ASSUME NEW i \in 1..Len(puts')
        PROVE  Faithful(puts[i].rec)' /\ puts'[i].rows \subseteq 1..top'
    <3>1. CASE i \in 1..n /\ puts'[i] = puts[i]
      <4>1. Faithful(puts[i].rec) /\ puts[i].rows \subseteq 1..top BY <1>a, <3>1 DEF Counts
      <4> QED BY <4>1, <3>1, <1>4 DEF Faithful
    <3>2. CASE puts'[i] = Put("record", rec, {}) BY <3>2 DEF Put, Faithful
    <3>3. CASE puts'[i] = row BY <3>3, <1>5 DEF Faithful
    <3> QED BY <1>2, <3>1, <3>2, <3>3
  <2>2. Faithful(shown)' BY DEF Faithful
  <2>3. Faithful(kept)' /\ Faithful(page.rec)' /\ Faithful(load.rec)'
    BY <1>a, <1>4 DEF Counts, Faithful
  <2> QED BY <2>1, <2>2, <2>3 DEF Counts
<1>7. Put("record", rec, {}).op = "record" /\ Put("record", rec, {}).rec = rec
      /\ row.op = "row"
  BY DEF Put
<1> HIDE DEF n
<1>8. Orders'
  <2>1. \A i \in 1..Len(puts') : puts'[i].op \in {"page", "empty", "load"} =>
            i \in 1..n /\ puts'[i] = puts[i]
    BY <1>2, <1>7
  <2> QED BY <2>1, <1>a DEF Orders, OfPage, n
<1>9. Agrees'
  <2> SUFFICES ASSUME blots' \cap {"lost", "overtaken"} = {}
               PROVE  /\ \A i \in 1..Len(puts') : ~OfPage(puts'[i].op) /\ puts'[i].op # "load"
                      /\ \A i \in 1..Len(puts') :
                            puts'[i].op = "record"
                              /\ (\A j \in 1..Len(puts') : j > i => puts'[j].op # "record")
                            => puts'[i].rec = shown'
                      /\ page'.at # "publish" /\ load'.at # "publish" /\ ~NoRecord'
    BY DEF Agrees
  <2>1. ~Adopting BY DEF Overtake
  <2>2. \A i \in 1..n : ~OfPage(puts[i].op) /\ puts[i].op # "load"
    BY <2>1, <1>a DEF Orders, Adopting, n
  <2>3. \A i \in 1..Len(puts') : ~OfPage(puts'[i].op) /\ puts'[i].op # "load"
    BY <2>2, <1>2, <1>7 DEF OfPage
  <2>4. ~NoRecord' BY <1>3, <1>7 DEF NoRecord
  <2>5. ASSUME NEW i \in 1..Len(puts'), puts'[i].op = "record",
               \A j \in 1..Len(puts') : j > i => puts'[j].op # "record"
        PROVE  puts'[i].rec = shown'
    <3>1. n \in Nat BY <1>1 DEF n
    <3>2. ~(n + 1 > i) BY <2>5, <1>3, <1>7
    <3>3. ~(i \in 1..n) BY <3>1, <3>2
    <3>4. puts'[i] # row BY <2>5, <1>7
    <3>5. i = n + 1 BY <3>3, <3>4, <1>2
    <3> QED BY <3>5, <1>3, <1>7
  <2> QED BY <2>1, <2>3, <2>4, <2>5 DEF Adopting
<1>10. ReadTyped' BY <1>a, <1>1 DEF ReadTyped
<1> QED BY <1>6, <1>8, <1>9, <1>10 DEF ReadSound

\* A row is written, and no record.
LEMMA RowKeeps ==
    ASSUME ReadSound, NEW m \in 1..top, IssuePuts(<<Put("row", Unread, {m})>>),
           UNCHANGED <<top, readUpTo, kept, storedMsgs, shown, page, load, blots>>
    PROVE  ReadSound'
<1>a. ReadTyped /\ Counts /\ Orders /\ Agrees BY DEF ReadSound
<1>b. top \in Nat /\ {m} \in SUBSET Messages
  BY <1>a, ReadNumbers DEF ReadTyped, Cursor, Messages
<1> DEFINE w == Put("row", Unread, {m})
           n == Len(puts)
<1>c. w \in PutTo BY <1>b, ReadNumbers DEF Put, PutTo
<1>d. w.op = "row" /\ w.rec = Unread /\ w.rows = {m} BY DEF Put
<1> HIDE DEF w
<1>e. IssuePuts(<<w>>) BY DEF w
<1>1. /\ puts' \in Seq(PutTo) /\ Len(puts') = n + 1 /\ Len(puts') <= MaxPuts
      /\ \A i \in 1..n : puts'[i] = puts[i]
      /\ puts'[n + 1] = w /\ n \in Nat
  BY <1>a, <1>c, <1>e, IssuedOne
<1>2. \A i \in 1..Len(puts') : (i \in 1..n /\ puts'[i] = puts[i]) \/ (i = n + 1 /\ puts'[i] = w)
  BY <1>1
<1>3. Faithful(Unread)' BY <1>b, ReadNumbers, FS_EmptySet DEF Faithful
<1>4. Counts'
  <2>1. ASSUME NEW i \in 1..Len(puts')
        PROVE  Faithful(puts[i].rec)' /\ puts'[i].rows \subseteq 1..top'
    <3>1. CASE i \in 1..n /\ puts'[i] = puts[i] BY <3>1, <1>a DEF Counts, Faithful
    <3>2. CASE puts'[i] = w BY <3>2, <1>3, <1>d DEF Faithful
    <3> QED BY <1>2, <3>1, <3>2
  <2>2. Faithful(shown)' /\ Faithful(kept)' /\ Faithful(page.rec)' /\ Faithful(load.rec)'
    BY <1>a DEF Counts, Faithful
  <2> QED BY <2>1, <2>2 DEF Counts
<1>5. \A i \in 1..Len(puts') : puts'[i].op # "row" => i \in 1..n /\ puts'[i] = puts[i]
  BY <1>2, <1>d
<1>6. \A i \in 1..n : i \in 1..Len(puts') /\ puts'[i] = puts[i] BY <1>1
<1> HIDE DEF n
<1>7. Orders' BY <1>a, <1>5 DEF Orders, OfPage, n
<1>8. Agrees'
  <2>1. NoRecord' <=> NoRecord BY <1>5, <1>6 DEF NoRecord, n
  <2> SUFFICES ASSUME blots \cap {"lost", "overtaken"} = {}
               PROVE  /\ \A i, j \in 1..Len(puts') :
                            puts'[i].op = "record" /\ (OfPage(puts'[j].op) \/ puts'[j].op = "load")
                            => i < j
                      /\ \A i \in 1..Len(puts') :
                            puts'[i].op = "record"
                              /\ (\A j \in 1..Len(puts') : j > i => puts'[j].op # "record")
                            => puts'[i].rec = shown
                      /\ page.at = "publish" \/ load.at = "publish" => NoRecord
                      /\ NoRecord /\ page.at # "publish" /\ load.at # "publish" => kept = shown
                      /\ page.at = "publish" /\ load.at # "publish" => kept = page.rec
                      /\ load.at = "publish" /\ page.at # "publish" => kept = load.rec
    BY <2>1 DEF Agrees
  <2>2. \A i, j \in 1..Len(puts') :
            puts'[i].op = "record" /\ (OfPage(puts'[j].op) \/ puts'[j].op = "load") => i < j
    BY <1>a, <1>5 DEF Agrees, OfPage, n
  <2>3. ASSUME NEW i \in 1..Len(puts'), puts'[i].op = "record",
               \A j \in 1..Len(puts') : j > i => puts'[j].op # "record"
        PROVE  puts'[i].rec = shown
    <3>1. i \in 1..n /\ puts'[i] = puts[i] BY <2>3, <1>5
    <3>2. \A j \in 1..n : j > i => puts[j].op # "record" BY <2>3, <1>6
    <3> QED BY <3>1, <3>2, <2>3, <1>a DEF Agrees, n
  <2> QED BY <2>2, <2>3, <1>a DEF Agrees
<1>9. ReadTyped' BY <1>a, <1>1 DEF ReadTyped
<1> QED BY <1>4, <1>7, <1>8, <1>9 DEF ReadSound

\* A page or a bootstrap issues its write.
LEMMA AdoptKeeps ==
    ASSUME ReadSound, NEW w \in PutTo, IssuePuts(<<w>>), Faithful(w.rec)', w.rows \subseteq 1..top,
           \/ /\ OfPage(w.op) /\ page.at \in {"idle", "seed"}
              /\ page'.at = "stored" /\ page'.rec = page.rec /\ load' = load
              /\ w.op = "empty" => w.rec = page.rec
           \/ /\ w.op = "load" /\ load.at = "cursors" /\ load'.at = "put" /\ load'.rec = w.rec
              /\ page' = page,
           page' \in [at : PageAt, rec : ChannelRecord],
           load' \in [at : LoadAt, rec : ChannelRecord],
           blots \subseteq blots', blots' \subseteq blots \cup {"torn"},
           UNCHANGED <<top, readUpTo, kept, storedMsgs, shown>>
    PROVE  ReadSound'
<1>a. ReadTyped /\ Counts /\ Orders /\ Agrees BY DEF ReadSound
<1>b. top \in Nat BY <1>a, ReadNumbers DEF ReadTyped, Cursor
<1> DEFINE n == Len(puts)
<1>1. /\ puts' \in Seq(PutTo) /\ Len(puts') = n + 1 /\ Len(puts') <= MaxPuts
      /\ \A i \in 1..n : puts'[i] = puts[i]
      /\ puts'[n + 1] = w /\ n \in Nat
  BY <1>a, IssuedOne
<1>2. \A i \in 1..Len(puts') : (i \in 1..n /\ puts'[i] = puts[i]) \/ (i = n + 1 /\ puts'[i] = w)
  BY <1>1
<1>6. \A i \in 1..n : i \in 1..Len(puts') /\ puts'[i] = puts[i] BY <1>1
<1>3. \A v : Faithful(v) => Faithful(v)' BY <1>b, FaithfulStays
<1>4. Counts'
  <2>1. ASSUME NEW i \in 1..Len(puts')
        PROVE  Faithful(puts[i].rec)' /\ puts'[i].rows \subseteq 1..top'
    <3>1. CASE i \in 1..n /\ puts'[i] = puts[i]
      <4>1. Faithful(puts[i].rec) /\ puts[i].rows \subseteq 1..top BY <1>a, <3>1 DEF Counts
      <4> QED BY <4>1, <3>1, <1>3 DEF Faithful
    <3>2. CASE puts'[i] = w BY <3>2 DEF Faithful
    <3> QED BY <1>2, <3>1, <3>2
  <2>2. Faithful(shown)' /\ Faithful(kept)'
    BY <1>a, <1>3 DEF Counts, Faithful
  <2>3. Faithful(page.rec)' /\ Faithful(load.rec)'
    <3>1. page'.rec = page.rec /\ (load'.rec = load.rec \/ load'.rec = w.rec)
      OBVIOUS
    <3>2. Faithful(page.rec) /\ Faithful(load.rec) BY <1>a DEF Counts
    <3> QED BY <3>1, <3>2, <1>3 DEF Faithful
  <2> QED BY <2>1, <2>2, <2>3 DEF Counts
<1> HIDE DEF n
<1>7. Orders'
  <2>1. CASE OfPage(w.op)
    <3>1. /\ page.at \in {"idle", "seed"} /\ page'.at = "stored" /\ page'.rec = page.rec
          /\ load' = load /\ (w.op = "empty" => w.rec = page.rec) /\ w.op # "load"
      BY <2>1 DEF OfPage
    <3>2. \A i \in 1..n : ~OfPage(puts[i].op) BY <3>1, <1>a DEF Orders, n
    <3>3. \A i \in 1..Len(puts') :
             /\ OfPage(puts'[i].op) => page'.at = "stored"
             /\ puts'[i].op = "load" => load'.at = "put" /\ puts'[i].rec = load'.rec
             /\ puts'[i].op = "empty" => puts'[i].rec = page'.rec
      BY <3>1, <3>2, <1>2, <1>a DEF Orders, OfPage, n
    <3>4. \A i \in 1..Len(puts') : OfPage(puts'[i].op) => i = n + 1 BY <3>2, <1>2
    <3>5. \A i \in 1..Len(puts') : puts'[i].op = "load" => i \in 1..n /\ puts[i].op = "load"
      BY <3>1, <1>2
    <3>6. \A i, j \in 1..n : puts[i].op = "load" /\ puts[j].op = "load" => i = j
      BY <1>a DEF Orders, n
    <3>7. \A i, j \in 1..Len(puts') :
             \/ OfPage(puts'[i].op) /\ OfPage(puts'[j].op)
             \/ puts'[i].op = "load" /\ puts'[j].op = "load"
             => i = j
      BY <3>4, <3>5, <3>6
    <3> QED BY <3>3, <3>7 DEF Orders
  <2>2. CASE w.op = "load"
    <3>1. /\ load.at = "cursors" /\ load'.at = "put" /\ load'.rec = w.rec /\ page' = page
          /\ ~OfPage(w.op)
      BY <2>2 DEF OfPage
    <3>2. \A i \in 1..n : puts[i].op # "load" BY <3>1, <1>a DEF Orders, n
    <3>3. \A i \in 1..Len(puts') :
             /\ OfPage(puts'[i].op) => page'.at = "stored"
             /\ puts'[i].op = "load" => load'.at = "put" /\ puts'[i].rec = load'.rec
             /\ puts'[i].op = "empty" => puts'[i].rec = page'.rec
      BY <3>1, <3>2, <1>2, <1>a, <2>2 DEF Orders, OfPage, n
    <3>4. \A i \in 1..Len(puts') : puts'[i].op = "load" => i = n + 1 BY <3>2, <1>2
    <3>5. \A i \in 1..Len(puts') : OfPage(puts'[i].op) => i \in 1..n /\ OfPage(puts[i].op)
      BY <3>1, <1>2
    <3>6. \A i, j \in 1..n : OfPage(puts[i].op) /\ OfPage(puts[j].op) => i = j
      BY <1>a DEF Orders, n
    <3>7. \A i, j \in 1..Len(puts') :
             \/ OfPage(puts'[i].op) /\ OfPage(puts'[j].op)
             \/ puts'[i].op = "load" /\ puts'[j].op = "load"
             => i = j
      BY <3>4, <3>5, <3>6
    <3> QED BY <3>3, <3>7 DEF Orders
  <2> QED BY <2>1, <2>2
<1>8. Agrees'
  <2>0. w.op # "record" BY DEF OfPage
  <2>5. \A i \in 1..Len(puts') : puts'[i].op = "record" => i \in 1..n /\ puts'[i] = puts[i]
    BY <2>0, <1>2
  <2>1. NoRecord' <=> NoRecord BY <2>5, <1>6 DEF NoRecord, n
  <2>6. ASSUME blots' \cap {"lost", "overtaken"} = {}
        PROVE  /\ \A i, j \in 1..Len(puts') :
                            puts'[i].op = "record" /\ (OfPage(puts'[j].op) \/ puts'[j].op = "load")
                            => i < j
               /\ \A i \in 1..Len(puts') :
                            puts'[i].op = "record"
                              /\ (\A j \in 1..Len(puts') : j > i => puts'[j].op # "record")
                            => puts'[i].rec = shown
    <3>0. blots \cap {"lost", "overtaken"} = {} BY <2>6
    <3>1. ASSUME NEW i \in 1..Len(puts'), NEW j \in 1..Len(puts'), puts'[i].op = "record",
                 OfPage(puts'[j].op) \/ puts'[j].op = "load"
          PROVE  i < j
      <4>1. i \in 1..n /\ puts'[i] = puts[i] BY <3>1, <2>5
      <4>2. CASE j \in 1..n /\ puts'[j] = puts[j] BY <4>1, <4>2, <3>0, <3>1, <1>a DEF Agrees, n
      <4>3. CASE j = n + 1 BY <4>1, <4>3, <1>1 DEF n
      <4> QED BY <4>2, <4>3, <1>2
    <3>2. ASSUME NEW i \in 1..Len(puts'), puts'[i].op = "record",
                 \A j \in 1..Len(puts') : j > i => puts'[j].op # "record"
          PROVE  puts'[i].rec = shown
      <4>1. i \in 1..n /\ puts'[i] = puts[i] BY <3>2, <2>5
      <4>2. \A j \in 1..n : j > i => puts[j].op # "record" BY <3>2, <1>6
      <4> QED BY <4>1, <4>2, <3>2, <3>0, <1>a DEF Agrees, n
    <3> QED BY <3>1, <3>2
  <2>7. ASSUME blots' \cap {"lost", "overtaken"} = {}
        PROVE  /\ page'.at = "publish" \/ load'.at = "publish" => NoRecord
               /\ NoRecord /\ page'.at # "publish" /\ load'.at # "publish" => kept = shown
               /\ page'.at = "publish" /\ load'.at # "publish" => kept = page'.rec
               /\ load'.at = "publish" /\ page'.at # "publish" => kept = load'.rec
    <3>0. blots \cap {"lost", "overtaken"} = {} BY <2>7
    <3> QED BY <3>0, <1>a DEF Agrees
  <2> QED BY <2>1, <2>6, <2>7 DEF Agrees
<1>9. ReadTyped' BY <1>a, <1>1 DEF ReadTyped
<1> QED BY <1>4, <1>7, <1>8, <1>9 DEF ReadSound

\* The first write has run or failed: those that remain keep their order, and
\* the page or the bootstrap whose write it was is free to move on.
LEMMA RunKeepsOrders ==
    ASSUME ReadTyped, Orders, puts # <<>>, puts' = Tail(puts),
           OfPage(Head(puts).op) \/ page' = page, Head(puts).op = "load" \/ load' = load
    PROVE  Orders'
<1> DEFINE n == Len(puts')
<1>1. /\ n \in Int /\ Head(puts) = puts[1] /\ 1 \in 1..Len(puts) /\ n = Len(puts) - 1
      /\ \A i \in 1..n : i + 1 \in 1..Len(puts) /\ puts'[i] = puts[i + 1]
  BY RunPuts
<1> HIDE DEF n
<1>2. \A i \in 1..n : OfPage(puts'[i].op) => ~OfPage(Head(puts).op)
  <2> SUFFICES ASSUME NEW i \in 1..n, OfPage(puts[i + 1].op), OfPage(puts[1].op) PROVE FALSE
    BY <1>1
  <2>1. i + 1 = 1 BY <1>1 DEF Orders
  <2> QED BY <2>1, <1>1
<1>3. \A i \in 1..n : puts'[i].op = "load" => Head(puts).op # "load"
  <2> SUFFICES ASSUME NEW i \in 1..n, puts[i + 1].op = "load", puts[1].op = "load" PROVE FALSE
    BY <1>1
  <2>1. i + 1 = 1 BY <1>1 DEF Orders
  <2> QED BY <2>1, <1>1
<1>4. ASSUME NEW i \in 1..n
      PROVE  /\ OfPage(puts'[i].op) => page'.at = "stored"
             /\ puts'[i].op = "load" => load'.at = "put" /\ puts'[i].rec = load'.rec
             /\ puts'[i].op = "empty" => puts'[i].rec = page'.rec
  <2>1. i + 1 \in 1..Len(puts) /\ puts'[i] = puts[i + 1] BY <1>1
  <2>2. puts'[i].op = "empty" => OfPage(puts'[i].op) BY DEF OfPage
  <2> QED BY <2>1, <2>2, <1>2, <1>3 DEF Orders
<1>5. ASSUME NEW i \in 1..n, NEW j \in 1..n,
             \/ OfPage(puts'[i].op) /\ OfPage(puts'[j].op)
             \/ puts'[i].op = "load" /\ puts'[j].op = "load"
      PROVE  i = j
  <2>1. i + 1 = j + 1 BY <1>1, <1>5 DEF Orders
  <2> QED BY <2>1, <1>1
<1> QED BY <1>4, <1>5 DEF Orders, n

\* And so for the writes of records, unless the first was the last of them.
LEMMA RunKeepsRecords ==
    ASSUME ReadTyped, Agrees, puts # <<>>, puts' = Tail(puts),
           blots \cap {"lost", "overtaken"} = {}, shown' = shown
    PROVE  /\ \A i, j \in 1..Len(puts') :
                 puts'[i].op = "record" /\ (OfPage(puts'[j].op) \/ puts'[j].op = "load") => i < j
           /\ \A i \in 1..Len(puts') :
                 puts'[i].op = "record"
                   /\ (\A j \in 1..Len(puts') : j > i => puts'[j].op # "record")
                 => puts'[i].rec = shown'
           /\ OfPage(Head(puts).op) \/ Head(puts).op = "load" => NoRecord'
           /\ NoRecord => NoRecord'
           /\ Head(puts).op # "record" /\ NoRecord' => NoRecord
           /\ Head(puts).op = "record" /\ NoRecord' => Head(puts).rec = shown
<1> DEFINE n == Len(puts')
<1>1. /\ n \in Int /\ Head(puts) = puts[1] /\ 1 \in 1..Len(puts) /\ n = Len(puts) - 1
      /\ \A i \in 1..n : i + 1 \in 1..Len(puts) /\ puts'[i] = puts[i + 1]
  BY RunPuts
<1>2. \A i \in 1..Len(puts) : i = 1 \/ (i - 1 \in 1..n /\ puts'[i - 1] = puts[i])
  BY <1>1
<1> HIDE DEF n
<1>3. ASSUME NEW i \in 1..n, NEW j \in 1..n, puts'[i].op = "record",
             OfPage(puts'[j].op) \/ puts'[j].op = "load"
      PROVE  i < j
  <2>1. i + 1 < j + 1 BY <1>3, <1>1 DEF Agrees
  <2> QED BY <2>1
<1>4. ASSUME NEW i \in 1..n, puts'[i].op = "record",
             \A j \in 1..n : j > i => puts'[j].op # "record"
      PROVE  puts'[i].rec = shown'
  <2>1. ASSUME NEW j \in 1..Len(puts), j > i + 1 PROVE puts[j].op # "record"
    <3>1. j - 1 \in 1..n /\ puts'[j - 1] = puts[j] /\ j - 1 > i BY <2>1, <1>2
    <3> QED BY <3>1, <1>4
  <2>2. i + 1 \in 1..Len(puts) /\ puts[i + 1] = puts'[i] BY <1>1
  <2> QED BY <2>1, <2>2, <1>4 DEF Agrees
<1>5. ASSUME OfPage(Head(puts).op) \/ Head(puts).op = "load" PROVE NoRecord'
  <2> SUFFICES ASSUME NEW i \in 1..n, puts[i + 1].op = "record" PROVE FALSE
    BY <1>1 DEF NoRecord, n
  <2>1. i + 1 < 1 BY <1>5, <1>1 DEF Agrees
  <2> QED BY <2>1
<1>6. NoRecord => NoRecord' BY <1>1 DEF NoRecord, n
<1>7. Head(puts).op # "record" /\ NoRecord' => NoRecord
  BY <1>1, <1>2 DEF NoRecord, n
<1>8. ASSUME Head(puts).op = "record", NoRecord' PROVE Head(puts).rec = shown
  <2>1. ASSUME NEW j \in 1..Len(puts), j > 1 PROVE puts[j].op # "record"
    <3>1. j - 1 \in 1..n /\ puts'[j - 1] = puts[j] BY <2>1, <1>2
    <3> QED BY <3>1, <1>8 DEF NoRecord, n
  <2> QED BY <2>1, <1>8, <1>1 DEF Agrees
<1> QED BY <1>3, <1>4, <1>5, <1>6, <1>7, <1>8 DEF n

LEMMA RunKeepsCounts ==
    ASSUME ReadTyped, Counts, puts # <<>>, puts' = Tail(puts), top' = top, blots \subseteq blots',
           Faithful(shown)', Faithful(kept)', Faithful(page.rec)', Faithful(load.rec)'
    PROVE  Counts'
<1>1. /\ \A i \in 1..Len(puts') : i + 1 \in 1..Len(puts) /\ puts'[i] = puts[i + 1]
  BY RunPuts
<1>2. top \in Nat BY ReadNumbers DEF ReadTyped, Cursor
<1>3. \A v : Faithful(v) => Faithful(v)' BY <1>2, FaithfulStays
<1>4. ASSUME NEW i \in 1..Len(puts')
      PROVE  Faithful(puts[i].rec)' /\ puts'[i].rows \subseteq 1..top'
  <2>1. Faithful(puts[i + 1].rec) /\ puts[i + 1].rows \subseteq 1..top BY <1>1 DEF Counts
  <2> QED BY <2>1, <1>1, <1>3 DEF Faithful
<1> QED BY <1>4 DEF Counts

LEMMA RunSteps ==
    ASSUME ReadSound, RunRecord \/ RunRow \/ RunPage \/ RunEmpty \/ RunLoad \/ PutFails
    PROVE  ReadSound'
<1>a. ReadTyped /\ Counts /\ Orders /\ Agrees BY DEF ReadSound
<1>b. top \in Nat /\ 1..top \subseteq Messages
  BY <1>a, ReadNumbers DEF ReadTyped, Cursor, Messages
<1> DEFINE w == Head(puts)
<1>1. puts # <<>> /\ puts' = Tail(puts)
  BY DEF RunRecord, RunRow, RunPage, RunEmpty, RunLoad, PutFails, Runs
<1>2. /\ puts' \in Seq(PutTo) /\ Len(puts') <= MaxPuts
      /\ w = puts[1] /\ 1 \in 1..Len(puts) /\ w \in PutTo
  BY <1>1, <1>a, RunPuts
<1>3. /\ Faithful(w.rec) /\ w.rows \subseteq 1..top /\ w.rec \in ChannelRecord
      /\ w.rows \subseteq Messages
  BY <1>a, <1>b, <1>2 DEF Counts, PutTo
<1>4. /\ OfPage(w.op) => page.at = "stored"
      /\ w.op = "load" => load.at = "put" /\ w.rec = load.rec
      /\ w.op = "empty" => w.rec = page.rec
  BY <1>a, <1>2 DEF Orders
<1>5. Faithful(shown) /\ Faithful(kept) /\ Faithful(page.rec) /\ Faithful(load.rec)
  BY <1>a DEF Counts
<1>6. ASSUME blots \subseteq blots', top' = top
      PROVE  \A v : Faithful(v) => Faithful(v)'
  BY <1>6, <1>b, FaithfulStays
<1>c. OfPage(w.op) <=> w.op \in {"page", "empty"} BY DEF OfPage
<1> HIDE DEF w
<1>7. CASE RunRecord
  <2>1. /\ w.op = "record" /\ kept' = w.rec
        /\ UNCHANGED <<top, readUpTo, storedMsgs, shown, page, load, blots>>
    BY <1>7 DEF RunRecord, Runs, w
  <2>2. Counts' BY <2>1, <1>a, <1>1, <1>3, <1>5, <1>6, RunKeepsCounts DEF Faithful
  <2>3. Orders' BY <2>1, <1>a, <1>1, RunKeepsOrders
  <2>4. ASSUME blots \cap {"lost", "overtaken"} = {}
        PROVE  /\ page.at = "publish" \/ load.at = "publish" => FALSE
               /\ NoRecord' => kept' = shown
    <3>1. ~NoRecord BY <2>1, <1>2 DEF NoRecord
    <3>2. NoRecord' => w.rec = shown
      BY <2>1, <2>4, <1>a, <1>1, RunKeepsRecords DEF w
    <3> QED BY <3>1, <3>2, <2>1, <2>4, <1>a DEF Agrees
  <2>5. Agrees' BY <2>1, <2>4, <1>a, <1>1, RunKeepsRecords DEF Agrees
  <2>6. ReadTyped' BY <2>1, <1>a, <1>2, <1>3 DEF ReadTyped
  <2> QED BY <2>2, <2>3, <2>5, <2>6 DEF ReadSound
<1>8. CASE RunRow
  <2>1. /\ w.op = "row" /\ storedMsgs' = storedMsgs \cup w.rows
        /\ UNCHANGED <<top, readUpTo, kept, shown, page, load, blots>>
    BY <1>8 DEF RunRow, Runs, w
  <2>2. Counts' BY <2>1, <1>a, <1>1, <1>5, <1>6, RunKeepsCounts DEF Faithful
  <2>3. Orders' BY <2>1, <1>a, <1>1, RunKeepsOrders
  <2>4. blots \cap {"lost", "overtaken"} = {} => (NoRecord' <=> NoRecord)
    BY <2>1, <1>a, <1>1, RunKeepsRecords DEF w
  <2>5. Agrees' BY <2>1, <2>4, <1>a, <1>1, RunKeepsRecords DEF Agrees
  <2>6. ReadTyped' BY <2>1, <1>a, <1>2, <1>3 DEF ReadTyped
  <2> QED BY <2>2, <2>3, <2>5, <2>6 DEF ReadSound
<1>9. CASE RunPage
  <2> DEFINE new == {m \in w.rows \ storedMsgs : m > kept.read}
  <2>1. /\ w.op = "page" /\ kept' = Count(kept, new) /\ blots' = blots \cup Recounted(kept, new)
        /\ storedMsgs' = storedMsgs \cup w.rows /\ page' = [at |-> "publish", rec |-> kept']
        /\ UNCHANGED <<top, readUpTo, shown, load>>
    BY <1>9 DEF RunPage, Runs, w
  <2>2. new \subseteq 1..top /\ (\A m \in new : m > kept.read) BY <1>3
  <2>a. kept \in ChannelRecord BY <1>a DEF ReadTyped
  <2> HIDE DEF new
  <2>3. kept' \in ChannelRecord /\ Faithful(kept)'
    <3>1. PICK was \in ChannelRecord, ms \in SUBSET (1..top) : was = kept /\ ms = new
      BY <2>2, <2>a
    <3>2. Faithful(was) /\ (\A m \in ms : m > was.read) BY <3>1, <2>2, <1>5
    <3>3. kept' = Count(was, ms) /\ blots' = blots \cup Recounted(was, ms) BY <3>1, <2>1
    <3>4. Count(was, ms) \in ChannelRecord /\ Faithful(Count(was, ms))'
      BY <3>2, <3>3, <2>1, <1>a, CountFaithful
    <3> QED BY <3>3, <3>4 DEF Faithful
  <2>4. blots \subseteq blots' /\ blots' \subseteq blots \cup {"again"}
    BY <2>1 DEF Recounted
  <2>b. page'.at = "publish" /\ page'.rec = kept' BY <2>1
  <2>5. Faithful(shown)' /\ Faithful(page.rec)' /\ Faithful(load.rec)'
    BY <2>1, <2>b, <2>3, <2>4, <1>5, <1>6 DEF Faithful
  <2>6. Counts' BY <2>1, <2>3, <2>4, <2>5, <1>a, <1>1, RunKeepsCounts
  <2>7. Orders' BY <2>1, <1>a, <1>c, <1>1, RunKeepsOrders DEF w
  <2>8. Agrees'
    <3>1. ASSUME blots \cap {"lost", "overtaken"} = {} PROVE NoRecord'
      BY <3>1, <2>1, <1>a, <1>c, <1>1, RunKeepsRecords DEF w
    <3> QED BY <3>1, <2>1, <2>b, <2>4, <1>a, <1>1, RunKeepsRecords DEF Agrees
  <2>9. page' \in [at : PageAt, rec : ChannelRecord] BY <2>1, <2>3 DEF PageAt
  <2>10. ReadTyped' BY <2>1, <2>3, <2>4, <2>9, <1>a, <1>2, <1>3 DEF ReadTyped
  <2> QED BY <2>6, <2>7, <2>8, <2>10 DEF ReadSound
<1>10. CASE RunEmpty
  <2>1. /\ w.op = "empty" /\ kept' = w.rec /\ page' = [page EXCEPT !.at = "publish"]
        /\ UNCHANGED <<top, readUpTo, storedMsgs, shown, load, blots>>
    BY <1>10 DEF RunEmpty, Runs, w
  <2>2. /\ page' \in [at : PageAt, rec : ChannelRecord] /\ page'.at = "publish"
        /\ page'.rec = page.rec /\ page'.rec = kept'
    BY <2>1, <1>4, <1>a DEF ReadTyped, PageAt
  <2>3. Counts' BY <2>1, <2>2, <1>a, <1>1, <1>3, <1>5, <1>6, RunKeepsCounts DEF Faithful
  <2>4. Orders' BY <2>1, <1>a, <1>c, <1>1, RunKeepsOrders DEF w
  <2>5. Agrees'
    <3>1. ASSUME blots \cap {"lost", "overtaken"} = {} PROVE NoRecord'
      BY <3>1, <2>1, <1>a, <1>c, <1>1, RunKeepsRecords DEF w
    <3> QED BY <3>1, <2>1, <2>2, <1>a, <1>1, RunKeepsRecords DEF Agrees
  <2>6. ReadTyped' BY <2>1, <2>2, <1>a, <1>2, <1>3 DEF ReadTyped
  <2> QED BY <2>3, <2>4, <2>5, <2>6 DEF ReadSound
<1>11. CASE RunLoad
  <2>1. /\ w.op = "load" /\ kept' = w.rec /\ load' = [load EXCEPT !.at = "publish"]
        /\ UNCHANGED <<top, readUpTo, storedMsgs, shown, page, blots>>
    BY <1>11 DEF RunLoad, Runs, w
  <2>2. /\ load' \in [at : LoadAt, rec : ChannelRecord] /\ load'.at = "publish"
        /\ load'.rec = load.rec /\ load'.rec = kept'
    BY <2>1, <1>4, <1>a DEF ReadTyped, LoadAt
  <2>3. Counts' BY <2>1, <2>2, <1>a, <1>1, <1>3, <1>5, <1>6, RunKeepsCounts DEF Faithful
  <2>4. Orders' BY <2>1, <1>a, <1>c, <1>1, RunKeepsOrders DEF w
  <2>5. Agrees'
    <3>1. ASSUME blots \cap {"lost", "overtaken"} = {} PROVE NoRecord'
      BY <3>1, <2>1, <1>a, <1>c, <1>1, RunKeepsRecords DEF w
    <3> QED BY <3>1, <2>1, <2>2, <1>a, <1>1, RunKeepsRecords DEF Agrees
  <2>6. ReadTyped' BY <2>1, <2>2, <1>a, <1>2, <1>3 DEF ReadTyped
  <2> QED BY <2>3, <2>4, <2>5, <2>6 DEF ReadSound
<1>12. CASE PutFails
  <2>1. /\ blots' = IF w.op = "record" THEN blots \cup {"lost"} ELSE blots
        /\ page' = IF w.op \in {"page", "empty"} THEN NoPage ELSE page
        /\ load' = IF w.op = "load" THEN NoPage ELSE load
        /\ UNCHANGED <<top, readUpTo, kept, storedMsgs, shown>>
    BY <1>12 DEF PutFails, w
  <2>2. NoPage \in [at : PageAt, rec : ChannelRecord] /\ NoPage \in [at : LoadAt, rec : ChannelRecord]
        /\ NoPage.at = "idle" /\ NoPage.rec = Unread
    BY ReadNumbers DEF NoPage, PageAt, LoadAt
  <2>3. Faithful(Unread) BY <1>b, ReadNumbers, FS_EmptySet DEF Faithful
  <2>4. blots \subseteq blots' BY <2>1
  <2>5. Faithful(shown)' /\ Faithful(kept)' /\ Faithful(page.rec)' /\ Faithful(load.rec)'
    <3>1. page'.rec \in {Unread, page.rec} /\ load'.rec \in {Unread, load.rec} BY <2>1, <2>2
    <3> QED BY <3>1, <2>1, <2>3, <2>4, <1>5, <1>6 DEF Faithful
  <2>6. Counts' BY <2>1, <2>4, <2>5, <1>a, <1>1, RunKeepsCounts
  <2>7. Orders' BY <2>1, <1>a, <1>c, <1>1, RunKeepsOrders DEF w
  <2>8. Agrees'
    <3> SUFFICES ASSUME blots' \cap {"lost", "overtaken"} = {} PROVE Agrees'
      BY DEF Agrees
    <3>1. w.op # "record" /\ blots' = blots BY <2>1
    <3>2. /\ NoRecord' <=> NoRecord
          /\ OfPage(w.op) \/ w.op = "load" => NoRecord'
      BY <3>1, <2>1, <1>a, <1>1, RunKeepsRecords DEF w
    <3>3. CASE OfPage(w.op)
      <4>1. page'.at = "idle" /\ load' = load /\ page.at = "stored"
        BY <3>3, <2>1, <2>2, <1>4, <1>c
      <4> QED BY <4>1, <3>1, <3>2, <3>3, <2>1, <1>a, <1>1, RunKeepsRecords DEF Agrees
    <3>4. CASE w.op = "load"
      <4>1. load'.at = "idle" /\ page' = page /\ load.at = "put"
        BY <3>4, <2>1, <2>2, <1>4
      <4> QED BY <4>1, <3>1, <3>2, <3>4, <2>1, <1>a, <1>1, RunKeepsRecords DEF Agrees
    <3>5. CASE w.op = "row"
      <4>1. load' = load /\ page' = page BY <3>5, <2>1
      <4> QED BY <4>1, <3>1, <3>2, <2>1, <1>a, <1>1, RunKeepsRecords DEF Agrees
    <3> QED BY <3>1, <3>3, <3>4, <3>5, <1>2, <1>c DEF PutTo
  <2>9. page' \in [at : PageAt, rec : ChannelRecord] /\ load' \in [at : LoadAt, rec : ChannelRecord]
        /\ blots' \subseteq {"again", "torn", "lost", "overtaken"}
    BY <2>1, <2>2, <1>a DEF ReadTyped
  <2>10. ReadTyped' BY <2>1, <2>9, <1>a, <1>2 DEF ReadTyped
  <2> QED BY <2>6, <2>7, <2>8, <2>10 DEF ReadSound
<1> QED BY <1>7, <1>8, <1>9, <1>10, <1>11, <1>12

LEMMA CursorsKeep == ASSUME ReadSound, CursorArrives \/ PatchFlags PROVE ReadSound'
<1>a. ReadTyped /\ Counts BY DEF ReadSound
<1>b. top \in Nat /\ readUpTo \in 0..top /\ shown \in ChannelRecord /\ Faithful(shown)
      /\ top <= MaxMessages /\ MaxMessages \in Nat
  BY <1>a, ReadNumbers DEF ReadTyped, Counts, Cursor
<1> DEFINE row == Put("row", Unread, {})
<1>c. row \in PutTo /\ row.op = "row" /\ row.rec = Unread /\ row.rows \subseteq 1..top
  BY ReadNumbers DEF Put, PutTo
<1> HIDE DEF row
<1>1. ASSUME NEW rec \in ChannelRecord, Change(rec), Faithful(rec),
             UNCHANGED <<top, readUpTo, kept, storedMsgs, page, load>>
      PROVE  ReadSound'
  <2>1. /\ shown' = rec /\ IssuePuts(<<Put("record", rec, {})>>) /\ blots' = blots \cup Overtake
    BY <1>1 DEF Change
  <2>2. blots' \subseteq {"again", "torn", "lost", "overtaken"}
    BY <2>1, <1>a DEF ReadTyped, Overtake
  <2>3. Faithful(rec)' BY <2>1, <1>1, <1>b, FaithfulStays
  <2> QED BY <2>1, <2>2, <2>3, <1>1, <1>c, ChangeKeeps
<1>2. CASE PatchFlags BY <1>2, <1>1, <1>b DEF PatchFlags
<1>3. CASE CursorArrives
  <2>1. PICK v \in 1..readUpTo : ApplyReadCursor(v) BY <1>3 DEF CursorArrives
  <2>2. UNCHANGED <<top, readUpTo, kept, storedMsgs, page, load>> BY <1>3 DEF CursorArrives
  <2>3. CASE v > shown.read
    <3> DEFINE rec == [shown EXCEPT !.read = v, !.unread = 0, !.counted = {}]
    <3>1. v \in Cursor /\ v \in 0..top BY <1>b DEF Cursor
    <3>2. rec \in ChannelRecord /\ rec.read = v /\ rec.unread = 0 /\ rec.counted = {}
      BY <3>1, <1>b DEF ChannelRecord
    <3>3. Change(rec) BY <2>1, <2>3 DEF ApplyReadCursor
    <3> HIDE DEF rec
    <3>4. Faithful(rec) BY <3>1, <3>2, FS_EmptySet DEF Faithful
    <3> QED BY <3>2, <3>3, <3>4, <2>2, <1>1
  <2>4. CASE ~(v > shown.read)
    <3>1. UNCHANGED <<top, readUpTo, kept, storedMsgs, shown, puts, page, load, blots>>
      BY <2>1, <2>2, <2>4 DEF ApplyReadCursor
    <3> QED BY ZenonT(60), <3>1 DEF ReadSound, ReadTyped, Counts, Faithful, Orders, Agrees, NoRecord
  <2> QED BY <2>3, <2>4
<1> QED BY <1>2, <1>3

LEMMA AbsorbKeeps == ASSUME ReadSound, AbsorbPush PROVE ReadSound'
<1>a. ReadTyped /\ Counts BY DEF ReadSound
<1>b. top \in Nat /\ shown \in ChannelRecord /\ Faithful(shown) /\ 1..top \subseteq Messages
  BY <1>a, ReadNumbers DEF ReadTyped, Counts, Cursor, Messages
<1>1. PICK m \in 1..top :
          IF m > shown.read
          THEN /\ shown' = Count(shown, {m})
               /\ IssuePuts(<<Put("record", Count(shown, {m}), {}), Put("row", Unread, {m})>>)
               /\ blots' = blots \cup Overtake \cup Recounted(shown, {m})
          ELSE /\ IssuePuts(<<Put("row", Unread, {m})>>)
               /\ UNCHANGED <<shown, blots>>
  BY DEF AbsorbPush
<1>2. UNCHANGED <<top, readUpTo, kept, storedMsgs, page, load>> BY DEF AbsorbPush
<1>3. CASE m > shown.read
  <2>1. PICK was \in ChannelRecord : was = shown BY <1>b
  <2> DEFINE rec == Count(was, {m})
             row == Put("row", Unread, {m})
  <2>2. /\ shown' = rec /\ IssuePuts(<<Put("record", rec, {}), row>>)
        /\ blots' = blots \cup Overtake \cup Recounted(was, {m})
    BY <2>1, <1>1, <1>3
  <2>3. rec \in ChannelRecord /\ Faithful(rec)'
    <3>1. Faithful(was) /\ {m} \subseteq 1..top /\ (\A k \in {m} : k > was.read)
      BY <2>1, <1>3, <1>b
    <3> QED BY <3>1, <2>2, <1>2, <1>a, CountFaithful
  <2>4. {m} \in SUBSET Messages BY <1>b
  <2>5. row \in PutTo /\ row.op = "row" /\ row.rec = Unread /\ row.rows \subseteq 1..top
    BY <2>4, ReadNumbers DEF Put, PutTo
  <2>6. blots \cup Overtake \subseteq blots'
        /\ blots' \subseteq {"again", "torn", "lost", "overtaken"}
    BY <2>2, <1>a DEF ReadTyped, Overtake, Recounted
  <2> HIDE DEF rec, row
  <2> QED BY <2>2, <2>3, <2>5, <2>6, <1>2, ChangeKeeps
<1>4. CASE ~(m > shown.read)
  <2>1. IssuePuts(<<Put("row", Unread, {m})>>) /\ UNCHANGED <<shown, blots>>
    BY <1>1, <1>4
  <2> QED BY <2>1, <1>2, RowKeeps
<1> QED BY <1>3, <1>4

LEMMA ServerStepsKeep ==
    ASSUME ReadSound, SomeoneWrites \/ ServerReads \/ HistoryRows \/ WipeRows
    PROVE  ReadSound'
<1>a. ReadTyped /\ Counts /\ Orders /\ Agrees BY DEF ReadSound
<1>b. top \in Nat /\ top <= MaxMessages /\ MaxMessages \in Nat /\ readUpTo \in 0..top
      /\ storedMsgs \subseteq 1..top
  BY <1>a, ReadNumbers DEF ReadTyped, Cursor
<1>1. UNCHANGED <<kept, shown, puts, page, load, blots>>
  BY DEF SomeoneWrites, ServerReads, HistoryRows, WipeRows
<1>2. /\ top' \in Nat /\ top <= top' /\ top' <= MaxMessages /\ readUpTo' \in 0..top'
      /\ storedMsgs' \subseteq 1..top'
  <2>1. CASE SomeoneWrites BY <2>1, <1>b DEF SomeoneWrites
  <2>2. CASE ServerReads BY <2>2, <1>b DEF ServerReads
  <2>3. CASE HistoryRows BY <2>3, <1>b DEF HistoryRows
  <2>4. CASE WipeRows BY <2>4, <1>b DEF WipeRows
  <2> QED BY <2>1, <2>2, <2>3, <2>4
<1>3. \A v : Faithful(v) => Faithful(v)' BY <1>1, <1>2, <1>b, FaithfulStays
<1>4. Counts'
  <2>1. ASSUME NEW i \in 1..Len(puts)
        PROVE  Faithful(puts[i].rec)' /\ puts[i].rows \subseteq 1..top'
    <3>1. Faithful(puts[i].rec) /\ puts[i].rows \subseteq 1..top BY <1>a DEF Counts
    <3> QED BY <3>1, <1>1, <1>2, <1>3, <1>b DEF Faithful
  <2>2. Faithful(shown)' /\ Faithful(kept)' /\ Faithful(page.rec)' /\ Faithful(load.rec)'
    BY <1>a, <1>1, <1>3 DEF Counts, Faithful
  <2> QED BY <2>1, <2>2, <1>1 DEF Counts
<1>5. Orders' /\ Agrees' BY <1>a, <1>1 DEF Orders, Agrees, NoRecord
<1>6. ReadTyped' BY <1>a, <1>1, <1>2, <1>b DEF ReadTyped, Cursor
<1> QED BY <1>4, <1>5, <1>6 DEF ReadSound

LEMMA AdoptionsKeep == ASSUME ReadSound, PageArrives \/ SeedEmptyPage \/ LoadCursors PROVE ReadSound'
<1>a. ReadTyped /\ Counts BY DEF ReadSound
<1>b. /\ top \in Nat /\ 1..top \subseteq Messages /\ readUpTo \in 0..top /\ readUpTo \in Cursor
      /\ shown \in ChannelRecord /\ blots \subseteq {"again", "torn", "lost", "overtaken"}
      /\ page \in [at : PageAt, rec : ChannelRecord] /\ load \in [at : LoadAt, rec : ChannelRecord]
      /\ Faithful(shown) /\ Faithful(page.rec) /\ Faithful(load.rec)
  BY <1>a, ReadNumbers DEF ReadTyped, Counts, Cursor, Messages
<1>c. page.rec \in ChannelRecord /\ load.rec \in ChannelRecord BY <1>b
<1>d. Faithful(Unread) BY <1>b, ReadNumbers, FS_EmptySet DEF Faithful
<1>1. ASSUME NEW from \in 1..top, NEW to \in 1..top, page.at = "idle",
             IssuePuts(<<Put("page", Unread, from..to)>>), page' = [page EXCEPT !.at = "stored"],
             UNCHANGED <<top, readUpTo, kept, storedMsgs, shown, load, blots>>
      PROVE  ReadSound'
  <2> DEFINE w == Put("page", Unread, from..to)
  <2>1. from..to \in SUBSET Messages /\ from..to \subseteq 1..top BY <1>b
  <2>2. w \in PutTo /\ w.op = "page" /\ w.rec = Unread /\ w.rows \subseteq 1..top
    BY <2>1, ReadNumbers DEF Put, PutTo
  <2>3. page' \in [at : PageAt, rec : ChannelRecord] /\ page'.at = "stored" /\ page'.rec = page.rec
    BY <1>1, <1>b DEF PageAt
  <2> HIDE DEF w
  <2>4. IssuePuts(<<w>>) BY <1>1 DEF w
  <2>5. Faithful(w.rec)' BY <2>2, <1>1, <1>b, <1>d, FaithfulStays
  <2> QED BY <2>2, <2>3, <2>4, <2>5, <1>1, <1>b, AdoptKeeps DEF OfPage
<1>2. ASSUME page.at = "idle", page' = [at |-> "seed", rec |-> shown],
             UNCHANGED <<top, readUpTo, kept, storedMsgs, shown, puts, load, blots>>
      PROVE  ReadSound'
  <2>1. page' \in [at : PageAt, rec : ChannelRecord] /\ page'.at = "seed" /\ page'.rec = shown
    BY <1>2, <1>b DEF PageAt
  <2>2. Counts' BY <2>1, <1>2, <1>a DEF Counts, Faithful
  <2>3. \A i \in 1..Len(puts) : ~OfPage(puts[i].op) /\ puts[i].op # "empty"
    BY <1>2 DEF ReadSound, Orders, OfPage
  <2>4. Orders' BY <2>3, <1>2 DEF ReadSound, Orders
  <2>5. Agrees' BY <2>1, <1>2 DEF ReadSound, Agrees, NoRecord
  <2>6. ReadTyped' BY <2>1, <1>2, <1>a DEF ReadTyped
  <2> QED BY <2>2, <2>4, <2>5, <2>6 DEF ReadSound
<1>3. CASE PageArrives BY <1>1, <1>2, <1>3 DEF PageArrives
<1>4. CASE SeedEmptyPage
  <2>0. PICK rec \in ChannelRecord : rec = page.rec BY <1>c
  <2> DEFINE w == Put("empty", rec, {})
  <2>1. {} \in SUBSET Messages
    OBVIOUS
  <2>2. w \in PutTo /\ w.op = "empty" /\ w.rec = rec /\ w.rows = {} BY <2>1 DEF Put, PutTo
  <2> HIDE DEF w
  <2>3. /\ page.at = "seed" /\ IssuePuts(<<w>>) /\ page' = [page EXCEPT !.at = "stored"]
        /\ UNCHANGED <<top, readUpTo, kept, storedMsgs, shown, load, blots>>
    BY <2>0, <1>4 DEF SeedEmptyPage, w
  <2>4. page' \in [at : PageAt, rec : ChannelRecord] /\ page'.at = "stored" /\ page'.rec = page.rec
    BY <2>3, <1>b DEF PageAt
  <2>5. Faithful(w.rec)' BY <2>0, <2>2, <2>3, <1>b, FaithfulStays
  <2> QED BY <2>0, <2>2, <2>3, <2>4, <2>5, <1>b, AdoptKeeps DEF OfPage
<1>5. CASE LoadCursors
  <2>0. PICK was \in ChannelRecord : was = load.rec BY <1>c
  <2>1. PICK rec : rec = [was EXCEPT !.read = readUpTo]
    OBVIOUS
  <2>2. /\ rec \in ChannelRecord /\ rec.read = readUpTo /\ rec.unread = was.unread
        /\ rec.counted = was.counted
    BY <2>1, <1>b DEF ChannelRecord
  <2> DEFINE w == Put("load", rec, {})
  <2>3. {} \in SUBSET Messages
    OBVIOUS
  <2>4. w \in PutTo /\ w.op = "load" /\ w.rec = rec /\ w.rows = {} BY <2>2, <2>3 DEF Put, PutTo
  <2> HIDE DEF w
  <2>5. /\ load.at = "cursors" /\ load' = [at |-> "put", rec |-> rec] /\ IssuePuts(<<w>>)
        /\ blots' = IF rec.counted \cap 1..readUpTo = {} THEN blots ELSE blots \cup {"torn"}
        /\ UNCHANGED <<top, readUpTo, kept, storedMsgs, shown, page>>
    BY <2>0, <2>1, <1>5 DEF LoadCursors, w
  <2>6. load' \in [at : LoadAt, rec : ChannelRecord] /\ load'.at = "put" /\ load'.rec = rec
    BY <2>2, <2>5 DEF LoadAt
  <2>7. was.read \in 0..top /\ was.unread \in Nat /\ was.counted \subseteq 1..top
        /\ (blots \cap {"again", "torn"} = {} => was.unread = Cardinality(was.counted))
    BY <2>0, <1>b DEF Faithful
  <2>9. Faithful(rec)'
    <3>1. ASSUME blots' \cap {"again", "torn"} = {}
          PROVE  rec.counted \subseteq (readUpTo + 1)..top /\ rec.unread = Cardinality(rec.counted)
      <4>1. rec.counted \cap 1..readUpTo = {} /\ blots' = blots BY <3>1, <2>5
      <4> QED BY <4>1, <3>1, <2>2, <2>7, <1>b
    <3> QED BY <3>1, <2>2, <2>5, <2>7, <1>b DEF Faithful
  <2> QED BY <2>2, <2>4, <2>5, <2>6, <2>9, <1>b, AdoptKeeps DEF OfPage
<1> QED BY <1>3, <1>4, <1>5

\* Memory takes over, or a page or bootstrap begins, or the page is reloaded.
LEMMA MemoryStepsKeep ==
    ASSUME ReadSound, PublishPage \/ PublishLoad \/ LoadChannels \/ ReloadPage
    PROVE  ReadSound'
<1>a. ReadTyped /\ Counts /\ Orders /\ Agrees BY DEF ReadSound
<1>b. /\ top \in Nat /\ 1..top \subseteq Messages /\ readUpTo \in 0..top
      /\ page \in [at : PageAt, rec : ChannelRecord] /\ load \in [at : LoadAt, rec : ChannelRecord]
      /\ Faithful(shown) /\ Faithful(kept) /\ Faithful(page.rec) /\ Faithful(load.rec)
      /\ kept \in ChannelRecord
  BY <1>a, ReadNumbers DEF ReadTyped, Counts, Cursor, Messages
<1>c. page.rec \in ChannelRecord /\ load.rec \in ChannelRecord BY <1>b
<1>d. Faithful(Unread) BY <1>b, ReadNumbers, FS_EmptySet DEF Faithful
<1>e. /\ NoPage \in [at : PageAt, rec : ChannelRecord] /\ NoPage \in [at : LoadAt, rec : ChannelRecord]
      /\ NoPage.at = "idle" /\ NoPage.rec = Unread
  BY ReadNumbers DEF NoPage, PageAt, LoadAt
<1>2. CASE PublishPage
  <2>1. /\ page.at = "publish" /\ shown' = page.rec /\ page' = NoPage
        /\ blots' = IF load.at \in {"put", "publish"} THEN blots \cup {"overtaken"} ELSE blots
        /\ UNCHANGED <<top, readUpTo, kept, storedMsgs, puts, load>>
    BY <1>2 DEF PublishPage
  <2>2. Faithful(shown)' /\ Faithful(kept)' /\ Faithful(page.rec)' /\ Faithful(load.rec)'
    BY <2>1, <1>b, <1>d, <1>e, FaithfulStays DEF Faithful
  <2>3. Counts'
    <3>1. \A v : Faithful(v) => Faithful(v)' BY <2>1, <1>b, FaithfulStays
    <3>2. ASSUME NEW i \in 1..Len(puts)
          PROVE  Faithful(puts[i].rec)' /\ puts[i].rows \subseteq 1..top
      BY <3>1, <2>1, <1>a DEF Counts, Faithful
    <3> QED BY <3>2, <2>1, <2>2 DEF Counts, Faithful
  <2>4. \A i \in 1..Len(puts) : ~OfPage(puts[i].op) /\ puts[i].op # "empty"
    BY <2>1, <1>a DEF Orders, OfPage
  <2>5. Orders' BY <2>4, <2>1, <1>a DEF Orders
  <2>6. Agrees' BY <2>1, <2>4, <1>a, <1>e DEF Agrees, NoRecord
  <2>7. ReadTyped' BY <2>1, <1>a, <1>c, <1>e DEF ReadTyped
  <2> QED BY <2>3, <2>5, <2>6, <2>7 DEF ReadSound
<1>3. CASE PublishLoad
  <2>1. /\ load.at = "publish" /\ shown' = load.rec /\ load' = NoPage
        /\ blots' = IF page.at \in {"stored", "publish"} THEN blots \cup {"overtaken"} ELSE blots
        /\ UNCHANGED <<top, readUpTo, kept, storedMsgs, puts, page>>
    BY <1>3 DEF PublishLoad
  <2>2. Faithful(shown)' /\ Faithful(kept)' /\ Faithful(page.rec)' /\ Faithful(load.rec)'
    BY <2>1, <1>b, <1>d, <1>e, FaithfulStays DEF Faithful
  <2>3. Counts'
    <3>1. \A v : Faithful(v) => Faithful(v)' BY <2>1, <1>b, FaithfulStays
    <3>2. ASSUME NEW i \in 1..Len(puts)
          PROVE  Faithful(puts[i].rec)' /\ puts[i].rows \subseteq 1..top
      BY <3>1, <2>1, <1>a DEF Counts, Faithful
    <3> QED BY <3>2, <2>1, <2>2 DEF Counts, Faithful
  <2>4. \A i \in 1..Len(puts) : puts[i].op # "load" BY <2>1, <1>a DEF Orders
  <2>5. Orders' BY <2>4, <2>1, <1>a DEF Orders
  <2>6. Agrees' BY <2>1, <2>4, <1>a, <1>e DEF Agrees, NoRecord
  <2>7. ReadTyped' BY <2>1, <1>a, <1>c, <1>e DEF ReadTyped
  <2> QED BY <2>3, <2>5, <2>6, <2>7 DEF ReadSound
<1>4. CASE LoadChannels
  <2> DEFINE ms == (readUpTo + 1)..top
  <2>1. /\ load.at = "idle" /\ load' = [at |-> "cursors", rec |-> Count(Unread, ms)]
        /\ UNCHANGED <<top, readUpTo, kept, storedMsgs, shown, puts, page, blots>>
    BY <1>4 DEF LoadChannels
  <2>2. ms \subseteq 1..top /\ \A m \in ms : m > Unread.read BY <1>b, ReadNumbers
  <2>3. PICK set \in SUBSET (1..top) : set = ms BY <2>2
  <2>4. Recounted(Unread, set) = {} BY ReadNumbers DEF Recounted
  <2>5. Count(Unread, set) \in ChannelRecord /\ Faithful(Count(Unread, set))'
    BY <2>1, <2>2, <2>3, <2>4, <1>a, <1>d, ReadNumbers, CountFaithful
  <2>6. PICK rec \in ChannelRecord : rec = Count(Unread, set) /\ Faithful(rec)' BY <2>5
  <2>7. load' \in [at : LoadAt, rec : ChannelRecord] /\ load'.at = "cursors" /\ load'.rec = rec
    BY <2>1, <2>3, <2>6 DEF LoadAt
  <2>8. Faithful(load.rec)' BY <2>6, <2>7 DEF Faithful
  <2>9. Counts' BY <2>1, <2>8, <1>a DEF Counts, Faithful
  <2>10. \A i \in 1..Len(puts) : puts[i].op # "load" BY <2>1, <1>a DEF Orders
  <2>11. Orders' BY <2>1, <2>10, <1>a DEF Orders
  <2>12. Agrees' BY <2>1, <2>7, <1>a DEF Agrees, NoRecord
  <2>13. ReadTyped' BY <2>1, <2>7, <1>a DEF ReadTyped
  <2> QED BY <2>9, <2>11, <2>12, <2>13 DEF ReadSound
<1>5. CASE ReloadPage
  <2>1. /\ shown' = kept /\ puts' = <<>> /\ page' = NoPage /\ load' = NoPage
        /\ UNCHANGED <<top, readUpTo, kept, storedMsgs, blots>>
    BY <1>5 DEF ReloadPage
  <2>2. puts' \in Seq(PutTo) /\ Len(puts') = 0 /\ 1..0 = {} BY <2>1
  <2>3. Faithful(shown)' /\ Faithful(kept)' /\ Faithful(page.rec)' /\ Faithful(load.rec)'
    BY <2>1, <1>b, <1>d, <1>e DEF Faithful
  <2>4. Counts' /\ Orders' /\ Agrees'
    BY <2>1, <2>2, <2>3, <1>e DEF Counts, Orders, Agrees
  <2>5. ReadTyped' BY <2>1, <2>2, <1>a, <1>b, <1>e, ReadNumbers DEF ReadTyped
  <2> QED BY <2>4, <2>5 DEF ReadSound
<1> QED BY <1>2, <1>3, <1>4, <1>5

LEMMA ReadKeepsSound ==
    ASSUME ReadSound, ReadNext \/ UNCHANGED readVars
    PROVE  ReadSound'
<1>1. CASE UNCHANGED readVars
  <2>1. UNCHANGED <<top, readUpTo, kept, storedMsgs, shown, puts, page, load, blots>>
    BY <1>1 DEF readVars
  <2> QED BY ZenonT(60), <2>1 DEF ReadSound, ReadTyped, Counts, Faithful, Orders, Agrees, NoRecord
<1> QED BY <1>1, CursorsKeep, AbsorbKeeps, ServerStepsKeep, AdoptionsKeep, MemoryStepsKeep,
           RunSteps DEF ReadNext

LEMMA SoundRead == ReadSound => BadgeWithinUnread /\ ShownIsKept
<1> SUFFICES ASSUME ReadSound PROVE BadgeWithinUnread /\ ShownIsKept
  OBVIOUS
<1>a. ReadTyped /\ Counts /\ Orders /\ Agrees BY DEF ReadSound
<1>b. top \in Nat BY <1>a, ReadNumbers DEF ReadTyped, Cursor
<1>1. BadgeWithinUnread
  <2> SUFFICES ASSUME blots \cap {"again", "torn"} = {}, NEW rec \in {shown, kept}
               PROVE  rec.unread <= top - rec.read
    BY DEF BadgeWithinUnread
  <2>1. /\ rec.read \in 0..top /\ rec.counted \subseteq (rec.read + 1)..top
        /\ rec.unread = Cardinality(rec.counted)
    BY <1>a DEF Counts, Faithful
  <2>2. rec.read + 1 \in Int /\ top \in Int /\ rec.read + 1 <= top + 1 BY <2>1, <1>b
  <2>3. IsFiniteSet((rec.read + 1)..top)
        /\ Cardinality((rec.read + 1)..top)
             = IF rec.read + 1 > top THEN 0 ELSE top - (rec.read + 1) + 1
    BY <2>2, FS_Interval
  <2>4. Cardinality((rec.read + 1)..top) = top - rec.read BY <2>1, <2>2, <2>3, <1>b
  <2>5. Cardinality(rec.counted) <= Cardinality((rec.read + 1)..top)
    BY <2>1, <2>3, FS_Subset
  <2> QED BY <2>1, <2>4, <2>5
<1>2. ShownIsKept
  <2> SUFFICES ASSUME blots \cap {"lost", "overtaken"} = {}, puts = <<>>, ~Adopting
               PROVE  kept = shown
    BY DEF ShownIsKept
  <2>1. NoRecord BY DEF NoRecord
  <2>2. page.at # "publish" /\ load.at # "publish" BY DEF Adopting
  <2> QED BY <2>1, <2>2, <1>a DEF Agrees
<1> QED BY <1>1, <1>2

-----------------------------------------------------------------------------
(* The receipt of the others (Receipts).                                   *)

ReceiptWrite == [by : {"memory", "sweep"}, peer : Seen]

ReceiptTyped ==
    /\ isGroup \in BOOLEAN
    /\ seenBy \in Seen /\ sentUpTo \in Seen /\ peer \in Seen /\ peerKept \in Seen
    /\ queue \in Seq(ReceiptWrite) /\ Len(queue) <= MaxQueue
    /\ bootstrap \in [at : {"idle", "asked", "joined", "put", "stored"}, peer : Seen]
    /\ notices \in Seq(Seen)
    /\ faults \subseteq {"lost", "older", "overtaken"}

\* What was told grows and memory is no lower, until a sweep puts it back.
Forward ==
    "older" \notin faults =>
        /\ \A i, j \in 1..Len(notices) : i < j => notices[i] < notices[j]
        /\ \A i \in 1..Len(notices) : notices[i] <= peer

\* A sweep has one write at most.
SweepWrites ==
    \A i \in 1..Len(queue) : queue[i].by = "sweep" =>
        /\ bootstrap.at = "put" /\ queue[i].peer = bootstrap.peer
        /\ \A j \in 1..Len(queue) : queue[j].by = "sweep" => j = i

\* Nothing lost and nothing overtaken: the last write of memory is what memory
\* has, and comes before the sweep's.
NoneOfMemory == \A i \in 1..Len(queue) : queue[i].by # "memory"

Settles ==
    faults \cap {"lost", "overtaken"} = {} =>
        /\ \A i, j \in 1..Len(queue) : queue[i].by = "memory" /\ queue[j].by = "sweep" => i < j
        /\ \A i \in 1..Len(queue) :
              queue[i].by = "memory" /\ (\A j \in 1..Len(queue) : j > i => queue[j].by # "memory")
                  => queue[i].peer = peer
        /\ bootstrap.at = "stored" => NoneOfMemory /\ peerKept = bootstrap.peer
        /\ bootstrap.at # "stored" /\ NoneOfMemory => peerKept = peer

ReceiptSound == ReceiptTyped /\ Forward /\ SweepWrites /\ Settles

LEMMA ReceiptNumbers ==
    /\ MaxSeen \in Nat /\ MaxQueue \in Nat /\ MaxTold \in Nat /\ MaxSeen > 0 /\ MaxQueue > 0
    /\ 0 \in Seen /\ Seen \subseteq Nat
BY ReceiptAssumption DEF Seen

LEMMA ReceiptStarts == ReceiptInit => ReceiptSound
<1> SUFFICES ASSUME ReceiptInit PROVE ReceiptSound
  OBVIOUS
<1>1. /\ isGroup \in BOOLEAN /\ seenBy = 0 /\ sentUpTo = 0 /\ peer = 0 /\ peerKept = 0
      /\ queue = <<>> /\ bootstrap = NoSweep /\ notices = <<>> /\ faults = {}
  BY DEF ReceiptInit
<1>2. queue \in Seq(ReceiptWrite) /\ Len(queue) = 0 /\ notices \in Seq(Seen) /\ Len(notices) = 0
      /\ 1..0 = {}
  BY <1>1
<1>3. NoSweep \in [at : {"idle", "asked", "joined", "put", "stored"}, peer : Seen]
  BY ReceiptNumbers DEF NoSweep
<1>4. ReceiptTyped BY <1>1, <1>2, <1>3, ReceiptNumbers DEF ReceiptTyped
<1>5. Forward /\ SweepWrites BY <1>1, <1>2 DEF Forward, SweepWrites
<1>6. Settles BY <1>1, <1>2 DEF Settles, NoSweep
<1> QED BY <1>4, <1>5, <1>6 DEF ReceiptSound

LEMMA NoticesAreNumbers ==
    ASSUME ReceiptTyped
    PROVE  \A i \in 1..Len(notices) : notices[i] \in Nat
<1>1. \A i \in 1..Len(notices) : notices[i] \in Seen BY DEF ReceiptTyped
<1> QED BY <1>1, ReceiptNumbers

LEMMA EnqueueOne ==
    ASSUME ReceiptTyped, NEW by \in {"memory", "sweep"}, NEW v \in Seen, Enqueue(by, v)
    PROVE  /\ queue' \in Seq(ReceiptWrite) /\ Len(queue') = Len(queue) + 1
           /\ Len(queue') <= MaxQueue /\ Len(queue) \in Nat
           /\ \A i \in 1..Len(queue) : i \in 1..Len(queue') /\ queue'[i] = queue[i]
           /\ queue'[Len(queue) + 1].by = by /\ queue'[Len(queue) + 1].peer = v
           /\ \A i \in 1..Len(queue') : i \in 1..Len(queue) \/ i = Len(queue) + 1
<1>1. queue \in Seq(ReceiptWrite) /\ Len(queue) \in Nat /\ MaxQueue \in Nat
  BY ReceiptNumbers DEF ReceiptTyped
<1> DEFINE w == [by |-> by, peer |-> v]
<1>2. w \in ReceiptWrite /\ w.by = by /\ w.peer = v BY DEF ReceiptWrite
<1>3. queue' = Append(queue, w) /\ Len(queue) < MaxQueue BY DEF Enqueue
<1> HIDE DEF w
<1>4. queue' \in Seq(ReceiptWrite) /\ Len(queue') = Len(queue) + 1
      /\ queue'[Len(queue) + 1] = w /\ \A i \in 1..Len(queue) : queue'[i] = queue[i]
  BY <1>1, <1>2, <1>3
<1> QED BY <1>1, <1>2, <1>3, <1>4

\* The write of memory goes to the end of the queue, and memory holds what it
\* writes.
LEMMA EnqueueKeeps ==
    ASSUME ReceiptTyped, SweepWrites, Settles, NEW v \in Seen, Enqueue("memory", v), peer' = v,
           faults' = faults \cup Crossing, UNCHANGED <<peerKept, bootstrap>>
    PROVE  SweepWrites' /\ Settles'
<1> DEFINE n == Len(queue)
<1>1. /\ n \in Nat /\ Len(queue') = n + 1
      /\ \A i \in 1..n : i \in 1..Len(queue') /\ queue'[i] = queue[i]
      /\ queue'[n + 1].by = "memory" /\ queue'[n + 1].peer = v
      /\ \A i \in 1..Len(queue') : i \in 1..n \/ i = n + 1
  BY EnqueueOne
<1>a. n + 1 \in 1..Len(queue') BY <1>1
<1>2. \A i \in 1..Len(queue') : queue'[i].by = "sweep" => i \in 1..n /\ queue'[i] = queue[i]
  BY <1>1
<1> HIDE DEF n
<1>3. SweepWrites' BY <1>2, <1>1 DEF SweepWrites, n
<1>4. ASSUME faults' \cap {"lost", "overtaken"} = {}
      PROVE  /\ \A i \in 1..Len(queue') : queue'[i].by # "sweep"
             /\ bootstrap.at # "stored"
  <2>1. bootstrap.at \notin {"put", "stored"} BY <1>4 DEF Crossing
  <2> QED BY <2>1, <1>2 DEF SweepWrites, n
<1>5. ~NoneOfMemory' BY <1>1, <1>a DEF NoneOfMemory
<1>6. ASSUME NEW i \in 1..Len(queue'), queue'[i].by = "memory",
             \A j \in 1..Len(queue') : j > i => queue'[j].by # "memory"
      PROVE  queue'[i].peer = v
  <2>1. ~(n + 1 > i) BY <1>6, <1>1, <1>a
  <2>2. i = n + 1 BY <2>1, <1>1
  <2> QED BY <2>2, <1>1
<1>7. Settles' BY <1>4, <1>5, <1>6 DEF Settles
<1> QED BY <1>3, <1>7

LEMMA PushesKeep == ASSUME ReceiptSound, PeerPush \/ OtherField PROVE ReceiptSound'
<1>a. ReceiptTyped /\ Forward /\ SweepWrites /\ Settles BY DEF ReceiptSound
<1>b. peer \in Seen /\ peer \in Nat /\ seenBy \in Seen /\ notices \in Seq(Seen)
      /\ MaxSeen \in Nat /\ Len(notices) \in Nat
  BY <1>a, ReceiptNumbers DEF ReceiptTyped
<1>c. faults \cup Crossing \subseteq {"lost", "older", "overtaken"}
  BY <1>a DEF ReceiptTyped, Crossing
<1>1. CASE OtherField
  <2>1. /\ Enqueue("memory", peer) /\ faults' = faults \cup Crossing
        /\ UNCHANGED <<isGroup, seenBy, sentUpTo, peer, peerKept, bootstrap, notices>>
    BY <1>1 DEF OtherField
  <2>2. SweepWrites' /\ Settles' BY <2>1, <1>a, <1>b, EnqueueKeeps
  <2>3. queue' \in Seq(ReceiptWrite) /\ Len(queue') <= MaxQueue
    BY <2>1, <1>a, <1>b, EnqueueOne
  <2>4. ReceiptTyped' BY <2>1, <2>3, <1>a, <1>c DEF ReceiptTyped
  <2>5. Forward' BY <2>1, <1>a DEF Forward
  <2> QED BY <2>2, <2>4, <2>5 DEF ReceiptSound
<1>2. CASE PeerPush
  <2>1. PICK v \in 1..seenBy : AbsorbPeer(v) BY <1>2 DEF PeerPush
  <2>2. v \in Seen /\ v \in Nat BY <1>b DEF Seen
  <2>3. UNCHANGED <<isGroup, seenBy, sentUpTo, peerKept, bootstrap>> BY <1>2 DEF PeerPush
  <2>4. CASE v <= peer
    <3>1. UNCHANGED <<peer, queue, notices, faults>> BY <2>1, <2>4 DEF AbsorbPeer
    <3> QED BY <3>1, <2>3
        DEF ReceiptSound, ReceiptTyped, Forward, SweepWrites, Settles, NoneOfMemory
  <2>5. CASE ~(v <= peer)
    <3>1. /\ peer' = v /\ Enqueue("memory", v) /\ notices' = Append(notices, v)
          /\ faults' = faults \cup Crossing
      BY <2>1, <2>5 DEF AbsorbPeer
    <3>2. SweepWrites' /\ Settles' BY <3>1, <2>2, <2>3, <1>a, EnqueueKeeps
    <3>3. queue' \in Seq(ReceiptWrite) /\ Len(queue') <= MaxQueue
      BY <3>1, <2>2, <1>a, EnqueueOne
    <3> DEFINE n == Len(notices)
    <3>4. /\ notices' \in Seq(Seen) /\ Len(notices') = n + 1 /\ notices'[n + 1] = v
          /\ \A i \in 1..n : notices'[i] = notices[i]
      BY <3>1, <2>2, <1>b
    <3>5. ReceiptTyped' BY <3>1, <3>3, <3>4, <2>2, <2>3, <1>a, <1>c DEF ReceiptTyped
    <3>6. \A i \in 1..Len(notices') : i \in 1..n \/ i = n + 1 BY <3>4, <1>b
    <3>7. \A i \in 1..n : notices[i] \in Nat BY <1>a, NoticesAreNumbers
    <3>8. Forward'
      <4> SUFFICES ASSUME "older" \notin faults'
                   PROVE  /\ \A i, j \in 1..Len(notices') : i < j => notices'[i] < notices'[j]
                          /\ \A i \in 1..Len(notices') : notices'[i] <= v
        BY <3>1 DEF Forward
      <4>1. /\ \A i, j \in 1..n : i < j => notices[i] < notices[j]
            /\ \A i \in 1..n : notices[i] <= peer
        BY <3>1, <1>a DEF Forward
      <4>2. \A i \in 1..n : notices'[i] < v BY <4>1, <3>4, <3>7, <2>2, <2>5, <1>b
      <4>3. ASSUME NEW i \in 1..Len(notices'), NEW j \in 1..Len(notices'), i < j
            PROVE  notices'[i] < notices'[j]
        <5>1. i \in 1..n BY <4>3, <3>6, <3>4, <1>b
        <5>2. CASE j \in 1..n BY <5>1, <5>2, <4>1, <4>3, <3>4
        <5>3. CASE j = n + 1 BY <5>1, <5>3, <4>2, <3>4
        <5> QED BY <5>2, <5>3, <3>6
      <4>4. \A i \in 1..Len(notices') : notices'[i] <= v
        BY <4>2, <3>4, <3>6, <3>7, <2>2
      <4> QED BY <4>3, <4>4
    <3> QED BY <3>2, <3>5, <3>8 DEF ReceiptSound
  <2> QED BY <2>4, <2>5
<1> QED BY <1>1, <1>2

LEMMA SweepsKeep ==
    ASSUME ReceiptSound,
           OtherReads \/ BootstrapStarts \/ BootstrapJoins \/ BootstrapFails \/ BootstrapPublishes
    PROVE  ReceiptSound'
<1>a. ReceiptTyped /\ Forward /\ SweepWrites /\ Settles BY DEF ReceiptSound
<1>b. /\ seenBy \in Nat /\ seenBy \in Seen /\ MaxSeen \in Nat /\ peer \in Nat /\ peer \in Seen
      /\ notices \in Seq(Seen)
      /\ bootstrap \in [at : {"idle", "asked", "joined", "put", "stored"}, peer : Seen]
  BY <1>a, ReceiptNumbers DEF ReceiptTyped
<1>1. CASE OtherReads
  <2>1. seenBy' \in Seen /\ UNCHANGED <<isGroup, sentUpTo, peer, peerKept, queue, bootstrap,
                                        notices, faults>>
    BY <1>1, <1>b DEF OtherReads, Seen
  <2> QED BY <2>1 DEF ReceiptSound, ReceiptTyped, Forward, SweepWrites, Settles, NoneOfMemory
<1>2. ASSUME bootstrap.at \in {"idle", "asked"}, bootstrap'.at \in {"idle", "asked", "joined"},
             bootstrap' \in [at : {"idle", "asked", "joined", "put", "stored"}, peer : Seen],
             sentUpTo' \in Seen,
             UNCHANGED <<isGroup, seenBy, peer, peerKept, queue, notices, faults>>
      PROVE  ReceiptSound'
  <2>1. \A i \in 1..Len(queue) : queue[i].by # "sweep" BY <1>2, <1>a DEF SweepWrites
  <2>2. SweepWrites' BY <2>1, <1>2 DEF SweepWrites
  <2>3. Settles' BY <1>2, <1>a DEF Settles, NoneOfMemory
  <2> QED BY <2>2, <2>3, <1>2, <1>a DEF ReceiptSound, ReceiptTyped, Forward
<1>c. sentUpTo \in Seen BY <1>a DEF ReceiptTyped
<1>3. CASE BootstrapStarts
  <2>1. bootstrap' = [NoSweep EXCEPT !.at = "asked"] BY <1>3 DEF BootstrapStarts
  <2>2. bootstrap'.at = "asked"
        /\ bootstrap' \in [at : {"idle", "asked", "joined", "put", "stored"}, peer : Seen]
    BY <2>1, ReceiptNumbers DEF NoSweep
  <2> QED BY <2>2, <1>2, <1>3, <1>c DEF BootstrapStarts
<1>4. CASE BootstrapJoins
  <2>1. PICK since \in {0, sentUpTo} : bootstrap' = [at |-> "joined", peer |-> Joined(since)]
    BY <1>4 DEF BootstrapJoins
  <2>2. Joined(since) \in Seen BY <1>b, ReceiptNumbers DEF Joined
  <2>3. bootstrap'.at = "joined"
        /\ bootstrap' \in [at : {"idle", "asked", "joined", "put", "stored"}, peer : Seen]
    BY <2>1, <2>2
  <2> QED BY <2>3, <1>2, <1>4, <1>b DEF BootstrapJoins
<1>5. CASE BootstrapFails
  <2>1. NoSweep.at = "idle"
        /\ NoSweep \in [at : {"idle", "asked", "joined", "put", "stored"}, peer : Seen]
    BY ReceiptNumbers DEF NoSweep
  <2> QED BY <2>1, <1>2, <1>5, <1>c DEF BootstrapFails
<1>6. CASE BootstrapPublishes
  <2>1. /\ bootstrap.at = "stored" /\ peer' = bootstrap.peer
        /\ faults' = faults \cup IF bootstrap.peer < peer THEN {"older"} ELSE {}
        /\ bootstrap' = NoSweep
        /\ UNCHANGED <<isGroup, seenBy, sentUpTo, peerKept, queue, notices>>
    BY <1>6 DEF BootstrapPublishes
  <2>2. peer' \in Seen /\ peer' \in Nat BY <2>1, <1>b, ReceiptNumbers
  <2>3. NoSweep.at = "idle"
        /\ NoSweep \in [at : {"idle", "asked", "joined", "put", "stored"}, peer : Seen]
    BY ReceiptNumbers DEF NoSweep
  <2>4. \A i \in 1..Len(notices) : notices[i] \in Nat BY <1>a, NoticesAreNumbers
  <2>5. ASSUME "older" \notin faults'
        PROVE  /\ \A i, j \in 1..Len(notices) : i < j => notices[i] < notices[j]
               /\ \A i \in 1..Len(notices) : notices[i] <= peer'
    <3>1. "older" \notin faults /\ ~(bootstrap.peer < peer) BY <2>1, <2>5
    <3>2. peer <= peer' BY <3>1, <2>1, <2>2, <1>b
    <3>3. /\ \A i, j \in 1..Len(notices) : i < j => notices[i] < notices[j]
          /\ \A i \in 1..Len(notices) : notices[i] <= peer
      BY <3>1, <1>a DEF Forward
    <3> QED BY <3>2, <3>3, <2>2, <2>4, <1>b
  <2>6. Forward' BY <2>1, <2>5 DEF Forward
  <2>7. \A i \in 1..Len(queue) : queue[i].by # "sweep" BY <2>1, <1>a DEF SweepWrites
  <2>8. SweepWrites' BY <2>1, <2>7 DEF SweepWrites
  <2>9. Settles' BY <2>1, <2>3, <1>a DEF Settles, NoneOfMemory
  <2>10. ReceiptTyped' BY <2>1, <2>2, <2>3, <1>a DEF ReceiptTyped
  <2> QED BY <2>6, <2>8, <2>9, <2>10 DEF ReceiptSound
<1> QED BY <1>1, <1>3, <1>4, <1>5, <1>6

LEMMA StoresKeeps == ASSUME ReceiptSound, BootstrapStores PROVE ReceiptSound'
<1>a. ReceiptTyped /\ Forward /\ SweepWrites /\ Settles BY DEF ReceiptSound
<1> DEFINE n == Len(queue)
           v == bootstrap.peer
<1>1. /\ bootstrap.at = "joined" /\ Enqueue("sweep", v) /\ bootstrap' = [bootstrap EXCEPT !.at = "put"]
      /\ UNCHANGED <<isGroup, seenBy, sentUpTo, peer, peerKept, notices, faults>>
  BY DEF BootstrapStores
<1>2. /\ v \in Seen /\ bootstrap'.at = "put" /\ bootstrap'.peer = v
      /\ bootstrap' \in [at : {"idle", "asked", "joined", "put", "stored"}, peer : Seen]
  BY <1>1, <1>a DEF ReceiptTyped
<1>3. /\ n \in Nat /\ Len(queue') = n + 1 /\ queue' \in Seq(ReceiptWrite) /\ Len(queue') <= MaxQueue
      /\ \A i \in 1..n : i \in 1..Len(queue') /\ queue'[i] = queue[i]
      /\ queue'[n + 1].by = "sweep" /\ queue'[n + 1].peer = v
      /\ \A i \in 1..Len(queue') : i \in 1..n \/ i = n + 1
  BY <1>1, <1>2, <1>a, EnqueueOne
<1> HIDE DEF n, v
<1>4. \A i \in 1..n : queue[i].by # "sweep" BY <1>1, <1>a DEF SweepWrites, n
<1>5. \A i \in 1..Len(queue') : queue'[i].by = "sweep" => i = n + 1 BY <1>3, <1>4
<1>6. SweepWrites' BY <1>2, <1>3, <1>5 DEF SweepWrites
<1>7. \A i \in 1..Len(queue') : queue'[i].by = "memory" => i \in 1..n /\ queue'[i] = queue[i]
  BY <1>3
<1>8. NoneOfMemory' <=> NoneOfMemory BY <1>3, <1>7 DEF NoneOfMemory, n
<1>9. Settles'
  <2> SUFFICES ASSUME faults \cap {"lost", "overtaken"} = {}
               PROVE  /\ \A i, j \in 1..Len(queue') :
                            queue'[i].by = "memory" /\ queue'[j].by = "sweep" => i < j
                      /\ \A i \in 1..Len(queue') :
                            queue'[i].by = "memory"
                              /\ (\A j \in 1..Len(queue') : j > i => queue'[j].by # "memory")
                            => queue'[i].peer = peer
                      /\ NoneOfMemory => peerKept = peer
    BY <1>1, <1>2, <1>8 DEF Settles
  <2>1. \A i, j \in 1..Len(queue') : queue'[i].by = "memory" /\ queue'[j].by = "sweep" => i < j
    BY <1>3, <1>5, <1>7
  <2>2. ASSUME NEW i \in 1..Len(queue'), queue'[i].by = "memory",
               \A j \in 1..Len(queue') : j > i => queue'[j].by # "memory"
        PROVE  queue'[i].peer = peer
    <3>1. i \in 1..n /\ queue'[i] = queue[i] BY <2>2, <1>7
    <3>2. \A j \in 1..n : j > i => queue[j].by # "memory" BY <2>2, <1>3
    <3> QED BY <3>1, <3>2, <2>2, <1>a DEF Settles, n
  <2> QED BY <2>1, <2>2, <1>1, <1>a DEF Settles
<1>10. ReceiptTyped' BY <1>1, <1>2, <1>3, <1>a DEF ReceiptTyped
<1>11. Forward' BY <1>1, <1>a DEF Forward
<1> QED BY <1>6, <1>9, <1>10, <1>11 DEF ReceiptSound

\* The first write runs or fails, or the page goes with all of them.
LEMMA QueueKeeps == ASSUME ReceiptSound, WriteRuns \/ WriteFails \/ PageReloads PROVE ReceiptSound'
<1>a. ReceiptTyped /\ Forward /\ SweepWrites /\ Settles BY DEF ReceiptSound
<1>b. NoSweep.at = "idle" /\ NoSweep.peer = 0
      /\ NoSweep \in [at : {"idle", "asked", "joined", "put", "stored"}, peer : Seen]
  BY ReceiptNumbers DEF NoSweep
<1>1. CASE PageReloads
  <2>1. /\ peer' = peerKept /\ queue' = <<>> /\ bootstrap' = NoSweep /\ notices' = <<>>
        /\ faults' = {} /\ UNCHANGED <<isGroup, seenBy, sentUpTo, peerKept>>
    BY <1>1 DEF PageReloads
  <2>2. queue' \in Seq(ReceiptWrite) /\ Len(queue') = 0 /\ notices' \in Seq(Seen)
        /\ Len(notices') = 0 /\ 1..0 = {}
    BY <2>1
  <2>3. ReceiptTyped' BY <2>1, <2>2, <1>a, <1>b, ReceiptNumbers DEF ReceiptTyped
  <2>4. Forward' /\ SweepWrites' /\ Settles'
    BY <2>1, <2>2, <1>b DEF Forward, SweepWrites, Settles
  <2> QED BY <2>3, <2>4 DEF ReceiptSound
<1>2. CASE WriteRuns \/ WriteFails
  <2> DEFINE w == Head(queue)
             n == Len(queue')
  <2>1. queue # <<>> /\ queue' = Tail(queue) BY <1>2 DEF WriteRuns, WriteFails
  <2>2. queue \in Seq(ReceiptWrite) /\ Len(queue) <= MaxQueue /\ MaxQueue \in Nat
    BY <1>a, ReceiptNumbers DEF ReceiptTyped
  <2>3. /\ queue' \in Seq(ReceiptWrite) /\ n \in Nat /\ n = Len(queue) - 1 /\ n <= MaxQueue
        /\ \A i \in 1..n : i + 1 \in 1..Len(queue) /\ queue'[i] = queue[i + 1]
        /\ w = queue[1] /\ 1 \in 1..Len(queue) /\ w \in ReceiptWrite
        /\ \A i \in 1..Len(queue) : i = 1 \/ (i - 1 \in 1..n /\ queue'[i - 1] = queue[i])
    BY <2>1, <2>2
  <2>4. w.by \in {"memory", "sweep"} /\ w.peer \in Seen BY <2>3 DEF ReceiptWrite
  <2> HIDE DEF w, n
  <2>5. w.by = "sweep" => /\ bootstrap.at = "put" /\ w.peer = bootstrap.peer
                          /\ \A i \in 1..n : queue'[i].by # "sweep"
    <3> SUFFICES ASSUME w.by = "sweep"
                 PROVE  /\ bootstrap.at = "put" /\ w.peer = bootstrap.peer
                        /\ \A i \in 1..n : queue'[i].by # "sweep"
      OBVIOUS
    <3>1. bootstrap.at = "put" /\ w.peer = bootstrap.peer BY <2>3, <1>a DEF SweepWrites
    <3>2. ASSUME NEW i \in 1..n, queue'[i].by = "sweep" PROVE FALSE
      <4>1. i + 1 = 1 BY <3>2, <2>3, <1>a DEF SweepWrites
      <4> QED BY <4>1, <2>3
    <3> QED BY <3>1, <3>2
  <2>6. /\ w.by = "sweep" => bootstrap' = NoSweep \/ (bootstrap' = [bootstrap EXCEPT !.at = "stored"]
                                                       /\ peerKept' = w.peer)
        /\ w.by = "sweep" => faults' = faults /\ (bootstrap' = NoSweep => peerKept' = peerKept)
        /\ w.by = "memory" => bootstrap' = bootstrap
        /\ w.by = "memory" => (faults' = faults /\ peerKept' = w.peer) \/ "lost" \in faults'
        /\ faults \subseteq faults' /\ faults' \subseteq faults \cup {"lost"}
        /\ peerKept' \in {peerKept, w.peer}
        /\ UNCHANGED <<isGroup, seenBy, sentUpTo, peer, notices>>
    BY <1>2, <2>4, <2>5, <1>b DEF WriteRuns, WriteFails, w
  <2>7. bootstrap \in [at : {"idle", "asked", "joined", "put", "stored"}, peer : Seen]
    BY <1>a DEF ReceiptTyped
  <2>8. /\ bootstrap' \in [at : {"idle", "asked", "joined", "put", "stored"}, peer : Seen]
        /\ w.by = "sweep" => \/ bootstrap'.at = "idle" /\ peerKept' = peerKept
                             \/ bootstrap'.at = "stored" /\ bootstrap'.peer = w.peer
                                  /\ peerKept' = w.peer
    <3>1. CASE w.by = "memory" BY <3>1, <2>6, <2>7
    <3>2. CASE w.by = "sweep"
      <4>1. CASE bootstrap' = NoSweep BY <4>1, <3>2, <2>6, <1>b
      <4>2. CASE bootstrap' = [bootstrap EXCEPT !.at = "stored"] /\ peerKept' = w.peer
        BY <4>2, <3>2, <2>5, <2>7
      <4> QED BY <4>1, <4>2, <3>2, <2>6
    <3> QED BY <3>1, <3>2, <2>4
  <2>9. ReceiptTyped' BY <2>3, <2>4, <2>6, <2>8, <1>a DEF ReceiptTyped, n
  <2>10. Forward' BY <2>6, <1>a DEF Forward
  <2>11. SweepWrites'
    <3> SUFFICES ASSUME NEW i \in 1..n, queue'[i].by = "sweep"
                 PROVE  /\ bootstrap'.at = "put" /\ queue'[i].peer = bootstrap'.peer
                        /\ \A j \in 1..n : queue'[j].by = "sweep" => j = i
      BY DEF SweepWrites, n
    <3>1. bootstrap' = bootstrap BY <2>4, <2>5, <2>6
    <3>2. bootstrap.at = "put" /\ queue[i + 1].peer = bootstrap.peer
      BY <2>3, <1>a DEF SweepWrites
    <3>3. ASSUME NEW j \in 1..n, queue'[j].by = "sweep" PROVE j = i
      <4>1. j + 1 = i + 1 BY <3>3, <2>3, <1>a DEF SweepWrites
      <4> QED BY <4>1, <2>3
    <3> QED BY <3>1, <3>2, <3>3, <2>3
  <2>12. Settles'
    <3> SUFFICES ASSUME faults' \cap {"lost", "overtaken"} = {}
                 PROVE  /\ \A i, j \in 1..n : queue'[i].by = "memory" /\ queue'[j].by = "sweep" => i < j
                        /\ \A i \in 1..n :
                              queue'[i].by = "memory" /\ (\A j \in 1..n : j > i => queue'[j].by # "memory")
                                  => queue'[i].peer = peer
                        /\ bootstrap'.at = "stored" => NoneOfMemory' /\ peerKept' = bootstrap'.peer
                        /\ bootstrap'.at # "stored" /\ NoneOfMemory' => peerKept' = peer
      BY <2>6 DEF Settles, n
    <3>0. faults \cap {"lost", "overtaken"} = {} BY <2>6
    <3>1. \A i, j \in 1..Len(queue) : queue[i].by = "memory" /\ queue[j].by = "sweep" => i < j
      BY <3>0, <1>a DEF Settles
    <3>2. \A i \in 1..Len(queue) :
              queue[i].by = "memory" /\ (\A j \in 1..Len(queue) : j > i => queue[j].by # "memory")
                  => queue[i].peer = peer
      BY <3>0, <1>a DEF Settles
    <3>3. ASSUME NEW i \in 1..n, NEW j \in 1..n, queue'[i].by = "memory", queue'[j].by = "sweep"
          PROVE  i < j
      <4>1. i + 1 < j + 1 BY <3>1, <3>3, <2>3
      <4> QED BY <4>1
    <3>4. ASSUME NEW i \in 1..n, queue'[i].by = "memory",
                 \A j \in 1..n : j > i => queue'[j].by # "memory"
          PROVE  queue'[i].peer = peer
      <4>1. ASSUME NEW j \in 1..Len(queue), j > i + 1 PROVE queue[j].by # "memory"
        <5>1. j - 1 \in 1..n /\ queue'[j - 1] = queue[j] /\ j - 1 > i BY <4>1, <2>3
        <5> QED BY <5>1, <3>4
      <4>2. i + 1 \in 1..Len(queue) /\ queue[i + 1] = queue'[i] BY <2>3
      <4> QED BY <4>1, <4>2, <3>2, <3>4
    <3>5. CASE w.by = "sweep"
      <4>1. NoneOfMemory'
        <5> SUFFICES ASSUME NEW i \in 1..n, queue'[i].by = "memory" PROVE FALSE
          BY DEF NoneOfMemory, n
        <5>1. i + 1 < 1 BY <3>1, <3>5, <2>3
        <5> QED BY <5>1, <2>3
      <4>2. NoneOfMemory
        <5> SUFFICES ASSUME NEW i \in 1..Len(queue), queue[i].by = "memory" PROVE FALSE
          BY DEF NoneOfMemory
        <5>1. i < 1 BY <3>1, <3>5, <2>3
        <5> QED BY <5>1
      <4>3. peerKept = peer BY <4>2, <3>0, <3>5, <2>5, <1>a DEF Settles
      <4> QED BY <4>1, <4>3, <3>3, <3>4, <3>5, <2>8
    <3>6. CASE w.by = "memory"
      <4>1. bootstrap' = bootstrap /\ peerKept' = w.peer /\ ~NoneOfMemory
        BY <3>6, <2>3, <2>6 DEF NoneOfMemory
      <4>2. bootstrap.at # "stored" BY <4>1, <3>0, <1>a DEF Settles
      <4>3. ASSUME NoneOfMemory' PROVE w.peer = peer
        <5>1. ASSUME NEW j \in 1..Len(queue), j > 1 PROVE queue[j].by # "memory"
          <6>1. j - 1 \in 1..n /\ queue'[j - 1] = queue[j] BY <5>1, <2>3
          <6> QED BY <6>1, <4>3 DEF NoneOfMemory, n
        <5> QED BY <5>1, <3>2, <3>6, <2>3
      <4> QED BY <4>1, <4>2, <4>3, <3>3, <3>4
    <3> QED BY <3>5, <3>6, <2>4
  <2> QED BY <2>9, <2>10, <2>11, <2>12 DEF ReceiptSound
<1> QED BY <1>1, <1>2

LEMMA ReceiptKeepsSound ==
    ASSUME ReceiptSound, ReceiptNext \/ UNCHANGED receiptVars
    PROVE  ReceiptSound'
<1>1. CASE UNCHANGED receiptVars
  <2>1. UNCHANGED <<isGroup, seenBy, sentUpTo, peer, peerKept, queue, bootstrap, notices, faults>>
    BY <1>1 DEF receiptVars
  <2> QED BY <2>1 DEF ReceiptSound, ReceiptTyped, Forward, SweepWrites, Settles, NoneOfMemory
<1> QED BY <1>1, PushesKeep, SweepsKeep, StoresKeeps, QueueKeeps DEF ReceiptNext

LEMMA SoundReceipt == ReceiptSound => ReceiptsAdvance
<1> SUFFICES ASSUME ReceiptSound PROVE ReceiptsAdvance
  OBVIOUS
<1>a. ReceiptTyped /\ Forward /\ Settles BY DEF ReceiptSound
<1>1. notices # <<>> => Len(notices) \in 1..Len(notices)
  BY <1>a DEF ReceiptTyped
<1>2. \A i \in 1..Len(notices) : notices[i] \in Nat BY <1>a, NoticesAreNumbers
<1>3. ASSUME queue = <<>>, bootstrap = NoSweep, faults \cap {"lost", "overtaken"} = {}
      PROVE  peerKept = peer
  BY <1>3, <1>a DEF Settles, NoneOfMemory, NoSweep
<1>4. peer \in Nat BY <1>a, ReceiptNumbers DEF ReceiptTyped
<1> QED BY <1>1, <1>2, <1>3, <1>4, <1>a DEF ReceiptsAdvance, Forward

-----------------------------------------------------------------------------
(* The rooms a client is in, and what it hears of them (RoomFeed).         *)

Answer == [ask : Ask, ok : BOOLEAN]
Frame  == [room : Rooms, id : Nat]

RoomTyped ==
    /\ active \subseteq Rooms /\ granted \subseteq Rooms /\ wish \subseteq Rooms
    /\ asks \in Seq(Ask) /\ answers \in Seq(Answer) /\ frames \in Seq(Frame)
    /\ replaying \in [on : BOOLEAN, left : SUBSET Rooms]
    /\ links \in [n : Nat, up : BOOLEAN, calls : Nat]
    /\ posts \in [Rooms -> Nat]
    /\ window \in [Rooms -> Seq(Nat)] /\ heard \in [Rooms -> Seq(Nat)]

\* Unless a replay crossed a call, a replay confirms what the caller has: it
\* asks for a room of the map, before any call for that room.
Mirrors ==
    "crossed" \notin upsets =>
        /\ active = wish
        /\ \A i \in 1..Len(asks) : asks[i].by = "replay" =>
              /\ asks[i].join /\ asks[i].room \in active
              /\ \A j \in 1..Len(asks) : asks[j].room = asks[i].room => j >= i
              /\ \A j \in 1..Len(answers) : answers[j].ask.room # asks[i].room
        /\ \A i \in 1..Len(answers) : answers[i].ask.by = "replay" =>
              /\ answers[i].ask.join /\ answers[i].ask.room \in active
              /\ \A j \in 1..Len(answers) :
                    answers[j].ask.room = answers[i].ask.room => j >= i

Grants(i, r) == answers[i].ok /\ answers[i].ask.room = r

\* The server is ahead of the map by the granted answers on their way; a room
\* it does not serve yet is one the replay will ask for or has asked for.
Settled(r) ==
    /\ \A i \in 1..Len(answers) :
          Grants(i, r) /\ (\A j \in 1..Len(answers) : j > i => ~Grants(j, r))
              => (r \in granted <=> answers[i].ask.join)
    /\ (\A i \in 1..Len(answers) : ~Grants(i, r)) =>
          /\ r \in granted => r \in active
          /\ r \in active => \/ r \in granted
                             \/ replaying.on /\ r \in replaying.left
                             \/ \E i \in 1..Len(asks) :
                                   asks[i].room = r /\ asks[i].by = "replay"

Follows == upsets = {} /\ links.up => \A r \in Rooms : Settled(r)

DownIsDown == ~links.up => granted = {} /\ asks = <<>> /\ answers = <<>> /\ ~replaying.on

\* The window of a room is the end of what was heard in it, and all of it until
\* the window is full.
Lately ==
    \A r \in Rooms :
        /\ Len(window[r]) <= Len(heard[r]) /\ Len(window[r]) <= RoomWindow
        /\ Len(window[r]) < RoomWindow => Len(window[r]) = Len(heard[r])
        /\ \A k \in 1..Len(window[r]) :
              window[r][k] = heard[r][Len(heard[r]) - Len(window[r]) + k]

\* Every post of a room the server serves was heard or is on its way.
Arrives ==
    \A r \in granted : \A p \in 1..posts[r] :
        \/ \E k \in 1..Len(heard[r]) : heard[r][k] = p
        \/ \E k \in 1..Len(frames) : frames[k] = [room |-> r, id |-> p]

Sparse ==
    \A r \in Rooms : \A i, j \in 1..Len(heard[r]) :
        i < j /\ heard[r][i] = heard[r][j] => j - i > RoomWindow

RoomSound ==
    RoomTyped /\ Mirrors /\ Follows /\ DownIsDown /\ Lately /\ Arrives /\ Sparse

LEMMA RoomNumbers == RoomWindow \in Nat /\ RoomWindow # 0
BY RoomAssumption

LEMMA TailIs ==
    ASSUME NEW S, NEW s \in Seq(S), s # <<>>
    PROVE  /\ Len(s) \in Nat /\ Len(Tail(s)) = Len(s) - 1 /\ Tail(s) \in Seq(S)
           /\ Head(s) = s[1] /\ s[1] \in S /\ 1 \in 1..Len(s)
           /\ \A i \in 1..Len(Tail(s)) : Tail(s)[i] = s[i + 1] /\ i + 1 \in 1..Len(s)
           /\ \A i \in 1..Len(s) : i = 1 \/ (i - 1 \in 1..Len(Tail(s)) /\ Tail(s)[i - 1] = s[i])
OBVIOUS

LEMMA AppendIs ==
    ASSUME NEW S, NEW s \in Seq(S), NEW x \in S
    PROVE  /\ Len(s) \in Nat /\ Len(Append(s, x)) = Len(s) + 1 /\ Append(s, x) \in Seq(S)
           /\ Append(s, x)[Len(s) + 1] = x
           /\ \A i \in 1..Len(s) : Append(s, x)[i] = s[i] /\ i \in 1..Len(Append(s, x))
           /\ \A i \in 1..Len(Append(s, x)) : i \in 1..Len(s) \/ i = Len(s) + 1
OBVIOUS

LEMMA RoomStarts == RoomInit => RoomSound
<1> SUFFICES ASSUME RoomInit PROVE RoomSound
  OBVIOUS
<1>1. RoomTyped BY DEF RoomInit, RoomTyped, NoReplay
<1>2. Mirrors /\ Follows /\ DownIsDown
  BY DEF RoomInit, Mirrors, Follows, Settled, DownIsDown
<1>3. Lately /\ Sparse BY RoomNumbers DEF RoomInit, Lately, Sparse
<1>4. Arrives BY DEF RoomInit, Arrives
<1> QED BY <1>1, <1>2, <1>3, <1>4 DEF RoomSound

(* The broadcasts. *)

LEMMA PostKeeps ==
    ASSUME RoomSound, NEW r \in Rooms, RoomPost(r)
    PROVE  RoomSound'
<1>a. RoomTyped /\ Mirrors /\ Follows /\ DownIsDown /\ Lately /\ Arrives /\ Sparse
  BY DEF RoomSound
<1>1. /\ posts' = [posts EXCEPT ![r] = @ + 1]
      /\ frames' = IF r \in granted THEN Append(frames, [room |-> r, id |-> posts[r] + 1])
                   ELSE frames
      /\ UNCHANGED <<active, granted, wish, asks, answers, replaying, links, window, heard,
                     upsets>>
  BY DEF RoomPost
<1> DEFINE f == [room |-> r, id |-> posts[r] + 1]
<1>2. posts[r] \in Nat /\ f \in Frame /\ posts' \in [Rooms -> Nat]
  BY <1>a, <1>1 DEF RoomTyped, Frame
<1>3. frames \in Seq(Frame) BY <1>a DEF RoomTyped
<1> HIDE DEF f
<1>4. /\ frames' \in Seq(Frame)
      /\ \A k \in 1..Len(frames) : k \in 1..Len(frames') /\ frames'[k] = frames[k]
      /\ r \in granted => Len(frames) + 1 \in 1..Len(frames') /\ frames'[Len(frames) + 1] = f
  <2>1. CASE r \in granted
    <3>1. frames' = Append(frames, f) BY <2>1, <1>1 DEF f
    <3> QED BY <3>1, <1>2, <1>3, AppendIs
  <2>2. CASE r \notin granted BY <2>2, <1>1, <1>3
  <2> QED BY <2>1, <2>2
<1>5. RoomTyped' BY <1>a, <1>1, <1>2, <1>4 DEF RoomTyped
<1>6. Mirrors' /\ Follows' /\ DownIsDown' /\ Lately' /\ Sparse'
  <2>1. Mirrors' BY <1>a, <1>1 DEF Mirrors
  <2>2. Follows' BY <1>a, <1>1 DEF Follows, Settled, Grants
  <2>3. DownIsDown' /\ Lately' /\ Sparse' BY <1>a, <1>1 DEF DownIsDown, Lately, Sparse
  <2> QED BY <2>1, <2>2, <2>3
<1>7. Arrives'
  <2> SUFFICES ASSUME NEW q \in granted, NEW p \in 1..posts'[q]
               PROVE  \/ \E k \in 1..Len(heard[q]) : heard[q][k] = p
                      \/ \E k \in 1..Len(frames') : frames'[k] = [room |-> q, id |-> p]
    BY <1>1 DEF Arrives
  <2>1. q \in Rooms BY <1>a DEF RoomTyped
  <2>2. CASE p \in 1..posts[q]
    BY <2>2, <1>a, <1>4 DEF Arrives
  <2>3. CASE p \notin 1..posts[q]
    <3>1. q = r /\ p = posts[r] + 1 BY <2>3, <2>1, <1>1, <1>2, <1>a DEF RoomTyped
    <3> QED BY <3>1, <1>4 DEF f
  <2> QED BY <2>2, <2>3
<1> QED BY <1>5, <1>6, <1>7 DEF RoomSound

LEMMA FrameKeeps ==
    ASSUME RoomSound, FrameArrives
    PROVE  RoomSound'
<1>a. RoomTyped /\ Mirrors /\ Follows /\ DownIsDown /\ Lately /\ Arrives /\ Sparse
  BY DEF RoomSound
<1>0. RoomWindow \in Nat /\ RoomWindow # 0 BY RoomNumbers
<1> DEFINE f == Head(frames)
           r == f.room
<1>1. /\ frames # <<>> /\ frames' = Tail(frames)
      /\ IF IsDuplicate(r, f.id) THEN UNCHANGED <<window, heard>>
         ELSE /\ window' = [window EXCEPT ![r] = Windowed(@, f.id)]
              /\ heard' = [heard EXCEPT ![r] = Append(@, f.id)]
      /\ UNCHANGED <<active, granted, wish, asks, answers, replaying, links, posts, upsets>>
  BY DEF FrameArrives
<1>2. frames \in Seq(Frame) BY <1>a DEF RoomTyped
<1>3. /\ f = frames[1] /\ f \in Frame /\ frames' \in Seq(Frame)
      /\ \A k \in 1..Len(frames) :
            k = 1 \/ (k - 1 \in 1..Len(frames') /\ frames'[k - 1] = frames[k])
  BY <1>1, <1>2, TailIs
<1>4. r \in Rooms /\ f.id \in Nat /\ f = [room |-> r, id |-> f.id]
  BY <1>3 DEF Frame
<1>5. window[r] \in Seq(Nat) /\ heard[r] \in Seq(Nat) BY <1>4, <1>a DEF RoomTyped
<1> DEFINE n == Len(heard[r])
           m == Len(window[r])
<1> HIDE DEF f, r
<1>6. /\ n \in Nat /\ m \in Nat /\ m <= n /\ m <= RoomWindow /\ (m < RoomWindow => m = n)
      /\ \A k \in 1..m : window[r][k] = heard[r][n - m + k]
  BY <1>4, <1>5, <1>a DEF Lately
<1> HIDE DEF n, m
<1>7. Mirrors' /\ Follows' /\ DownIsDown'
  <2>1. Mirrors' BY <1>a, <1>1 DEF Mirrors
  <2>2. Follows' BY <1>a, <1>1 DEF Follows, Settled, Grants
  <2>3. DownIsDown' BY <1>a, <1>1 DEF DownIsDown
  <2> QED BY <2>1, <2>2, <2>3
<1>8. CASE IsDuplicate(r, f.id)
  <2>1. UNCHANGED <<window, heard>> BY <1>8, <1>1
  <2>2. RoomTyped' BY <2>1, <1>1, <1>3, <1>a DEF RoomTyped
  <2>3. Lately' /\ Sparse' BY <2>1, <1>a DEF Lately, Sparse
  <2>4. \E k \in 1..Len(heard[r]) : heard[r][k] = f.id
    <3>1. PICK k \in 1..m : window[r][k] = f.id
      <4>1. PICK k \in DOMAIN window[r] : window[r][k] = f.id
        BY <1>8 DEF IsDuplicate, Range
      <4> QED BY <4>1, <1>5 DEF m
    <3>2. n - m + k \in 1..n BY <1>6
    <3>3. heard[r][n - m + k] = f.id BY <3>1, <1>6
    <3> QED BY <3>2, <3>3 DEF n
  <2>5. Arrives'
    <3> SUFFICES ASSUME NEW q \in granted, NEW p \in 1..posts[q],
                        ~\E k \in 1..Len(heard[q]) : heard[q][k] = p
                 PROVE  \E k \in 1..Len(frames') : frames'[k] = [room |-> q, id |-> p]
      BY <2>1, <1>1 DEF Arrives
    <3>1. PICK k \in 1..Len(frames) : frames[k] = [room |-> q, id |-> p]
      BY <1>a DEF Arrives
    <3>2. k # 1 BY <3>1, <1>3, <1>4, <2>4
    <3> QED BY <3>1, <3>2, <1>3
  <2> QED BY <2>2, <2>3, <2>5, <1>7 DEF RoomSound
<1>9. CASE ~IsDuplicate(r, f.id)
  <2> DEFINE longer == Append(window[r], f.id)
  <2>1. /\ window' = [window EXCEPT ![r] = Windowed(window[r], f.id)]
        /\ heard' = [heard EXCEPT ![r] = Append(heard[r], f.id)]
    BY <1>9, <1>1
  <2>2. /\ Len(longer) = m + 1 /\ longer \in Seq(Nat) /\ longer[m + 1] = f.id
        /\ \A k \in 1..m : longer[k] = window[r][k]
    BY <1>4, <1>5, AppendIs DEF n, m
  <2> DEFINE nw == Windowed(window[r], f.id)
             nh == Append(heard[r], f.id)
  <2>3. nw = IF m + 1 > RoomWindow THEN Tail(longer) ELSE longer
    BY <2>2 DEF Windowed
  <2>4. /\ nh \in Seq(Nat) /\ Len(nh) = n + 1 /\ nh[n + 1] = f.id
        /\ \A k \in 1..n : nh[k] = heard[r][k]
    BY <1>4, <1>5, AppendIs DEF n, m
  <2> HIDE DEF longer, nh, nw
  <2>5. /\ nw \in Seq(Nat) /\ Len(nw) <= n + 1 /\ Len(nw) <= RoomWindow
        /\ Len(nw) < RoomWindow => Len(nw) = n + 1
        /\ \A k \in 1..Len(nw) : nw[k] = nh[n + 1 - Len(nw) + k]
    <3>1. CASE m + 1 > RoomWindow
      <4>0. m = RoomWindow BY <3>1, <1>6, <1>0
      <4>1. longer # <<>> BY <2>2, <1>6
      <4>2. Len(Tail(longer)) = m /\ Tail(longer) \in Seq(Nat)
        BY <4>1, <2>2, <1>6, TailIs
      <4>3. \A k \in 1..m : Tail(longer)[k] = longer[k + 1]
        BY <4>1, <4>2, <2>2, TailIs
      <4>4. ASSUME NEW k \in 1..m PROVE longer[k + 1] = nh[n + 1 - m + k]
        <5>1. CASE k = m
          <6>1. n + 1 - m + k = n + 1 BY <5>1, <1>6
          <6> QED BY <5>1, <6>1, <2>2, <2>4
        <5>2. CASE k # m
          <6>1. k + 1 \in 1..m /\ n - m + (k + 1) \in 1..n /\ n - m + (k + 1) = n + 1 - m + k
            BY <5>2, <1>6
          <6>2. longer[k + 1] = heard[r][n - m + (k + 1)] BY <6>1, <2>2, <1>6
          <6> QED BY <6>1, <6>2, <2>4
        <5> QED BY <5>1, <5>2
      <4>5. nw = Tail(longer) /\ Len(nw) = m /\ nw \in Seq(Nat) BY <3>1, <2>3, <4>2
      <4>6. \A k \in 1..Len(nw) : nw[k] = nh[n + 1 - Len(nw) + k] BY <4>3, <4>4, <4>5
      <4>7. Len(nw) <= n + 1 /\ Len(nw) <= RoomWindow /\ ~(Len(nw) < RoomWindow)
        BY <4>0, <4>5, <1>6
      <4> QED BY <4>5, <4>6, <4>7
    <3>2. CASE ~(m + 1 > RoomWindow)
      <4>1. nw = longer /\ m = n BY <3>2, <2>3, <1>6, <1>0
      <4>2. ASSUME NEW k \in 1..(m + 1) PROVE longer[k] = nh[n + 1 - (m + 1) + k]
        <5>1. n + 1 - (m + 1) + k = k BY <4>1, <1>6
        <5>2. CASE k = m + 1 BY <5>1, <5>2, <4>1, <2>2, <2>4
        <5>3. CASE k # m + 1
          <6>1. k \in 1..m /\ k \in 1..n /\ n - m + k = k BY <5>3, <4>1, <1>6
          <6>2. longer[k] = heard[r][k] BY <6>1, <2>2, <1>6
          <6> QED BY <5>1, <6>1, <6>2, <2>4
        <5> QED BY <5>2, <5>3
      <4> QED BY <4>1, <4>2, <3>2, <2>2, <1>6, <1>0
    <3> QED BY <3>1, <3>2
  <2>6. /\ window' = [window EXCEPT ![r] = nw] /\ heard' = [heard EXCEPT ![r] = nh]
        /\ window \in [Rooms -> Seq(Nat)] /\ heard \in [Rooms -> Seq(Nat)]
    BY <2>1, <1>a DEF nw, nh, RoomTyped
  <2>7. /\ window' \in [Rooms -> Seq(Nat)] /\ heard' \in [Rooms -> Seq(Nat)]
        /\ window'[r] = nw /\ heard'[r] = nh
        /\ \A q \in Rooms : q # r => window'[q] = window[q] /\ heard'[q] = heard[q]
    BY <2>6, <2>5, <2>4, <1>4
  <2>8. RoomTyped' BY <2>7, <1>1, <1>3, <1>a DEF RoomTyped
  <2>9. Lately'
    <3> SUFFICES ASSUME NEW q \in Rooms
                 PROVE  /\ Len(window'[q]) <= Len(heard'[q]) /\ Len(window'[q]) <= RoomWindow
                        /\ Len(window'[q]) < RoomWindow => Len(window'[q]) = Len(heard'[q])
                        /\ \A k \in 1..Len(window'[q]) :
                              window'[q][k] = heard'[q][Len(heard'[q]) - Len(window'[q]) + k]
      BY DEF Lately
    <3>1. CASE q = r
      <4>1. window'[q] = nw /\ heard'[q] = nh BY <3>1, <2>7
      <4>2. /\ Len(nw) <= Len(nh) /\ Len(nw) <= RoomWindow
            /\ Len(nw) < RoomWindow => Len(nw) = Len(nh)
        BY <2>4, <2>5
      <4>3. \A k \in 1..Len(nw) : nw[k] = nh[Len(nh) - Len(nw) + k]
        <5>1. Len(nh) = n + 1 BY <2>4
        <5>2. \A k \in 1..Len(nw) : nw[k] = nh[n + 1 - Len(nw) + k] BY <2>5
        <5>3. Len(nw) \in Nat /\ n \in Nat BY <2>5, <1>6
        <5>4. ASSUME NEW k \in 1..Len(nw) PROVE n + 1 - Len(nw) + k = Len(nh) - Len(nw) + k
          BY <5>1, <5>3
        <5> QED BY <5>2, <5>4
      <4> QED BY <4>1, <4>2, <4>3
    <3>2. CASE q # r BY ZenonT(30), <3>2, <2>7, <1>a DEF Lately
    <3> QED BY <3>1, <3>2
  <2>10. Sparse'
    <3> SUFFICES ASSUME NEW q \in Rooms, NEW i \in 1..Len(heard'[q]),
                        NEW j \in 1..Len(heard'[q]), i < j, heard'[q][i] = heard'[q][j]
                 PROVE  j - i > RoomWindow
      BY DEF Sparse
    <3>1. CASE q # r BY <3>1, <2>7, <1>a DEF Sparse
    <3>2. CASE q = r /\ j # n + 1
      <4>1. i \in 1..n /\ j \in 1..n BY <3>2, <2>7, <2>4, <1>6
      <4>2. heard[r][i] = heard[r][j] BY <4>1, <3>2, <2>7, <2>4
      <4> QED BY <4>1, <4>2, <1>4, <1>a DEF Sparse, n
    <3>3. CASE q = r /\ j = n + 1
      <4>1. i \in 1..n BY <3>3, <2>7, <2>4, <1>6
      <4>2. heard[r][i] = f.id BY <4>1, <3>3, <2>7, <2>4
      <4>3. \A k \in 1..m : window[r][k] # f.id
        BY <1>9, <1>5 DEF IsDuplicate, Range, m
      <4>4. i <= n - m
        <5> SUFFICES ASSUME ~(i <= n - m) PROVE FALSE
          OBVIOUS
        <5>1. i - (n - m) \in 1..m /\ n - m + (i - (n - m)) = i BY <4>1, <1>6
        <5>2. window[r][i - (n - m)] = heard[r][i] BY <5>1, <1>6
        <5> QED BY <5>1, <5>2, <4>2, <4>3
      <4>5. m = RoomWindow BY <4>1, <4>4, <1>6, <1>0
      <4> QED BY <4>1, <4>4, <4>5, <3>3, <1>6
    <3> QED BY <3>1, <3>2, <3>3
  <2>11. Arrives'
    <3> SUFFICES ASSUME NEW q \in granted, NEW p \in 1..posts[q],
                        ~\E k \in 1..Len(heard'[q]) : heard'[q][k] = p
                 PROVE  \E k \in 1..Len(frames') : frames'[k] = [room |-> q, id |-> p]
      BY <1>1 DEF Arrives
    <3>0. q \in Rooms BY <1>a DEF RoomTyped
    <3>1. ~\E k \in 1..Len(heard[q]) : heard[q][k] = p
      <4>1. CASE q # r BY <4>1, <3>0, <2>7
      <4>2. CASE q = r
        <5>1. \A k \in 1..n : k \in 1..Len(heard'[q]) /\ heard'[q][k] = heard[q][k]
          BY <4>2, <2>7, <2>4, <1>6
        <5> QED BY <5>1, <4>2 DEF n
      <4> QED BY <4>1, <4>2
    <3>2. PICK k \in 1..Len(frames) : frames[k] = [room |-> q, id |-> p]
      BY <3>1, <1>a DEF Arrives
    <3>3. k # 1
      <4> SUFFICES ASSUME k = 1 PROVE FALSE
        OBVIOUS
      <4>1. q = r /\ p = f.id BY <3>2, <1>3, <1>4
      <4>2. n + 1 \in 1..Len(heard'[q]) /\ heard'[q][n + 1] = p
        BY <4>1, <2>7, <2>4, <1>6
      <4> QED BY <4>2
    <3> QED BY <3>2, <3>3, <1>3
  <2> QED BY <2>8, <2>9, <2>10, <2>11, <1>7 DEF RoomSound
<1> QED BY <1>8, <1>9

(* The subscriptions. *)

\* What the broadcasts keep does not change while none is made, sent or heard.
LEMMA RoomsStand ==
    ASSUME RoomSound, UNCHANGED <<granted, posts, frames, window, heard>>
    PROVE  Lately' /\ Sparse' /\ Arrives'
<1>1. Lately' BY DEF RoomSound, Lately
<1>2. Sparse' BY DEF RoomSound, Sparse
<1>3. Arrives' BY DEF RoomSound, Arrives
<1> QED BY <1>1, <1>2, <1>3

LEMMA CallKeeps ==
    ASSUME RoomSound, NEW r \in Rooms, NEW join \in BOOLEAN, CallSubscribe(r, join)
    PROVE  RoomSound'
<1>a. RoomTyped /\ Mirrors /\ Follows /\ DownIsDown BY DEF RoomSound
<1> DEFINE q == [room |-> r, join |-> join, by |-> "caller"]
           n == Len(asks)
<1>1. /\ links.up /\ asks' = Append(asks, q)
      /\ links' = [links EXCEPT !.calls = @ + 1]
      /\ UNCHANGED <<active, granted, wish, answers, replaying, posts, frames,
                     window, heard, upsets>>
  BY DEF CallSubscribe
<1>2. q \in Ask /\ q.room = r /\ q.by = "caller" BY DEF Ask
<1> HIDE DEF q
<1>3. /\ n \in Nat /\ Len(asks') = n + 1 /\ asks' \in Seq(Ask) /\ asks'[n + 1] = q
      /\ \A i \in 1..n : asks'[i] = asks[i] /\ i \in 1..Len(asks')
      /\ \A i \in 1..Len(asks') : i \in 1..n \/ i = n + 1
  BY <1>1, <1>2, <1>a, AppendIs DEF RoomTyped
<1> HIDE DEF n
<1>4. links' \in [n : Nat, up : BOOLEAN, calls : Nat] /\ links'.up = links.up
  <2>1. links \in [n : Nat, up : BOOLEAN, calls : Nat] BY <1>a DEF RoomTyped
  <2>2. links' = [n |-> links.n, up |-> links.up, calls |-> links.calls + 1]
    BY <2>1, <1>1
  <2> QED BY <2>1, <2>2
<1>5. RoomTyped' BY <1>1, <1>3, <1>4, <1>a DEF RoomTyped
<1>6. DownIsDown' BY <1>1, <1>4 DEF DownIsDown
<1>7. Mirrors'
  <2> SUFFICES ASSUME "crossed" \notin upsets
               PROVE  \A i \in 1..Len(asks') : asks'[i].by = "replay" =>
                        /\ asks'[i].join /\ asks'[i].room \in active
                        /\ \A j \in 1..Len(asks') : asks'[j].room = asks'[i].room => j >= i
                        /\ \A j \in 1..Len(answers) : answers[j].ask.room # asks'[i].room
    BY <1>1, <1>a DEF Mirrors
  <2> SUFFICES ASSUME NEW i \in 1..Len(asks'), asks'[i].by = "replay"
               PROVE  /\ asks'[i].join /\ asks'[i].room \in active
                      /\ \A j \in 1..Len(asks') : asks'[j].room = asks'[i].room => j >= i
                      /\ \A j \in 1..Len(answers) : answers[j].ask.room # asks'[i].room
    OBVIOUS
  <2>1. i \in 1..n /\ asks'[i] = asks[i] BY <1>2, <1>3
  <2>2. /\ asks[i].join /\ asks[i].room \in active
        /\ \A j \in 1..n : asks[j].room = asks[i].room => j >= i
        /\ \A j \in 1..Len(answers) : answers[j].ask.room # asks[i].room
    BY <2>1, <1>a DEF Mirrors, n
  <2>3. ASSUME NEW j \in 1..Len(asks'), asks'[j].room = asks'[i].room PROVE j >= i
    BY <2>1, <2>2, <2>3, <1>3
  <2> QED BY <2>1, <2>2, <2>3
<1>8. Follows'
  <2>1. \A i \in 1..Len(asks) : i \in 1..Len(asks') /\ asks'[i] = asks[i] BY <1>3 DEF n
  <2> QED BY <2>1, <1>1, <1>4, <1>a DEF Follows, Settled, Grants
<1> QED BY <1>5, <1>6, <1>7, <1>8, <1>1, RoomsStand DEF RoomSound

LEMMA ReplayKeeps ==
    ASSUME RoomSound, NEW r \in Rooms, ReplayNext(r)
    PROVE  RoomSound'
<1>a. RoomTyped /\ Mirrors /\ Follows /\ DownIsDown BY DEF RoomSound
<1> DEFINE q == [room |-> r, join |-> TRUE, by |-> "replay"]
           n == Len(asks)
           crosses == \/ \E i \in 1..Len(asks) : asks[i].room = r
                      \/ \E i \in 1..Len(answers) : answers[i].ask.room = r
<1>1. /\ replaying.on /\ ~WaitsForReplay /\ r \in replaying.left /\ r \in active
      /\ asks' = Append(asks, q)
      /\ replaying' = [replaying EXCEPT !.left = @ \ {r}]
      /\ upsets' = upsets \cup IF crosses THEN {"crossed"} ELSE {}
      /\ UNCHANGED <<active, granted, wish, answers, links, posts, frames, window, heard>>
  BY DEF ReplayNext
<1>2. q \in Ask /\ q.room = r /\ q.join /\ q.by = "replay" BY DEF Ask
<1> HIDE DEF q
<1>3. /\ n \in Nat /\ Len(asks') = n + 1 /\ asks' \in Seq(Ask) /\ asks'[n + 1] = q
      /\ n + 1 \in 1..Len(asks')
      /\ \A i \in 1..n : asks'[i] = asks[i] /\ i \in 1..Len(asks')
      /\ \A i \in 1..Len(asks') : i \in 1..n \/ i = n + 1
  BY <1>1, <1>2, <1>a, AppendIs DEF RoomTyped
<1>4. /\ replaying' \in [on : BOOLEAN, left : SUBSET Rooms]
      /\ replaying'.on /\ replaying'.left = replaying.left \ {r}
  BY <1>1, <1>a DEF RoomTyped
<1>5. RoomTyped' BY <1>1, <1>3, <1>4, <1>a DEF RoomTyped
<1>6. DownIsDown' BY <1>1, <1>a DEF DownIsDown
<1>7. Mirrors'
  <2> SUFFICES ASSUME "crossed" \notin upsets' PROVE Mirrors'
    BY DEF Mirrors
  <2>0. ~crosses /\ "crossed" \notin upsets BY <1>1
  <2>1. active = wish /\ \A i \in 1..Len(answers) : answers[i].ask.by # "replay"
    BY <2>0, <1>1, <1>a DEF Mirrors, WaitsForReplay
  <2>2. ASSUME NEW i \in 1..Len(asks'), asks'[i].by = "replay" PROVE i = n + 1
    BY <2>2, <1>1, <1>3 DEF WaitsForReplay
  <2>3. ASSUME NEW j \in 1..Len(asks'), asks'[j].room = r PROVE j = n + 1
    BY <2>3, <2>0, <1>3
  <2>4. \A j \in 1..Len(answers) : answers[j].ask.room # r BY <2>0
  <2>5. ASSUME NEW i \in 1..Len(asks'), asks'[i].by = "replay"
        PROVE  /\ asks'[i].join /\ asks'[i].room \in active
               /\ \A j \in 1..Len(asks') : asks'[j].room = asks'[i].room => j >= i
               /\ \A j \in 1..Len(answers) : answers[j].ask.room # asks'[i].room
    <3>1. i = n + 1 /\ asks'[i] = q BY <2>2, <2>5, <1>3
    <3>2. \A j \in 1..Len(asks') : asks'[j].room = asks'[i].room => j >= i
      BY <3>1, <2>3, <1>2, <1>3
    <3> QED BY <3>1, <3>2, <2>4, <1>1, <1>2
  <2> QED BY <2>1, <2>5, <1>1 DEF Mirrors
<1>8. Follows'
  <2>1. \A i \in 1..Len(asks) : i \in 1..Len(asks') /\ asks'[i] = asks[i] BY <1>3
  <2>2. \E i \in 1..Len(asks') : asks'[i].room = r /\ asks'[i].by = "replay"
    BY <1>2, <1>3
  <2>3. upsets' = {} => upsets = {} BY <1>1
  <2> HIDE DEF crosses, n
  <2> SUFFICES ASSUME upsets = {}, links.up, NEW s \in Rooms
               PROVE  /\ \A i \in 1..Len(answers) :
                            Grants(i, s) /\ (\A j \in 1..Len(answers) : j > i => ~Grants(j, s))
                                => (s \in granted <=> answers[i].ask.join)
                      /\ (\A i \in 1..Len(answers) : ~Grants(i, s)) =>
                            /\ s \in granted => s \in active
                            /\ s \in active =>
                                  \/ s \in granted
                                  \/ replaying'.on /\ s \in replaying'.left
                                  \/ \E i \in 1..Len(asks') :
                                        asks'[i].room = s /\ asks'[i].by = "replay"
    BY <2>3, <1>1 DEF Follows, Settled, Grants
  <2>4. CASE s = r BY <2>4, <2>2, <1>a DEF Follows, Settled
  <2>5. CASE s # r BY <2>5, <2>1, <1>4, <1>a DEF Follows, Settled
  <2> QED BY <2>4, <2>5
<1> QED BY <1>5, <1>6, <1>7, <1>8, <1>1, RoomsStand DEF RoomSound

LEMMA DoneKeeps ==
    ASSUME RoomSound, ReplayDone
    PROVE  RoomSound'
<1>a. RoomTyped /\ Mirrors /\ Follows /\ DownIsDown BY DEF RoomSound
<1>1. /\ replaying.left \cap active = {} /\ replaying' = NoReplay
      /\ UNCHANGED <<active, granted, wish, asks, answers, links, posts, frames, window,
                     heard, upsets>>
  BY DEF ReplayDone
<1>2. RoomTyped' BY <1>1, <1>a DEF RoomTyped, NoReplay
<1>3. DownIsDown' BY <1>1, <1>a DEF DownIsDown, NoReplay
<1>4. Mirrors' BY <1>1, <1>a DEF Mirrors
<1>5. Follows' BY <1>1, <1>a DEF Follows, Settled, Grants
<1> QED BY <1>2, <1>3, <1>4, <1>5, <1>1, RoomsStand DEF RoomSound

LEMMA LinkKeeps ==
    ASSUME RoomSound, LinkDrops \/ LinkReturns
    PROVE  RoomSound'
<1>a. RoomTyped /\ Mirrors /\ Follows /\ DownIsDown /\ Lately /\ Sparse BY DEF RoomSound
<1>1. CASE LinkDrops
  <2>1. /\ (active' = active /\ wish' = wish) \/ (active' = {} /\ wish' = {})
        /\ links' = [links EXCEPT !.up = FALSE]
        /\ granted' = {} /\ asks' = <<>> /\ answers' = <<>> /\ frames' = <<>>
        /\ replaying' = NoReplay
        /\ UNCHANGED <<posts, window, heard, upsets>>
    BY <1>1 DEF LinkDrops
  <2>2. links' \in [n : Nat, up : BOOLEAN, calls : Nat] /\ ~links'.up
    BY <2>1, <1>a DEF RoomTyped
  <2>3. RoomTyped' BY <2>1, <2>2, <1>a DEF RoomTyped, NoReplay
  <2>4. Mirrors'
    <3>1. "crossed" \notin upsets => active' = wish' BY <2>1, <1>a DEF Mirrors
    <3>2. asks' = <<>> /\ answers' = <<>> /\ upsets' = upsets BY <2>1
    <3> QED BY <3>1, <3>2 DEF Mirrors
  <2>5. Follows' /\ DownIsDown' BY <2>1, <2>2 DEF Follows, DownIsDown, NoReplay
  <2>6. Lately' /\ Sparse' /\ Arrives' BY <2>1, <1>a DEF Lately, Sparse, Arrives
  <2> QED BY <2>3, <2>4, <2>5, <2>6 DEF RoomSound
<1>2. CASE LinkReturns
  <2>1. /\ ~links.up /\ links' = [links EXCEPT !.n = @ + 1, !.up = TRUE]
        /\ replaying' = [on |-> TRUE, left |-> Rooms]
        /\ UNCHANGED <<active, granted, wish, asks, answers, posts, frames, window, heard,
                       upsets>>
    BY <1>2 DEF LinkReturns
  <2>2. links' \in [n : Nat, up : BOOLEAN, calls : Nat] /\ links'.up
    <3>1. links \in [n : Nat, up : BOOLEAN, calls : Nat] BY <1>a DEF RoomTyped
    <3>2. links' = [n |-> links.n + 1, up |-> TRUE, calls |-> links.calls]
      BY <3>1, <2>1
    <3> QED BY <3>1, <3>2
  <2>3. granted = {} /\ asks = <<>> /\ answers = <<>> BY <2>1, <1>a DEF DownIsDown
  <2>4. RoomTyped' BY <2>1, <2>2, <1>a DEF RoomTyped
  <2>5. Mirrors' BY <2>1, <1>a DEF Mirrors
  <2>6. Follows' BY <2>1, <2>3, <1>a DEF Follows, Settled, Grants, RoomTyped
  <2>7. DownIsDown' BY <2>2 DEF DownIsDown
  <2> QED BY <2>4, <2>5, <2>6, <2>7, <2>1, RoomsStand DEF RoomSound
<1> QED BY <1>1, <1>2

\* The head of asks becomes the last of answers.
LEMMA ServerStep ==
    ASSUME RoomTyped, ServerAnswers
    PROVE  \E ok \in BOOLEAN :
        LET q == asks[1]
            n == Len(answers)
            burst == [i \in 1..posts[q.room] |-> [room |-> q.room, id |-> i]]
        IN  /\ q \in Ask /\ n \in Nat /\ 1 \in 1..Len(asks)
            /\ answers' \in Seq(Answer) /\ Len(answers') = n + 1
            /\ answers'[n + 1].ask = q /\ answers'[n + 1].ok = ok
            /\ \A i \in 1..n : answers'[i] = answers[i] /\ i \in 1..Len(answers')
            /\ \A i \in 1..Len(answers') : i \in 1..n \/ i = n + 1
            /\ asks' \in Seq(Ask) /\ Len(asks) \in Nat /\ Len(asks') = Len(asks) - 1
            /\ \A i \in 1..Len(asks') : asks'[i] = asks[i + 1] /\ i + 1 \in 1..Len(asks)
            /\ \A i \in 1..Len(asks) :
                  i = 1 \/ (i - 1 \in 1..Len(asks') /\ asks'[i - 1] = asks[i])
            /\ granted' = IF ~ok THEN granted
                          ELSE IF q.join THEN granted \cup {q.room} ELSE granted \ {q.room}
            /\ frames' = frames \o IF ok /\ q.join THEN burst ELSE <<>>
            /\ upsets' = upsets \cup IF ~ok /\ q.by = "replay" THEN {"refused"} ELSE {}
            /\ UNCHANGED <<active, wish, replaying, links, posts, window, heard>>
<1>1. asks # <<>> /\ asks \in Seq(Ask) /\ answers \in Seq(Answer)
  BY DEF ServerAnswers, RoomTyped
<1>2. /\ Len(asks) \in Nat /\ Len(Tail(asks)) = Len(asks) - 1 /\ Tail(asks) \in Seq(Ask)
      /\ Head(asks) = asks[1] /\ asks[1] \in Ask /\ 1 \in 1..Len(asks)
      /\ \A i \in 1..Len(Tail(asks)) : Tail(asks)[i] = asks[i + 1] /\ i + 1 \in 1..Len(asks)
      /\ \A i \in 1..Len(asks) :
            i = 1 \/ (i - 1 \in 1..Len(Tail(asks)) /\ Tail(asks)[i - 1] = asks[i])
  BY <1>1, TailIs
<1> DEFINE q == asks[1]
           n == Len(answers)
           burst == [i \in 1..posts[q.room] |-> [room |-> q.room, id |-> i]]
<1>3. PICK ok \in BOOLEAN :
        /\ answers' = Append(answers, [ask |-> q, ok |-> ok])
        /\ granted' = IF ~ok THEN granted
                      ELSE IF q.join THEN granted \cup {q.room} ELSE granted \ {q.room}
        /\ frames' = frames \o IF ok /\ q.join THEN burst ELSE <<>>
        /\ upsets' = upsets \cup IF ~ok /\ q.by = "replay" THEN {"refused"} ELSE {}
  BY <1>2 DEF ServerAnswers
<1> DEFINE a == [ask |-> q, ok |-> ok]
<1>4. a \in Answer /\ a.ask = q /\ a.ok = ok BY <1>2 DEF Answer
<1> HIDE DEF a
<1>5. /\ Len(answers) \in Nat /\ Len(answers') = n + 1 /\ answers' \in Seq(Answer)
      /\ answers'[n + 1] = a
      /\ \A i \in 1..n : answers'[i] = answers[i] /\ i \in 1..Len(answers')
      /\ \A i \in 1..Len(answers') : i \in 1..n \/ i = n + 1
  <2>1. answers' = Append(answers, a) BY <1>3 DEF a
  <2> QED BY <2>1, <1>1, <1>4, AppendIs
<1>6. asks' = Tail(asks) /\ UNCHANGED <<active, wish, replaying, links, posts, window, heard>>
  BY DEF ServerAnswers
<1> QED BY <1>2, <1>3, <1>4, <1>5, <1>6

\* What the server sends to who joins arrives behind what is under way.
LEMMA BurstIs ==
    ASSUME RoomTyped, NEW s \in Rooms
    PROVE  LET burst == [i \in 1..posts[s] |-> [room |-> s, id |-> i]]
           IN  /\ frames \o burst \in Seq(Frame)
               /\ \A k \in 1..Len(frames) : /\ k \in 1..Len(frames \o burst)
                                            /\ (frames \o burst)[k] = frames[k]
               /\ \A p \in 1..posts[s] : \E k \in 1..Len(frames \o burst) :
                     (frames \o burst)[k] = [room |-> s, id |-> p]
<1> DEFINE burst == [i \in 1..posts[s] |-> [room |-> s, id |-> i]]
<1>1. posts[s] \in Nat /\ frames \in Seq(Frame) BY DEF RoomTyped
<1>2. burst \in Seq(Frame) /\ Len(burst) = posts[s]
  <2>1. \A i \in 1..posts[s] : [room |-> s, id |-> i] \in Frame BY <1>1 DEF Frame
  <2> HIDE DEF Frame
  <2>2. burst \in [1..posts[s] -> Frame] BY <2>1
  <2> QED BY <2>2, <1>1
<1>3. \A p \in 1..posts[s] : burst[p] = [room |-> s, id |-> p] OBVIOUS
<1> HIDE DEF burst
<1>4. /\ frames \o burst \in Seq(Frame) /\ Len(frames) \in Nat
      /\ Len(frames \o burst) = Len(frames) + posts[s]
      /\ \A k \in 1..Len(frames) : (frames \o burst)[k] = frames[k]
      /\ \A p \in 1..posts[s] : (frames \o burst)[Len(frames) + p] = burst[p]
  BY <1>1, <1>2
<1>5. \A k \in 1..Len(frames) : k \in 1..Len(frames \o burst) BY <1>1, <1>4
<1>6. ASSUME NEW p \in 1..posts[s] PROVE Len(frames) + p \in 1..Len(frames \o burst)
  BY <1>1, <1>4
<1>7. ASSUME NEW p \in 1..posts[s]
      PROVE  \E k \in 1..Len(frames \o burst) : (frames \o burst)[k] = [room |-> s, id |-> p]
  <2>1. (frames \o burst)[Len(frames) + p] = [room |-> s, id |-> p] BY <1>3, <1>4
  <2> QED BY <2>1, <1>6
<1> QED BY <1>4, <1>5, <1>7 DEF burst

LEMMA ServerKeeps ==
    ASSUME RoomSound, ServerAnswers
    PROVE  RoomSound'
<1>a. RoomTyped /\ Mirrors /\ Follows /\ DownIsDown /\ Lately /\ Arrives /\ Sparse
  BY DEF RoomSound
<1>n. PICK n : n = Len(answers) OBVIOUS
<1> DEFINE q == asks[1]
           burst == [i \in 1..posts[q.room] |-> [room |-> q.room, id |-> i]]
<1>1. PICK ok \in BOOLEAN :
            /\ q \in Ask /\ n \in Nat /\ 1 \in 1..Len(asks)
            /\ answers' \in Seq(Answer) /\ Len(answers') = n + 1
            /\ answers'[n + 1].ask = q /\ answers'[n + 1].ok = ok
            /\ \A i \in 1..n : answers'[i] = answers[i] /\ i \in 1..Len(answers')
            /\ \A i \in 1..Len(answers') : i \in 1..n \/ i = n + 1
            /\ asks' \in Seq(Ask) /\ Len(asks) \in Nat /\ Len(asks') = Len(asks) - 1
            /\ \A i \in 1..Len(asks') : asks'[i] = asks[i + 1] /\ i + 1 \in 1..Len(asks)
            /\ \A i \in 1..Len(asks) :
                  i = 1 \/ (i - 1 \in 1..Len(asks') /\ asks'[i - 1] = asks[i])
            /\ granted' = IF ~ok THEN granted
                          ELSE IF q.join THEN granted \cup {q.room} ELSE granted \ {q.room}
            /\ frames' = frames \o IF ok /\ q.join THEN burst ELSE <<>>
            /\ upsets' = upsets \cup IF ~ok /\ q.by = "replay" THEN {"refused"} ELSE {}
            /\ UNCHANGED <<active, wish, replaying, links, posts, window, heard>>
  BY <1>a, <1>n, ServerStep
<1>2. n + 1 \in 1..Len(answers') /\ q.room \in Rooms /\ q.join \in BOOLEAN
  BY <1>1 DEF Ask
<1>3. /\ \A i \in 1..Len(answers) : answers'[i] = answers[i] /\ i \in 1..Len(answers')
      /\ \A i \in 1..Len(answers') : i \in 1..Len(answers) \/ i = n + 1
  BY <1>1, <1>n
<1>e. UNCHANGED <<active, wish, replaying, links, posts, window, heard>> BY <1>1
<1>f. \A i \in 1..Len(asks) :
         i = 1 \/ (i - 1 \in 1..Len(asks') /\ asks'[i - 1] = asks[i])
  BY <1>1
<1>s. /\ frames' \in Seq(Frame)
      /\ \A k \in 1..Len(frames) : k \in 1..Len(frames') /\ frames'[k] = frames[k]
      /\ ok /\ q.join => \A p \in 1..posts[q.room] : \E k \in 1..Len(frames') :
                              frames'[k] = [room |-> q.room, id |-> p]
  <2>1. CASE ok /\ q.join
    <3>1. frames' = frames \o burst BY <2>1, <1>1
    <3> QED BY <3>1, <1>2, <1>a, BurstIs
  <2>2. CASE ~(ok /\ q.join)
    <3>1. frames' = frames \o <<>> BY <2>2, <1>1
    <3>2. frames' = frames /\ frames \in Seq(Frame) BY <3>1, <1>a DEF RoomTyped
    <3> QED BY <3>2, <2>2
  <2> QED BY <2>1, <2>2
<1> HIDE DEF q, burst
<1>4. RoomTyped' BY <1>1, <1>2, <1>s, <1>a DEF RoomTyped
<1>5. DownIsDown'
  <2>1. links.up BY <1>1, <1>a DEF DownIsDown
  <2> QED BY <2>1, <1>1 DEF DownIsDown
<1>6. Lately' /\ Sparse' BY <1>1, <1>a DEF Lately, Sparse
<1>7. Arrives'
  <2> SUFFICES ASSUME NEW r \in granted', NEW p \in 1..posts[r],
                      ~\E k \in 1..Len(heard[r]) : heard[r][k] = p
               PROVE  \E k \in 1..Len(frames') : frames'[k] = [room |-> r, id |-> p]
    BY <1>e DEF Arrives
  <2>1. CASE r \in granted
    <3>1. PICK k \in 1..Len(frames) : frames[k] = [room |-> r, id |-> p]
      BY <2>1, <1>a DEF Arrives
    <3> QED BY <3>1, <1>s
  <2>2. CASE r \notin granted
    <3>1. ok /\ q.join /\ r = q.room BY <2>2, <1>1
    <3> QED BY <3>1, <1>s
  <2> QED BY <2>1, <2>2
<1>8. Mirrors'
  <2> SUFFICES ASSUME "crossed" \notin upsets' PROVE Mirrors'
    BY DEF Mirrors
  <2>0. "crossed" \notin upsets BY <1>1
  <2>1. active = wish BY <2>0, <1>a DEF Mirrors
  <2>2. q.by = "replay" => /\ q.join /\ q.room \in active
                           /\ \A j \in 1..Len(answers) : answers[j].ask.room # q.room
    BY <2>0, <1>1, <1>a DEF Mirrors, q
  <2>3. ASSUME NEW i \in 1..Len(asks'), asks'[i].by = "replay"
        PROVE  /\ asks'[i].join /\ asks'[i].room \in active
               /\ \A j \in 1..Len(asks') : asks'[j].room = asks'[i].room => j >= i
               /\ \A j \in 1..Len(answers') : answers'[j].ask.room # asks'[i].room
    <3> DEFINE m == i + 1
    <3>1. m \in 1..Len(asks) /\ asks'[i] = asks[m] /\ m > 1 BY <1>1
    <3>2. /\ asks[m].join /\ asks[m].room \in active
          /\ \A j \in 1..Len(asks) : asks[j].room = asks[m].room => j >= m
          /\ \A j \in 1..Len(answers) : answers[j].ask.room # asks[m].room
      BY <3>1, <2>0, <2>3, <1>a DEF Mirrors
    <3>3. q.room # asks[m].room BY <3>1, <3>2, <1>1 DEF q
    <3>4. ASSUME NEW j \in 1..Len(asks'), asks'[j].room = asks'[i].room PROVE j >= i
      <4>1. j + 1 \in 1..Len(asks) /\ asks'[j] = asks[j + 1] BY <1>1
      <4> QED BY <4>1, <3>1, <3>2, <3>4
    <3>5. ASSUME NEW j \in 1..Len(answers') PROVE answers'[j].ask.room # asks'[i].room
      BY <3>1, <3>2, <3>3, <1>1, <1>3
    <3> QED BY <3>1, <3>2, <3>4, <3>5
  <2>4. ASSUME NEW i \in 1..Len(answers'), answers'[i].ask.by = "replay"
        PROVE  /\ answers'[i].ask.join /\ answers'[i].ask.room \in active
               /\ \A j \in 1..Len(answers') :
                     answers'[j].ask.room = answers'[i].ask.room => j >= i
    <3>1. CASE i \in 1..Len(answers)
      <4>1. /\ answers[i].ask.join /\ answers[i].ask.room \in active
            /\ \A j \in 1..Len(answers) : answers[j].ask.room = answers[i].ask.room => j >= i
        BY <3>1, <2>0, <2>4, <1>3, <1>a DEF Mirrors
      <4>2. ASSUME NEW j \in 1..Len(answers'), answers'[j].ask.room = answers'[i].ask.room
            PROVE  j >= i
        BY <4>1, <4>2, <3>1, <1>3
      <4> QED BY <4>1, <4>2, <3>1, <1>3
    <3>2. CASE i = n + 1
      <4>1. answers'[i].ask = q BY <3>2, <1>1
      <4>2. ASSUME NEW j \in 1..Len(answers'), answers'[j].ask.room = answers'[i].ask.room
            PROVE  j >= i
        BY <4>1, <4>2, <3>2, <2>2, <2>4, <1>3, <1>1
      <4> QED BY <4>1, <4>2, <2>2, <2>4
    <3> QED BY <3>1, <3>2, <1>3
  <2> QED BY <2>1, <2>3, <2>4, <1>1 DEF Mirrors
<1>9. Follows'
  <2> SUFFICES ASSUME upsets' = {}, links'.up, NEW r \in Rooms
               PROVE  Settled(r)'
    BY DEF Follows
  <2>0. upsets = {} /\ links.up /\ (ok \/ q.by # "replay") BY <1>1
  <2>1. Settled(r) BY <2>0, <1>a DEF Follows
  <2>2. \A i \in 1..Len(answers) : Grants(i, r)' <=> Grants(i, r)
    BY <1>3 DEF Grants
  <2>3. Grants(n + 1, r)' <=> ok /\ q.room = r BY <1>1 DEF Grants
  <2>4. CASE ok /\ q.room = r
    <3>1. r \in granted' <=> q.join BY <2>4, <1>1
    <3>2. ASSUME NEW i \in 1..Len(answers'),
                 \A j \in 1..Len(answers') : j > i => ~Grants(j, r)'
          PROVE  i = n + 1
      <4>1. ~(n + 1 > i) BY <3>2, <2>3, <2>4, <1>2
      <4> QED BY <4>1, <3>2, <1>1
    <3>3. Grants(n + 1, r)' BY <2>3, <2>4
    <3> QED BY <3>1, <3>2, <3>3, <1>1, <1>2 DEF Settled
  <2>5. CASE ~(ok /\ q.room = r)
    <3>1. r \in granted' <=> r \in granted BY <2>5, <1>1
    <3>2. ASSUME NEW i \in 1..Len(answers'), Grants(i, r)',
                 \A j \in 1..Len(answers') : j > i => ~Grants(j, r)'
          PROVE  r \in granted' <=> answers'[i].ask.join
      <4>1. i \in 1..Len(answers) /\ Grants(i, r) BY <3>2, <2>2, <2>3, <2>5, <1>3
      <4>2. \A j \in 1..Len(answers) : j > i => ~Grants(j, r) BY <3>2, <2>2, <1>3
      <4> QED BY <4>1, <4>2, <3>1, <2>1, <1>3 DEF Settled
    <3>3. ASSUME \A i \in 1..Len(answers') : ~Grants(i, r)'
          PROVE  /\ r \in granted' => r \in active'
                 /\ r \in active' => \/ r \in granted'
                                     \/ replaying'.on /\ r \in replaying'.left
                                     \/ \E i \in 1..Len(asks') :
                                           asks'[i].room = r /\ asks'[i].by = "replay"
      <4>1. \A i \in 1..Len(answers) : ~Grants(i, r) BY <3>3, <2>2, <1>3
      <4>2. ASSUME NEW i \in 1..Len(asks), asks[i].room = r, asks[i].by = "replay"
            PROVE  \E j \in 1..Len(asks') : asks'[j].room = r /\ asks'[j].by = "replay"
        <5>1. i # 1 BY <4>2, <2>0, <2>5 DEF q
        <5> QED BY <5>1, <4>2, <1>f
      <4> QED BY <4>1, <4>2, <3>1, <2>1, <1>1 DEF Settled
    <3> QED BY <3>2, <3>3 DEF Settled
  <2> QED BY <2>4, <2>5
<1> QED BY <1>4, <1>5, <1>6, <1>7, <1>8, <1>9 DEF RoomSound

LEMMA AnsweredKeeps ==
    ASSUME RoomSound, Answered
    PROVE  RoomSound'
<1>a. RoomTyped /\ Mirrors /\ Follows /\ DownIsDown BY DEF RoomSound
<1>1. answers # <<>> /\ answers \in Seq(Answer) BY <1>a DEF Answered, RoomTyped
<1>p. PICK a : a = answers[1] OBVIOUS
<1>2. /\ Len(answers) \in Nat /\ Len(answers') = Len(answers) - 1 /\ answers' \in Seq(Answer)
      /\ a = Head(answers) /\ a \in Answer /\ 1 \in 1..Len(answers)
      /\ \A i \in 1..Len(answers') :
            answers'[i] = answers[i + 1] /\ i + 1 \in 1..Len(answers)
      /\ \A i \in 1..Len(answers) :
            i = 1 \/ (i - 1 \in 1..Len(answers') /\ answers'[i - 1] = answers[i])
  <2>1. answers' = Tail(answers) BY DEF Answered
  <2> QED BY <2>1, <1>1, <1>p, TailIs
<1>3. a.ask \in Ask /\ a.ask.room \in Rooms /\ a.ask.join \in BOOLEAN /\ a.ok \in BOOLEAN
  BY <1>2 DEF Answer, Ask
<1>4. /\ active' = Tracked(a.ask, a.ok)
      /\ wish' = IF ~a.ok \/ a.ask.by = "replay" THEN wish
                 ELSE IF a.ask.join THEN wish \cup {a.ask.room} ELSE wish \ {a.ask.room}
      /\ replaying' = IF replaying.on /\ active' \ active # {}
                      THEN [replaying EXCEPT !.left = @ \cup {a.ask.room}] ELSE replaying
      /\ UNCHANGED <<granted, asks, links, posts, frames, window, heard, upsets>>
  BY <1>2 DEF Answered
<1>5. active' = IF ~a.ok THEN active
                ELSE IF a.ask.join THEN active \cup {a.ask.room} ELSE active \ {a.ask.room}
  BY <1>4 DEF Tracked
<1>6. /\ replaying' \in [on : BOOLEAN, left : SUBSET Rooms]
      /\ replaying'.on = replaying.on /\ replaying.left \subseteq replaying'.left
  <2>1. replaying \in [on : BOOLEAN, left : SUBSET Rooms] BY <1>a DEF RoomTyped
  <2>2. CASE replaying' = replaying BY <2>1, <2>2
  <2>3. CASE replaying' = [replaying EXCEPT !.left = @ \cup {a.ask.room}]
    BY <2>1, <2>3, <1>3
  <2> QED BY <2>2, <2>3, <1>4
<1>7. RoomTyped'
  <2>1. active' \subseteq Rooms /\ wish' \subseteq Rooms BY <1>3, <1>4, <1>5, <1>a DEF RoomTyped
  <2> QED BY <2>1, <1>2, <1>4, <1>6, <1>a DEF RoomTyped
<1>8. DownIsDown' BY <1>4, <1>6, <1>1, <1>a DEF DownIsDown
<1>9. Mirrors'
  <2> SUFFICES ASSUME "crossed" \notin upsets PROVE Mirrors'
    BY <1>4 DEF Mirrors
  <2>1. active = wish BY <1>a DEF Mirrors
  <2>2. a.ask.by = "replay" => a.ask.join /\ a.ask.room \in active
    BY <1>2, <1>p, <1>a DEF Mirrors
  <2>3. active' = wish' BY <2>1, <2>2, <1>4, <1>5
  <2>4. \A r \in active : r # a.ask.room => r \in active' BY <1>5
  <2>5. ASSUME NEW i \in 1..Len(asks), asks[i].by = "replay"
        PROVE  /\ asks[i].join /\ asks[i].room \in active'
               /\ \A j \in 1..Len(asks) : asks[j].room = asks[i].room => j >= i
               /\ \A j \in 1..Len(answers') : answers'[j].ask.room # asks[i].room
    <3>1. /\ asks[i].join /\ asks[i].room \in active
          /\ \A j \in 1..Len(asks) : asks[j].room = asks[i].room => j >= i
          /\ \A j \in 1..Len(answers) : answers[j].ask.room # asks[i].room
      BY <2>5, <1>a DEF Mirrors
    <3>2. a.ask.room # asks[i].room BY <3>1, <1>2, <1>p
    <3>3. \A j \in 1..Len(answers') : answers'[j].ask.room # asks[i].room
      BY <3>1, <1>2
    <3> QED BY <3>1, <3>2, <3>3, <2>4
  <2>6. ASSUME NEW i \in 1..Len(answers'), answers'[i].ask.by = "replay"
        PROVE  /\ answers'[i].ask.join /\ answers'[i].ask.room \in active'
               /\ \A j \in 1..Len(answers') :
                     answers'[j].ask.room = answers'[i].ask.room => j >= i
    <3> DEFINE m == i + 1
    <3>1. m \in 1..Len(answers) /\ answers'[i] = answers[m] /\ m > 1 BY <1>2
    <3>2. /\ answers[m].ask.join /\ answers[m].ask.room \in active
          /\ \A j \in 1..Len(answers) : answers[j].ask.room = answers[m].ask.room => j >= m
      BY <3>1, <2>6, <1>a DEF Mirrors
    <3>3. a.ask.room # answers[m].ask.room
      <4>1. 1 \in 1..Len(answers) BY <1>2
      <4>2. ~ (1 >= m) BY <3>1
      <4>3. answers[1].ask.room # answers[m].ask.room BY <4>1, <4>2, <3>2
      <4> QED BY <4>3, <1>p
    <3>4. ASSUME NEW j \in 1..Len(answers'), answers'[j].ask.room = answers'[i].ask.room
          PROVE  j >= i
      <4>1. j + 1 \in 1..Len(answers) /\ answers'[j] = answers[j + 1] BY <1>2
      <4> QED BY <4>1, <3>1, <3>2, <3>4
    <3> QED BY <3>1, <3>2, <3>3, <3>4, <2>4
  <2>7. asks' = asks BY <1>4
  <2> QED BY <2>3, <2>5, <2>6, <2>7 DEF Mirrors
<1>10. Follows'
  <2> SUFFICES ASSUME upsets = {}, links.up, NEW r \in Rooms
               PROVE  Settled(r)'
    BY <1>4 DEF Follows
  <2>1. Settled(r) BY <1>a DEF Follows
  <2>2. \A i \in 1..Len(answers') : Grants(i, r)' <=> Grants(i + 1, r)
    BY <1>2 DEF Grants
  <2>3. Grants(1, r) <=> a.ok /\ a.ask.room = r BY <1>p DEF Grants
  <2>4. ASSUME NEW i \in 1..Len(answers'), Grants(i, r)',
               \A j \in 1..Len(answers') : j > i => ~Grants(j, r)'
        PROVE  r \in granted' <=> answers'[i].ask.join
    <3>1. i + 1 \in 1..Len(answers) /\ Grants(i + 1, r) BY <2>2, <2>4, <1>2
    <3>2. ASSUME NEW j \in 1..Len(answers), j > i + 1, Grants(j, r) PROVE FALSE
      <4>1. j - 1 \in 1..Len(answers') /\ j - 1 > i /\ (j - 1) + 1 = j BY <3>2, <1>2
      <4>2. Grants(j - 1, r)' BY <4>1, <2>2, <3>2
      <4> QED BY <4>1, <4>2, <2>4
    <3>3. r \in granted <=> answers[i + 1].ask.join BY <3>1, <3>2, <2>1 DEF Settled
    <3> QED BY <3>3, <1>2, <1>4
  <2>5. ASSUME \A i \in 1..Len(answers') : ~Grants(i, r)'
        PROVE  /\ r \in granted' => r \in active'
               /\ r \in active' => \/ r \in granted'
                                   \/ replaying'.on /\ r \in replaying'.left
                                   \/ \E i \in 1..Len(asks') :
                                         asks'[i].room = r /\ asks'[i].by = "replay"
    <3>1. ASSUME NEW j \in 1..Len(answers), Grants(j, r) PROVE j = 1
      <4> SUFFICES ASSUME j # 1 PROVE FALSE
        OBVIOUS
      <4>1. j - 1 \in 1..Len(answers') /\ (j - 1) + 1 = j BY <1>2
      <4>2. Grants(j - 1, r)' BY <4>1, <2>2, <3>1
      <4> QED BY <4>1, <4>2, <2>5
    <3>2. CASE a.ok /\ a.ask.room = r
      <4>1. r \in granted <=> answers[1].ask.join
        <5>1. Grants(1, r) /\ 1 \in 1..Len(answers) BY <3>2, <2>3, <1>2
        <5>2. \A j \in 1..Len(answers) : j > 1 => ~Grants(j, r) BY <3>1
        <5> QED BY <5>1, <5>2, <2>1 DEF Settled
      <4> QED BY <4>1, <3>2, <1>4, <1>5, <1>p
    <3>3. CASE ~(a.ok /\ a.ask.room = r)
      <4>1. \A j \in 1..Len(answers) : ~Grants(j, r) BY <3>1, <3>3, <2>3
      <4>2. r \in active' <=> r \in active BY <3>3, <1>5
      <4> QED BY <4>1, <4>2, <2>1, <1>4, <1>6 DEF Settled
    <3> QED BY <3>2, <3>3
  <2> QED BY <2>4, <2>5 DEF Settled
<1> QED BY <1>7, <1>8, <1>9, <1>10, <1>4, RoomsStand DEF RoomSound

LEMMA RoomKeepsSound ==
    ASSUME RoomSound, RoomNext \/ UNCHANGED roomVars
    PROVE  RoomSound'
<1>1. CASE UNCHANGED roomVars
  <2>1. UNCHANGED <<active, granted, wish, asks, answers, replaying, links, posts, frames,
                    window, heard, upsets>>
    BY <1>1 DEF roomVars
  <2>2. RoomTyped' /\ DownIsDown' BY <2>1 DEF RoomSound, RoomTyped, DownIsDown
  <2>3. Mirrors' BY <2>1 DEF RoomSound, Mirrors
  <2>4. Follows' BY <2>1 DEF RoomSound, Follows, Settled, Grants
  <2> QED BY <2>1, <2>2, <2>3, <2>4, RoomsStand DEF RoomSound
<1> QED BY <1>1, CallKeeps, ReplayKeeps, DoneKeeps, LinkKeeps, ServerKeeps, AnsweredKeeps,
           PostKeeps, FrameKeeps DEF RoomNext

LEMMA SoundRooms == RoomSound => RoomsAgree /\ RoomHeard
<1> SUFFICES ASSUME RoomSound PROVE RoomsAgree /\ RoomHeard
  OBVIOUS
<1>a. RoomTyped /\ Mirrors /\ Follows /\ Arrives /\ Sparse BY DEF RoomSound
<1>1. RoomsAgree
  <2> SUFFICES ASSUME RoomIdle, upsets = {} PROVE active = granted /\ active = wish
    BY DEF RoomsAgree
  <2>1. links.up /\ asks = <<>> /\ answers = <<>> /\ ~replaying.on BY DEF RoomIdle
  <2>2. active = wish BY <1>a DEF Mirrors
  <2>3. ASSUME NEW r \in Rooms PROVE r \in granted <=> r \in active
    BY <2>1, <1>a DEF Follows, Settled
  <2> QED BY <2>2, <2>3, <1>a DEF RoomTyped
<1>2. ASSUME NEW r \in Rooms, r \in granted, frames = <<>>
      PROVE  1..posts[r] \subseteq Range(heard[r])
  <2>1. heard[r] \in Seq(Nat) BY <1>a DEF RoomTyped
  <2> SUFFICES ASSUME NEW p \in 1..posts[r] PROVE \E k \in DOMAIN heard[r] : heard[r][k] = p
    BY DEF Range
  <2>2. PICK k \in 1..Len(heard[r]) : heard[r][k] = p BY <1>2, <1>a DEF Arrives
  <2> QED BY <2>1, <2>2
<1>3. RoomHeard BY <1>2, <1>a DEF RoomHeard, Sparse
<1> QED BY <1>1, <1>3

-----------------------------------------------------------------------------
(* What the observers of the outbox are shown (OutboxFeed).                 *)

FullReadDue == \E i \in 1..Len(reads) : reads[i] = "all"

\* A read of all observers is still to come for every announced write that the
\* observer has not been shown.
ShownWhenRead ==
    observing = "yes" /\ "write" \notin quietly /\ owed = {} /\ ~FullReadDue
        => presented = table

\* The badge is on only while outboxLastNonEmpty is, so the read that finds the
\* table empty turns it off.
BadgeFollows ==
    /\ "write" \in quietly => "ever" \in quietly
    /\ quietly = {} /\ badge =>
          /\ nonEmpty
          /\ table # NoRows \/ owed # {} \/ FullReadDue

ObserverSound == OutboxFeedTypeOK /\ ShownWhenRead /\ BadgeFollows

LEMMA NoRowsType == NoRows \in [Sends -> Statuses] /\ 0 \in 0..MaxWrites /\ 0 <= MaxReads
BY OutboxFeedAssumption DEF NoRows, Statuses

LEMMA ObserverStarts == OutboxFeedInit => ObserverSound
<1> SUFFICES ASSUME OutboxFeedInit PROVE ObserverSound
  OBVIOUS
<1>1. OutboxFeedTypeOK
  <2>1. reads = <<>> /\ writes = 0 /\ nonEmpty = FALSE /\ badge = FALSE
    BY DEF OutboxFeedInit
  <2>2. reads \in Seq({"all", "one"}) /\ Len(reads) <= MaxReads BY <2>1, NoRowsType
  <2>3. nonEmpty \in BOOLEAN /\ badge \in BOOLEAN BY <2>1, Zenon
  <2> QED BY <2>1, <2>2, <2>3, NoRowsType DEF OutboxFeedInit, OutboxFeedTypeOK
<1>2. ShownWhenRead /\ BadgeFollows BY DEF OutboxFeedInit, ShownWhenRead, BadgeFollows
<1> QED BY <1>1, <1>2 DEF ObserverSound

LEMMA TableWrites ==
    ASSUME ObserverSound, NEW s \in Sends, NEW status \in Statuses, Writes(s, status)
    PROVE  table' \in [Sends -> Statuses] /\ writes' \in 0..MaxWrites
BY OutboxFeedAssumption DEF ObserverSound, OutboxFeedTypeOK, Writes

LEMMA WritesKeep ==
    ASSUME ObserverSound, NEW s \in Sends, AnnouncedWrite(s) \/ QueuedOffline(s) \/ SilentWrite(s)
    PROVE  ObserverSound'
<1>a. OutboxFeedTypeOK /\ ShownWhenRead /\ BadgeFollows BY DEF ObserverSound
<1>1. CASE AnnouncedWrite(s) \/ QueuedOffline(s)
  <2>1. /\ \E status \in Statuses : Writes(s, status)
        /\ owed' = owed \cup {s}
        /\ UNCHANGED <<reads, presented, observing, nonEmpty, badge, quietly>>
    BY <1>1 DEF AnnouncedWrite, QueuedOffline, Statuses
  <2>2. table' \in [Sends -> Statuses] /\ writes' \in 0..MaxWrites BY <2>1, TableWrites
  <2>3. OutboxFeedTypeOK' BY <2>1, <2>2, <1>a DEF OutboxFeedTypeOK
  <2>4. owed' # {} BY <2>1
  <2>5. ShownWhenRead' BY <2>4 DEF ShownWhenRead
  <2>6. BadgeFollows' BY <2>1, <2>4, <1>a DEF BadgeFollows
  <2> QED BY <2>3, <2>5, <2>6 DEF ObserverSound
<1>2. CASE SilentWrite(s)
  <2>1. /\ \E status \in Statuses : Writes(s, status)
        /\ quietly' = quietly \cup {"write", "ever"}
        /\ UNCHANGED <<owed, reads, presented, observing, nonEmpty, badge>>
    BY <1>2 DEF SilentWrite, Statuses
  <2>2. table' \in [Sends -> Statuses] /\ writes' \in 0..MaxWrites BY <2>1, TableWrites
  <2>3. OutboxFeedTypeOK' BY <2>1, <2>2, <1>a DEF OutboxFeedTypeOK
  <2>4. ShownWhenRead' /\ BadgeFollows' BY <2>1 DEF ShownWhenRead, BadgeFollows
  <2> QED BY <2>3, <2>4 DEF ObserverSound
<1> QED BY <1>1, <1>2

LEMMA ReadQueued ==
    ASSUME OutboxFeedTypeOK, NEW k \in {"all", "one"}, Len(reads) < MaxReads,
           reads' = Append(reads, k)
    PROVE  /\ reads' \in Seq({"all", "one"}) /\ Len(reads') <= MaxReads
           /\ FullReadDue' <=> FullReadDue \/ k = "all"
<1>1. /\ reads \in Seq({"all", "one"}) /\ Len(reads) \in Nat /\ MaxReads \in Nat
  BY OutboxFeedAssumption DEF OutboxFeedTypeOK
<1>2. /\ Len(reads') = Len(reads) + 1 /\ reads'[Len(reads) + 1] = k
      /\ \A i \in 1..Len(reads) : reads'[i] = reads[i]
  BY <1>1
<1>3. reads' \in Seq({"all", "one"}) /\ Len(reads') <= MaxReads BY <1>1, <1>2
<1>4. FullReadDue' <=> FullReadDue \/ k = "all" BY <1>1, <1>2 DEF FullReadDue
<1> QED BY <1>3, <1>4

LEMMA QueueingKeeps ==
    ASSUME ObserverSound, (\E s \in Sends : Announce(s)) \/ Observe
    PROVE  ObserverSound'
<1>a. OutboxFeedTypeOK /\ ShownWhenRead /\ BadgeFollows BY DEF ObserverSound
<1>1. CASE \E s \in Sends : Announce(s)
  <2>1. PICK s \in Sends : Announce(s) BY <1>1
  <2>2. /\ Len(reads) < MaxReads /\ reads' = Append(reads, "all") /\ owed' = owed \ {s}
        /\ UNCHANGED <<table, presented, observing, nonEmpty, badge, writes, quietly>>
    BY <2>1 DEF Announce
  <2>3. reads' \in Seq({"all", "one"}) /\ Len(reads') <= MaxReads /\ FullReadDue'
    BY <2>2, <1>a, ReadQueued
  <2>4. OutboxFeedTypeOK' BY <2>2, <2>3, <1>a DEF OutboxFeedTypeOK
  <2>5. ShownWhenRead' BY <2>3 DEF ShownWhenRead
  <2>6. BadgeFollows' BY <2>2, <2>3, <1>a DEF BadgeFollows
  <2> QED BY <2>4, <2>5, <2>6 DEF ObserverSound
<1>2. CASE Observe
  <2>1. /\ Len(reads) < MaxReads /\ reads' = Append(reads, "one") /\ observing' = "new"
        /\ UNCHANGED <<table, owed, presented, nonEmpty, badge, writes, quietly>>
    BY <1>2 DEF Observe
  <2>2. /\ reads' \in Seq({"all", "one"}) /\ Len(reads') <= MaxReads
        /\ FullReadDue' <=> FullReadDue
    BY <2>1, <1>a, ReadQueued
  <2>3. OutboxFeedTypeOK' BY <2>1, <2>2, <1>a DEF OutboxFeedTypeOK
  <2>4. ShownWhenRead' BY <2>1 DEF ShownWhenRead
  <2>5. BadgeFollows' BY <2>1, <2>2, <1>a DEF BadgeFollows
  <2> QED BY <2>3, <2>4, <2>5 DEF ObserverSound
<1> QED BY <1>1, <1>2

LEMMA ReadDone ==
    ASSUME OutboxFeedTypeOK, reads # <<>>, reads' = Tail(reads)
    PROVE  /\ reads' \in Seq({"all", "one"}) /\ Len(reads') <= MaxReads
           /\ Head(reads) \in {"all", "one"}
           /\ Head(reads) = "one" => (FullReadDue' <=> FullReadDue)
<1>1. reads \in Seq({"all", "one"}) /\ Len(reads) \in Nat /\ Len(reads) <= MaxReads
  BY DEF OutboxFeedTypeOK
<1>2. /\ Len(reads') = Len(reads) - 1 /\ reads' \in Seq({"all", "one"})
      /\ Head(reads) = reads[1] /\ Head(reads) \in {"all", "one"}
      /\ \A i \in 1..Len(reads') : reads'[i] = reads[i + 1] /\ i + 1 \in 1..Len(reads)
      /\ \A i \in 1..Len(reads) : i = 1 \/ (i - 1 \in 1..Len(reads') /\ reads'[i - 1] = reads[i])
  BY <1>1
<1>3. Len(reads') <= MaxReads BY <1>1, <1>2, OutboxFeedAssumption
<1>4. Head(reads) = "one" => (FullReadDue' <=> FullReadDue) BY SMTT(30), <1>2 DEF FullReadDue
<1> QED BY <1>2, <1>3, <1>4

LEMMA ReadingKeeps ==
    ASSUME ObserverSound, ReadEnds \/ ReadRejects \/ FeedReload
    PROVE  ObserverSound'
<1>a. OutboxFeedTypeOK /\ ShownWhenRead /\ BadgeFollows BY DEF ObserverSound
<1>1. CASE ReadEnds
  <2>1. /\ reads # <<>> /\ reads' = Tail(reads)
        /\ IF observing = "no" THEN UNCHANGED <<presented, observing>>
           ELSE presented' = table /\ observing' = "yes"
        /\ UNCHANGED <<table, owed, writes>>
    BY <1>1 DEF ReadEnds
  <2>2. /\ reads' \in Seq({"all", "one"}) /\ Len(reads') <= MaxReads
        /\ Head(reads) \in {"all", "one"}
        /\ Head(reads) = "one" => (FullReadDue' <=> FullReadDue)
    BY <2>1, <1>a, ReadDone
  <2>3. ShownWhenRead' BY <2>1 DEF ShownWhenRead
  <2>4. CASE Head(reads) = "one"
    <3>1. /\ badge' = (badge \/ (observing # "no" /\ table # NoRows))
          /\ quietly' = quietly \cup IF table # NoRows /\ ~nonEmpty THEN {"early"} ELSE {}
          /\ nonEmpty' = nonEmpty
      BY <2>4, <1>1 DEF ReadEnds
    <3>2. OutboxFeedTypeOK' BY <3>1, <2>1, <2>2, <1>a DEF OutboxFeedTypeOK
    <3>3. BadgeFollows' BY <3>1, <2>1, <2>2, <2>4, <1>a DEF BadgeFollows
    <3> QED BY <3>2, <3>3, <2>3 DEF ObserverSound
  <2>5. CASE Head(reads) = "all"
    <3>1. /\ nonEmpty' = (table # NoRows)
          /\ badge' = ((badge \/ (observing # "no" /\ table # NoRows)) /\ ~Drained(table))
          /\ quietly' = quietly \ {"write"}
      BY <2>5, <1>1 DEF ReadEnds
    <3>2. OutboxFeedTypeOK' BY <3>1, <2>1, <2>2, <1>a DEF OutboxFeedTypeOK
    <3>3. BadgeFollows'
      <4> SUFFICES ASSUME quietly' = {}, badge' PROVE nonEmpty' /\ table' # NoRows
        BY <3>1, <1>a DEF BadgeFollows
      <4>1. quietly = {} BY <3>1, <1>a DEF BadgeFollows
      <4>2. table # NoRows BY <4>1, <3>1, <1>a DEF BadgeFollows, Drained
      <4> QED BY <4>2, <3>1, <2>1
    <3> QED BY <3>2, <3>3, <2>3 DEF ObserverSound
  <2> QED BY <2>2, <2>4, <2>5
<1>2. CASE ReadRejects
  <2>1. /\ reads # <<>> /\ reads' = Tail(reads)
        /\ quietly' = quietly \cup {"write", "ever"}
        /\ UNCHANGED <<table, owed, presented, observing, nonEmpty, badge, writes>>
    BY <1>2 DEF ReadRejects
  <2>2. reads' \in Seq({"all", "one"}) /\ Len(reads') <= MaxReads
    BY <2>1, <1>a, ReadDone
  <2>3. OutboxFeedTypeOK' BY <2>1, <2>2, <1>a DEF OutboxFeedTypeOK
  <2>4. ShownWhenRead' /\ BadgeFollows' BY <2>1 DEF ShownWhenRead, BadgeFollows
  <2> QED BY <2>3, <2>4 DEF ObserverSound
<1>3. CASE FeedReload
  <2>1. /\ owed' = {} /\ reads' = <<>> /\ presented' = NoRows
        /\ observing' = "no" /\ nonEmpty' = FALSE /\ badge' = FALSE
        /\ quietly' = {} /\ UNCHANGED <<table, writes>>
    BY <1>3 DEF FeedReload
  <2>2. OutboxFeedTypeOK'
    <3>1. reads' \in Seq({"all", "one"}) /\ Len(reads') <= MaxReads BY <2>1, NoRowsType
    <3>2. nonEmpty' \in BOOLEAN /\ badge' \in BOOLEAN BY <2>1, Zenon
    <3> QED BY <3>1, <3>2, <2>1, <1>a, NoRowsType DEF OutboxFeedTypeOK
  <2>3. ShownWhenRead' /\ BadgeFollows' BY <2>1 DEF ShownWhenRead, BadgeFollows
  <2> QED BY <2>2, <2>3 DEF ObserverSound
<1> QED BY <1>1, <1>2, <1>3

LEMMA ObserverKeepsSound ==
    ASSUME ObserverSound, OutboxFeedNext \/ UNCHANGED outboxFeedVars
    PROVE  ObserverSound'
<1>1. CASE UNCHANGED outboxFeedVars
  <2>1. UNCHANGED <<table, owed, reads, presented, observing, nonEmpty, badge, writes, quietly>>
    BY <1>1 DEF outboxFeedVars
  <2> QED BY <2>1
        DEF ObserverSound, OutboxFeedTypeOK, ShownWhenRead, BadgeFollows, FullReadDue
<1> QED BY <1>1, WritesKeep, QueueingKeeps, ReadingKeeps DEF OutboxFeedNext

LEMMA SoundObserver == ObserverSound => ObserverIsCurrent
<1> SUFFICES ASSUME ObserverSound, ToldAll
             PROVE  /\ observing = "yes" /\ "write" \notin quietly => presented = table
                    /\ quietly = {} /\ badge => table # NoRows
  BY DEF ObserverIsCurrent
<1>1. owed = {} /\ ~FullReadDue BY DEF ToldAll, FullReadDue
<1> QED BY <1>1 DEF ObserverSound, ShownWhenRead, BadgeFollows

-----------------------------------------------------------------------------
(* Who hears what the bus emits (EventFeed).                               *)

EmitCall == [event : Nat, rest : Seq(Listeners)]

FeedTyped ==
    /\ emitted \in Nat /\ past \in Seq(Nat) /\ list \in Seq(Listeners)
    /\ stack \in Seq(EmitCall)
    /\ joined \in [Listeners -> SUBSET Nat] /\ listened \in [Listeners -> Seq(Nat)]
    /\ seen \in [upto : Nat, missed : SUBSET Nat]

Single(s) == \A i, j \in 1..Len(s) : s[i] = s[j] => i = j

\* The call k still has its event for listener l.
StillFor(k, l) == l \in Heard(stack[k].rest)

\* The calls under way carry events of their own to listeners of their own.
CallsDiffer ==
    /\ Single(list)
    /\ \A k \in 1..Len(stack) : Single(stack[k].rest) /\ stack[k].event \in 1..emitted
    /\ \A k, m \in 1..Len(stack) : stack[k].event = stack[m].event => k = m

\* What a listener is to hear it has heard once, or a call under way has it.
HeardOrComing(l) ==
    /\ joined[l] \subseteq 1..emitted /\ Heard(listened[l]) \subseteq joined[l]
    /\ Single(listened[l])
    /\ \A e \in joined[l] : \/ e \in Heard(listened[l])
                            \/ \E k \in 1..Len(stack) : StillFor(k, l) /\ stack[k].event = e
    /\ \A k \in 1..Len(stack) : StillFor(k, l) =>
          stack[k].event \in joined[l] /\ stack[k].event \notin Heard(listened[l])

HistoryKept ==
    /\ past = [i \in 1..Len(past) |-> emitted - Len(past) + i]
    /\ Len(past) = IF emitted < HistoryLimit THEN emitted ELSE HistoryLimit

PollerBehind ==
    seen.upto <= emitted /\ \A e \in seen.missed : e + HistoryLimit <= emitted

FeedSound ==
    /\ FeedTyped /\ CallsDiffer /\ HistoryKept /\ PollerBehind
    /\ \A l \in Listeners : HeardOrComing(l)

LEMMA FeedNumbers == HistoryLimit \in Nat /\ HistoryLimit > 0
BY FeedAssumption

LEMMA HeardIs ==
    ASSUME NEW S, NEW s \in Seq(S), NEW x
    PROVE  /\ x \in Heard(s) <=> \E i \in 1..Len(s) : s[i] = x
           /\ Heard(s) \subseteq S
           /\ s = <<>> => Heard(s) = {}
BY DEF Heard

LEMMA HeardAppend ==
    ASSUME NEW S, NEW s \in Seq(S), NEW x \in S
    PROVE  /\ Heard(Append(s, x)) = Heard(s) \cup {x}
           /\ Single(s) /\ x \notin Heard(s) => Single(Append(s, x))
<1>1. /\ Len(s) \in Nat /\ Len(Append(s, x)) = Len(s) + 1
      /\ Append(s, x)[Len(s) + 1] = x /\ \A i \in 1..Len(s) : Append(s, x)[i] = s[i]
  OBVIOUS
<1>2. Heard(Append(s, x)) = Heard(s) \cup {x} BY <1>1 DEF Heard
<1>3. Single(s) /\ x \notin Heard(s) => Single(Append(s, x)) BY <1>1 DEF Heard, Single
<1> QED BY <1>2, <1>3

LEMMA HeardTail ==
    ASSUME NEW S, NEW s \in Seq(S), s # <<>>, Single(s)
    PROVE  /\ Head(s) \in S /\ Tail(s) \in Seq(S) /\ Single(Tail(s))
           /\ Heard(s) = Heard(Tail(s)) \cup {Head(s)} /\ Head(s) \notin Heard(Tail(s))
<1>1. /\ Len(s) \in Nat /\ Len(Tail(s)) = Len(s) - 1 /\ Tail(s) \in Seq(S)
      /\ Head(s) = s[1] /\ s[1] \in S /\ 1 \in 1..Len(s)
      /\ \A i \in 1..Len(Tail(s)) : Tail(s)[i] = s[i + 1] /\ i + 1 \in 1..Len(s)
      /\ \A i \in 1..Len(s) : i = 1 \/ (i - 1 \in 1..Len(Tail(s)) /\ Tail(s)[i - 1] = s[i])
  OBVIOUS
<1>2. Single(Tail(s))
  <2> SUFFICES ASSUME NEW i \in 1..Len(Tail(s)), NEW j \in 1..Len(Tail(s)),
                      Tail(s)[i] = Tail(s)[j]
               PROVE  i = j
    BY DEF Single
  <2>1. s[i + 1] = s[j + 1] BY <1>1
  <2>2. i + 1 = j + 1 BY <2>1, <1>1 DEF Single
  <2> QED BY <2>2
<1>3. Heard(s) = Heard(Tail(s)) \cup {Head(s)}
  <2>1. ASSUME NEW x \in Heard(s) PROVE x \in Heard(Tail(s)) \cup {Head(s)}
    BY <2>1, <1>1 DEF Heard
  <2>2. ASSUME NEW x \in Heard(Tail(s)) PROVE x \in Heard(s)
    BY <2>2, <1>1 DEF Heard
  <2> QED BY <2>1, <2>2, <1>1 DEF Heard
<1>4. Head(s) \notin Heard(Tail(s))
  <2> SUFFICES ASSUME NEW i \in 1..Len(Tail(s)), Tail(s)[i] = Head(s) PROVE FALSE
    BY DEF Heard
  <2>1. s[i + 1] = s[1] /\ i + 1 \in 1..Len(s) BY <1>1
  <2>2. i + 1 = 1 BY <2>1, <1>1 DEF Single
  <2> QED BY <2>2
<1> QED BY <1>1, <1>2, <1>3, <1>4

LEMMA StretchIs ==
    ASSUME NEW S, NEW s \in Seq(S), NEW a \in Nat, NEW b \in Nat, a <= b, b <= Len(s)
    PROVE  /\ SubSeq(s, a + 1, b) \in Seq(S) /\ Len(SubSeq(s, a + 1, b)) = b - a
           /\ \A j \in 1..(b - a) : SubSeq(s, a + 1, b)[j] = s[a + j] /\ a + j \in 1..Len(s)
<1>0. Len(s) \in Nat OBVIOUS
<1>1. SubSeq(s, a + 1, b) \in Seq(S)
  <2>1. \A j \in (a + 1)..b : j \in 1..Len(s) BY <1>0
  <2> QED BY <2>1
<1>2. Len(SubSeq(s, a + 1, b)) = b - a OBVIOUS
<1>3. \A j \in 1..(b - a) : SubSeq(s, a + 1, b)[j] = s[a + j] OBVIOUS
<1>4. \A j \in 1..(b - a) : a + j \in 1..Len(s) BY <1>0
<1> QED BY <1>1, <1>2, <1>3, <1>4

LEMMA JoinIs ==
    ASSUME NEW S, NEW s \in Seq(S), NEW t \in Seq(S)
    PROVE  /\ s \o t \in Seq(S) /\ Len(s \o t) = Len(s) + Len(t)
           /\ \A j \in 1..Len(s) : (s \o t)[j] = s[j]
           /\ \A j \in 1..Len(t) : (s \o t)[Len(s) + j] = t[j]
OBVIOUS

LEMMA FeedStarts == FeedInit => FeedSound
<1> SUFFICES ASSUME FeedInit PROVE FeedSound
  OBVIOUS
<1>1. /\ emitted = 0 /\ past = <<>> /\ list = <<>> /\ stack = <<>>
      /\ joined = [l \in Listeners |-> {}] /\ listened = [l \in Listeners |-> <<>>]
      /\ seen = [upto |-> 0, missed |-> {}]
  BY DEF FeedInit
<1>2. FeedTyped BY <1>1 DEF FeedTyped
<1>3. CallsDiffer BY <1>1 DEF CallsDiffer, Single
<1>4. HistoryKept
  <2>1. <<>> = [i \in 1..0 |-> 0 - 0 + i] OBVIOUS
  <2>2. Len(past) = 0 BY <1>1
  <2> QED BY <2>1, <2>2, <1>1, FeedNumbers DEF HistoryKept
<1>5. PollerBehind BY <1>1 DEF PollerBehind
<1>6. ASSUME NEW l \in Listeners PROVE HeardOrComing(l)
  <2>1. joined[l] = {} /\ listened[l] = <<>> BY <1>1
  <2>2. Heard(listened[l]) = {} BY <2>1 DEF Heard
  <2> QED BY <2>1, <2>2, <1>1 DEF HeardOrComing, Single
<1> QED BY <1>2, <1>3, <1>4, <1>5, <1>6 DEF FeedSound

LEMMA EmitKeeps ==
    ASSUME FeedSound, Emit, UNCHANGED <<list, listened, seen>>
    PROVE  FeedSound'
<1>a. /\ FeedTyped /\ CallsDiffer /\ HistoryKept /\ PollerBehind
      /\ \A l \in Listeners : HeardOrComing(l)
  BY DEF FeedSound
<1>0. HistoryLimit \in Nat /\ HistoryLimit > 0 BY FeedNumbers
<1>p. PICK e, n : e = emitted + 1 /\ n = Len(stack) OBVIOUS
<1> DEFINE made == [event |-> e, rest |-> list]
<1>1. /\ emitted' = e /\ past' = Remembered(past, e) /\ stack' = Append(stack, made)
      /\ joined' = [l \in Listeners |-> joined[l] \cup IF l \in Heard(list) THEN {e} ELSE {}]
  BY <1>p DEF Emit, Audience
<1>2. /\ emitted \in Nat /\ e \in Nat /\ e = emitted + 1 /\ list \in Seq(Listeners)
      /\ stack \in Seq(EmitCall) /\ past \in Seq(Nat)
  BY <1>a, <1>p DEF FeedTyped
<1>3. made \in EmitCall /\ made.event = e /\ made.rest = list BY <1>2 DEF EmitCall
<1> HIDE DEF made
<1>4. /\ stack' \in Seq(EmitCall) /\ n \in Nat /\ Len(stack') = n + 1 /\ stack'[n + 1] = made
      /\ n + 1 \in 1..Len(stack')
      /\ \A k \in 1..n : stack'[k] = stack[k] /\ k \in 1..Len(stack')
      /\ \A k \in 1..Len(stack') : k \in 1..n \/ k = n + 1
  BY <1>1, <1>2, <1>3, <1>p
<1>5. past' \in Seq(Nat) /\ HistoryKept'
  <2>m. PICK m \in Nat : m = Len(past) BY <1>2
  <2> DEFINE more == Append(past, e)
  <2>1. /\ m <= HistoryLimit /\ m <= emitted
        /\ m < HistoryLimit => m = emitted
    BY <2>m, <1>0, <1>2, <1>a DEF HistoryKept
  <2>2. \A i \in 1..m : past[i] = emitted - m + i BY <2>m, <1>a DEF HistoryKept
  <2>3. /\ more \in Seq(Nat) /\ Len(more) = m + 1 /\ more[m + 1] = e
        /\ \A i \in 1..m : more[i] = past[i]
    BY <2>m, <1>2
  <2>4. past' = IF Len(more) > HistoryLimit THEN Tail(more) ELSE more
    BY <1>1 DEF Remembered
  <2> HIDE DEF more
  <2>5. CASE m + 1 > HistoryLimit
    <3>1. more # <<>> /\ m = HistoryLimit BY <2>1, <2>3, <2>5, <1>0
    <3>2. past' = Tail(more) BY <2>3, <2>4, <2>5
    <3>3. past' \in Seq(Nat) /\ Len(past') = m BY <3>1, <3>2, <2>1, <2>3
    <3>4. \A i \in 1..m : past'[i] = more[i + 1] BY <3>1, <3>2, <2>1, <2>3
    <3>5. ASSUME NEW i \in 1..m PROVE past'[i] = e - m + i
      <4>1. CASE i = m BY <4>1, <3>4, <2>1, <2>3, <1>2
      <4>2. CASE i # m
        <5>1. i + 1 \in 1..m BY <4>2, <2>1
        <5>2. past'[i] = emitted - m + (i + 1) BY <5>1, <3>4, <2>2, <2>3
        <5>3. i \in Nat /\ emitted - m + (i + 1) = (emitted + 1) - m + i BY <2>m, <1>2
        <5>4. emitted - m + (i + 1) = e - m + i BY <5>3, <1>2
        <5> QED BY <5>2, <5>4
      <4> QED BY <4>1, <4>2
    <3>6. past' = [i \in 1..Len(past') |-> e - Len(past') + i] BY <3>3, <3>5
    <3>7. ~(e < HistoryLimit) BY <3>1, <2>1, <1>0, <1>2
    <3>8. Len(past') = IF e < HistoryLimit THEN e ELSE HistoryLimit BY <3>1, <3>3, <3>7
    <3> QED BY <3>3, <3>6, <3>8, <1>1 DEF HistoryKept
  <2>6. CASE ~(m + 1 > HistoryLimit)
    <3>1. past' = more /\ m = emitted BY <2>1, <2>3, <2>4, <2>6, <1>0, <1>2
    <3>2. past' \in Seq(Nat) /\ Len(past') = m + 1 BY <3>1, <2>3
    <3>3. ASSUME NEW i \in 1..(m + 1) PROVE past'[i] = e - (m + 1) + i
      <4>1. CASE i = m + 1 BY <4>1, <3>1, <2>1, <2>3, <1>2
      <4>2. CASE i # m + 1
        <5>1. i \in 1..m BY <4>2, <2>1
        <5>2. past'[i] = emitted - m + i BY <5>1, <3>1, <2>2, <2>3
        <5> QED BY <5>2, <2>1, <1>2
      <4> QED BY <4>1, <4>2
    <3>4. past' = [i \in 1..Len(past') |-> e - Len(past') + i] BY <3>2, <3>3
    <3>5. Len(past') = IF e < HistoryLimit THEN e ELSE HistoryLimit
      BY <3>1, <3>2, <2>6, <1>0, <1>2
    <3> QED BY <3>2, <3>4, <3>5, <1>1 DEF HistoryKept
  <2> QED BY <2>5, <2>6
<1>6. FeedTyped'
  <2>1. ASSUME NEW l \in Listeners PROVE joined'[l] \subseteq Nat
    BY <1>1, <1>2, <1>a DEF FeedTyped
  <2>2. joined' \in [Listeners -> SUBSET Nat] BY <2>1, <1>1
  <2> QED BY <2>2, <1>1, <1>2, <1>4, <1>5, <1>a DEF FeedTyped
<1>7. CallsDiffer'
  <2>1. Single(list) BY <1>a DEF CallsDiffer
  <2>2. Single(list)' BY <2>1 DEF Single
  <2>3. ASSUME NEW k \in 1..Len(stack')
        PROVE  Single(stack[k].rest)' /\ stack'[k].event \in 1..e
    <3>1. CASE k \in 1..n
      <4>1. Single(stack[k].rest) /\ stack[k].event \in 1..emitted
        BY <3>1, <1>a, <1>p DEF CallsDiffer
      <4>2. stack'[k] = stack[k] BY <3>1, <1>4
      <4>3. Single(stack[k].rest)' BY <4>1, <4>2 DEF Single
      <4>4. stack[k].event \in 1..e BY <4>1, <1>2
      <4> QED BY <4>2, <4>3, <4>4
    <3>2. CASE k = n + 1
      <4>1. stack'[k].rest = list /\ stack'[k].event = e BY <3>2, <1>3, <1>4
      <4> QED BY <4>1, <2>1, <1>2 DEF Single
    <3> QED BY <3>1, <3>2, <1>4
  <2>4. ASSUME NEW k \in 1..Len(stack'), NEW j \in 1..Len(stack'),
               stack'[k].event = stack'[j].event
        PROVE  k = j
    <3>1. \A i \in 1..n : stack'[i].event \in 1..emitted BY <1>4, <1>a, <1>p DEF CallsDiffer
    <3>2. stack'[n + 1].event = e /\ e \notin 1..emitted BY <1>2, <1>3, <1>4
    <3>3. CASE k \in 1..n /\ j \in 1..n BY <3>3, <2>4, <1>4, <1>a, <1>p DEF CallsDiffer
    <3> QED BY <3>1, <3>2, <3>3, <2>4, <1>4
  <2> QED BY <2>2, <2>3, <2>4, <1>1 DEF CallsDiffer
<1>8. PollerBehind' BY <1>1, <1>2, <1>0, <1>a DEF PollerBehind, FeedTyped
<1>9. ASSUME NEW l \in Listeners PROVE HeardOrComing(l)'
  <2>1. HeardOrComing(l) BY <1>a
  <2>2. joined'[l] = joined[l] \cup IF l \in Heard(list) THEN {e} ELSE {} BY <1>1
  <2>3. Heard(listened[l])' = Heard(listened[l]) /\ Single(listened[l])'
    BY <2>1 DEF HeardOrComing, Heard, Single
  <2>4. \A k \in 1..n : StillFor(k, l)' <=> StillFor(k, l) BY <1>4 DEF StillFor, Heard
  <2>5. StillFor(n + 1, l)' <=> l \in Heard(list) BY <1>3, <1>4 DEF StillFor, Heard
  <2>6. e \notin joined[l] /\ e \notin Heard(listened[l])
    BY <2>1, <1>2 DEF HeardOrComing
  <2>7. joined'[l] \subseteq 1..e BY <2>1, <2>2, <1>2 DEF HeardOrComing
  <2>8. ASSUME NEW x \in joined'[l], x \notin Heard(listened[l])
        PROVE  \E k \in 1..Len(stack') : StillFor(k, l)' /\ stack'[k].event = x
    <3>1. CASE x = e /\ l \in Heard(list) BY <3>1, <2>5, <1>3, <1>4
    <3>2. CASE x \in joined[l]
      <4>1. PICK k \in 1..n : StillFor(k, l) /\ stack[k].event = x
        BY <3>2, <2>8, <2>1, <1>p DEF HeardOrComing
      <4> QED BY <4>1, <2>4, <1>4
    <3> QED BY <3>1, <3>2, <2>2, <2>8
  <2>9. ASSUME NEW k \in 1..Len(stack'), StillFor(k, l)'
        PROVE  stack'[k].event \in joined'[l] /\ stack'[k].event \notin Heard(listened[l])
    <3>1. CASE k \in 1..n
      <4>1. StillFor(k, l) /\ stack'[k] = stack[k] BY <3>1, <2>4, <2>9, <1>4
      <4> QED BY <4>1, <3>1, <2>1, <2>2, <1>p DEF HeardOrComing
    <3>2. CASE k = n + 1 BY <3>2, <2>2, <2>5, <2>6, <2>9, <1>3, <1>4
    <3> QED BY <3>1, <3>2, <1>4
  <2>10. Heard(listened[l]) \subseteq joined'[l] BY <2>1, <2>2 DEF HeardOrComing
  <2> QED BY <2>3, <2>7, <2>8, <2>9, <2>10, <1>1 DEF HeardOrComing
<1> QED BY <1>5, <1>6, <1>7, <1>8, <1>9 DEF FeedSound

\* The innermost call tells its next listener.
LEMMA TellKeeps ==
    ASSUME FeedSound, Tell
    PROVE  FeedSound'
<1>a. /\ FeedTyped /\ CallsDiffer /\ HistoryKept /\ PollerBehind
      /\ \A l \in Listeners : HeardOrComing(l)
  BY DEF FeedSound
<1>p. PICK n, e, rest, h : /\ n = Len(stack) /\ e = stack[n].event
                           /\ rest = stack[n].rest /\ h = Head(rest)
  OBVIOUS
<1>1. /\ stack # <<>> /\ rest # <<>>
      /\ listened' = [listened EXCEPT ![h] = Append(@, e)]
      /\ stack' = [stack EXCEPT ![n].rest = Tail(@)]
      /\ UNCHANGED <<emitted, past, list, joined, seen>>
  BY <1>p DEF Tell, Top
<1>2. stack \in Seq(EmitCall) /\ n \in Nat /\ n \in 1..n BY <1>1, <1>p, <1>a DEF FeedTyped
<1>3. stack[n] \in EmitCall /\ e \in Nat /\ rest \in Seq(Listeners)
  <2>1. stack[n] \in EmitCall BY <1>2, <1>p
  <2> QED BY <2>1, <1>p DEF EmitCall
<1>4. Single(rest) BY <1>2, <1>p, <1>a DEF CallsDiffer
<1>5. /\ h \in Listeners /\ Tail(rest) \in Seq(Listeners) /\ Single(Tail(rest))
      /\ Heard(rest) = Heard(Tail(rest)) \cup {h} /\ h \notin Heard(Tail(rest))
  BY <1>1, <1>3, <1>4, <1>p, HeardTail
<1>6. /\ stack' \in Seq(EmitCall) /\ Len(stack') = n
      /\ stack'[n].event = e /\ stack'[n].rest = Tail(rest)
      /\ \A k \in 1..n : k # n => stack'[k] = stack[k]
      /\ \A k \in 1..n : stack'[k].event = stack[k].event
  <2> DEFINE left == [stack[n] EXCEPT !.rest = Tail(@)]
  <2>1. left \in EmitCall /\ left.event = e /\ left.rest = Tail(rest)
    BY <1>3, <1>5, <1>p DEF EmitCall
  <2>2. stack' = [stack EXCEPT ![n] = left] BY <1>1
  <2> HIDE DEF left
  <2> QED BY <2>1, <2>2, <1>2, <1>p
<1>7. /\ listened[h] \in Seq(Nat) /\ listened' \in [Listeners -> Seq(Nat)]
      /\ listened'[h] = Append(listened[h], e)
      /\ \A l \in Listeners : l # h => listened'[l] = listened[l]
  BY <1>1, <1>3, <1>5, <1>a DEF FeedTyped
<1>8. FeedTyped' BY <1>1, <1>6, <1>7, <1>a DEF FeedTyped
<1>9. CallsDiffer'
  <2>1. Single(list)' BY <1>1, <1>a DEF CallsDiffer, Single
  <2>2. ASSUME NEW k \in 1..n PROVE Single(stack[k].rest)' /\ stack'[k].event \in 1..emitted
    <3>1. Single(stack[k].rest) /\ stack[k].event \in 1..emitted
      BY <1>p, <1>a DEF CallsDiffer
    <3>2. CASE k = n BY <3>1, <3>2, <1>5, <1>6 DEF Single
    <3>3. CASE k # n BY <3>1, <3>3, <1>6 DEF Single
    <3> QED BY <3>2, <3>3
  <2>3. ASSUME NEW k \in 1..n, NEW j \in 1..n, stack'[k].event = stack'[j].event PROVE k = j
    BY <2>3, <1>6, <1>p, <1>a DEF CallsDiffer
  <2> QED BY <2>1, <2>2, <2>3, <1>1, <1>6 DEF CallsDiffer
<1>10. HistoryKept' /\ PollerBehind' BY <1>1, <1>a DEF HistoryKept, PollerBehind
<1>11. ASSUME NEW l \in Listeners PROVE HeardOrComing(l)'
  <2>1. HeardOrComing(l) BY <1>a
  <2>2. \A k \in 1..n : k # n => (StillFor(k, l)' <=> StillFor(k, l))
    BY <1>6 DEF StillFor, Heard
  <2>3. /\ StillFor(n, l)' <=> l \in Heard(Tail(rest))
        /\ StillFor(n, l) <=> l \in Heard(rest)
    BY <1>6, <1>p DEF StillFor, Heard
  <2>4. joined' = joined /\ emitted' = emitted /\ Len(stack') = n BY <1>1, <1>6
  <2>5. CASE l = h
    <3>1. StillFor(n, l) /\ ~StillFor(n, l)' BY <2>3, <2>5, <1>5
    <3>2. e \in joined[l] /\ e \notin Heard(listened[l])
      BY <3>1, <2>1, <1>2, <1>p DEF HeardOrComing
    <3>3. Heard(listened'[l]) = Heard(listened[l]) \cup {e} /\ Single(listened'[l])
      BY SMTT(30), <3>2, <2>1, <2>5, <1>3, <1>7, HeardAppend DEF HeardOrComing
    <3>4. Heard(listened[l])' = Heard(listened[l]) \cup {e} /\ Single(listened[l])'
      BY <3>3 DEF Heard, Single
    <3>5. ASSUME NEW k \in 1..n, StillFor(k, l)'
          PROVE  stack'[k].event \in joined[l] /\ stack'[k].event \notin Heard(listened[l]) \cup {e}
      <4>1. k # n BY <3>1, <3>5
      <4>2. StillFor(k, l) BY <4>1, <3>5, <2>2
      <4>3. stack[k].event # e BY <4>1, <1>2, <1>p, <1>a DEF CallsDiffer
      <4> QED BY <4>2, <4>3, <2>1, <1>6, <1>p DEF HeardOrComing
    <3>6. ASSUME NEW x \in joined[l], x \notin Heard(listened[l]) \cup {e}
          PROVE  \E k \in 1..n : StillFor(k, l)' /\ stack'[k].event = x
      <4>1. PICK k \in 1..n : StillFor(k, l) /\ stack[k].event = x
        BY <3>6, <2>1, <1>p DEF HeardOrComing
      <4>2. k # n BY <4>1, <3>6, <1>p
      <4> QED BY <4>1, <4>2, <2>2, <1>6
    <3>7. joined[l] \subseteq 1..emitted /\ Heard(listened[l]) \cup {e} \subseteq joined[l]
      BY <3>2, <2>1 DEF HeardOrComing
    <3> QED BY <3>4, <3>5, <3>6, <3>7, <2>4 DEF HeardOrComing
  <2>6. CASE l # h
    <3>1. \A k \in 1..n : StillFor(k, l)' <=> StillFor(k, l)
      BY <2>2, <2>3, <2>6, <1>5
    <3>2. listened'[l] = listened[l] BY <2>6, <1>7
    <3>3. Heard(listened[l])' = Heard(listened[l]) /\ Single(listened[l])'
      BY <3>2, <2>1 DEF HeardOrComing, Heard, Single
    <3>4. ASSUME NEW k \in 1..n, StillFor(k, l)'
          PROVE  stack'[k].event \in joined[l] /\ stack'[k].event \notin Heard(listened[l])
      BY <3>1, <3>4, <2>1, <1>6, <1>p DEF HeardOrComing
    <3>5. ASSUME NEW x \in joined[l], x \notin Heard(listened[l])
          PROVE  \E k \in 1..n : StillFor(k, l)' /\ stack'[k].event = x
      BY <3>1, <3>5, <2>1, <1>6, <1>p DEF HeardOrComing
    <3>6. joined[l] \subseteq 1..emitted /\ Heard(listened[l]) \subseteq joined[l]
      BY <2>1 DEF HeardOrComing
    <3> QED BY <3>3, <3>4, <3>5, <3>6, <2>4 DEF HeardOrComing
  <2> QED BY <2>5, <2>6
<1> QED BY <1>8, <1>9, <1>10, <1>11 DEF FeedSound

\* A call returns that has told all its listeners.
LEMMA ReturnKeeps ==
    ASSUME FeedSound, EmitReturns
    PROVE  FeedSound'
<1>a. /\ FeedTyped /\ CallsDiffer /\ HistoryKept /\ PollerBehind
      /\ \A l \in Listeners : HeardOrComing(l)
  BY DEF FeedSound
<1>p. PICK n : n = Len(stack) OBVIOUS
<1>1. /\ stack # <<>> /\ stack[n].rest = <<>> /\ stack' = SubSeq(stack, 1, n - 1)
      /\ UNCHANGED <<emitted, past, list, joined, listened, seen>>
  BY <1>p DEF EmitReturns, Top
<1>2. /\ stack \in Seq(EmitCall) /\ n \in Nat /\ n \in 1..n
      /\ stack' \in Seq(EmitCall) /\ Len(stack') = n - 1
      /\ \A k \in 1..(n - 1) : stack'[k] = stack[k] /\ k \in 1..n
  BY <1>1, <1>p, <1>a DEF FeedTyped
<1>3. FeedTyped' BY <1>1, <1>2, <1>a DEF FeedTyped
<1>4. CallsDiffer'
  <2>1. Single(list)' BY <1>1, <1>a DEF CallsDiffer, Single
  <2>2. ASSUME NEW k \in 1..(n - 1)
        PROVE  Single(stack[k].rest)' /\ stack'[k].event \in 1..emitted
    <3>1. Single(stack[k].rest) /\ stack[k].event \in 1..emitted
      BY <1>2, <1>p, <1>a DEF CallsDiffer
    <3> QED BY <3>1, <1>2 DEF Single
  <2>3. ASSUME NEW k \in 1..(n - 1), NEW j \in 1..(n - 1), stack'[k].event = stack'[j].event
        PROVE  k = j
    BY <2>3, <1>2, <1>p, <1>a DEF CallsDiffer
  <2> QED BY <2>1, <2>2, <2>3, <1>1, <1>2 DEF CallsDiffer
<1>5. HistoryKept' /\ PollerBehind' BY <1>1, <1>a DEF HistoryKept, PollerBehind
<1>6. ASSUME NEW l \in Listeners PROVE HeardOrComing(l)'
  <2>1. HeardOrComing(l) BY <1>a
  <2>2. \A k \in 1..(n - 1) : StillFor(k, l)' <=> StillFor(k, l) BY <1>2 DEF StillFor, Heard
  <2>3. ~StillFor(n, l) BY <1>1 DEF StillFor, Heard
  <2>4. \A k \in 1..n : k # n => k \in 1..(n - 1) BY <1>2
  <2>5. Heard(listened[l])' = Heard(listened[l]) /\ Single(listened[l])'
    BY <2>1, <1>1 DEF HeardOrComing, Heard, Single
  <2>6. ASSUME NEW k \in 1..(n - 1), StillFor(k, l)'
        PROVE  stack'[k].event \in joined[l] /\ stack'[k].event \notin Heard(listened[l])
    BY <2>6, <2>1, <2>2, <1>2, <1>p DEF HeardOrComing
  <2>7. ASSUME NEW x \in joined[l], x \notin Heard(listened[l])
        PROVE  \E k \in 1..(n - 1) : StillFor(k, l)' /\ stack'[k].event = x
    <3>1. PICK k \in 1..n : StillFor(k, l) /\ stack[k].event = x
      BY <2>7, <2>1, <1>p DEF HeardOrComing
    <3>2. k \in 1..(n - 1) BY <3>1, <2>3, <2>4
    <3> QED BY <3>1, <3>2, <2>2, <1>2
  <2>8. joined[l] \subseteq 1..emitted /\ Heard(listened[l]) \subseteq joined[l]
    BY <2>1 DEF HeardOrComing
  <2> QED BY <2>5, <2>6, <2>7, <2>8, <1>1, <1>2 DEF HeardOrComing
<1> QED BY <1>3, <1>4, <1>5, <1>6 DEF FeedSound

\* While no call changes, what is owed to a listener does not either.
LEMMA OwedStands ==
    ASSUME FeedSound, UNCHANGED <<emitted, stack, joined, listened>>, Single(list)'
    PROVE  CallsDiffer' /\ \A l \in Listeners : HeardOrComing(l)'
<1>1. CallsDiffer' BY DEF FeedSound, CallsDiffer, Single
<1>2. ASSUME NEW l \in Listeners PROVE HeardOrComing(l)'
  <2>1. HeardOrComing(l) BY DEF FeedSound
  <2>2. Heard(listened[l])' = Heard(listened[l]) /\ (Single(listened[l]) => Single(listened[l])')
    BY DEF Heard, Single
  <2>3. \A k : StillFor(k, l)' <=> StillFor(k, l) BY DEF StillFor, Heard
  <2> QED BY <2>1, <2>2, <2>3 DEF HeardOrComing
<1> QED BY <1>1, <1>2

LEMMA ListKeeps ==
    ASSUME FeedSound, NEW l \in Listeners, Subscribes(l) \/ Unsubscribes(l)
    PROVE  FeedSound'
<1>a. /\ FeedTyped /\ CallsDiffer /\ HistoryKept /\ PollerBehind
  BY DEF FeedSound
<1>0. list \in Seq(Listeners) /\ Single(list) BY <1>a DEF FeedTyped, CallsDiffer
<1>1. UNCHANGED <<emitted, past, stack, joined, listened, seen>>
  BY DEF Subscribes, Unsubscribes
<1>2. list' \in Seq(Listeners) /\ Single(list')
  <2>1. CASE Subscribes(l)
    <3>1. l \notin Heard(list) /\ list' = Append(list, l) BY <2>1 DEF Subscribes
    <3> QED BY <3>1, <1>0, HeardAppend
  <2>2. CASE Unsubscribes(l)
    <3>p. PICK n : n = Len(list) OBVIOUS
    <3>1. PICK i \in 1..n : list' = SubSeq(list, 1, i - 1) \o SubSeq(list, i + 1, n)
      BY <2>2, <3>p DEF Unsubscribes
    <3>2. n \in Nat BY <1>0, <3>p
    <3> DEFINE a == SubSeq(list, 1, i - 1)
               b == SubSeq(list, i + 1, n)
    <3>3. /\ a \in Seq(Listeners) /\ Len(a) = i - 1
          /\ \A k \in 1..(i - 1) : a[k] = list[k]
      <4>1. i - 1 \in Nat /\ i - 1 <= Len(list) /\ (i - 1) - 0 = i - 1 /\ 0 + 1 = 1
        BY <3>2, <3>p
      <4>2. \A k \in 1..(i - 1) : 0 + k = k OBVIOUS
      <4>3. 0 \in Nat /\ 0 <= i - 1 BY <4>1
      <4>4. /\ SubSeq(list, 0 + 1, i - 1) \in Seq(Listeners)
            /\ Len(SubSeq(list, 0 + 1, i - 1)) = (i - 1) - 0
            /\ \A k \in 1..((i - 1) - 0) : SubSeq(list, 0 + 1, i - 1)[k] = list[0 + k]
        BY <4>1, <4>3, <1>0, StretchIs
      <4> QED BY <4>1, <4>2, <4>4
    <3>4. /\ b \in Seq(Listeners) /\ Len(b) = n - i
          /\ \A k \in 1..(n - i) : b[k] = list[i + k]
      <4>1. i \in Nat /\ i <= n /\ n <= Len(list) BY <3>2, <3>p
      <4>2. /\ SubSeq(list, i + 1, n) \in Seq(Listeners)
            /\ Len(SubSeq(list, i + 1, n)) = n - i
            /\ \A k \in 1..(n - i) : SubSeq(list, i + 1, n)[k] = list[i + k]
        BY <4>1, <1>0, <3>2, StretchIs
      <4> QED BY <4>2
    <3> HIDE DEF a, b
    <3>5. list' = a \o b BY <3>1 DEF a, b
    <3>j. /\ a \o b \in Seq(Listeners) /\ Len(a \o b) = Len(a) + Len(b)
          /\ \A j \in 1..Len(a) : (a \o b)[j] = a[j]
          /\ \A j \in 1..Len(b) : (a \o b)[Len(a) + j] = b[j]
      <4>1. a \in Seq(Listeners) /\ b \in Seq(Listeners) BY <3>3, <3>4
      <4> QED BY <4>1, JoinIs
    <3>6. list' \in Seq(Listeners) /\ Len(list') = n - 1
      <4>1. (i - 1) + (n - i) = n - 1 BY <3>2
      <4> QED BY <4>1, <3>3, <3>4, <3>5, <3>j
    <3>7. \A k \in 1..(i - 1) : list'[k] = list[k] BY <3>3, <3>5, <3>j
    <3>8. ASSUME NEW k \in i..(n - 1) PROVE list'[k] = list[k + 1]
      <4>1. k - (i - 1) \in 1..(n - i) /\ i + (k - (i - 1)) = k + 1 BY <3>2
      <4>2. list'[k] = b[k - (i - 1)]
        <5>1. PICK d : d = k - (i - 1) OBVIOUS
        <5>2. d \in 1..(n - i) /\ (i - 1) + d = k BY <5>1, <4>1, <3>2
        <5>3. d \in 1..Len(b) BY <5>2, <3>4
        <5>4. (a \o b)[Len(a) + d] = b[d] BY <5>3, <3>j
        <5>5. Len(a) + d = k BY <5>2, <3>3
        <5> QED BY <5>1, <5>4, <5>5, <3>5
      <4> QED BY <4>1, <4>2, <3>4
    <3>9. ASSUME NEW j \in 1..(n - 1), NEW k \in 1..(n - 1), list'[j] = list'[k] PROVE j = k
      <4> DEFINE At(m) == IF m < i THEN m ELSE m + 1
      <4>1. \A m \in 1..(n - 1) : At(m) \in 1..n /\ list'[m] = list[At(m)]
        BY <3>2, <3>7, <3>8
      <4>2. At(j) = At(k) BY <4>1, <3>9, <3>p, <1>0 DEF Single
      <4> QED BY <4>2, <3>2
    <3> QED BY <3>6, <3>9 DEF Single
  <2> QED BY <2>1, <2>2
<1>3. Single(list)' BY <1>2 DEF Single
<1>4. CallsDiffer' /\ \A m \in Listeners : HeardOrComing(m)' BY <1>1, <1>3, OwedStands
<1>5. FeedTyped' BY <1>1, <1>2, <1>a DEF FeedTyped
<1>6. HistoryKept' /\ PollerBehind' BY <1>1, <1>a DEF HistoryKept, PollerBehind
<1> QED BY <1>4, <1>5, <1>6 DEF FeedSound

\* The answer of eventsSince is a stretch of the history: what came after
\* `from`, or all of it.
LEMMA PollKeeps ==
    ASSUME FeedSound, NEW limit \in 1..2, PollsEvents(limit)
    PROVE  FeedSound'
<1>a. /\ FeedTyped /\ CallsDiffer /\ HistoryKept /\ PollerBehind
  BY DEF FeedSound
<1>0. HistoryLimit \in Nat /\ HistoryLimit > 0 BY FeedNumbers
<1>p. PICK n, from : n = Len(past) /\ from = seen.upto OBVIOUS
<1>t. past \in Seq(Nat) /\ seen.missed \subseteq Nat BY <1>a DEF FeedTyped
<1>1. n \in Nat /\ emitted \in Nat /\ from \in Nat /\ from <= emitted
  BY <1>p, <1>a DEF FeedTyped, PollerBehind
<1>c. n <= emitted /\ (n < emitted => n = HistoryLimit)
  <2>1. n = IF emitted < HistoryLimit THEN emitted ELSE HistoryLimit
    BY <1>p, <1>a DEF HistoryKept
  <2> QED BY <2>1, <1>0, <1>1
<1>b. PICK base \in Nat : base + n = emitted
  <2>1. emitted - n \in Nat /\ (emitted - n) + n = emitted BY <1>c, <1>1
  <2> QED BY <2>1
<1>2. ASSUME NEW i \in 1..n PROVE past[i] = base + i
  <2>1. past[i] = emitted - n + i BY <1>p, <1>a DEF HistoryKept
  <2> QED BY <2>1, <1>1, <1>b
<1>k. PICK k \in 0..n : IF from <= base THEN k = 0 ELSE base + k = from
  <2>1. CASE from <= base
    <3>1. 0 \in 0..n BY <1>1
    <3> QED BY <2>1, <3>1
  <2>2. CASE ~(from <= base)
    <3>1. from - base \in 0..n /\ base + (from - base) = from BY <2>2, <1>1, <1>b
    <3> QED BY <2>2, <3>1
  <2> QED BY <2>1, <2>2
<1>3. {i \in 1..n : past[i] <= from} = 1..k
  <2>1. ASSUME NEW i \in 1..n PROVE past[i] <= from <=> i <= k BY <1>1, <1>2, <1>b, <1>k
  <2>2. 1..k \subseteq 1..n BY <1>1, <1>k
  <2> QED BY <2>1, <2>2, <1>k
<1>4. Cardinality({i \in 1..n : past[i] <= from}) = k
  <2>1. 1 \in Int /\ k \in Int /\ k >= 0 BY <1>1, <1>k
  <2>2. Cardinality(1..k) = IF 1 > k THEN 0 ELSE k - 1 + 1 BY <2>1, FS_Interval
  <2>3. Cardinality(1..k) = k BY <2>1, <2>2
  <2> QED BY <2>3, <1>3
<1>m. PICK m : m = IF k + limit < n THEN k + limit ELSE n OBVIOUS
<1> DEFINE got == EventsSince(from, limit)
<1>5. got = SubSeq(past, k + 1, m) BY <1>4, <1>p, <1>m DEF EventsSince
<1> HIDE DEF got
<1>6. /\ got # <<>>
      /\ seen' = [upto   |-> got[Len(got)],
                  missed |-> seen.missed \cup ((from + 1)..got[Len(got)] \ Heard(got))]
      /\ UNCHANGED <<emitted, past, list, stack, joined, listened>>
  BY <1>p DEF PollsEvents, got
<1>7. m \in Nat /\ k + 1 <= m /\ m <= n
  <2>1. m \in Nat /\ m <= n BY <1>1, <1>k, <1>m
  <2>2. CASE k = n
    <3>1. m = n BY <2>2, <1>1, <1>m
    <3>2. got = <<>> BY <3>1, <2>2, <1>1, <1>5
    <3> QED BY <3>2, <1>6
  <2>3. CASE k # n BY <2>3, <2>1, <1>1, <1>k, <1>m
  <2> QED BY <2>1, <2>2, <2>3
<1>8. /\ Len(got) = m - k /\ Len(got) \in 1..Len(got)
      /\ \A j \in 1..Len(got) : got[j] = past[k + j] /\ k + j \in 1..n
  <2>1. k \in Nat /\ m \in Nat /\ k <= m /\ m <= n BY <1>1, <1>7, <1>k
  <2>2. /\ Len(got) = m - k
        /\ \A j \in 1..(m - k) : got[j] = past[k + j] /\ k + j \in 1..n
    BY <2>1, <1>5, <1>p, <1>t, StretchIs
  <2>3. m - k \in 1..(m - k) BY <1>7, <1>k
  <2> QED BY <2>2, <2>3
<1>9. \A j \in 1..Len(got) : got[j] = base + (k + j) BY <1>2, <1>8
<1>10. got[Len(got)] = base + m /\ base + m <= emitted
  <2>1. k + Len(got) = m BY <1>7, <1>8, <1>k
  <2> QED BY <2>1, <1>1, <1>7, <1>8, <1>9, <1>b
<1>11. ASSUME NEW x \in (from + 1)..(base + m), x \notin Heard(got)
       PROVE  x \in Nat /\ x + HistoryLimit <= emitted
  <2>0. x \in Nat /\ x > from /\ x <= base + m BY <1>1, <1>7, <1>b
  <2>1. x <= base
    <3> SUFFICES ASSUME x > base PROVE FALSE
      BY <2>0, <1>b
    <3>1. x - base \in 1..m /\ x - base > k BY <2>0, <1>1, <1>b, <1>k, <1>7
    <3>2. x - base - k \in 1..Len(got) /\ base + (k + (x - base - k)) = x
      BY <3>1, <2>0, <1>7, <1>8, <1>b, <1>k
    <3>3. got[x - base - k] = x BY <3>2, <1>9
    <3> QED BY <3>2, <3>3, <1>11 DEF Heard
  <2>2. base > 0 BY <2>0, <2>1, <1>1, <1>b
  <2>3. n = HistoryLimit BY <2>2, <1>1, <1>b, <1>c
  <2> QED BY <2>0, <2>1, <2>3, <1>1, <1>b, <1>0
<1>12. seen' = [upto |-> base + m, missed |-> seen.missed \cup ((from + 1)..(base + m) \ Heard(got))]
  BY <1>6, <1>10
<1>13. /\ seen' \in [upto : Nat, missed : SUBSET Nat]
       /\ seen'.upto = base + m
       /\ \A x \in seen'.missed : x \in seen.missed \/ (x \in (from + 1)..(base + m) /\ x \notin Heard(got))
  <2>1. (from + 1)..(base + m) \subseteq Nat BY <1>1, <1>7, <1>b
  <2>2. seen'.upto = base + m
        /\ seen'.missed = seen.missed \cup ((from + 1)..(base + m) \ Heard(got))
    BY <1>12
  <2>3. base + m \in Nat BY <1>7, <1>b
  <2>4. seen' \in [upto : Nat, missed : SUBSET Nat] BY <2>1, <2>3, <1>t, <1>12
  <2> QED BY <2>2, <2>4
<1>14. PollerBehind'
  <2>1. \A x \in seen.missed : x + HistoryLimit <= emitted BY <1>a DEF PollerBehind
  <2> QED BY <2>1, <1>6, <1>10, <1>11, <1>13 DEF PollerBehind
<1>15. FeedTyped' BY <1>6, <1>13, <1>a DEF FeedTyped
<1>16. HistoryKept' BY <1>6, <1>a DEF HistoryKept
<1>17. Single(list)' BY <1>6, <1>a DEF CallsDiffer, Single
<1>18. CallsDiffer' /\ \A l \in Listeners : HeardOrComing(l)' BY <1>6, <1>17, OwedStands
<1> QED BY <1>14, <1>15, <1>16, <1>18 DEF FeedSound

LEMMA RestingKeeps ==
    ASSUME FeedSound, UNCHANGED <<emitted, past, list, stack, joined, listened, seen>>
    PROVE  FeedSound'
<1>a. /\ FeedTyped /\ CallsDiffer /\ HistoryKept /\ PollerBehind
  BY DEF FeedSound
<1>1. Single(list)' BY <1>a DEF CallsDiffer, Single
<1>2. CallsDiffer' /\ \A l \in Listeners : HeardOrComing(l)' BY <1>1, OwedStands
<1>3. FeedTyped' BY <1>a DEF FeedTyped
<1>4. HistoryKept' /\ PollerBehind' BY <1>a DEF HistoryKept, PollerBehind
<1> QED BY <1>2, <1>3, <1>4 DEF FeedSound

LEMMA FeedKeepsSound ==
    ASSUME FeedSound, FeedNext \/ UNCHANGED feedVars
    PROVE  FeedSound'
<1>1. CASE UNCHANGED feedVars BY <1>1, RestingKeeps DEF feedVars
<1>2. CASE ClientEmits BY <1>2, EmitKeeps DEF ClientEmits
<1>3. CASE PacketHandled
  <2>1. CASE Dispatched(inbox) BY <2>1, <1>3, EmitKeeps DEF PacketHandled
  <2>2. CASE ~Dispatched(inbox) BY <2>2, <1>3, RestingKeeps DEF PacketHandled
  <2> QED BY <2>1, <2>2
<1>4. CASE \E p \in Packets : PacketArrives(p) BY <1>4, RestingKeeps DEF PacketArrives
<1> QED BY <1>1, <1>2, <1>3, <1>4, TellKeeps, ReturnKeeps, ListKeeps, PollKeeps DEF FeedNext

\* A sequence without repetition is as long as its set of elements is large.
LEMMA SingleCounts ==
    ASSUME NEW S, NEW s \in Seq(S), Single(s)
    PROVE  Len(s) = Cardinality(Heard(s))
<1>1. Len(s) \in Nat OBVIOUS
<1>2. s \in Bijection(1..Len(s), Heard(s))
  BY DEF Bijection, Injection, Surjection, IsInjective, Heard, Single
<1>3. ExistsBijection(1..Len(s), Heard(s)) BY <1>2 DEF ExistsBijection
<1> QED BY <1>1, <1>3, FS_CountingElements

LEMMA SoundFeed == FeedSound => EachHearsAll /\ PollerMissesOverrunOnly
<1> SUFFICES ASSUME FeedSound PROVE EachHearsAll /\ PollerMissesOverrunOnly
  OBVIOUS
<1>a. FeedTyped /\ HistoryKept /\ PollerBehind /\ \A l \in Listeners : HeardOrComing(l)
  BY DEF FeedSound
<1>1. ASSUME stack = <<>>, NEW l \in Listeners
      PROVE  Heard(listened[l]) = joined[l] /\ Len(listened[l]) = Cardinality(joined[l])
  <2>1. Heard(listened[l]) = joined[l] /\ Single(listened[l])
    <3>1. HeardOrComing(l) /\ Len(stack) = 0 BY <1>1, <1>a
    <3>2. \A k \in 1..Len(stack) : FALSE BY <3>1
    <3>3. joined[l] \subseteq Heard(listened[l]) BY <3>1, <3>2 DEF HeardOrComing
    <3>4. Heard(listened[l]) \subseteq joined[l] /\ Single(listened[l])
      BY <3>1 DEF HeardOrComing
    <3> QED BY <3>3, <3>4
  <2>2. listened[l] \in Seq(Nat) BY <1>a DEF FeedTyped
  <2> QED BY <2>1, <2>2, SingleCounts
<1>2. ASSUME NEW e \in seen.missed PROVE \E f \in 1..emitted : f >= e + HistoryLimit
  <2>1. e \in Nat /\ emitted \in Nat BY <1>a DEF FeedTyped
  <2>2. e + HistoryLimit <= emitted BY <1>a DEF PollerBehind
  <2>3. emitted \in 1..emitted /\ emitted >= e + HistoryLimit BY <2>1, <2>2, FeedNumbers
  <2> QED BY <2>3
<1> QED BY <1>1, <1>2, <1>a DEF EachHearsAll, PollerMissesOverrunOnly, HistoryKept

-----------------------------------------------------------------------------
(* Versions.                                                               *)

\* A set of versions that is not empty has a largest.
LEMMA LargestOf ==
    ASSUME NEW bound \in Nat, NEW S, S \subseteq 0..bound, S # {}
    PROVE  Max(S) \in S /\ \A v \in S : v <= Max(S)
<1> DEFINE T == {bound - v : v \in S}
<1>1. T \subseteq Nat
  <2>1. \A v \in S : v \in Nat /\ bound - v \in Nat OBVIOUS
  <2> QED BY <2>1
<1>2. T # {}
  <2>1. PICK v \in S : TRUE OBVIOUS
  <2>2. bound - v \in T OBVIOUS
  <2> QED BY <2>2
<1> HIDE DEF T
<1>3. \E x \in T : \A y \in T : ~ (<<y, x>> \in OpToRel(<, Nat))
  BY <1>1, <1>2, NatLessThanWellFounded, WFMin
<1>4. PICK x \in T : \A y \in T : ~ (y < x) BY <1>1, <1>3 DEF OpToRel
<1>5. PICK m \in S : x = bound - m BY <1>4 DEF T
<1>6. \A v \in S : m >= v
  <2>1. TAKE v \in S
  <2>2. ~ (bound - v < bound - m) BY <1>4, <1>5 DEF T
  <2>3. v \in Nat /\ m \in Nat OBVIOUS
  <2> QED BY <2>2, <2>3
<1>7. Max(S) \in S /\ \A v \in S : Max(S) >= v BY <1>6 DEF Max
<1>8. \A v \in S : v \in Nat OBVIOUS
<1> QED BY <1>7, <1>8

\* Whoever has changed has a version of its own, so those are finitely many.
LEMMA ChangedAreFinite ==
    ASSUME NEW P, NEW ver \in [P -> Nat], NEW bound \in Nat, \A p \in P : ver[p] <= bound,
           \A p, q \in P : ver[p] = ver[q] /\ ver[p] # 0 => p = q,
           NEW S \in SUBSET P, \A p \in S : ver[p] # 0
    PROVE  IsFiniteSet(S)
<1>1. [p \in S |-> ver[p]] \in Injection(S, 1..bound)
  <2>1. \A p \in S : ver[p] \in 1..bound OBVIOUS
  <2> QED BY <2>1 DEF Injection, IsInjective
<1>2. IsFiniteSet(1..bound) BY FS_Interval
<1> QED BY <1>1, <1>2, FS_Injection

-----------------------------------------------------------------------------
(* The roster of a group (GroupMembers).                                   *)

RosterCall == [at : {"idle", "ask", "read", "put", "drop", "mark", "advance"},
               since : Versions, asof : Versions, put : [Members -> RosterRow],
               drop : SUBSET Members, old : [Members -> RosterRow], next : Versions,
               more : BOOLEAN, pages : 0..MaxPages]

\* A row is of a change the server has made, under its version or under none.
Known(row, m) == row.of <= roster[m].v /\ row.v \in {0, row.of}

\* What an answer says was so when it was given, and still is of whom has not
\* changed since.
Holding(x) ==
    /\ x.asof <= TopChange
    /\ x.at = "ask" => x.pages < MaxPages
    /\ x.at \notin {"read", "put"} => x.put = Nothing
    /\ \A m \in Members :
          /\ Known(x.old[m], m)
          /\ m \in x.drop /\ roster[m].v <= x.asof => ~roster[m].in
          /\ x.put[m].of # 0 => /\ Known(x.put[m], m)
                                /\ roster[m].v <= x.asof => x.put[m].of = roster[m].v
                                /\ x.put[m].of = roster[m].v => roster[m].in
          /\ x.put[m].v <= x.next
          /\ x.next # 0 => x.put[m].v = x.put[m].of

\* The table has the last change of a member, or is about to drop who left.
Right(m) ==
    \/ rows[m].of = IF roster[m].in THEN roster[m].v ELSE 0
    \/ \E c \in Calls : call[c].at = "drop" /\ m \in call[c].drop

Reached(n) == n <= told /\ \A m \in Members : roster[m].v \in 1..n => Right(m)

\* From where a call asks, all is right; from where it will ask next, all will
\* be once its page is written.
Asks(x) ==
    /\ Reached(x.since) /\ x.next <= told
    /\ x.at \notin {"read", "put"} => Reached(x.next)
    /\ x.at \in {"read", "put"} => \A m \in Members : roster[m].v \in 1..x.next =>
          roster[m].v <= x.since \/ x.put[m].of = roster[m].v \/ m \in x.drop

RosterWhole ==
    /\ Reached(mark) /\ \A m \in Members : Reached(rows[m].v)
    /\ \A c \in Calls : Asks(call[c])

RosterSound ==
    /\ RosterTypeOK /\ told <= TopChange
    /\ \A m, n \in Members : roster[m].v = roster[n].v /\ roster[m].v # 0 => m = n
    /\ \A m \in Members : Known(rows[m], m)
    /\ \A c \in Calls : Holding(call[c])
    /\ harms = {} => RosterWhole

LEMMA RosterNumbers ==
    /\ MaxChanges \in Nat /\ MaxPages \in Nat /\ MaxPages # 0 /\ PageSize \in Nat /\ PageSize # 0
    /\ Members # {} /\ 0 \in Versions /\ Versions \subseteq Nat
    /\ NoRow \in RosterRow /\ NoRow.v = 0 /\ NoRow.of = 0
    /\ Nothing \in [Members -> RosterRow] /\ Resting \in RosterCall
BY RosterAssumption DEF Versions, NoRow, RosterRow, Nothing, Resting, RosterCall

LEMMA LatestIs ==
    ASSUME NEW r \in [Members -> [v : Versions, in : BOOLEAN]]
    PROVE  /\ Max({r[m].v : m \in Members}) \in Versions
           /\ \A m \in Members : r[m].v <= Max({r[n].v : n \in Members})
<1> DEFINE S == {r[m].v : m \in Members}
<1>1. S \subseteq 0..MaxChanges /\ S # {} BY RosterNumbers DEF Versions
<1>2. Max(S) \in S /\ \A v \in S : v <= Max(S) BY <1>1, RosterNumbers, LargestOf
<1>3. \A m \in Members : r[m].v \in S OBVIOUS
<1> HIDE DEF S
<1>4. Max(S) \in Versions BY <1>1, <1>2 DEF Versions
<1>5. \A m \in Members : r[m].v <= Max(S) BY <1>2, <1>3
<1> QED BY <1>4, <1>5 DEF S

LEMMA TopIs ==
    ASSUME RosterTypeOK
    PROVE  TopChange \in Versions /\ \A m \in Members : roster[m].v <= TopChange
BY LatestIs DEF TopChange, RosterTypeOK

LEMMA RosterStarts == RosterInit => RosterSound
<1> SUFFICES ASSUME RosterInit PROVE RosterSound
  OBVIOUS
<1>1. /\ rows = Nothing /\ mark = 0 /\ told = 0 /\ harms = {}
      /\ \A m \in Members : roster[m].v = 0 /\ rows[m] = NoRow /\ rows[m].of = 0 /\ rows[m].v = 0
      /\ \A c \in Calls : call[c] = Resting
  BY RosterNumbers DEF RosterInit, Nothing
<1>2. RosterTypeOK
  BY <1>1, RosterNumbers DEF RosterInit, RosterTypeOK, RosterCall
<1>3. told <= TopChange BY <1>1, <1>2, TopIs DEF Versions
<1>4. \A m \in Members : Known(rows[m], m) BY <1>1, RosterNumbers DEF Known
<1>5. /\ Resting.at = "idle" /\ Resting.asof = 0 /\ Resting.drop = {} /\ Resting.since = 0
      /\ Resting.next = 0 /\ Resting.put = Nothing
      /\ \A m \in Members : Resting.put[m] = NoRow /\ Resting.old[m] = NoRow
  BY DEF Resting, Nothing
<1>6. Holding(Resting)
  BY <1>1, <1>2, <1>3, <1>5, RosterNumbers, TopIs DEF Holding, Known, Versions
<1>7. Reached(0) BY <1>1 DEF Reached
<1>8. Asks(Resting)
  <2>1. \A m \in Members : roster[m].v \notin 1..0 OBVIOUS
  <2> QED BY <1>1, <1>5, <1>7, <2>1 DEF Asks
<1>9. RosterWhole BY <1>1, <1>7, <1>8 DEF RosterWhole
<1> QED BY <1>1, <1>2, <1>3, <1>4, <1>6, <1>9 DEF RosterSound


\* What is right stays so while its row shows the same and the call that was
\* to drop it still is.
LEMMA RightStays ==
    ASSUME NEW c \in Calls, NEW y, call' = [call EXCEPT ![c] = y], call \in [Calls -> RosterCall],
           roster' = roster, NEW m \in Members, Right(m), rows'[m].of = rows[m].of,
           call[c].at = "drop" /\ m \in call[c].drop => y.at = "drop" /\ m \in y.drop
    PROVE  Right(m)'
<1>1. call'[c] = y /\ \A d \in Calls \ {c} : call'[d] = call[d] OBVIOUS
<1>2. CASE rows[m].of = IF roster[m].in THEN roster[m].v ELSE 0 BY <1>2 DEF Right
<1>3. CASE \E d \in Calls : call[d].at = "drop" /\ m \in call[d].drop
  <2>1. PICK d \in Calls : call[d].at = "drop" /\ m \in call[d].drop BY <1>3
  <2>2. call'[d].at = "drop" /\ m \in call'[d].drop BY <1>1, <2>1
  <2> QED BY <2>2 DEF Right
<1> QED BY <1>2, <1>3 DEF Right

\* What is reached, and what a call asks for, stays so while no row is lost.
LEMMA ReachedStays ==
    ASSUME roster' = roster, told \in Nat, told' \in Nat, told <= told',
           roster \in [Members -> [v : Versions, in : BOOLEAN]],
           \A m \in Members : Right(m) /\ roster[m].v <= told => Right(m)',
           NEW n \in Nat, Reached(n)
    PROVE  Reached(n)'
<1>1. n <= told /\ n <= told' BY DEF Reached
<1>2. ASSUME NEW m \in Members, roster[m].v \in 1..n PROVE Right(m)'
  <2>1. Right(m) BY <1>2 DEF Reached
  <2>2. roster[m].v <= told BY <1>1, <1>2
  <2> QED BY <2>1, <2>2
<1> QED BY <1>1, <1>2 DEF Reached

LEMMA AsksStays ==
    ASSUME roster' = roster, told \in Nat, told' \in Nat, told <= told',
           roster \in [Members -> [v : Versions, in : BOOLEAN]],
           \A m \in Members : Right(m) /\ roster[m].v <= told => Right(m)',
           NEW x \in RosterCall, Asks(x)
    PROVE  Asks(x)'
<1>1. x.since \in Nat /\ x.next \in Nat BY RosterNumbers DEF RosterCall
<1>2. x.next <= told' BY <1>1 DEF Asks
<1>3. Reached(x.since)' BY <1>1, ReachedStays DEF Asks
<1>4. x.at \notin {"read", "put"} => Reached(x.next)' BY <1>1, ReachedStays DEF Asks
<1> QED BY <1>2, <1>3, <1>4 DEF Asks

LEMMA RestingAsks ==
    /\ Resting.at = "idle" /\ Resting.drop = {} /\ Resting.since = 0 /\ Resting.next = 0
    /\ Resting.asof = 0 /\ Resting.pages = 0 /\ Resting.put = Nothing /\ Resting.old = Nothing
    /\ \A m \in Members : Nothing[m] = NoRow
    /\ RosterTypeOK => Holding(Resting)
    /\ told \in Nat => Asks(Resting)
    /\ told' \in Nat => Asks(Resting)'
<1>1. /\ Resting.at = "idle" /\ Resting.drop = {} /\ Resting.since = 0 /\ Resting.next = 0
      /\ Resting.asof = 0 /\ Resting.pages = 0 /\ Resting.put = Nothing /\ Resting.old = Nothing
  BY DEF Resting
<1>2. \A m \in Members : Nothing[m] = NoRow /\ NoRow.v = 0 /\ NoRow.of = 0
  BY RosterNumbers DEF Nothing
<1>3. ASSUME RosterTypeOK PROVE Holding(Resting)
  <2>1. \A m \in Members : roster[m].v \in Nat /\ TopChange \in Nat
    BY <1>3, TopIs, RosterNumbers DEF RosterTypeOK
  <2>0. TopChange \in Nat BY <1>3, TopIs, RosterNumbers
  <2>2. 0 <= TopChange BY <2>0
  <2> QED BY <1>1, <1>2, <2>1, <2>2 DEF Holding, Known
<1>4. 1..0 = {} OBVIOUS
<1>5. told \in Nat => Reached(0) /\ Asks(Resting) BY <1>1, <1>4 DEF Asks, Reached
<1>6. told' \in Nat => Asks(Resting)' BY <1>1, <1>4 DEF Asks, Reached
<1> QED BY <1>1, <1>2, <1>3, <1>5, <1>6

\* A step of one call: what is left to show of it.
LEMMA CallStep ==
    ASSUME RosterSound, NEW c \in Calls, NEW y \in RosterCall,
           call' = [call EXCEPT ![c] = y], roster' = roster,
           told' \in Versions, told <= told', told' <= TopChange,
           rows' \in [Members -> RosterRow], mark' \in Versions,
           harms' \subseteq {"late", "cut"}, harms \subseteq harms',
           Holding(y), \A m \in Members : Known(rows'[m], m),
           harms' = {} =>
               /\ \A m \in Members : Right(m) /\ roster[m].v <= told => Right(m)'
               /\ Reached(mark)' /\ \A m \in Members : Reached(rows[m].v)'
               /\ Asks(y)'
    PROVE  RosterSound'
<1>0. /\ roster \in [Members -> [v : Versions, in : BOOLEAN]] /\ call \in [Calls -> RosterCall]
      /\ told \in Nat /\ told' \in Nat
  BY RosterNumbers DEF RosterSound, RosterTypeOK, RosterCall
<1>1. /\ call' \in [Calls -> RosterCall] /\ call'[c] = y
      /\ \A d \in Calls : d # c => call'[d] = call[d]
  BY <1>0
<1>2. RosterTypeOK' BY <1>0, <1>1 DEF RosterTypeOK, RosterCall
<1>3. TopChange' = TopChange BY DEF TopChange
<1>4. ASSUME NEW d \in Calls PROVE Holding(call[d])'
  <2>1. Holding(call'[d]) BY <1>1 DEF RosterSound
  <2> QED BY <2>1, <1>3 DEF Holding, Known
<1>5. \A m \in Members : Known(rows[m], m)' BY DEF Known
<1>6. ASSUME harms' = {} PROVE RosterWhole'
  <2>0. RosterWhole BY <1>6 DEF RosterSound
  <2>1. ASSUME NEW d \in Calls PROVE Asks(call[d])'
    <3>1. CASE d = c BY <3>1, <1>1, <1>6 DEF Asks, Reached
    <3>2. CASE d # c
      <4>0. PICK x \in RosterCall : x = call[d] BY <1>0
      <4>1. call'[d] = x BY <3>2, <1>1, <4>0
      <4>2. Asks(x) BY <2>0, <4>0 DEF RosterWhole
      <4>3. Asks(x)' BY <1>0, <1>6, <4>2, AsksStays
      <4> QED BY <4>1, <4>3 DEF Asks, Reached
    <3> QED BY <3>1, <3>2
  <2> QED BY <2>1, <1>6 DEF RosterWhole
<1>7. told' <= TopChange' BY <1>3
<1>8. \A m, n \in Members : roster'[m].v = roster'[n].v /\ roster'[m].v # 0 => m = n
  BY DEF RosterSound
<1> QED BY <1>2, <1>4, <1>5, <1>6, <1>7, <1>8 DEF RosterSound


LEMMA RosterFacts ==
    ASSUME RosterSound, NEW c \in Calls
    PROVE  /\ roster \in [Members -> [v : Versions, in : BOOLEAN]]
           /\ rows \in [Members -> RosterRow] /\ mark \in Versions /\ told \in Versions
           /\ call \in [Calls -> RosterCall] /\ call[c] \in RosterCall
           /\ harms \subseteq {"late", "cut"}
           /\ TopChange \in Versions /\ told <= TopChange
           /\ \A m \in Members : roster[m].v <= TopChange /\ Known(rows[m], m)
           /\ Holding(call[c])
           /\ harms = {} => RosterWhole /\ Asks(call[c])
           /\ Versions \subseteq Nat /\ mark \in Nat /\ told \in Nat /\ TopChange \in Nat
           /\ RosterTypeOK
<1>1. RosterTypeOK BY DEF RosterSound
<1>2. TopChange \in Versions /\ \A m \in Members : roster[m].v <= TopChange BY <1>1, TopIs
<1> QED BY <1>1, <1>2, RosterNumbers DEF RosterSound, RosterTypeOK, RosterCall, RosterWhole

\* A step of a call that leaves the table alone.
LEMMA QuietStep ==
    ASSUME RosterSound, NEW c \in Calls, NEW y \in RosterCall, NEW n \in Versions,
           call' = [call EXCEPT ![c] = y], UNCHANGED <<roster, rows, told>>, mark' = n,
           harms' \subseteq {"late", "cut"}, harms \subseteq harms', Holding(y),
           harms' = {} =>
               /\ Asks(y) /\ Reached(n)
               /\ \A m \in Members : call[c].at = "drop" /\ m \in call[c].drop
                                        => y.at = "drop" /\ m \in y.drop
    PROVE  RosterSound'
<1>0. /\ roster \in [Members -> [v : Versions, in : BOOLEAN]]
      /\ rows \in [Members -> RosterRow] /\ told \in Versions
      /\ call \in [Calls -> RosterCall]
      /\ told <= TopChange /\ \A m \in Members : Known(rows[m], m)
      /\ harms = {} => RosterWhole
      /\ Versions \subseteq Nat /\ told \in Nat /\ TopChange \in Nat
  BY RosterFacts
<1>1. /\ roster' = roster /\ rows' = rows /\ told' = told /\ told' \in Nat /\ told <= told'
  BY <1>0
<1>2. ASSUME harms' = {} PROVE \A m \in Members : Right(m) => Right(m)'
  <2>1. ASSUME NEW m \in Members, Right(m) PROVE Right(m)'
    <3>1. rows'[m].of = rows[m].of BY <1>1
    <3>2. call[c].at = "drop" /\ m \in call[c].drop => y.at = "drop" /\ m \in y.drop BY <1>2
    <3> QED BY <1>0, <1>1, <2>1, <3>1, <3>2, RightStays
  <2> QED BY <2>1
<1>3. TopChange' = TopChange BY <1>1 DEF TopChange
<1>4. ASSUME harms' = {}
      PROVE  Reached(mark)' /\ (\A m \in Members : Reached(rows[m].v)') /\ Asks(y)'
  <2>0. harms = {} BY <1>4
  <2>a. RosterWhole /\ Asks(y) /\ Reached(n) BY <1>0, <1>4, <2>0
  <2>1. ASSUME NEW k \in Nat, Reached(k) PROVE Reached(k)'
    BY <1>0, <1>1, <1>2, <1>4, <2>1, ReachedStays
  <2>2. n \in Nat BY <1>0
  <2>3. Reached(n)' BY <2>a, <2>1, <2>2
  <2>4. ASSUME NEW m \in Members PROVE Reached(rows[m].v)'
    <3>1. PICK k : k = rows[m].v OBVIOUS
    <3>2. k \in Nat BY <1>0, <3>1 DEF RosterRow
    <3>3. Reached(k)' BY <2>a, <2>1, <3>1, <3>2 DEF RosterWhole
    <3>4. rows'[m].v = k BY <1>1, <3>1
    <3> QED BY <3>3, <3>4 DEF Reached
  <2>5. Reached(mark)' BY <2>3 DEF Reached
  <2>6. Asks(y)' BY <1>0, <1>1, <1>2, <1>4, <2>a, AsksStays
  <2> QED BY <2>4, <2>5, <2>6
<1>5. /\ told' \in Versions /\ told' <= TopChange' /\ mark' \in Versions
      /\ rows' \in [Members -> RosterRow] /\ \A m \in Members : Known(rows'[m], m)
  BY <1>0, <1>1, <1>3
<1>6. told' <= TopChange BY <1>0, <1>1
<1> QED BY <1>1, <1>2, <1>4, <1>5, <1>6, CallStep

LEMMA PlainStep ==
    ASSUME RosterSound, NEW c \in Calls, NEW y \in RosterCall,
           call' = [call EXCEPT ![c] = y], UNCHANGED <<roster, rows, mark, told, harms>>,
           Holding(y), harms = {} => Asks(y),
           \A m \in Members : call[c].at = "drop" /\ m \in call[c].drop => y.at = "drop" /\ m \in y.drop
    PROVE  RosterSound'
<1>1. mark \in Versions /\ harms \subseteq {"late", "cut"} /\ (harms = {} => RosterWhole)
  BY RosterFacts
<1>2. harms = {} => Reached(mark) BY <1>1 DEF RosterWhole
<1>3. PICK n \in Versions : n = mark BY <1>1
<1>4. harms = {} => Reached(n) BY <1>2, <1>3
<1> QED BY <1>1, <1>3, <1>4, QuietStep

LEMMA WatermarkIs ==
    ASSUME RosterTypeOK
    PROVE  Watermark \in Versions /\ (Watermark = mark \/ \E m \in Members : Watermark = rows[m].v)
<1> DEFINE S == {rows[m].v : m \in Members}
<1>1. S \subseteq 0..MaxChanges /\ S # {}
  BY RosterNumbers DEF RosterTypeOK, RosterRow, Versions
<1>2. Max(S) \in S BY <1>1, RosterNumbers, LargestOf
<1>3. mark \in Versions BY DEF RosterTypeOK
<1> QED BY <1>1, <1>2, <1>3 DEF Watermark, Versions

LEMMA SyncRosterKeeps == ASSUME RosterSound, NEW c \in Calls, SyncRoster(c) PROVE RosterSound'
<1>0. /\ call[c] \in RosterCall /\ RosterTypeOK /\ Versions \subseteq Nat /\ TopChange \in Nat
      /\ rows \in [Members -> RosterRow] /\ told \in Nat
      /\ (harms = {} => RosterWhole)
  BY RosterFacts
<1>1. PICK n \in Versions : n = Watermark BY <1>0, WatermarkIs
<1>2. PICK y : y = [Resting EXCEPT !.at = "ask", !.since = n] OBVIOUS
<1>3. y \in RosterCall BY <1>1, <1>2, RosterNumbers DEF RosterCall
<1>4. /\ y.at = "ask" /\ y.since = n /\ y.next = 0 /\ y.drop = {} /\ y.put = Nothing
      /\ y.old = Nothing /\ y.asof = 0 /\ y.pages = 0
  BY <1>2 DEF Resting
<1>5. call' = [call EXCEPT ![c] = y] BY <1>1, <1>2 DEF SyncRoster
<1>6. Holding(y)
  <2>1. Holding(Resting) BY <1>0, RestingAsks
  <2>2. 0 < MaxPages BY RosterNumbers
  <2> QED BY <1>4, <2>1, <2>2, RestingAsks DEF Holding
<1>7. ASSUME harms = {} PROVE Asks(y)
  <2>1. Reached(n)
    <3>1. CASE n = mark BY <3>1, <1>7, <1>0 DEF RosterWhole
    <3>2. CASE \E m \in Members : n = rows[m].v BY <3>2, <1>7, <1>0 DEF RosterWhole
    <3> QED BY <1>0, <1>1, <3>1, <3>2, WatermarkIs
  <2>2. Reached(0) /\ 0 <= told
    <3>1. 1..0 = {} /\ 0 <= told BY <1>0
    <3> QED BY <3>1 DEF Reached
  <2> QED BY <1>4, <2>1, <2>2 DEF Asks
<1>8. call[c].at # "drop" BY DEF SyncRoster
<1> QED BY <1>3, <1>5, <1>6, <1>7, <1>8, PlainStep DEF SyncRoster

LEMMA ListAnswerKeeps == ASSUME RosterSound, NEW c \in Calls, ListAnswer(c) PROVE RosterSound'
<1>0. /\ call[c] \in RosterCall /\ RosterTypeOK /\ Versions \subseteq Nat /\ TopChange \in Versions
      /\ told \in Nat /\ (\A m \in Members : roster[m].v <= TopChange)
      /\ roster \in [Members -> [v : Versions, in : BOOLEAN]]
  BY RosterFacts
<1>1. PICK in : in = {m \in Members : roster[m].in} OBVIOUS
<1>2. PICK listed \in SUBSET in, full \in BOOLEAN :
         call' = [call EXCEPT ![c] = [Resting EXCEPT
                    !.at = "read", !.asof = TopChange,
                    !.put = [m \in Members |-> IF m \in listed THEN [v |-> 0, of |-> roster[m].v]
                                               ELSE NoRow],
                    !.drop = IF full THEN Members \ in ELSE {}]]
  BY <1>1 DEF ListAnswer
<1>3. PICK put : put = [m \in Members |-> IF m \in listed THEN [v |-> 0, of |-> roster[m].v]
                                          ELSE NoRow]
  OBVIOUS
<1>4. PICK y : y = [Resting EXCEPT !.at = "read", !.asof = TopChange, !.put = put,
                                   !.drop = IF full THEN Members \ in ELSE {}]
  OBVIOUS
<1>5. put \in [Members -> RosterRow]
  <2>1. \A m \in Members : [v |-> 0, of |-> roster[m].v] \in RosterRow
    BY <1>0, RosterNumbers DEF RosterRow
  <2> QED BY <2>1, <1>3, RosterNumbers
<1>6. y \in RosterCall BY <1>0, <1>1, <1>4, <1>5, RosterNumbers DEF RosterCall
<1>7. /\ y.at = "read" /\ y.since = 0 /\ y.next = 0 /\ y.put = put /\ y.old = Nothing
      /\ y.asof = TopChange /\ y.drop = IF full THEN Members \ in ELSE {}
  BY <1>4, RestingAsks DEF Resting
<1>8. call' = [call EXCEPT ![c] = y] BY <1>2, <1>3, <1>4
<1>9. ASSUME NEW m \in Members
      PROVE  /\ put[m].v = 0
             /\ put[m].of # 0 => put[m].of = roster[m].v /\ roster[m].in
             /\ m \in y.drop => ~roster[m].in
  BY <1>1, <1>3, <1>7, RosterNumbers
<1>10. Holding(y)
  <2>1. y.asof <= TopChange /\ y.at = "read"
    <3>1. TopChange \in Nat BY <1>0
    <3> QED BY <3>1, <1>7
  <2>2. ASSUME NEW m \in Members
        PROVE  /\ Known(y.old[m], m)
               /\ m \in y.drop /\ roster[m].v <= y.asof => ~roster[m].in
               /\ y.put[m].of # 0 => /\ Known(y.put[m], m)
                                     /\ roster[m].v <= y.asof => y.put[m].of = roster[m].v
                                     /\ y.put[m].of = roster[m].v => roster[m].in
               /\ y.put[m].v <= y.next
               /\ y.next # 0 => y.put[m].v = y.put[m].of
    <3>1. roster[m].v \in Nat BY <1>0
    <3>2. y.old[m] = NoRow BY <1>7, RestingAsks
    <3>3. Known(y.old[m], m) BY <3>1, <3>2, RosterNumbers DEF Known
    <3>4. roster[m].v <= roster[m].v BY <3>1
    <3> QED BY <1>7, <1>9, <3>3, <3>4 DEF Known
  <2> QED BY <2>1, <2>2 DEF Holding
<1>11. Asks(y)
  <2>1. 1..0 = {} /\ 0 <= told BY <1>0
  <2> QED BY <1>7, <2>1 DEF Asks, Reached
<1>12. call[c].at # "drop" BY DEF ListAnswer
<1> QED BY <1>6, <1>8, <1>10, <1>11, <1>12, PlainStep DEF ListAnswer

LEMMA ReadRowsKeeps == ASSUME RosterSound, NEW c \in Calls, ReadRows(c) PROVE RosterSound'
<1>0. /\ call[c] \in RosterCall /\ Holding(call[c]) /\ (harms = {} => Asks(call[c]))
      /\ rows \in [Members -> RosterRow] /\ (\A m \in Members : Known(rows[m], m))
      /\ roster \in [Members -> [v : Versions, in : BOOLEAN]] /\ call \in [Calls -> RosterCall]
      /\ Versions \subseteq Nat
  BY RosterFacts
<1>1. PICK x \in RosterCall : x = call[c] BY <1>0
<1>2. PICK was : was = [m \in Members |-> IF x.put[m].of # 0 THEN rows[m] ELSE NoRow] OBVIOUS
<1>3. PICK y : y = [x EXCEPT !.at = "put", !.old = was] OBVIOUS
<1>4. call' = [call EXCEPT ![c] = y] BY <1>0, <1>1, <1>2, <1>3 DEF ReadRows
<1>5. was \in [Members -> RosterRow] BY <1>0, <1>2, RosterNumbers
<1>6. y \in RosterCall BY <1>3, <1>5 DEF RosterCall
<1>7. /\ y.at = "put" /\ y.since = x.since /\ y.next = x.next /\ y.put = x.put /\ y.old = was
      /\ y.asof = x.asof /\ y.drop = x.drop
  BY <1>3 DEF RosterCall
<1>8. \A m \in Members : Known(was[m], m)
  <2>1. ASSUME NEW m \in Members PROVE Known(NoRow, m)
    <3>1. roster[m].v \in Nat BY <1>0
    <3> QED BY <3>1, RosterNumbers DEF Known
  <2> QED BY <2>1, <1>0, <1>2
<1>9. Holding(y) BY <1>0, <1>1, <1>7, <1>8 DEF Holding
<1>10. x.at = "read" BY <1>1 DEF ReadRows
<1>11. harms = {} => Asks(y) BY <1>0, <1>1, <1>7, <1>10 DEF Asks
<1> QED BY <1>1, <1>4, <1>6, <1>9, <1>10, <1>11, PlainStep DEF ReadRows

LEMMA RosterFailsKeeps == ASSUME RosterSound, NEW c \in Calls, RosterFails(c) PROVE RosterSound'
<1>1. RosterTypeOK /\ told \in Nat BY RosterFacts
<1>2. Holding(Resting) /\ Asks(Resting) BY <1>1, RestingAsks
<1> QED BY <1>2, RosterNumbers, PlainStep DEF RosterFails

\* The end of a page.
LEMMA TurnGives ==
    ASSUME RosterSound, NEW c \in Calls, Turn(c), call[c].at \in {"mark", "advance"}
    PROVE  \E y \in RosterCall : /\ call' = [call EXCEPT ![c] = y]
                                 /\ Holding(y) /\ (harms = {} => Asks(y))
<1>0. /\ call[c] \in RosterCall /\ Holding(call[c]) /\ (harms = {} => Asks(call[c]))
      /\ RosterTypeOK /\ told \in Nat /\ call \in [Calls -> RosterCall]
      /\ Versions \subseteq Nat
  BY RosterFacts
<1>1. PICK x \in RosterCall : x = call[c] BY <1>0
<1>2. CASE x.more /\ x.next > x.since /\ x.pages < MaxPages
  <2>1. PICK y : y = [x EXCEPT !.at = "ask", !.since = x.next, !.next = 0, !.more = FALSE] OBVIOUS
  <2>2. call' = [call EXCEPT ![c] = y] BY <1>0, <1>1, <1>2, <2>1 DEF Turn
  <2>3. y \in RosterCall BY <2>1, RosterNumbers DEF RosterCall
  <2>4. /\ y.at = "ask" /\ y.since = x.next /\ y.next = 0 /\ y.put = x.put /\ y.old = x.old
        /\ y.asof = x.asof /\ y.drop = x.drop /\ y.pages = x.pages
    BY <2>1 DEF RosterCall
  <2>5. Holding(y)
    <3>1. Holding(x) BY <1>0, <1>1
    <3>2. x.put = Nothing BY <1>1, <3>1 DEF Holding
    <3>3. \A m \in Members : x.put[m].of = 0 /\ x.put[m].v = 0 BY <3>2, RestingAsks, RosterNumbers
    <3> QED BY <1>2, <2>4, <3>1, <3>2, <3>3 DEF Holding
  <2>6. ASSUME harms = {} PROVE Asks(y)
    <3>1. Asks(x) /\ x.at \notin {"read", "put"} BY <1>0, <1>1, <2>6
    <3>2. 1..0 = {} /\ 0 <= told BY <1>0
    <3> QED BY <2>4, <3>1, <3>2 DEF Asks, Reached
  <2> QED BY <2>2, <2>3, <2>5, <2>6
<1>3. CASE ~(x.more /\ x.next > x.since /\ x.pages < MaxPages)
  <2>1. call' = [call EXCEPT ![c] = Resting] BY <1>0, <1>1, <1>3 DEF Turn
  <2> QED BY <1>0, <2>1, RestingAsks, RosterNumbers
<1> QED BY <1>2, <1>3

LEMMA ReadMarkKeeps == ASSUME RosterSound, NEW c \in Calls, ReadMark(c) PROVE RosterSound'
<1>0. /\ call[c] \in RosterCall /\ Holding(call[c]) /\ (harms = {} => Asks(call[c]))
      /\ call \in [Calls -> RosterCall]
  BY RosterFacts
<1>1. call[c].at = "mark" BY DEF ReadMark
<1>2. CASE Step(c, "advance")
  <2>1. PICK x \in RosterCall : x = call[c] BY <1>0
  <2>2. PICK y : y = [x EXCEPT !.at = "advance"] OBVIOUS
  <2>3. call' = [call EXCEPT ![c] = y] BY <1>0, <1>2, <2>1, <2>2 DEF Step
  <2>4. y \in RosterCall BY <2>2 DEF RosterCall
  <2>5. /\ y.at = "advance" /\ y.since = x.since /\ y.next = x.next /\ y.put = x.put
        /\ y.old = x.old /\ y.asof = x.asof /\ y.drop = x.drop
    BY <2>2 DEF RosterCall
  <2>6. Holding(y) BY <1>0, <1>1, <2>1, <2>5 DEF Holding
  <2>7. harms = {} => Asks(y) BY <1>0, <1>1, <2>1, <2>5 DEF Asks
  <2> QED BY <1>1, <2>3, <2>4, <2>6, <2>7, PlainStep DEF ReadMark
<1>3. CASE Turn(c)
  <2>1. PICK y \in RosterCall : /\ call' = [call EXCEPT ![c] = y]
                                /\ Holding(y) /\ (harms = {} => Asks(y))
    BY <1>1, <1>3, TurnGives
  <2> QED BY <1>1, <2>1, PlainStep DEF ReadMark
<1> QED BY <1>2, <1>3 DEF ReadMark

LEMMA AdvanceMarkKeeps == ASSUME RosterSound, NEW c \in Calls, AdvanceMark(c) PROVE RosterSound'
<1>0. /\ call[c] \in RosterCall /\ (harms = {} => Asks(call[c])) /\ harms \subseteq {"late", "cut"}
  BY RosterFacts
<1>1. call[c].at = "advance" /\ Turn(c) BY DEF AdvanceMark
<1>2. PICK y \in RosterCall : /\ call' = [call EXCEPT ![c] = y]
                              /\ Holding(y) /\ (harms = {} => Asks(y))
  BY <1>1, TurnGives
<1>3. PICK n : n = call[c].next OBVIOUS
<1>4. n \in Versions BY <1>0, <1>3 DEF RosterCall
<1>5. harms = {} => Reached(n) BY <1>0, <1>1, <1>3 DEF Asks
<1> QED BY <1>0, <1>1, <1>2, <1>3, <1>4, <1>5, QuietStep DEF AdvanceMark

LEMMA RosterCrashKeeps == ASSUME RosterSound, NEW c \in Calls, RosterCrash(c) PROVE RosterSound'
<1>0. /\ RosterTypeOK /\ told \in Nat /\ mark \in Versions /\ (harms = {} => RosterWhole)
      /\ harms \subseteq {"late", "cut"}
  BY RosterFacts
<1>1. Holding(Resting) /\ Asks(Resting) BY <1>0, RestingAsks
<1>2. /\ harms' \subseteq {"late", "cut"} /\ harms \subseteq harms'
      /\ harms' = {} => ~(call[c].at = "drop" /\ call[c].drop # {})
  BY <1>0 DEF RosterCrash, Blame
<1>3. PICK n \in Versions : n = mark BY <1>0
<1>4. harms' = {} => Reached(n)
  <2>1. harms' = {} => harms = {} BY <1>2
  <2>2. harms = {} => Reached(mark) BY <1>0 DEF RosterWhole
  <2> QED BY <1>3, <2>1, <2>2
<1>5. harms' = {} => \A m \in Members : ~(call[c].at = "drop" /\ m \in call[c].drop) BY <1>2
<1> QED BY <1>1, <1>2, <1>3, <1>4, <1>5, RosterNumbers, QuietStep DEF RosterCrash

LEMMA SwitchAccountKeeps == ASSUME RosterSound, SwitchAccount PROVE RosterSound'
<1>0. /\ RosterTypeOK /\ told <= TopChange /\ told \in Nat
      /\ (harms = {} => RosterWhole)
  <2>1. told \in Nat BY RosterNumbers DEF RosterSound, RosterTypeOK
  <2> QED BY <2>1 DEF RosterSound
<1>1. /\ roster' = roster /\ rows' = rows /\ told' = told /\ harms' = harms /\ call' = call
      /\ mark' = 0
  BY DEF SwitchAccount
<1>2. RosterTypeOK' BY <1>0, <1>1, RosterNumbers DEF RosterTypeOK
<1>3. TopChange' = TopChange BY <1>1 DEF TopChange
<1>4. \A m \in Members : Right(m)' <=> Right(m) BY <1>1 DEF Right
<1>5. ASSUME harms' = {} PROVE RosterWhole'
  <2>1. RosterWhole BY <1>0, <1>1, <1>5
  <2>2. 1..0 = {} /\ 0 <= told BY <1>0
  <2>3. Reached(mark)' BY <1>1, <2>2 DEF Reached
  <2>4. \A m \in Members : Reached(rows[m].v)' BY <1>1, <1>4, <2>1 DEF Reached, RosterWhole
  <2>5. \A d \in Calls : Asks(call[d])' BY <1>1, <1>4, <2>1 DEF Asks, Reached, RosterWhole
  <2> QED BY <2>3, <2>4, <2>5 DEF RosterWhole
<1>6. /\ \A d \in Calls : Holding(call[d])'
      /\ \A m \in Members : Known(rows[m], m)'
      /\ told' <= TopChange'
      /\ \A m, n \in Members : roster'[m].v = roster'[n].v /\ roster'[m].v # 0 => m = n
  BY <1>0, <1>1, <1>3 DEF Holding, Known, RosterSound
<1> QED BY <1>2, <1>5, <1>6 DEF RosterSound

\* Someone changes: whoever it is is past what any call or row has reached.
LEMMA ChangeMemberKeeps ==
    ASSUME RosterSound, NEW m \in Members, ChangeMember(m)
    PROVE  RosterSound'
<1>0. /\ RosterTypeOK /\ told <= TopChange /\ told \in Nat /\ (harms = {} => RosterWhole)
      /\ roster \in [Members -> [v : Versions, in : BOOLEAN]] /\ call \in [Calls -> RosterCall]
      /\ rows \in [Members -> RosterRow] /\ Versions \subseteq Nat
  BY RosterNumbers DEF RosterSound, RosterTypeOK, RosterCall
<1>t. PICK latest \in Nat : latest = TopChange BY <1>0, TopIs
<1>1. /\ latest < MaxChanges /\ told <= latest
      /\ \A n \in Members : roster[n].v \in Nat /\ roster[n].v <= latest
  BY <1>0, <1>t, TopIs DEF ChangeMember
<1>2. PICK b \in {roster[m].in, ~roster[m].in} :
         roster' = [roster EXCEPT ![m] = [v |-> latest + 1, in |-> b]]
  BY <1>t DEF ChangeMember
<1>3. b \in BOOLEAN BY <1>0, <1>2
<1>4. latest + 1 \in Versions BY <1>1, <1>t, RosterNumbers DEF Versions
<1>5. /\ roster' \in [Members -> [v : Versions, in : BOOLEAN]]
      /\ roster'[m].v = latest + 1 /\ \A n \in Members \ {m} : roster'[n] = roster[n]
  BY <1>0, <1>2, <1>3, <1>4
<1>6. /\ rows' = rows /\ mark' = mark /\ call' = call /\ told' = told /\ harms' = harms
  BY DEF ChangeMember
<1>7. RosterTypeOK' BY <1>0, <1>5, <1>6 DEF RosterTypeOK
<1>8. TopChange' \in Nat /\ latest + 1 <= TopChange'
  <2>1. PICK r : r = roster' OBVIOUS
  <2>2. r \in [Members -> [v : Versions, in : BOOLEAN]] BY <1>5, <2>1
  <2>3. TopChange' = Max({r[n].v : n \in Members}) BY <2>1 DEF TopChange
  <2>4. TopChange' \in Versions /\ r[m].v <= TopChange' BY <2>2, <2>3, LatestIs
  <2> QED BY <2>1, <2>4, <1>0, <1>5
<1>9. told' <= TopChange' /\ latest <= TopChange' BY <1>0, <1>1, <1>6, <1>8
<1>10. \A j, k \in Members : roster'[j].v = roster'[k].v /\ roster'[j].v # 0 => j = k
  BY <1>1, <1>5 DEF RosterSound
<1>11. ASSUME NEW row \in RosterRow, NEW n \in Members, Known(row, n) PROVE Known(row, n)'
  <2>1. row.of \in Nat /\ row.of <= roster[n].v /\ row.v \in {0, row.of}
    BY <1>0, <1>11 DEF Known, RosterRow
  <2>2. row.of <= roster'[n].v BY <2>1, <1>1, <1>5
  <2> QED BY <2>1, <2>2 DEF Known
<1>12. \A n \in Members : Known(rows[n], n)'
  <2>1. ASSUME NEW n \in Members PROVE Known(rows[n], n)'
    <3>1. PICK row \in RosterRow : row = rows[n] BY <1>0
    <3>2. Known(row, n)' BY <1>11, <3>1 DEF RosterSound
    <3> QED BY <1>6, <3>1, <3>2 DEF Known
  <2> QED BY <2>1
<1>13. ASSUME NEW d \in Calls PROVE Holding(call[d])'
  <2>1. PICK x \in RosterCall : x = call[d] BY <1>0
  <2>2. Holding(x) BY <2>1 DEF RosterSound
  <2>3. /\ x.asof \in Nat /\ x.asof <= latest /\ x.put \in [Members -> RosterRow]
        /\ x.old \in [Members -> RosterRow]
    BY <1>0, <1>t, <2>2 DEF Holding, RosterCall
  <2>4. x.asof <= TopChange' BY <1>8, <1>9, <2>3
  <2>5. ASSUME NEW n \in Members
        PROVE  /\ Known(x.old[n], n)'
               /\ n \in x.drop /\ roster'[n].v <= x.asof => ~roster'[n].in
               /\ x.put[n].of # 0 => /\ Known(x.put[n], n)'
                                     /\ roster'[n].v <= x.asof => x.put[n].of = roster'[n].v
                                     /\ x.put[n].of = roster'[n].v => roster'[n].in
    <3>1. Known(x.old[n], n)' BY <1>11, <2>2, <2>3 DEF Holding
    <3>2. x.put[n].of # 0 => Known(x.put[n], n)' BY <1>11, <2>2, <2>3 DEF Holding
    <3>3. CASE n = m
      <4>1. ~(roster'[n].v <= x.asof) BY <1>5, <2>3, <3>3
      <4>2. x.put[n].of # 0 => x.put[n].of # roster'[n].v
        <5>1. x.put[n].of # 0 => x.put[n].of <= roster[n].v BY <2>2 DEF Holding, Known
        <5>2. x.put[n].of \in Nat BY <2>3, <1>0 DEF RosterRow
        <5> QED BY <5>1, <5>2, <1>1, <1>5, <3>3
      <4> QED BY <3>1, <3>2, <4>1, <4>2
    <3>4. CASE n # m
      <4>1. roster'[n] = roster[n] BY <1>5, <3>4
      <4> QED BY <3>1, <3>2, <4>1, <2>2 DEF Holding
    <3> QED BY <3>3, <3>4
  <2>6. Holding(x)' BY <2>2, <2>4, <2>5 DEF Holding
  <2> QED BY <1>6, <2>1, <2>6 DEF Holding, Known
<1>14. ASSUME NEW n \in Nat, Reached(n) PROVE Reached(n)'
  <2>1. n <= told BY <1>14 DEF Reached
  <2>2. ASSUME NEW k \in Members, roster'[k].v \in 1..n PROVE Right(k)'
    <3>1. k # m BY <1>0, <1>1, <1>5, <2>1, <2>2
    <3>2. roster'[k] = roster[k] BY <1>5, <3>1
    <3>3. Right(k) BY <1>14, <2>2, <3>2 DEF Reached
    <3> QED BY <1>6, <3>2, <3>3 DEF Right
  <2> QED BY <1>6, <2>1, <2>2 DEF Reached
<1>15. ASSUME NEW x \in RosterCall, Asks(x) PROVE Asks(x)'
  <2>1. x.since \in Nat /\ x.next \in Nat /\ x.next <= told BY <1>0, <1>15 DEF Asks, RosterCall
  <2>2. Reached(x.since)' /\ (x.at \notin {"read", "put"} => Reached(x.next)')
    BY <1>14, <1>15, <2>1 DEF Asks
  <2>3. ASSUME x.at \in {"read", "put"}, NEW k \in Members, roster'[k].v \in 1..x.next
        PROVE  roster'[k].v <= x.since \/ x.put[k].of = roster'[k].v \/ k \in x.drop
    <3>1. k # m BY <1>0, <1>1, <1>5, <2>1, <2>3
    <3>2. roster'[k] = roster[k] BY <1>5, <3>1
    <3> QED BY <1>15, <2>3, <3>2 DEF Asks
  <2> QED BY <1>6, <2>1, <2>2, <2>3 DEF Asks
<1>16. ASSUME harms' = {} PROVE RosterWhole'
  <2>1. RosterWhole BY <1>0, <1>6, <1>16
  <2>2. PICK n \in Nat : n = mark BY <1>0 DEF RosterTypeOK
  <2>3. Reached(n)' BY <1>14, <2>1, <2>2 DEF RosterWhole
  <2>4. Reached(mark)' BY <1>6, <2>2, <2>3 DEF Reached
  <2>5. ASSUME NEW k \in Members PROVE Reached(rows[k].v)'
    <3>1. PICK j \in Nat : j = rows[k].v BY <1>0 DEF RosterRow
    <3>2. Reached(j)' BY <1>14, <2>1, <3>1 DEF RosterWhole
    <3> QED BY <1>6, <3>1, <3>2 DEF Reached
  <2>6. ASSUME NEW d \in Calls PROVE Asks(call[d])'
    <3>1. PICK x \in RosterCall : x = call[d] BY <1>0
    <3>2. Asks(x)' BY <1>15, <2>1, <3>1 DEF RosterWhole
    <3> QED BY <1>6, <3>1, <3>2 DEF Asks, Reached
  <2> QED BY <2>4, <2>5, <2>6 DEF RosterWhole
<1> QED BY <1>7, <1>9, <1>10, <1>12, <1>13, <1>16 DEF RosterSound

LEMMA DropRowsKeeps == ASSUME RosterSound, NEW c \in Calls, DropRows(c) PROVE RosterSound'
<1>0. /\ roster \in [Members -> [v : Versions, in : BOOLEAN]]
      /\ rows \in [Members -> RosterRow] /\ mark \in Versions /\ told \in Versions
      /\ call \in [Calls -> RosterCall] /\ call[c] \in RosterCall
      /\ harms \subseteq {"late", "cut"} /\ told <= TopChange
      /\ (\A m \in Members : Known(rows[m], m))
      /\ Holding(call[c]) /\ (harms = {} => RosterWhole /\ Asks(call[c]))
      /\ Versions \subseteq Nat /\ mark \in Nat /\ told \in Nat /\ TopChange \in Nat
      /\ RosterTypeOK
  BY RosterFacts
<1>1. PICK x \in RosterCall : x = call[c] BY <1>0
<1>2. x.at = "drop" /\ Holding(x) /\ (harms = {} => Asks(x)) BY <1>0, <1>1 DEF DropRows
<1>3. PICK y : y = IF x.pages = 0 THEN Resting
                   ELSE [x EXCEPT !.at = "mark", !.drop = {}, !.asof = 0]
  OBVIOUS
<1>4. call' = [call EXCEPT ![c] = y] BY <1>0, <1>1, <1>3 DEF DropRows
<1>5. y \in RosterCall BY <1>3, RosterNumbers DEF RosterCall
<1>6. x.pages = 0 => y = Resting BY <1>3
<1>7. ASSUME x.pages # 0
      PROVE  /\ y.at = "mark" /\ y.drop = {} /\ y.asof = 0 /\ y.since = x.since
             /\ y.next = x.next /\ y.put = x.put /\ y.old = x.old
  BY <1>3, <1>7 DEF RosterCall
<1>8. Holding(y)
  <2>1. CASE x.pages = 0 BY <2>1, <1>3, <1>0, RestingAsks
  <2>2. CASE x.pages # 0
    <3>0. TopChange \in Nat /\ x.at # "read" /\ x.at # "put" BY <1>0, <1>2
    <3>1. x.put = Nothing /\ 0 <= TopChange BY <1>2, <3>0 DEF Holding
    <3>2. \A m \in Members : x.put[m].of = 0 BY <3>1, RestingAsks, RosterNumbers
    <3> QED BY <1>2, <1>7, <2>2, <3>1, <3>2 DEF Holding
  <2> QED BY <2>1, <2>2
<1>9. /\ roster' = roster /\ mark' = mark /\ told' = told /\ told' \in Nat /\ told <= told'
      /\ told' <= TopChange
      /\ rows' = [m \in Members |-> IF m \in x.drop THEN NoRow ELSE rows[m]]
  BY <1>0, <1>1 DEF DropRows
<1>10. rows' \in [Members -> RosterRow] BY <1>0, <1>9, RosterNumbers
<1>11. \A m \in Members : Known(rows'[m], m)
  <2>1. ASSUME NEW m \in Members PROVE Known(NoRow, m)
    <3>1. roster[m].v \in Nat BY <1>0
    <3> QED BY <3>1, RosterNumbers DEF Known
  <2> QED BY <2>1, <1>0, <1>9
<1>12. /\ harms' \subseteq {"late", "cut"} /\ harms \subseteq harms'
       /\ harms' = {} => ~(x.asof < told /\ x.drop # {})
  BY <1>0, <1>1 DEF DropRows, Blame
<1>13. ASSUME harms' = {}, NEW m \in Members, Right(m), roster[m].v <= told PROVE Right(m)'
  <2>1. CASE m \in x.drop
    <3>1. x.asof \in Nat /\ roster[m].v \in Nat BY <1>0 DEF RosterCall
    <3>2. told <= x.asof BY <1>0, <1>12, <1>13, <2>1, <3>1
    <3>3. roster[m].v <= x.asof BY <1>0, <1>13, <3>1, <3>2
    <3>4. ~roster[m].in BY <1>2, <2>1, <3>3 DEF Holding
    <3>5. rows'[m].of = 0 BY <1>9, <2>1, RosterNumbers
    <3> QED BY <1>9, <3>4, <3>5 DEF Right
  <2>2. CASE m \notin x.drop
    <3>1. rows'[m] = rows[m] BY <1>9, <2>2
    <3> QED BY <1>0, <1>1, <1>4, <1>9, <1>13, <2>2, <3>1, RightStays
  <2> QED BY <2>1, <2>2
<1>14. ASSUME harms' = {}
       PROVE  Reached(mark)' /\ (\A m \in Members : Reached(rows[m].v)') /\ Asks(y)'
  <2>0. harms = {} BY <1>12, <1>14
  <2>a. RosterWhole /\ Asks(x) BY <1>0, <1>2, <2>0
  <2>1. ASSUME NEW k \in Nat, Reached(k) PROVE Reached(k)'
    BY <1>0, <1>9, <1>13, <1>14, <2>1, ReachedStays
  <2>2. PICK n \in Nat : n = mark BY <1>0
  <2>3. Reached(n)' BY <2>a, <2>1, <2>2 DEF RosterWhole
  <2>4. ASSUME NEW m \in Members PROVE Reached(rows[m].v)'
    <3>1. PICK k : k = rows'[m].v OBVIOUS
    <3>2. CASE m \in x.drop
      <4>1. k = 0 BY <1>9, <3>1, <3>2, RosterNumbers
      <4>2. 1..0 = {} /\ 0 <= told' BY <1>9
      <4> QED BY <3>1, <4>1, <4>2 DEF Reached
    <3>3. CASE m \notin x.drop
      <4>1. k = rows[m].v /\ k \in Nat BY <1>0, <1>9, <3>1, <3>3 DEF RosterRow
      <4>2. Reached(k)' BY <2>a, <2>1, <4>1 DEF RosterWhole
      <4> QED BY <3>1, <4>2 DEF Reached
    <3> QED BY <3>2, <3>3
  <2>5. Reached(mark)' BY <1>9, <2>2, <2>3 DEF Reached
  <2>6. Asks(x)' BY <1>0, <1>9, <1>13, <1>14, <2>a, AsksStays
  <2>7. Asks(y)'
    <3>1. CASE x.pages = 0 BY <3>1, <1>3, <1>9, RestingAsks
    <3>2. CASE x.pages # 0 BY <1>2, <1>7, <2>6, <3>2 DEF Asks
    <3> QED BY <3>1, <3>2
  <2> QED BY <2>4, <2>5, <2>7
<1> QED BY <1>0, <1>4, <1>5, <1>8, <1>9, <1>10, <1>11, <1>12, <1>13, <1>14, CallStep

\* A row that is put over a row of the same member is not older, if the one it
\* replaces has a version.
LEMMA NewerIs ==
    ASSUME NEW m \in Members, NEW new \in RosterRow, NEW was \in RosterRow,
           roster[m].v \in Nat, Known(new, m), Known(was, m)
    PROVE  /\ IsNewer(new, was) /\ was.v # 0 /\ was.of = roster[m].v => new.of = roster[m].v
           /\ new.v = new.of /\ new.of = roster[m].v => IsNewer(new, was)
<1>1. /\ new.v \in Nat /\ new.of \in Nat /\ was.v \in Nat /\ was.of \in Nat
      /\ new.of <= roster[m].v /\ was.of <= roster[m].v
      /\ new.v \in {0, new.of} /\ was.v \in {0, was.of}
  BY RosterNumbers DEF Known, RosterRow
<1> QED BY <1>1 DEF IsNewer

LEMMA PutRowsKeeps == ASSUME RosterSound, NEW c \in Calls, PutRows(c) PROVE RosterSound'
<1>0. /\ roster \in [Members -> [v : Versions, in : BOOLEAN]]
      /\ rows \in [Members -> RosterRow] /\ mark \in Versions /\ told \in Versions
      /\ call \in [Calls -> RosterCall] /\ call[c] \in RosterCall
      /\ harms \subseteq {"late", "cut"} /\ told <= TopChange
      /\ (\A m \in Members : Known(rows[m], m))
      /\ Holding(call[c]) /\ (harms = {} => RosterWhole /\ Asks(call[c]))
      /\ Versions \subseteq Nat /\ mark \in Nat /\ told \in Nat /\ TopChange \in Nat
      /\ RosterTypeOK
  BY RosterFacts
<1>1. PICK x \in RosterCall : x = call[c] BY <1>0
<1>2. x.at = "put" /\ Holding(x) /\ (harms = {} => Asks(x)) BY <1>0, <1>1 DEF PutRows
<1>3. PICK asof : asof = IF x.drop = {} THEN 0 ELSE x.asof OBVIOUS
<1>4. PICK y : y = [x EXCEPT !.at = "drop", !.put = Nothing, !.old = Nothing, !.asof = asof]
  OBVIOUS
<1>5. call' = [call EXCEPT ![c] = y] BY <1>0, <1>1, <1>3, <1>4 DEF PutRows
<1>6. asof \in Versions BY <1>3, RosterNumbers DEF RosterCall
<1>7. y \in RosterCall BY <1>4, <1>6, RosterNumbers DEF RosterCall
<1>8. /\ y.at = "drop" /\ y.drop = x.drop /\ y.asof = asof /\ y.since = x.since
      /\ y.next = x.next /\ y.put = Nothing /\ y.old = Nothing
  BY <1>4 DEF RosterCall
<1>9. Holding(y)
  <2>1. asof <= TopChange
    <3>1. 0 <= TopChange BY <1>0
    <3> QED BY <3>1, <1>2, <1>3 DEF Holding
  <2>2. ASSUME NEW m \in Members PROVE Known(NoRow, m)
    <3>1. roster[m].v \in Nat BY <1>0
    <3> QED BY <3>1, RosterNumbers DEF Known
  <2>3. \A m \in Members : m \in x.drop /\ roster[m].v <= asof => ~roster[m].in
    BY <1>2, <1>3 DEF Holding
  <2>4. \A m \in Members : Nothing[m] = NoRow /\ NoRow.of = 0 /\ NoRow.v = 0
    BY RestingAsks, RosterNumbers
  <2>5. 0 <= x.next
    <3>1. x.next \in Nat BY <1>0 DEF RosterCall
    <3> QED BY <3>1
  <2> QED BY <1>8, <2>1, <2>2, <2>3, <2>4, <2>5 DEF Holding
<1>10. /\ roster' = roster /\ mark' = mark /\ told' = told /\ told' \in Nat /\ told <= told'
       /\ told' <= TopChange
       /\ rows' = [m \in Members |-> IF x.put[m].of # 0 /\ IsNewer(x.put[m], x.old[m])
                                     THEN x.put[m] ELSE rows[m]]
  BY <1>0, <1>1 DEF PutRows
<1>11. x.put \in [Members -> RosterRow] /\ x.old \in [Members -> RosterRow] BY DEF RosterCall
<1>12. rows' \in [Members -> RosterRow] BY <1>0, <1>10, <1>11
<1>13. \A m \in Members : Known(rows'[m], m) BY <1>0, <1>2, <1>10 DEF Holding
<1>14. /\ harms' \subseteq {"late", "cut"} /\ harms \subseteq harms'
       /\ harms' = {} =>
             \/ ~(x.asof < told)
             \/ \A m \in Members : x.put[m].of # 0 => rows[m].v # 0 /\ rows[m] = x.old[m]
  BY <1>0, <1>1 DEF PutRows, Blame, Unguarded
<1>15. ASSUME harms' = {}, NEW m \in Members, Right(m), roster[m].v <= told PROVE Right(m)'
  <2>1. CASE \/ rows'[m] = rows[m]
             \/ \E d \in Calls : call[d].at = "drop" /\ m \in call[d].drop
    <3>1. CASE rows'[m] = rows[m]
      BY <1>0, <1>1, <1>2, <1>5, <1>10, <1>15, <3>1, RightStays
    <3>2. CASE \E d \in Calls : call[d].at = "drop" /\ m \in call[d].drop
      <4>1. PICK d \in Calls : call[d].at = "drop" /\ m \in call[d].drop BY <3>2
      <4>2. d # c BY <1>1, <1>2, <4>1
      <4>3. call'[d] = call[d] BY <1>0, <1>5, <4>2
      <4> QED BY <4>1, <4>3 DEF Right
    <3> QED BY <2>1, <3>1, <3>2
  <2>2. CASE /\ rows'[m] # rows[m]
             /\ rows[m].of = IF roster[m].in THEN roster[m].v ELSE 0
    <3>1. rows'[m] = x.put[m] /\ x.put[m].of # 0 /\ IsNewer(x.put[m], x.old[m])
      BY <1>10, <2>2
    <3>2. roster[m].v \in Nat /\ x.asof \in Nat BY <1>0 DEF RosterCall
    <3>3. x.put[m].of = roster[m].v
      <4>1. CASE ~(x.asof < told)
        <5>1. roster[m].v <= x.asof BY <1>0, <1>15, <3>2, <4>1
        <5> QED BY <1>2, <3>1, <5>1 DEF Holding
      <4>2. CASE rows[m].v # 0 /\ rows[m] = x.old[m]
        <5>1. x.old[m].v # 0 /\ Known(x.old[m], m) /\ x.old[m] \in RosterRow
              /\ Known(x.put[m], m) /\ x.put[m] \in RosterRow
          BY <1>0, <1>2, <1>11, <3>1, <4>2 DEF Holding
        <5>2. x.old[m].of # 0 BY <5>1 DEF Known
        <5>3. x.old[m].of = roster[m].v BY <5>2, <4>2, <2>2
        <5> QED BY <3>1, <3>2, <5>1, <5>3, NewerIs
      <4> QED BY <1>14, <1>15, <3>1, <4>1, <4>2
    <3>4. roster[m].in BY <1>2, <3>1, <3>3 DEF Holding
    <3> QED BY <1>10, <3>1, <3>3, <3>4 DEF Right
  <2> QED BY <2>1, <2>2, <1>15 DEF Right
<1>16. ASSUME harms' = {}, NEW k \in Nat, Reached(k) PROVE Reached(k)'
  BY <1>0, <1>10, <1>15, <1>16, ReachedStays
<1>17. ASSUME harms' = {} PROVE Reached(x.next)'
  <2>1. Asks(x) /\ x.at \in {"read", "put"} BY <1>2, <1>14, <1>17
  <2>2. x.next \in Nat /\ x.since \in Nat /\ x.next <= told BY <1>0, <2>1 DEF Asks, RosterCall
  <2>3. Reached(x.since) BY <2>1 DEF Asks
  <2>4. ASSUME NEW m \in Members, roster[m].v \in 1..x.next PROVE Right(m)'
    <3>0. roster[m].v \in Nat /\ roster[m].v # 0 /\ roster[m].v <= told /\ x.next # 0
      BY <1>0, <2>2, <2>4
    <3>1. CASE roster[m].v <= x.since
      <4>1. roster[m].v \in 1..x.since BY <3>0, <3>1, <2>2
      <4>2. Right(m) BY <2>3, <4>1 DEF Reached
      <4> QED BY <1>15, <1>17, <3>0, <4>2
    <3>2. CASE m \in x.drop
      <4>1. call'[c] = y BY <1>0, <1>5
      <4> QED BY <1>8, <3>2, <4>1 DEF Right
    <3>3. CASE x.put[m].of = roster[m].v
      <4>1. /\ x.put[m].of # 0 /\ Known(x.put[m], m) /\ Known(x.old[m], m) /\ roster[m].in
            /\ x.put[m].v = x.put[m].of
        BY <1>2, <3>0, <3>3 DEF Holding
      <4>2. IsNewer(x.put[m], x.old[m])
        <5>1. x.put[m] \in RosterRow /\ x.old[m] \in RosterRow BY <1>11
        <5> QED BY <3>0, <3>3, <4>1, <5>1, NewerIs
      <4>3. rows'[m] = x.put[m] BY <1>10, <4>1, <4>2
      <4> QED BY <1>10, <3>3, <4>1, <4>3 DEF Right
    <3> QED BY <2>1, <2>4, <3>1, <3>2, <3>3 DEF Asks
  <2> QED BY <1>10, <2>2, <2>4 DEF Reached
<1>18. ASSUME harms' = {}
       PROVE  Reached(mark)' /\ (\A m \in Members : Reached(rows[m].v)') /\ Asks(y)'
  <2>0. harms = {} BY <1>14, <1>18
  <2>a. RosterWhole /\ Asks(x) BY <1>0, <1>2, <2>0
  <2>b. /\ x.next \in Nat /\ x.since \in Nat /\ x.next <= told BY <1>0, <2>a DEF Asks, RosterCall
  <2>1. PICK n \in Nat : n = mark BY <1>0
  <2>2. Reached(n)' BY <1>16, <1>18, <2>a, <2>1 DEF RosterWhole
  <2>3. Reached(mark)' BY <1>10, <2>1, <2>2 DEF Reached
  <2>4. ASSUME NEW m \in Members PROVE Reached(rows[m].v)'
    <3>1. PICK k : k = rows'[m].v OBVIOUS
    <3>2. CASE rows'[m] = rows[m]
      <4>1. k = rows[m].v /\ k \in Nat BY <1>0, <3>1, <3>2 DEF RosterRow
      <4>2. Reached(k)' BY <1>16, <1>18, <2>a, <4>1 DEF RosterWhole
      <4> QED BY <3>1, <4>2 DEF Reached
    <3>3. CASE rows'[m] = x.put[m]
      <4>1. k \in Nat /\ k <= x.next BY <1>0, <1>2, <1>11, <3>1, <3>3 DEF Holding, RosterRow
      <4>2. k <= told' /\ \A j \in Nat : j \in 1..k => j \in 1..x.next
        BY <1>10, <2>b, <4>1, <1>0
      <4>3. Reached(k)'
        <5>1. \A j \in Members : roster'[j].v \in Nat BY <1>0, <1>10
        <5> QED BY <1>17, <1>18, <4>2, <5>1 DEF Reached
      <4> QED BY <3>1, <4>3 DEF Reached
    <3> QED BY <1>10, <3>2, <3>3
  <2>5. Reached(x.since)' BY <1>16, <1>18, <2>a, <2>b DEF Asks
  <2>6. Asks(y)' BY <1>8, <1>10, <1>17, <1>18, <2>b, <2>5 DEF Asks
  <2> QED BY <2>3, <2>4, <2>6
<1> QED BY <1>0, <1>5, <1>7, <1>9, <1>10, <1>12, <1>13, <1>14, <1>15, <1>18, CallStep

\* A page has the first changes after a version: whoever changed no later than
\* one of it, but after that version, is of it as well.
LEMMA PageIsDense ==
    ASSUME RosterTypeOK,
           \A m, n \in Members : roster[m].v = roster[n].v /\ roster[m].v # 0 => m = n,
           NEW since \in Nat, NEW k \in Page(since), NEW m \in Members,
           roster[m].v > since, roster[m].v <= roster[k].v
    PROVE  m \in Page(since)
<1> DEFINE Before(j) == {n \in Members : roster[n].v > since /\ roster[n].v < roster[j].v}
<1>0. /\ k \in Members /\ roster[k].v > since /\ Cardinality(Before(k)) < PageSize
      /\ MaxChanges \in Nat /\ PageSize \in Nat
      /\ \A n \in Members : roster[n].v \in Nat /\ roster[n].v <= MaxChanges
  BY RosterNumbers DEF Page, RosterTypeOK, Versions
<1>1. PICK ver : ver = [n \in Members |-> roster[n].v] OBVIOUS
<1>2. /\ ver \in [Members -> Nat] /\ \A n \in Members : ver[n] <= MaxChanges
      /\ \A i, j \in Members : ver[i] = ver[j] /\ ver[i] # 0 => i = j
  BY <1>0, <1>1
<1>3. Before(k) \in SUBSET Members /\ \A n \in Before(k) : ver[n] # 0 BY <1>0, <1>1
<1>4. IsFiniteSet(Before(k)) BY <1>0, <1>2, <1>3, ChangedAreFinite
<1>5. Before(m) \subseteq Before(k) BY <1>0
<1>6. /\ Cardinality(Before(m)) <= Cardinality(Before(k))
      /\ IsFiniteSet(Before(m))
  BY <1>4, <1>5, FS_Subset
<1>7. Cardinality(Before(m)) \in Nat /\ Cardinality(Before(k)) \in Nat
  BY <1>4, <1>6, FS_CardinalityType
<1> HIDE DEF Before
<1>8. Cardinality(Before(m)) < PageSize BY <1>0, <1>6, <1>7
<1> QED BY <1>8 DEF Page, Before

LEMMA SyncAnswerKeeps == ASSUME RosterSound, NEW c \in Calls, SyncAnswer(c) PROVE RosterSound'
<1>0. /\ roster \in [Members -> [v : Versions, in : BOOLEAN]]
      /\ rows \in [Members -> RosterRow] /\ mark \in Versions /\ told \in Versions
      /\ call \in [Calls -> RosterCall] /\ call[c] \in RosterCall
      /\ harms \subseteq {"late", "cut"} /\ told <= TopChange /\ TopChange \in Versions
      /\ (\A m \in Members : Known(rows[m], m))
      /\ Holding(call[c]) /\ (harms = {} => RosterWhole /\ Asks(call[c]))
      /\ Versions \subseteq Nat /\ mark \in Nat /\ told \in Nat /\ TopChange \in Nat
      /\ RosterTypeOK
  BY RosterFacts
<1>1. PICK x \in RosterCall : x = call[c] BY <1>0
<1>2. x.at = "ask" /\ Holding(x) /\ (harms = {} => Asks(x)) BY <1>0, <1>1 DEF SyncAnswer
<1>n. x.since \in Versions /\ x.since \in Nat /\ x.pages \in 0..MaxPages /\ x.pages < MaxPages
  BY <1>0, <1>2 DEF RosterCall, Holding
<1> DEFINE P == Page(call[c].since)
           I == {m \in P : roster[m].in}
           N == Max({call[c].since} \cup {roster[m].v : m \in P})
           Q == [m \in Members |-> IF m \in I THEN [v |-> roster[m].v, of |-> roster[m].v]
                                   ELSE NoRow]
           W == \E m \in Members \ P : roster[m].v > call[c].since
<1>a. call' = [call EXCEPT ![c] = [call[c] EXCEPT
                  !.at = "read", !.asof = TopChange, !.put = Q, !.drop = P \ I,
                  !.next = N, !.more = W, !.pages = call[c].pages + 1]]
  BY DEF SyncAnswer
<1>w. W = TRUE \/ W = FALSE BY Zenon
<1> HIDE DEF P, I, N, Q, W
<1>3. PICK piece, in, next, put, more :
         piece = P /\ in = I /\ next = N /\ put = Q /\ more = W
  BY Zenon
<1>b. /\ piece = Page(call[c].since) /\ in = {m \in piece : roster[m].in}
      /\ put = [m \in Members |-> IF m \in in THEN [v |-> roster[m].v, of |-> roster[m].v]
                                  ELSE NoRow]
  BY <1>3 DEF P, I, Q
<1>c. next = Max({call[c].since} \cup {roster[m].v : m \in piece})
  BY <1>3 DEF N
<1>4. piece \subseteq Members /\ piece = Page(x.since) BY <1>1, <1>b DEF Page
<1>5. \A m \in Members : m \in in <=> m \in piece /\ roster[m].in BY <1>b
<1>8. PICK y : y = [x EXCEPT !.at = "read", !.asof = TopChange, !.put = put, !.drop = piece \ in,
                             !.next = next, !.more = more, !.pages = x.pages + 1]
  OBVIOUS
<1>9. call' = [call EXCEPT ![c] = y]
  BY <1>1, <1>3, <1>8, <1>a
<1>10. \A m \in Members : roster[m].v \in Versions /\ roster[m].v \in Nat /\ roster[m].v <= TopChange
  BY <1>0, TopIs
<1>11. put \in [Members -> RosterRow]
  <2>1. \A m \in Members : [v |-> roster[m].v, of |-> roster[m].v] \in RosterRow
    BY <1>10 DEF RosterRow
  <2> QED BY <2>1, <1>b, RosterNumbers
<1>12. /\ next \in Versions /\ next \in Nat /\ x.since <= next
       /\ \A m \in piece : roster[m].v <= next
       /\ next = x.since \/ \E k \in piece : next = roster[k].v
  <2> DEFINE S == {call[c].since} \cup {roster[m].v : m \in piece}
  <2>0. \A m \in piece : m \in Members BY <1>4
  <2>1. S \subseteq 0..MaxChanges /\ S # {} BY <1>1, <1>n, <1>10, <2>0 DEF Versions
  <2>2. Max(S) \in S /\ \A v \in S : v <= Max(S) BY <2>1, RosterNumbers, LargestOf
  <2>3. x.since \in S /\ \A m \in piece : roster[m].v \in S BY <1>1
  <2>4. \A v \in S : v = x.since \/ \E k \in piece : v = roster[k].v BY <1>1, <2>0
  <2> HIDE DEF S
  <2>5. next = Max(S) BY <1>c DEF S
  <2>6. next \in Versions BY <2>1, <2>2, <2>5 DEF Versions
  <2> QED BY <1>0, <2>2, <2>3, <2>4, <2>5, <2>6
<1>13. more \in BOOLEAN
  <2>1. more = TRUE \/ more = FALSE BY <1>3, <1>w, Zenon
  <2> QED BY <2>1
<1>14. x.pages + 1 \in 0..MaxPages BY <1>n, RosterNumbers
<1>15. y \in RosterCall BY <1>0, <1>4, <1>8, <1>11, <1>12, <1>13, <1>14 DEF RosterCall
<1>16. /\ y.at = "read" /\ y.drop = piece \ in /\ y.asof = TopChange /\ y.since = x.since
       /\ y.next = next /\ y.put = put /\ y.old = x.old
  BY <1>8 DEF RosterCall
<1>17. ASSUME NEW m \in Members
       PROVE  /\ m \in in => put[m].v = roster[m].v /\ put[m].of = roster[m].v
                             /\ roster[m].in /\ m \in piece
              /\ m \notin in => put[m].v = 0 /\ put[m].of = 0
              /\ m \in piece \ in => ~roster[m].in
  BY <1>b, <1>4, <1>5, RosterNumbers
<1>18. Holding(y)
  <2>1. TopChange <= TopChange BY <1>0
  <2>2. ASSUME NEW m \in Members
        PROVE  /\ y.put[m].of # 0 => /\ Known(y.put[m], m)
                                     /\ roster[m].v <= y.asof => y.put[m].of = roster[m].v
                                     /\ y.put[m].of = roster[m].v => roster[m].in
               /\ y.put[m].v <= y.next
               /\ y.next # 0 => y.put[m].v = y.put[m].of
    <3>1. CASE m \in in
      <4>1. roster[m].v <= roster[m].v /\ roster[m].v <= next BY <1>10, <1>12, <1>17, <3>1
      <4> QED BY <1>16, <1>17, <3>1, <4>1 DEF Known
    <3>2. CASE m \notin in
      <4>1. 0 <= next BY <1>12
      <4> QED BY <1>16, <1>17, <3>2, <4>1
    <3> QED BY <3>1, <3>2
  <2>3. \A m \in Members : /\ Known(y.old[m], m)
                           /\ m \in y.drop /\ roster[m].v <= y.asof => ~roster[m].in
    BY <1>2, <1>16, <1>17 DEF Holding
  <2> QED BY <1>16, <2>1, <2>2, <2>3 DEF Holding
<1>19. /\ roster' = roster /\ rows' = rows /\ mark' = mark /\ harms' = harms
       /\ told' = TopChange /\ told' \in Versions /\ told' \in Nat /\ told <= told'
       /\ told' <= TopChange
  BY <1>0 DEF SyncAnswer
<1>20. ASSUME NEW m \in Members, Right(m) PROVE Right(m)'
  <2>1. rows'[m].of = rows[m].of /\ call[c].at # "drop" BY <1>1, <1>2, <1>19
  <2> QED BY <1>0, <1>9, <1>19, <1>20, <2>1, RightStays
<1>21. ASSUME NEW k \in Nat, Reached(k) PROVE Reached(k)'
  BY <1>0, <1>19, <1>20, <1>21, ReachedStays
<1>22. ASSUME NEW m \in Members, roster[m].v \in 1..next
       PROVE  roster[m].v <= x.since \/ put[m].of = roster[m].v \/ m \in piece \ in
  <2>1. CASE roster[m].v <= x.since BY <2>1
  <2>2. CASE ~(roster[m].v <= x.since)
    <3>1. roster[m].v > x.since /\ roster[m].v <= next BY <2>2, <1>n, <1>10, <1>12, <1>22
    <3>2. PICK k \in piece : next = roster[k].v BY <1>n, <1>10, <1>12, <3>1
    <3>3. m \in piece BY <1>0, <1>n, <1>4, <3>1, <3>2, PageIsDense DEF RosterSound
    <3> QED BY <1>17, <3>3
  <2> QED BY <2>1, <2>2
<1>23. ASSUME harms' = {}
       PROVE  Reached(mark)' /\ (\A m \in Members : Reached(rows[m].v)') /\ Asks(y)'
  <2>a. RosterWhole /\ Asks(x) BY <1>0, <1>2, <1>19, <1>23
  <2>1. PICK n \in Nat : n = mark BY <1>0
  <2>2. Reached(n)' BY <1>21, <2>a, <2>1 DEF RosterWhole
  <2>3. Reached(mark)' BY <1>19, <2>1, <2>2 DEF Reached
  <2>4. ASSUME NEW m \in Members PROVE Reached(rows[m].v)'
    <3>1. PICK k \in Nat : k = rows[m].v BY <1>0 DEF RosterRow
    <3>2. Reached(k)' BY <1>21, <2>a, <3>1 DEF RosterWhole
    <3> QED BY <1>19, <3>1, <3>2 DEF Reached
  <2>5. Reached(x.since)' BY <1>n, <1>21, <2>a DEF Asks
  <2>6. next <= told'
    <3>1. x.since <= told BY <2>a DEF Asks, Reached
    <3>2. next <= TopChange
      <4>1. CASE next = x.since BY <1>0, <1>n, <3>1, <4>1
      <4>2. CASE \E k \in piece : next = roster[k].v BY <1>4, <1>10, <4>2
      <4> QED BY <1>12, <4>1, <4>2
    <3> QED BY <1>19, <3>2
  <2>7. Asks(y)' BY <1>16, <1>19, <1>22, <2>5, <2>6 DEF Asks
  <2> QED BY <2>3, <2>4, <2>7
<1> QED BY <1>0, <1>9, <1>15, <1>18, <1>19, <1>20, <1>23, CallStep

LEMMA RosterKeepsSound ==
    ASSUME RosterSound, RosterNext \/ UNCHANGED rosterVars
    PROVE  RosterSound'
<1>1. ASSUME NEW m \in Members, ChangeMember(m) PROVE RosterSound' BY <1>1, ChangeMemberKeeps
<1>2. ASSUME NEW c \in Calls, RosterStep(c) PROVE RosterSound'
  BY <1>2, SyncRosterKeeps, SyncAnswerKeeps, ListAnswerKeeps, ReadRowsKeeps, PutRowsKeeps,
     DropRowsKeeps, ReadMarkKeeps, AdvanceMarkKeeps, RosterFailsKeeps, RosterCrashKeeps
  DEF RosterStep
<1>3. CASE SwitchAccount BY <1>3, SwitchAccountKeeps
<1>4. CASE UNCHANGED rosterVars
  <2>1. /\ roster' = roster /\ rows' = rows /\ mark' = mark /\ call' = call /\ told' = told
        /\ harms' = harms
    BY <1>4 DEF rosterVars
  <2>2. TopChange' = TopChange BY <2>1 DEF TopChange
  <2>3. RosterTypeOK' BY <2>1 DEF RosterSound, RosterTypeOK
  <2>4. \A c \in Calls : Holding(call[c])' BY <2>1, <2>2 DEF RosterSound, Holding, Known
  <2>5. \A m \in Members : Right(m)' <=> Right(m) BY <2>1 DEF Right
  <2>6. harms' = {} => RosterWhole'
    BY <2>1, <2>5 DEF RosterSound, RosterWhole, Asks, Reached
  <2>7. \A m \in Members : Known(rows[m], m)' BY <2>1 DEF RosterSound, Known
  <2>8. /\ told' <= TopChange'
        /\ \A m, n \in Members : roster'[m].v = roster'[n].v /\ roster'[m].v # 0 => m = n
    BY <2>1, <2>2 DEF RosterSound
  <2> QED BY <2>3, <2>4, <2>6, <2>7, <2>8 DEF RosterSound
<1> QED BY <1>1, <1>2, <1>3, <1>4 DEF RosterNext

LEMMA SoundRoster == RosterSound => WatermarkIsHonest
<1> SUFFICES ASSUME RosterSound, harms = {}, NEW m \in Members, roster[m].v \in 1..Watermark
             PROVE  Right(m)
  BY DEF WatermarkIsHonest, Right
<1>1. RosterTypeOK /\ RosterWhole BY DEF RosterSound
<1>2. Reached(Watermark)
  <2>1. PICK n : n = Watermark OBVIOUS
  <2>2. n = mark \/ \E k \in Members : n = rows[k].v BY <1>1, <2>1, WatermarkIs
  <2>3. Reached(n) BY <1>1, <2>2 DEF RosterWhole
  <2> QED BY <2>1, <2>3
<1> QED BY <1>2 DEF Reached

-----------------------------------------------------------------------------
(* The sweeps of friends and groups (FriendSync).                          *)

SweepState == [at : {"idle", "table", "ask", "put", "drop", "apply"},
               since : Edits, up : [Peers -> Edits], gone : SUBSET Peers]

\* The table shows a peer as the server has it.
Fits(p) == saved[p] = IF peers[p].in THEN peers[p].v ELSE 0

Drops(x, p)   == x.at = "drop" /\ p \in x.gone
Touches(x, p) == x.at \in {"drop", "apply"} /\ (x.up[p] # 0 \/ p \in x.gone)

\* The table needs no answer any more to get a peer right.
PeerSettled(p) ==
    \/ Fits(p)
    \/ kind = "group" /\ ~peers[p].in
    \/ \E s \in Sweeps : Drops(sweep[s], p)

Covered(n) == \A p \in Peers : peers[p].v \in 1..n => PeerSettled(p)

\* What a sweep holds was so when it was answered, and still is of whom has not
\* changed since.
SweepHolds(x) ==
    /\ x.since <= LatestEdit
    /\ x.at \in {"idle", "table"} => x.up = Nobody /\ x.gone = {}
    /\ kind = "group" => x.gone = {}
    /\ \A p \in Peers :
          /\ x.up[p] <= x.since /\ x.up[p] <= peers[p].v
          /\ x.up[p] # 0 /\ x.up[p] = peers[p].v => peers[p].in
          /\ p \in x.gone => peers[p].v # 0
          /\ p \in x.gone /\ peers[p].v <= x.since => ~peers[p].in \/ x.up[p] = peers[p].v

\* Up to where a sweep has asked, the table is right or the sweep will make it
\* so; once it writes, what it has written is still there.
Comes(x) ==
    /\ x.at \notin {"drop", "apply"} => \A p \in Peers : peers[p].v \in 1..x.since =>
          PeerSettled(p) \/ x.up[p] = peers[p].v \/ p \in x.gone
    /\ x.at \in {"drop", "apply"} =>
          /\ Covered(x.since)
          /\ \A p \in Peers :
                /\ p \in x.gone => x.up[p] = 0
                /\ x.up[p] # 0 /\ x.up[p] = peers[p].v => saved[p] = x.up[p]
                /\ x.at = "apply" /\ p \in x.gone /\ peers[p].v <= x.since => saved[p] = 0

\* Memory has what the table has, or a sweep is about to bring it.
MemoryFollows(p) == loaded[p] = saved[p] \/ \E s \in Sweeps : Touches(sweep[s], p)

NamesFollow ==
    \A p \in Peers : /\ p \in named => loaded[p] # 0
                     /\ p \in named <=> pen[p] = "name" \/ (pen[p] = "no" /\ p \in names)

FriendWhole ==
    /\ \A p \in Peers : Covered(saved[p]) /\ Covered(loaded[p]) /\ MemoryFollows(p)
    /\ \A s \in Sweeps : Comes(sweep[s])
    /\ NamesFollow

FriendSound ==
    /\ FriendTypeOK
    /\ \A p, q \in Peers : peers[p].v = peers[q].v /\ peers[p].v # 0 => p = q
    /\ \A p \in Peers : /\ peers[p].v = 0 => ~peers[p].in
                        /\ saved[p] <= peers[p].v /\ loaded[p] <= peers[p].v
    /\ kind = "group" => named = {} /\ names = {} /\ pen = NoPen
    /\ \A s \in Sweeps : SweepHolds(sweep[s])
    /\ ills = {} => FriendWhole

LEMMA FriendNumbers ==
    /\ MaxEdits \in Nat /\ SweepPage \in Nat /\ SweepPage # 0 /\ Peers # {}
    /\ 0 \in Edits /\ Edits \subseteq Nat
    /\ Nobody \in [Peers -> Edits] /\ \A p \in Peers : Nobody[p] = 0
    /\ AtRest \in SweepState /\ AtRest.at = "idle" /\ AtRest.since = 0 /\ AtRest.up = Nobody
    /\ AtRest.gone = {} /\ \A p \in Peers : NoPen[p] = "no"
BY FriendAssumption DEF Edits, Nobody, AtRest, SweepState, NoPen

\* The largest version of some rows is one of them.
LEMMA HighestIs ==
    ASSUME NEW row \in [Peers -> Edits]
    PROVE  /\ Max({row[p] : p \in Peers}) \in Edits
           /\ \A p \in Peers : row[p] <= Max({row[q] : q \in Peers})
           /\ \E p \in Peers : Max({row[q] : q \in Peers}) = row[p]
<1> DEFINE S == {row[p] : p \in Peers}
<1>1. S \subseteq 0..MaxEdits /\ S # {} BY FriendNumbers DEF Edits
<1>2. Max(S) \in S /\ \A v \in S : v <= Max(S) BY <1>1, FriendNumbers, LargestOf
<1>3. (\A p \in Peers : row[p] \in S) /\ \A v \in S : \E p \in Peers : v = row[p] OBVIOUS
<1> HIDE DEF S
<1>4. Max(S) \in Edits BY <1>1, <1>2 DEF Edits
<1>5. \A p \in Peers : row[p] <= Max(S) BY <1>2, <1>3
<1>6. \E p \in Peers : Max(S) = row[p] BY <1>2, <1>3
<1> QED BY <1>4, <1>5, <1>6 DEF S

LEMMA LatestEditIs ==
    ASSUME NEW ver \in [Peers -> [v : Edits, in : BOOLEAN]]
    PROVE  /\ Max({ver[p].v : p \in Peers}) \in Edits
           /\ \A p \in Peers : ver[p].v <= Max({ver[q].v : q \in Peers})
<1>1. PICK row : row = [p \in Peers |-> ver[p].v] OBVIOUS
<1>2. row \in [Peers -> Edits] /\ \A p \in Peers : row[p] = ver[p].v BY <1>1
<1>3. {row[p] : p \in Peers} = {ver[p].v : p \in Peers} BY <1>2
<1> QED BY <1>2, <1>3, HighestIs

LEMMA FriendFacts ==
    ASSUME FriendSound
    PROVE  /\ peers \in [Peers -> [v : Edits, in : BOOLEAN]]
           /\ saved \in [Peers -> Edits] /\ loaded \in [Peers -> Edits]
           /\ sweep \in [Sweeps -> SweepState]
           /\ LatestEdit \in Edits /\ LatestEdit \in Nat /\ Edits \subseteq Nat
           /\ \A p \in Peers : peers[p].v \in Nat /\ peers[p].v <= LatestEdit
           /\ FriendTypeOK
<1>1. FriendTypeOK BY DEF FriendSound
<1> QED BY <1>1, FriendNumbers, LatestEditIs DEF FriendTypeOK, SweepState, LatestEdit

LEMMA FriendStarts == FriendInit => FriendSound
<1> SUFFICES ASSUME FriendInit PROVE FriendSound
  OBVIOUS
<1>1. /\ saved = Nobody /\ loaded = Nobody /\ named = {} /\ names = {} /\ pen = NoPen /\ ills = {}
      /\ \A p \in Peers : peers[p].v = 0 /\ ~peers[p].in /\ saved[p] = 0 /\ loaded[p] = 0
                          /\ pen[p] = "no"
      /\ \A s \in Sweeps : sweep[s] = AtRest
      /\ kind \in {"friend", "group"}
  BY FriendNumbers DEF FriendInit
<1>2. FriendTypeOK
  <2>1. peers \in [Peers -> [v : Edits, in : BOOLEAN]] BY FriendNumbers DEF FriendInit
  <2>2. sweep \in [Sweeps -> SweepState] BY FriendNumbers DEF FriendInit
  <2>3. pen \in [Peers -> {"no", "name", "blank"}] BY <1>1 DEF NoPen
  <2> QED BY <1>1, <2>1, <2>2, <2>3, FriendNumbers DEF FriendTypeOK, SweepState
<1>3. LatestEdit \in Nat
  BY <1>2, FriendNumbers, LatestEditIs DEF FriendTypeOK, LatestEdit
<1>4. SweepHolds(AtRest)
  <2>1. 0 <= LatestEdit BY <1>3
  <2> QED BY <1>1, <2>1, FriendNumbers DEF SweepHolds
<1>5. 1..0 = {} OBVIOUS
<1>6. \A p \in Peers : Covered(saved[p]) /\ Covered(loaded[p]) /\ MemoryFollows(p)
  BY <1>1, <1>5 DEF Covered, MemoryFollows
<1>7. Comes(AtRest) BY <1>5, FriendNumbers DEF Comes
<1>8. NamesFollow BY <1>1 DEF NamesFollow
<1>9. FriendWhole BY <1>1, <1>6, <1>7, <1>8 DEF FriendWhole
<1> QED BY <1>1, <1>2, <1>4, <1>9 DEF FriendSound

LEMMA PeerSettledStays ==
    ASSUME FriendSound, NEW s \in Sweeps, NEW y, sweep' = [sweep EXCEPT ![s] = y],
           kind' = kind, peers' = peers, NEW p \in Peers, PeerSettled(p),
           saved'[p] = saved[p] \/ Fits(p)', Drops(sweep[s], p) => Drops(y, p) \/ Fits(p)'
    PROVE  PeerSettled(p)'
<1>1. sweep'[s] = y /\ \A t \in Sweeps : t # s => sweep'[t] = sweep[t] BY FriendFacts
<1>2. CASE Fits(p)' BY <1>2 DEF PeerSettled
<1>3. CASE ~Fits(p)'
  <2>1. saved'[p] = saved[p] BY <1>3
  <2>2. CASE Fits(p) BY <2>1, <2>2 DEF PeerSettled, Fits
  <2>3. CASE kind = "group" /\ ~peers[p].in BY <2>3 DEF PeerSettled
  <2>4. CASE \E t \in Sweeps : Drops(sweep[t], p)
    <3>1. PICK t \in Sweeps : Drops(sweep[t], p) BY <2>4
    <3>2. Drops(sweep'[t], p) BY <1>1, <1>3, <3>1
    <3>3. sweep'[t].at = "drop" /\ p \in sweep'[t].gone BY <3>2 DEF Drops
    <3> QED BY <3>3 DEF PeerSettled, Drops
  <2> QED BY <2>2, <2>3, <2>4 DEF PeerSettled
<1> QED BY <1>2, <1>3

LEMMA CoveredStays ==
    ASSUME peers' = peers, \A p \in Peers : PeerSettled(p) => PeerSettled(p)', NEW n, Covered(n)
    PROVE  Covered(n)'
BY DEF Covered

\* A step of one sweep: what is left to show of it.
LEMMA SweepStep ==
    ASSUME FriendSound, NEW s \in Sweeps, NEW y \in SweepState,
           sweep' = [sweep EXCEPT ![s] = y], kind' = kind, peers' = peers,
           saved' \in [Peers -> Edits], loaded' \in [Peers -> Edits],
           \A p \in Peers : saved'[p] <= peers[p].v /\ loaded'[p] <= peers[p].v,
           named' \subseteq Peers, names' \subseteq Peers,
           pen' \in [Peers -> {"no", "name", "blank"}],
           ills' \subseteq {"late", "cut", "both", "blind"}, ills \subseteq ills',
           kind = "group" => named' = {} /\ names' = {} /\ pen' = NoPen,
           SweepHolds(y),
           ills' = {} =>
               /\ \A p \in Peers :
                     /\ saved'[p] = saved[p] \/ Fits(p)'
                     /\ Drops(sweep[s], p) => Drops(y, p) \/ Fits(p)'
                     /\ \/ Touches(y, p) \/ loaded'[p] = saved'[p]
                        \/ /\ loaded'[p] = loaded[p] /\ saved'[p] = saved[p]
                           /\ ~Touches(sweep[s], p)
                     /\ Covered(saved[p])' /\ Covered(loaded[p])'
               /\ Comes(y)' /\ NamesFollow'
    PROVE  FriendSound'
<1>0. /\ peers \in [Peers -> [v : Edits, in : BOOLEAN]] /\ sweep \in [Sweeps -> SweepState]
      /\ Edits \subseteq Nat /\ FriendTypeOK
  BY FriendFacts
<1>1. /\ sweep' \in [Sweeps -> SweepState] /\ sweep'[s] = y
      /\ \A t \in Sweeps : t # s => sweep'[t] = sweep[t]
  BY <1>0
<1>2. FriendTypeOK' BY <1>0, <1>1 DEF FriendTypeOK, SweepState
<1>3. LatestEdit' = LatestEdit BY DEF LatestEdit
<1>4. ASSUME NEW t \in Sweeps PROVE SweepHolds(sweep[t])'
  <2>1. SweepHolds(sweep'[t]) BY <1>1 DEF FriendSound
  <2> QED BY <2>1, <1>3 DEF SweepHolds
<1>5. ASSUME ills' = {} PROVE FriendWhole'
  <2>0. FriendWhole BY <1>5 DEF FriendSound
  <2>1. \A p \in Peers : PeerSettled(p) => PeerSettled(p)' BY <1>5, PeerSettledStays
  <2>2. ASSUME NEW p \in Peers PROVE MemoryFollows(p)'
    <3>1. CASE Touches(y, p)
      <4>1. Touches(sweep'[s], p) BY <1>1, <3>1
      <4> QED BY <4>1 DEF MemoryFollows, Touches
    <3>2. CASE loaded'[p] = saved'[p] BY <3>2 DEF MemoryFollows
    <3>3. CASE /\ loaded'[p] = loaded[p] /\ saved'[p] = saved[p]
               /\ ~Touches(sweep[s], p)
      <4>1. CASE loaded[p] = saved[p] BY <3>3, <4>1 DEF MemoryFollows
      <4>2. CASE \E t \in Sweeps : Touches(sweep[t], p)
        <5>1. PICK t \in Sweeps : Touches(sweep[t], p) BY <4>2
        <5>2. t # s BY <3>3, <5>1
        <5>3. Touches(sweep'[t], p) BY <1>1, <5>1, <5>2
        <5> QED BY <5>3 DEF MemoryFollows, Touches
      <4> QED BY <2>0, <4>1, <4>2 DEF FriendWhole, MemoryFollows
    <3> QED BY <1>5, <3>1, <3>2, <3>3
  <2>3. ASSUME NEW t \in Sweeps PROVE Comes(sweep[t])'
    <3>1. CASE t = s BY <1>1, <1>5, <3>1 DEF Comes, Covered
    <3>2. CASE t # s
      <4>0. PICK x \in SweepState : x = sweep[t] BY <1>0
      <4>1. sweep'[t] = x BY <1>1, <3>2, <4>0
      <4>2. Comes(x) /\ SweepHolds(x) BY <2>0, <4>0 DEF FriendWhole, FriendSound
      <4>3. CASE x.at \notin {"drop", "apply"} BY <2>1, <4>2, <4>3, <4>1 DEF Comes
      <4>4. CASE x.at \in {"drop", "apply"}
        <5>1. Covered(x.since)' BY <2>1, <4>2, <4>4, CoveredStays DEF Comes
        <5>2. ASSUME NEW p \in Peers
              PROVE  /\ p \in x.gone => x.up[p] = 0
                     /\ x.up[p] # 0 /\ x.up[p] = peers[p].v => saved'[p] = x.up[p]
                     /\ x.at = "apply" /\ p \in x.gone /\ peers[p].v <= x.since => saved'[p] = 0
          <6>1. saved'[p] = saved[p] \/ saved'[p] = IF peers[p].in THEN peers[p].v ELSE 0
            BY <1>5 DEF Fits
          <6>2. p \in x.gone => x.up[p] = 0 BY <4>2, <4>4 DEF Comes
          <6>3. x.up[p] # 0 /\ x.up[p] = peers[p].v => saved'[p] = x.up[p]
            BY <4>2, <4>4, <6>1 DEF Comes, SweepHolds
          <6>4. x.at = "apply" /\ p \in x.gone /\ peers[p].v <= x.since => saved'[p] = 0
            BY <4>2, <4>4, <6>1, <6>2 DEF Comes, SweepHolds
          <6> QED BY <6>2, <6>3, <6>4
        <5> QED BY <4>1, <4>4, <5>1, <5>2 DEF Comes, Covered
      <4> QED BY <4>3, <4>4
    <3> QED BY <3>1, <3>2
  <2> QED BY <1>5, <2>2, <2>3 DEF FriendWhole
<1>6. /\ \A p, q \in Peers : peers'[p].v = peers'[q].v /\ peers'[p].v # 0 => p = q
      /\ \A p \in Peers : /\ peers'[p].v = 0 => ~peers'[p].in
                          /\ saved'[p] <= peers'[p].v /\ loaded'[p] <= peers'[p].v
  BY DEF FriendSound
<1>7. kind' = "group" => named' = {} /\ names' = {} /\ pen' = NoPen OBVIOUS
<1> QED BY <1>2, <1>4, <1>5, <1>6, <1>7 DEF FriendSound

\* A step of a sweep before it writes.
LEMMA QuietSweepStep ==
    ASSUME FriendSound, NEW s \in Sweeps, NEW y \in SweepState,
           sweep' = [sweep EXCEPT ![s] = y],
           UNCHANGED <<kind, peers, saved, loaded, named, names, pen>>,
           ills' \subseteq {"late", "cut", "both", "blind"}, ills \subseteq ills', SweepHolds(y),
           ills' = {} => /\ y.at \notin {"drop", "apply"} /\ sweep[s].at \notin {"drop", "apply"}
                         /\ Comes(y)
    PROVE  FriendSound'
<1>1. /\ kind' = kind /\ peers' = peers /\ saved' = saved /\ loaded' = loaded /\ named' = named
      /\ names' = names /\ pen' = pen
  OBVIOUS
<1>2. /\ saved \in [Peers -> Edits] /\ loaded \in [Peers -> Edits]
      /\ named \subseteq Peers /\ names \subseteq Peers
      /\ pen \in [Peers -> {"no", "name", "blank"}]
      /\ kind = "group" => named = {} /\ names = {} /\ pen = NoPen
      /\ \A p \in Peers : saved[p] <= peers[p].v /\ loaded[p] <= peers[p].v
  BY DEF FriendSound, FriendTypeOK
<1>3. ASSUME ills' = {}
      PROVE  /\ \A p \in Peers :
                     /\ saved'[p] = saved[p]
                     /\ ~Drops(sweep[s], p)
                     /\ /\ loaded'[p] = loaded[p]
                        /\ ~Touches(sweep[s], p)
                     /\ Covered(saved[p])' /\ Covered(loaded[p])'
             /\ Comes(y)' /\ NamesFollow'
  <2>0. FriendWhole /\ Comes(y) /\ y.at \notin {"drop", "apply"} BY <1>3 DEF FriendSound
  <2>1. \A p \in Peers : ~Drops(sweep[s], p) /\ ~Touches(sweep[s], p)
    BY <1>3 DEF Drops, Touches
  <2>2. \A p \in Peers : PeerSettled(p) => PeerSettled(p)' BY <1>1, <2>1, PeerSettledStays
  <2>3. ASSUME NEW p \in Peers PROVE Covered(saved[p])' /\ Covered(loaded[p])'
    <3>1. PICK m, n : m = saved[p] /\ n = loaded[p] OBVIOUS
    <3>2. Covered(m)' /\ Covered(n)' BY <1>1, <2>0, <2>2, <3>1, CoveredStays DEF FriendWhole
    <3> QED BY <1>1, <3>1, <3>2 DEF Covered
  <2>4. Comes(y)' BY <1>1, <2>0, <2>2 DEF Comes
  <2>5. NamesFollow' BY <1>1, <2>0 DEF FriendWhole, NamesFollow
  <2> QED BY <1>1, <2>1, <2>3, <2>4, <2>5
<1> QED BY <1>1, <1>2, <1>3, SweepStep

\* Nothing is asked or held before the first page.
LEMMA AskingHolds ==
    ASSUME FriendSound, NEW y \in SweepState, y.at \in {"table", "ask"}, y.up = Nobody, y.gone = {},
           y.since <= LatestEdit, ills = {} => Covered(y.since)
    PROVE  SweepHolds(y) /\ (ills = {} => Comes(y))
<1>1. /\ \A p \in Peers : peers[p].v \in Nat /\ Nobody[p] = 0
      /\ y.since \in Nat
  BY FriendFacts, FriendNumbers DEF SweepState
<1>2. \A p \in Peers : Nobody[p] <= y.since /\ Nobody[p] <= peers[p].v BY <1>1
<1>3. SweepHolds(y) BY <1>1, <1>2 DEF SweepHolds
<1>4. ills = {} => Comes(y) BY DEF Comes, Covered
<1> QED BY <1>3, <1>4

LEMMA SweepBeginsKeeps == ASSUME FriendSound, NEW s \in Sweeps, SweepBegins(s) PROVE FriendSound'
<1>0. /\ loaded \in [Peers -> Edits] /\ Edits \subseteq Nat /\ LatestEdit \in Nat
      /\ (\A p \in Peers : peers[p].v \in Nat /\ peers[p].v <= LatestEdit)
  BY FriendFacts
<1>1. PICK n \in Edits : n = Highest(loaded) /\ \E p \in Peers : n = loaded[p]
  BY <1>0, HighestIs DEF Highest
<1>2. PICK y : y = [AtRest EXCEPT !.at = "table", !.since = n] OBVIOUS
<1>3. y \in SweepState BY <1>2, FriendNumbers DEF SweepState
<1>4. y.at = "table" /\ y.since = n /\ y.up = Nobody /\ y.gone = {}
  BY <1>2, FriendNumbers DEF AtRest
<1>5. sweep' = [sweep EXCEPT ![s] = y] BY <1>1, <1>2 DEF SweepBegins
<1>6. y.since <= LatestEdit
  <2>1. PICK p \in Peers : n = loaded[p] BY <1>1
  <2>2. n <= peers[p].v BY <2>1 DEF FriendSound
  <2> QED BY <1>0, <1>4, <2>2
<1>7. ills = {} => Covered(y.since) BY <1>1, <1>4 DEF FriendSound, FriendWhole
<1>8. SweepHolds(y) /\ (ills = {} => Comes(y)) BY <1>3, <1>4, <1>6, <1>7, AskingHolds
<1>9. ills \subseteq {"late", "cut", "both", "blind"} BY DEF FriendSound, FriendTypeOK
<1> QED BY <1>3, <1>4, <1>5, <1>8, <1>9, QuietSweepStep DEF SweepBegins

LEMMA SweepStartsKeeps == ASSUME FriendSound, NEW s \in Sweeps, SweepStarts(s) PROVE FriendSound'
<1>0. /\ saved \in [Peers -> Edits] /\ Edits \subseteq Nat /\ LatestEdit \in Nat
      /\ (\A p \in Peers : peers[p].v \in Nat /\ peers[p].v <= LatestEdit)
      /\ sweep \in [Sweeps -> SweepState] /\ MaxEdits \in Nat
  BY FriendFacts, FriendNumbers
<1>1. PICK n \in Edits : n = Highest(saved) /\ \E p \in Peers : n = saved[p]
  BY <1>0, HighestIs DEF Highest
<1>2. PICK x \in SweepState : x = sweep[s] BY <1>0
<1>3. x.at = "table" /\ SweepHolds(x) /\ x.up = Nobody /\ x.gone = {} /\ x.since \in Edits
  BY <1>2 DEF SweepStarts, FriendSound, SweepHolds, SweepState
<1>4. PICK since : since = Max({x.since, n}) OBVIOUS
<1>5. since \in {x.since, n}
  <2>1. {x.since, n} \subseteq 0..MaxEdits BY <1>1, <1>3 DEF Edits
  <2>2. Max({x.since, n}) \in {x.since, n} BY <1>0, <2>1, LargestOf
  <2> QED BY <1>4, <2>2
<1>6. PICK y : y = [x EXCEPT !.at = "ask", !.since = since] OBVIOUS
<1>7. y \in SweepState BY <1>1, <1>3, <1>5, <1>6 DEF SweepState
<1>8. y.at = "ask" /\ y.since = since /\ y.up = Nobody /\ y.gone = {}
  BY <1>3, <1>6 DEF SweepState
<1>9. sweep' = [sweep EXCEPT ![s] = y] BY <1>0, <1>1, <1>2, <1>4, <1>6 DEF SweepStarts
<1>10. y.since <= LatestEdit
  <2>1. PICK p \in Peers : n = saved[p] BY <1>1
  <2>2. n <= peers[p].v BY <2>1 DEF FriendSound
  <2>3. n <= LatestEdit BY <1>0, <2>2
  <2>4. x.since <= LatestEdit BY <1>3 DEF SweepHolds
  <2> QED BY <1>5, <1>8, <2>3, <2>4
<1>11. ASSUME ills = {} PROVE Covered(y.since)
  <2>1. FriendWhole /\ Comes(x) BY <1>2, <1>11 DEF FriendSound, FriendWhole
  <2>2. Covered(x.since)
    <3>1. \A p \in Peers : Nobody[p] = 0 BY FriendNumbers
    <3>2. \A p \in Peers : peers[p].v \in 1..x.since => PeerSettled(p)
      BY <1>3, <2>1, <3>1 DEF Comes
    <3> QED BY <3>2 DEF Covered
  <2>3. Covered(n) BY <1>1, <2>1 DEF FriendWhole
  <2> QED BY <1>5, <1>8, <2>2, <2>3
<1>12. SweepHolds(y) /\ (ills = {} => Comes(y)) BY <1>7, <1>8, <1>10, <1>11, AskingHolds
<1>13. ills \subseteq {"late", "cut", "both", "blind"} BY DEF FriendSound, FriendTypeOK
<1> QED BY <1>2, <1>3, <1>7, <1>8, <1>9, <1>12, <1>13, QuietSweepStep DEF SweepStarts

LEMMA RestingSweep ==
    ASSUME FriendSound
    PROVE  SweepHolds(AtRest) /\ Comes(AtRest)
<1>1. LatestEdit \in Nat /\ \A p \in Peers : peers[p].v \in Nat BY FriendFacts
<1>2. 0 <= LatestEdit /\ 1..0 = {} /\ (\A p \in Peers : 0 <= peers[p].v) BY <1>1
<1>3. SweepHolds(AtRest) BY <1>2, FriendNumbers DEF SweepHolds
<1>4. Comes(AtRest) BY <1>2, FriendNumbers DEF Comes
<1> QED BY <1>3, <1>4

LEMMA SweepFailsKeeps == ASSUME FriendSound, NEW s \in Sweeps, SweepFails(s) PROVE FriendSound'
<1>1. SweepHolds(AtRest) /\ Comes(AtRest) /\ AtRest \in SweepState /\ AtRest.at = "idle"
  BY RestingSweep, FriendNumbers
<1>2. /\ ills' \subseteq {"late", "cut", "both", "blind"} /\ ills \subseteq ills'
      /\ ills' = {} => sweep[s].at \notin {"drop", "apply"}
  BY DEF SweepFails, Torn, FriendSound, FriendTypeOK
<1> QED BY <1>1, <1>2, QuietSweepStep DEF SweepFails

\* An answer has the first changes after a version: whoever changed no later
\* than one of it, but after that version, is of it as well.
LEMMA AnswerIsDense ==
    ASSUME FriendSound, NEW since \in Nat, NEW k \in PageAfter(since), NEW p \in Peers,
           peers[p].v > since, peers[p].v <= peers[k].v
    PROVE  p \in PageAfter(since)
<1> DEFINE After == {q \in Peers : peers[q].v > since}
           UpTo(j) == {q \in After : peers[q].v <= peers[j].v}
<1>n. SweepPage \in Nat /\ MaxEdits \in Nat BY FriendNumbers
<1>0. /\ k \in Peers /\ Cardinality(UpTo(k)) <= SweepPage
      /\ \A q \in Peers : peers[q].v \in Nat /\ peers[q].v <= MaxEdits
  BY FriendFacts, FriendNumbers DEF PageAfter, Edits
<1>1. PICK ver : ver = [q \in Peers |-> peers[q].v] OBVIOUS
<1>2. /\ ver \in [Peers -> Nat] /\ \A q \in Peers : ver[q] <= MaxEdits
      /\ \A i, j \in Peers : ver[i] = ver[j] /\ ver[i] # 0 => i = j
  BY <1>0, <1>1 DEF FriendSound
<1>3. UpTo(k) \in SUBSET Peers /\ \A q \in UpTo(k) : ver[q] # 0 BY <1>0, <1>1
<1>4. IsFiniteSet(UpTo(k)) BY <1>n, <1>2, <1>3, ChangedAreFinite
<1>5. UpTo(p) \subseteq UpTo(k) BY <1>0
<1>6. /\ Cardinality(UpTo(p)) <= Cardinality(UpTo(k))
      /\ IsFiniteSet(UpTo(p))
  BY <1>4, <1>5, FS_Subset
<1>7. Cardinality(UpTo(p)) \in Nat /\ Cardinality(UpTo(k)) \in Nat
  BY <1>4, <1>6, FS_CardinalityType
<1>8. p \in After OBVIOUS
<1> HIDE DEF UpTo
<1>9. Cardinality(UpTo(p)) <= SweepPage BY <1>n, <1>0, <1>6, <1>7
<1> QED BY <1>8, <1>9 DEF PageAfter, UpTo

LEMMA PageAnsweredKeeps == ASSUME FriendSound, NEW s \in Sweeps, PageAnswered(s) PROVE FriendSound'
<1>0. /\ peers \in [Peers -> [v : Edits, in : BOOLEAN]] /\ sweep \in [Sweeps -> SweepState]
      /\ Edits \subseteq Nat /\ LatestEdit \in Nat /\ LatestEdit \in Edits
      /\ (\A p \in Peers : peers[p].v \in Edits /\ peers[p].v \in Nat /\ peers[p].v <= LatestEdit)
      /\ MaxEdits \in Nat
  BY FriendFacts, FriendNumbers
<1>1. PICK x \in SweepState : x = sweep[s] BY <1>0
<1>2. /\ x.at = "ask" /\ SweepHolds(x) /\ x.since \in Edits /\ x.since \in Nat
      /\ x.up \in [Peers -> Edits] /\ x.gone \subseteq Peers
      /\ ills = {} => Comes(x)
  BY <1>0, <1>1 DEF PageAnswered, FriendSound, FriendWhole, SweepState
<1>3. PICK turn \in SUBSET Peers : turn = PageAfter(x.since) BY DEF PageAfter
<1>4. PICK next : next = Max({peers[p].v : p \in turn} \cup {x.since}) OBVIOUS
<1>5. PICK up : up = [p \in Peers |-> IF p \in turn /\ peers[p].in THEN peers[p].v ELSE x.up[p]]
  OBVIOUS
<1>6. PICK gone : gone = x.gone \cup IF kind = "friend" THEN {p \in turn : ~peers[p].in} ELSE {}
  OBVIOUS
<1>7. PICK y : y = [x EXCEPT !.up = up, !.gone = gone, !.since = next] OBVIOUS
<1>8. PICK z : z = [y EXCEPT !.at = "put"] OBVIOUS
<1>9. sweep' \in {[sweep EXCEPT ![s] = y], [sweep EXCEPT ![s] = z], [sweep EXCEPT ![s] = AtRest]}
  <2>1. Collect(x, turn) = [x EXCEPT !.up = up, !.gone = gone]
    BY <1>5, <1>6 DEF Collect
  <2>2. /\ [Collect(x, turn) EXCEPT !.since = next] = y
        /\ [Collect(x, turn) EXCEPT !.since = next, !.at = "put"] = z
    BY <1>7, <1>8, <2>1
  <2>3. sweep' \in {[sweep EXCEPT ![s] = [Collect(x, turn) EXCEPT !.since = next]],
                    [sweep EXCEPT ![s] = [Collect(x, turn) EXCEPT !.since = next, !.at = "put"]],
                    [sweep EXCEPT ![s] = AtRest]}
    <3> HIDE DEF Collect
    <3> QED BY <1>1, <1>3, <1>4, Zenon DEF PageAnswered
  <2> QED BY <2>2, <2>3
<1>10. /\ next \in Edits /\ next \in Nat /\ x.since <= next /\ next <= LatestEdit
       /\ \A p \in turn : peers[p].v <= next
       /\ next = x.since \/ \E k \in turn : next = peers[k].v
  <2> DEFINE S == {peers[p].v : p \in turn} \cup {x.since}
  <2>1. S \subseteq 0..MaxEdits /\ S # {} BY <1>0, <1>2 DEF Edits
  <2>2. Max(S) \in S /\ \A v \in S : v <= Max(S) BY <1>0, <2>1, LargestOf
  <2>3. x.since \in S /\ \A p \in turn : peers[p].v \in S OBVIOUS
  <2>4. \A v \in S : v = x.since \/ \E k \in turn : v = peers[k].v OBVIOUS
  <2> HIDE DEF S
  <2>5. next = Max(S) BY <1>4 DEF S
  <2>6. next \in Edits /\ next \in Nat BY <1>0, <2>1, <2>2, <2>5 DEF Edits
  <2>7. next = x.since \/ \E k \in turn : next = peers[k].v BY <2>2, <2>4, <2>5
  <2>8. x.since <= LatestEdit BY <1>2 DEF SweepHolds
  <2>9. next <= LatestEdit BY <1>0, <2>7, <2>8
  <2> QED BY <2>2, <2>3, <2>5, <2>6, <2>7, <2>9
<1>11. up \in [Peers -> Edits] /\ gone \subseteq Peers BY <1>0, <1>2, <1>5, <1>6
<1>12. y \in SweepState /\ z \in SweepState BY <1>7, <1>8, <1>10, <1>11 DEF SweepState
<1>13. /\ y.at = "ask" /\ y.up = up /\ y.gone = gone /\ y.since = next
       /\ z.at = "put" /\ z.up = up /\ z.gone = gone /\ z.since = next
  BY <1>2, <1>7, <1>8 DEF SweepState
<1>14. ASSUME NEW p \in Peers, peers[p].v > x.since, peers[p].v <= next PROVE p \in turn
  <2>1. PICK k \in turn : next = peers[k].v BY <1>0, <1>2, <1>10, <1>14
  <2> QED BY <1>2, <1>3, <1>14, <2>1, AnswerIsDense
<1>15. \A p \in turn : peers[p].v > x.since BY <1>3 DEF PageAfter
<1>16. ASSUME NEW p \in Peers
       PROVE  /\ up[p] <= next /\ up[p] <= peers[p].v
              /\ up[p] # 0 /\ up[p] = peers[p].v => peers[p].in
              /\ p \in gone => peers[p].v # 0
              /\ p \in gone /\ peers[p].v <= next => ~peers[p].in \/ up[p] = peers[p].v
  <2>0. /\ x.up[p] \in Nat /\ x.up[p] <= x.since /\ x.up[p] <= peers[p].v
        /\ x.up[p] # 0 /\ x.up[p] = peers[p].v => peers[p].in
        /\ p \in x.gone => peers[p].v # 0
        /\ p \in x.gone /\ peers[p].v <= x.since => ~peers[p].in \/ x.up[p] = peers[p].v
    BY <1>0, <1>2 DEF SweepHolds
  <2>1. CASE p \in turn
    <3>1. peers[p].v > x.since /\ peers[p].v <= next /\ peers[p].v # 0
      BY <1>0, <1>2, <1>10, <1>15, <2>1
    <3>2. CASE peers[p].in
      <4>1. up[p] = peers[p].v BY <1>5, <2>1, <3>2
      <4>2. peers[p].v <= peers[p].v BY <1>0
      <4> QED BY <3>1, <3>2, <4>1, <4>2
    <3>3. CASE ~peers[p].in
      <4>1. up[p] = x.up[p] BY <1>5, <3>3
      <4>2. x.up[p] <= next BY <1>2, <1>10, <2>0
      <4> QED BY <2>0, <3>1, <3>3, <4>1, <4>2
    <3> QED BY <3>2, <3>3
  <2>2. CASE p \notin turn
    <3>1. up[p] = x.up[p] /\ (p \in gone => p \in x.gone) BY <1>5, <1>6, <2>2
    <3>2. peers[p].v <= next => peers[p].v <= x.since BY <1>0, <1>2, <1>14, <2>2
    <3>3. x.up[p] <= next BY <1>2, <1>10, <2>0
    <3> QED BY <2>0, <3>1, <3>2, <3>3
  <2> QED BY <2>1, <2>2
<1>17. kind = "group" => gone = {} BY <1>2, <1>6 DEF SweepHolds
<1>18. SweepHolds(y) /\ SweepHolds(z) BY <1>10, <1>13, <1>16, <1>17 DEF SweepHolds
<1>19. ASSUME ills = {}, NEW p \in Peers, peers[p].v \in 1..next
       PROVE  PeerSettled(p) \/ up[p] = peers[p].v \/ p \in gone
  <2>1. CASE p \in turn
    <3>1. CASE peers[p].in BY <1>5, <2>1, <3>1
    <3>2. CASE ~peers[p].in /\ kind = "friend" BY <1>6, <2>1, <3>2
    <3>3. CASE ~peers[p].in /\ kind = "group" BY <3>3 DEF PeerSettled
    <3> QED BY <3>1, <3>2, <3>3 DEF FriendSound, FriendTypeOK
  <2>2. CASE p \notin turn
    <3>1. peers[p].v \in 1..x.since BY <1>0, <1>2, <1>10, <1>14, <1>19, <2>2
    <3>2. PeerSettled(p) \/ x.up[p] = peers[p].v \/ p \in x.gone BY <1>2, <1>19, <3>1 DEF Comes
    <3>3. up[p] = x.up[p] /\ (p \in x.gone => p \in gone) BY <1>5, <1>6, <2>2
    <3> QED BY <3>2, <3>3
  <2> QED BY <2>1, <2>2
<1>20. ills = {} => Comes(y) /\ Comes(z) BY <1>13, <1>19 DEF Comes
<1>21. /\ UNCHANGED <<kind, peers, saved, loaded, named, names, pen>> /\ ills' = ills
       /\ ills \subseteq {"late", "cut", "both", "blind"} /\ sweep[s].at = "ask"
  BY <1>1, <1>2 DEF PageAnswered, FriendSound, FriendTypeOK
<1>22. CASE sweep' = [sweep EXCEPT ![s] = y]
  BY <1>12, <1>13, <1>18, <1>20, <1>21, <1>22, QuietSweepStep
<1>23. CASE sweep' = [sweep EXCEPT ![s] = z]
  BY <1>12, <1>13, <1>18, <1>20, <1>21, <1>23, QuietSweepStep
<1>24. CASE sweep' = [sweep EXCEPT ![s] = AtRest]
  <2>1. SweepHolds(AtRest) /\ Comes(AtRest) /\ AtRest \in SweepState /\ AtRest.at = "idle"
    BY RestingSweep, FriendNumbers
  <2> QED BY <1>21, <1>24, <2>1, QuietSweepStep
<1> QED BY <1>9, <1>22, <1>23, <1>24

\* A write that does no harm is of the last changes.
LEMMA UnharmedWrite ==
    ASSUME FriendSound, NEW x \in SweepState, SweepHolds(x), ills' = ills \cup Ills(x)
    PROVE  /\ ills' \subseteq {"late", "cut", "both", "blind"} /\ ills \subseteq ills'
           /\ ills' = {} =>
                 /\ FriendWhole
                 /\ \A p \in Peers :
                       /\ x.up[p] # 0 => x.up[p] = peers[p].v /\ peers[p].in
                       /\ p \in x.gone => /\ x.up[p] = 0 /\ ~peers[p].in
                                          /\ peers[p].v <= x.since
<1>1. ills \subseteq {"late", "cut", "both", "blind"} BY DEF FriendSound, FriendTypeOK
<1>2. Ills(x) \subseteq {"late", "both"} BY DEF Ills
<1>3. ASSUME ills' = {}
      PROVE  /\ FriendWhole
             /\ \A p \in Peers :
                   /\ x.up[p] # 0 => x.up[p] = peers[p].v /\ peers[p].in
                   /\ p \in x.gone => /\ x.up[p] = 0 /\ ~peers[p].in
                                      /\ peers[p].v <= x.since
  <2>1. ills = {} /\ Ills(x) = {} BY <1>3
  <2>2. /\ ~\E p \in Peers : \/ x.up[p] \notin {0, peers[p].v}
                             \/ p \in x.gone /\ peers[p].v > x.since
        /\ ~\E p \in x.gone : x.up[p] # 0
    BY <2>1 DEF Ills
  <2>3. FriendWhole BY <2>1 DEF FriendSound
  <2>4. ASSUME NEW p \in Peers
        PROVE  /\ x.up[p] # 0 => x.up[p] = peers[p].v /\ peers[p].in
               /\ p \in x.gone => /\ x.up[p] = 0 /\ ~peers[p].in
                                  /\ peers[p].v <= x.since
    <3>1. peers[p].v \in Nat /\ x.since \in Nat BY FriendFacts DEF SweepState
    <3>2. p \in x.gone => peers[p].v <= x.since BY <2>2, <3>1
    <3> QED BY <2>2, <3>2 DEF SweepHolds
  <2> QED BY <2>3, <2>4
<1> QED BY <1>1, <1>2, <1>3

LEMMA RowsPutKeeps == ASSUME FriendSound, NEW s \in Sweeps, RowsPut(s) PROVE FriendSound'
<1>0. /\ sweep \in [Sweeps -> SweepState] /\ Edits \subseteq Nat
      /\ saved \in [Peers -> Edits] /\ loaded \in [Peers -> Edits]
      /\ (\A p \in Peers : peers[p].v \in Nat)
  BY FriendFacts
<1>t. /\ named \subseteq Peers /\ names \subseteq Peers
      /\ pen \in [Peers -> {"no", "name", "blank"}]
      /\ kind = "group" => named = {} /\ names = {} /\ pen = NoPen
      /\ \A p \in Peers : saved[p] <= peers[p].v /\ loaded[p] <= peers[p].v
  BY DEF FriendSound, FriendTypeOK
<1>1. PICK x \in SweepState : x = sweep[s] BY <1>0
<1>2. /\ x.at = "put" /\ SweepHolds(x) /\ x.up \in [Peers -> Edits] /\ x.since \in Nat
  BY <1>0, <1>1 DEF RowsPut, FriendSound, SweepState
<1>3. PICK y : y = [x EXCEPT !.at = "drop"] OBVIOUS
<1>4. y \in SweepState BY <1>3 DEF SweepState
<1>5. y.at = "drop" /\ y.up = x.up /\ y.gone = x.gone /\ y.since = x.since
  BY <1>3 DEF SweepState
<1>6. /\ sweep' = [sweep EXCEPT ![s] = y] /\ kind' = kind /\ peers' = peers
      /\ loaded' = loaded /\ named' = named /\ names' = names /\ pen' = pen
      /\ saved' = [p \in Peers |-> IF x.up[p] # 0 THEN x.up[p] ELSE saved[p]]
      /\ ills' = ills \cup Ills(x)
  BY <1>0, <1>1, <1>3 DEF RowsPut, Over
<1>7. SweepHolds(y) BY <1>2, <1>5 DEF SweepHolds
<1>8. /\ saved' \in [Peers -> Edits]
      /\ \A p \in Peers : saved'[p] <= peers[p].v /\ loaded'[p] <= peers[p].v
  BY <1>0, <1>2, <1>6, <1>t DEF SweepHolds
<1>9. /\ ills' \subseteq {"late", "cut", "both", "blind"} /\ ills \subseteq ills'
      /\ ills' = {} =>
            /\ FriendWhole
            /\ \A p \in Peers :
                  /\ x.up[p] # 0 => x.up[p] = peers[p].v /\ peers[p].in
                  /\ p \in x.gone => /\ x.up[p] = 0 /\ ~peers[p].in
                                     /\ peers[p].v <= x.since
  BY <1>2, <1>6, UnharmedWrite
<1>10. ASSUME ills' = {}
       PROVE  /\ \A p \in Peers :
                     /\ saved'[p] = saved[p] \/ Fits(p)'
                     /\ Drops(sweep[s], p) => Drops(y, p) \/ Fits(p)'
                     /\ \/ Touches(y, p) \/ loaded'[p] = saved'[p]
                        \/ /\ loaded'[p] = loaded[p] /\ saved'[p] = saved[p]
                           /\ ~Touches(sweep[s], p)
                     /\ Covered(saved[p])' /\ Covered(loaded[p])'
              /\ Comes(y)' /\ NamesFollow'
  <2>0. FriendWhole /\ Comes(x) BY <1>1, <1>9, <1>10 DEF FriendWhole
  <2>1. \A p \in Peers : x.up[p] = 0 => saved'[p] = saved[p] BY <1>6
  <2>2. ASSUME NEW p \in Peers, x.up[p] # 0 PROVE saved'[p] = peers[p].v /\ Fits(p)'
    <3>1. saved'[p] = x.up[p] /\ x.up[p] = peers[p].v /\ peers[p].in BY <1>6, <1>9, <1>10, <2>2
    <3> QED BY <1>6, <3>1 DEF Fits
  <2>3. \A p \in Peers : ~Drops(sweep[s], p) /\ ~Touches(sweep[s], p)
    BY <1>1, <1>2 DEF Drops, Touches
  <2>4. \A p \in Peers : PeerSettled(p) => PeerSettled(p)'
    BY <1>6, <2>1, <2>2, <2>3, PeerSettledStays
  <2>5. ASSUME NEW p \in Peers, peers[p].v \in 1..x.since PROVE PeerSettled(p)'
    <3>1. CASE PeerSettled(p) BY <2>4, <3>1
    <3>2. CASE x.up[p] = peers[p].v
      <4>1. x.up[p] # 0 BY <1>2, <2>5, <3>2
      <4> QED BY <2>2, <4>1 DEF PeerSettled
    <3>3. CASE p \in x.gone
      <4>1. sweep'[s] = y BY <1>0, <1>6
      <4>2. sweep'[s].at = "drop" /\ p \in sweep'[s].gone BY <1>5, <3>3, <4>1
      <4> QED BY <4>2 DEF PeerSettled, Drops
    <3> QED BY <1>2, <2>0, <2>5, <3>1, <3>2, <3>3 DEF Comes
  <2>6. Covered(x.since)' BY <1>6, <2>5 DEF Covered
  <2>7. ASSUME NEW p \in Peers PROVE Covered(saved[p])' /\ Covered(loaded[p])'
    <3>1. PICK m, n : m = saved'[p] /\ n = loaded[p] OBVIOUS
    <3>2. Covered(n)' BY <1>6, <2>0, <2>4, <3>1, CoveredStays DEF FriendWhole
    <3>3. CASE x.up[p] = 0
      <4>1. m = saved[p] BY <2>1, <3>1, <3>3
      <4> QED BY <1>6, <2>0, <2>4, <3>1, <3>2, <4>1, CoveredStays DEF FriendWhole, Covered
    <3>4. CASE x.up[p] # 0
      <4>1. m = x.up[p] /\ m \in Nat /\ m <= x.since
        BY <1>0, <1>2, <1>6, <3>1, <3>4 DEF SweepHolds
      <4>2. \A v \in Nat : v \in 1..m => v \in 1..x.since BY <1>2, <4>1
      <4>3. Covered(m)' BY <1>0, <1>6, <2>5, <4>2 DEF Covered
      <4> QED BY <1>6, <3>1, <3>2, <4>3 DEF Covered
    <3> QED BY <3>3, <3>4
  <2>8. ASSUME NEW p \in Peers
        PROVE  /\ p \in y.gone => y.up[p] = 0
               /\ y.up[p] # 0 /\ y.up[p] = peers'[p].v => saved'[p] = y.up[p]
    BY <1>5, <1>6, <1>9, <1>10
  <2>9. Comes(y)' BY <1>5, <2>6, <2>8 DEF Comes
  <2>10. NamesFollow' BY <1>6, <2>0 DEF FriendWhole, NamesFollow
  <2>11. \A p \in Peers : Touches(y, p) \/ x.up[p] = 0 BY <1>5 DEF Touches
  <2> QED BY <1>6, <2>1, <2>2, <2>3, <2>7, <2>9, <2>10, <2>11
<1> QED BY <1>0, <1>4, <1>6, <1>7, <1>8, <1>9, <1>10, <1>t, SweepStep

LEMMA RowsDroppedKeeps == ASSUME FriendSound, NEW s \in Sweeps, RowsDropped(s) PROVE FriendSound'
<1>0. /\ sweep \in [Sweeps -> SweepState] /\ Edits \subseteq Nat /\ 0 \in Edits
      /\ saved \in [Peers -> Edits] /\ loaded \in [Peers -> Edits]
      /\ (\A p \in Peers : peers[p].v \in Nat)
  BY FriendFacts, FriendNumbers
<1>t. /\ named \subseteq Peers /\ names \subseteq Peers
      /\ pen \in [Peers -> {"no", "name", "blank"}]
      /\ kind = "group" => named = {} /\ names = {} /\ pen = NoPen
      /\ \A p \in Peers : saved[p] <= peers[p].v /\ loaded[p] <= peers[p].v
  BY DEF FriendSound, FriendTypeOK
<1>1. PICK x \in SweepState : x = sweep[s] BY <1>0
<1>2. /\ x.at = "drop" /\ SweepHolds(x) /\ x.up \in [Peers -> Edits] /\ x.since \in Nat
  BY <1>0, <1>1 DEF RowsDropped, FriendSound, SweepState
<1>3. PICK y : y = [x EXCEPT !.at = "apply"] OBVIOUS
<1>4. y \in SweepState BY <1>3 DEF SweepState
<1>5. y.at = "apply" /\ y.up = x.up /\ y.gone = x.gone /\ y.since = x.since
  BY <1>3 DEF SweepState
<1>6. /\ sweep' = [sweep EXCEPT ![s] = y] /\ kind' = kind /\ peers' = peers
      /\ loaded' = loaded /\ named' = named /\ names' = names /\ pen' = pen
      /\ saved' = [p \in Peers |-> IF p \in x.gone THEN 0 ELSE saved[p]]
      /\ ills' = ills \cup Ills(x)
  BY <1>0, <1>1, <1>3 DEF RowsDropped, Less
<1>7. SweepHolds(y) BY <1>2, <1>5 DEF SweepHolds
<1>8. /\ saved' \in [Peers -> Edits]
      /\ \A p \in Peers : saved'[p] <= peers[p].v /\ loaded'[p] <= peers[p].v
  <2>1. \A p \in Peers : 0 <= peers[p].v BY <1>0
  <2> QED BY <1>0, <1>6, <1>t, <2>1
<1>9. /\ ills' \subseteq {"late", "cut", "both", "blind"} /\ ills \subseteq ills'
      /\ ills' = {} =>
            /\ FriendWhole
            /\ \A p \in Peers :
                  /\ x.up[p] # 0 => x.up[p] = peers[p].v /\ peers[p].in
                  /\ p \in x.gone => /\ x.up[p] = 0 /\ ~peers[p].in
                                     /\ peers[p].v <= x.since
  BY <1>2, <1>6, UnharmedWrite
<1>10. ASSUME ills' = {}
       PROVE  /\ \A p \in Peers :
                     /\ saved'[p] = saved[p] \/ Fits(p)'
                     /\ Drops(sweep[s], p) => Drops(y, p) \/ Fits(p)'
                     /\ \/ Touches(y, p) \/ loaded'[p] = saved'[p]
                        \/ /\ loaded'[p] = loaded[p] /\ saved'[p] = saved[p]
                           /\ ~Touches(sweep[s], p)
                     /\ Covered(saved[p])' /\ Covered(loaded[p])'
              /\ Comes(y)' /\ NamesFollow'
  <2>0. FriendWhole /\ Comes(x) BY <1>1, <1>9, <1>10 DEF FriendWhole
  <2>1. \A p \in Peers : p \notin x.gone => saved'[p] = saved[p] BY <1>6
  <2>2. ASSUME NEW p \in Peers, p \in x.gone PROVE saved'[p] = 0 /\ Fits(p)'
    <3>1. saved'[p] = 0 /\ ~peers[p].in BY <1>6, <1>9, <1>10, <2>2
    <3> QED BY <1>6, <3>1 DEF Fits
  <2>3. \A p \in Peers : Drops(sweep[s], p) => Fits(p)' BY <1>1, <2>2 DEF Drops
  <2>4. \A p \in Peers : PeerSettled(p) => PeerSettled(p)'
    BY <1>6, <2>1, <2>2, <2>3, PeerSettledStays
  <2>5. Covered(x.since)'
    <3>1. Covered(x.since) BY <1>2, <2>0 DEF Comes
    <3> QED BY <1>6, <2>4, <3>1, CoveredStays
  <2>6. ASSUME NEW p \in Peers PROVE Covered(saved[p])' /\ Covered(loaded[p])'
    <3>1. PICK m, n : m = saved'[p] /\ n = loaded[p] OBVIOUS
    <3>2. Covered(n)' BY <1>6, <2>0, <2>4, <3>1, CoveredStays DEF FriendWhole
    <3>3. CASE p \notin x.gone
      <4>1. m = saved[p] BY <2>1, <3>1, <3>3
      <4> QED BY <1>6, <2>0, <2>4, <3>1, <3>2, <4>1, CoveredStays DEF FriendWhole, Covered
    <3>4. CASE p \in x.gone
      <4>1. m = 0 /\ 1..0 = {} BY <2>2, <3>1, <3>4
      <4> QED BY <1>6, <3>1, <3>2, <4>1 DEF Covered
    <3> QED BY <3>3, <3>4
  <2>7. ASSUME NEW p \in Peers
        PROVE  /\ p \in y.gone => y.up[p] = 0
               /\ y.up[p] # 0 /\ y.up[p] = peers'[p].v => saved'[p] = y.up[p]
               /\ p \in y.gone => saved'[p] = 0
    <3>1. p \in x.gone => x.up[p] = 0 BY <1>9, <1>10
    <3>2. x.up[p] # 0 /\ x.up[p] = peers[p].v => saved[p] = x.up[p] BY <1>2, <2>0 DEF Comes
    <3> QED BY <1>5, <1>6, <2>1, <2>2, <3>1, <3>2
  <2>8. Comes(y)' BY <1>5, <2>5, <2>7 DEF Comes
  <2>9. NamesFollow' BY <1>6, <2>0 DEF FriendWhole, NamesFollow
  <2>10. \A p \in Peers : Touches(y, p) \/ (~Touches(sweep[s], p) /\ p \notin x.gone)
    BY <1>1, <1>5 DEF Touches
  <2> QED BY <1>6, <2>1, <2>2, <2>3, <2>6, <2>8, <2>9, <2>10
<1> QED BY <1>0, <1>4, <1>6, <1>7, <1>8, <1>9, <1>10, <1>t, SweepStep

LEMMA SweepAppliedKeeps == ASSUME FriendSound, NEW s \in Sweeps, SweepApplied(s) PROVE FriendSound'
<1>0. /\ sweep \in [Sweeps -> SweepState] /\ Edits \subseteq Nat /\ 0 \in Edits
      /\ saved \in [Peers -> Edits] /\ loaded \in [Peers -> Edits]
      /\ (\A p \in Peers : peers[p].v \in Nat)
  BY FriendFacts, FriendNumbers
<1>t. /\ named \subseteq Peers /\ names \subseteq Peers
      /\ pen \in [Peers -> {"no", "name", "blank"}]
      /\ kind = "group" => named = {} /\ names = {} /\ pen = NoPen
      /\ kind \in {"friend", "group"}
      /\ \A p \in Peers : saved[p] <= peers[p].v /\ loaded[p] <= peers[p].v
  BY DEF FriendSound, FriendTypeOK
<1>1. PICK x \in SweepState : x = sweep[s] BY <1>0
<1>2. /\ x.at = "apply" /\ SweepHolds(x) /\ x.up \in [Peers -> Edits] /\ x.since \in Nat
      /\ x.gone \subseteq Peers
  BY <1>0, <1>1 DEF SweepApplied, FriendSound, SweepState
<1>3. PICK in : in = {p \in Peers : x.up[p] # 0} \ named OBVIOUS
<1>4. PICK clear : clear = x.gone \cap (named \cup in) OBVIOUS
<1>5. /\ sweep' = [sweep EXCEPT ![s] = AtRest] /\ kind' = kind /\ peers' = peers
      /\ saved' = saved /\ names' = names
      /\ loaded' = ApplyDelta(loaded, x)
      /\ ills' = ills \cup Ills(x)
  BY <1>0, <1>1 DEF SweepApplied
<1>6. /\ kind = "friend" => /\ named' = (named \cup in) \ clear
                            /\ pen' = [p \in Peers |-> IF p \in clear THEN "blank"
                                                       ELSE IF p \in in THEN "name" ELSE pen[p]]
      /\ kind # "friend" => named' = named /\ pen' = pen
  BY <1>1, <1>3, <1>4 DEF SweepApplied, Ingested, Cleared
<1>7. \A p \in Peers : loaded'[p] = IF p \in x.gone THEN 0
                                    ELSE IF x.up[p] # 0 THEN x.up[p] ELSE loaded[p]
  BY <1>5 DEF ApplyDelta, Less, Over
<1>8. /\ loaded' \in [Peers -> Edits]
      /\ \A p \in Peers : saved'[p] <= peers[p].v /\ loaded'[p] <= peers[p].v
  <2>1. loaded' \in [Peers -> Edits] BY <1>0, <1>2, <1>5 DEF ApplyDelta, Less, Over
  <2>2. \A p \in Peers : 0 <= peers[p].v BY <1>0
  <2>3. \A p \in Peers : loaded'[p] <= peers[p].v BY <1>2, <1>7, <1>t, <2>2 DEF SweepHolds
  <2> QED BY <1>5, <1>t, <2>1, <2>3
<1>9. /\ ills' \subseteq {"late", "cut", "both", "blind"} /\ ills \subseteq ills'
      /\ ills' = {} =>
            /\ FriendWhole
            /\ \A p \in Peers :
                  /\ x.up[p] # 0 => x.up[p] = peers[p].v /\ peers[p].in
                  /\ p \in x.gone => /\ x.up[p] = 0 /\ ~peers[p].in
                                     /\ peers[p].v <= x.since
  BY <1>2, <1>5, UnharmedWrite
<1>10. /\ named' \subseteq Peers /\ pen' \in [Peers -> {"no", "name", "blank"}]
       /\ kind = "group" => named' = {} /\ pen' = NoPen
  <2>1. CASE kind = "friend" BY <1>3, <1>6, <1>t, <2>1
  <2>2. CASE kind # "friend" BY <1>6, <1>t, <2>2
  <2> QED BY <2>1, <2>2
<1>11. ASSUME ills' = {}
       PROVE  /\ \A p \in Peers :
                     /\ saved'[p] = saved[p]
                     /\ ~Drops(sweep[s], p)
                     /\ \/ loaded'[p] = saved'[p]
                        \/ /\ loaded'[p] = loaded[p] /\ saved'[p] = saved[p]
                           /\ ~Touches(sweep[s], p)
                     /\ Covered(saved[p])' /\ Covered(loaded[p])'
              /\ Comes(AtRest)' /\ NamesFollow'
  <2>0. FriendWhole /\ Comes(x) BY <1>1, <1>9, <1>11 DEF FriendWhole
  <2>1. \A p \in Peers : ~Drops(sweep[s], p) BY <1>1, <1>2 DEF Drops
  <2>2. \A p \in Peers : PeerSettled(p) => PeerSettled(p)' BY <1>5, <2>1, PeerSettledStays
  <2>3. Covered(x.since)'
    <3>1. Covered(x.since) BY <1>2, <2>0 DEF Comes
    <3> QED BY <1>5, <2>2, <3>1, CoveredStays
  <2>4. ASSUME NEW p \in Peers
        PROVE  \/ loaded'[p] = saved'[p]
               \/ /\ loaded'[p] = loaded[p] /\ saved'[p] = saved[p]
                  /\ ~Touches(sweep[s], p)
    <3>1. CASE x.up[p] # 0
      <4>1. x.up[p] = peers[p].v /\ p \notin x.gone BY <1>9, <1>11, <3>1
      <4>2. saved[p] = x.up[p] BY <1>2, <2>0, <3>1, <4>1 DEF Comes
      <4> QED BY <1>5, <1>7, <3>1, <4>1, <4>2
    <3>2. CASE p \in x.gone
      <4>1. peers[p].v <= x.since BY <1>9, <1>11, <3>2
      <4>2. saved[p] = 0 BY <1>2, <2>0, <3>2, <4>1 DEF Comes
      <4> QED BY <1>5, <1>7, <3>2, <4>2
    <3>3. CASE x.up[p] = 0 /\ p \notin x.gone BY <1>1, <1>5, <1>7, <3>3 DEF Touches
    <3> QED BY <3>1, <3>2, <3>3
  <2>5. ASSUME NEW p \in Peers PROVE Covered(saved[p])' /\ Covered(loaded[p])'
    <3>1. PICK m, n : m = saved[p] /\ n = loaded'[p] OBVIOUS
    <3>2. Covered(m)' BY <1>5, <2>0, <2>2, <3>1, CoveredStays DEF FriendWhole
    <3>3. Covered(saved[p])' BY <1>5, <3>1, <3>2 DEF Covered
    <3>4. Covered(n)'
      <4>1. CASE n = loaded[p] BY <1>5, <2>0, <2>2, <4>1, CoveredStays DEF FriendWhole, Covered
      <4>2. CASE n = 0
        <5>1. 1..0 = {} OBVIOUS
        <5> QED BY <4>2, <5>1 DEF Covered
      <4>3. CASE n = x.up[p]
        <5>1. n \in Nat /\ n <= x.since BY <1>0, <1>2, <4>3 DEF SweepHolds
        <5>2. \A v \in Nat : v \in 1..n => v \in 1..x.since BY <1>2, <5>1
        <5> QED BY <1>0, <1>5, <2>3, <5>2 DEF Covered
      <4> QED BY <1>7, <3>1, <4>1, <4>2, <4>3
    <3> QED BY <3>1, <3>3, <3>4 DEF Covered
  <2>6. Comes(AtRest)'
    <3>1. 1..0 = {} OBVIOUS
    <3> QED BY <3>1, FriendNumbers DEF Comes
  <2>7. ASSUME NEW p \in Peers
        PROVE  /\ p \in named' => loaded'[p] # 0
               /\ p \in named' <=> pen'[p] = "name" \/ (pen'[p] = "no" /\ p \in names')
    <3>0. /\ p \in named => loaded[p] # 0
          /\ p \in named <=> pen[p] = "name" \/ (pen[p] = "no" /\ p \in names)
      BY <2>0 DEF FriendWhole, NamesFollow
    <3>1. CASE kind = "friend"
      <4>1. p \in named' <=> (p \in named \/ p \in in) /\ p \notin clear BY <1>6, <3>1
      <4>2. p \in clear <=> p \in x.gone /\ (p \in named \/ p \in in) BY <1>4
      <4>3. p \in in <=> x.up[p] # 0 /\ p \notin named BY <1>3
      <4>4. pen'[p] = IF p \in clear THEN "blank" ELSE IF p \in in THEN "name" ELSE pen[p]
        BY <1>6, <3>1
      <4>5. p \in named' => loaded'[p] # 0 BY <1>7, <3>0, <4>1, <4>2, <4>3
      <4>6. p \in named' <=> pen'[p] = "name" \/ (pen'[p] = "no" /\ p \in names')
        BY <1>5, <3>0, <4>1, <4>2, <4>3, <4>4
      <4> QED BY <4>5, <4>6
    <3>2. CASE kind # "friend"
      <4>1. named' = {} /\ pen'[p] = "no" /\ names' = {}
        BY <1>5, <1>10, <1>t, <3>2, FriendNumbers
      <4> QED BY <4>1
    <3> QED BY <3>1, <3>2
  <2>8. NamesFollow' BY <2>7 DEF NamesFollow
  <2> QED BY <1>5, <2>1, <2>4, <2>5, <2>6, <2>8
<1>12. SweepHolds(AtRest) /\ AtRest \in SweepState BY RestingSweep, FriendNumbers
<1> QED BY <1>0, <1>5, <1>8, <1>9, <1>10, <1>11, <1>12, <1>t, SweepStep

LEMMA NamesWrittenKeeps == ASSUME FriendSound, NamesWritten PROVE FriendSound'
<1>1. /\ kind' = kind /\ peers' = peers /\ saved' = saved /\ loaded' = loaded /\ sweep' = sweep
      /\ named' = named /\ ills' = ills /\ pen' = NoPen
      /\ names' = (names \cup {p \in Peers : pen[p] = "name"}) \ {p \in Peers : pen[p] = "blank"}
  BY DEF NamesWritten
<1>2. /\ FriendTypeOK /\ names \subseteq Peers /\ named \subseteq Peers
      /\ pen \in [Peers -> {"no", "name", "blank"}]
      /\ kind = "group" => named = {} /\ names = {} /\ pen = NoPen
  BY DEF FriendSound, FriendTypeOK
<1>3. pen' \in [Peers -> {"no", "name", "blank"}] /\ names' \subseteq Peers
  BY <1>1, <1>2 DEF NoPen
<1>4. FriendTypeOK' BY <1>1, <1>2, <1>3 DEF FriendTypeOK
<1>5. LatestEdit' = LatestEdit BY <1>1 DEF LatestEdit
<1>6. \A s \in Sweeps : SweepHolds(sweep[s])' BY <1>1, <1>5 DEF FriendSound, SweepHolds
<1>7. kind' = "group" => named' = {} /\ names' = {} /\ pen' = NoPen
  <2>1. ASSUME kind = "group" PROVE names' = {}
    <3>1. names = {} /\ \A p \in Peers : pen[p] = "no" BY <1>2, <2>1, FriendNumbers
    <3> QED BY <1>1, <3>1
  <2> QED BY <1>1, <1>2, <2>1
<1>8. ASSUME ills' = {} PROVE FriendWhole'
  <2>0. FriendWhole BY <1>1, <1>8 DEF FriendSound
  <2>1. \A p \in Peers : PeerSettled(p)' <=> PeerSettled(p) BY <1>1 DEF PeerSettled, Fits, Drops
  <2>2. \A p \in Peers : Covered(saved[p])' /\ Covered(loaded[p])' /\ MemoryFollows(p)'
    BY <1>1, <2>0, <2>1 DEF FriendWhole, Covered, MemoryFollows, Touches
  <2>3. \A s \in Sweeps : Comes(sweep[s])'
    BY <1>1, <2>0, <2>1 DEF FriendWhole, Comes, Covered
  <2>4. ASSUME NEW p \in Peers
        PROVE  /\ p \in named' => loaded'[p] # 0
               /\ p \in named' <=> pen'[p] = "name" \/ (pen'[p] = "no" /\ p \in names')
    <3>1. /\ p \in named => loaded[p] # 0
          /\ p \in named <=> pen[p] = "name" \/ (pen[p] = "no" /\ p \in names)
      BY <2>0 DEF FriendWhole, NamesFollow
    <3>2. pen[p] \in {"no", "name", "blank"} /\ pen'[p] = "no" BY <1>1, <1>2, FriendNumbers
    <3>3. p \in names' <=> (p \in names \/ pen[p] = "name") /\ pen[p] # "blank" BY <1>1
    <3> QED BY <1>1, <3>1, <3>2, <3>3
  <2> QED BY <2>2, <2>3, <2>4 DEF FriendWhole, NamesFollow
<1> QED BY <1>1, <1>4, <1>6, <1>7, <1>8 DEF FriendSound

\* A reload that cuts no write and finds memory as the table has it.
LEMMA ReloadKeeps == ASSUME FriendSound, Reload PROVE FriendSound'
<1>1. /\ kind' = kind /\ peers' = peers /\ saved' = saved /\ names' = names /\ pen' = NoPen
      /\ loaded' \in {saved, Nobody} /\ named' \in {names, {}}
      /\ sweep' = [s \in Sweeps |-> AtRest]
  BY DEF Reload
<1>2. /\ FriendTypeOK /\ names \subseteq Peers /\ saved \in [Peers -> Edits]
      /\ ills \subseteq {"late", "cut", "both", "blind"}
      /\ kind = "group" => named = {} /\ names = {} /\ pen = NoPen
      /\ \A p \in Peers : saved[p] <= peers[p].v /\ peers[p].v \in Nat
  BY FriendFacts DEF FriendSound, FriendTypeOK
<1>3. /\ ills' \subseteq {"late", "cut", "both", "blind"}
      /\ ills' = {} => /\ ills = {} /\ pen = NoPen /\ loaded' = saved /\ named' = names
                       /\ \A s \in Sweeps : sweep[s].at \notin {"drop", "apply"}
  <2>1. PICK torn : torn = UNION {Torn(sweep[s]) : s \in Sweeps} OBVIOUS
  <2>2. torn \subseteq {"cut"} /\ \A s \in Sweeps : Torn(sweep[s]) \subseteq torn
    BY <2>1 DEF Torn
  <2>3. ills' = ills \cup torn \cup (IF pen # NoPen THEN {"cut"} ELSE {})
                \cup (IF loaded' # saved \/ named' # names THEN {"blind"} ELSE {})
    BY <2>1 DEF Reload
  <2>4. ASSUME ills' = {} PROVE \A s \in Sweeps : sweep[s].at \notin {"drop", "apply"}
    <3>1. \A s \in Sweeps : Torn(sweep[s]) = {} BY <2>2, <2>3, <2>4
    <3> QED BY <3>1 DEF Torn
  <2> QED BY <1>2, <2>2, <2>3, <2>4
<1>4. /\ sweep' \in [Sweeps -> SweepState] /\ \A s \in Sweeps : sweep'[s] = AtRest
      /\ loaded' \in [Peers -> Edits] /\ named' \subseteq Peers
      /\ pen' \in [Peers -> {"no", "name", "blank"}]
  BY <1>1, <1>2, FriendNumbers DEF NoPen
<1>5. FriendTypeOK' BY <1>1, <1>2, <1>3, <1>4 DEF FriendTypeOK, SweepState
<1>6. LatestEdit' = LatestEdit BY <1>1 DEF LatestEdit
<1>7. \A s \in Sweeps : SweepHolds(sweep[s])'
  <2>1. SweepHolds(AtRest) BY RestingSweep
  <2> QED BY <1>1, <1>4, <1>6, <2>1 DEF SweepHolds
<1>8. kind' = "group" => named' = {} /\ names' = {} /\ pen' = NoPen BY <1>1, <1>2
<1>9. \A p \in Peers : saved'[p] <= peers'[p].v /\ loaded'[p] <= peers'[p].v
  <2>1. \A p \in Peers : Nobody[p] = 0 /\ 0 <= peers[p].v BY <1>2, FriendNumbers
  <2> QED BY <1>1, <1>2, <2>1
<1>10. ASSUME ills' = {} PROVE FriendWhole'
  <2>0. FriendWhole /\ loaded' = saved /\ named' = names /\ pen = NoPen
    BY <1>3, <1>10 DEF FriendSound
  <2>1. \A s \in Sweeps : sweep[s].at \notin {"drop", "apply"} BY <1>3, <1>10
  <2>2. \A p \in Peers : PeerSettled(p) => PeerSettled(p)'
    BY <1>1, <2>1 DEF PeerSettled, Fits, Drops
  <2>3. ASSUME NEW p \in Peers PROVE Covered(saved[p])' /\ Covered(loaded[p])' /\ MemoryFollows(p)'
    <3>1. PICK m : m = saved[p] OBVIOUS
    <3>2. Covered(m)' BY <1>1, <2>0, <2>2, <3>1, CoveredStays DEF FriendWhole
    <3> QED BY <1>1, <2>0, <3>1, <3>2 DEF Covered, MemoryFollows
  <2>4. \A s \in Sweeps : Comes(sweep[s])'
    <3>1. 1..0 = {} OBVIOUS
    <3> QED BY <1>4, <3>1, FriendNumbers DEF Comes
  <2>5. ASSUME NEW p \in Peers
        PROVE  /\ p \in named' => loaded'[p] # 0
               /\ p \in named' <=> pen'[p] = "name" \/ (pen'[p] = "no" /\ p \in names')
    <3>1. /\ p \in named => loaded[p] # 0
          /\ p \in named <=> pen[p] = "name" \/ (pen[p] = "no" /\ p \in names)
      BY <2>0 DEF FriendWhole, NamesFollow
    <3>2. pen[p] = "no" /\ pen'[p] = "no" BY <1>1, <2>0, FriendNumbers
    <3>3. loaded[p] = saved[p] BY <2>0, <2>1 DEF FriendWhole, MemoryFollows, Touches
    <3> QED BY <1>1, <2>0, <3>1, <3>2, <3>3
  <2> QED BY <2>3, <2>4, <2>5 DEF FriendWhole, NamesFollow
<1> QED BY <1>1, <1>5, <1>7, <1>8, <1>9, <1>10 DEF FriendSound

\* A change of the server: nothing has reached its version yet.
LEMMA PeerChangesKeeps == ASSUME FriendSound, NEW p \in Peers, PeerChanges(p) PROVE FriendSound'
<1>0. /\ peers \in [Peers -> [v : Edits, in : BOOLEAN]] /\ sweep \in [Sweeps -> SweepState]
      /\ Edits \subseteq Nat /\ saved \in [Peers -> Edits] /\ loaded \in [Peers -> Edits]
      /\ FriendTypeOK /\ MaxEdits \in Nat
  BY FriendFacts, FriendNumbers
<1>t. PICK latest \in Nat : latest = LatestEdit BY FriendFacts
<1>1. /\ latest < MaxEdits
      /\ \A q \in Peers : peers[q].v \in Nat /\ peers[q].v <= latest
  BY <1>t, FriendFacts DEF PeerChanges
<1>2. PICK b \in BOOLEAN : peers' = [peers EXCEPT ![p] = [v |-> latest + 1, in |-> b]]
  BY <1>t DEF PeerChanges
<1>3. latest + 1 \in Edits BY <1>0, <1>1 DEF Edits
<1>4. /\ peers' \in [Peers -> [v : Edits, in : BOOLEAN]]
      /\ peers'[p].v = latest + 1 /\ \A q \in Peers \ {p} : peers'[q] = peers[q]
  BY <1>0, <1>2, <1>3
<1>5. /\ kind' = kind /\ saved' = saved /\ loaded' = loaded /\ sweep' = sweep
      /\ named' = named /\ names' = names /\ pen' = pen /\ ills' = ills
  BY DEF PeerChanges
<1>6. FriendTypeOK' BY <1>0, <1>4, <1>5 DEF FriendTypeOK
<1>7. LatestEdit' \in Nat /\ latest <= LatestEdit'
  <2>1. PICK ver : ver = peers' OBVIOUS
  <2>2. LatestEdit' = Max({ver[q].v : q \in Peers}) BY <2>1 DEF LatestEdit
  <2>3. LatestEdit' \in Edits /\ ver[p].v <= LatestEdit' BY <1>4, <2>1, <2>2, LatestEditIs
  <2>4. LatestEdit' \in Nat /\ latest + 1 <= LatestEdit' BY <1>0, <1>4, <2>1, <2>3
  <2> QED BY <2>4
<1>8. \A q \in Peers : peers[q].v <= peers'[q].v BY <1>1, <1>4
<1>9. /\ \A q, r \in Peers : peers'[q].v = peers'[r].v /\ peers'[q].v # 0 => q = r
      /\ \A q \in Peers : peers'[q].v = 0 => ~peers'[q].in
  BY <1>1, <1>4 DEF FriendSound
<1>10. \A q \in Peers : saved'[q] <= peers'[q].v /\ loaded'[q] <= peers'[q].v
  <2>1. ASSUME NEW q \in Peers PROVE saved'[q] <= peers'[q].v /\ loaded'[q] <= peers'[q].v
    <3>1. /\ saved[q] \in Nat /\ loaded[q] \in Nat /\ peers[q].v \in Nat /\ peers'[q].v \in Nat
          /\ saved[q] <= peers[q].v /\ loaded[q] <= peers[q].v /\ peers[q].v <= peers'[q].v
      BY <1>0, <1>4, <1>8 DEF FriendSound
    <3> QED BY <1>5, <3>1
  <2> QED BY <2>1
<1>11. ASSUME NEW s \in Sweeps PROVE SweepHolds(sweep[s])'
  <2>1. PICK x \in SweepState : x = sweep[s] BY <1>0
  <2>2. /\ SweepHolds(x) /\ x.since \in Nat /\ x.since <= latest /\ \A q \in Peers : x.up[q] \in Nat
    BY <1>0, <1>t, <2>1 DEF FriendSound, SweepHolds, SweepState
  <2>3. x.since <= LatestEdit' BY <1>7, <2>2
  <2>4. ASSUME NEW q \in Peers
        PROVE  /\ x.up[q] <= peers'[q].v
               /\ x.up[q] # 0 /\ x.up[q] = peers'[q].v => peers'[q].in
               /\ q \in x.gone => peers'[q].v # 0
               /\ q \in x.gone /\ peers'[q].v <= x.since => ~peers'[q].in \/ x.up[q] = peers'[q].v
    <3>1. CASE q = p
      <4>1. x.up[q] <= peers[q].v BY <2>2 DEF SweepHolds
      <4>2. x.up[q] < peers'[q].v /\ x.since < peers'[q].v BY <1>1, <1>4, <2>2, <3>1, <4>1
      <4> QED BY <1>4, <2>2, <3>1, <4>2
    <3>2. CASE q # p
      <4>1. peers'[q] = peers[q] BY <1>4, <3>2
      <4> QED BY <2>2, <4>1 DEF SweepHolds
    <3> QED BY <3>1, <3>2
  <2>5. SweepHolds(x)' BY <1>5, <2>2, <2>3, <2>4 DEF SweepHolds
  <2> QED BY <1>5, <2>1, <2>5 DEF SweepHolds
<1>12. ASSUME NEW q \in Peers, q # p, PeerSettled(q) PROVE PeerSettled(q)'
  <2>1. peers'[q] = peers[q] BY <1>4, <1>12
  <2> QED BY <1>5, <1>12, <2>1 DEF PeerSettled, Fits, Drops
<1>13. ASSUME NEW n \in Nat, n <= latest, Covered(n) PROVE Covered(n)'
  <2>1. ASSUME NEW q \in Peers, peers'[q].v \in 1..n PROVE PeerSettled(q)'
    <3>1. q # p BY <1>1, <1>4, <1>13, <2>1
    <3>2. PeerSettled(q) BY <1>4, <1>13, <2>1, <3>1 DEF Covered
    <3> QED BY <1>12, <3>1, <3>2
  <2> QED BY <2>1 DEF Covered
<1>14. ASSUME ills' = {} PROVE FriendWhole'
  <2>0. FriendWhole BY <1>5, <1>14 DEF FriendSound
  <2>1. ASSUME NEW q \in Peers PROVE Covered(saved[q])' /\ Covered(loaded[q])' /\ MemoryFollows(q)'
    <3>1. PICK m, n : m = saved[q] /\ n = loaded[q] OBVIOUS
    <3>2. m \in Nat /\ n \in Nat /\ m <= latest /\ n <= latest
      <4>1. m <= peers[q].v /\ n <= peers[q].v /\ m \in Nat /\ n \in Nat
        BY <1>0, <3>1 DEF FriendSound
      <4> QED BY <1>1, <4>1
    <3>3. Covered(m)' /\ Covered(n)' BY <1>13, <2>0, <3>1, <3>2 DEF FriendWhole
    <3>4. MemoryFollows(q)' BY <1>5, <2>0 DEF FriendWhole, MemoryFollows, Touches
    <3> QED BY <1>5, <3>1, <3>3, <3>4 DEF Covered
  <2>2. ASSUME NEW s \in Sweeps PROVE Comes(sweep[s])'
    <3>1. PICK x \in SweepState : x = sweep[s] BY <1>0
    <3>2. /\ Comes(x) /\ SweepHolds(x) /\ x.since \in Nat /\ x.since <= latest
          /\ \A q \in Peers : x.up[q] \in Nat
      BY <1>0, <1>t, <2>0, <3>1 DEF FriendWhole, FriendSound, SweepHolds, SweepState
    <3>3. CASE x.at \notin {"drop", "apply"}
      <4>1. ASSUME NEW q \in Peers, peers'[q].v \in 1..x.since
            PROVE  PeerSettled(q)' \/ x.up[q] = peers'[q].v \/ q \in x.gone
        <5>1. q # p BY <1>1, <1>4, <3>2, <4>1
        <5>2. peers'[q] = peers[q] BY <1>4, <5>1
        <5>3. PeerSettled(q) \/ x.up[q] = peers[q].v \/ q \in x.gone
          BY <3>2, <3>3, <4>1, <5>2 DEF Comes
        <5> QED BY <1>12, <5>1, <5>2, <5>3
      <4> QED BY <1>5, <3>1, <3>3, <4>1 DEF Comes
    <3>4. CASE x.at \in {"drop", "apply"}
      <4>1. Covered(x.since)' BY <1>13, <3>2, <3>4 DEF Comes
      <4>2. ASSUME NEW q \in Peers
            PROVE  /\ q \in x.gone => x.up[q] = 0
                   /\ x.up[q] # 0 /\ x.up[q] = peers'[q].v => saved'[q] = x.up[q]
                   /\ x.at = "apply" /\ q \in x.gone /\ peers'[q].v <= x.since => saved'[q] = 0
        <5>1. CASE q = p
          <6>1. x.up[q] <= peers[q].v BY <3>2 DEF SweepHolds
          <6>2. x.up[q] # peers'[q].v /\ ~(peers'[q].v <= x.since)
            BY <1>1, <1>4, <3>2, <5>1, <6>1
          <6> QED BY <3>2, <3>4, <6>2 DEF Comes
        <5>2. CASE q # p
          <6>1. peers'[q] = peers[q] BY <1>4, <5>2
          <6> QED BY <1>5, <3>2, <3>4, <6>1 DEF Comes
        <5> QED BY <5>1, <5>2
      <4>3. Comes(x)' BY <3>4, <4>1, <4>2 DEF Comes
      <4> QED BY <1>5, <3>1, <4>3 DEF Comes, Covered
    <3> QED BY <3>3, <3>4
  <2>3. NamesFollow' BY <1>5, <2>0 DEF FriendWhole, NamesFollow
  <2> QED BY <2>1, <2>2, <2>3 DEF FriendWhole
<1>15. kind' = "group" => named' = {} /\ names' = {} /\ pen' = NoPen BY <1>5 DEF FriendSound
<1> QED BY <1>6, <1>9, <1>10, <1>11, <1>14, <1>15 DEF FriendSound

LEMMA FriendKeepsSound ==
    ASSUME FriendSound, FriendNext \/ UNCHANGED friendVars
    PROVE  FriendSound'
<1>1. ASSUME NEW p \in Peers, PeerChanges(p) PROVE FriendSound' BY <1>1, PeerChangesKeeps
<1>2. ASSUME NEW s \in Sweeps,
             \/ SweepBegins(s) \/ SweepStarts(s) \/ PageAnswered(s) \/ RowsPut(s)
             \/ RowsDropped(s) \/ SweepApplied(s) \/ SweepFails(s)
      PROVE  FriendSound'
  BY <1>2, SweepBeginsKeeps, SweepStartsKeeps, PageAnsweredKeeps, RowsPutKeeps,
     RowsDroppedKeeps, SweepAppliedKeeps, SweepFailsKeeps
<1>3. CASE NamesWritten \/ Reload BY <1>3, NamesWrittenKeeps, ReloadKeeps
<1>4. CASE UNCHANGED friendVars
  <2>1. /\ kind' = kind /\ peers' = peers /\ saved' = saved /\ loaded' = loaded
        /\ sweep' = sweep /\ named' = named /\ names' = names /\ pen' = pen /\ ills' = ills
    BY <1>4 DEF friendVars
  <2>2. LatestEdit' = LatestEdit BY <2>1 DEF LatestEdit
  <2>3. FriendTypeOK' BY <2>1 DEF FriendSound, FriendTypeOK
  <2>4. \A s \in Sweeps : SweepHolds(sweep[s])' BY <2>1, <2>2 DEF FriendSound, SweepHolds
  <2>5. \A p \in Peers : PeerSettled(p)' <=> PeerSettled(p) BY <2>1 DEF PeerSettled, Fits, Drops
  <2>6. ASSUME ills' = {} PROVE FriendWhole'
    <3>0. FriendWhole BY <2>1, <2>6 DEF FriendSound
    <3>1. \A p \in Peers : Covered(saved[p])' /\ Covered(loaded[p])' /\ MemoryFollows(p)'
      BY <2>1, <2>5, <3>0 DEF FriendWhole, Covered, MemoryFollows, Touches
    <3>2. \A s \in Sweeps : Comes(sweep[s])'
      BY <2>1, <2>5, <3>0 DEF FriendWhole, Comes, Covered
    <3>3. NamesFollow' BY <2>1, <3>0 DEF FriendWhole, NamesFollow
    <3> QED BY <3>1, <3>2, <3>3 DEF FriendWhole
  <2>7. /\ \A p, q \in Peers : peers'[p].v = peers'[q].v /\ peers'[p].v # 0 => p = q
        /\ \A p \in Peers : /\ peers'[p].v = 0 => ~peers'[p].in
                            /\ saved'[p] <= peers'[p].v /\ loaded'[p] <= peers'[p].v
        /\ kind' = "group" => named' = {} /\ names' = {} /\ pen' = NoPen
    BY <2>1 DEF FriendSound
  <2> QED BY <2>3, <2>4, <2>6, <2>7 DEF FriendSound
<1> QED BY <1>1, <1>2, <1>3, <1>4 DEF FriendNext

LEMMA SoundFriends == FriendSound => SweepsConverge
<1> SUFFICES ASSUME FriendSound, ills = {}, Quiet
             PROVE  /\ SkippedIsRight /\ loaded = saved
                    /\ named \subseteq {p \in Peers : saved[p] # 0}
                    /\ pen = NoPen => names = named
  BY DEF SweepsConverge, FriendUnharmed
<1>1. /\ FriendWhole /\ FriendTypeOK
      /\ saved \in [Peers -> Edits] /\ loaded \in [Peers -> Edits] /\ Edits \subseteq Nat
      /\ \A p \in Peers : peers[p].v \in Nat
  BY FriendFacts DEF FriendSound
<1>2. \A s \in Sweeps : sweep[s].at = "idle" BY DEF Quiet
<1>3. \A p \in Peers : loaded[p] = saved[p]
  BY <1>1, <1>2 DEF FriendWhole, MemoryFollows, Touches
<1>4. loaded = saved BY <1>1, <1>3
<1>5. SkippedIsRight
  <2> SUFFICES ASSUME NEW p \in Peers, peers[p].v <= Max({Highest(loaded), Highest(saved)})
               PROVE  \/ saved[p] = IF peers[p].in THEN peers[p].v ELSE 0
                      \/ kind = "group" /\ ~peers[p].in
    BY DEF SkippedIsRight
  <2>1. PICK n : n = Highest(saved) OBVIOUS
  <2>2. n \in Edits /\ \E q \in Peers : n = saved[q] BY <1>1, <2>1, HighestIs DEF Highest
  <2>3. {Highest(loaded), Highest(saved)} = {n} BY <1>4, <2>1
  <2>4. Max({n}) = n
    <3>0. n \in Nat BY <1>1, <2>2
    <3>1. n \in 0..n BY <3>0
    <3>2. Max({n}) \in {n} BY <3>0, <3>1, LargestOf
    <3> QED BY <3>2
  <2>5. peers[p].v <= n BY <2>3, <2>4
  <2>6. CASE peers[p].v = 0
    <3>1. ~peers[p].in /\ saved[p] <= peers[p].v BY <2>6 DEF FriendSound
    <3>2. saved[p] \in Nat BY <1>1
    <3> QED BY <2>6, <3>1, <3>2
  <2>7. CASE peers[p].v # 0
    <3>1. peers[p].v \in 1..n BY <1>1, <2>2, <2>5, <2>7
    <3>2. Covered(n) BY <1>1, <2>2 DEF FriendWhole
    <3>3. PeerSettled(p) BY <3>1, <3>2 DEF Covered
    <3> QED BY <1>2, <3>3 DEF PeerSettled, Fits, Drops
  <2> QED BY <2>6, <2>7
<1>6. named \subseteq {p \in Peers : saved[p] # 0}
  BY <1>1, <1>3 DEF FriendWhole, NamesFollow, FriendTypeOK
<1>7. ASSUME pen = NoPen PROVE names = named
  <2>1. \A p \in Peers : pen[p] = "no" BY <1>7, FriendNumbers
  <2>2. \A p \in Peers : p \in named <=> p \in names BY <1>1, <2>1 DEF FriendWhole, NamesFollow
  <2>3. named \subseteq Peers /\ names \subseteq Peers BY <1>1 DEF FriendTypeOK
  <2> QED BY <2>2, <2>3
<1> QED BY <1>4, <1>5, <1>6, <1>7

-----------------------------------------------------------------------------
(* The ranges of what rooms and events are numbered by.                    *)

\* The posts there are.
PostsMade == {p \in Rooms \X (1..MaxPosts) : p[2] <= posts[p[1]]}

RoomBounds ==
    /\ links.n \in 1..MaxLinks /\ links.calls \in 0..MaxCalls
    /\ IsFiniteSet(PostsMade) /\ \A r \in Rooms : posts[r] <= MaxPosts
    /\ \A k \in 1..Len(frames) : frames[k].id \in 1..MaxPosts
    /\ \A r \in Rooms : \A k \in 1..Len(heard[r]) : heard[r][k] \in 1..MaxPosts
    /\ upsets \subseteq {"refused", "crossed"}

LEMMA RoomLimits == /\ MaxPosts \in Nat /\ MaxCalls \in Nat /\ MaxLinks \in Nat
                    /\ MaxPosts # 0 /\ MaxCalls # 0 /\ MaxLinks # 0
BY RoomAssumption

LEMMA RoomBoundsStart == RoomInit => RoomBounds
<1> SUFFICES ASSUME RoomInit PROVE RoomBounds
  OBVIOUS
<1>1. /\ links = [n |-> 1, up |-> TRUE, calls |-> 0] /\ posts = [r \in Rooms |-> 0]
      /\ frames = <<>> /\ heard = [r \in Rooms |-> <<>>] /\ upsets = {}
  BY DEF RoomInit
<1>2. PostsMade = {}
  BY <1>1, RoomLimits DEF PostsMade
<1> QED BY <1>1, <1>2, RoomLimits, FS_EmptySet DEF RoomBounds

\* While fewer than all posts were made, no room has all of them.
LEMMA PostsLeft ==
    ASSUME RoomTyped, RoomBounds, NEW r \in Rooms, Posted < MaxPosts
    PROVE  posts[r] + 1 <= MaxPosts
<1>1. posts[r] \in Nat /\ posts[r] <= MaxPosts /\ MaxPosts \in Nat
  BY RoomLimits DEF RoomTyped, RoomBounds
<1>2. SUFFICES ASSUME posts[r] = MaxPosts PROVE FALSE
  BY <1>1
<1>3. PICK M : M = PostsMade
  OBVIOUS
<1>4. PICK D : D = 1..MaxPosts
  OBVIOUS
<1> DEFINE f == [i \in D |-> <<r, i>>]
<1>5. IsFiniteSet(M) /\ Cardinality(M) < MaxPosts
  BY <1>3 DEF RoomBounds, Posted, PostsMade
<1>6. \A i \in D : <<r, i>> \in M
  BY <1>1, <1>2, <1>3, <1>4 DEF PostsMade
<1>7. f \in Injection(D, M)
  BY <1>6 DEF Injection, IsInjective
<1> HIDE DEF f
<1>8. Cardinality(D) <= Cardinality(M)
  BY <1>5, <1>7, FS_Injection
<1>9. Cardinality(D) = MaxPosts
  <2>1. 1 \in Int /\ MaxPosts \in Int
    BY <1>1
  <2>2. Cardinality(1..MaxPosts) = IF 1 > MaxPosts THEN 0 ELSE MaxPosts - 1 + 1
    BY <2>1, FS_Interval
  <2> QED BY <2>2, <1>1, <1>4
<1>10. Cardinality(M) \in Nat
  BY <1>5, FS_CardinalityType
<1> QED BY <1>1, <1>5, <1>8, <1>9, <1>10

LEMMA RoomKeepsBounds ==
    ASSUME RoomSound, RoomBounds, RoomNext \/ UNCHANGED roomVars
    PROVE  RoomBounds'
<1>a. /\ RoomTyped /\ asks \in Seq(Ask) /\ answers \in Seq(Answer) /\ frames \in Seq(Frame)
      /\ links \in [n : Nat, up : BOOLEAN, calls : Nat] /\ posts \in [Rooms -> Nat]
      /\ heard \in [Rooms -> Seq(Nat)]
  BY DEF RoomSound, RoomTyped
<1>b. MaxPosts \in Nat /\ MaxCalls \in Nat /\ MaxLinks \in Nat
  BY RoomLimits
<1>c. \A k \in 1..Len(frames) : frames[k] \in Frame /\ frames[k].id \in 1..MaxPosts
  BY <1>a DEF RoomBounds
\* Links, calls, frames and upsets are all a step changes but for posts and arrivals.
<1>d. ASSUME UNCHANGED <<posts, heard>>, links'.n \in 1..MaxLinks, links'.calls \in 0..MaxCalls,
             \A k \in 1..Len(frames') : frames'[k].id \in 1..MaxPosts,
             upsets' \subseteq {"refused", "crossed"}
      PROVE  RoomBounds'
  <2>1. PostsMade' = PostsMade
    BY <1>d DEF PostsMade
  <2>2. IsFiniteSet(PostsMade') /\ \A r \in Rooms : posts'[r] <= MaxPosts
    BY <2>1, <1>d DEF RoomBounds
  <2>3. \A r \in Rooms : \A k \in 1..Len(heard'[r]) : heard'[r][k] \in 1..MaxPosts
    BY <1>d DEF RoomBounds
  <2> QED BY <1>d, <2>2, <2>3 DEF RoomBounds
<1>e. /\ links.n \in 1..MaxLinks /\ links.calls \in 0..MaxCalls
      /\ \A k \in 1..Len(frames) : frames[k].id \in 1..MaxPosts
      /\ upsets \subseteq {"refused", "crossed"}
  BY DEF RoomBounds
<1>1. ASSUME NEW r \in Rooms, NEW join \in BOOLEAN, CallSubscribe(r, join) PROVE RoomBounds'
  <2>1. /\ links.calls < MaxCalls /\ links' = [links EXCEPT !.calls = @ + 1]
        /\ UNCHANGED <<posts, heard, frames, upsets>>
    BY <1>1 DEF CallSubscribe
  <2>2. links'.n \in 1..MaxLinks /\ links'.calls \in 0..MaxCalls
    BY <1>a, <1>b, <1>e, <2>1
  <2> QED BY <1>d, <1>e, <2>1, <2>2
<1>2. ASSUME NEW r \in Rooms, ReplayNext(r) PROVE RoomBounds'
  <2>1. UNCHANGED <<posts, heard, frames, links>> /\ upsets' \subseteq upsets \cup {"crossed"}
    BY <1>2 DEF ReplayNext
  <2> QED BY <1>d, <1>e, <2>1
<1>3. ASSUME NEW r \in Rooms, RoomPost(r) PROVE RoomBounds'
  <2>1. /\ Posted < MaxPosts /\ posts' = [posts EXCEPT ![r] = @ + 1]
        /\ frames' = frames \/ frames' = Append(frames, [room |-> r, id |-> posts[r] + 1])
        /\ UNCHANGED <<links, heard, upsets>>
    BY <1>3 DEF RoomPost
  <2>2. PICK n \in Nat : n = posts[r] + 1
    BY <1>a
  <2>3. n \in 1..MaxPosts
    BY <1>a, <1>b, <2>1, <2>2, PostsLeft
  <2>4. \A q \in Rooms : posts'[q] \in Nat /\ posts'[q] <= MaxPosts /\ (q # r => posts'[q] = posts[q])
    BY <1>a, <1>b, <2>1, <2>2, <2>3 DEF RoomBounds
  <2>5. \A k \in 1..Len(frames') : frames'[k].id \in 1..MaxPosts
    <3>1. PICK f : f = [room |-> r, id |-> n]
      OBVIOUS
    <3>2. f \in Frame /\ f.id \in 1..MaxPosts
      BY <3>1, <2>3 DEF Frame
    <3>3. frames' = frames \/ frames' = Append(frames, f)
      BY <2>1, <2>2, <3>1
    <3>4. CASE frames' = frames
      BY <1>e, <3>4
    <3>5. CASE frames' = Append(frames, f)
      BY <1>a, <1>c, <3>2, <3>5, AppendIs
    <3> QED BY <3>3, <3>4, <3>5
  <2>6. IsFiniteSet(PostsMade')
    <3>1. PICK M : M = PostsMade
      OBVIOUS
    <3>2. PICK x : x = <<r, n>>
      OBVIOUS
    <3>3. IsFiniteSet(M \cup {x})
      BY <3>1, FS_AddElement DEF RoomBounds
    <3>4. PostsMade' \subseteq M \cup {x}
      <4> SUFFICES ASSUME NEW q \in Rooms, NEW i \in 1..MaxPosts, i <= posts'[q], <<q, i>> # x
                   PROVE  i <= posts[q]
        BY <3>1 DEF PostsMade
      <4>1. CASE q # r
        BY <4>1, <2>4
      <4>2. CASE q = r
        BY <4>2, <1>a, <1>b, <2>1, <2>2, <3>2
      <4> QED BY <4>1, <4>2
    <3> QED BY <3>3, <3>4, FS_Subset
  <2> QED BY <1>e, <2>1, <2>4, <2>5, <2>6 DEF RoomBounds
<1>4. ASSUME ServerAnswers PROVE RoomBounds'
  <2>0. PICK q : q = Head(asks)
    OBVIOUS
  <2>1. PICK ok \in BOOLEAN :
            /\ asks # <<>>
            /\ frames' = frames \o IF ok /\ q.join
                                   THEN [i \in 1..posts[q.room] |-> [room |-> q.room, id |-> i]]
                                   ELSE <<>>
            /\ upsets' \subseteq upsets \cup {"refused"}
            /\ UNCHANGED <<links, posts, heard>>
    <3>1. PICK ok \in BOOLEAN :
            /\ frames' = frames \o IF ok /\ q.join
                                   THEN [i \in 1..posts[q.room] |-> [room |-> q.room, id |-> i]]
                                   ELSE <<>>
            /\ upsets' = upsets \cup IF ~ok /\ q.by = "replay" THEN {"refused"} ELSE {}
      BY <1>4, <2>0 DEF ServerAnswers
    <3>2. asks # <<>> /\ UNCHANGED <<links, posts, heard>>
      BY <1>4 DEF ServerAnswers
    <3>3. upsets' \subseteq upsets \cup {"refused"}
      BY <3>1
    <3> QED BY <3>1, <3>2, <3>3
  <2>2. q.room \in Rooms
    <3>1. asks[1] \in Ask
      BY <1>a, <2>1
    <3> QED BY <1>a, <2>0, <2>1, <3>1 DEF Ask
  <2>3. PICK n \in Nat : n = posts[q.room] /\ n <= MaxPosts
    BY <1>a, <2>2 DEF RoomBounds
  <2>4. PICK s : s = IF ok /\ q.join THEN [i \in 1..n |-> [room |-> q.room, id |-> i]] ELSE <<>>
    OBVIOUS
  <2>5. /\ s \in Seq(Frame) /\ Len(s) \in Nat /\ frames' = frames \o s
        /\ \A k \in 1..Len(s) : s[k].id \in 1..MaxPosts
    <3>1. CASE ok /\ q.join
      <4>1. s = [i \in 1..n |-> [room |-> q.room, id |-> i]]
        BY <2>4, <3>1
      <4>2. \A i \in 1..n : [room |-> q.room, id |-> i] \in Frame /\ i \in 1..MaxPosts
        BY <2>2, <2>3, <1>b DEF Frame
      <4>3. s \in [1..n -> Frame]
        BY <4>1, <4>2
      <4>4. s \in Seq(Frame) /\ Len(s) = n
        BY <4>3
      <4> QED BY <2>1, <2>3, <2>4, <4>1, <4>2, <4>4
    <3>2. CASE ~(ok /\ q.join)
      <4>1. s = <<>>
        BY <2>4, <3>2
      <4> QED BY <2>1, <2>3, <2>4, <3>2, <4>1
    <3> QED BY <3>1, <3>2
  <2>6. \A k \in 1..Len(frames') : frames'[k].id \in 1..MaxPosts
    <3>1. PICK F : F = Frame
      OBVIOUS
    <3>2. frames \in Seq(F) /\ s \in Seq(F)
      BY <1>a, <2>5, <3>1
    <3>3. /\ Len(frames') = Len(frames) + Len(s) /\ Len(frames) \in Nat
          /\ \A k \in 1..(Len(frames) + Len(s)) :
                frames'[k] = IF k <= Len(frames) THEN frames[k] ELSE s[k - Len(frames)]
      BY <2>5, <3>2
    <3> SUFFICES ASSUME NEW k \in 1..Len(frames') PROVE frames'[k].id \in 1..MaxPosts
      OBVIOUS
    <3>4. CASE k <= Len(frames)
      <4>1. k \in 1..Len(frames) /\ frames'[k] = frames[k]
        BY <3>3, <3>4
      <4> QED BY <4>1, <1>e
    <3>5. CASE ~(k <= Len(frames))
      <4>1. k - Len(frames) \in 1..Len(s) /\ frames'[k] = s[k - Len(frames)]
        BY <3>3, <3>5, <2>5
      <4> QED BY <4>1, <2>5
    <3> QED BY <3>4, <3>5
  <2>7. upsets' \subseteq {"refused", "crossed"}
    BY <1>e, <2>1
  <2> QED BY <1>d, <1>e, <2>1, <2>6, <2>7
<1>5. ASSUME Answered PROVE RoomBounds'
  <2>1. UNCHANGED <<posts, heard, frames, links, upsets>>
    BY <1>5 DEF Answered
  <2> QED BY <1>d, <1>e, <2>1
<1>6. ASSUME ReplayDone PROVE RoomBounds'
  <2>1. UNCHANGED <<posts, heard, frames, links, upsets>>
    BY <1>6 DEF ReplayDone
  <2> QED BY <1>d, <1>e, <2>1
<1>7. ASSUME LinkDrops PROVE RoomBounds'
  <2>1. /\ UNCHANGED <<posts, heard, upsets>> /\ frames' = <<>>
        /\ links' = [links EXCEPT !.up = FALSE]
    BY <1>7 DEF LinkDrops
  <2>2. links'.n = links.n /\ links'.calls = links.calls
    BY <1>a, <2>1
  <2>3. \A k \in 1..Len(frames') : frames'[k].id \in 1..MaxPosts
    BY <2>1
  <2> QED BY <1>d, <1>e, <2>1, <2>2, <2>3
<1>8. ASSUME LinkReturns PROVE RoomBounds'
  <2>1. /\ UNCHANGED <<posts, heard, frames, upsets>> /\ links.n < MaxLinks
        /\ links' = [links EXCEPT !.n = @ + 1, !.up = TRUE]
    BY <1>8 DEF LinkReturns
  <2>2. links'.n \in 1..MaxLinks /\ links'.calls \in 0..MaxCalls
    BY <1>a, <1>b, <1>e, <2>1
  <2> QED BY <1>d, <1>e, <2>1, <2>2
<1>9. ASSUME FrameArrives PROVE RoomBounds'
  <2>1. PICK f : /\ f = Head(frames) /\ frames # <<>> /\ frames' = Tail(frames)
                 /\ \/ heard' = heard
                    \/ heard' = [heard EXCEPT ![f.room] = Append(@, f.id)]
                 /\ UNCHANGED <<links, posts, upsets>>
    BY <1>9 DEF FrameArrives
  <2>2. /\ f \in Frame /\ f.id \in 1..MaxPosts
        /\ \A k \in 1..Len(frames') : frames'[k].id \in 1..MaxPosts
    BY <1>a, <1>c, <2>1, TailIs
  <2>3. f.room \in Rooms /\ f.id \in Nat
    BY <2>2 DEF Frame
  <2>4. CASE heard' = heard
    BY <1>d, <1>e, <2>1, <2>2, <2>4
  <2>5. CASE heard' = [heard EXCEPT ![f.room] = Append(@, f.id)]
    <3>1. \A r \in Rooms : \A k \in 1..Len(heard'[r]) : heard'[r][k] \in 1..MaxPosts
      <4> SUFFICES ASSUME NEW r \in Rooms, NEW k \in 1..Len(heard'[r])
                   PROVE  heard'[r][k] \in 1..MaxPosts
        OBVIOUS
      <4>1. \A j \in 1..Len(heard[r]) : heard[r][j] \in 1..MaxPosts
        BY DEF RoomBounds
      <4>2. CASE r # f.room
        <5>1. heard'[r] = heard[r]
          BY <1>a, <2>5, <4>2
        <5> QED BY <4>1, <5>1
      <4>3. CASE r = f.room
        <5>1. heard'[r] = Append(heard[r], f.id) /\ heard[r] \in Seq(Nat)
          BY <1>a, <2>5, <4>3
        <5> QED BY <2>2, <2>3, <4>1, <5>1, AppendIs
      <4> QED BY <4>2, <4>3
    <3>2. PostsMade' = PostsMade
      BY <2>1 DEF PostsMade
    <3>3. IsFiniteSet(PostsMade') /\ \A r \in Rooms : posts'[r] <= MaxPosts
      BY <3>2, <2>1 DEF RoomBounds
    <3> QED BY <1>e, <2>1, <2>2, <3>1, <3>3 DEF RoomBounds
  <2> QED BY <2>1, <2>4, <2>5
<1>10. ASSUME UNCHANGED roomVars PROVE RoomBounds'
  <2>1. UNCHANGED <<posts, heard, frames, links, upsets>>
    BY <1>10 DEF roomVars
  <2> QED BY <1>d, <1>e, <2>1
<1> QED BY <1>1, <1>2, <1>3, <1>4, <1>5, <1>6, <1>7, <1>8, <1>9, <1>10 DEF RoomNext

LEMMA SoundRoomTyped ==
    ASSUME RoomSound, RoomBounds
    PROVE  RoomTypeOK
<1>1. RoomTyped /\ Lately
  BY DEF RoomSound
<1>2. RoomWindow \in Nat /\ MaxPosts \in Nat
  BY RoomNumbers, RoomLimits
<1>3. Range(asks) \subseteq Ask
  BY <1>1 DEF RoomTyped, Range
<1>4. \A i \in 1..Len(answers) : answers[i].ask \in Ask /\ answers[i].ok \in BOOLEAN
  <2>1. \A i \in 1..Len(answers) : answers[i] \in Answer
    BY <1>1 DEF RoomTyped
  <2> QED BY <2>1 DEF Answer
<1>5. ASSUME NEW r \in Rooms
      PROVE  /\ posts[r] \in 0..MaxPosts /\ Range(window[r]) \subseteq 1..MaxPosts
             /\ Len(window[r]) <= RoomWindow /\ Range(heard[r]) \subseteq 1..MaxPosts
  <2>1. posts[r] \in Nat /\ window[r] \in Seq(Nat) /\ heard[r] \in Seq(Nat)
    BY <1>1 DEF RoomTyped
  <2>2. PICK w, h : w = window[r] /\ h = heard[r]
    OBVIOUS
  <2>3. DOMAIN w = 1..Len(w) /\ DOMAIN h = 1..Len(h) /\ Len(w) \in Nat /\ Len(h) \in Nat
    BY <2>1, <2>2
  <2>4. /\ Len(w) <= Len(h) /\ Len(w) <= RoomWindow
        /\ \A k \in 1..Len(w) : w[k] = h[Len(h) - Len(w) + k]
    BY <1>1, <2>2 DEF Lately
  <2>5. \A k \in 1..Len(h) : h[k] \in 1..MaxPosts
    BY <2>2 DEF RoomBounds
  <2>6. \A k \in 1..Len(w) : w[k] \in 1..MaxPosts
    <3> SUFFICES ASSUME NEW k \in 1..Len(w) PROVE w[k] \in 1..MaxPosts
      OBVIOUS
    <3>1. Len(h) - Len(w) + k \in 1..Len(h)
      BY <2>3, <2>4
    <3> QED BY <3>1, <2>4, <2>5
  <2>7. posts[r] \in 0..MaxPosts
    BY <1>2, <2>1 DEF RoomBounds
  <2> QED BY <2>2, <2>3, <2>4, <2>5, <2>6, <2>7 DEF Range
<1>6. /\ links.up \in BOOLEAN /\ links.n \in 1..MaxLinks /\ links.calls \in 0..MaxCalls
      /\ replaying.on \in BOOLEAN /\ replaying.left \subseteq Rooms
  BY <1>1 DEF RoomTyped, RoomBounds
<1>7. upsets \subseteq {"refused", "crossed"} /\ active \subseteq Rooms /\ granted \subseteq Rooms
      /\ wish \subseteq Rooms
  BY <1>1 DEF RoomTyped, RoomBounds
<1> QED BY <1>3, <1>4, <1>5, <1>6, <1>7 DEF RoomTypeOK

FeedBounds ==
    /\ authed \in BOOLEAN /\ acked \in BOOLEAN /\ inbox \in Packets \cup {Empty}
    /\ emitted <= MaxEvents /\ 0 \notin seen.missed

LEMMA FeedBoundsStart == FeedInit => FeedBounds
<1> SUFFICES ASSUME FeedInit PROVE FeedBounds
  OBVIOUS
<1>1. authed \in BOOLEAN /\ acked \in BOOLEAN
  BY DEF FeedInit
<1> QED BY <1>1, FeedAssumption DEF FeedInit, FeedBounds

LEMMA FeedKeepsBounds ==
    ASSUME FeedSound, FeedBounds, FeedNext \/ UNCHANGED feedVars
    PROVE  FeedBounds'
<1>a. emitted \in Nat /\ MaxEvents \in Nat /\ past \in Seq(Nat)
      /\ seen \in [upto : Nat, missed : SUBSET Nat]
  BY FeedAssumption DEF FeedSound, FeedTyped
<1>b. /\ authed \in BOOLEAN /\ acked \in BOOLEAN /\ inbox \in Packets \cup {Empty}
      /\ emitted <= MaxEvents /\ 0 \notin seen.missed
  BY DEF FeedBounds
<1>c. Emit => emitted' <= MaxEvents
  BY <1>a DEF Emit
<1>1. ASSUME Tell \/ EmitReturns \/ (\E l \in Listeners : Subscribes(l) \/ Unsubscribes(l))
      PROVE  FeedBounds'
  <2>1. UNCHANGED <<authed, inbox, acked, emitted, seen>>
    BY <1>1 DEF Tell, EmitReturns, Subscribes, Unsubscribes
  <2> QED BY <1>b, <2>1 DEF FeedBounds
<1>2. ASSUME ClientEmits PROVE FeedBounds'
  <2>1. emitted' <= MaxEvents /\ UNCHANGED <<inbox, acked, seen>>
    BY <1>2, <1>c DEF ClientEmits
  <2>2. authed' \in BOOLEAN
    BY <1>2 DEF ClientEmits
  <2> QED BY <1>b, <2>1, <2>2 DEF FeedBounds
<1>3. ASSUME NEW p \in Packets, PacketArrives(p) PROVE FeedBounds'
  <2>1. inbox' = p /\ UNCHANGED <<authed, emitted, seen>>
    BY <1>3 DEF PacketArrives
  <2>2. acked' \in BOOLEAN
    <3>1. acked' = (p.request /\ p.kind \in {"push", "batch"})
      BY <1>3 DEF PacketArrives
    <3> QED BY <3>1
  <2> QED BY <1>b, <2>1, <2>2 DEF FeedBounds
<1>4. ASSUME PacketHandled PROVE FeedBounds'
  <2>1. emitted' <= MaxEvents /\ inbox' = Empty /\ UNCHANGED <<authed, seen>>
    BY <1>4, <1>b, <1>c DEF PacketHandled
  <2>2. acked' \in BOOLEAN
    BY <1>4 DEF PacketHandled
  <2> QED BY <1>b, <2>1, <2>2 DEF FeedBounds
<1>5. ASSUME NEW limit \in 1..2, PollsEvents(limit) PROVE FeedBounds'
  <2>1. PICK got : /\ seen' = [upto   |-> got[Len(got)],
                              missed |-> seen.missed \cup ((seen.upto + 1)..got[Len(got)] \ Heard(got))]
                   /\ UNCHANGED <<authed, inbox, acked, emitted>>
    BY <1>5 DEF PollsEvents
  <2>2. 0 \notin seen'.missed
    <3>1. PICK z : z = got[Len(got)]
      OBVIOUS
    <3>2. 0 \notin (seen.upto + 1)..z
      BY <1>a
    <3>3. seen'.missed = seen.missed \cup ((seen.upto + 1)..z \ Heard(got))
      BY <2>1, <3>1
    <3> QED BY <1>b, <3>2, <3>3
  <2> QED BY <1>b, <2>1, <2>2 DEF FeedBounds
<1>6. ASSUME UNCHANGED feedVars PROVE FeedBounds'
  <2>1. UNCHANGED <<authed, inbox, acked, emitted, seen>>
    BY <1>6 DEF feedVars
  <2> QED BY <1>b, <2>1 DEF FeedBounds
<1> QED BY <1>1, <1>2, <1>3, <1>4, <1>5, <1>6 DEF FeedNext

LEMMA SoundFeedTyped ==
    ASSUME FeedSound, FeedBounds
    PROVE  FeedTypeOK
<1>1. FeedTyped /\ CallsDiffer /\ HistoryKept /\ PollerBehind /\ \A l \in Listeners : HeardOrComing(l)
  BY DEF FeedSound
<1>2. /\ emitted \in Nat /\ emitted <= MaxEvents /\ MaxEvents \in Nat /\ HistoryLimit \in Nat
      /\ 1..emitted \subseteq 1..MaxEvents
  <2>1. emitted \in Nat /\ emitted <= MaxEvents /\ MaxEvents \in Nat /\ HistoryLimit \in Nat
    BY <1>1, FeedAssumption DEF FeedTyped, FeedBounds
  <2> QED BY <2>1
<1>3. Heard(past) \subseteq 1..MaxEvents /\ Len(past) <= HistoryLimit
  <2>1. past \in Seq(Nat) /\ Len(past) \in Nat
    BY <1>1 DEF FeedTyped
  <2>2. PICK n : n = Len(past) /\ n \in Nat
    BY <2>1
  <2>3. n <= emitted /\ n <= HistoryLimit /\ \A i \in 1..n : past[i] = emitted - n + i
    BY <1>1, <1>2, <2>2 DEF HistoryKept
  <2>4. \A i \in 1..n : past[i] \in 1..MaxEvents
    BY <1>2, <2>2, <2>3
  <2> QED BY <2>2, <2>3, <2>4 DEF Heard
<1>4. Heard(list) \subseteq Listeners
  BY <1>1 DEF FeedTyped, Heard
<1>5. ASSUME NEW i \in 1..Len(stack)
      PROVE  stack[i].event \in 1..MaxEvents /\ Heard(stack[i].rest) \subseteq Listeners
  <2>1. stack[i] \in EmitCall
    BY <1>1 DEF FeedTyped
  <2>2. PICK s : s = stack[i].rest /\ s \in Seq(Listeners)
    BY <2>1 DEF EmitCall
  <2>3. Heard(s) \subseteq Listeners
    BY <2>2 DEF Heard
  <2>4. stack[i].event \in 1..MaxEvents
    BY <1>1, <1>2 DEF CallsDiffer
  <2> QED BY <2>2, <2>3, <2>4
<1>6. \A l \in Listeners : Heard(listened[l]) \subseteq joined[l]
  BY <1>1 DEF HeardOrComing
<1>7. seen.upto \in 0..MaxEvents /\ seen.missed \subseteq 1..MaxEvents
  <2>1. seen.upto \in Nat /\ seen.missed \subseteq Nat
    BY <1>1 DEF FeedTyped
  <2>2. seen.upto <= emitted /\ \A e \in seen.missed : e + HistoryLimit <= emitted
    BY <1>1 DEF PollerBehind
  <2>3. seen.upto \in 0..MaxEvents
    BY <1>2, <2>1, <2>2
  <2>4. ASSUME NEW e \in seen.missed PROVE e \in 1..MaxEvents
    <3>1. e \in Nat /\ e # 0 /\ e + HistoryLimit <= emitted
      BY <2>1, <2>2 DEF FeedBounds
    <3> QED BY <1>2, <3>1
  <2> QED BY <2>3, <2>4
<1>8. authed \in BOOLEAN /\ acked \in BOOLEAN /\ inbox \in Packets \cup {Empty} /\ emitted \in 0..MaxEvents
  BY <1>2 DEF FeedBounds
<1> QED BY <1>3, <1>4, <1>5, <1>6, <1>7, <1>8 DEF FeedTypeOK

LEMMA SoundReadTyped == ReadSound => ReadTypeOK
<1> SUFFICES ASSUME ReadSound PROVE ReadTypeOK
  OBVIOUS
<1>1. ReadTyped
  BY DEF ReadSound
<1>2. PICK P : P = PutTo
  OBVIOUS
<1>3. puts \in Seq(P)
  BY <1>1, <1>2 DEF ReadTyped
<1>4. \A i \in DOMAIN puts : puts[i] \in P
  BY <1>3
<1>5. PutTo = [op : {"record", "row", "page", "empty", "load"}, rec : ChannelRecord, rows : SUBSET Messages]
  BY DEF PutTo
<1> QED BY <1>1, <1>2, <1>4, <1>5 DEF ReadTyped, ReadTypeOK

LEMMA SoundReceiptTyped == ReceiptSound => ReceiptTypeOK
<1> SUFFICES ASSUME ReceiptSound PROVE ReceiptTypeOK
  OBVIOUS
<1>1. ReceiptTyped
  BY DEF ReceiptSound
<1>2. \A i \in 1..Len(queue) : queue[i] \in ReceiptWrite
  BY <1>1 DEF ReceiptTyped
<1>3. \A i \in 1..Len(notices) : notices[i] \in Seen
  <2>1. PICK S : S = Seen
    OBVIOUS
  <2>2. notices \in Seq(S)
    BY <1>1, <2>1 DEF ReceiptTyped
  <2> QED BY <2>1, <2>2
<1>4. ReceiptWrite = [by : {"memory", "sweep"}, peer : Seen]
  BY DEF ReceiptWrite
<1>5. isGroup \in BOOLEAN
  BY <1>1 DEF ReceiptTyped
<1> QED BY <1>1, <1>2, <1>3, <1>4, <1>5 DEF ReceiptTyped, ReceiptTypeOK

-----------------------------------------------------------------------------
(* A message received (Inbound).                                           *)

Bodies == [wraps : 0..(MaxWraps + 1), reply : Replies]
Carried == [form : {"none", "raw", "json", "fb"}, meta : BOOLEAN, reply : Replies]

\* A row says what the message on the server says: its payload carries the
\* metadata there is, and payload or text the anchor there is.
Telling(row) ==
    /\ row.kind = wire.kind /\ row.body = wire.captioned
    /\ row.payload.form \in {"json", "fb"} /\ row.payload.meta <=> HasMeta
    /\ Anchored(row.payload.reply) \/ Anchored(row.text.reply) <=> Anchored(wire.reply)
    /\ row.payload.form = "none" => ~Anchored(row.payload.reply)
    /\ HasMeta => ~Anchored(row.text.reply)

InboundSound ==
    /\ InboundTypeOK
    /\ wire.captioned \/ wire.kind = "image"
    /\ clouds = {} => \A row \in {visible, stored[1]} \ {NoMessage} : Telling(row)

LEMMA RowParts ==
    /\ NoMessage \notin InboundRow
    /\ \A r \in InboundRow : r # NoMessage /\ r.text \in Bodies /\ r.payload \in Carried
    /\ \A k \in {"text", "image", "revoke", "status"}, t \in Bodies, b \in BOOLEAN, p \in Carried,
          e \in BOOLEAN, q \in BOOLEAN, v \in BOOLEAN :
          [kind |-> k, text |-> t, body |-> b, payload |-> p, exact |-> e, pts |-> q,
           revoked |-> v] \in InboundRow
<1>1. \A r \in InboundRow : r.kind # "none"
  BY DEF InboundRow
<1>2. NoMessage.kind = "none"
  BY DEF NoMessage
<1> QED BY <1>1, <1>2 DEF InboundRow, Bodies, Carried

LEMMA TextParts ==
    ASSUME MaxWraps <= 2
    PROVE  /\ MaxWraps \in Nat
           /\ \A n \in 0..(MaxWraps + 1) : Plain(n) \in Bodies /\ Unwrapped(Plain(n)) = Plain(0)
           /\ \A t \in Bodies : Unwrapped(t) = Plain(0)
           /\ Plain(0) \in Bodies /\ Plain(0).reply = "none" /\ ~Anchored("none")
<1>1. MaxWraps \in Nat
  BY TextAssumption
<1>2. \A n \in 0..(MaxWraps + 1) : Plain(n) \in Bodies /\ Plain(n).wraps = n
  BY DEF Plain, Bodies, Replies
<1>3. \A t \in Bodies : t.wraps \in 0..(MaxWraps + 1)
  BY DEF Bodies
<1>4. \A t \in Bodies : ~(t.wraps > 3)
  BY <1>1, <1>3
<1>5. Plain(0) \in Bodies
  BY <1>1, <1>2
<1>6. Plain(0).reply = "none" /\ ~Anchored("none")
  BY DEF Plain, Anchored
<1> QED BY <1>1, <1>2, <1>4, <1>5, <1>6 DEF Unwrapped

\* What the rows of memory and database become.
LEMMA PushWritten ==
    ASSUME MaxWraps <= 2, InboundSound, NEW prior \in InboundRow \cup {NoMessage}, NEW new \in InboundRow,
           prior # NoMessage => Telling(prior), Telling(new)
    PROVE  Telling(MergeOnPush(prior, new)) /\ Telling(MergeRow(prior, new))
<1>1. CASE prior = NoMessage
  BY <1>1 DEF MergeOnPush, MergeRow
<1>2. CASE prior # NoMessage
  <2> USE <1>2
  <2>1. prior \in InboundRow /\ Telling(prior)
    OBVIOUS
  <2>2. PICK a : a = MergeOnPush(prior, new)
    OBVIOUS
  <2>3. /\ a.kind = (IF new.body THEN new.kind ELSE prior.kind)
        /\ a.text = (IF new.body THEN new.text ELSE prior.text)
        /\ a.body = (prior.body \/ new.body)
        /\ a.payload = (IF new.payload.form # "none" THEN new.payload ELSE prior.payload)
    BY <2>1, <2>2 DEF MergeOnPush, InboundRow
  <2>4. PICK b : b = MergeRow(prior, new)
    OBVIOUS
  <2>5. /\ b.kind = (IF new.body THEN new.kind ELSE prior.kind)
        /\ b.text = (IF new.body THEN new.text ELSE prior.text)
        /\ b.body = (new.body \/ prior.body)
        /\ b.payload = (IF ~new.body \/ new.payload.form = "none" THEN prior.payload ELSE new.payload)
    BY <2>1, <2>4 DEF MergeRow, InboundRow
  <2>6. wire.captioned \/ HasMeta
    BY DEF InboundSound, HasMeta
  <2>7. prior.body = wire.captioned /\ new.body = wire.captioned /\ wire.captioned \in BOOLEAN
    BY <2>1 DEF Telling, InboundSound, InboundTypeOK, WireMessage
  <2>8. Telling(a)
    BY <2>1, <2>3, <2>6, <2>7 DEF Telling
  <2>9. Telling(b)
    BY <2>1, <2>5, <2>6, <2>7 DEF Telling
  <2> QED BY <2>2, <2>4, <2>8, <2>9
<1> QED BY <1>1, <1>2

LEMMA WrittenTyped ==
    ASSUME NEW prior \in InboundRow \cup {NoMessage}, NEW new \in InboundRow
    PROVE  MergeOnPush(prior, new) \in InboundRow /\ MergeRow(prior, new) \in InboundRow
<1>1. CASE prior = NoMessage
  BY <1>1 DEF MergeOnPush, MergeRow
<1>2. CASE prior # NoMessage
  <2>1. prior \in InboundRow
    BY <1>2
  <2>2. /\ prior.kind \in {"text", "image", "revoke", "status"} /\ prior.text \in Bodies
        /\ prior.body \in BOOLEAN /\ prior.payload \in Carried /\ prior.exact \in BOOLEAN
        /\ prior.pts \in BOOLEAN /\ prior.revoked \in BOOLEAN
    BY <2>1 DEF InboundRow, Bodies, Carried
  <2>3. /\ new.kind \in {"text", "image", "revoke", "status"} /\ new.text \in Bodies
        /\ new.body \in BOOLEAN /\ new.payload \in Carried /\ new.exact \in BOOLEAN
        /\ new.pts \in BOOLEAN /\ new.revoked \in BOOLEAN
    BY DEF InboundRow, Bodies, Carried
  <2>8. prior = [kind |-> prior.kind, text |-> prior.text, body |-> prior.body, payload |-> prior.payload,
               exact |-> prior.exact, pts |-> prior.pts, revoked |-> prior.revoked]
    BY <2>1 DEF InboundRow
  <2>9. new = [kind |-> new.kind, text |-> new.text, body |-> new.body, payload |-> new.payload,
               exact |-> new.exact, pts |-> new.pts, revoked |-> new.revoked]
    BY DEF InboundRow
  <2>4. MergeOnPush(prior, new) =
          [kind |-> IF new.body THEN new.kind ELSE prior.kind,
           text |-> IF new.body THEN new.text ELSE prior.text,
           body |-> prior.body \/ new.body,
           payload |-> IF new.payload.form # "none" THEN new.payload ELSE prior.payload,
           exact |-> prior.exact, pts |-> prior.pts \/ new.pts, revoked |-> prior.revoked \/ new.revoked]
    BY <1>2, <2>8 DEF MergeOnPush
  <2>5. MergeRow(prior, new) =
          [kind |-> IF new.body THEN new.kind ELSE prior.kind,
           text |-> IF new.body THEN new.text ELSE prior.text,
           body |-> new.body \/ prior.body,
           payload |-> IF ~new.body \/ new.payload.form = "none" THEN prior.payload ELSE new.payload,
           exact |-> prior.exact \/ new.exact, pts |-> new.pts, revoked |-> new.revoked \/ prior.revoked]
    BY <1>2, <2>9 DEF MergeRow, MergeSentAt
  <2>6. MergeOnPush(prior, new) \in InboundRow
    <3>1. PICK k, t, b, p, q, v :
            /\ k = (IF new.body THEN new.kind ELSE prior.kind)
            /\ t = (IF new.body THEN new.text ELSE prior.text)
            /\ b = (prior.body \/ new.body)
            /\ p = (IF new.payload.form # "none" THEN new.payload ELSE prior.payload)
            /\ q = (prior.pts \/ new.pts) /\ v = (prior.revoked \/ new.revoked)
      OBVIOUS
    <3>2. /\ k \in {"text", "image", "revoke", "status"} /\ t \in Bodies /\ b \in BOOLEAN
          /\ p \in Carried /\ q \in BOOLEAN /\ v \in BOOLEAN
      BY <3>1, <2>2, <2>3
    <3>3. MergeOnPush(prior, new) = [kind |-> k, text |-> t, body |-> b, payload |-> p,
                                   exact |-> prior.exact, pts |-> q, revoked |-> v]
      BY <3>1, <2>4
    <3> QED BY <3>2, <3>3, <2>2, RowParts
  <2>7. MergeRow(prior, new) \in InboundRow
    <3>1. PICK k, t, b, p, e, v :
            /\ k = (IF new.body THEN new.kind ELSE prior.kind)
            /\ t = (IF new.body THEN new.text ELSE prior.text)
            /\ b = (new.body \/ prior.body)
            /\ p = (IF ~new.body \/ new.payload.form = "none" THEN prior.payload ELSE new.payload)
            /\ e = (prior.exact \/ new.exact) /\ v = (new.revoked \/ prior.revoked)
      OBVIOUS
    <3>2. /\ k \in {"text", "image", "revoke", "status"} /\ t \in Bodies /\ b \in BOOLEAN
          /\ p \in Carried /\ e \in BOOLEAN /\ v \in BOOLEAN
      BY <3>1, <2>2, <2>3
    <3>3. MergeRow(prior, new) = [kind |-> k, text |-> t, body |-> b, payload |-> p,
                                exact |-> e, pts |-> new.pts, revoked |-> v]
      BY <3>1, <2>5
    <3> QED BY <3>2, <3>3, <2>3, RowParts
  <2> QED BY <2>6, <2>7
<1> QED BY <1>1, <1>2

\* The adapters tell what the server has.
LEMMA AdaptersTell ==
    ASSUME MaxWraps <= 2, InboundSound
    PROVE  /\ \A p \in PushPayloads : FromPush(p) \in InboundRow /\ Telling(FromPush(p))
           /\ \A anchor \in HistoryAnchors, withPts \in BOOLEAN :
                 FromHistory(anchor, withPts) \in InboundRow /\ Telling(FromHistory(anchor, withPts))
           /\ \A row \in ResolveCommit : row \in InboundRow /\ Telling(row)
<1>1. /\ wire.kind \in {"text", "image"} /\ wire.captioned \in BOOLEAN /\ wire.reply \in Replies
      /\ wire.wraps \in 0..MaxWraps /\ taken \in BOOLEAN
  BY DEF InboundSound, InboundTypeOK, WireMessage
<1>2. /\ wire.wraps \in 0..(MaxWraps + 1) /\ wire.wraps + 1 \in 0..(MaxWraps + 1)
  BY <1>1, TextParts
<1>3. HasMeta \in BOOLEAN /\ (Anchored(wire.reply) <=> wire.reply = "id")
  BY DEF HasMeta, Anchored
<1>4. Plain(wire.wraps) \in Bodies /\ Unwrapped(Plain(wire.wraps)) = Plain(0)
      /\ Plain(wire.wraps).reply = "none" /\ Plain(0) \in Bodies /\ Plain(0).reply = "none"
  BY <1>2, TextParts DEF Plain
<1>5. ASSUME NEW t \in Bodies, NEW p \in Carried, NEW e \in BOOLEAN, NEW q \in BOOLEAN,
             NEW v \in BOOLEAN,
             p.form \in {"json", "fb"} /\ p.meta <=> HasMeta,
             Anchored(p.reply) \/ Anchored(t.reply) <=> Anchored(wire.reply),
             p.form = "none" => ~Anchored(p.reply),
             HasMeta => ~Anchored(t.reply)
      PROVE  Row(t, p, e, q, v) \in InboundRow /\ Telling(Row(t, p, e, q, v))
  <2>1. Row(t, p, e, q, v) \in InboundRow
    BY <1>1, <1>5, RowParts DEF Row
  <2>2. Telling(Row(t, p, e, q, v))
    BY <1>5 DEF Telling, Row
  <2> QED BY <2>1, <2>2
<1>6. ~Anchored("none") /\ ~Anchored("null") /\ Anchored("id")
  BY DEF Anchored
<1>7. ASSUME NEW p \in PushPayloads
      PROVE  FromPush(p) \in InboundRow /\ Telling(FromPush(p))
  <2>1. /\ p \in Carried
        /\ p.form \in {"json", "fb"} /\ p.meta <=> HasMeta
        /\ Anchored(p.reply) <=> Anchored(wire.reply)
        /\ p.form # "none"
    <3>1. CASE p = Payload("json", HasMeta, wire.reply)
      BY <3>1, <1>1, <1>3 DEF Payload, Carried
    <3>2. CASE p = Table
      BY <3>2, <1>3, <1>6 DEF Payload, Table, Carried, Replies
    <3>3. CASE p = Payload("raw", FALSE, "none") /\ ~HasData
      BY <3>3, <1>3, <1>6 DEF Payload, Carried, HasData, Replies
    <3> QED BY <3>1, <3>2, <3>3 DEF PushPayloads
  <2> QED BY <2>1, <1>1, <1>4, <1>5, <1>6 DEF FromPush
<1>8. ASSUME NEW anchor \in HistoryAnchors, NEW withPts \in BOOLEAN
      PROVE  FromHistory(anchor, withPts) \in InboundRow /\ Telling(FromHistory(anchor, withPts))
  <2>1. anchor \in Replies /\ (Anchored(anchor) <=> Anchored(wire.reply))
        /\ (anchor = "none" => wire.reply = "none")
    BY <1>1, <1>6 DEF HistoryAnchors, Replies
  <2>2. PICK p : p = EnvelopeOf(HasMeta, anchor)
    OBVIOUS
  <2>3. /\ p \in Carried
        /\ p.form \in {"json", "fb"} /\ p.meta <=> HasMeta
        /\ Anchored(p.reply) <=> Anchored(wire.reply)
        /\ p.form = "none" => ~Anchored(p.reply)
    <3>1. CASE HasMeta \/ anchor # "none"
      <4>1. p = [form |-> "json", meta |-> HasMeta, reply |-> anchor]
        BY <3>1, <2>2 DEF EnvelopeOf, Payload
      <4> QED BY <4>1, <2>1, <1>3 DEF Carried
    <3>2. CASE ~HasMeta /\ anchor = "none"
      <4>1. p = [form |-> "none", meta |-> FALSE, reply |-> "none"]
        BY <3>2, <2>2 DEF EnvelopeOf, Payload, NoPayload
      <4>2. p \in Carried
        BY <4>1 DEF Carried, Replies
      <4> QED BY <3>2, <4>1, <4>2, <2>1, <1>6
    <3> QED BY <3>1, <3>2
  <2> QED BY <2>2, <2>3, <1>1, <1>4, <1>5, <1>6 DEF FromHistory
<1>9. ASSUME NEW row \in ResolveCommit
      PROVE  row \in InboundRow /\ Telling(row)
  <2>1. CASE row = Row(Plain(wire.wraps), Table, TRUE, TRUE, FALSE)
    <3>1. /\ Table \in Carried
          /\ Table.form \in {"json", "fb"} /\ Table.meta <=> HasMeta
          /\ Anchored(Table.reply) <=> Anchored(wire.reply)
          /\ Table.form # "none"
      BY <1>3, <1>6 DEF Table, Payload, Carried, Replies
    <3> QED BY <3>1, <2>1, <1>4, <1>5, <1>6
  <2>2. CASE row = Row(Plain(wire.wraps), Payload("json", HasMeta, wire.reply), TRUE, TRUE, FALSE)
    <3>1. PICK p : p = Payload("json", HasMeta, wire.reply)
      OBVIOUS
    <3>2. /\ p \in Carried
          /\ p.form \in {"json", "fb"} /\ p.meta <=> HasMeta
          /\ Anchored(p.reply) <=> Anchored(wire.reply)
          /\ p.form # "none"
      BY <3>1, <1>1, <1>3 DEF Payload, Carried
    <3> QED BY <3>1, <3>2, <2>2, <1>4, <1>5, <1>6
  <2>3. CASE /\ ~HasMeta
             /\ row = Row(IF wire.reply = "none" THEN Plain(wire.wraps)
                          ELSE [wraps |-> wire.wraps + 1, reply |-> wire.reply],
                          NoPayload, TRUE, TRUE, FALSE)
    <3>1. PICK t : t = IF wire.reply = "none" THEN Plain(wire.wraps)
                       ELSE [wraps |-> wire.wraps + 1, reply |-> wire.reply]
      OBVIOUS
    <3>2. t \in Bodies /\ t.reply = wire.reply
      <4>1. CASE wire.reply = "none"
        BY <4>1, <3>1, <1>4
      <4>2. CASE wire.reply # "none"
        BY <4>2, <3>1, <1>1, <1>2 DEF Bodies
      <4> QED BY <4>1, <4>2
    <3>3. NoPayload \in Carried /\ NoPayload.form = "none" /\ ~Anchored(NoPayload.reply)
      BY <1>6 DEF NoPayload, Payload, Carried, Replies
    <3> QED BY <3>1, <3>2, <3>3, <2>3, <1>5
  <2> QED BY <2>1, <2>2, <2>3 DEF ResolveCommit, FromLegacyCommit
<1> QED BY <1>7, <1>8, <1>9

\* A write of the message's own row, and of the revocation's.
LEMMA StoringOne ==
    ASSUME InboundTypeOK, NEW c \in 1..2, NEW row \in InboundRow, Store(c, row)
    PROVE  /\ stored' \in [1..2 -> InboundRow \cup {NoMessage}]
           /\ stored'[c] = MergeRow(stored[c], row)
           /\ stored'[c] \in InboundRow
           /\ \A d \in 1..2 : d # c => stored'[d] = stored[d]
<1>1. stored \in [1..2 -> InboundRow \cup {NoMessage}]
  BY DEF InboundTypeOK
<1>2. stored' = [stored EXCEPT ![c] = MergeRow(stored[c], row)]
  BY DEF Store
<1>3. MergeRow(stored[c], row) \in InboundRow
  <2>1. stored[c] \in InboundRow \cup {NoMessage}
    BY <1>1
  <2> QED BY <2>1, WrittenTyped
<1> QED BY <1>1, <1>2, <1>3

LEMMA InboundStart ==
    ASSUME InboundInit
    PROVE  InboundSound
<1>1. wire \in WireMessage /\ (wire.captioned \/ wire.kind = "image")
  BY DEF InboundInit
<1>2. /\ taken = FALSE /\ visible = NoMessage /\ stored = [c \in 1..2 |-> NoMessage]
      /\ consumed = 0 /\ clouds = {}
  BY DEF InboundInit
<1>3. InboundTypeOK
  <2>1. PICK X : X = InboundRow \cup {NoMessage}
    OBVIOUS
  <2>2. NoMessage \in X
    BY <2>1
  <2>3. stored \in [1..2 -> X] /\ visible \in X
    BY <1>2, <2>2
  <2>4. clouds \subseteq {"blank", "status"} /\ taken \in BOOLEAN /\ consumed \in 0..2
    <3>1. clouds \subseteq {"blank", "status"}
      BY <1>2
    <3>2. taken \in BOOLEAN
      BY <1>2
    <3>3. consumed \in 0..2
      BY <1>2
    <3> QED BY <3>1, <3>2, <3>3
  <2>5. stored \in [1..2 -> InboundRow \cup {NoMessage}] /\ visible \in InboundRow \cup {NoMessage}
    BY <2>1, <2>3
  <2> QED BY <1>1, <2>4, <2>5 DEF InboundTypeOK
<1>4. stored[1] = NoMessage
  BY <1>2
<1> QED BY <1>1, <1>2, <1>3, <1>4 DEF InboundSound

\* What is absorbed by memory and then written.
LEMMA AbsorbedTells ==
    ASSUME MaxWraps <= 2, InboundSound, NEW row \in InboundRow, Telling(row), Absorbed(row),
           UNCHANGED <<wire, taken, consumed, clouds>>
    PROVE  InboundSound'
<1>1. visible' = MergeOnPush(visible, row) /\ Store(1, visible')
  BY DEF Absorbed
<1>2. visible \in InboundRow \cup {NoMessage} /\ stored[1] \in InboundRow \cup {NoMessage}
  BY DEF InboundSound, InboundTypeOK
<1>3. visible' \in InboundRow
  BY <1>1, <1>2, WrittenTyped
<1>4. PICK new : new = visible'
  OBVIOUS
<1>5. /\ stored' \in [1..2 -> InboundRow \cup {NoMessage}]
      /\ stored'[1] = MergeRow(stored[1], new)
  <2>1. Store(1, new) /\ new \in InboundRow /\ 1 \in 1..2
    BY <1>1, <1>3, <1>4
  <2> QED BY <2>1, StoringOne DEF InboundSound
<1>6. ASSUME clouds = {} PROVE Telling(new) /\ Telling(stored'[1])
  <2>1. /\ visible # NoMessage => Telling(visible)
        /\ stored[1] # NoMessage => Telling(stored[1])
    BY <1>6 DEF InboundSound
  <2>2. Telling(new)
    BY <1>1, <1>2, <1>4, <2>1, PushWritten
  <2> QED BY <1>2, <1>3, <1>4, <1>5, <2>1, <2>2, PushWritten
<1> QED BY <1>3, <1>4, <1>5, <1>6 DEF InboundSound, InboundTypeOK, Telling, HasMeta

LEMMA PushSound ==
    ASSUME MaxWraps <= 2, InboundSound, Push
    PROVE  InboundSound'
<1>1. PICK p \in PushPayloads : Absorbed(FromPush(p))
  BY DEF Push
<1>2. UNCHANGED <<wire, taken, consumed, clouds>>
  BY DEF Push
<1>3. PICK row : row = FromPush(p)
  OBVIOUS
<1>4. row \in InboundRow /\ Telling(row) /\ Absorbed(row)
  BY <1>1, <1>3, AdaptersTell
<1> QED BY <1>2, <1>4, AbsorbedTells

LEMMA StatusSound ==
    ASSUME MaxWraps <= 2, InboundSound, StatusPush
    PROVE  InboundSound'
<1>1. PICK p \in {NoPayload, Payload("json", FALSE, "none")} :
        /\ Absorbed([kind |-> "status", text |-> Plain(0), body |-> FALSE, payload |-> p,
                     exact |-> FALSE, pts |-> TRUE, revoked |-> taken])
        /\ clouds' = clouds \cup (IF visible = NoMessage THEN {"blank"} ELSE {})
                            \cup (IF p # NoPayload THEN {"status"} ELSE {})
  BY DEF StatusPush
<1>2. UNCHANGED <<wire, taken, consumed>>
  BY DEF StatusPush
<1>3. PICK row : row = [kind |-> "status", text |-> Plain(0), body |-> FALSE, payload |-> p,
                        exact |-> FALSE, pts |-> TRUE, revoked |-> taken]
  OBVIOUS
<1>4. p \in Carried
  <2>1. CASE p = NoPayload
    BY <2>1 DEF Carried, NoPayload, Payload, Replies
  <2>2. CASE p = Payload("json", FALSE, "none")
    BY <2>2 DEF Carried, Payload, Replies
  <2> QED BY <2>1, <2>2
<1>5. row \in InboundRow
  <2>1. taken \in BOOLEAN /\ Plain(0) \in Bodies
    BY TextParts DEF InboundSound, InboundTypeOK
  <2> QED BY <1>3, <1>4, <2>1, RowParts
<1>6. visible' = MergeOnPush(visible, row) /\ Store(1, visible')
  BY <1>1, <1>3 DEF Absorbed
<1>7. visible \in InboundRow \cup {NoMessage} /\ stored[1] \in InboundRow \cup {NoMessage}
  BY DEF InboundSound, InboundTypeOK
<1>8. visible' \in InboundRow
  BY <1>5, <1>6, <1>7, WrittenTyped
<1>9. PICK new : new = visible'
  OBVIOUS
<1>10. /\ stored' \in [1..2 -> InboundRow \cup {NoMessage}]
       /\ stored'[1] = MergeRow(stored[1], new)
  <2>1. Store(1, new) /\ new \in InboundRow /\ 1 \in 1..2
    BY <1>6, <1>8, <1>9
  <2> QED BY <2>1, StoringOne DEF InboundSound
<1>11. ASSUME clouds' = {} PROVE Telling(new) /\ Telling(stored'[1])
  <2>1. clouds = {} /\ visible # NoMessage /\ p = NoPayload
    BY <1>1, <1>11
  <2>2. /\ Telling(visible) /\ visible \in InboundRow
        /\ stored[1] # NoMessage => Telling(stored[1])
    BY <2>1, <1>7 DEF InboundSound
  <2>3. new.kind = visible.kind /\ new.text = visible.text /\ new.payload = visible.payload
        /\ new.body = visible.body
    <3>1. /\ ~row.body /\ row.payload.form = "none"
      BY <1>3, <2>1 DEF NoPayload, Payload
    <3>2. visible.body \in BOOLEAN
      BY <2>2 DEF InboundRow
    <3>3. /\ new.kind = (IF row.body THEN row.kind ELSE visible.kind)
          /\ new.text = (IF row.body THEN row.text ELSE visible.text)
          /\ new.body = (visible.body \/ row.body)
          /\ new.payload = (IF row.payload.form # "none" THEN row.payload ELSE visible.payload)
      BY <1>6, <1>9, <2>1, <2>2 DEF MergeOnPush, InboundRow
    <3> QED BY <3>1, <3>2, <3>3
  <2>4. Telling(new)
    BY <2>2, <2>3 DEF Telling
  <2> QED BY <1>7, <1>8, <1>9, <1>10, <2>2, <2>4, PushWritten
<1>12. clouds' \subseteq {"blank", "status"}
  BY <1>1 DEF InboundSound, InboundTypeOK
<1>13. InboundTypeOK'
  BY <1>2, <1>8, <1>10, <1>12 DEF InboundSound, InboundTypeOK
<1>14. \A row2 \in {visible', stored'[1]} : clouds' = {} => Telling(row2)
  BY <1>9, <1>11
<1> QED BY <1>2, <1>13, <1>14 DEF InboundSound, Telling, HasMeta

\* The rest of the ways in.
LEMMA InboundKeepsSound ==
    ASSUME MaxWraps <= 2, InboundSound, InboundNext \/ UNCHANGED inboundVars
    PROVE  InboundSound'
<1>1. /\ visible \in InboundRow \cup {NoMessage} /\ stored[1] \in InboundRow \cup {NoMessage}
      /\ stored \in [1..2 -> InboundRow \cup {NoMessage}]
      /\ clouds = {} => /\ visible # NoMessage => Telling(visible)
                        /\ stored[1] # NoMessage => Telling(stored[1])
  BY DEF InboundSound, InboundTypeOK
<1>2. ASSUME History PROVE InboundSound'
  <2>1. PICK anchor \in HistoryAnchors, withPts \in BOOLEAN :
            Store(1, FromHistory(anchor, withPts)) /\ visible' = FromHistory(anchor, withPts)
    BY <1>2 DEF History
  <2>2. UNCHANGED <<wire, taken, consumed, clouds>>
    BY <1>2 DEF History
  <2>3. PICK row : row = FromHistory(anchor, withPts)
    OBVIOUS
  <2>4. row \in InboundRow /\ Telling(row) /\ Store(1, row) /\ visible' = row
    BY <2>1, <2>3, AdaptersTell
  <2>5. /\ stored' \in [1..2 -> InboundRow \cup {NoMessage}]
        /\ stored'[1] = MergeRow(stored[1], row)
    <3>1. 1 \in 1..2
      OBVIOUS
    <3> QED BY <2>4, <3>1, StoringOne DEF InboundSound
  <2>6. clouds = {} => Telling(stored'[1])
    BY <1>1, <2>4, <2>5, PushWritten
  <2> QED BY <2>2, <2>4, <2>5, <2>6 DEF InboundSound, InboundTypeOK, Telling, HasMeta
<1>3. ASSUME SyncMessage PROVE InboundSound'
  <2>1. PICK row \in ResolveCommit :
            IF SameCommit(stored[1], row) THEN UNCHANGED stored ELSE Store(1, row)
    BY <1>3 DEF SyncMessage
  <2>2. /\ visible' = stored'[1] /\ UNCHANGED <<wire, taken, clouds>>
        /\ consumed' = (IF consumed = 0 THEN 1 ELSE consumed)
    BY <1>3 DEF SyncMessage
  <2>3. row \in InboundRow /\ Telling(row)
    BY AdaptersTell
  <2>4. /\ stored' \in [1..2 -> InboundRow \cup {NoMessage}]
        /\ stored'[1] \in InboundRow \cup {NoMessage}
        /\ clouds = {} /\ stored'[1] # NoMessage => Telling(stored'[1])
    <3>1. CASE SameCommit(stored[1], row)
      BY <3>1, <2>1, <1>1
    <3>2. CASE ~SameCommit(stored[1], row)
      <4>1. Store(1, row) /\ 1 \in 1..2
        BY <3>2, <2>1
      <4>2. /\ stored' \in [1..2 -> InboundRow \cup {NoMessage}]
            /\ stored'[1] = MergeRow(stored[1], row) /\ stored'[1] \in InboundRow
        BY <4>1, <2>3, StoringOne DEF InboundSound
      <4> QED BY <4>2, <1>1, <2>3, PushWritten
    <3> QED BY <3>1, <3>2
  <2>5. consumed' \in 0..2
    BY <2>2 DEF InboundSound, InboundTypeOK
  <2> QED BY <2>2, <2>4, <2>5 DEF InboundSound, InboundTypeOK, Telling, HasMeta
<1>4. ASSUME SyncRevoke PROVE InboundSound'
  <2>1. Store(2, RevokeCommit) /\ consumed' = 2 /\ UNCHANGED <<wire, taken, visible, clouds>>
    BY <1>4 DEF SyncRevoke
  <2>2. RevokeCommit \in InboundRow
    <3>1. Plain(0) \in Bodies /\ NoPayload \in Carried
      BY TextParts DEF NoPayload, Payload, Carried, Replies
    <3> QED BY <3>1, RowParts DEF RevokeCommit
  <2>3. PICK row : row = RevokeCommit
    OBVIOUS
  <2>4. /\ stored' \in [1..2 -> InboundRow \cup {NoMessage}]
        /\ stored'[1] = stored[1]
    <3>1. 2 \in 1..2 /\ 1 \in 1..2 /\ 1 # 2 /\ Store(2, row) /\ row \in InboundRow
      BY <2>1, <2>2, <2>3
    <3> QED BY <3>1, StoringOne DEF InboundSound
  <2> QED BY <2>1, <2>4 DEF InboundSound, InboundTypeOK, Telling, HasMeta
<1>5. ASSUME ServerRevokes PROVE InboundSound'
  BY <1>5 DEF ServerRevokes, InboundSound, InboundTypeOK, Telling, HasMeta
<1>6. ASSUME Reopen PROVE InboundSound'
  BY <1>6, <1>1 DEF Reopen, InboundSound, InboundTypeOK, Telling, HasMeta
<1>7. ASSUME UNCHANGED inboundVars PROVE InboundSound'
  BY <1>7 DEF inboundVars, InboundSound, InboundTypeOK, Telling, HasMeta
<1> QED BY <1>2, <1>3, <1>4, <1>5, <1>6, <1>7, PushSound, StatusSound DEF InboundNext

LEMMA SoundInbound ==
    ASSUME MaxWraps <= 2, InboundSound
    PROVE  OneStory /\ InboundTypeOK
<1> SUFFICES ASSUME clouds = {}, NEW row \in {visible, stored[1]} \ {NoMessage}
             PROVE  Project(row) = Told
  BY DEF InboundSound, OneStory
<1>1. Telling(row) /\ row \in InboundRow
  BY DEF InboundSound, InboundTypeOK
<1>2. Unwrapped(row.text) = Plain(0)
  BY <1>1, RowParts, TextParts
<1>3. /\ row.kind = wire.kind /\ row.body = wire.captioned
      /\ row.payload.form \in {"json", "fb"} /\ row.payload.meta <=> HasMeta
      /\ Anchored(row.payload.reply) \/ Anchored(row.text.reply) <=> Anchored(wire.reply)
  BY <1>1 DEF Telling
<1>4. wire.captioned \in BOOLEAN /\ row.payload.meta \in BOOLEAN
  BY <1>1 DEF InboundSound, InboundTypeOK, WireMessage, InboundRow
<1>5. (row.body /\ Unwrapped(row.text) = Plain(0)) = wire.captioned
  BY <1>2, <1>3, <1>4
<1>6. (row.payload.form \in {"json", "fb"} /\ row.payload.meta) = HasMeta
  BY <1>3, <1>4 DEF HasMeta
<1>7. (Anchored(row.payload.reply) \/ Anchored(row.text.reply)) = Anchored(wire.reply)
  BY <1>3 DEF Anchored
<1> QED BY <1>3, <1>5, <1>6, <1>7 DEF Project, Told

=============================================================================
