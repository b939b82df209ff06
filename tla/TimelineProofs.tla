--------------------------- MODULE TimelineProofs ---------------------------
(***************************************************************************)
(* What the rows of a conversation keep in memory and in the database, for *)
(* any number of messages, sends, ids and transactions.  Typed holds       *)
(* whatever is lost: the types, and the stored keys under one mode.  Whole *)
(* holds as long as nothing is: each row under way is one the server would *)
(* not deny, an id means one message wherever it stands, the two stores    *)
(* keep messages apart, every waiting transaction still finds what it was  *)
(* issued for, and what memory knows the database has or is being told.    *)
(* TimelineSound, the two of them, is inductive, and a step that keeps it  *)
(* forgets nothing.  ConversationSound is about the buffer of              *)
(* ConversationFeed: its rows stay distinct, and whoever applied every     *)
(* patch has them.  It rests on lemmas about folds over lists.             *)
(* PartsProofs draws the theorems.                                         *)
(***************************************************************************)
EXTENDS Timeline, ConversationFeed, FiniteSetTheorems, WellFoundedInduction, TLAPS

Ops      == {"create", "ack", "row", "mode", "window", "history", "reread", "page", "publish"}
Fetching == {"mode", "window", "history", "reread"}
Readers  == {"window", "history", "reread", "page", "publish"}

\* A job that is about the one row r.
Carries(x, r) == r \in x.rows /\ \A q \in x.rows : q = r

\* Rows of the database as memory would see them: without the column of the key.
Bared(rows) == {Strip(d) : d \in rows}
Bare        == Bared(disk)

\* Transactions that wait, and the rows under way somewhere.
Planned(q) == {q[j] : j \in DOMAIN q}
Copies     == Bare \cup buffer \cup fetch.rows \cup UNION {x.rows : x \in Planned(jobs)}

-----------------------------------------------------------------------------
(* What holds whatever is lost.                                            *)

Loose(rows)    == rows \subseteq MessageRecord /\ \A r \in rows : r.by = "none"
Numbered(rows) == \A a, b \in rows : a.smid = b.smid => a = b
Keyed(rows, mode) == rows \subseteq MessageRecord /\ \A d \in rows : d.by = mode

LogTyped ==
    /\ log \in Seq([lmid : 0..MaxSends, revoked : BOOLEAN]) /\ Len(log) <= MaxLog
    /\ command \in [1..MaxSends -> 0..MaxIds] /\ sends \in 0..MaxSends /\ inline \subseteq 1..sends

DiskTyped ==
    /\ diskMode \in Modes /\ Keyed(disk, diskMode)
    /\ (\E d \in disk : HasPtsGap(d)) => diskMode = "server_id"

BufferTyped == bufferMode \in Modes /\ Loose(buffer)

JobTyped(x) ==
    /\ Loose(x.rows)
    /\ x.op \in {"create", "ack", "row", "page"} => \E r \in x.rows : Carries(x, r)
    /\ x.op = "create" => \A r \in x.rows : r.smid = 0
    /\ x.op \in {"create", "ack"} => \A r \in x.rows : r.lmid # 0
    /\ x.op = "history" => Numbered(x.rows)

JobsTyped ==
    /\ jobs \in Seq([op : Ops, rows : SUBSET MessageRecord]) /\ Len(jobs) <= MaxJobs
    /\ \A x \in Planned(jobs) : JobTyped(x)

FetchTyped ==
    /\ fetch \in [at : Fetches, kind : {"open", "page"}, rows : SUBSET MessageRecord]
    /\ Loose(fetch.rows) /\ Numbered(fetch.rows)

LossesTyped == losses \subseteq {"late", "overtaken", "lost", "split", "blank"}

Typed == LogTyped /\ DiskTyped /\ BufferTyped /\ JobsTyped /\ FetchTyped /\ LossesTyped

-----------------------------------------------------------------------------
(* What holds while nothing is lost.                                       *)

\* The send a row is of, 0 for none; rows of one message.
Send(r)   == IF r.smid = 0 THEN r.lmid ELSE log[r.smid].lmid
Kin(a, b) == Send(a) = Send(b) /\ (Send(a) = 0 => a.smid = b.smid)

\* Whichever source built the row, the server would not deny it.
Real(r) ==
    /\ r.smid = 0 => /\ r.lmid \in 1..sends /\ r.pts = 0 /\ r.status = "pending"
                     /\ r.body /\ r.exact /\ ~r.revoked
    /\ r.smid # 0 => /\ r.smid \in DOMAIN log /\ r.pts \in {0, r.smid}
                     /\ r.lmid \in {0, log[r.smid].lmid}
                     /\ r.status = IF Mine(r.smid) THEN "sent" ELSE "received"
                     /\ r.revoked => log[r.smid].revoked

Knows(b, a) == (a.body => b.body) /\ (a.revoked => b.revoked) /\ (a.exact => b.exact)

LogSound ==
    /\ \A m, n \in DOMAIN log : log[m].lmid = log[n].lmid /\ log[m].lmid # 0 => m = n
    /\ \A m \in DOMAIN log : log[m].lmid <= sends
    /\ \A m \in DOMAIN log : log[m].lmid # 0 /\ command[log[m].lmid] # 0 => ~log[m].revoked

RowsTold == \A r \in Copies : Real(r)
IdsKin   == \A a, b \in Copies : a.id = b.id => Kin(a, b)
IdsCommand ==
    \A a \in Copies, l \in 1..MaxSends :
        command[l] = a.id => Send(a) = l /\ a.body /\ a.exact

Unlike(rows) == \A a, b \in rows : Same(a, b) => a = b

\* x may wait before y.
After(x, y) ==
    /\ y.op = "row" => x.op \notin Readers
    /\ y.op \in {"reread", "publish"} => x.op # "row"
    /\ ~(x.op \in Fetching /\ y.op \in Fetching)
    /\ ~(x.op \in {"page", "publish"} /\ y.op \in {"page", "publish"})
    /\ ~(x.op = "ack" /\ y.op = "ack")
    /\ x.op = "create" /\ y.op = "create" => \A r \in x.rows, q \in y.rows : r.lmid # q.lmid

InOrder(q) == \A i, j \in DOMAIN q : i < j => After(q[i], q[j])

FetchPlace ==
    /\ \A x \in Planned(jobs) :
        /\ x.op = "mode" => fetch.at = "opening"
        /\ x.op = "window" => fetch.at = "window"
        /\ x.op \in {"history", "reread"} => fetch.at = "storing"
    /\ fetch.rows # {} => fetch.at = "answered"

CommandsStored ==
    /\ \A l \in 1..MaxSends : command[l] # 0 => l <= sends /\ \E r \in Bare : r.id = command[l]
    /\ \A l, k \in 1..MaxSends : command[l] # 0 /\ command[l] = command[k] => l = k
    /\ \A r \in Bare : r.smid = 0 => command[r.lmid] = r.id

UpToDate(r) == \A a \in buffer : a.smid = r.smid /\ a.revoked => r.revoked
OnDisk(r)   == \E d \in Bare : d.smid = r.smid /\ Knows(d, r)
Uncommanded(r) == \A l \in 1..MaxSends : command[l] # r.id

Obtains(h) == h.smid # 0 /\ h.lmid = 0 /\ h.body /\ h.exact /\ UpToDate(h)

CreateHolds(r) ==
    /\ command[r.lmid] = 0 /\ \A m \in DOMAIN log : log[m].lmid # r.lmid
    /\ \A d \in Bare : Send(d) # r.lmid
AckHolds(r) ==
    /\ r.smid # 0 /\ r.lmid # 0 /\ r.pts = r.smid /\ r.body /\ r.exact /\ command[r.lmid] # 0
PushHolds(r) ==
    /\ r.smid # 0 /\ r.lmid = log[r.smid].lmid /\ r.pts = r.smid
    /\ \A a \in buffer : a.smid = r.smid => a.pts # 0
PageHolds(r) ==
    /\ r.smid # 0 /\ r.lmid = log[r.smid].lmid /\ r.pts = r.smid
    /\ r.body /\ r.exact /\ ~r.revoked /\ Uncommanded(r)
PublishHolds(p) ==
    /\ p.smid # 0 /\ p.pts = p.smid /\ p.body /\ p.exact /\ UpToDate(p) /\ OnDisk(p)
    /\ (\E d \in Bare : d.smid = p.smid /\ d.revoked) => p.revoked \/ Queued({"reread"})

JobHolds(x) ==
    /\ x.op = "create"  => \A r \in x.rows : CreateHolds(r)
    /\ x.op = "ack"     => \A r \in x.rows : AckHolds(r)
    /\ x.op = "row"     => \A r \in x.rows : PushHolds(r)
    /\ x.op = "page"    => \A r \in x.rows : PageHolds(r)
    /\ x.op = "history" => \A h \in x.rows : Obtains(h) /\ Uncommanded(h)
    /\ x.op = "reread"  => Numbered(x.rows) /\ \A h \in x.rows : Obtains(h) /\ OnDisk(h)
    /\ x.op = "publish" => (\A p, q \in x.rows : p = q) /\ \A p \in x.rows : PublishHolds(p)

JobsHold   == \A x \in Planned(jobs) : JobHolds(x)
FetchHolds == \A h \in fetch.rows : Obtains(h) /\ Uncommanded(h)

\* A push is under way that tells the database what memory knows.
PushedFor(a) == \E x \in Planned(jobs) : x.op = "row" /\ \E r \in x.rows : r.smid = a.smid /\ Knows(r, a)
Held == \A a \in buffer : a.smid # 0 => OnDisk(a) \/ PushedFor(a)

DiskGap(m) == \E d \in Bare : d.smid = m /\ d.pts = 0
\* Rows are under way to memory that fill the gap.
Fix(m) == \E x \in Planned(jobs) : /\ x.op \in {"publish", "reread"}
                                   /\ \E r \in x.rows : r.smid = m /\ r.pts # 0
Gaps ==
    /\ \A a \in buffer : HasPtsGap(a) => (DiskGap(a.smid) /\ bufferMode # "pts") \/ Fix(a.smid)
    /\ \A x \in Planned(jobs) : x.op = "reread" =>
          \A a \in x.rows : HasPtsGap(a) => DiskGap(a.smid) \/ Fix(a.smid)

Whole ==
    /\ LogSound /\ RowsTold /\ IdsKin /\ IdsCommand /\ Unlike(Bare) /\ Unlike(buffer)
    /\ InOrder(jobs) /\ FetchPlace /\ CommandsStored /\ JobsHold /\ FetchHolds /\ Held /\ Gaps

TimelineSound == Typed /\ (losses = {} => Whole)

-----------------------------------------------------------------------------
(* Rows, and the columns a write leaves alone.                             *)

\* What a row says, field by field.
LEMMA RowTyped ==
    ASSUME NEW r \in MessageRecord
    PROVE  /\ r.id \in Ids /\ r.id \in Nat /\ r.id # 0
           /\ r.smid \in 0..MaxLog /\ r.smid \in Nat
           /\ r.lmid \in 0..MaxSends /\ r.lmid \in Nat
           /\ r.pts \in 0..MaxLog /\ r.pts \in Nat
           /\ r.body \in BOOLEAN /\ r.revoked \in BOOLEAN /\ r.exact \in BOOLEAN
           /\ r.status \in {"pending", "sent", "received"}
           /\ r.by \in Modes \cup {"none"}
  BY TimelineAssumption DEF MessageRecord, Ids

\* Strip changes only the column of the key.
LEMMA StripRow ==
    ASSUME NEW r \in MessageRecord
    PROVE  /\ Strip(r) \in MessageRecord
           /\ Strip(r).id = r.id /\ Strip(r).smid = r.smid /\ Strip(r).lmid = r.lmid
           /\ Strip(r).pts = r.pts /\ Strip(r).body = r.body /\ Strip(r).status = r.status
           /\ Strip(r).revoked = r.revoked /\ Strip(r).exact = r.exact
           /\ Strip(r).by = "none"
           /\ r.by = "none" => Strip(r) = r
<1>1. r = [id |-> r.id, smid |-> r.smid, lmid |-> r.lmid, pts |-> r.pts, body |-> r.body,
           status |-> r.status, revoked |-> r.revoked, exact |-> r.exact, by |-> r.by]
  BY DEF MessageRecord
<1> QED BY <1>1 DEF Strip, MessageRecord

\* So does Stamp.
LEMMA StampRow ==
    ASSUME NEW r \in MessageRecord, NEW mode \in Modes
    PROVE  /\ Stamp(r, mode) \in MessageRecord
           /\ Stamp(r, mode).by = mode
           /\ Strip(Stamp(r, mode)) = Strip(r)
           /\ Stamp(Strip(r), mode) = Stamp(r, mode)
           /\ r.by = mode => Stamp(r, mode) = r
<1>1. r = [id |-> r.id, smid |-> r.smid, lmid |-> r.lmid, pts |-> r.pts, body |-> r.body,
           status |-> r.status, revoked |-> r.revoked, exact |-> r.exact, by |-> r.by]
  BY DEF MessageRecord
<1> QED BY <1>1 DEF Strip, Stamp, MessageRecord

\* What a row says after a write is merged over it.
LEMMA MergedRow ==
    ASSUME NEW e \in MessageRecord, NEW r \in MessageRecord
    PROVE  /\ Merged(e, r) \in MessageRecord
           /\ Merged(e, r).id = e.id /\ Merged(e, r).smid = r.smid /\ Merged(e, r).lmid = r.lmid
           /\ Merged(e, r).pts = r.pts /\ Merged(e, r).by = r.by
           /\ Merged(e, r).body = (r.body \/ e.body)
           /\ Merged(e, r).status = (IF e.status = "sent" /\ ~r.body THEN "sent" ELSE r.status)
           /\ Merged(e, r).revoked = (r.revoked \/ e.revoked)
           /\ Merged(e, r).exact = (r.exact \/ e.exact)
<1> DEFINE m == [r EXCEPT !.id = e.id, !.body = r.body \/ e.body,
                          !.status = IF e.status = "sent" /\ ~r.body THEN "sent" ELSE r.status,
                          !.revoked = r.revoked \/ e.revoked, !.exact = r.exact \/ e.exact]
<1>1. Merged(e, r) = m
  BY DEF Merged
<1>2. /\ m.id = e.id /\ m.smid = r.smid /\ m.lmid = r.lmid /\ m.pts = r.pts /\ m.by = r.by
      /\ m.body = (r.body \/ e.body) /\ m.revoked = (r.revoked \/ e.revoked)
      /\ m.exact = (r.exact \/ e.exact)
      /\ m.status = IF e.status = "sent" /\ ~r.body THEN "sent" ELSE r.status
  BY DEF MessageRecord
<1>3. m \in MessageRecord
  <2>1. r = [id |-> r.id, smid |-> r.smid, lmid |-> r.lmid, pts |-> r.pts, body |-> r.body,
             status |-> r.status, revoked |-> r.revoked, exact |-> r.exact, by |-> r.by]
    BY DEF MessageRecord
  <2>2. PICK body, status, revoked, exact :
            /\ body = (r.body \/ e.body) /\ revoked = (r.revoked \/ e.revoked)
            /\ exact = (r.exact \/ e.exact)
            /\ status = IF e.status = "sent" /\ ~r.body THEN "sent" ELSE r.status
    OBVIOUS
  <2>3. m = [id |-> e.id, smid |-> r.smid, lmid |-> r.lmid, pts |-> r.pts, body |-> body,
             status |-> status, revoked |-> revoked, exact |-> exact, by |-> r.by]
    <3>1. m = [r EXCEPT !.id = e.id, !.body = body, !.status = status, !.revoked = revoked,
                        !.exact = exact]
      BY <2>2
    <3> HIDE DEF m
    <3> QED BY <2>1, <3>1, Zenon
  <2>4. body \in BOOLEAN /\ revoked \in BOOLEAN /\ exact \in BOOLEAN
    BY <2>2
  <2>5. status \in {"pending", "sent", "received"}
    BY <2>2 DEF MessageRecord
  <2> HIDE DEF m
  <2> QED BY <2>3, <2>4, <2>5 DEF MessageRecord
<1> HIDE DEF m
<1> QED BY <1>1, <1>2, <1>3

-----------------------------------------------------------------------------
(* The rows of the database, as memory would see them.                     *)

\* A bared table holds plain rows, one for each row.
LEMMA BaredRows ==
    ASSUME NEW rows, rows \subseteq MessageRecord
    PROVE  /\ Loose(Bared(rows))
           /\ \A d \in rows : Strip(d) \in Bared(rows)
           /\ \A b \in Bared(rows) : \E d \in rows : b = Strip(d)
  BY StripRow DEF Loose, Bared

\* Rows keyed under one mode are told apart by what memory sees of them.
LEMMA KeyedRows ==
    ASSUME NEW mode \in Modes, NEW rows, Keyed(rows, mode)
    PROVE  /\ \A d, e \in rows : Strip(d) = Strip(e) => d = e
           /\ Unlike(Bared(rows)) => Legal(rows)
           /\ Unlike(Bared(rows)) => Unlike(rows)
<1>1. ASSUME NEW d \in rows, NEW e \in rows, Strip(d) = Strip(e)
      PROVE  d = e
  <2>1. d \in MessageRecord /\ e \in MessageRecord /\ d.by = mode /\ e.by = mode
    BY DEF Keyed
  <2>2. Stamp(Strip(d), mode) = d /\ Stamp(Strip(e), mode) = e
    BY <2>1, StampRow
  <2> QED BY <1>1, <2>2
<1>2. ASSUME Unlike(Bared(rows)), NEW d \in rows, NEW e \in rows, Same(d, e)
      PROVE  d = e
  <2>1. d \in MessageRecord /\ e \in MessageRecord
    BY DEF Keyed
  <2>2. Strip(d) \in Bared(rows) /\ Strip(e) \in Bared(rows)
    BY DEF Bared
  <2>3. Same(Strip(d), Strip(e))
    BY <1>2, <2>1, StripRow DEF Same
  <2>4. Strip(d) = Strip(e)
    BY <1>2, <2>2, <2>3 DEF Unlike
  <2> QED BY <2>4, <1>1
<1>3. Unlike(Bared(rows)) => Unlike(rows)
  BY <1>2 DEF Unlike
<1>4. Unlike(Bared(rows)) => Legal(rows)
  BY <1>2 DEF Legal, Same
<1> QED BY <1>1, <1>3, <1>4

\* One row of a table written over: where the row goes, and what becomes of the
\* row it goes on.
LEMMA UpsertedRow ==
    ASSUME NEW rows, Keyed(rows, diskMode), diskMode \in Modes,
           NEW r \in MessageRecord, r.by = "none"
    PROVE  /\ Keyed(UpsertRow(rows, r), diskMode)
           /\ \/ /\ \A b \in Bared(rows) : b.id # r.id /\ ~Same(b, r)
                 /\ Bared(UpsertRow(rows, r)) = Bared(rows) \cup {r}
              \/ \E b \in Bared(rows) :
                    /\ b.id = r.id \/ Same(b, r)
                    /\ Bared(UpsertRow(rows, r)) = (Bared(rows) \ {b}) \cup {Merged(b, r)}
<1> DEFINE found == Existing(rows, r)
           e == CHOOSE e \in found : TRUE
<1>1. rows \subseteq MessageRecord /\ \A d \in rows : d.by = diskMode
  BY DEF Keyed
<1>2. Stamp(r, diskMode) \in MessageRecord /\ Stamp(r, diskMode).by = diskMode
      /\ Strip(Stamp(r, diskMode)) = r
  BY StampRow, StripRow
<1>3. CASE found = {}
  <2>1. UpsertRow(rows, r) = rows \cup {Stamp(r, diskMode)}
    BY <1>3 DEF UpsertRow
  <2>2. Keyed(UpsertRow(rows, r), diskMode)
    BY <2>1, <1>1, <1>2 DEF Keyed
  <2>3. \A d \in rows : d.id # r.id /\ ~Same(d, r)
    BY <1>3 DEF Existing, Same
  <2>4. \A b \in Bared(rows) : b.id # r.id /\ ~Same(b, r)
    BY <2>3, <1>1, StripRow DEF Bared, Same
  <2>5. Bared(UpsertRow(rows, r)) = Bared(rows) \cup {r}
    BY <2>1, <1>2 DEF Bared
  <2> QED BY <2>2, <2>4, <2>5
<1>4. CASE found # {}
  <2>1. e \in found
    BY <1>4
  <2>2. found \subseteq rows /\ \A d \in found : d.id = r.id \/ Same(d, r)
    BY DEF Existing, Same
  <2>3. UpsertRow(rows, r) = (rows \ {e}) \cup {Stamp(Merged(e, r), diskMode)}
    BY <1>4 DEF UpsertRow
  <2> HIDE DEF found, e
  <2>4. e \in rows /\ e \in MessageRecord /\ (e.id = r.id \/ Same(e, r))
    BY <2>1, <2>2, <1>1
  <2>5. Merged(e, r) \in MessageRecord /\ Merged(e, r).by = "none"
    BY <2>4, MergedRow
  <2>6. /\ Stamp(Merged(e, r), diskMode) \in MessageRecord
        /\ Stamp(Merged(e, r), diskMode).by = diskMode
        /\ Strip(Stamp(Merged(e, r), diskMode)) = Merged(e, r)
    BY <2>5, StampRow, StripRow
  <2>7. Keyed(UpsertRow(rows, r), diskMode)
    BY <2>3, <2>6, <1>1 DEF Keyed
  <2>8. Strip(e) \in Bared(rows)
    BY <2>4 DEF Bared
  <2>9. Strip(e).id = r.id \/ Same(Strip(e), r)
    BY <2>4, StripRow DEF Same
  <2>10. Merged(Strip(e), r) = Merged(e, r)
    BY <2>4, StripRow DEF Merged
  <2>11. \A d \in rows : Strip(d) = Strip(e) => d = e
    BY <2>4, KeyedRows
  <2>12. Bared(UpsertRow(rows, r)) = (Bared(rows) \ {Strip(e)}) \cup {Merged(Strip(e), r)}
    <3>1. Bared(UpsertRow(rows, r)) = {Strip(d) : d \in rows \ {e}} \cup {Merged(e, r)}
      BY <2>3, <2>6 DEF Bared
    <3>2. {Strip(d) : d \in rows \ {e}} = Bared(rows) \ {Strip(e)}
      BY <2>11 DEF Bared
    <3> QED BY <3>1, <3>2, <2>10
  <2> QED BY <2>7, <2>8, <2>9, <2>12
<1> QED BY <1>3, <1>4

\* Writing the keys anew changes nothing memory would see.
LEMMA Reconciled ==
    ASSUME NEW rows, Keyed(rows, diskMode), diskMode \in Modes, ReconcileOrderMode(rows)
    PROVE  DiskTyped' /\ Bare' = Bared(rows)
<1> DEFINE want == NoteRows("pts", rows)
<1>1. want \in Modes /\ ((\E r \in rows : HasPtsGap(r)) => want = "server_id")
  BY DEF NoteRows, Modes
<1>2. diskMode' = want /\ disk' = IF want = diskMode THEN rows ELSE {Stamp(Strip(r), want) : r \in rows}
  BY DEF ReconcileOrderMode
<1> HIDE DEF want
<1>3. \A r \in rows : r \in MessageRecord /\ r.by = diskMode
  BY DEF Keyed
<1>4. CASE want = diskMode
  BY <1>1, <1>2, <1>4 DEF DiskTyped, Bare
<1>5. CASE want # diskMode
  <2>1. disk' = {Stamp(Strip(r), want) : r \in rows}
    BY <1>2, <1>5
  <2>2. \A r \in rows : /\ Stamp(Strip(r), want) \in MessageRecord
                        /\ Stamp(Strip(r), want).by = want
                        /\ Strip(Stamp(Strip(r), want)) = Strip(r)
    BY <1>1, <1>3, StripRow, StampRow
  <2>3. Keyed(disk', diskMode')
    BY <2>1, <2>2, <1>2 DEF Keyed
  <2>4. \A r \in rows : HasPtsGap(Stamp(Strip(r), want)) => HasPtsGap(r)
    BY <1>3, <2>2, StripRow DEF HasPtsGap
  <2>5. (\E d \in disk' : HasPtsGap(d)) => diskMode' = "server_id"
    BY <2>1, <2>4, <1>1, <1>2
  <2>6. Bared(disk') = Bared(rows)
    BY <2>1, <2>2 DEF Bared
  <2> QED BY <2>3, <2>5, <2>6, <1>1, <1>2 DEF DiskTyped, Bare
<1> QED BY <1>4, <1>5

\* An ack t is written as k: the row of its send, if any, goes and leaves its id.
Absorbs(local, t, l, k, gone) ==
    \/ gone = {} /\ k = t /\ (\A b \in Bare : b.lmid # l)
    \/ \E b \in Bare : /\ b.lmid = l /\ gone = {b} /\ local # {}
                       /\ k = [t EXCEPT !.id = b.id]
                       /\ \A d \in local : d.status = b.status
Replaced(t, k, gone) ==
    {b \in Bare : b \notin gone /\ b.smid # t.smid /\ b.id # k.id} \cup {k}

\* The row the ack is put on keeps its id; what else stood for the message or
\* for the row goes.
LEMMA AckedRow ==
    ASSUME DiskTyped, NEW t \in MessageRecord, t.by = "none", NEW l,
           NEW local \in Firsts(ByLmid(l)), ApplyAck(local, t)
    PROVE  /\ DiskTyped'
           /\ \E k \in MessageRecord, gone \in SUBSET Bare :
                 /\ k = Acked(local, t) /\ k.by = "none"
                 /\ Absorbs(local, t, l, k, gone) /\ Bare' = Replaced(t, k, gone)
<1> DEFINE kept == Acked(local, t)
           stay == {r \in disk : r \notin local /\ r.smid # t.smid /\ r.id # kept.id}
           rows == stay \cup {Stamp(kept, diskMode)}
<1>1. disk \subseteq MessageRecord /\ (\A d \in disk : d.by = diskMode) /\ diskMode \in Modes
  BY DEF DiskTyped, Keyed
<1>2. local \subseteq disk /\ \A d \in local : d \in MessageRecord /\ d.lmid = l
  <2>1. ByLmid(l) \subseteq disk /\ \A d \in ByLmid(l) : d.lmid = l
    BY DEF ByLmid
  <2>2. local \subseteq ByLmid(l)
    BY DEF Firsts
  <2> QED BY <2>1, <2>2, <1>1
<1>3. kept \in MessageRecord /\ kept.by = "none" /\ kept.smid = t.smid
  <2>1. CASE local = {}
    BY <2>1 DEF Acked
  <2>2. CASE local # {}
    <3>1. PICK d \in local : kept = [t EXCEPT !.id = d.id]
      BY <2>2 DEF Acked
    <3>2. d.id \in Ids
      BY <1>2, RowTyped
    <3> QED BY <3>1, <3>2 DEF MessageRecord
  <2> QED BY <2>1, <2>2
<1>4. ReconcileOrderMode(rows)
  BY DEF ApplyAck
<1> HIDE DEF kept
<1>5. /\ Stamp(kept, diskMode) \in MessageRecord /\ Stamp(kept, diskMode).by = diskMode
      /\ Strip(Stamp(kept, diskMode)) = kept
  BY <1>1, <1>3, StampRow, StripRow
<1>6. Keyed(rows, diskMode)
  BY <1>1, <1>5 DEF Keyed
<1>7. DiskTyped' /\ Bare' = Bared(rows)
  BY <1>1, <1>4, <1>6, Reconciled
<1>8. Bared(rows) = Bared(stay) \cup {kept}
  BY <1>5 DEF Bared
<1>9. \E gone \in SUBSET Bare :
         /\ \/ gone = {} /\ kept = t /\ (\A b \in Bare : b.lmid # l)
            \/ \E b \in Bare : /\ b.lmid = l /\ gone = {b} /\ local # {}
                               /\ kept = [t EXCEPT !.id = b.id]
                               /\ \A d \in local : d.status = b.status
         /\ Bared(stay) = {b \in Bare : b \notin gone /\ b.smid # t.smid /\ b.id # kept.id}
  <2>1. CASE local = {}
    <3>1. ByLmid(l) = {}
      BY <2>1 DEF Firsts
    <3>2. \A b \in Bare : b.lmid # l
      BY <3>1, <1>1, StripRow DEF ByLmid, Bare, Bared
    <3>3. kept = t
      BY <2>1 DEF Acked, kept
    <3>4. Bared(stay) = {b \in Bare : b \notin {} /\ b.smid # t.smid /\ b.id # kept.id}
      BY <2>1, <1>1, StripRow DEF Bare, Bared
    <3> QED BY ZenonT(60), <3>2, <3>3, <3>4
  <2>2. CASE local # {}
    <3>1. PICK d \in disk : local = {d}
      BY <2>2, <1>2 DEF Firsts
    <3>2. d \in MessageRecord /\ d.lmid = l
      BY <3>1, <1>2
    <3>3. kept = [t EXCEPT !.id = d.id]
      BY <3>1 DEF Acked, kept
    <3>4. Strip(d) \in Bare /\ Strip(d).lmid = l /\ Strip(d).id = d.id /\ Strip(d).status = d.status
      BY <3>2, StripRow DEF Bare, Bared
    <3>5. \A r \in disk : Strip(r) = Strip(d) => r = d
      BY <1>1, KeyedRows DEF DiskTyped
    <3>6. Bared(stay) = {b \in Bare : b \notin {Strip(d)} /\ b.smid # t.smid /\ b.id # kept.id}
      <4>1. \A r \in disk : Strip(r).smid = r.smid /\ Strip(r).id = r.id
        BY <1>1, StripRow
      <4>2. \A r \in disk : r \in stay <=> /\ Strip(r) # Strip(d) /\ Strip(r).smid # t.smid
                                           /\ Strip(r).id # kept.id
        BY <3>1, <3>5, <4>1
      <4> QED BY <4>2 DEF Bare, Bared
    <3> QED BY <3>1, <3>3, <3>4, <3>6
  <2> QED BY <2>1, <2>2
<1>10. Acked(local, t) = kept
  BY DEF kept
<1>11. \E gone \in SUBSET Bare : Absorbs(local, t, l, kept, gone) /\ Bare' = Replaced(t, kept, gone)
  BY <1>7, <1>8, <1>9 DEF Absorbs, Replaced
<1> QED BY <1>3, <1>7, <1>10, <1>11

-----------------------------------------------------------------------------
(* Transactions in the order issued.                                       *)

\* Issuing a job puts it behind the others.
LEMMA AppendedJob ==
    ASSUME NEW S, NEW q \in Seq(S), NEW x \in S
    PROVE  /\ Append(q, x) \in Seq(S)
           /\ Planned(Append(q, x)) = Planned(q) \cup {x}
           /\ InOrder(q) /\ (\A y \in Planned(q) : After(y, x)) => InOrder(Append(q, x))
<1>1. Append(q, x) \in Seq(S) /\ Len(Append(q, x)) = Len(q) + 1
      /\ Append(q, x)[Len(q) + 1] = x /\ \A j \in 1..Len(q) : Append(q, x)[j] = q[j]
  OBVIOUS
<1>2. Len(q) \in Nat /\ DOMAIN q = 1..Len(q) /\ DOMAIN Append(q, x) = 1..(Len(q) + 1)
  BY <1>1
<1>3. Planned(Append(q, x)) = Planned(q) \cup {x}
  <2>1. ASSUME NEW j \in 1..(Len(q) + 1) PROVE j \in 1..Len(q) \/ j = Len(q) + 1
    BY <1>2
  <2>2. \A j \in 1..Len(q) : j \in 1..(Len(q) + 1)
    BY <1>2
  <2>3. Len(q) + 1 \in 1..(Len(q) + 1)
    BY <1>2
  <2> QED BY <2>1, <2>2, <2>3, <1>1, <1>2 DEF Planned
<1>4. ASSUME InOrder(q), \A y \in Planned(q) : After(y, x)
      PROVE  InOrder(Append(q, x))
  <2> SUFFICES ASSUME NEW i \in 1..(Len(q) + 1), NEW j \in 1..(Len(q) + 1), i < j
               PROVE  After(Append(q, x)[i], Append(q, x)[j])
    BY <1>2 DEF InOrder
  <2>1. i \in 1..Len(q) /\ (j \in 1..Len(q) \/ j = Len(q) + 1)
    BY <1>2
  <2>2. Append(q, x)[i] = q[i] /\ q[i] \in Planned(q)
    BY <2>1, <1>1, <1>2 DEF Planned
  <2>3. CASE j \in 1..Len(q)
    <3>1. Append(q, x)[j] = q[j]
      BY <2>3, <1>1
    <3>2. After(q[i], q[j])
      BY <1>4, <2>1, <2>3, <1>2 DEF InOrder
    <3> QED BY <2>2, <3>1, <3>2
  <2>4. CASE j = Len(q) + 1
    <3>1. After(q[i], x)
      BY <1>4, <2>2
    <3> QED BY <2>2, <2>4, <3>1, <1>1
  <2> QED BY <2>1, <2>3, <2>4
<1> QED BY <1>1, <1>3, <1>4

\* Ending a job takes the first off.
LEMMA FinishedJob ==
    ASSUME NEW S, NEW q \in Seq(S), q # <<>>
    PROVE  /\ Tail(q) \in Seq(S) /\ Len(Tail(q)) = Len(q) - 1 /\ Len(q) \in Nat /\ Len(q) > 0
           /\ Head(q) \in Planned(q) /\ Head(q) \in S
           /\ Planned(Tail(q)) \subseteq Planned(q)
           /\ Planned(q) \subseteq Planned(Tail(q)) \cup {Head(q)}
           /\ InOrder(q) => InOrder(Tail(q)) /\ \A y \in Planned(Tail(q)) : After(Head(q), y)
<1>1. Tail(q) \in Seq(S) /\ Len(Tail(q)) = Len(q) - 1 /\ Len(q) \in Nat /\ Len(q) > 0
  OBVIOUS
<1>2. \A j \in 1..(Len(q) - 1) : Tail(q)[j] = q[j + 1]
  OBVIOUS
<1>3. DOMAIN q = 1..Len(q) /\ DOMAIN Tail(q) = 1..(Len(q) - 1)
  BY <1>1
<1>4. Head(q) = q[1] /\ 1 \in 1..Len(q)
  BY <1>1
<1>5. Head(q) \in Planned(q) /\ Head(q) \in S
  BY <1>3, <1>4 DEF Planned
<1>6. \A j \in 1..(Len(q) - 1) : j + 1 \in 1..Len(q) /\ 1 < j + 1
  BY <1>1
<1>7. Planned(Tail(q)) \subseteq Planned(q)
  BY <1>2, <1>3, <1>6 DEF Planned
<1>8. \A j \in 1..Len(q) : j = 1 \/ (j - 1 \in 1..(Len(q) - 1) /\ j = (j - 1) + 1)
  BY <1>1
<1>9. Planned(q) \subseteq Planned(Tail(q)) \cup {Head(q)}
  <2> SUFFICES ASSUME NEW j \in 1..Len(q), j # 1
               PROVE  q[j] \in Planned(Tail(q))
    BY <1>3, <1>4 DEF Planned
  <2>1. j - 1 \in 1..(Len(q) - 1) /\ (j - 1) + 1 = j
    BY <1>8
  <2>2. Tail(q)[j - 1] = q[j]
    BY <2>1, <1>2
  <2> QED BY <2>1, <2>2, <1>3 DEF Planned
<1>10. ASSUME InOrder(q) PROVE InOrder(Tail(q))
  <2> SUFFICES ASSUME NEW i \in 1..(Len(q) - 1), NEW j \in 1..(Len(q) - 1), i < j
               PROVE  After(q[i + 1], q[j + 1])
    BY <1>2, <1>3 DEF InOrder
  <2>1. i + 1 < j + 1
    BY <1>1
  <2> QED BY <2>1, <1>3, <1>6, <1>10 DEF InOrder
<1>11. ASSUME InOrder(q), NEW y \in Planned(Tail(q)) PROVE After(Head(q), y)
  <2>1. PICK j \in 1..(Len(q) - 1) : y = q[j + 1]
    BY <1>2, <1>3 DEF Planned
  <2> QED BY <2>1, <1>3, <1>4, <1>6, <1>11 DEF InOrder
<1> QED BY <1>1, <1>5, <1>7, <1>9, <1>10, <1>11

-----------------------------------------------------------------------------
(* Ids.                                                                    *)

\* A set of numbers that is not empty has a least one.
LEMMA LeastNumber ==
    ASSUME NEW T, T \subseteq Nat, T # {}
    PROVE  \E i \in T : \A m \in T : i <= m
<1>1. \E i \in T : \A m \in T : ~ (<<m, i>> \in OpToRel(<, Nat))
  BY WFMin, NatLessThanWellFounded
<1>2. PICK i \in T : \A m \in T : ~ (m < i)
  BY <1>1 DEF OpToRel
<1>3. \A m \in T : i <= m
  BY <1>2
<1> QED BY <1>3

\* Ids are minted of free ones, and no two alike.
LEMMA MintedIds ==
    ASSUME NEW k \in 1..Cardinality(Free)
    PROVE  Mint(k) \in Free /\ \A j \in 1..Cardinality(Free) : Mint(j) = Mint(k) => j = k
<1> DEFINE Count(S, i) == Cardinality({j \in S : j <= i})
<1>1. ASSUME NEW S \in SUBSET Ids, NEW n \in 1..Cardinality(S)
      PROVE  \E i \in S : Count(S, i) = n
  <2>1. MaxIds \in Nat /\ \A j \in S : j \in Nat /\ j # 0 /\ j <= MaxIds
    <3>1. MaxIds \in Nat
      BY TimelineAssumption
    <3>2. \A j \in Ids : j \in Nat /\ j # 0 /\ j <= MaxIds
      BY <3>1 DEF Ids
    <3> QED BY <3>1, <3>2
  <2>2. IsFiniteSet(S) /\ \A i \in Nat : IsFiniteSet({j \in S : j <= i}) /\ Count(S, i) \in Nat
    <3>1. IsFiniteSet(Ids)
      BY <2>1, FS_Interval DEF Ids
    <3>2. IsFiniteSet(S)
      BY <3>1, FS_Subset
    <3>3. \A i \in Nat : IsFiniteSet({j \in S : j <= i})
      <4>1. \A i \in Nat : {j \in S : j <= i} \in SUBSET S
        OBVIOUS
      <4> QED BY <3>2, <4>1, FS_Subset
    <3> QED BY <3>2, <3>3, FS_CardinalityType
  <2>3. Cardinality(S) \in Nat
    BY <2>2, FS_CardinalityType
  <2> DEFINE Enough == {i \in Nat : Count(S, i) >= n}
  <2>4. MaxIds \in Enough
    <3>1. {j \in S : j <= MaxIds} = S
      BY <2>1
    <3> QED BY <3>1, <2>1, <2>3
  <2>5. PICK i \in Enough : \A m \in Enough : i <= m
    <3>1. Enough \in SUBSET Nat /\ Enough # {}
      BY <2>4
    <3> HIDE DEF Enough
    <3> QED BY <3>1, LeastNumber
  <2>6. i \in Nat /\ Count(S, i) >= n
    OBVIOUS
  <2>7. i # 0
    <3>1. {j \in S : j <= 0} = {}
      BY <2>1
    <3>2. Count(S, 0) = 0
      BY <3>1, FS_EmptySet
    <3> QED BY <3>2, <2>6, <2>3
  <2>8. i - 1 \in Nat /\ ~(Count(S, i - 1) >= n)
    <3>1. i - 1 \in Nat /\ ~(i <= i - 1)
      BY <2>6, <2>7
    <3>2. i - 1 \notin Enough
      BY <3>1, <2>5
    <3> QED BY <3>1, <3>2
  <2>9. i \in S
    <3>1. SUFFICES ASSUME i \notin S PROVE FALSE
      OBVIOUS
    <3>2. {j \in S : j <= i} = {j \in S : j <= i - 1}
      <4>1. \A j \in S : j <= i <=> j <= i - 1
        BY <3>1, <2>6, <2>1
      <4> QED BY <4>1
    <3> QED BY <3>2, <2>6, <2>8
  <2>10. {j \in S : j <= i} = {j \in S : j <= i - 1} \cup {i} /\ i \notin {j \in S : j <= i - 1}
    <3>1. \A j \in S : j <= i <=> j <= i - 1 \/ j = i
      BY <2>6, <2>1
    <3>2. i <= i /\ ~(i <= i - 1)
      BY <2>6
    <3> QED BY <3>1, <3>2, <2>9
  <2>11. Count(S, i) = Count(S, i - 1) + 1
    BY <2>10, <2>8, <2>2, FS_AddElement
  <2>12. Count(S, i - 1) \in Nat /\ Count(S, i) \in Nat
    BY <2>2, <2>6, <2>8
  <2>13. Count(S, i) = n
    BY <2>11, <2>12, <2>6, <2>8, <2>3
  <2> QED BY <2>9, <2>13
<1>2. Free \in SUBSET Ids
  BY DEF Free
<1>3. \A n \in 1..Cardinality(Free) : \E i \in Free : Count(Free, i) = n
  BY <1>1, <1>2
<1>4. \A n \in 1..Cardinality(Free) : Mint(n) \in Free /\ Count(Free, Mint(n)) = n
  BY <1>3 DEF Mint
<1> QED BY <1>4

\* As long as there is a free one.
LEMMA MintedId ==
    ASSUME Free # {}
    PROVE  Mint(1) \in Free
<1>1. IsFiniteSet(Free) /\ Cardinality(Free) \in Nat
  <2>0. MaxIds \in Nat
    BY TimelineAssumption
  <2>1. IsFiniteSet(Ids)
    BY <2>0, FS_Interval DEF Ids
  <2>2. Free \in SUBSET Ids
    BY DEF Free
  <2> QED BY <2>1, <2>2, FS_Subset, FS_CardinalityType
<1>2. Cardinality(Free) # 0
  BY <1>1, FS_EmptySet
<1>3. 1 \in 1..Cardinality(Free)
  BY <1>1, <1>2
<1> QED BY <1>3, MintedIds

\* The row of s that is written last.
Pick(s) == CHOOSE r \in s : TRUE

\* g says what is in the table when the rows of s are written, for the sets s of D.
Folds(g, D, rows) ==
    \A s \in D : g[s] = IF s = {} THEN rows ELSE UpsertRow(g[s \ {Pick(s)}], Pick(s))

FoldOf(g, A, rows) ==
    [s \in SUBSET A |-> IF s = {} THEN rows ELSE UpsertRow(g[s \ {Pick(s)}], Pick(s))]

\* The function behind the fold of a finite set exists.
LEMMA FoldExists ==
    ASSUME NEW A, IsFiniteSet(A), NEW rows
    PROVE  \E g : g = FoldOf(g, A, rows)
<1> DEFINE Small(n) == {s \in SUBSET A : Cardinality(s) <= n}
           Missing  == {n \in Nat : ~ \E g : Folds(g, Small(n), rows)}
<1>1. \A s \in SUBSET A : /\ IsFiniteSet(s) /\ Cardinality(s) \in Nat /\ Cardinality(s) <= Cardinality(A)
                          /\ Cardinality(s) = 0 <=> s = {}
  BY FS_Subset, FS_CardinalityType, FS_EmptySet
<1>2. \A s \in SUBSET A : s # {} => Pick(s) \in s /\ Cardinality(s \ {Pick(s)}) = Cardinality(s) - 1
  <2> SUFFICES ASSUME NEW s \in SUBSET A, s # {}
               PROVE  Pick(s) \in s /\ Cardinality(s \ {Pick(s)}) = Cardinality(s) - 1
    OBVIOUS
  <2>1. Pick(s) \in s
    BY DEF Pick
  <2> QED BY <2>1, <1>1, FS_RemoveElement
<1>3. Missing = {}
  <2>1. SUFFICES ASSUME Missing # {} PROVE FALSE
    OBVIOUS
  <2>2. PICK n \in Missing : \A m \in Missing : n <= m
    <3>1. Missing \subseteq Nat
      OBVIOUS
    <3> HIDE DEF Missing
    <3> QED BY <2>1, <3>1, LeastNumber
  <2>3. n \in Nat
    OBVIOUS
  <2>4. CASE n = 0
    <3>1. Small(0) = {{}}
      BY <1>1
    <3>2. Folds([s \in {{}} |-> rows], Small(0), rows)
      BY <3>1 DEF Folds
    <3> QED BY <2>4, <3>2
  <2>5. CASE n # 0
    <3>1. n - 1 \in Nat /\ ~(n <= n - 1)
      BY <2>3, <2>5
    <3>2. n - 1 \notin Missing
      BY <3>1, <2>2
    <3>3. PICK g : Folds(g, Small(n - 1), rows)
      BY <3>1, <3>2
    <3> DEFINE f == [s \in SUBSET A |-> IF Cardinality(s) <= n - 1 THEN g[s]
                                        ELSE UpsertRow(g[s \ {Pick(s)}], Pick(s))]
    <3>4. ASSUME NEW s \in Small(n)
          PROVE  f[s] = IF s = {} THEN rows ELSE UpsertRow(f[s \ {Pick(s)}], Pick(s))
      <4>1. s \in SUBSET A /\ Cardinality(s) \in Nat /\ Cardinality(s) <= n
        BY <1>1
      <4>2. CASE s = {}
        <5>1. Cardinality(s) = 0
          BY <4>1, <4>2, <1>1
        <5>2. Cardinality(s) <= n - 1
          BY <5>1, <3>1
        <5>3. g[s] = rows
          BY <3>3, <4>1, <4>2, <5>2 DEF Folds
        <5> QED BY <4>1, <4>2, <5>2, <5>3
      <4>3. CASE s # {}
        <5> DEFINE u == s \ {Pick(s)}
        <5>1. u \in SUBSET A /\ Cardinality(u) = Cardinality(s) - 1 /\ Cardinality(u) \in Nat
          BY <4>1, <4>3, <1>1, <1>2
        <5>2. Cardinality(u) <= n - 1
          BY <5>1, <4>1, <2>3
        <5>3. f[u] = g[u]
          BY <5>1, <5>2
        <5>4. CASE Cardinality(s) <= n - 1
          <6>1. g[s] = UpsertRow(g[u], Pick(s))
            BY <3>3, <4>1, <4>3, <5>4 DEF Folds
          <6>2. f[s] = g[s]
            BY <4>1, <5>4
          <6> HIDE DEF f
          <6> QED BY <5>3, <6>1, <6>2, <4>3
        <5>5. CASE ~(Cardinality(s) <= n - 1)
          <6>1. f[s] = UpsertRow(g[u], Pick(s))
            BY <4>1, <5>5
          <6> HIDE DEF f
          <6> QED BY <5>3, <6>1, <4>3
        <5> QED BY <5>4, <5>5
      <4> QED BY <4>2, <4>3
    <3> HIDE DEF f
    <3>5. Folds(f, Small(n), rows)
      BY <3>4 DEF Folds
    <3> QED BY <3>5
  <2> QED BY <2>4, <2>5
<1>4. Cardinality(A) \in Nat /\ Small(Cardinality(A)) = SUBSET A
  BY <1>1
<1>5. PICK f : Folds(f, SUBSET A, rows)
  BY <1>3, <1>4
<1> DEFINE g == [s \in SUBSET A |-> f[s]]
<1>6. \A s \in SUBSET A : g[s] = IF s = {} THEN rows ELSE UpsertRow(g[s \ {Pick(s)}], Pick(s))
  BY <1>5 DEF Folds
<1> DEFINE h == [s \in SUBSET A |-> IF s = {} THEN rows ELSE UpsertRow(g[s \ {Pick(s)}], Pick(s))]
<1>7. g = [s \in SUBSET A |-> g[s]]
  OBVIOUS
<1> HIDE DEF g
<1>8. \A s \in SUBSET A : h[s] = g[s]
  BY <1>6
<1>9. h = [s \in SUBSET A |-> h[s]]
  OBVIOUS
<1>10. g = h
  <2> HIDE DEF h
  <2> QED BY <1>7, <1>8, <1>9
<1> QED BY <1>10 DEF FoldOf

\* Folding an answer over the table takes its rows one by one.
LEMMA FoldedRows ==
    ASSUME NEW A, IsFiniteSet(A), NEW rows
    PROVE  \E g : Folds(g, SUBSET A, rows) /\ UpsertRows(rows, A) = g[A]
<1> DEFINE g == CHOOSE g : g = [s \in SUBSET A |-> IF s = {} THEN rows
                                                   ELSE UpsertRow(g[s \ {Pick(s)}], Pick(s))]
<1>1. g = [s \in SUBSET A |-> IF s = {} THEN rows ELSE UpsertRow(g[s \ {Pick(s)}], Pick(s))]
  <2>1. PICK k : k = FoldOf(k, A, rows)
    BY FoldExists
  <2> QED BY <2>1 DEF FoldOf
<1>2. UpsertRows(rows, A) = g[A]
  BY DEF UpsertRows, FoldSet, MapThenFoldSet, Pick
<1> HIDE DEF g
<1>3. Folds(g, SUBSET A, rows)
  BY <1>1 DEF Folds
<1> QED BY <1>2, <1>3

\* The row that h, a row of an answer, becomes over the rows B.
Becomes(B, h, x) ==
    /\ x.smid = h.smid /\ x.lmid = 0 /\ x.pts = h.pts /\ x.status = h.status /\ x.body /\ x.exact
    /\ \/ x.id = h.id /\ x.revoked = h.revoked
       \/ \E b \in B : b.smid = h.smid /\ x.id = b.id /\ x.revoked = (h.revoked \/ b.revoked)

\* C is what the rows B are when those of S are written over them.
Taken(B, S, C) ==
    /\ Unlike(C)
    /\ \A x \in C : \/ x \in B /\ \A h \in S : h.smid # x.smid
                    \/ \E h \in S : Becomes(B, h, x)
    /\ \A h \in S : \E x \in C : Becomes(B, h, x)
    /\ \A b \in B : \/ b \in C
                    \/ \E x \in C, h \in S : Becomes(B, h, x) /\ x.id = b.id /\ x.smid = b.smid /\ Knows(x, b)

\* An id the answer shares with a row means the same message.
Mesh(B, A) ==
    /\ Unlike(B) /\ B \subseteq MessageRecord
    /\ A \subseteq MessageRecord
    /\ \A h \in A : h.by = "none" /\ h.smid # 0 /\ h.lmid = 0 /\ h.body /\ h.exact
    /\ \A g, h \in A : g.smid = h.smid \/ g.id = h.id => g = h
    /\ \A b \in B, h \in A : b.id = h.id => b.smid = h.smid

\* One row more of the answer.
LEMMA TakenMore ==
    ASSUME NEW B, NEW A, Mesh(B, A), NEW S \in SUBSET A, NEW C, Taken(B, S, C), C \subseteq MessageRecord,
           NEW h \in A, h \notin S, NEW D,
           \/ /\ \A c \in C : c.id # h.id /\ ~Same(c, h)
              /\ D = C \cup {h}
           \/ \E c \in C : /\ c.id = h.id \/ Same(c, h)
                           /\ D = (C \ {c}) \cup {Merged(c, h)}
    PROVE  Taken(B, S \cup {h}, D)
<1>1. /\ h \in MessageRecord /\ h.by = "none" /\ h.smid # 0 /\ h.lmid = 0 /\ h.body /\ h.exact
      /\ \A g \in S : g.smid # h.smid /\ g.id # h.id /\ g \in A
      /\ \A b \in B : b.id = h.id => b.smid = h.smid
  BY DEF Mesh
<1>2. \A c \in C : Same(c, h) <=> c.smid = h.smid
  BY <1>1 DEF Same
<1>3. ASSUME NEW c \in C, c.id = h.id \/ c.smid = h.smid
      PROVE  c.smid = h.smid /\ c \in B
  <2>1. CASE \E g \in S : Becomes(B, g, c)
    <3>1. PICK g \in S : Becomes(B, g, c)
      BY <2>1
    <3>2. c.smid = g.smid /\ g.smid # h.smid
      BY <3>1, <1>1 DEF Becomes
    <3>3. c.id = h.id
      BY <1>3, <3>2
    <3>4. PICK b \in B : b.smid = g.smid /\ c.id = b.id
      BY <3>1, <3>3, <1>1 DEF Becomes
    <3> QED BY <3>2, <3>3, <3>4, <1>1
  <2>2. CASE c \in B /\ \A g \in S : g.smid # c.smid
    BY <2>2, <1>1, <1>3
  <2> QED BY <2>1, <2>2 DEF Taken
<1>4. CASE /\ \A c \in C : c.id # h.id /\ ~Same(c, h)
           /\ D = C \cup {h}
  <2>1. Becomes(B, h, h)
    BY <1>1 DEF Becomes
  <2>2. \A c \in C : c.smid # h.smid
    BY <1>4, <1>2
  <2>3. Unlike(D)
    BY <1>4, <1>1, <2>2 DEF Taken, Unlike, Same
  <2>4. \A x \in D : \/ x \in B /\ \A g \in S \cup {h} : g.smid # x.smid
                     \/ \E g \in S \cup {h} : Becomes(B, g, x)
    BY <1>4, <2>1, <2>2 DEF Taken
  <2>5. \A g \in S \cup {h} : \E x \in D : Becomes(B, g, x)
    BY <1>4, <2>1 DEF Taken
  <2>6. \A b \in B : \/ b \in D
                     \/ \E x \in D, g \in S \cup {h} : Becomes(B, g, x) /\ x.id = b.id /\ x.smid = b.smid /\ Knows(x, b)
    BY <1>4 DEF Taken
  <2> QED BY <2>3, <2>4, <2>5, <2>6 DEF Taken
<1>5. CASE \E c \in C : /\ c.id = h.id \/ Same(c, h)
                        /\ D = (C \ {c}) \cup {Merged(c, h)}
  <2>1. PICK c \in C : /\ c.id = h.id \/ Same(c, h)
                       /\ D = (C \ {c}) \cup {Merged(c, h)}
    BY <1>5
  <2> DEFINE y == Merged(c, h)
  <2>2. c.smid = h.smid /\ c \in B /\ c \in MessageRecord
    BY <2>1, <1>2, <1>3
  <2>3. /\ y.id = c.id /\ y.smid = h.smid /\ y.lmid = 0 /\ y.pts = h.pts /\ y.body /\ y.exact
        /\ y.status = h.status /\ y.revoked = (h.revoked \/ c.revoked)
    <3>1. /\ y.id = c.id /\ y.smid = h.smid /\ y.lmid = h.lmid /\ y.pts = h.pts
          /\ y.body = (h.body \/ c.body) /\ y.exact = (h.exact \/ c.exact)
          /\ y.status = (IF c.status = "sent" /\ ~h.body THEN "sent" ELSE h.status)
          /\ y.revoked = (h.revoked \/ c.revoked)
      <4>1. h \in MessageRecord /\ c \in MessageRecord
        BY <1>1, <2>2
      <4> QED BY <4>1, MergedRow, Zenon
    <3> HIDE DEF y
    <3>2. h.body /\ h.exact /\ h.lmid = 0
      BY <1>1
    <3>3. y.body /\ y.exact
      BY <3>1, <3>2, Zenon
    <3>4. y.status = h.status
      BY <3>1, <3>2
    <3> QED BY <3>1, <3>2, <3>3, <3>4, <2>2
  <2> HIDE DEF y
  <2>4. Becomes(B, h, y) /\ Knows(y, c)
    BY <2>2, <2>3 DEF Becomes, Knows
  <2>5. \A d \in C : d # c => d.smid # h.smid
    BY <2>2, <1>1 DEF Taken, Unlike, Same
  <2>6. D = (C \ {c}) \cup {y}
    BY <2>1 DEF y
  <2>7. Unlike(D)
    BY <2>3, <2>5, <2>6, <1>1 DEF Taken, Unlike, Same
  <2>8. \A x \in D : \/ x \in B /\ \A g \in S \cup {h} : g.smid # x.smid
                     \/ \E g \in S \cup {h} : Becomes(B, g, x)
    BY <2>4, <2>5, <2>6 DEF Taken
  <2>9. \A g \in S : ~Becomes(B, g, c)
    BY <2>2, <1>1 DEF Becomes
  <2>10. \A g \in S \cup {h} : \E x \in D : Becomes(B, g, x)
    BY <2>4, <2>6, <2>9 DEF Taken
  <2>11. \A b \in B : \/ b \in D
                      \/ \E x \in D, g \in S \cup {h} : Becomes(B, g, x) /\ x.id = b.id /\ x.smid = b.smid /\ Knows(x, b)
    <3> SUFFICES ASSUME NEW b \in B
                 PROVE  \/ b \in D
                        \/ \E x \in D, g \in S \cup {h} : Becomes(B, g, x) /\ x.id = b.id /\ x.smid = b.smid /\ Knows(x, b)
      OBVIOUS
    <3>1. CASE b \in C
      BY <3>1, <2>2, <2>3, <2>4, <2>6
    <3>2. CASE b \notin C
      <4>1. PICK x \in C, g \in S : Becomes(B, g, x) /\ x.id = b.id /\ x.smid = b.smid /\ Knows(x, b)
        BY <3>2 DEF Taken
      <4>2. x # c
        BY <4>1, <2>9
      <4> QED BY <4>1, <4>2, <2>6
    <3> QED BY <3>1, <3>2
  <2> QED BY <2>7, <2>8, <2>10, <2>11 DEF Taken
<1> QED BY <1>4, <1>5

\* Rows of one call, one after the other: what the table holds in the end.
LEMMA UpsertedRows ==
    ASSUME NEW A, Loose(A), Numbered(A), diskMode \in Modes, NEW rows, Keyed(rows, diskMode)
    PROVE  /\ Keyed(UpsertRows(rows, A), diskMode)
           /\ Mesh(Bared(rows), A) => Taken(Bared(rows), A, Bared(UpsertRows(rows, A)))
<1>1. IsFiniteSet(A)
  <2>1. MaxLog \in Int /\ 0 \in Int
    BY TimelineAssumption
  <2>2. IsFiniteSet(0..MaxLog)
    BY <2>1, FS_Interval
  <2> DEFINE f == [a \in A |-> a.smid]
  <2>3. \A a \in A : a.smid \in 0..MaxLog
    BY RowTyped DEF Loose
  <2>4. f \in Injection(A, 0..MaxLog)
    BY <2>3 DEF Injection, IsInjective, Numbered
  <2> QED BY <2>2, <2>4, FS_Injection
<1>2. PICK g : Folds(g, SUBSET A, rows) /\ UpsertRows(rows, A) = g[A]
  BY <1>1, FoldedRows
<1> DEFINE B == Bared(rows)
           Right(S) == Keyed(g[S], diskMode) /\ (Mesh(B, A) => Taken(B, S, Bared(g[S])))
           Wrong == {Cardinality(S) : S \in {s \in SUBSET A : ~Right(s)}}
<1>3. \A S \in SUBSET A : IsFiniteSet(S) /\ Cardinality(S) \in Nat
  BY <1>1, FS_Subset, FS_CardinalityType
<1>4. Right({})
  <2>1. g[{}] = rows
    BY <1>2 DEF Folds
  <2>2. Mesh(B, A) => Taken(B, {}, B)
    BY DEF Mesh, Taken
  <2> QED BY <2>1, <2>2
<1>5. ASSUME NEW S \in SUBSET A, S # {}, Right(S \ {Pick(S)})
      PROVE  Right(S)
  <2> DEFINE h == Pick(S)
             R == g[S \ {h}]
  <2>1. h \in S
    BY <1>5 DEF Pick
  <2>2. g[S] = UpsertRow(R, h)
    BY <1>2, <1>5 DEF Folds
  <2>3. h \in MessageRecord /\ h.by = "none" /\ h \in A
    BY <2>1 DEF Loose
  <2>4. Keyed(R, diskMode) /\ (Mesh(B, A) => Taken(B, S \ {h}, Bared(R)))
    BY <1>5
  <2>5. (S \ {h}) \cup {h} = S /\ S \ {h} \in SUBSET A /\ h \notin S \ {h}
    BY <2>1
  <2> HIDE DEF h, R
  <2>6. /\ Keyed(UpsertRow(R, h), diskMode)
        /\ \/ /\ \A b \in Bared(R) : b.id # h.id /\ ~Same(b, h)
              /\ Bared(UpsertRow(R, h)) = Bared(R) \cup {h}
           \/ \E b \in Bared(R) :
                 /\ b.id = h.id \/ Same(b, h)
                 /\ Bared(UpsertRow(R, h)) = (Bared(R) \ {b}) \cup {Merged(b, h)}
    BY <2>3, <2>4, UpsertedRow
  <2>7. ASSUME Mesh(B, A) PROVE Taken(B, S, Bared(UpsertRow(R, h)))
    <3>1. Taken(B, S \ {h}, Bared(R))
      BY <2>4, <2>7
    <3>2. Bared(R) \subseteq MessageRecord
      BY <2>4, BaredRows DEF Keyed, Loose
    <3> HIDE DEF B
    <3>3. Taken(B, (S \ {h}) \cup {h}, Bared(UpsertRow(R, h)))
      BY <2>3, <2>5, <2>6, <2>7, <3>1, <3>2, TakenMore
    <3> QED BY <2>5, <3>3
  <2> QED BY <2>2, <2>6, <2>7
<1>6. Wrong = {}
  <2>1. SUFFICES ASSUME Wrong # {} PROVE FALSE
    OBVIOUS
  <2> HIDE DEF Right
  <2>2. Wrong \subseteq Nat
    BY <1>3
  <2>3. PICK n \in Wrong : \A m \in Wrong : n <= m
    <3> HIDE DEF Wrong
    <3> QED BY <2>1, <2>2, LeastNumber
  <2>4. PICK S \in SUBSET A : ~Right(S) /\ n = Cardinality(S)
    OBVIOUS
  <2>5. S # {}
    BY <1>4, <2>4
  <2>6. ~Right(S \ {Pick(S)})
    BY <1>5, <2>4, <2>5
  <2>7. S \ {Pick(S)} \in SUBSET A
    OBVIOUS
  <2>8. Cardinality(S \ {Pick(S)}) \in Wrong
    BY <2>6, <2>7
  <2>9. Pick(S) \in S
    BY <2>5 DEF Pick
  <2>10. Cardinality(S \ {Pick(S)}) = Cardinality(S) - 1
    BY <1>3, <2>9, FS_RemoveElement
  <2>11. n <= Cardinality(S) - 1 /\ Cardinality(S) \in Nat
    BY <2>3, <2>8, <2>10, <1>3
  <2> QED BY <2>4, <2>11
<1>7. Right(A)
  BY <1>6
<1> QED BY <1>2, <1>7

-----------------------------------------------------------------------------
(* The queue of transactions, and the rows each source builds.             *)

\* The bounds are numbers.
LEMMA Numbers ==
    /\ MaxLog \in Nat /\ MaxLog # 0 /\ MaxSends \in Nat /\ MaxSends # 0 /\ MaxIds \in Nat /\ MaxIds # 0
    /\ MaxJobs \in Nat /\ MaxJobs # 0 /\ Window \in Nat /\ Window # 0 /\ MaxSends <= MaxLog
  BY TimelineAssumption

\* A job is issued.
LEMMA Issued ==
    ASSUME JobsTyped, NEW op \in Ops, NEW rows, JobTyped(Job(op, rows)), Issue(op, rows)
    PROVE  /\ JobsTyped'
           /\ Planned(jobs') = Planned(jobs) \cup {Job(op, rows)}
           /\ InOrder(jobs) /\ (\A y \in Planned(jobs) : After(y, Job(op, rows))) => InOrder(jobs')
<1> DEFINE S == [op : Ops, rows : SUBSET MessageRecord]
<1>1. jobs \in Seq(S) /\ Len(jobs) < MaxJobs /\ jobs' = Append(jobs, Job(op, rows))
  BY DEF JobsTyped, Issue
<1>2. Job(op, rows) \in S
  BY DEF JobTyped, Loose, Job
<1> HIDE DEF S
<1>3. /\ jobs' \in Seq(S) /\ Planned(jobs') = Planned(jobs) \cup {Job(op, rows)}
      /\ InOrder(jobs) /\ (\A y \in Planned(jobs) : After(y, Job(op, rows))) => InOrder(jobs')
  BY <1>1, <1>2, AppendedJob
<1>4. Len(jobs') <= MaxJobs
  <2>1. Len(jobs') = Len(jobs) + 1 /\ Len(jobs) \in Nat
    BY <1>1, <1>2
  <2> QED BY <2>1, <1>1, Numbers
<1>5. \A x \in Planned(jobs') : JobTyped(x)
  BY <1>3 DEF JobsTyped
<1> QED BY <1>3, <1>4, <1>5 DEF JobsTyped, S, JobTyped

\* The first job ends.
LEMMA JobEnded ==
    ASSUME JobsTyped, jobs # <<>>, Ended
    PROVE  /\ JobsTyped' /\ Head(jobs) \in Planned(jobs)
           /\ Planned(jobs') \subseteq Planned(jobs)
           /\ Planned(jobs) \subseteq Planned(jobs') \cup {Head(jobs)}
           /\ InOrder(jobs) => InOrder(jobs') /\ \A y \in Planned(jobs') : After(Head(jobs), y)
<1> DEFINE S == [op : Ops, rows : SUBSET MessageRecord]
<1>1. jobs \in Seq(S) /\ jobs' = Tail(jobs)
  BY DEF JobsTyped, Ended
<1> HIDE DEF S
<1>2. /\ jobs' \in Seq(S) /\ Len(jobs') = Len(jobs) - 1 /\ Len(jobs) \in Nat
      /\ Head(jobs) \in Planned(jobs)
      /\ Planned(jobs') \subseteq Planned(jobs)
      /\ Planned(jobs) \subseteq Planned(jobs') \cup {Head(jobs)}
      /\ InOrder(jobs) => InOrder(jobs') /\ \A y \in Planned(jobs') : After(Head(jobs), y)
  BY <1>1, FinishedJob
<1>3. Len(jobs') <= MaxJobs
  BY <1>2, Numbers DEF JobsTyped
<1> QED BY <1>2, <1>3 DEF JobsTyped, S, JobTyped

\* The first job ends and issues the next in the same tick.
LEMMA JobFollowed ==
    ASSUME JobsTyped, jobs # <<>>, NEW op \in Ops, NEW rows, JobTyped(Job(op, rows)), FollowedBy(op, rows)
    PROVE  /\ JobsTyped' /\ Head(jobs) \in Planned(jobs) /\ Job(op, rows) \in Planned(jobs')
           /\ Planned(jobs') \subseteq Planned(jobs) \cup {Job(op, rows)}
           /\ Planned(jobs) \subseteq Planned(jobs') \cup {Head(jobs)}
           /\ InOrder(jobs) => \A y \in Planned(jobs') : y = Job(op, rows) \/ After(Head(jobs), y)
           /\ /\ InOrder(jobs)
              /\ \A y \in Planned(jobs) : After(Head(jobs), y) => After(y, Job(op, rows))
              => InOrder(jobs')
<1> DEFINE S == [op : Ops, rows : SUBSET MessageRecord]
<1>1. jobs \in Seq(S) /\ jobs' = Append(Tail(jobs), Job(op, rows))
  BY DEF JobsTyped, FollowedBy
<1>2. Job(op, rows) \in S
  BY DEF JobTyped, Loose, Job
<1> HIDE DEF S
<1>3. /\ Tail(jobs) \in Seq(S) /\ Len(Tail(jobs)) = Len(jobs) - 1 /\ Len(jobs) \in Nat
      /\ Head(jobs) \in Planned(jobs)
      /\ Planned(Tail(jobs)) \subseteq Planned(jobs)
      /\ Planned(jobs) \subseteq Planned(Tail(jobs)) \cup {Head(jobs)}
      /\ InOrder(jobs) => InOrder(Tail(jobs)) /\ \A y \in Planned(Tail(jobs)) : After(Head(jobs), y)
  BY <1>1, FinishedJob
<1>4. /\ jobs' \in Seq(S)
      /\ Planned(jobs') = Planned(Tail(jobs)) \cup {Job(op, rows)}
      /\ InOrder(Tail(jobs)) /\ (\A y \in Planned(Tail(jobs)) : After(y, Job(op, rows))) => InOrder(jobs')
  <2>1. \A q \in Seq(S), x \in S :
           /\ Append(q, x) \in Seq(S)
           /\ Planned(Append(q, x)) = Planned(q) \cup {x}
           /\ InOrder(q) /\ (\A y \in Planned(q) : After(y, x)) => InOrder(Append(q, x))
    BY AppendedJob
  <2>2. Tail(jobs) \in Seq(S)
    BY <1>3
  <2> QED BY <1>1, <1>2, <2>1, <2>2
<1>5. Len(jobs') <= MaxJobs
  <2>1. Len(jobs') = Len(Tail(jobs)) + 1
    BY <1>1, <1>2, <1>3
  <2> QED BY <2>1, <1>3, Numbers DEF JobsTyped
<1>6. \A x \in Planned(jobs') : JobTyped(x)
  BY <1>3, <1>4 DEF JobsTyped
<1>7. JobsTyped'
  BY <1>4, <1>5, <1>6 DEF JobsTyped, S, JobTyped
<1> QED BY <1>3, <1>4, <1>7

\* The one row of a transaction that is about one row.
LEMMA HeadRow ==
    ASSUME JobsTyped, jobs # <<>>, Head(jobs).op \in {"create", "ack", "row", "page"}
    PROVE  /\ Head(jobs).rows = {TheRow} /\ TheRow \in MessageRecord /\ TheRow.by = "none"
           /\ Head(jobs).op = "create" => TheRow.smid = 0
           /\ Head(jobs).op \in {"create", "ack"} => TheRow.lmid # 0
<1>1. Head(jobs) \in Planned(jobs)
  BY FinishedJob DEF JobsTyped
<1>2. JobTyped(Head(jobs))
  BY <1>1 DEF JobsTyped
<1>3. PICK r \in Head(jobs).rows : Carries(Head(jobs), r)
  BY <1>2 DEF JobTyped
<1>4. Head(jobs).rows = {r} /\ TheRow = r
  BY <1>3 DEF Carries, TheRow
<1> QED BY <1>2, <1>4 DEF JobTyped, Loose

\* The first job is one of those that wait.
LEMMA HeadJob ==
    ASSUME JobsTyped, jobs # <<>>
    PROVE  /\ Head(jobs) \in Planned(jobs) /\ JobTyped(Head(jobs)) /\ Loose(Head(jobs).rows)
           /\ Head(jobs).op \in Ops
<1>1. Head(jobs) \in Planned(jobs) /\ Head(jobs) \in [op : Ops, rows : SUBSET MessageRecord]
  BY FinishedJob DEF JobsTyped
<1> QED BY <1>1 DEF JobsTyped, JobTyped

\* A noted mode is a mode.
LEMMA NotedMode ==
    ASSUME NEW mode \in Modes, NEW rows
    PROVE  NoteRows(mode, rows) \in Modes
  BY DEF NoteRows, Modes

\* Memory holds no stored key.
LEMMA PlainOverlay ==
    ASSUME NEW held, Loose(held), NEW rows, Loose(rows)
    PROVE  Loose(Overlay(held, rows))
  BY DEF Loose, Overlay

\* Memory after an upsert.
LEMMA BufferUpserted ==
    ASSUME BufferTyped, NEW rows, Loose(rows), UpsertBuffer(rows)
    PROVE  BufferTyped'
<1>1. buffer' = Overlay(buffer, rows) /\ bufferMode' = NoteRows(bufferMode, rows)
  BY DEF UpsertBuffer
<1>2. Loose(buffer') /\ bufferMode' \in Modes
  BY <1>1, PlainOverlay, NotedMode DEF BufferTyped
<1> QED BY <1>2 DEF BufferTyped, Loose

\* Memory after a window: some rows stay, the window is taken in.
LEMMA BufferReplaced ==
    ASSUME BufferTyped, NEW mode \in Modes, NEW rows, Loose(rows), ReplaceWindow(mode, rows)
    PROVE  /\ BufferTyped' /\ bufferMode' = NoteRows(mode, rows)
           /\ \E held \in SUBSET buffer : buffer' = Overlay(held, rows)
<1>1. PICK held \in SUBSET buffer : buffer' = Overlay(held, rows) /\ bufferMode' = NoteRows(mode, rows)
  BY DEF ReplaceWindow
<1>2. Loose(held)
  BY <1>1 DEF BufferTyped, Loose
<1>3. Loose(buffer') /\ bufferMode' \in Modes
  BY <1>1, <1>2, PlainOverlay, NotedMode
<1> QED BY <1>1, <1>3 DEF BufferTyped, Loose

\* Rows as each source builds them.
LEMMA BuiltRows ==
    ASSUME LogTyped, NEW i \in Ids
    PROVE  /\ \A l \in 1..MaxSends : Echo(i, l) \in MessageRecord
           /\ \A m \in DOMAIN log, body, revoked \in BOOLEAN : PushRow(i, m, body, revoked) \in MessageRecord
           /\ \A m \in DOMAIN log, withPts \in BOOLEAN : HistoryRow(i, m, withPts) \in MessageRecord
           /\ \A m \in DOMAIN log : CommitRow(i, m) \in MessageRecord
           /\ \A m \in DOMAIN log : m \in 1..MaxLog /\ log[m] \in [lmid : 0..MaxSends, revoked : BOOLEAN]
<1>1. \A m \in DOMAIN log : m \in 1..MaxLog /\ m \in 0..MaxLog /\ log[m] \in [lmid : 0..MaxSends, revoked : BOOLEAN]
  <2>1. DOMAIN log = 1..Len(log) /\ Len(log) \in Nat /\ Len(log) <= MaxLog
    BY DEF LogTyped
  <2> DEFINE S == [lmid : 0..MaxSends, revoked : BOOLEAN]
  <2>2. \A m \in 1..Len(log) : log[m] \in S
    <3>1. log \in Seq(S)
      BY DEF LogTyped
    <3> HIDE DEF S
    <3> QED BY <3>1
  <2> QED BY <2>1, <2>2, Numbers
<1>2. 0 \in 0..MaxLog /\ 0 \in 0..MaxSends /\ \A l \in 1..MaxSends : l \in 0..MaxSends
  BY Numbers
<1>3. \A l \in 1..MaxSends : Echo(i, l) \in MessageRecord
  BY <1>2 DEF Echo, MessageRecord
<1>4. \A m \in DOMAIN log, body, revoked \in BOOLEAN : PushRow(i, m, body, revoked) \in MessageRecord
  BY <1>1 DEF PushRow, MessageRecord
<1>5. \A m \in DOMAIN log, withPts \in BOOLEAN : HistoryRow(i, m, withPts) \in MessageRecord
  BY <1>1, <1>2 DEF HistoryRow, MessageRecord, Mine
<1>6. \A m \in DOMAIN log : CommitRow(i, m) \in MessageRecord
  BY <1>1 DEF CommitRow, MessageRecord, Mine
<1> QED BY <1>1, <1>3, <1>4, <1>5, <1>6

-----------------------------------------------------------------------------
(* Types, and the stored keys, whatever is lost.                           *)

\* Typed holds of an empty conversation.
LEMMA TypedStarts == TimelineInit => Typed
<1> SUFFICES ASSUME TimelineInit PROVE Typed
  OBVIOUS
<1>1. LogTyped
  BY Numbers DEF TimelineInit, LogTyped
<1>2. DiskTyped /\ BufferTyped
  BY DEF TimelineInit, DiskTyped, Keyed, BufferTyped, Loose, Modes
<1>3. JobsTyped
  <2>1. jobs = <<>> /\ Planned(jobs) = {}
    BY DEF TimelineInit, Planned
  <2> QED BY <2>1, Numbers DEF JobsTyped
<1>4. FetchTyped /\ LossesTyped
  BY DEF TimelineInit, FetchTyped, NoFetch, Loose, Numbered, Fetches, LossesTyped
<1> QED BY <1>1, <1>2, <1>3, <1>4 DEF Typed

\* The server keeps Typed.
LEMMA ServerTyped ==
    ASSUME Typed, \/ PeerWrites
                  \/ \E l \in 1..sends : Accept(l)
                  \/ \E m \in DOMAIN log : Revoke(m)
    PROVE  Typed'
<1> DEFINE S == [lmid : 0..MaxSends, revoked : BOOLEAN]
<1>1. log \in Seq(S) /\ Len(log) \in Nat
  BY DEF Typed, LogTyped
<1>2. 0 \in 0..MaxSends /\ sends \in 0..MaxSends
  BY Numbers DEF Typed, LogTyped
<1>3. log' \in Seq(S) /\ Len(log') <= MaxLog
  <2>1. ASSUME NEW l \in 0..MaxSends, Len(log) < MaxLog, log' = Append(log, [lmid |-> l, revoked |-> FALSE])
        PROVE  log' \in Seq(S) /\ Len(log') <= MaxLog
    <3>1. [lmid |-> l, revoked |-> FALSE] \in S
      OBVIOUS
    <3> HIDE DEF S
    <3>2. log' \in Seq(S) /\ Len(log') = Len(log) + 1
      BY <1>1, <2>1, <3>1
    <3> QED BY <3>2, <2>1, <1>1, Numbers
  <2>2. CASE PeerWrites
    BY <2>1, <2>2, <1>2 DEF PeerWrites
  <2>3. ASSUME NEW l \in 1..sends, Accept(l) PROVE log' \in Seq(S) /\ Len(log') <= MaxLog
    <3>1. l \in 0..MaxSends
      BY <1>2, Numbers
    <3> QED BY <2>1, <2>3, <3>1 DEF Accept
  <2>4. ASSUME NEW m \in DOMAIN log, Revoke(m) PROVE log' \in Seq(S) /\ Len(log') <= MaxLog
    <3>1. log' = [log EXCEPT ![m].revoked = TRUE]
      BY <2>4 DEF Revoke
    <3>2. \A n \in 1..Len(log) : log[n] \in S
      <4> HIDE DEF S
      <4> QED BY <1>1
    <3>3. DOMAIN log = 1..Len(log)
      BY <1>1
    <3>4. \A n \in 1..Len(log) : log'[n] \in S
      BY <3>1, <3>2, <3>3
    <3>5. log' = [n \in 1..Len(log) |-> log'[n]]
      BY <3>1, <3>3
    <3> HIDE DEF S
    <3>6. log' \in [1..Len(log) -> S]
      BY <3>4, <3>5
    <3>7. log' \in Seq(S) /\ Len(log') = Len(log)
      BY <3>6, <1>1
    <3> QED BY <3>7 DEF Typed, LogTyped
  <2> QED BY <2>2, <2>3, <2>4
<1>4. UNCHANGED <<outVars, diskVars, bufferVars, jobs, fetch>>
  BY DEF PeerWrites, Accept, Revoke, outVars, diskVars, bufferVars
<1>5. LossesTyped'
  BY DEF PeerWrites, Accept, Revoke, LossesTyped, Typed
<1> QED BY <1>3, <1>4, <1>5 DEF Typed, LogTyped, DiskTyped, BufferTyped, JobsTyped, FetchTyped,
          outVars, diskVars, bufferVars, Keyed

\* What an ack is put on is a row, whatever memory and database have of it.
LEMMA PendingTyped ==
    ASSUME Typed, NEW l \in 1..sends, command[l] # 0, NEW base \in Pending(l)
    PROVE  base \in MessageRecord /\ base.by = "none"
<1>1. l \in 1..MaxSends /\ command[l] \in Ids
  BY Numbers DEF Typed, LogTyped, Ids
<1>2. Echo(command[l], l) \in MessageRecord /\ Echo(command[l], l).by = "none"
  BY <1>1, BuiltRows DEF Typed, Echo
<1>3. \A r \in buffer : r \in MessageRecord /\ r.by = "none"
  BY DEF Typed, BufferTyped, Loose
<1>4. \A r \in ByLmid(l) : Strip(r) \in MessageRecord /\ Strip(r).by = "none"
  <2>1. \A r \in ByLmid(l) : r \in MessageRecord
    BY DEF Typed, DiskTyped, Keyed, ByLmid
  <2> QED BY <2>1, StripRow
<1>5. \/ base = Echo(command[l], l)
      \/ base \in buffer
      \/ \E r \in ByLmid(l) : base = Strip(r)
  BY DEF Pending
<1> QED BY <1>2, <1>3, <1>4, <1>5

\* Sends and acks keep Typed.
LEMMA SendsTyped ==
    ASSUME Typed, \/ SendText \/ RunCreate \/ RunAck
                  \/ \E l \in 1..sends : Ack(l) \/ InlineThrows(l)
    PROVE  Typed'
<1>1. CASE SendText
  <2>1. Mint(1) \in Ids
    BY <1>1, MintedId DEF SendText, Free
  <2>2. sends + 1 \in 1..MaxSends /\ sends \in Nat /\ sends + 1 \in 0..MaxSends
    BY <1>1, Numbers DEF SendText, Typed, LogTyped
  <2> DEFINE echo == Echo(Mint(1), sends + 1)
  <2>3. echo \in MessageRecord /\ echo.by = "none" /\ echo.smid = 0 /\ echo.lmid # 0
    BY <2>1, <2>2, BuiltRows DEF Typed, Echo
  <2> HIDE DEF echo
  <2>4. UpsertBuffer({echo}) /\ Issue("create", {echo})
    BY <1>1 DEF SendText, echo
  <2>5. JobTyped(Job("create", {echo}))
    BY <2>3 DEF JobTyped, Loose, Carries, Job
  <2>6. JobsTyped'
    BY <2>4, <2>5, Issued DEF Typed, Ops
  <2>7. BufferTyped'
    BY <2>3, <2>4, BufferUpserted DEF Typed, Loose
  <2>8. LogTyped'
    <3>1. sends' = sends + 1 /\ inline' = inline \cup {sends + 1} /\ log' = log /\ command' = command
      BY <1>1 DEF SendText
    <3>2. inline' \subseteq 1..sends'
      BY <3>1, <2>2 DEF Typed, LogTyped
    <3> QED BY <3>1, <3>2, <2>2 DEF Typed, LogTyped
  <2>9. UNCHANGED <<disk, diskMode, fetch, losses>>
    BY <1>1 DEF SendText, diskVars
  <2> QED BY <2>6, <2>7, <2>8, <2>9 DEF Typed, DiskTyped, FetchTyped, LossesTyped, Keyed
<1>2. CASE RunCreate
  <2>1. jobs # <<>> /\ Head(jobs).op = "create" /\ Ended
    BY <1>2 DEF RunCreate, Heads
  <2>2. /\ JobsTyped'
        /\ TheRow \in MessageRecord /\ TheRow.by = "none" /\ TheRow.smid = 0 /\ TheRow.lmid # 0
    BY <2>1, JobEnded, HeadRow DEF Typed
  <2>3. /\ disk' = disk \cup {Stamp(TheRow, diskMode)} /\ diskMode' = diskMode
        /\ command' = [command EXCEPT ![TheRow.lmid] = TheRow.id]
        /\ UNCHANGED <<log, sends, inline, buffer, bufferMode, fetch, losses>>
    BY <1>2 DEF RunCreate, bufferVars
  <2>4. /\ Stamp(TheRow, diskMode) \in MessageRecord /\ Stamp(TheRow, diskMode).by = diskMode
        /\ Stamp(TheRow, diskMode).smid = 0
    BY <2>2, StampRow, StripRow DEF Typed, DiskTyped, Stamp
  <2>5. DiskTyped'
    BY <2>3, <2>4 DEF Typed, DiskTyped, Keyed, HasPtsGap
  <2>6. LogTyped'
    <3>1. TheRow.id \in 0..MaxIds
      BY <2>2, RowTyped, Numbers DEF Ids
    <3> QED BY <2>3, <3>1 DEF Typed, LogTyped
  <2> QED BY <2>2, <2>3, <2>5, <2>6 DEF Typed, BufferTyped, FetchTyped, LossesTyped, Loose
<1>3. CASE RunAck
  <2>1. jobs # <<>> /\ Head(jobs).op = "ack" /\ Ended
    BY <1>3 DEF RunAck, Heads
  <2>2. JobsTyped' /\ TheRow \in MessageRecord /\ TheRow.by = "none" /\ TheRow.lmid # 0
    BY <2>1, JobEnded, HeadRow DEF Typed
  <2>3. PICK local \in Firsts(ByLmid(TheRow.lmid)) :
           ApplyAck(local, TheRow) /\ UpsertBuffer({Acked(local, TheRow)})
    BY <1>3 DEF RunAck
  <2>4. DiskTyped' /\ Acked(local, TheRow) \in MessageRecord /\ Acked(local, TheRow).by = "none"
    BY <2>2, <2>3, AckedRow DEF Typed
  <2>5. BufferTyped'
    BY <2>3, <2>4, BufferUpserted DEF Typed, Loose
  <2>6. /\ command' = [command EXCEPT ![TheRow.lmid] = 0] /\ inline' = inline \ {TheRow.lmid}
        /\ losses' = losses \cup Overtakes({"reread"}) /\ UNCHANGED <<log, sends, fetch>>
    BY <1>3 DEF RunAck
  <2>7. LogTyped'
    <3>1. 0 \in 0..MaxIds
      BY Numbers
    <3> QED BY <3>1, <2>6 DEF Typed, LogTyped
  <2>8. LossesTyped'
    BY <2>6 DEF Typed, LossesTyped, Overtakes
  <2> QED BY <2>2, <2>4, <2>5, <2>6, <2>7, <2>8 DEF Typed, FetchTyped
<1>4. ASSUME NEW l \in 1..sends, Ack(l) PROVE Typed'
  <2>1. PICK m \in DOMAIN log, base \in Pending(l) :
           Issue("ack", {[base EXCEPT !.smid = m, !.lmid = l, !.pts = m, !.status = "sent"]})
    BY <1>4 DEF Ack
  <2>2. base \in MessageRecord /\ base.by = "none"
    BY <1>4, PendingTyped DEF Ack
  <2>3. m \in 0..MaxLog /\ l \in 0..MaxSends /\ l # 0
    BY SMTT(30), BuiltRows, Numbers DEF Typed, LogTyped, Ids
  <2> DEFINE t == [base EXCEPT !.smid = m, !.lmid = l, !.pts = m, !.status = "sent"]
  <2>4. t \in MessageRecord /\ t.by = "none" /\ t.lmid = l
    BY <2>2, <2>3 DEF MessageRecord
  <2> HIDE DEF t
  <2>5. JobTyped(Job("ack", {t}))
    BY <2>3, <2>4 DEF JobTyped, Loose, Carries, Job
  <2>6. JobsTyped'
    BY <2>1, <2>5, Issued DEF Typed, Ops, t
  <2>7. UNCHANGED <<log, outVars, diskVars, bufferVars, fetch, losses>>
    BY <1>4 DEF Ack
  <2> QED BY <2>6, <2>7 DEF Typed, LogTyped, DiskTyped, BufferTyped, FetchTyped, LossesTyped,
            outVars, diskVars, bufferVars, Keyed
<1>5. ASSUME NEW l \in 1..sends, InlineThrows(l) PROVE Typed'
  <2>1. inline' = inline \ {l} /\ UNCHANGED <<log, command, sends, diskVars, bufferVars, jobs, fetch, losses>>
    BY <1>5 DEF InlineThrows
  <2> QED BY <2>1 DEF Typed, LogTyped, DiskTyped, BufferTyped, JobsTyped, FetchTyped, LossesTyped,
            diskVars, bufferVars, Keyed
<1> QED BY <1>1, <1>2, <1>3, <1>4, <1>5

\* A push becomes a row, with or without a row of memory to put it on.
LEMMA MergedPush ==
    ASSUME NEW known, \A e \in known : e \in MessageRecord /\ e.by = "none",
           NEW r \in MessageRecord, r.by = "none"
    PROVE  MergeOnPushAbsorb(known, r) \in MessageRecord /\ MergeOnPushAbsorb(known, r).by = "none"
<1>1. CASE known = {}
  <2>1. MergeOnPushAbsorb(known, r) = [r EXCEPT !.status = IF Mine(r.smid) /\ r.body THEN "sent" ELSE @]
    BY <1>1 DEF MergeOnPushAbsorb
  <2> QED BY <2>1 DEF MessageRecord
<1>2. CASE known # {}
  <2> DEFINE e == CHOOSE e \in known : TRUE
             k == MergeOnPushAbsorb(known, r)
  <2>1. e \in MessageRecord /\ e.by = "none"
    BY <1>2
  <2>2. k = [e EXCEPT !.smid = IF e.smid # 0 THEN e.smid ELSE r.smid,
                      !.lmid = IF e.lmid # 0 THEN e.lmid ELSE r.lmid,
                      !.pts = IF e.pts # 0 THEN e.pts ELSE r.pts,
                      !.body = e.body \/ r.body,
                      !.status = IF e.status \in {"pending", "sent"} THEN "sent"
                                 ELSE IF r.body THEN r.status ELSE e.status,
                      !.revoked = e.revoked \/ r.revoked]
    BY <1>2 DEF MergeOnPushAbsorb
  <2> HIDE DEF e, k
  <2> QED BY ZenonT(60), <2>1, <2>2 DEF MessageRecord, k
<1> QED BY <1>1, <1>2

\* Pushes keep Typed.
LEMMA PushesTyped ==
    ASSUME Typed, \/ RunPushed
                  \/ \E m \in DOMAIN log, body \in BOOLEAN : Absorb(m, body)
    PROVE  Typed'
<1>1. CASE RunPushed
  <2>1. jobs # <<>> /\ Head(jobs).op = "row" /\ Ended
    BY <1>1 DEF RunPushed, Heads
  <2>2. JobsTyped' /\ TheRow \in MessageRecord /\ TheRow.by = "none"
    BY <2>1, JobEnded, HeadRow DEF Typed
  <2>3. Keyed(UpsertRow(disk, TheRow), diskMode)
    BY <2>2, UpsertedRow DEF Typed, DiskTyped
  <2>4. ReconcileOrderMode(UpsertRow(disk, TheRow)) \/ UNCHANGED diskVars
    BY <1>1 DEF RunPushed
  <2>5. DiskTyped'
    <3>1. CASE ReconcileOrderMode(UpsertRow(disk, TheRow))
      BY <3>1, <2>3, Reconciled DEF Typed, DiskTyped
    <3>2. CASE UNCHANGED diskVars
      BY <3>2 DEF Typed, DiskTyped, diskVars, Keyed
    <3> QED BY <2>4, <3>1, <3>2
  <2>6. LossesTyped'
    BY <1>1 DEF RunPushed, Typed, LossesTyped
  <2>7. UNCHANGED <<log, outVars, bufferVars, fetch>>
    BY <1>1 DEF RunPushed
  <2> QED BY <2>2, <2>5, <2>6, <2>7 DEF Typed, LogTyped, BufferTyped, FetchTyped, outVars, bufferVars, Loose
<1>2. ASSUME NEW m \in DOMAIN log, NEW body \in BOOLEAN, Absorb(m, body) PROVE Typed'
  <2> DEFINE push == PushRow(Mint(1), m, body, log[m].revoked)
             match == {r \in buffer : Same(r, push)}
             key(r) == SortKey(r, bufferMode)
             known == {r \in match : \A o \in match \ {r} : Precedes(key(r), key(o))}
             row == MergeOnPushAbsorb(known, push)
  <2>1. Mint(1) \in Ids
    BY <1>2, MintedId DEF Absorb, Free
  <2>2. push \in MessageRecord /\ push.by = "none"
    BY <2>1, BuiltRows DEF Typed, PushRow
  <2>3. \A e \in known : e \in MessageRecord /\ e.by = "none"
    BY DEF Typed, BufferTyped, Loose
  <2>4. Issue("row", {row}) /\ UpsertBuffer({row})
    BY <1>2 DEF Absorb
  <2> HIDE DEF known, push
  <2>5. row \in MessageRecord /\ row.by = "none"
    BY <2>2, <2>3, MergedPush
  <2> HIDE DEF row
  <2>6. JobTyped(Job("row", {row})) /\ Loose({row})
    BY <2>5 DEF JobTyped, Loose, Carries, Job
  <2>7. JobsTyped' /\ BufferTyped'
    BY <2>4, <2>6, Issued, BufferUpserted DEF Typed, Ops
  <2>8. LossesTyped'
    BY <1>2 DEF Absorb, Typed, LossesTyped, Overtakes
  <2>9. UNCHANGED <<log, outVars, diskVars, fetch>>
    BY <1>2 DEF Absorb
  <2> QED BY <2>7, <2>8, <2>9 DEF Typed, LogTyped, DiskTyped, FetchTyped, outVars, diskVars, Keyed
<1> QED BY <1>1, <1>2

\* The window of the database, as memory sees it, holds rows of the database.
LEMMA WindowRows ==
    ASSUME DiskTyped
    PROVE  LET w == {Strip(r) : r \in MessageWindow} IN w \subseteq Bare /\ Loose(w)
<1>1. MessageWindow \subseteq disk /\ disk \subseteq MessageRecord
  BY DEF MessageWindow, DiskTyped, Keyed
<1> QED BY <1>1, StripRow DEF Bare, Bared, Loose

\* Opening a conversation keeps Typed.
LEMMA OpeningTyped ==
    ASSUME Typed, OpenConversation \/ RunMode \/ RunWindow \/ PageHistory
    PROVE  Typed'
<1>1. CASE OpenConversation
  <2>1. JobTyped(Job("mode", {}))
    BY DEF JobTyped, Loose, Job
  <2>2. JobsTyped'
    BY <1>1, <2>1, Issued DEF Typed, Ops, OpenConversation
  <2>3. FetchTyped'
    BY <1>1 DEF OpenConversation, Typed, FetchTyped, Fetches
  <2>4. UNCHANGED <<log, outVars, diskVars, bufferVars, losses>>
    BY <1>1 DEF OpenConversation
  <2> QED BY <2>2, <2>3, <2>4 DEF Typed, LogTyped, DiskTyped, BufferTyped, LossesTyped,
            outVars, diskVars, bufferVars, Keyed, Loose
<1>2. CASE RunMode
  <2>1. JobTyped(Job("window", {}))
    BY DEF JobTyped, Loose, Job
  <2>2. JobsTyped'
    BY <1>2, <2>1, JobFollowed DEF Typed, Ops, RunMode, Heads
  <2>3. FetchTyped'
    BY <1>2 DEF RunMode, Typed, FetchTyped, Fetches
  <2>4. BufferTyped'
    BY <1>2 DEF RunMode, Typed, BufferTyped, DiskTyped, Loose
  <2>5. UNCHANGED <<log, outVars, diskVars, losses>>
    BY <1>2 DEF RunMode
  <2> QED BY <2>2, <2>3, <2>4, <2>5 DEF Typed, LogTyped, DiskTyped, LossesTyped, outVars, diskVars, Keyed
<1>3. CASE RunWindow
  <2>1. JobsTyped'
    BY <1>3, JobEnded DEF Typed, RunWindow, Heads
  <2>2. FetchTyped'
    BY <1>3 DEF RunWindow, Typed, FetchTyped, Fetches
  <2>3. BufferTyped'
    <3>1. CASE disk = {}
      BY <1>3, <3>1 DEF RunWindow, Typed, BufferTyped, bufferVars, Loose
    <3>2. CASE disk # {}
      <4> DEFINE w == {Strip(r) : r \in MessageWindow}
      <4>1. ReplaceWindow(bufferMode, w)
        BY <1>3, <3>2 DEF RunWindow
      <4>2. Loose(w)
        BY WindowRows DEF Typed
      <4> HIDE DEF w
      <4> QED BY <4>1, <4>2, BufferReplaced DEF Typed, BufferTyped
    <3> QED BY <3>1, <3>2
  <2>4. UNCHANGED <<log, outVars, diskVars, losses>>
    BY <1>3 DEF RunWindow
  <2> QED BY <2>1, <2>2, <2>3, <2>4 DEF Typed, LogTyped, DiskTyped, LossesTyped, outVars, diskVars, Keyed
<1>4. CASE PageHistory
  <2>1. FetchTyped'
    BY <1>4 DEF PageHistory, Typed, FetchTyped, Fetches
  <2>2. UNCHANGED <<log, outVars, diskVars, bufferVars, jobs, losses>>
    BY <1>4 DEF PageHistory
  <2> QED BY <2>1, <2>2 DEF Typed, LogTyped, DiskTyped, BufferTyped, JobsTyped, LossesTyped,
            outVars, diskVars, bufferVars, Keyed, Loose
<1> QED BY <1>1, <1>2, <1>3, <1>4

\* The rows of an answer: one for each of the last n messages up to hi, under
\* ids nobody has.
AnswerRows(hi, n, withPts) == {HistoryRow(Mint(k), hi - n + k, withPts) : k \in 1..n}

\* The rows of an answer: one per message, ids minted.
LEMMA AnsweredRows ==
    ASSUME Typed, NEW hi \in 0..Len(log), NEW n \in Nat, n <= hi, n <= Cardinality(Free),
           NEW withPts \in BOOLEAN,
           NEW A, A = AnswerRows(hi, n, withPts)
    PROVE  /\ Loose(A) /\ Numbered(A)
           /\ \A a, b \in A : a.id = b.id => a = b
           /\ \A a \in A : /\ a.id \in Free /\ a.smid \in DOMAIN log
                           /\ a = HistoryRow(a.id, a.smid, withPts)
<1>1. Len(log) \in Nat /\ DOMAIN log = 1..Len(log)
  BY DEF Typed, LogTyped
<1>2. Cardinality(Free) \in Nat
  <2>1. IsFiniteSet(Ids)
    BY Numbers, FS_Interval DEF Ids
  <2>2. Free \in SUBSET Ids
    BY DEF Free
  <2> QED BY <2>1, <2>2, FS_Subset, FS_CardinalityType
<1>3. \A k \in 1..n : /\ k \in 1..Cardinality(Free) /\ hi - n + k \in DOMAIN log
                      /\ Mint(k) \in Free /\ Mint(k) \in Ids
                      /\ \A j \in 1..n : Mint(j) = Mint(k) => j = k
                      /\ \A j \in 1..n : hi - n + j = hi - n + k => j = k
  <2> SUFFICES ASSUME NEW k \in 1..n
               PROVE  /\ k \in 1..Cardinality(Free) /\ hi - n + k \in DOMAIN log
                      /\ Mint(k) \in Free /\ Mint(k) \in Ids
                      /\ \A j \in 1..n : Mint(j) = Mint(k) => j = k
                      /\ \A j \in 1..n : hi - n + j = hi - n + k => j = k
    OBVIOUS
  <2>1. \A j \in 1..n : j \in 1..Cardinality(Free)
    BY <1>2
  <2>2. hi - n + k \in 1..Len(log)
    BY <1>1
  <2>3. Mint(k) \in Free /\ \A j \in 1..n : Mint(j) = Mint(k) => j = k
    BY <2>1, MintedIds
  <2>4. \A j \in 1..n : hi - n + j = hi - n + k => j = k
    BY <1>1
  <2> QED BY <2>1, <2>2, <2>3, <2>4, <1>1 DEF Free
<1>4. \A k \in 1..n : /\ HistoryRow(Mint(k), hi - n + k, withPts) \in MessageRecord
                      /\ HistoryRow(Mint(k), hi - n + k, withPts).id = Mint(k)
                      /\ HistoryRow(Mint(k), hi - n + k, withPts).smid = hi - n + k
                      /\ HistoryRow(Mint(k), hi - n + k, withPts).by = "none"
  <2>1. \A k \in 1..n : HistoryRow(Mint(k), hi - n + k, withPts) \in MessageRecord
    BY <1>3, BuiltRows DEF Typed
  <2> QED BY <2>1 DEF HistoryRow
<1> DEFINE H(k) == HistoryRow(Mint(k), hi - n + k, withPts)
<1>5. \A a \in A : \E k \in 1..n : a = H(k)
  BY DEF AnswerRows
<1>6. \A k \in 1..n : H(k) \in MessageRecord /\ H(k).id = Mint(k) /\ H(k).smid = hi - n + k /\ H(k).by = "none"
                      /\ H(k) = HistoryRow(H(k).id, H(k).smid, withPts)
  BY <1>4
<1> HIDE DEF H
<1>7. Loose(A)
  BY <1>5, <1>6 DEF Loose
<1>8. \A a, b \in A : a.smid = b.smid \/ a.id = b.id => a = b
  <2> SUFFICES ASSUME NEW a \in A, NEW b \in A, a.smid = b.smid \/ a.id = b.id PROVE a = b
    OBVIOUS
  <2>1. PICK j \in 1..n, k \in 1..n : a = H(j) /\ b = H(k)
    BY <1>5
  <2>2. j = k
    BY <2>1, <1>3, <1>6
  <2> QED BY <2>1, <2>2
<1>9. \A a \in A : a.id \in Free /\ a.smid \in DOMAIN log /\ a = HistoryRow(a.id, a.smid, withPts)
  BY <1>3, <1>5, <1>6
<1> QED BY <1>7, <1>8, <1>9 DEF Numbered

\* What AnswerHistory puts on its way.
LEMMA AnsweredHistory ==
    ASSUME Typed, AnswerHistory
    PROVE  \/ fetch' = NoFetch
           \/ \E withPts \in BOOLEAN, A \in SUBSET MessageRecord :
                 /\ Loose(A) /\ Numbered(A) /\ \A a, b \in A : a.id = b.id => a = b
                 /\ \A a \in A : /\ a.id \in Free /\ a.smid \in DOMAIN log
                                 /\ a = HistoryRow(a.id, a.smid, withPts)
                 /\ fetch' = [fetch EXCEPT !.at = "answered", !.rows = A]
<1>1. Len(log) \in Nat /\ DOMAIN log = 1..Len(log)
  BY DEF Typed, LogTyped
<1>2. PICK hi \in (IF fetch.kind = "open" THEN {Len(log)} ELSE DOMAIN log), withPts \in BOOLEAN :
         LET n == IF hi < Window THEN hi ELSE Window IN
         /\ Cardinality(Free) >= n
         /\ fetch' = IF n = 0 THEN NoFetch
                     ELSE [fetch EXCEPT !.at = "answered",
                           !.rows = {HistoryRow(Mint(k), hi - n + k, withPts) : k \in 1..n}]
  BY DEF AnswerHistory
<1>3. hi \in 0..Len(log) /\ hi \in Nat
  BY <1>1
<1>4. PICK n \in Nat : n = IF hi < Window THEN hi ELSE Window
  BY <1>3, Numbers
<1>5. n <= hi
  BY <1>3, <1>4, Numbers
<1>6. IsFiniteSet(Free) /\ Cardinality(Free) \in Nat
  <2>1. IsFiniteSet(Ids)
    BY Numbers, FS_Interval DEF Ids
  <2>2. Free \in SUBSET Ids
    BY DEF Free
  <2> QED BY <2>1, <2>2, FS_Subset, FS_CardinalityType
<1> DEFINE A == AnswerRows(hi, n, withPts)
<1>7. Cardinality(Free) >= n /\ fetch' = IF n = 0 THEN NoFetch ELSE [fetch EXCEPT !.at = "answered", !.rows = A]
  BY <1>2, <1>4 DEF AnswerRows
<1>8. /\ Loose(A) /\ Numbered(A) /\ \A a, b \in A : a.id = b.id => a = b
      /\ \A a \in A : a.id \in Free /\ a.smid \in DOMAIN log /\ a = HistoryRow(a.id, a.smid, withPts)
  <2>1. n <= Cardinality(Free)
    BY <1>6, <1>7
  <2> QED BY <1>3, <1>5, <2>1, AnsweredRows
<1>9. A \in SUBSET MessageRecord
  BY <1>8 DEF Loose
<1> HIDE DEF A
<1> QED BY <1>7, <1>8, <1>9

\* Answers keep Typed.
LEMMA HistoryTyped ==
    ASSUME Typed, AnswerHistory \/ StoreHistory \/ RunHistory \/ RunReread
    PROVE  Typed'
<1>1. CASE AnswerHistory
  <2>1. FetchTyped'
    <3>1. CASE fetch' = NoFetch
      BY <3>1 DEF NoFetch, FetchTyped, Fetches, Loose, Numbered
    <3>2. CASE fetch' # NoFetch
      <4>1. PICK A \in SUBSET MessageRecord : Loose(A) /\ Numbered(A) /\ fetch' = [fetch EXCEPT !.at = "answered", !.rows = A]
        BY <1>1, <3>2, AnsweredHistory
      <4> QED BY <4>1 DEF Typed, FetchTyped, Fetches
    <3> QED BY <3>1, <3>2
  <2>2. UNCHANGED <<log, outVars, diskVars, bufferVars, jobs, losses>>
    BY <1>1 DEF AnswerHistory
  <2> QED BY <2>1, <2>2 DEF Typed, LogTyped, DiskTyped, BufferTyped, JobsTyped, LossesTyped,
            outVars, diskVars, bufferVars, Keyed, Loose
<1>2. CASE StoreHistory
  <2>1. JobTyped(Job("history", fetch.rows))
    BY DEF Typed, FetchTyped, JobTyped, Job
  <2>2. JobsTyped'
    BY <1>2, <2>1, Issued DEF Typed, Ops, StoreHistory
  <2>3. FetchTyped'
    BY <1>2 DEF StoreHistory, Typed, FetchTyped, Fetches, Loose, Numbered
  <2>4. UNCHANGED <<log, outVars, diskVars, bufferVars, losses>>
    BY <1>2 DEF StoreHistory
  <2> QED BY <2>2, <2>3, <2>4 DEF Typed, LogTyped, DiskTyped, BufferTyped, LossesTyped,
            outVars, diskVars, bufferVars, Keyed, Loose
<1>3. CASE RunHistory
  <2> DEFINE answer == Head(jobs).rows
             rows == UpsertRows(disk, answer)
  <2>1. jobs # <<>> /\ Head(jobs).op = "history"
    BY <1>3 DEF RunHistory, Heads
  <2>2. JobTyped(Head(jobs)) /\ Loose(answer) /\ Numbered(answer)
    BY <2>1, HeadJob DEF Typed, JobTyped
  <2>3. Keyed(rows, diskMode)
    BY <2>2, UpsertedRows DEF Typed, DiskTyped
  <2>4. \/ ReconcileOrderMode(rows) /\ FollowedBy("reread", answer) /\ UNCHANGED <<bufferVars, fetch, losses>>
        \/ /\ ReconcileOrderMode(rows) /\ UpsertBuffer(answer) /\ Ended
           /\ fetch' = NoFetch /\ losses' = losses \cup Overtakes({"publish"})
        \/ Ended /\ fetch' = NoFetch /\ UNCHANGED <<diskVars, bufferVars, losses>>
    BY <1>3 DEF RunHistory
  <2> HIDE DEF rows
  <2>5. DiskTyped'
    <3>1. CASE ReconcileOrderMode(rows)
      BY <3>1, <2>3, Reconciled DEF Typed, DiskTyped
    <3>2. CASE UNCHANGED diskVars
      BY <3>2 DEF Typed, DiskTyped, diskVars, Keyed
    <3> QED BY <2>4, <3>1, <3>2
  <2>6. JobsTyped'
    <3>1. JobTyped(Job("reread", answer))
      BY <2>2 DEF JobTyped, Job
    <3>2. CASE FollowedBy("reread", answer)
      BY <3>1, <3>2, <2>1, JobFollowed DEF Typed, Ops
    <3>3. CASE Ended
      BY <3>3, <2>1, JobEnded DEF Typed
    <3> QED BY <2>4, <3>2, <3>3
  <2>7. BufferTyped'
    <3>1. CASE UpsertBuffer(answer)
      BY <3>1, <2>2, BufferUpserted DEF Typed
    <3>2. CASE UNCHANGED bufferVars
      BY <3>2 DEF Typed, BufferTyped, bufferVars, Loose
    <3> QED BY <2>4, <3>1, <3>2
  <2>8. FetchTyped'
    <3>1. CASE UNCHANGED fetch
      BY <3>1 DEF Typed, FetchTyped
    <3>2. CASE fetch' = NoFetch
      BY <3>2 DEF NoFetch, FetchTyped, Fetches, Loose, Numbered
    <3> QED BY <2>4, <3>1, <3>2
  <2>9. LossesTyped'
    BY <2>4 DEF Typed, LossesTyped, Overtakes
  <2>10. UNCHANGED <<log, outVars>>
    BY <1>3 DEF RunHistory
  <2> QED BY <2>5, <2>6, <2>7, <2>8, <2>9, <2>10 DEF Typed, LogTyped, outVars
<1>4. CASE RunReread
  <2>1. jobs # <<>> /\ Loose(Head(jobs).rows)
    BY <1>4, HeadJob DEF Typed, RunReread, Heads
  <2>2. JobsTyped'
    BY <1>4, <2>1, JobEnded DEF Typed, RunReread
  <2>3. BufferTyped'
    BY <1>4, <2>1, BufferReplaced DEF Typed, RunReread, DiskTyped
  <2>4. FetchTyped'
    BY <1>4 DEF RunReread, NoFetch, FetchTyped, Fetches, Loose, Numbered
  <2>5. LossesTyped'
    BY <1>4 DEF RunReread, Typed, LossesTyped, Overtakes
  <2>6. UNCHANGED <<log, outVars, diskVars>>
    BY <1>4 DEF RunReread
  <2> QED BY <2>2, <2>3, <2>4, <2>5, <2>6 DEF Typed, LogTyped, DiskTyped, outVars, diskVars, Keyed
<1> QED BY <1>1, <1>2, <1>3, <1>4

\* Sync pages keep Typed.
LEMMA PagesTyped ==
    ASSUME Typed, RunMerge \/ RunPublish \/ \E m \in DOMAIN log : SyncPage(m)
    PROVE  Typed'
<1>1. CASE RunMerge
  <2> DEFINE c == TheRow
             told == {Strip(r) : r \in {e \in disk' : e.smid = c.smid}}
  <2>1. jobs # <<>> /\ Head(jobs).op = "page" /\ FollowedBy("publish", told)
    BY <1>1 DEF RunMerge, Heads
  <2>2. c \in MessageRecord /\ c.by = "none"
    BY <2>1, HeadRow DEF Typed
  <2>3. PICK local \in Firsts(IF c.lmid = 0 THEN {} ELSE ByLmid(c.lmid)) :
           ApplyAck(local, c) \/ ReconcileOrderMode(UpsertRow(disk, c)) \/ UNCHANGED diskVars
    BY <1>1 DEF RunMerge
  <2>4. DiskTyped'
    <3>1. CASE ApplyAck(local, c)
      <4>1. local \in Firsts(ByLmid(c.lmid)) \/ local = {}
        BY DEF Firsts
      <4>2. CASE local \in Firsts(ByLmid(c.lmid))
        BY <3>1, <4>2, <2>2, AckedRow DEF Typed
      <4>3. CASE local = {}
        <5>1. local \in Firsts(ByLmid(MaxSends + 1))
          <6>1. ByLmid(MaxSends + 1) = {}
            BY RowTyped, Numbers DEF ByLmid, Typed, DiskTyped, Keyed
          <6> QED BY <4>3, <6>1 DEF Firsts
        <5> QED BY <3>1, <5>1, <2>2, AckedRow DEF Typed
      <4> QED BY <4>1, <4>2, <4>3
    <3>2. CASE ReconcileOrderMode(UpsertRow(disk, c))
      <4>1. Keyed(UpsertRow(disk, c), diskMode)
        BY <2>2, UpsertedRow DEF Typed, DiskTyped
      <4> QED BY <3>2, <4>1, Reconciled DEF Typed, DiskTyped
    <3>3. CASE UNCHANGED diskVars
      BY <3>3 DEF Typed, DiskTyped, diskVars, Keyed
    <3> QED BY <2>3, <3>1, <3>2, <3>3
  <2>5. Loose(told)
    BY <2>4, StripRow DEF DiskTyped, Keyed, Loose
  <2> HIDE DEF told
  <2>6. JobTyped(Job("publish", told))
    BY <2>5 DEF JobTyped, Job
  <2>7. JobsTyped'
    BY <2>1, <2>6, JobFollowed DEF Typed, Ops
  <2>8. UNCHANGED <<log, outVars, bufferVars, fetch, losses>>
    BY <1>1 DEF RunMerge
  <2> QED BY <2>4, <2>7, <2>8 DEF Typed, LogTyped, BufferTyped, FetchTyped, LossesTyped, outVars, bufferVars, Loose
<1>2. CASE RunPublish
  <2>1. jobs # <<>> /\ Loose(Head(jobs).rows)
    BY <1>2, HeadJob DEF Typed, RunPublish, Heads
  <2>2. JobsTyped'
    BY <1>2, <2>1, JobEnded DEF Typed, RunPublish
  <2>3. buffer' = Overlay(buffer, Head(jobs).rows) /\ bufferMode' = NoteRows(diskMode, Head(jobs).rows)
    BY <1>2 DEF RunPublish
  <2>4. Loose(buffer') /\ bufferMode' \in Modes
    BY <2>1, <2>3, PlainOverlay, NotedMode DEF Typed, BufferTyped, DiskTyped
  <2>5. LossesTyped'
    BY <1>2 DEF RunPublish, Typed, LossesTyped, Overtakes
  <2>6. UNCHANGED <<log, outVars, diskVars, fetch>>
    BY <1>2 DEF RunPublish
  <2> QED BY <2>2, <2>4, <2>5, <2>6 DEF Typed, LogTyped, DiskTyped, BufferTyped, FetchTyped, outVars, diskVars,
            Keyed, Loose
<1>3. ASSUME NEW m \in DOMAIN log, SyncPage(m) PROVE Typed'
  <2> DEFINE c == CommitRow(Mint(1), m)
  <2>1. Mint(1) \in Ids
    BY <1>3, MintedId DEF SyncPage, Free
  <2>2. c \in MessageRecord /\ c.by = "none"
    BY <2>1, BuiltRows DEF Typed, CommitRow
  <2> HIDE DEF c
  <2>3. JobTyped(Job("page", {c}))
    BY <2>2 DEF JobTyped, Loose, Carries, Job
  <2>4. JobsTyped'
    BY <1>3, <2>3, Issued DEF Typed, Ops, SyncPage, c
  <2>5. UNCHANGED <<log, outVars, diskVars, bufferVars, fetch, losses>>
    BY <1>3 DEF SyncPage
  <2> QED BY <2>4, <2>5 DEF Typed, LogTyped, DiskTyped, BufferTyped, FetchTyped, LossesTyped,
            outVars, diskVars, bufferVars, Keyed, Loose
<1> QED BY <1>1, <1>2, <1>3

\* Faults keep Typed.
LEMMA FaultsTyped ==
    ASSUME Typed, JobFails \/ TabReloads
    PROVE  Typed'
<1>1. CASE JobFails
  <2>1. JobsTyped'
    BY <1>1, JobEnded DEF Typed, JobFails
  <2>2. buffer' \subseteq buffer /\ bufferMode' = bufferMode
    BY <1>1 DEF JobFails
  <2>3. inline' \subseteq inline /\ UNCHANGED <<log, command, sends, diskVars>>
    BY <1>1 DEF JobFails
  <2>4. fetch' \in {fetch, NoFetch} /\ losses' \subseteq losses \cup {"lost"}
    BY <1>1 DEF JobFails
  <2>5. BufferTyped'
    BY <2>2 DEF Typed, BufferTyped, Loose
  <2>6. FetchTyped'
    <3>1. CASE fetch' = fetch
      BY <3>1 DEF Typed, FetchTyped
    <3>2. CASE fetch' = NoFetch
      BY <3>2 DEF NoFetch, FetchTyped, Fetches, Loose, Numbered
    <3> QED BY <2>4, <3>1, <3>2
  <2> QED BY <2>1, <2>3, <2>4, <2>5, <2>6 DEF Typed, LogTyped, DiskTyped, LossesTyped, diskVars, Keyed
<1>2. CASE TabReloads
  <2>1. jobs' = <<>> /\ Planned(jobs') = {}
    BY <1>2 DEF TabReloads, Planned
  <2>2. JobsTyped'
    BY <2>1, Numbers DEF JobsTyped
  <2>3. BufferTyped' /\ FetchTyped'
    BY <1>2 DEF TabReloads, BufferTyped, Loose, Modes, NoFetch, FetchTyped, Fetches, Numbered
  <2>4. LogTyped' /\ DiskTyped' /\ LossesTyped'
    BY <1>2 DEF TabReloads, Typed, LogTyped, DiskTyped, LossesTyped, diskVars, Keyed
  <2> QED BY <2>2, <2>3, <2>4 DEF Typed
<1> QED BY <1>1, <1>2

\* Typed is inductive.
LEMMA TypedKeeps ==
    ASSUME Typed, TimelineNext \/ UNCHANGED timelineVars
    PROVE  Typed'
<1>1. CASE UNCHANGED timelineVars
  BY <1>1 DEF timelineVars, outVars, diskVars, bufferVars, Typed, LogTyped, DiskTyped, BufferTyped,
     JobsTyped, FetchTyped, LossesTyped, Keyed, Loose
<1>2. CASE TimelineNext
  <2>1. CASE PeerWrites \/ (\E l \in 1..sends : Accept(l)) \/ (\E m \in DOMAIN log : Revoke(m))
    BY <2>1, ServerTyped
  <2>2. CASE SendText \/ RunCreate \/ RunAck \/ (\E l \in 1..sends : Ack(l) \/ InlineThrows(l))
    BY <2>2, SendsTyped
  <2>3. CASE RunPushed \/ \E m \in DOMAIN log, body \in BOOLEAN : Absorb(m, body)
    BY <2>3, PushesTyped
  <2>4. CASE OpenConversation \/ RunMode \/ RunWindow \/ PageHistory
    BY <2>4, OpeningTyped
  <2>5. CASE AnswerHistory \/ StoreHistory \/ RunHistory \/ RunReread
    BY <2>5, HistoryTyped
  <2>6. CASE RunMerge \/ RunPublish \/ \E m \in DOMAIN log : SyncPage(m)
    BY <2>6, PagesTyped
  <2>7. CASE JobFails \/ TabReloads
    BY <2>7, FaultsTyped
  <2> QED BY <1>2, <2>1, <2>2, <2>3, <2>4, <2>5, <2>6, <2>7 DEF TimelineNext
<1> QED BY <1>1, <1>2

-----------------------------------------------------------------------------
(* What every step is held to: rows, ids, commands, waiting jobs.          *)

\* The log grows: what was said of a message is still said.
LogKeeps ==
    /\ sends' \in Nat /\ sends <= sends' /\ DOMAIN log \subseteq DOMAIN log'
    /\ \A m \in DOMAIN log : /\ log'[m].lmid = log[m].lmid
                             /\ log[m].revoked => log'[m].revoked

\* A step that leaves server, commands and database alone.
Still == LogKeeps /\ UNCHANGED <<log, command, disk>>

\* A row the step makes goes on from a row that had its id, or its id is new.
Heir(n)  == \E p \in Copies : p.id = n.id /\ Kin(p, n)' /\ (p.body /\ p.exact => n.body /\ n.exact)
NewId(n) == (\A p \in Copies : p.id # n.id) /\ \A l \in 1..MaxSends : command[l] # n.id

\* What memory and database said of a message they say after the step.
NothingForgotten ==
    /\ \A a \in buffer, b \in buffer' : a.smid # 0 /\ a.smid = b.smid => Knows(b, a)
    /\ \A a \in Bare, b \in Bare' : a.smid # 0 /\ a.smid = b.smid => Knows(b, a)

\* Rows under way, wherever they are, are plain.
LEMMA PlacedRows ==
    ASSUME Typed
    PROVE  /\ Loose(Bare) /\ Loose(Copies) /\ Loose(buffer) /\ Loose(fetch.rows)
           /\ Bare \subseteq Copies /\ buffer \subseteq Copies /\ fetch.rows \subseteq Copies
           /\ \A x \in Planned(jobs) : x.rows \subseteq Copies /\ Loose(x.rows)
<1>1. Loose(Bare)
  BY BaredRows DEF Typed, DiskTyped, Keyed, Bare
<1>2. Loose(buffer) /\ Loose(fetch.rows)
  BY DEF Typed, BufferTyped, FetchTyped
<1>3. \A x \in Planned(jobs) : Loose(x.rows)
  BY DEF Typed, JobsTyped, JobTyped
<1> QED BY <1>1, <1>2, <1>3 DEF Copies, Loose

\* Where the rows of the next state come from.
LEMMA PlacedNext ==
    ASSUME NEW N, Bare' \subseteq Copies \cup N, buffer' \subseteq Copies \cup N,
           fetch'.rows \subseteq Copies \cup N, \A x \in Planned(jobs') : x.rows \subseteq Copies \cup N
    PROVE  Copies' \subseteq Copies \cup N
  BY DEF Copies

\* A free id names no row and no command.
LEMMA FreeIds ==
    ASSUME Typed
    PROVE  /\ \A i \in Free, p \in Copies : p.id # i
           /\ \A i \in Free, l \in 1..MaxSends : command[l] # i
<1>1. \A p \in Copies : p.id \in UsedIds
  <2>1. \A p \in Bare : \E d \in disk : p.id = d.id
    BY StripRow DEF Bare, Bared, Typed, DiskTyped, Keyed
  <2>2. \A x \in Planned(jobs) : \E j \in DOMAIN jobs : x = jobs[j]
    BY DEF Planned
  <2>3. \A x \in Planned(jobs) : \A p \in x.rows : p.id \in UsedIds
    BY <2>2 DEF UsedIds
  <2>4. \A p \in Bare \cup buffer \cup fetch.rows : p.id \in UsedIds
    BY <2>1 DEF UsedIds
  <2> QED BY <2>3, <2>4 DEF Copies
<1>2. \A l \in 1..MaxSends : command[l] \in UsedIds
  BY DEF UsedIds
<1> QED BY <1>1, <1>2 DEF Free

\* Rows told stay told, and of the same send.
LEMMA ToldKeeps ==
    ASSUME Typed, LogKeeps, NEW r \in MessageRecord, Real(r)
    PROVE  Real(r)' /\ Send(r)' = Send(r) /\ r.lmid \in 0..MaxSends
<1>1. sends \in Nat /\ r.lmid \in 0..MaxSends
  BY Numbers, RowTyped DEF Typed, LogTyped
<1>2. CASE r.smid = 0
  <2>1. sends' >= sends /\ (r.lmid \in 1..sends')
    BY <1>1, <1>2 DEF LogKeeps, Real
  <2> QED BY <1>1, <1>2, <2>1 DEF Real, Send
<1>3. CASE r.smid # 0
  <2>1. r.smid \in DOMAIN log /\ r.smid \in DOMAIN log' /\ log'[r.smid].lmid = log[r.smid].lmid
    BY <1>3 DEF LogKeeps, Real
  <2>2. log[r.smid].revoked => log'[r.smid].revoked
    BY <2>1 DEF LogKeeps
  <2>3. Send(r)' = Send(r)
    BY <2>1 DEF Send
  <2>4. Real(r)'
    BY <1>3, <2>1, <2>2 DEF Real, Mine
  <2> QED BY <1>1, <2>3, <2>4
<1> QED BY <1>2, <1>3

\* Rows that are heirs or fresh leave ids and what is told in order.
LEMMA RowsKeep ==
    ASSUME Typed, LogKeeps, RowsTold, IdsKin, NEW N \in SUBSET MessageRecord, Copies' \subseteq Copies \cup N,
           \A n \in N : Real(n)' /\ (Heir(n) \/ (NewId(n) /\ \A q \in N : q.id = n.id => q = n))
    PROVE  RowsTold' /\ IdsKin'
<1>1. \A p \in Copies : p \in MessageRecord /\ Real(p) /\ Real(p)' /\ Send(p)' = Send(p)
  BY PlacedRows, ToldKeeps DEF RowsTold, Loose
<1>2. RowsTold'
  BY <1>1 DEF RowsTold
<1>3. \A p, q \in Copies : p.id = q.id => Kin(p, q)'
  <2>1. \A p, q \in Copies : Kin(p, q) => Kin(p, q)'
    BY <1>1 DEF Kin
  <2> QED BY <2>1 DEF IdsKin
<1> DEFINE Root(a, p) == p \in Copies /\ p.id = a.id /\ Kin(p, a)'
<1>4. \A a \in Copies : Root(a, a)
  BY DEF Kin
<1>5. \A n \in N : (\E p \in Copies : Root(n, p)) \/ ((\A p \in Copies : p.id # n.id) /\ \A q \in N : q.id = n.id => q = n)
  BY DEF Heir, NewId
<1>6. ASSUME NEW a \in Copies \cup N, NEW b \in Copies \cup N, a.id = b.id
      PROVE  Kin(a, b)'
  <2>1. CASE (\E p \in Copies : Root(a, p)) /\ (\E q \in Copies : Root(b, q))
    <3>1. PICK p \in Copies, q \in Copies : Root(a, p) /\ Root(b, q)
      BY <2>1
    <3>2. Kin(p, q)'
      BY <3>1, <1>3, <1>6
    <3> QED BY <3>1, <3>2 DEF Kin
  <2>2. CASE a \in N /\ (\A p \in Copies : p.id # a.id) /\ \A q \in N : q.id = a.id => q = a
    <3>1. b = a
      <4>1. CASE b \in Copies
        BY <4>1, <2>2, <1>6
      <4>2. CASE b \in N
        BY <4>2, <2>2, <1>6
      <4> QED BY <4>1, <4>2
    <3> QED BY <3>1 DEF Kin
  <2>3. CASE b \in N /\ (\A p \in Copies : p.id # b.id) /\ \A q \in N : q.id = b.id => q = b
    <3>1. b = a
      <4>1. CASE a \in Copies
        BY <4>1, <2>3, <1>6
      <4>2. CASE a \in N
        BY <4>2, <2>3, <1>6
      <4> QED BY <4>1, <4>2
    <3> QED BY <3>1 DEF Kin
  <2> HIDE DEF Root
  <2>4. \A c \in Copies \cup N : \/ \E p \in Copies : Root(c, p)
                                \/ (c \in N /\ (\A p \in Copies : p.id # c.id) /\ \A q \in N : q.id = c.id => q = c)
    BY <1>4, <1>5
  <2> QED BY <2>1, <2>2, <2>3, <2>4
<1>7. IdsKin'
  BY <1>6 DEF IdsKin
<1> QED BY <1>2, <1>7

\* And the commands name the same sends.
LEMMA CommandKeep ==
    ASSUME Typed, LogKeeps, RowsTold, IdsCommand, NEW N \in SUBSET MessageRecord, Copies' \subseteq Copies \cup N,
           \A n \in N : Heir(n) \/ NewId(n),
           \A l \in 1..MaxSends : command'[l] \in {0, command[l]}
    PROVE  IdsCommand'
<1>1. \A p \in Copies : p \in MessageRecord /\ Real(p) /\ Send(p)' = Send(p)
  BY PlacedRows, ToldKeeps DEF RowsTold, Loose
<1> SUFFICES ASSUME NEW a \in Copies \cup N, NEW l \in 1..MaxSends, command'[l] = a.id
             PROVE  Send(a)' = l /\ a.body /\ a.exact
  BY DEF IdsCommand
<1>2. command[l] = a.id
  BY <1>1, RowTyped
<1>3. CASE a \in Copies
  BY <1>1, <1>2, <1>3 DEF IdsCommand
<1>4. CASE a \in N
  <2>1. PICK p \in Copies : p.id = a.id /\ Kin(p, a)' /\ (p.body /\ p.exact => a.body /\ a.exact)
    BY <1>2, <1>4 DEF Heir, NewId
  <2>2. Send(p) = l /\ p.body /\ p.exact
    BY <1>2, <2>1 DEF IdsCommand
  <2> QED BY <1>1, <2>1, <2>2 DEF Kin
<1> QED BY <1>3, <1>4

\* What memory held gives way to the rows taken in.
LEMMA BufferTaken ==
    ASSUME NEW held, Unlike(held), NEW N, Unlike(N), NEW after, after = Overlay(held, N)
    PROVE  /\ Unlike(after) /\ N \subseteq after
           /\ \A a \in after : a \in N \/ (a \in held /\ \A n \in N : a.id # n.id /\ ~Same(a, n))
  BY DEF Overlay, Unlike, Same

\* Each job that waits is of one of the kinds.
LEMMA WaitingOps ==
    ASSUME JobsTyped
    PROVE  \A x \in Planned(jobs) : x.op \in Ops
<1> DEFINE S == [op : Ops, rows : SUBSET MessageRecord]
<1>1. jobs \in Seq(S)
  BY DEF JobsTyped
<1>2. \A x \in S : x.op \in Ops
  OBVIOUS
<1> HIDE DEF S
<1>3. \A x \in Planned(jobs) : x \in S
  BY <1>1 DEF Planned
<1> QED BY <1>2, <1>3

\* A job that waits still holds.
LEMMA JobKeeps ==
    ASSUME Typed, LogKeeps, RowsTold, NEW x \in Planned(jobs), JobHolds(x),
           x.op = "create" => \A r \in x.rows : CreateHolds(r)',
           x.op = "ack" => \A r \in x.rows : command'[r.lmid] # 0,
           x.op \in {"page", "history"} => \A r \in x.rows : Uncommanded(r)',
           x.op = "row" => \A r \in x.rows, a \in buffer' : a \in buffer \/ a.smid # r.smid \/ a.pts # 0,
           x.op \in {"history", "reread", "publish"} =>
               \A r \in x.rows, a \in buffer' : a \in buffer \/ a.smid # r.smid \/ ~a.revoked \/ r.revoked,
           x.op \in {"reread", "publish"} => \A r \in x.rows : OnDisk(r) => OnDisk(r)',
           x.op = "publish" => \A r \in x.rows :
               (\E d \in Bare' : d.smid = r.smid /\ d.revoked) =>
                   (\E d \in Bare : d.smid = r.smid /\ d.revoked) \/ r.revoked \/ Queued({"reread"})',
           x.op = "publish" => (Queued({"reread"}) => Queued({"reread"})')
    PROVE  JobHolds(x)'
<1>1. \A r \in x.rows : r \in MessageRecord /\ Real(r) /\ Send(r)' = Send(r)
  BY PlacedRows, ToldKeeps DEF RowsTold, Loose
<1>2. CASE x.op = "create"
  BY <1>2 DEF JobHolds
<1>3. CASE x.op = "ack"
  BY <1>3 DEF JobHolds, AckHolds
<1>4. CASE x.op = "row"
  <2> SUFFICES ASSUME NEW r \in x.rows PROVE PushHolds(r)'
    BY <1>4 DEF JobHolds
  <2>1. PushHolds(r)
    BY <1>4 DEF JobHolds
  <2>2. Send(r) = r.lmid /\ Send(r)' = log'[r.smid].lmid
    BY <2>1 DEF PushHolds, Send
  <2> QED BY <1>1, <1>4, <2>1, <2>2 DEF PushHolds
<1>5. CASE x.op = "page"
  <2> SUFFICES ASSUME NEW r \in x.rows PROVE PageHolds(r)'
    BY <1>5 DEF JobHolds
  <2>1. PageHolds(r)
    BY <1>5 DEF JobHolds
  <2>2. Send(r) = r.lmid /\ Send(r)' = log'[r.smid].lmid
    BY <2>1 DEF PageHolds, Send
  <2> QED BY <1>1, <1>5, <2>1, <2>2 DEF PageHolds
<1>6. CASE x.op = "history"
  BY <1>6 DEF JobHolds, Obtains, UpToDate
<1>7. CASE x.op = "reread"
  BY <1>7 DEF JobHolds, Obtains, UpToDate
<1>8. CASE x.op = "publish"
  <2> SUFFICES ASSUME NEW r \in x.rows PROVE PublishHolds(r)'
    BY <1>8 DEF JobHolds
  <2>1. PublishHolds(r)
    BY <1>8 DEF JobHolds
  <2>2. UpToDate(r)' /\ OnDisk(r)'
    BY <1>8, <2>1 DEF PublishHolds, UpToDate
  <2>3. (\E d \in Bare' : d.smid = r.smid /\ d.revoked) => r.revoked \/ Queued({"reread"})'
    BY <1>8, <2>1 DEF PublishHolds
  <2> QED BY <2>1, <2>2, <2>3 DEF PublishHolds
<1>9. CASE x.op \in {"mode", "window"}
  BY <1>9 DEF JobHolds
<1>10. x.op \in Ops
  BY WaitingOps DEF Typed
<1> QED BY <1>2, <1>3, <1>4, <1>5, <1>6, <1>7, <1>8, <1>9, <1>10 DEF Ops

\* Jobs that carry what memory is to learn, or what the database is.
LEMMA JobsStay ==
    ASSUME Planned(jobs) \subseteq Planned(jobs') \cup {Head(jobs)}
    PROVE  /\ Head(jobs).op # "row" => \A a : PushedFor(a) => PushedFor(a)'
           /\ Head(jobs).op \notin {"publish", "reread"} => \A m : Fix(m) => Fix(m)'
  BY DEF PushedFor, Fix

\* Queued, in terms of the jobs that wait.
LEMMA QueuedJobs ==
    /\ \A ops : Queued(ops) <=> \E x \in Planned(jobs) : x.op \in ops
    /\ \A ops : Queued(ops)' <=> \E x \in Planned(jobs') : x.op \in ops
  BY DEF Queued, Planned

\* The parts of Whole: what a proof about one of them cites.
LEMMA StillKeeps ==
    ASSUME Typed, Whole, Still
    PROVE  /\ LogSound' /\ Unlike(Bare') /\ CommandsStored' /\ Bare' = Bare
           /\ \A r \in MessageRecord : CreateHolds(r) => CreateHolds(r)'
           /\ \A r : OnDisk(r)' <=> OnDisk(r)
           /\ \A r : Uncommanded(r)' <=> Uncommanded(r)
           /\ \A m : DiskGap(m)' <=> DiskGap(m)
           /\ \A a \in Bare, b \in Bare' : a.smid # 0 /\ a.smid = b.smid => Knows(b, a)
<1>1. Bare' = Bare /\ log' = log /\ command' = command /\ sends <= sends' /\ sends \in Nat /\ sends' \in Nat
  BY Numbers DEF Still, LogKeeps, Bare, Typed, LogTyped
<1>2. LogSound'
  <2>1. \A m \in DOMAIN log : log[m].lmid <= sends /\ log[m].lmid \in Nat
    BY BuiltRows, Numbers DEF Whole, LogSound, Typed, Ids
  <2>2. \A m \in DOMAIN log : log[m].lmid <= sends'
    BY <1>1, <2>1
  <2> QED BY <1>1, <2>2 DEF Whole, LogSound
<1>3. CommandsStored'
  <2>1. \A l \in 1..MaxSends : l <= sends => l <= sends'
    BY <1>1, Numbers
  <2> QED BY <1>1, <2>1 DEF Whole, CommandsStored
<1>4. \A r \in MessageRecord : CreateHolds(r) => CreateHolds(r)'
  <2>1. \A d \in Bare : Send(d)' = Send(d)
    BY <1>1 DEF Send
  <2> QED BY <1>1, <2>1 DEF CreateHolds
<1>5. \A a \in Bare, b \in Bare' : a.smid # 0 /\ a.smid = b.smid => Knows(b, a)
  BY <1>1 DEF Whole, Unlike, Same, Knows
<1> QED BY <1>1, <1>2, <1>3, <1>4, <1>5 DEF Whole, OnDisk, Uncommanded, DiskGap

\* What a job waits for stays in such a step.
LEMMA StillJob ==
    ASSUME Typed, Whole, Still, NEW x \in Planned(jobs),
           x.op = "row" => \A r \in x.rows, a \in buffer' : a \in buffer \/ a.smid # r.smid \/ a.pts # 0,
           x.op \in {"history", "reread", "publish"} =>
               \A r \in x.rows, a \in buffer' : a \in buffer \/ a.smid # r.smid \/ ~a.revoked \/ r.revoked,
           x.op = "publish" => (Queued({"reread"}) => Queued({"reread"})')
    PROVE  JobHolds(x)'
<1>1. JobHolds(x) /\ RowsTold /\ LogKeeps /\ command' = command
  BY DEF Whole, JobsHold, Still
<1>2. x.op = "create" => \A r \in x.rows : CreateHolds(r)'
  BY <1>1, PlacedRows, StillKeeps DEF JobHolds, Loose
<1>3. x.op = "ack" => \A r \in x.rows : command'[r.lmid] # 0
  BY <1>1 DEF JobHolds, AckHolds
<1>4. x.op \in {"page", "history"} => \A r \in x.rows : Uncommanded(r)'
  BY <1>1, StillKeeps DEF JobHolds, PageHolds
<1>5. x.op \in {"reread", "publish"} => \A r \in x.rows : OnDisk(r) => OnDisk(r)'
  BY StillKeeps
<1>6. x.op = "publish" => \A r \in x.rows :
         (\E d \in Bare' : d.smid = r.smid /\ d.revoked) =>
              (\E d \in Bare : d.smid = r.smid /\ d.revoked) \/ r.revoked \/ Queued({"reread"})'
  BY StillKeeps
<1> QED BY <1>1, <1>2, <1>3, <1>4, <1>5, <1>6, JobKeeps

\* A step that leaves memory alone, too.
LEMMA UntouchedKeeps ==
    ASSUME Typed, Whole, Still, buffer' = buffer
    PROVE  /\ NothingForgotten /\ Unlike(buffer')
           /\ \A x \in Planned(jobs) : (x.op = "publish" => (Queued({"reread"}) => Queued({"reread"})')) => JobHolds(x)'
           /\ \A h : (Obtains(h) /\ Uncommanded(h)) => (Obtains(h) /\ Uncommanded(h))'
<1>1. NothingForgotten /\ Unlike(buffer')
  BY StillKeeps DEF NothingForgotten, Whole, Unlike, Same, Knows
<1>2. \A x \in Planned(jobs) : (x.op = "publish" => (Queued({"reread"}) => Queued({"reread"})')) => JobHolds(x)'
  BY StillJob
<1>3. \A h : (Obtains(h) /\ Uncommanded(h)) => (Obtains(h) /\ Uncommanded(h))'
  BY StillKeeps DEF Obtains, UpToDate
<1> QED BY <1>1, <1>2, <1>3

\* SendText: an echo on a fresh id.
LEMMA SendTextKeeps ==
    ASSUME Typed, Whole, SendText, losses' = {}
    PROVE  Whole' /\ NothingForgotten
<1>1. sends \in Nat /\ sends + 1 \in 1..MaxSends /\ Mint(1) \in Free
  BY MintedId, Numbers DEF SendText, Typed, LogTyped
<1>2. PICK echo \in MessageRecord :
      /\ echo = Echo(Mint(1), sends + 1) /\ echo.by = "none" /\ echo.id \in Free
      /\ echo.smid = 0 /\ echo.lmid = sends + 1 /\ echo.pts = 0
      /\ echo.status = "pending" /\ echo.body /\ echo.exact /\ ~echo.revoked
  BY <1>1, BuiltRows DEF Typed, Echo, Free
<1>3. /\ buffer' = Overlay(buffer, {echo}) /\ bufferMode' = NoteRows(bufferMode, {echo})
      /\ Issue("create", {echo}) /\ sends' = sends + 1
      /\ UNCHANGED <<log, command, disk, diskMode, fetch, losses>>
  BY <1>2 DEF SendText, UpsertBuffer, diskVars
<1> DEFINE job == Job("create", {echo})
<1>4. bufferMode' = bufferMode
  BY <1>2, <1>3 DEF NoteRows, HasPtsGap
<1>5. Still
  BY <1>1, <1>3 DEF Still, LogKeeps
<1>6. \A r \in Copies : Real(r) /\ Send(r) \in 0..sends /\ r.lmid \in 0..sends /\ r \in MessageRecord
  <2> SUFFICES ASSUME NEW r \in Copies PROVE Real(r) /\ Send(r) \in 0..sends /\ r.lmid \in 0..sends /\ r \in MessageRecord
    OBVIOUS
  <2>1. r \in MessageRecord /\ Real(r) /\ r.lmid \in Nat
    BY PlacedRows, RowTyped DEF Whole, RowsTold, Loose
  <2>2. CASE r.smid = 0
    BY <1>1, <2>1, <2>2 DEF Real, Send
  <2>3. CASE r.smid # 0
    <3>1. r.smid \in DOMAIN log /\ r.lmid \in {0, log[r.smid].lmid}
      BY <2>1, <2>3 DEF Real
    <3>2. log[r.smid].lmid <= sends
      BY <3>1 DEF Whole, LogSound
    <3>3. log[r.smid] \in [lmid : 0..MaxSends, revoked : BOOLEAN]
      BY <1>1, <3>1, BuiltRows DEF Typed, Free
    <3>4. log[r.smid].lmid \in 0..sends
      BY <3>2, <3>3, Numbers
    <3> QED BY <2>1, <2>3, <3>1, <3>4, <1>1 DEF Send
  <2> QED BY <2>2, <2>3
<1>7. Real(echo)' /\ NewId(echo)
  <2>1. sends + 1 \in 1..sends'
    BY <1>1, <1>3
  <2> QED BY <1>2, <2>1, FreeIds DEF Real, NewId
<1>8. JobTyped(job)
  <2>1. sends + 1 # 0
    BY <1>1
  <2> QED BY <1>2, <2>1 DEF JobTyped, Loose, Carries, Job
<1>9. Planned(jobs') = Planned(jobs) \cup {job} /\ InOrder(jobs')
  <2>1. \A y \in Planned(jobs) : After(y, job)
    <3> SUFFICES ASSUME NEW y \in Planned(jobs) PROVE After(y, job)
      OBVIOUS
    <3>1. job.op = "create" /\ job.rows = {echo}
      BY DEF Job
    <3>2. \A r \in y.rows : r.lmid # echo.lmid
      <4>1. \A r \in y.rows : r.lmid \in 0..sends
        BY <1>6, PlacedRows
      <4> QED BY <4>1, <1>1, <1>2
    <3> HIDE DEF job
    <3> QED BY <3>1, <3>2 DEF After, Fetching
  <2> QED BY <1>3, <1>8, <2>1, Issued DEF Typed, Ops, Whole
<1>10. job.op = "create" /\ job.rows = {echo}
  BY DEF Job
<1> HIDE DEF job
<1>11. /\ Unlike(buffer') /\ echo \in buffer'
       /\ \A a \in buffer' : a = echo \/ (a \in buffer /\ a.id # echo.id)
  <2>1. PICK N : N = {echo}
    OBVIOUS
  <2>2. buffer' = Overlay(buffer, N) /\ Unlike(N) /\ Unlike(buffer)
    BY <1>3, <2>1 DEF Unlike, Whole
  <2>3. /\ Unlike(buffer') /\ N \subseteq buffer'
        /\ \A a \in buffer' : a \in N \/ (a \in buffer /\ \A n \in N : a.id # n.id /\ ~Same(a, n))
    BY <2>2, BufferTaken
  <2> QED BY <2>1, <2>3
<1>12. Copies' \subseteq Copies \cup {echo}
  <2>1. Bare' \subseteq Copies /\ buffer' \subseteq Copies \cup {echo} /\ fetch'.rows \subseteq Copies
    BY <1>3, <1>5, <1>11, PlacedRows, StillKeeps
  <2>2. \A x \in Planned(jobs') : x.rows \subseteq Copies \cup {echo}
    BY <1>9, <1>10, PlacedRows
  <2> QED BY <2>1, <2>2, PlacedNext
<1>13. RowsTold' /\ IdsKin' /\ IdsCommand'
  <2>1. {echo} \in SUBSET MessageRecord /\ LogKeeps /\ command' = command
    BY <1>2, <1>5 DEF Still
  <2>2. RowsTold' /\ IdsKin'
    BY <1>7, <1>12, <2>1, RowsKeep DEF Whole
  <2>3. IdsCommand'
    BY <1>7, <1>12, <2>1, CommandKeep DEF Whole
  <2> QED BY <2>2, <2>3
<1>14. FetchPlace'
  BY <1>3, <1>9, <1>10 DEF Whole, FetchPlace
<1>15. JobsHold'
  <2>1. ASSUME NEW x \in Planned(jobs) PROVE JobHolds(x)'
    <3>1. JobHolds(x)
      BY DEF Whole, JobsHold
    <3>2. x.op = "row" => \A r \in x.rows, a \in buffer' : a \in buffer \/ a.smid # r.smid \/ a.pts # 0
      BY <1>2, <1>11, <3>1 DEF JobHolds, PushHolds
    <3>3. x.op \in {"history", "reread", "publish"} =>
             \A r \in x.rows, a \in buffer' : a \in buffer \/ a.smid # r.smid \/ ~a.revoked \/ r.revoked
      BY <1>2, <1>11
    <3>4. Queued({"reread"}) => Queued({"reread"})'
      BY <1>9, QueuedJobs
    <3> QED BY <1>5, <3>2, <3>3, <3>4, StillJob
  <2>2. JobHolds(job)'
    <3>1. command[sends + 1] = 0
      <4>1. ~(sends + 1 <= sends)
        BY <1>1
      <4> QED BY <1>1, <4>1 DEF Whole, CommandsStored
    <3>2. \A m \in DOMAIN log : log[m].lmid # sends + 1
      <4>1. ~(sends + 1 <= sends)
        BY <1>1
      <4> QED BY <4>1 DEF Whole, LogSound
    <3>3. \A d \in Bare : Send(d) # sends + 1
      <4>1. \A d \in Bare : Send(d) \in 0..sends
        BY <1>6, PlacedRows
      <4> QED BY <4>1, <1>1
    <3>4. CreateHolds(echo)
      BY <1>2, <3>1, <3>2, <3>3 DEF CreateHolds
    <3> QED BY <1>2, <1>5, <1>10, <3>4, StillKeeps DEF JobHolds
  <2> QED BY <1>9, <2>1, <2>2 DEF JobsHold
<1>16. FetchHolds'
  BY <1>2, <1>3, <1>5, <1>11, StillKeeps DEF Whole, FetchHolds, Obtains, UpToDate
<1>17. Held'
  <2>1. \A a : PushedFor(a) => PushedFor(a)'
    BY <1>9 DEF PushedFor
  <2> QED BY <1>2, <1>5, <1>11, <2>1, StillKeeps DEF Whole, Held
<1>18. Gaps'
  <2>1. \A m : Fix(m) => Fix(m)'
    BY <1>9 DEF Fix
  <2>2. \A m : DiskGap(m) => DiskGap(m)'
    BY <1>5, StillKeeps
  <2>3. \A a \in buffer' : HasPtsGap(a) => (DiskGap(a.smid)' /\ bufferMode' # "pts") \/ Fix(a.smid)'
    BY <1>2, <1>4, <1>11, <2>1, <2>2 DEF Whole, Gaps, HasPtsGap
  <2>4. \A x \in Planned(jobs') : x.op = "reread" => \A a \in x.rows : HasPtsGap(a) => DiskGap(a.smid)' \/ Fix(a.smid)'
    BY <1>9, <1>10, <2>1, <2>2 DEF Whole, Gaps
  <2> QED BY <2>3, <2>4 DEF Gaps
<1>19. NothingForgotten
  BY <1>2, <1>5, <1>11, StillKeeps DEF NothingForgotten, Whole, Unlike, Same, Knows
<1> QED BY <1>5, <1>9, <1>11, <1>13, <1>14, <1>15, <1>16, <1>17, <1>18, <1>19, StillKeeps DEF Whole

\* A step of the log alone.
LEMMA LogStepKeeps ==
    ASSUME Typed, Whole, LogKeeps, LogSound',
           UNCHANGED <<command, sends, disk, buffer, bufferMode, jobs, fetch>>,
           \A x \in Planned(jobs) : x.op = "create" =>
               \A r \in x.rows, m \in DOMAIN log' : log'[m].lmid # r.lmid
    PROVE  Whole' /\ NothingForgotten
<1>1. Bare' = Bare /\ Copies' = Copies /\ jobs' = jobs
  BY DEF Bare, Copies
<1>2. \A p \in Copies : Real(p)' /\ Send(p)' = Send(p)
  BY PlacedRows, ToldKeeps DEF Whole, RowsTold, Loose
<1>3. RowsTold' /\ IdsKin' /\ IdsCommand'
  BY <1>1, <1>2 DEF Whole, RowsTold, IdsKin, Kin, IdsCommand
<1>4. Unlike(Bare') /\ Unlike(buffer') /\ InOrder(jobs') /\ FetchPlace' /\ CommandsStored'
  BY <1>1 DEF Whole, Unlike, FetchPlace, CommandsStored
<1>5. JobsHold'
  <2> SUFFICES ASSUME NEW x \in Planned(jobs) PROVE JobHolds(x)'
    BY <1>1 DEF JobsHold
  <2>1. JobHolds(x)
    BY DEF Whole, JobsHold
  <2>2. x.op = "create" => \A r \in x.rows : CreateHolds(r)'
    <3>1. \A d \in Bare : Send(d)' = Send(d)
      BY <1>2, PlacedRows
    <3> QED BY <1>1, <2>1, <3>1 DEF JobHolds, CreateHolds
  <2>3. x.op = "ack" => \A r \in x.rows : command'[r.lmid] # 0
    BY <2>1 DEF JobHolds, AckHolds
  <2>4. x.op \in {"page", "history"} => \A r \in x.rows : Uncommanded(r)'
    BY <2>1 DEF JobHolds, PageHolds, Uncommanded
  <2>5. /\ x.op \in {"reread", "publish"} => \A r \in x.rows : OnDisk(r) => OnDisk(r)'
        /\ x.op = "publish" => \A r \in x.rows :
             (\E d \in Bare' : d.smid = r.smid /\ d.revoked) =>
                  (\E d \in Bare : d.smid = r.smid /\ d.revoked) \/ r.revoked \/ Queued({"reread"})'
        /\ x.op = "publish" => (Queued({"reread"}) => Queued({"reread"})')
    BY <1>1 DEF OnDisk, Queued
  <2>6. RowsTold
    BY DEF Whole
  <2> QED BY <1>1, <2>1, <2>2, <2>3, <2>4, <2>5, <2>6, JobKeeps
<1>6. FetchHolds'
  BY DEF Whole, FetchHolds, Obtains, UpToDate, Uncommanded
<1>7. Held' /\ Gaps'
  BY <1>1 DEF Whole, Held, Gaps, OnDisk, PushedFor, DiskGap, Fix
<1>8. NothingForgotten
  BY <1>1 DEF NothingForgotten, Whole, Unlike, Same, Knows
<1> QED BY <1>3, <1>4, <1>5, <1>6, <1>7, <1>8 DEF Whole

\* One message more.
LEMMA AppendedLog ==
    ASSUME Typed, NEW l \in 0..MaxSends, log' = Append(log, [lmid |-> l, revoked |-> FALSE]), sends' = sends
    PROVE  /\ LogKeeps
           /\ \A m \in DOMAIN log' : \/ m \in DOMAIN log /\ log'[m] = log[m]
                                     \/ m = Len(log) + 1 /\ log'[m] = [lmid |-> l, revoked |-> FALSE]
           /\ Len(log) + 1 \notin DOMAIN log
<1> DEFINE S == [lmid : 0..MaxSends, revoked : BOOLEAN]
<1>1. log \in Seq(S) /\ [lmid |-> l, revoked |-> FALSE] \in S /\ sends \in Nat
  BY Numbers DEF Typed, LogTyped
<1> HIDE DEF S
<1>2. /\ Len(log) \in Nat /\ DOMAIN log = 1..Len(log) /\ DOMAIN log' = 1..(Len(log) + 1)
      /\ \A m \in 1..Len(log) : log'[m] = log[m]
      /\ log'[Len(log) + 1] = [lmid |-> l, revoked |-> FALSE]
  BY <1>1
<1>3. \A m \in 1..(Len(log) + 1) : m \in 1..Len(log) \/ m = Len(log) + 1
  BY <1>2
<1>4. Len(log) + 1 \notin 1..Len(log) /\ \A m \in 1..Len(log) : m \in 1..(Len(log) + 1)
  BY <1>2
<1>5. LogKeeps
  BY <1>1, <1>2, <1>4 DEF LogKeeps
<1> QED BY <1>2, <1>3, <1>4, <1>5

-----------------------------------------------------------------------------
(* The server, and steps that only issue.                                  *)

\* PeerWrites: a message of no send of this device.
LEMMA PeerWritesKeeps ==
    ASSUME Typed, Whole, PeerWrites, losses' = {}
    PROVE  Whole' /\ NothingForgotten
<1>1. /\ log' = Append(log, [lmid |-> 0, revoked |-> FALSE])
      /\ UNCHANGED <<command, sends, disk, buffer, bufferMode, jobs, fetch>>
  BY DEF PeerWrites, outVars, diskVars, bufferVars
<1>2. 0 \in 0..MaxSends
  BY Numbers
<1>3. /\ LogKeeps
      /\ \A m \in DOMAIN log' : \/ m \in DOMAIN log /\ log'[m] = log[m]
                                \/ m = Len(log) + 1 /\ log'[m] = [lmid |-> 0, revoked |-> FALSE]
  BY <1>1, <1>2, AppendedLog
<1>4. LogSound'
  <2>1. 0 <= sends
    BY DEF Typed, LogTyped
  <2> QED BY <1>1, <1>3, <2>1 DEF Whole, LogSound
<1>5. \A x \in Planned(jobs) : x.op = "create" =>
         \A r \in x.rows, m \in DOMAIN log' : log'[m].lmid # r.lmid
  <2>1. \A x \in Planned(jobs) : x.op = "create" => \A r \in x.rows : CreateHolds(r) /\ r.lmid # 0
    BY DEF Whole, JobsHold, JobHolds, Typed, JobsTyped, JobTyped
  <2> QED BY <1>3, <2>1 DEF CreateHolds
<1> QED BY <1>1, <1>3, <1>4, <1>5, LogStepKeeps

\* Accept: the one message of a send.
LEMMA AcceptKeeps ==
    ASSUME Typed, Whole, NEW l \in 1..sends, Accept(l), losses' = {}
    PROVE  Whole' /\ NothingForgotten
<1>1. /\ log' = Append(log, [lmid |-> l, revoked |-> FALSE])
      /\ command[l] # 0 /\ \A m \in DOMAIN log : log[m].lmid # l
      /\ UNCHANGED <<command, sends, disk, buffer, bufferMode, jobs, fetch>>
  BY DEF Accept, outVars, diskVars, bufferVars
<1>2. l \in 0..MaxSends /\ l <= sends
  BY Numbers DEF Typed, LogTyped
<1>3. /\ LogKeeps
      /\ \A m \in DOMAIN log' : \/ m \in DOMAIN log /\ log'[m] = log[m]
                                \/ m = Len(log) + 1 /\ log'[m] = [lmid |-> l, revoked |-> FALSE]
  BY <1>1, <1>2, AppendedLog
<1>4. LogSound'
  BY <1>1, <1>2, <1>3 DEF Whole, LogSound
<1>5. \A x \in Planned(jobs) : x.op = "create" =>
         \A r \in x.rows, m \in DOMAIN log' : log'[m].lmid # r.lmid
  <2>1. \A x \in Planned(jobs) : x.op = "create" => \A r \in x.rows : CreateHolds(r)
    BY DEF Whole, JobsHold, JobHolds
  <2> QED BY <1>1, <1>3, <2>1 DEF CreateHolds
<1> QED BY <1>1, <1>3, <1>4, <1>5, LogStepKeeps

\* Revoke: not while the command of the send is there.
LEMMA RevokeKeeps ==
    ASSUME Typed, Whole, NEW m \in DOMAIN log, Revoke(m), losses' = {}
    PROVE  Whole' /\ NothingForgotten
<1>1. /\ log' = [log EXCEPT ![m].revoked = TRUE]
      /\ ~(log[m].lmid # 0 /\ command[log[m].lmid] # 0)
      /\ UNCHANGED <<command, sends, disk, buffer, bufferMode, jobs, fetch>>
  BY DEF Revoke, outVars, diskVars, bufferVars, Mine
<1>2. /\ DOMAIN log' = DOMAIN log
      /\ \A n \in DOMAIN log : log'[n].lmid = log[n].lmid /\ (n # m => log'[n] = log[n])
      /\ log'[m].revoked
  <2>1. \A n \in DOMAIN log : log[n] \in [lmid : 0..MaxSends, revoked : BOOLEAN]
    <3>1. 1 \in Ids
      BY Numbers DEF Ids
    <3> QED BY <3>1, BuiltRows DEF Typed
  <2> QED BY <1>1, <2>1
<1>3. LogKeeps
  <2>1. sends \in Nat
    BY Numbers DEF Typed, LogTyped
  <2> QED BY <1>1, <1>2, <2>1 DEF LogKeeps
<1>4. LogSound'
  BY <1>1, <1>2 DEF Whole, LogSound
<1>5. \A x \in Planned(jobs) : x.op = "create" =>
         \A r \in x.rows, n \in DOMAIN log' : log'[n].lmid # r.lmid
  BY <1>2 DEF Whole, JobsHold, JobHolds, CreateHolds
<1> QED BY <1>1, <1>3, <1>4, <1>5, LogStepKeeps

\* No row is new: those placed stay what they are.
LEMMA SameRows ==
    ASSUME Typed, Whole, Still, Copies' \subseteq Copies
    PROVE  RowsTold' /\ IdsKin' /\ IdsCommand'
<1>1. {} \in SUBSET MessageRecord /\ Copies' \subseteq Copies \cup {} /\ LogKeeps /\ command' = command
  BY DEF Still
<1>2. RowsTold' /\ IdsKin'
  BY <1>1, RowsKeep DEF Whole
<1>3. IdsCommand'
  BY <1>1, CommandKeep DEF Whole
<1> QED BY <1>2, <1>3

\* A new transaction is queued and nothing else that memory and database see.
LEMMA QueuedKeeps ==
    ASSUME Typed, Whole, Still, buffer' = buffer, bufferMode' = bufferMode,
           NEW x, Planned(jobs') = Planned(jobs) \cup {x}
    PROVE  /\ NothingForgotten /\ LogSound' /\ Unlike(Bare') /\ Unlike(buffer') /\ CommandsStored' /\ Held'
           /\ \A y \in Planned(jobs) : JobHolds(y)'
           /\ x.op # "reread" => Gaps'
<1>1. \A ops : Queued(ops) => Queued(ops)'
  BY QueuedJobs
<1>2. \A y \in Planned(jobs) : JobHolds(y)'
  BY <1>1, UntouchedKeeps
<1>3. Held'
  <2>1. \A a : PushedFor(a) => PushedFor(a)'
    BY DEF PushedFor
  <2> QED BY <2>1, StillKeeps DEF Whole, Held
<1>4. ASSUME x.op # "reread" PROVE Gaps'
  <2>1. \A m : Fix(m) => Fix(m)'
    BY DEF Fix
  <2> QED BY <1>4, <2>1, StillKeeps DEF Whole, Gaps
<1> QED BY <1>2, <1>3, <1>4, StillKeeps, UntouchedKeeps

\* OpenConversation: a look at the mode is issued.
LEMMA OpenConversationKeeps ==
    ASSUME Typed, Whole, OpenConversation, losses' = {}
    PROVE  Whole' /\ NothingForgotten
<1> DEFINE job == Job("mode", {})
<1>1. /\ fetch.at = "idle" /\ Issue("mode", {}) /\ fetch'.at = "opening" /\ fetch'.rows = fetch.rows
      /\ UNCHANGED <<log, command, sends, disk, buffer, bufferMode>>
  BY DEF OpenConversation, outVars, diskVars, bufferVars, Typed, FetchTyped
<1>2. Still
  BY <1>1, Numbers DEF Still, LogKeeps, Typed, LogTyped
<1>3. job.op = "mode" /\ job.rows = {} /\ JobTyped(job)
  BY DEF Job, JobTyped, Loose
<1>4. \A y \in Planned(jobs) : y.op \notin Fetching
  BY <1>1 DEF Whole, FetchPlace, Fetching
<1>5. Planned(jobs') = Planned(jobs) \cup {job} /\ InOrder(jobs')
  <2>1. \A y \in Planned(jobs) : After(y, job)
    BY <1>3, <1>4 DEF After, Fetching
  <2> QED BY <1>1, <1>3, <2>1, Issued DEF Typed, Ops, Whole
<1> HIDE DEF job
<1>6. fetch.rows = {}
  BY <1>1 DEF Whole, FetchPlace
<1>7. Copies' \subseteq Copies
  BY <1>1, <1>2, <1>3, <1>5, StillKeeps DEF Copies
<1>8. FetchPlace'
  BY <1>1, <1>3, <1>4, <1>5, <1>6 DEF FetchPlace, Fetching
<1>9. JobsHold'
  BY <1>1, <1>2, <1>3, <1>5, QueuedKeeps DEF JobsHold, JobHolds
<1>10. FetchHolds'
  BY <1>1, <1>6 DEF FetchHolds
<1> QED BY <1>1, <1>2, <1>3, <1>5, <1>7, <1>8, <1>9, <1>10, SameRows, QueuedKeeps DEF Whole

\* RunMode: memory takes the mode of the database.
LEMMA RunModeKeeps ==
    ASSUME Typed, Whole, RunMode, losses' = {}
    PROVE  Whole' /\ NothingForgotten
<1> DEFINE job == Job("window", {})
<1>1. /\ jobs # <<>> /\ Head(jobs).op = "mode" /\ FollowedBy("window", {})
      /\ bufferMode' = diskMode /\ fetch'.at = "window" /\ fetch'.rows = fetch.rows
      /\ UNCHANGED <<log, command, sends, disk, buffer>>
  BY DEF RunMode, Heads, outVars, diskVars, Typed, FetchTyped
<1>2. Still
  BY <1>1, Numbers DEF Still, LogKeeps, Typed, LogTyped
<1>3. job.op = "window" /\ job.rows = {} /\ JobTyped(job)
  BY DEF Job, JobTyped, Loose
<1>4. /\ Head(jobs) \in Planned(jobs) /\ job \in Planned(jobs')
      /\ Planned(jobs') \subseteq Planned(jobs) \cup {job}
      /\ Planned(jobs) \subseteq Planned(jobs') \cup {Head(jobs)}
      /\ \A y \in Planned(jobs') : y = job \/ After(Head(jobs), y)
      /\ (\A y \in Planned(jobs) : After(Head(jobs), y) => After(y, job)) => InOrder(jobs')
  BY <1>1, <1>3, JobFollowed DEF Typed, Ops, Whole
<1> HIDE DEF job
<1>5. \A y : After(Head(jobs), y) => y.op \notin Fetching
  BY <1>1 DEF After, Fetching
<1>6. InOrder(jobs')
  <2>1. \A y \in Planned(jobs) : After(Head(jobs), y) => After(y, job)
    BY <1>3, <1>5 DEF After
  <2> QED BY <1>4, <2>1
<1>7. fetch.rows = {}
  BY <1>1, <1>4 DEF Whole, FetchPlace
<1>8. Copies' \subseteq Copies
  BY <1>1, <1>2, <1>3, <1>4, StillKeeps DEF Copies
<1>9. FetchPlace'
  <2>1. \A y \in Planned(jobs') : y = job \/ y.op \notin Fetching
    BY <1>4, <1>5
  <2> QED BY <1>1, <1>3, <1>7, <2>1 DEF FetchPlace, Fetching
<1>10. JobsHold'
  <2>1. Queued({"reread"}) => Queued({"reread"})'
    BY <1>1, <1>4, QueuedJobs
  <2> QED BY <1>1, <1>2, <1>3, <1>4, <2>1, UntouchedKeeps DEF JobsHold, JobHolds
<1>11. FetchHolds'
  BY <1>1, <1>7 DEF FetchHolds
<1>12. Held'
  BY <1>1, <1>2, <1>4, JobsStay, StillKeeps DEF Whole, Held
<1>13. Gaps'
  <2>1. \A m : Fix(m) => Fix(m)'
    BY <1>1, <1>4, JobsStay
  <2>2. \A m : DiskGap(m)' <=> DiskGap(m)
    BY <1>2, StillKeeps
  <2>3. \A m : m # 0 /\ DiskGap(m) => diskMode # "pts"
    <3>1. \A b \in Bare : \E d \in disk : b.smid = d.smid /\ b.pts = d.pts
      BY StripRow DEF Bare, Bared, Typed, DiskTyped, Keyed
    <3>2. (\E d \in disk : HasPtsGap(d)) => diskMode = "server_id"
      BY DEF Typed, DiskTyped
    <3> QED BY <3>1, <3>2 DEF DiskGap, HasPtsGap
  <2>4. \A a \in buffer' : HasPtsGap(a) => (DiskGap(a.smid)' /\ bufferMode' # "pts") \/ Fix(a.smid)'
    BY <1>1, <2>1, <2>2, <2>3 DEF Whole, Gaps, HasPtsGap
  <2>5. \A y \in Planned(jobs') : y.op = "reread" => \A a \in y.rows : HasPtsGap(a) => DiskGap(a.smid)' \/ Fix(a.smid)'
    BY <1>3, <1>4, <2>1, <2>2 DEF Whole, Gaps
  <2> QED BY <2>4, <2>5 DEF Gaps
<1> QED BY <1>1, <1>2, <1>6, <1>8, <1>9, <1>10, <1>11, <1>12, <1>13, SameRows, UntouchedKeeps, StillKeeps DEF Whole

\* Only the call under way moves.
LEMMA FetchKeeps ==
    ASSUME Typed, Whole, UNCHANGED <<log, command, sends, disk, buffer, bufferMode, jobs>>,
           NEW N \in SUBSET MessageRecord, fetch'.rows \subseteq Copies \cup N,
           \A n \in N : Real(n) /\ NewId(n) /\ \A q \in N : q.id = n.id => q = n,
           FetchPlace', FetchHolds'
    PROVE  Whole' /\ NothingForgotten
<1>1. Still /\ LogKeeps
  BY Numbers DEF Still, LogKeeps, Typed, LogTyped
<1>2. Planned(jobs') = Planned(jobs) /\ InOrder(jobs')
  BY DEF Whole
<1>3. Copies' \subseteq Copies \cup N
  <2>1. Bare' \subseteq Copies /\ buffer' \subseteq Copies
    BY <1>1, StillKeeps, PlacedRows
  <2>2. \A x \in Planned(jobs') : x.rows \subseteq Copies \cup N
    BY <1>2, PlacedRows
  <2> QED BY <2>1, <2>2, PlacedNext
<1>4. \A n \in N : Real(n)'
  BY <1>1, ToldKeeps
<1>5. RowsTold' /\ IdsKin'
  BY <1>1, <1>3, <1>4, RowsKeep DEF Whole
<1>6. IdsCommand'
  <2>1. command' = command
    OBVIOUS
  <2> QED BY <1>1, <1>3, <2>1, CommandKeep DEF Whole
<1>7. JobsHold'
  <2>1. Queued({"reread"}) => Queued({"reread"})'
    BY DEF Queued
  <2> QED BY <1>1, <1>2, <2>1, UntouchedKeeps DEF JobsHold
<1>8. Held'
  <2>1. \A a : PushedFor(a)' <=> PushedFor(a)
    BY <1>2 DEF PushedFor
  <2> QED BY <1>1, <2>1, StillKeeps DEF Whole, Held
<1>9. Gaps'
  <2>1. \A m : Fix(m)' <=> Fix(m)
    BY <1>2 DEF Fix
  <2> QED BY <1>1, <1>2, <2>1, StillKeeps DEF Whole, Gaps
<1> QED BY <1>1, <1>2, <1>5, <1>6, <1>7, <1>8, <1>9, StillKeeps, UntouchedKeeps DEF Whole

\* Nothing the invariant is about moves.
LEMMA StutterKeeps ==
    ASSUME Typed, Whole, UNCHANGED <<log, command, sends, disk, buffer, bufferMode, jobs, fetch>>
    PROVE  Whole' /\ NothingForgotten
<1>1. {} \in SUBSET MessageRecord /\ fetch'.rows \subseteq Copies \cup {}
  BY PlacedRows
<1>2. FetchPlace'
  BY DEF Whole, FetchPlace
<1>3. FetchHolds'
  BY DEF Whole, FetchHolds, Obtains, UpToDate, Uncommanded
<1> QED BY <1>1, <1>2, <1>3, FetchKeeps

\* InlineThrows.
LEMMA InlineThrowsKeeps ==
    ASSUME Typed, Whole, NEW l, InlineThrows(l)
    PROVE  Whole' /\ NothingForgotten
<1>1. UNCHANGED <<log, command, sends, disk, buffer, bufferMode, jobs, fetch>>
  BY DEF InlineThrows, diskVars, bufferVars
<1> QED BY <1>1, StutterKeeps

\* PageHistory.
LEMMA PageHistoryKeeps ==
    ASSUME Typed, Whole, PageHistory
    PROVE  Whole' /\ NothingForgotten
<1>1. /\ UNCHANGED <<log, command, sends, disk, buffer, bufferMode, jobs>>
      /\ fetch.at = "idle" /\ fetch'.at = "asked" /\ fetch'.rows = fetch.rows
  BY DEF PageHistory, outVars, diskVars, bufferVars, Typed, FetchTyped
<1>2. fetch'.rows = {} /\ {} \in SUBSET MessageRecord /\ fetch'.rows \subseteq Copies \cup {}
  BY <1>1 DEF Whole, FetchPlace
<1>3. FetchPlace'
  BY <1>1, <1>2 DEF Whole, FetchPlace
<1>4. FetchHolds'
  BY <1>2 DEF FetchHolds
<1> QED BY <1>1, <1>2, <1>3, <1>4, FetchKeeps

\* AnswerHistory: rows on fresh ids, as the server has them.
LEMMA AnswerHistoryKeeps ==
    ASSUME Typed, Whole, AnswerHistory
    PROVE  Whole' /\ NothingForgotten
<1>1. /\ UNCHANGED <<log, command, sends, disk, buffer, bufferMode, jobs>>
      /\ fetch.at = "asked"
  BY DEF AnswerHistory, outVars, diskVars, bufferVars
<1>2. PICK N \in SUBSET MessageRecord :
        /\ \A n \in N : Real(n) /\ NewId(n) /\ (\A q \in N : q.id = n.id => q = n) /\ Obtains(n)
        /\ fetch'.rows = N /\ (fetch'.at = "answered" \/ (fetch'.at = "idle" /\ N = {}))
  <2>1. CASE fetch' = NoFetch
    <3>1. {} \in SUBSET MessageRecord
      OBVIOUS
    <3> QED BY <2>1, <3>1 DEF NoFetch
  <2>2. CASE fetch' # NoFetch
    <3>1. PICK withPts \in BOOLEAN, A \in SUBSET MessageRecord :
                 /\ \A a, b \in A : a.id = b.id => a = b
                 /\ \A a \in A : /\ a.id \in Free /\ a.smid \in DOMAIN log
                                 /\ a = HistoryRow(a.id, a.smid, withPts)
                 /\ fetch' = [fetch EXCEPT !.at = "answered", !.rows = A]
      BY <2>2, AnsweredHistory
    <3>2. fetch'.rows = A /\ fetch'.at = "answered"
      BY <3>1 DEF Typed, FetchTyped
    <3>3. \A m \in DOMAIN log : m # 0 /\ 0 \in {0, log[m].lmid}
      BY BuiltRows, Numbers DEF Typed, Ids
    <3>4. \A a \in A : /\ a.smid \in DOMAIN log /\ a.smid # 0 /\ a.lmid = 0 /\ a.body /\ a.exact
                       /\ a.revoked = log[a.smid].revoked /\ a.pts \in {0, a.smid}
                       /\ a.status = IF Mine(a.smid) THEN "sent" ELSE "received"
      <4> SUFFICES ASSUME NEW a \in A
                   PROVE  /\ a.smid \in DOMAIN log /\ a.smid # 0 /\ a.lmid = 0 /\ a.body /\ a.exact
                          /\ a.revoked = log[a.smid].revoked /\ a.pts \in {0, a.smid}
                          /\ a.status = IF Mine(a.smid) THEN "sent" ELSE "received"
        OBVIOUS
      <4>1. a = HistoryRow(a.id, a.smid, withPts)
        BY <3>1
      <4>2. a.lmid = 0 /\ a.body /\ a.exact /\ a.revoked = log[a.smid].revoked
            /\ a.pts = (IF withPts THEN a.smid ELSE 0)
            /\ a.status = IF Mine(a.smid) THEN "sent" ELSE "received"
        BY <4>1 DEF HistoryRow
      <4> QED BY <3>1, <3>3, <4>2
    <3>5. \A a \in A : Real(a)
      BY <3>3, <3>4 DEF Real
    <3>6. \A a \in A : Obtains(a)
      <4>1. \A b \in buffer : Real(b)
        BY PlacedRows DEF Whole, RowsTold
      <4> QED BY <3>4, <4>1 DEF Obtains, UpToDate, Real
    <3>7. \A a \in A : NewId(a)
      BY <3>1, FreeIds DEF NewId
    <3> QED BY <3>1, <3>2, <3>5, <3>6, <3>7
  <2> QED BY <2>1, <2>2
<1>3. FetchPlace'
  BY <1>1, <1>2 DEF Whole, FetchPlace
<1>4. FetchHolds'
  BY <1>1, <1>2 DEF FetchHolds, Obtains, UpToDate, NewId, Uncommanded
<1> QED BY <1>1, <1>2, <1>3, <1>4, FetchKeeps

\* StoreHistory: the answer becomes a job.
LEMMA StoreHistoryKeeps ==
    ASSUME Typed, Whole, StoreHistory
    PROVE  Whole' /\ NothingForgotten
<1> DEFINE job == Job("history", fetch.rows)
<1>1. /\ UNCHANGED <<log, command, sends, disk, buffer, bufferMode>>
      /\ fetch.at = "answered" /\ Issue("history", fetch.rows)
      /\ fetch'.at = "storing" /\ fetch'.rows = {}
  BY DEF StoreHistory, outVars, diskVars, bufferVars, Typed, FetchTyped
<1>2. Still
  BY <1>1, Numbers DEF Still, LogKeeps, Typed, LogTyped
<1>3. PICK x : x = job /\ x.op = "history" /\ x.rows = fetch.rows /\ JobTyped(x)
  <2>1. job.op = "history" /\ job.rows = fetch.rows /\ JobTyped(job)
    BY DEF Job, JobTyped, Typed, FetchTyped
  <2> HIDE DEF job
  <2> QED BY <2>1
<1>4. \A y \in Planned(jobs) : y.op \notin Fetching
  BY <1>1 DEF Whole, FetchPlace, Fetching
<1>5. Planned(jobs') = Planned(jobs) \cup {x} /\ InOrder(jobs')
  <2>1. \A y \in Planned(jobs) : After(y, x)
    BY <1>3, <1>4 DEF After
  <2> QED BY <1>1, <1>3, <2>1, Issued DEF Typed, Ops, Whole
<1>6. Copies' \subseteq Copies
  <2>1. \A y \in Planned(jobs') : y.rows \subseteq Copies
    BY <1>3, <1>5, PlacedRows
  <2>2. Copies' \subseteq Copies \cup {}
    BY <1>1, <1>2, <2>1, StillKeeps, PlacedRows, PlacedNext
  <2> QED BY <2>2
<1>7. FetchPlace'
  BY <1>1, <1>3, <1>4, <1>5 DEF FetchPlace, Fetching
<1>8. JobsHold'
  <2>1. JobHolds(x)'
    BY <1>1, <1>2, <1>3, UntouchedKeeps DEF Whole, FetchHolds, JobHolds
  <2> QED BY <1>1, <1>2, <1>5, <2>1, QueuedKeeps DEF JobsHold
<1>9. FetchHolds'
  BY <1>1 DEF FetchHolds
<1> QED BY <1>1, <1>2, <1>3, <1>5, <1>6, <1>7, <1>8, <1>9, SameRows, QueuedKeeps DEF Whole

\* A transaction of one row is queued, and nothing else moves.
LEMMA JobQueuedKeeps ==
    ASSUME Typed, Whole, UNCHANGED <<log, command, sends, disk, buffer, bufferMode, fetch>>,
           NEW n \in MessageRecord, Real(n), Heir(n) \/ NewId(n),
           NEW x, x.rows = {n}, x.op \in {"ack", "page"}, JobHolds(x),
           Planned(jobs') = Planned(jobs) \cup {x}, InOrder(jobs')
    PROVE  Whole' /\ NothingForgotten
<1>1. Still /\ LogKeeps
  BY Numbers DEF Still, LogKeeps, Typed, LogTyped
<1>2. {n} \in SUBSET MessageRecord /\ command' = command
  OBVIOUS
<1>3. Copies' \subseteq Copies \cup {n}
  <2>1. Bare' \subseteq Copies /\ buffer' \subseteq Copies /\ fetch'.rows \subseteq Copies
    BY <1>1, StillKeeps, PlacedRows
  <2>2. \A y \in Planned(jobs') : y.rows \subseteq Copies \cup {n}
    BY PlacedRows
  <2> QED BY <2>1, <2>2, PlacedNext
<1>4. Real(n)'
  BY <1>1, ToldKeeps
<1>5. \A q \in {n} : q.id = n.id => q = n
  OBVIOUS
<1>6. RowsTold' /\ IdsKin'
  BY <1>1, <1>2, <1>3, <1>4, <1>5, RowsKeep DEF Whole
<1>7. IdsCommand'
  BY <1>1, <1>2, <1>3, CommandKeep DEF Whole
<1>8. FetchPlace'
  BY DEF Whole, FetchPlace
<1>9. JobsHold'
  <2>1. JobHolds(x)'
    BY DEF JobHolds, AckHolds, PageHolds, Uncommanded
  <2> QED BY <1>1, <2>1, QueuedKeeps DEF JobsHold
<1>10. FetchHolds'
  BY DEF Whole, FetchHolds, Obtains, UpToDate, Uncommanded
<1> QED BY <1>1, <1>6, <1>7, <1>8, <1>9, <1>10, QueuedKeeps DEF Whole

\* Where the row an ack is put on comes from.
LEMMA PendingRows ==
    ASSUME Typed, NEW l, NEW base \in Pending(l)
    PROVE  \/ base = Echo(command[l], l)
           \/ base \in buffer /\ base.id = command[l] /\ base.lmid = l
           \/ base \in Bare /\ base.id = command[l] /\ base.lmid = l
           \/ base \in Bare /\ base.lmid = l /\ \A b \in Bare : ~(b.id = command[l] /\ b.lmid = l)
<1> DEFINE stored == {Strip(r) : r \in {e \in ByLmid(l) : e.id = command[l]}}
           other  == {Strip(r) : r \in ByLmid(l)}
<1>1. \A d \in disk : Strip(d) \in Bare /\ Strip(d).id = d.id /\ Strip(d).lmid = d.lmid
  BY StripRow DEF Bare, Bared, Typed, DiskTyped, Keyed
<1>2. \A b \in Bare : \E d \in disk : b = Strip(d)
  BY DEF Bare, Bared
<1>3. \A b \in stored : b \in Bare /\ b.id = command[l] /\ b.lmid = l
  BY <1>1 DEF ByLmid
<1>4. \A b \in Bare : b.id = command[l] /\ b.lmid = l => b \in stored
  BY <1>1, <1>2 DEF ByLmid
<1>5. \A b \in other : b \in Bare /\ b.lmid = l
  BY <1>1 DEF ByLmid
<1>6. \/ base = Echo(command[l], l)
      \/ base \in {r \in buffer : r.id = command[l] /\ r.lmid = l}
      \/ base \in stored
      \/ base \in other /\ stored = {}
  BY DEF Pending
<1> HIDE DEF stored, other
<1> QED BY <1>3, <1>4, <1>5, <1>6

\* What an ack is put on has the id of the command, and nothing against the log.
LEMMA PendingHolds ==
    ASSUME Typed, Whole, NEW l \in 1..sends, command[l] # 0, NEW base \in Pending(l),
           NEW m \in DOMAIN log, log[m].lmid = l
    PROVE  base.id = command[l] /\ base.body /\ base.exact /\ (base.revoked => log[m].revoked)
<1>1. l \in 1..MaxSends /\ l # 0
  BY Numbers DEF Typed, LogTyped
<1>2. \A n \in DOMAIN log : log[n].lmid = l => n = m
  BY <1>1 DEF Whole, LogSound
<1>3. \A p \in Copies : p.id = command[l] => p.body /\ p.exact /\ (p.revoked => log[m].revoked) /\ Send(p) = l
  <2> SUFFICES ASSUME NEW p \in Copies, p.id = command[l]
               PROVE  p.body /\ p.exact /\ (p.revoked => log[m].revoked) /\ Send(p) = l
    OBVIOUS
  <2>1. Send(p) = l /\ p.body /\ p.exact /\ Real(p)
    BY <1>1 DEF Whole, IdsCommand, RowsTold
  <2> QED BY <1>2, <2>1 DEF Real, Send
<1>4. CASE base = Echo(command[l], l)
  BY <1>4 DEF Echo
<1>5. CASE base \in Copies /\ base.id = command[l]
  BY <1>3, <1>5
<1>6. ~(base \in Bare /\ base.lmid = l /\ \A b \in Bare : ~(b.id = command[l] /\ b.lmid = l))
  <2> SUFFICES ASSUME base \in Bare, base.lmid = l, \A b \in Bare : ~(b.id = command[l] /\ b.lmid = l)
               PROVE  FALSE
    OBVIOUS
  <2>1. PICK r \in Bare : r.id = command[l]
    BY <1>1 DEF Whole, CommandsStored
  <2>2. Send(r) = l /\ Real(r) /\ Real(base)
    BY <1>3, <2>1, PlacedRows DEF Whole, RowsTold
  <2>3. r.smid = m
    BY <1>1, <1>2, <2>1, <2>2 DEF Real, Send
  <2>4. base.smid = m
    BY <1>1, <1>2, <2>2 DEF Real, Whole, CommandsStored
  <2>5. m # 0
    BY <2>2, <2>3, <2>4, BuiltRows, Numbers DEF Typed, Ids
  <2> QED BY <2>1, <2>3, <2>4, <2>5 DEF Whole, Unlike, Same
<1> QED BY <1>4, <1>5, <1>6, PendingRows, PlacedRows

\* Ack: the row of the send, numbered.
LEMMA AckKeeps ==
    ASSUME Typed, Whole, NEW l \in 1..sends, Ack(l)
    PROVE  Whole' /\ NothingForgotten
<1>1. /\ command[l] # 0 /\ ~Queued({"ack"})
      /\ UNCHANGED <<log, command, sends, disk, buffer, bufferMode, fetch>>
  BY DEF Ack, outVars, diskVars, bufferVars
<1>2. PICK m \in DOMAIN log, base \in Pending(l) :
         log[m].lmid = l /\ Issue("ack", {[base EXCEPT !.smid = m, !.lmid = l, !.pts = m, !.status = "sent"]})
  BY DEF Ack
<1>3. l \in 1..MaxSends /\ l # 0 /\ m \in 1..MaxLog /\ m # 0
  BY BuiltRows, Numbers DEF Typed, LogTyped, Ids
<1>4. base \in MessageRecord /\ base.by = "none"
  BY <1>1, PendingTyped
<1>5. base.id = command[l] /\ base.body /\ base.exact /\ (base.revoked => log[m].revoked)
  BY <1>1, <1>2, PendingHolds
<1>6. PICK n \in MessageRecord :
        /\ n = [base EXCEPT !.smid = m, !.lmid = l, !.pts = m, !.status = "sent"] /\ n.by = "none"
        /\ n.id = command[l] /\ n.smid = m /\ n.lmid = l /\ n.pts = m /\ n.status = "sent"
        /\ n.body /\ n.exact /\ (n.revoked => log[m].revoked)
  <2> DEFINE k == [base EXCEPT !.smid = m, !.lmid = l, !.pts = m, !.status = "sent"]
  <2>1. k \in MessageRecord
    <3>1. m \in 0..MaxLog /\ l \in 0..MaxSends
      BY <1>3, Numbers
    <3> QED BY <3>1, <1>4 DEF MessageRecord
  <2>2. /\ k.by = base.by /\ k.id = base.id /\ k.smid = m /\ k.lmid = l /\ k.pts = m /\ k.status = "sent"
        /\ k.body = base.body /\ k.exact = base.exact /\ k.revoked = base.revoked
    BY <1>4 DEF MessageRecord
  <2> HIDE DEF k
  <2>3. k.body /\ k.exact /\ (k.revoked => log[m].revoked)
    BY <2>2, <1>5, Zenon
  <2> QED BY <1>4, <1>5, <2>1, <2>2, <2>3 DEF k
<1>7. Real(n)
  BY <1>2, <1>3, <1>6 DEF Real, Mine
<1>8. Heir(n)
  <2>1. PICK p \in Bare : p.id = command[l]
    BY <1>1, <1>3 DEF Whole, CommandsStored
  <2>2. p \in Copies
    BY PlacedRows
  <2>3. Send(p) = l
    BY <1>3, <2>1, <2>2 DEF Whole, IdsCommand
  <2>4. Send(p)' = l /\ Send(n)' = l
    BY <1>1, <1>2, <1>3, <1>6, <2>3 DEF Send
  <2> QED BY <1>3, <1>6, <2>1, <2>2, <2>4 DEF Heir, Kin
<1>9. PICK x : x = Job("ack", {n}) /\ x.op = "ack" /\ x.rows = {n} /\ JobTyped(x)
  <2>1. JobTyped(Job("ack", {n}))
    BY <1>3, <1>6 DEF JobTyped, Job, Loose, Carries
  <2> QED BY <2>1 DEF Job
<1>10. Planned(jobs') = Planned(jobs) \cup {x} /\ InOrder(jobs')
  <2>1. \A y \in Planned(jobs) : y.op # "ack"
    BY <1>1, QueuedJobs
  <2>2. \A y \in Planned(jobs) : After(y, x)
    BY <1>9, <2>1 DEF After, Fetching
  <2> QED BY <1>2, <1>6, <1>9, <2>2, Issued DEF Typed, Ops, Whole
<1>11. JobHolds(x)
  BY ZenonT(60), <1>1, <1>3, <1>6, <1>9 DEF JobHolds, AckHolds
<1> QED BY <1>1, <1>7, <1>8, <1>9, <1>10, <1>11, JobQueuedKeeps

\* SyncPage: a commit on a fresh id.
LEMMA SyncPageKeeps ==
    ASSUME Typed, Whole, NEW m \in DOMAIN log, SyncPage(m)
    PROVE  Whole' /\ NothingForgotten
<1>1. /\ ~Queued({"page", "publish"}) /\ Mint(1) \in Free /\ Issue("page", {CommitRow(Mint(1), m)})
      /\ UNCHANGED <<log, command, sends, disk, buffer, bufferMode, fetch>>
  BY MintedId DEF SyncPage, outVars, diskVars, bufferVars
<1>2. m \in 1..MaxLog /\ m # 0
  BY BuiltRows, Numbers DEF Typed, Ids
<1>3. PICK n \in MessageRecord :
        /\ n = CommitRow(Mint(1), m) /\ n.by = "none" /\ n.id \in Free
        /\ n.smid = m /\ n.lmid = log[m].lmid /\ n.pts = m /\ n.body /\ n.exact /\ ~n.revoked
        /\ n.status = IF Mine(m) THEN "sent" ELSE "received"
  BY <1>1, BuiltRows DEF CommitRow, Typed, Free
<1>4. Real(n)
  BY <1>2, <1>3 DEF Real
<1>5. NewId(n)
  BY <1>3, FreeIds DEF NewId
<1>6. PICK x : x = Job("page", {n}) /\ x.op = "page" /\ x.rows = {n} /\ JobTyped(x)
  <2>1. JobTyped(Job("page", {n}))
    BY <1>2, <1>3 DEF JobTyped, Job, Loose, Carries
  <2> QED BY <2>1 DEF Job
<1>7. Planned(jobs') = Planned(jobs) \cup {x} /\ InOrder(jobs')
  <2>1. \A y \in Planned(jobs) : y.op \notin {"page", "publish"}
    BY <1>1, QueuedJobs
  <2>2. \A y \in Planned(jobs) : After(y, x)
    BY <1>6, <2>1 DEF After, Fetching
  <2> QED BY <1>1, <1>3, <1>6, <2>2, Issued DEF Typed, Ops, Whole
<1>8. JobHolds(x)
  BY <1>2, <1>3, <1>5, <1>6 DEF JobHolds, PageHolds, NewId, Uncommanded
<1> QED BY <1>1, <1>4, <1>5, <1>6, <1>7, <1>8, JobQueuedKeeps

\* A stored row without pts has degraded the mode.
LEMMA DegradedGap ==
    ASSUME Typed, NEW m, m # 0, DiskGap(m)
    PROVE  diskMode # "pts"
<1>1. \A b \in Bare : \E d \in disk : b.smid = d.smid /\ b.pts = d.pts
  BY StripRow DEF Bare, Bared, Typed, DiskTyped, Keyed
<1>2. (\E d \in disk : HasPtsGap(d)) => diskMode = "server_id"
  BY DEF Typed, DiskTyped
<1> QED BY <1>1, <1>2 DEF DiskGap, HasPtsGap

-----------------------------------------------------------------------------
(* Steps that drop rows, and memory taking rows in.                        *)

\* Memory has less, and less is under way.
LEMMA LessKeeps ==
    ASSUME Typed, Whole, Still, buffer' \subseteq buffer, bufferMode' = bufferMode \/ buffer' = {},
           Planned(jobs') \subseteq Planned(jobs), InOrder(jobs'), fetch'.rows \subseteq fetch.rows, FetchPlace',
           \/ Planned(jobs') = {} /\ buffer' = {}
           \/ /\ \A m : Fix(m) => Fix(m)'
              /\ \A a : PushedFor(a) => PushedFor(a)'
              /\ Queued({"reread"}) => Queued({"reread"})'
    PROVE  Whole' /\ NothingForgotten
<1>1. Copies' \subseteq Copies
  <2>1. Bare' \subseteq Copies /\ buffer' \subseteq Copies /\ fetch'.rows \subseteq Copies
    BY StillKeeps, PlacedRows
  <2>2. \A y \in Planned(jobs') : y.rows \subseteq Copies
    BY PlacedRows
  <2>3. Copies' \subseteq Copies \cup {}
    BY <2>1, <2>2, PlacedNext
  <2> QED BY <2>3
<1>2. JobsHold'
  <2> SUFFICES ASSUME NEW x \in Planned(jobs') PROVE JobHolds(x)'
    BY DEF JobsHold
  <2>1. Queued({"reread"}) => Queued({"reread"})'
    OBVIOUS
  <2> QED BY <2>1, StillJob
<1>3. FetchHolds'
  BY StillKeeps DEF Whole, FetchHolds, Obtains, UpToDate
<1>4. Held'
  BY StillKeeps DEF Whole, Held
<1>5. Gaps'
  BY StillKeeps DEF Whole, Gaps
<1>6. Unlike(buffer') /\ NothingForgotten
  <2>1. Unlike(buffer') /\ \A a \in buffer, b \in buffer' : a.smid # 0 /\ a.smid = b.smid => Knows(b, a)
    BY DEF Whole, Unlike, Same, Knows
  <2> QED BY <2>1, StillKeeps DEF NothingForgotten
<1> QED BY <1>1, <1>2, <1>3, <1>4, <1>5, <1>6, SameRows, StillKeeps DEF Whole

\* TabReloads: memory is empty, and nothing waits.
LEMMA TabReloadsKeeps ==
    ASSUME Typed, Whole, TabReloads
    PROVE  Whole' /\ NothingForgotten
<1>1. /\ buffer' = {} /\ jobs' = <<>> /\ fetch' = NoFetch
      /\ UNCHANGED <<log, command, sends, disk>>
  BY DEF TabReloads, diskVars
<1>2. Still
  BY <1>1, Numbers DEF Still, LogKeeps, Typed, LogTyped
<1>3. Planned(jobs') = {} /\ InOrder(jobs')
  BY <1>1 DEF Planned, InOrder
<1>4. fetch'.rows = {} /\ FetchPlace'
  BY <1>1, <1>3 DEF NoFetch, FetchPlace
<1> QED BY <1>1, <1>2, <1>3, <1>4, LessKeeps

\* JobFails: the failures that lose nothing.
LEMMA JobFailsKeeps ==
    ASSUME Typed, Whole, JobFails, losses' = {}
    PROVE  Whole' /\ NothingForgotten
<1>1. /\ jobs # <<>> /\ Ended /\ Head(jobs).op \notin {"row", "window", "reread", "publish"}
      /\ buffer' \subseteq buffer /\ bufferMode' = bufferMode
      /\ fetch' = IF Head(jobs).op \in {"mode", "window", "history", "reread"} THEN NoFetch ELSE fetch
      /\ UNCHANGED <<log, command, sends, disk>>
  BY DEF JobFails, diskVars
<1>2. Still
  BY <1>1, Numbers DEF Still, LogKeeps, Typed, LogTyped
<1>3. /\ Head(jobs) \in Planned(jobs) /\ Planned(jobs') \subseteq Planned(jobs)
      /\ Planned(jobs) \subseteq Planned(jobs') \cup {Head(jobs)}
      /\ InOrder(jobs') /\ \A y \in Planned(jobs') : After(Head(jobs), y)
  BY <1>1, JobEnded DEF Typed, Whole
<1>4. fetch'.rows \subseteq fetch.rows
  BY <1>1 DEF NoFetch
<1>5. FetchPlace'
  <2>1. CASE Head(jobs).op \in Fetching
    <3>1. \A y \in Planned(jobs') : y.op \notin Fetching
      BY <1>3, <2>1 DEF After
    <3>2. fetch' = NoFetch
      BY <1>1, <2>1 DEF Fetching
    <3> QED BY <3>1, <3>2 DEF FetchPlace, Fetching, NoFetch
  <2>2. CASE Head(jobs).op \notin Fetching
    BY <1>1, <1>3, <2>2 DEF Fetching, Whole, FetchPlace
  <2> QED BY <2>1, <2>2
<1>6. /\ \A m : Fix(m) => Fix(m)'
      /\ \A a : PushedFor(a) => PushedFor(a)'
      /\ Queued({"reread"}) => Queued({"reread"})'
  BY <1>1, <1>3, JobsStay, QueuedJobs
<1> QED BY <1>1, <1>2, <1>3, <1>4, <1>5, <1>6, LessKeeps

\* Memory takes in rows that are on disk and know at least as much.
LEMMA TakenInKeeps ==
    ASSUME Typed, Whole, Still, jobs # <<>>, Ended, Head(jobs).op \in {"window", "reread", "publish"},
           NEW held \in SUBSET buffer, NEW R \in SUBSET Copies, Unlike(R), buffer' = Overlay(held, R),
           \A y \in Planned(jobs') : y.op \notin {"row", "history", "reread"},
           Head(jobs).op = "reread" => \A y \in Planned(jobs') : y.op # "publish",
           \A r \in R : r.smid # 0 => OnDisk(r) /\ \A a \in buffer : a.smid = r.smid => Knows(r, a),
           \A y \in Planned(jobs') : y.op = "publish" =>
               \A p \in y.rows, r \in R : r.smid = p.smid /\ r.revoked => p.revoked,
           fetch'.rows = {}, FetchPlace',
           \A a \in buffer' : HasPtsGap(a) => (DiskGap(a.smid) /\ bufferMode' # "pts") \/ Fix(a.smid)'
    PROVE  Whole' /\ NothingForgotten
<1>1. /\ Head(jobs) \in Planned(jobs) /\ Planned(jobs') \subseteq Planned(jobs)
      /\ Planned(jobs) \subseteq Planned(jobs') \cup {Head(jobs)} /\ InOrder(jobs')
  BY JobEnded DEF Typed, Whole
<1>2. Unlike(held)
  BY DEF Whole, Unlike
<1>3. /\ Unlike(buffer')
      /\ \A a \in buffer' : a \in R \/ (a \in held /\ \A n \in R : a.id # n.id /\ ~Same(a, n))
  BY <1>2, BufferTaken
<1>4. Copies' \subseteq Copies
  <2>1. Bare' \subseteq Copies /\ buffer' \subseteq Copies /\ fetch'.rows \subseteq Copies
    BY <1>3, StillKeeps, PlacedRows
  <2>2. \A y \in Planned(jobs') : y.rows \subseteq Copies
    BY <1>1, PlacedRows
  <2>3. Copies' \subseteq Copies \cup {}
    BY <2>1, <2>2, PlacedNext
  <2> QED BY <2>3
<1>5. \A y \in Planned(jobs) : y.op # "row"
  BY <1>1
<1>6. JobsHold'
  <2> SUFFICES ASSUME NEW x \in Planned(jobs') PROVE JobHolds(x)'
    BY DEF JobsHold
  <2>1. x \in Planned(jobs) /\ x.op \notin {"row", "history", "reread"}
    BY <1>1
  <2>2. x.op = "publish" =>
           \A r \in x.rows, a \in buffer' : a \in buffer \/ a.smid # r.smid \/ ~a.revoked \/ r.revoked
    BY <1>3
  <2>3. x.op = "publish" => (Queued({"reread"}) => Queued({"reread"})')
    BY <1>1, QueuedJobs
  <2> QED BY <2>1, <2>2, <2>3, StillJob
<1>7. FetchHolds'
  BY DEF FetchHolds
<1>8. Held'
  <2>1. \A a : ~PushedFor(a)
    BY <1>5 DEF PushedFor
  <2> QED BY <1>3, <2>1, StillKeeps DEF Whole, Held
<1>9. Gaps'
  BY StillKeeps DEF Gaps
<1>10. NothingForgotten
  <2>1. \A a \in buffer, b \in buffer' : a.smid # 0 /\ a.smid = b.smid => Knows(b, a)
    BY <1>3 DEF Whole, Unlike, Same, Knows
  <2> QED BY <2>1, StillKeeps DEF NothingForgotten
<1> QED BY <1>1, <1>3, <1>4, <1>6, <1>7, <1>8, <1>9, <1>10, SameRows, StillKeeps DEF Whole

\* What ends with the transaction that ends, and what waits behind it.
LEMMA TakerEnds ==
    ASSUME Typed, Whole, jobs # <<>>, Ended, Head(jobs).op \in {"window", "reread", "publish"}
    PROVE  /\ Head(jobs) \in Planned(jobs) /\ Planned(jobs') \subseteq Planned(jobs)
           /\ Planned(jobs) \subseteq Planned(jobs') \cup {Head(jobs)}
           /\ \A y \in Planned(jobs) : y.op # "row"
           /\ Head(jobs).op \in Fetching => \A y \in Planned(jobs') : y.op \notin Fetching
           /\ Head(jobs).op = "publish" => \A y \in Planned(jobs') : y.op # "publish"
<1>1. /\ Head(jobs) \in Planned(jobs) /\ Planned(jobs') \subseteq Planned(jobs)
      /\ Planned(jobs) \subseteq Planned(jobs') \cup {Head(jobs)}
      /\ \A y \in Planned(jobs') : After(Head(jobs), y)
  BY JobEnded DEF Typed, Whole
<1>2. \A y \in Planned(jobs') : y.op # "row"
  BY <1>1 DEF After, Readers
<1>3. \A y \in Planned(jobs) : y.op # "row"
  BY <1>1, <1>2
<1> QED BY <1>1, <1>3 DEF After

\* RunWindow: memory takes in stored rows.
LEMMA RunWindowKeeps ==
    ASSUME Typed, Whole, RunWindow, losses' = {}
    PROVE  Whole' /\ NothingForgotten
<1>1. /\ jobs # <<>> /\ Head(jobs).op = "window" /\ Ended
      /\ fetch'.at = "asked" /\ fetch'.rows = fetch.rows
      /\ UNCHANGED <<log, command, sends, disk>>
  BY DEF RunWindow, Heads, outVars, diskVars, Typed, FetchTyped
<1>2. Still
  BY <1>1, Numbers DEF Still, LogKeeps, Typed, LogTyped
<1>3. /\ Head(jobs) \in Planned(jobs) /\ Planned(jobs') \subseteq Planned(jobs)
      /\ Planned(jobs) \subseteq Planned(jobs') \cup {Head(jobs)}
      /\ (\A y \in Planned(jobs) : y.op # "row") /\ \A y \in Planned(jobs') : y.op \notin Fetching
  BY <1>1, TakerEnds DEF Fetching
<1>4. fetch.at = "window" /\ fetch.rows = {}
  BY <1>1, <1>3 DEF Whole, FetchPlace
<1>5. FetchPlace'
  BY <1>1, <1>3, <1>4 DEF FetchPlace, Fetching
<1>6. PICK R \in SUBSET Bare, held \in SUBSET buffer :
        /\ buffer' = Overlay(held, R)
        /\ bufferMode' = NoteRows(bufferMode, R)
  <2>1. CASE disk = {}
    <3>1. UNCHANGED bufferVars
      BY <2>1 DEF RunWindow
    <3>2. {} \in SUBSET Bare /\ buffer \in SUBSET buffer /\ buffer' = Overlay(buffer, {}) /\ bufferMode' = NoteRows(bufferMode, {})
      BY <3>1 DEF bufferVars, Overlay, NoteRows
    <3> QED BY <3>2
  <2>2. CASE disk # {}
    <3> DEFINE R == {Strip(r) : r \in MessageWindow}
    <3>1. ReplaceWindow(bufferMode, R)
      BY <2>2 DEF RunWindow
    <3>2. R \subseteq Bare /\ Loose(R)
      BY WindowRows DEF Typed
    <3> HIDE DEF R
    <3>3. bufferMode' = NoteRows(bufferMode, R) /\ \E held \in SUBSET buffer : buffer' = Overlay(held, R)
      BY <3>1, <3>2, BufferReplaced DEF Typed, BufferTyped
    <3> QED BY <3>2, <3>3
  <2> QED BY <2>1, <2>2
<1>7. Unlike(R) /\ R \in SUBSET Copies
  BY PlacedRows DEF Whole, Unlike
<1>8. \A r \in R : r.smid # 0 => OnDisk(r) /\ \A a \in buffer : a.smid = r.smid => Knows(r, a)
  <2> SUFFICES ASSUME NEW r \in R, r.smid # 0
               PROVE  OnDisk(r) /\ \A a \in buffer : a.smid = r.smid => Knows(r, a)
    OBVIOUS
  <2>1. OnDisk(r)
    BY DEF OnDisk, Knows
  <2>2. ASSUME NEW a \in buffer, a.smid = r.smid PROVE Knows(r, a)
    <3>1. OnDisk(a)
      BY <1>3, <2>2 DEF Whole, Held, PushedFor
    <3>2. PICK d \in Bare : d.smid = a.smid /\ Knows(d, a)
      BY <3>1 DEF OnDisk
    <3>3. d = r
      BY <2>2, <3>2 DEF Whole, Unlike, Same
    <3> QED BY <3>2, <3>3
  <2> QED BY <2>1, <2>2
<1>9. \A y \in Planned(jobs') : y.op = "publish" =>
         \A p \in y.rows, r \in R : r.smid = p.smid /\ r.revoked => p.revoked
  <2> SUFFICES ASSUME NEW y \in Planned(jobs'), y.op = "publish", NEW p \in y.rows, NEW r \in R,
                      r.smid = p.smid, r.revoked
               PROVE  p.revoked
    OBVIOUS
  <2>1. PublishHolds(p)
    BY <1>3 DEF Whole, JobsHold, JobHolds
  <2>2. ~Queued({"reread"})
    BY <1>1, <1>3, QueuedJobs DEF Fetching
  <2> QED BY <2>1, <2>2 DEF PublishHolds
<1>10. \A a \in buffer' : HasPtsGap(a) => (DiskGap(a.smid) /\ bufferMode' # "pts") \/ Fix(a.smid)'
  <2> SUFFICES ASSUME NEW a \in buffer', HasPtsGap(a)
               PROVE  (DiskGap(a.smid) /\ bufferMode' # "pts") \/ Fix(a.smid)'
    OBVIOUS
  <2>1. CASE a \in R
    BY <1>6, <2>1 DEF NoteRows, DiskGap, HasPtsGap
  <2>2. CASE a \notin R
    <3>1. a \in buffer
      BY <1>6, <2>2 DEF Overlay
    <3>2. (DiskGap(a.smid) /\ bufferMode # "pts") \/ Fix(a.smid)
      BY <3>1 DEF Whole, Gaps
    <3>3. Fix(a.smid) => Fix(a.smid)'
      BY <1>1, <1>3, JobsStay
    <3> QED BY <1>6, <3>2, <3>3 DEF NoteRows
  <2> QED BY <2>1, <2>2
<1>11. \A y \in Planned(jobs') : y.op \notin {"row", "history", "reread"}
  BY <1>3 DEF Fetching
<1> QED BY <1>1, <1>2, <1>4, <1>5, <1>6, <1>7, <1>8, <1>9, <1>10, <1>11, TakenInKeeps

\* RunReread: memory takes in the answer.
LEMMA RunRereadKeeps ==
    ASSUME Typed, Whole, RunReread, losses' = {}
    PROVE  Whole' /\ NothingForgotten
<1>1. /\ jobs # <<>> /\ Head(jobs).op = "reread" /\ Ended
      /\ fetch'.at = "idle" /\ fetch'.rows = {} /\ ~Queued({"publish"})
      /\ ReplaceWindow(diskMode, Head(jobs).rows)
      /\ UNCHANGED <<log, command, sends, disk>>
  BY DEF RunReread, Heads, outVars, diskVars, NoFetch, Overtakes
<1>2. Still
  BY <1>1, Numbers DEF Still, LogKeeps, Typed, LogTyped
<1>3. /\ Head(jobs) \in Planned(jobs) /\ Planned(jobs') \subseteq Planned(jobs)
      /\ Planned(jobs) \subseteq Planned(jobs') \cup {Head(jobs)}
      /\ (\A y \in Planned(jobs) : y.op # "row") /\ \A y \in Planned(jobs') : y.op \notin Fetching
  BY <1>1, TakerEnds DEF Fetching
<1>4. \A y \in Planned(jobs) : y.op # "publish"
  BY <1>1, QueuedJobs
<1>5. FetchPlace'
  BY <1>1, <1>3 DEF FetchPlace, Fetching
<1>6. PICK R : R = Head(jobs).rows
  OBVIOUS
<1>7. R \in SUBSET Copies /\ Loose(R)
  BY <1>3, <1>6, PlacedRows
<1>8. PICK held \in SUBSET buffer : buffer' = Overlay(held, R) /\ bufferMode' = NoteRows(diskMode, R)
  <2>1. diskMode \in Modes /\ BufferTyped
    BY DEF Typed, DiskTyped
  <2> QED BY <1>1, <1>6, <1>7, <2>1, BufferReplaced
<1>9. Numbered(R) /\ \A h \in R : Obtains(h) /\ OnDisk(h)
  BY <1>1, <1>3, <1>6 DEF Whole, JobsHold, JobHolds
<1>10. Unlike(R)
  BY <1>9 DEF Unlike, Same, Numbered, Obtains
<1>11. \A r \in R : r.smid # 0 => OnDisk(r) /\ \A a \in buffer : a.smid = r.smid => Knows(r, a)
  BY <1>9 DEF Obtains, UpToDate, Knows
<1>12. \A m : Fix(m) => \E r \in R : r.smid = m /\ r.pts # 0
  <2>1. \A y \in Planned(jobs) : y.op \in {"publish", "reread"} => y = Head(jobs)
    BY <1>3, <1>4 DEF Fetching
  <2> QED BY <1>6, <2>1 DEF Fix
<1>13. \A a \in buffer' : HasPtsGap(a) => (DiskGap(a.smid) /\ bufferMode' # "pts") \/ Fix(a.smid)'
  <2> SUFFICES ASSUME NEW a \in buffer', HasPtsGap(a)
               PROVE  DiskGap(a.smid) /\ bufferMode' # "pts"
    OBVIOUS
  <2>1. CASE a \in R
    <3>1. DiskGap(a.smid) \/ Fix(a.smid)
      BY <1>1, <1>3, <1>6, <2>1 DEF Whole, Gaps
    <3>2. ~Fix(a.smid)
      BY <1>9, <1>12, <2>1 DEF Numbered, HasPtsGap
    <3> QED BY <1>8, <2>1, <3>1, <3>2 DEF NoteRows
  <2>2. CASE a \notin R
    <3>1. a \in buffer /\ \A r \in R : ~Same(a, r)
      BY <1>8, <2>2 DEF Overlay
    <3>2. DiskGap(a.smid) \/ Fix(a.smid)
      BY <3>1 DEF Whole, Gaps
    <3>3. ~Fix(a.smid)
      BY <1>12, <3>1 DEF Same, HasPtsGap
    <3>4. diskMode # "pts"
      BY <3>2, <3>3, DegradedGap DEF HasPtsGap
    <3> QED BY <1>8, <3>2, <3>3, <3>4 DEF NoteRows
  <2> QED BY <2>1, <2>2
<1>14. \A y \in Planned(jobs') : y.op \notin {"row", "history", "reread", "publish"}
  BY <1>3, <1>4 DEF Fetching
<1> QED BY <1>1, <1>2, <1>5, <1>7, <1>8, <1>10, <1>11, <1>13, <1>14, TakenInKeeps

\* RunPublish: memory takes in the row of a commit.
LEMMA RunPublishKeeps ==
    ASSUME Typed, Whole, RunPublish, losses' = {}
    PROVE  Whole' /\ NothingForgotten
<1>1. /\ jobs # <<>> /\ Head(jobs).op = "publish" /\ Ended
      /\ ~Queued({"history", "reread"}) /\ fetch.at # "answered" /\ fetch' = fetch
      /\ buffer' = Overlay(buffer, Head(jobs).rows) /\ bufferMode' = NoteRows(diskMode, Head(jobs).rows)
      /\ UNCHANGED <<log, command, sends, disk>>
  BY DEF RunPublish, Heads, outVars, diskVars, Overtakes
<1>2. Still
  BY <1>1, Numbers DEF Still, LogKeeps, Typed, LogTyped
<1>3. /\ Head(jobs) \in Planned(jobs) /\ Planned(jobs') \subseteq Planned(jobs)
      /\ Planned(jobs) \subseteq Planned(jobs') \cup {Head(jobs)}
      /\ (\A y \in Planned(jobs) : y.op # "row") /\ \A y \in Planned(jobs') : y.op # "publish"
  BY <1>1, TakerEnds
<1>4. \A y \in Planned(jobs) : y.op \notin {"history", "reread"}
  BY <1>1, QueuedJobs
<1>5. fetch'.rows = {} /\ FetchPlace'
  BY <1>1, <1>3 DEF Whole, FetchPlace
<1>6. PICK R : R = Head(jobs).rows
  OBVIOUS
<1>7. R \in SUBSET Copies /\ buffer \in SUBSET buffer
  BY <1>3, <1>6, PlacedRows
<1>8. (\A p, q \in R : p = q) /\ \A p \in R : PublishHolds(p)
  BY <1>1, <1>3, <1>6 DEF Whole, JobsHold, JobHolds
<1>9. Unlike(R)
  BY <1>8 DEF Unlike
<1>10. \A r \in R : r.smid # 0 => OnDisk(r) /\ \A a \in buffer : a.smid = r.smid => Knows(r, a)
  BY <1>8 DEF PublishHolds, UpToDate, Knows
<1>11. \A m : Fix(m) => \E r \in R : r.smid = m /\ r.pts # 0
  <2>1. \A y \in Planned(jobs) : y.op \in {"publish", "reread"} => y = Head(jobs)
    BY <1>3, <1>4
  <2> QED BY <1>6, <2>1 DEF Fix
<1>12. \A a \in buffer' : HasPtsGap(a) => (DiskGap(a.smid) /\ bufferMode' # "pts") \/ Fix(a.smid)'
  <2> SUFFICES ASSUME NEW a \in buffer', HasPtsGap(a)
               PROVE  DiskGap(a.smid) /\ bufferMode' # "pts"
    OBVIOUS
  <2>1. a \notin R
    BY <1>8 DEF PublishHolds, HasPtsGap
  <2>2. a \in buffer /\ \A r \in R : ~Same(a, r)
    BY <1>1, <1>6, <2>1 DEF Overlay
  <2>3. DiskGap(a.smid) \/ Fix(a.smid)
    BY <2>2 DEF Whole, Gaps
  <2>4. ~Fix(a.smid)
    BY <1>11, <2>2 DEF Same, HasPtsGap
  <2>5. diskMode # "pts"
    BY <2>3, <2>4, DegradedGap DEF HasPtsGap
  <2> QED BY <1>1, <1>6, <2>3, <2>4, <2>5 DEF NoteRows
<1>13. \A y \in Planned(jobs') : y.op \notin {"row", "history", "reread", "publish"}
  BY <1>3, <1>4
<1> QED BY <1>1, <1>2, <1>5, <1>6, <1>7, <1>9, <1>10, <1>12, <1>13, TakenInKeeps

-----------------------------------------------------------------------------
(* Pushes.                                                                 *)

\* A confirmed row comes before a pending one, under either mode.
LEMMA ConfirmedFirst ==
    ASSUME NEW mode, NEW a, a.smid # 0, NEW b, b.smid = 0
    PROVE  Precedes(SortKey(a, mode), SortKey(b, mode)) /\ ~Precedes(SortKey(b, mode), SortKey(a, mode))
<1> DEFINE j == SortKey(a, mode)
           k == SortKey(b, mode)
<1>1. j[1] = 0 /\ k[1] = 1
  BY DEF SortKey
<1> HIDE DEF j, k
<1>2. Precedes(j, k)
  BY <1>1 DEF Precedes
<1>3. ~Precedes(k, j)
  <2> SUFFICES ASSUME NEW i \in 1..4, k[i] < j[i], \A h \in 1..(i - 1) : k[h] = j[h]
               PROVE  FALSE
    BY DEF Precedes
  <2>1. CASE i = 1
    BY <1>1, <2>1
  <2>2. CASE i # 1
    <3>1. 1 \in 1..(i - 1)
      BY <2>2
    <3> QED BY <1>1, <3>1
  <2> QED BY <2>1, <2>2
<1> QED BY <1>2, <1>3 DEF j, k

\* A row that is the same as one which has both numbers is of that message.
LEMMA SameMessageOf ==
    ASSUME Typed, Whole, NEW m \in DOMAIN log, NEW t, t.smid = m, t.lmid = log[m].lmid,
           NEW r \in Copies
    PROVE  /\ Same(r, t) <=> (r.smid = m \/ (r.smid = 0 /\ r.lmid = log[m].lmid))
           /\ Same(r, t) <=> Kin(r, t)
           /\ Same(r, t) => Send(r) = log[m].lmid
           /\ log[m].lmid # 0 => (Same(r, t) <=> Send(r) = log[m].lmid)
           /\ Send(t) = log[m].lmid /\ m # 0
           /\ Real(r) /\ r \in MessageRecord
<1>1. m # 0 /\ Real(r) /\ r \in MessageRecord /\ 0 \notin 1..sends
  BY BuiltRows, Numbers, PlacedRows DEF Typed, Ids, LogTyped, Whole, RowsTold, Loose
<1>2. \A n \in DOMAIN log : log[n].lmid = log[m].lmid /\ log[n].lmid # 0 => n = m
  BY DEF Whole, LogSound
<1>3. Send(t) = log[m].lmid
  BY <1>1 DEF Send
<1>4. CASE r.smid = 0
  <2>1. r.lmid # 0 /\ Send(r) = r.lmid
    BY <1>1, <1>4 DEF Real, Send
  <2> QED BY <1>1, <1>2, <1>3, <1>4, <2>1 DEF Same, Kin
<1>5. CASE r.smid # 0
  <2>1. r.smid \in DOMAIN log /\ r.lmid \in {0, log[r.smid].lmid} /\ Send(r) = log[r.smid].lmid
    BY <1>1, <1>5 DEF Real, Send
  <2> QED BY <1>1, <1>2, <1>3, <1>5, <2>1 DEF Same, Kin
<1> QED BY <1>4, <1>5

\* Rows of memory a push may be about, and the first of them in the order on screen.
Matching(push) == {r \in buffer : Same(r, push)}
Foremost(match) ==
    {r \in match : \A o \in match \ {r} : Precedes(SortKey(r, bufferMode), SortKey(o, bufferMode))}

\* The row of memory a push is about: the confirmed one, else the pending one.
LEMMA KnownRow ==
    ASSUME Typed, Whole, NEW m \in DOMAIN log, NEW push, push.smid = m, push.lmid = log[m].lmid,
           NEW match, match = Matching(push), NEW known, known = Foremost(match)
    PROVE  \/ known = {} /\ match = {}
           \/ \E e \in match : known = {e} /\ \A a \in buffer : a.smid = m => a = e
<1>1. \A r \in match : r \in buffer /\ (r.smid = m \/ (r.smid = 0 /\ r.lmid = log[m].lmid /\ r.lmid # 0))
  <2> SUFFICES ASSUME NEW r \in match
               PROVE  r \in buffer /\ (r.smid = m \/ (r.smid = 0 /\ r.lmid = log[m].lmid /\ r.lmid # 0))
    OBVIOUS
  <2>1. r \in buffer /\ r \in Copies /\ Same(r, push)
    BY PlacedRows DEF Matching
  <2>2. r.smid = m \/ (r.smid = 0 /\ r.lmid = log[m].lmid)
    BY <2>1, SameMessageOf
  <2>3. Real(r) /\ 0 \notin 1..sends
    BY <2>1, Numbers DEF Whole, RowsTold, Typed, LogTyped
  <2> QED BY <2>1, <2>2, <2>3 DEF Real
<1>2. m # 0
  BY BuiltRows, Numbers DEF Typed, Ids
<1>3. \A a, b \in match : (a.smid = 0 <=> b.smid = 0) => a = b
  <2> SUFFICES ASSUME NEW a \in match, NEW b \in match, a.smid = 0 <=> b.smid = 0 PROVE a = b
    OBVIOUS
  <2>1. Same(a, b)
    BY <1>1, <1>2 DEF Same
  <2> QED BY <1>1, <2>1 DEF Whole, Unlike
<1>4. \A a \in buffer : a.smid = m => a \in match
  BY <1>2 DEF Same, Matching
<1>5. CASE match = {}
  BY <1>5 DEF Foremost
<1>6. CASE match # {}
  <2>1. PICK e \in match : \A o \in match : e.smid = 0 => o.smid = 0
    BY <1>6
  <2>2. \A o \in match \ {e} : e.smid # 0 /\ o.smid = 0
    BY <1>3, <2>1
  <2>3. e \in known
    BY <2>2, ConfirmedFirst DEF Foremost
  <2>4. \A o \in match \ {e} : o \notin known
    BY <2>2, ConfirmedFirst DEF Foremost
  <2>5. known = {e}
    BY <2>3, <2>4 DEF Foremost
  <2>6. \A a \in buffer : a.smid = m => a = e
    BY <1>2, <1>3, <1>4, <2>2
  <2> QED BY <2>5, <2>6
<1> QED BY <1>5, <1>6

\* The row a push leaves in memory.
LEMMA AbsorbedRow ==
    ASSUME Typed, Whole, NEW m \in DOMAIN log, NEW body \in BOOLEAN, Mint(1) \in Free,
           NEW push, push = PushRow(Mint(1), m, body, log[m].revoked),
           NEW match, match = Matching(push), NEW known, known = Foremost(match),
           ~(match = {} /\ ~body /\ Mine(m))
    PROVE  \E n \in MessageRecord :
              /\ n = MergeOnPushAbsorb(known, push) /\ n.by = "none"
              /\ n.smid = m /\ n.lmid = log[m].lmid /\ n.pts = m /\ n.revoked = log[m].revoked
              /\ n.status = IF Mine(m) THEN "sent" ELSE "received"
              /\ \/ n.id \in Free /\ \A a \in buffer : a.smid # m
                 \/ \E e \in buffer : /\ n.id = e.id /\ Same(e, push) /\ Knows(n, e)
                                      /\ \A a \in buffer : a.smid = m => a = e
<1>1. /\ push \in MessageRecord /\ push.by = "none" /\ push.id = Mint(1) /\ push.smid = m
      /\ push.lmid = log[m].lmid /\ push.pts = m /\ push.revoked = log[m].revoked /\ push.body = body
      /\ push.status = "received" /\ ~push.exact
  <2>1. log[m].revoked \in BOOLEAN /\ Mint(1) \in Ids
    BY BuiltRows, Numbers DEF Typed, Ids, Free
  <2> QED BY <2>1, BuiltRows DEF Typed, PushRow
<1>2. m # 0 /\ m \in 1..MaxLog
  BY BuiltRows, Numbers DEF Typed, Ids
<1>3. \/ known = {} /\ match = {}
      \/ \E e \in match : known = {e} /\ \A a \in buffer : a.smid = m => a = e
  BY <1>1, KnownRow
<1>4. CASE known = {} /\ match = {}
  <2> DEFINE n == MergeOnPushAbsorb(known, push)
  <2>1. n = [push EXCEPT !.status = IF Mine(m) /\ body THEN "sent" ELSE "received"]
    BY <1>1, <1>4 DEF MergeOnPushAbsorb
  <2>2. n \in MessageRecord
    BY <1>1, <2>1 DEF MessageRecord
  <2>3. /\ n.by = "none" /\ n.id = Mint(1) /\ n.smid = m /\ n.lmid = log[m].lmid /\ n.pts = m
        /\ n.revoked = log[m].revoked
        /\ n.status = (IF Mine(m) /\ body THEN "sent" ELSE "received")
    BY <1>1, <2>1 DEF MessageRecord
  <2> HIDE DEF n
  <2>4. n.status = IF Mine(m) THEN "sent" ELSE "received"
    BY <1>4, <2>3
  <2>5. \A a \in buffer : a.smid # m
    BY <1>1, <1>2, <1>4 DEF Same, Matching
  <2> QED BY <2>2, <2>3, <2>4, <2>5 DEF n
<1>5. ASSUME NEW e \in match, known = {e}, \A a \in buffer : a.smid = m => a = e
      PROVE  \E n \in MessageRecord :
              /\ n = MergeOnPushAbsorb(known, push) /\ n.by = "none"
              /\ n.smid = m /\ n.lmid = log[m].lmid /\ n.pts = m /\ n.revoked = log[m].revoked
              /\ n.status = IF Mine(m) THEN "sent" ELSE "received"
              /\ \E b \in buffer : /\ n.id = b.id /\ Same(b, push) /\ Knows(n, b)
                                   /\ \A a \in buffer : a.smid = m => a = b
  <2> DEFINE n == MergeOnPushAbsorb(known, push)
  <2>1. e \in buffer /\ Same(e, push) /\ e \in Copies
    BY PlacedRows DEF Matching
  <2>2. /\ e \in MessageRecord /\ e.by = "none" /\ Real(e)
        /\ e.smid = m \/ (e.smid = 0 /\ e.lmid = log[m].lmid)
    BY <1>1, <2>1, SameMessageOf DEF Typed, BufferTyped, Loose
  <2>3. (CHOOSE x \in known : TRUE) = e /\ known # {}
    BY <1>5
  <2>4. n = [e EXCEPT !.smid = IF e.smid # 0 THEN e.smid ELSE push.smid,
                      !.lmid = IF e.lmid # 0 THEN e.lmid ELSE push.lmid,
                      !.pts = IF e.pts # 0 THEN e.pts ELSE push.pts,
                      !.body = e.body \/ push.body,
                      !.status = IF e.status \in {"pending", "sent"} THEN "sent"
                                 ELSE IF push.body THEN push.status ELSE e.status,
                      !.revoked = e.revoked \/ push.revoked]
    <3> DEFINE c == CHOOSE x \in known : TRUE
    <3>1. n = [c EXCEPT !.smid = IF c.smid # 0 THEN c.smid ELSE push.smid,
                        !.lmid = IF c.lmid # 0 THEN c.lmid ELSE push.lmid,
                        !.pts = IF c.pts # 0 THEN c.pts ELSE push.pts,
                        !.body = c.body \/ push.body,
                        !.status = IF c.status \in {"pending", "sent"} THEN "sent"
                                   ELSE IF push.body THEN push.status ELSE c.status,
                        !.revoked = c.revoked \/ push.revoked]
      BY <2>3 DEF MergeOnPushAbsorb
    <3>2. c = e
      BY <2>3
    <3> HIDE DEF c, n
    <3> QED BY <3>1, <3>2
  <2>5. n \in MessageRecord /\ n.by = "none"
    BY <1>1, <2>2, MergedPush, <1>5
  <2>6. /\ n.id = e.id
        /\ n.smid = (IF e.smid # 0 THEN e.smid ELSE push.smid)
        /\ n.lmid = (IF e.lmid # 0 THEN e.lmid ELSE push.lmid)
        /\ n.pts = (IF e.pts # 0 THEN e.pts ELSE push.pts)
        /\ n.status = (IF e.status \in {"pending", "sent"} THEN "sent"
                       ELSE IF push.body THEN push.status ELSE e.status)
        /\ n.body = (e.body \/ push.body)
        /\ n.revoked = (e.revoked \/ push.revoked)
        /\ n.exact = e.exact
    BY <2>2, <2>4 DEF MessageRecord
  <2> HIDE DEF n
  <2>7. n.smid = m /\ n.lmid = log[m].lmid /\ n.pts = m
    BY <1>1, <1>2, <2>2, <2>6 DEF Real
  <2>8. n.status = IF Mine(m) THEN "sent" ELSE "received"
    <3>1. CASE e.smid = m
      BY <1>1, <1>2, <2>2, <2>6, <3>1 DEF Real
    <3>2. CASE e.smid = 0
      <4>1. 0 \notin 1..sends
        BY Numbers DEF Typed, LogTyped
      <4>2. e.status = "pending" /\ Mine(m)
        BY <1>2, <2>2, <3>2, <4>1 DEF Real, Mine
      <4> QED BY <2>6, <4>2
    <3> QED BY <2>2, <3>1, <3>2
  <2>9. n.revoked = log[m].revoked /\ Knows(n, e)
    <3>1. e.revoked => log[m].revoked
      BY <2>2 DEF Real
    <3>2. n.revoked = (e.revoked \/ log[m].revoked) /\ n.body = (e.body \/ push.body) /\ n.exact = e.exact
      BY <1>1, <2>6
    <3>3. e.revoked \in BOOLEAN /\ log[m].revoked \in BOOLEAN
      BY <2>2, RowTyped, BuiltRows, Numbers DEF Typed, Ids
    <3>4. n.revoked = log[m].revoked
      BY <3>1, <3>2, <3>3, Zenon
    <3>5. Knows(n, e)
      BY <3>2, Zenon DEF Knows
    <3> QED BY <3>4, <3>5
  <2> QED BY <1>5, <2>1, <2>5, <2>6, <2>7, <2>8, <2>9 DEF n
<1> QED BY <1>3, <1>4, <1>5

\* Absorb: memory first, then the database.
LEMMA AbsorbPushKeeps ==
    ASSUME Typed, Whole, NEW m \in DOMAIN log, NEW body \in BOOLEAN, Absorb(m, body), losses' = {}
    PROVE  Whole' /\ NothingForgotten
<1>1. PICK push, match, known :
        /\ push = PushRow(Mint(1), m, body, log[m].revoked)
        /\ match = Matching(push) /\ known = Foremost(match)
  OBVIOUS
<1>2. /\ Mint(1) \in Free /\ fetch.at # "answered"
      /\ Issue("row", {MergeOnPushAbsorb(known, push)}) /\ UpsertBuffer({MergeOnPushAbsorb(known, push)})
      /\ ~Queued({"window", "history", "reread", "page", "publish"})
      /\ ~(match = {} /\ ~body /\ Mine(m))
      /\ UNCHANGED <<log, command, sends, disk, fetch>>
  BY <1>1, MintedId DEF Absorb, outVars, diskVars, Overtakes, Matching, Foremost
<1>3. push.smid = m /\ push.lmid = log[m].lmid
  BY <1>1 DEF PushRow
<1>4. PICK n \in MessageRecord :
        /\ n = MergeOnPushAbsorb(known, push) /\ n.by = "none"
        /\ n.smid = m /\ n.lmid = log[m].lmid /\ n.pts = m /\ n.revoked = log[m].revoked
        /\ n.status = IF Mine(m) THEN "sent" ELSE "received"
        /\ \/ n.id \in Free /\ \A a \in buffer : a.smid # m
           \/ \E e \in buffer : /\ n.id = e.id /\ Same(e, push) /\ Knows(n, e)
                                /\ \A a \in buffer : a.smid = m => a = e
  BY <1>1, <1>2, AbsorbedRow
<1>5. Issue("row", {n}) /\ UpsertBuffer({n})
  BY <1>2, <1>4
<1>6. m # 0 /\ m \in 1..MaxLog /\ Real(n)
  BY <1>4, BuiltRows, Numbers DEF Typed, Ids, Real
<1>7. buffer' = Overlay(buffer, {n}) /\ bufferMode' = bufferMode
  BY <1>4, <1>5, <1>6 DEF UpsertBuffer, NoteRows, HasPtsGap
<1>8. Still /\ LogKeeps
  BY <1>2, Numbers DEF Still, LogKeeps, Typed, LogTyped
<1>9. Heir(n) \/ NewId(n)
  <2>1. CASE n.id \in Free
    BY <2>1, FreeIds DEF NewId
  <2>2. ASSUME NEW e \in buffer, n.id = e.id, Same(e, push), Knows(n, e)
        PROVE  Heir(n)
    <3>1. e \in Copies
      BY PlacedRows
    <3>2. Kin(e, push)
      BY <1>3, <2>2, <3>1, SameMessageOf
    <3>3. Kin(e, n)'
      BY <1>2, <1>3, <1>4, <3>2 DEF Kin, Send
    <3> QED BY <2>2, <3>1, <3>3 DEF Heir, Knows
  <2> QED BY <1>4, <2>1, <2>2
<1>10. /\ Unlike(buffer') /\ n \in buffer'
       /\ \A a \in buffer' : a = n \/ (a \in buffer /\ ~Same(a, n))
  <2>1. Unlike({n}) /\ Unlike(buffer)
    BY DEF Unlike, Whole
  <2>2. /\ Unlike(buffer') /\ {n} \subseteq buffer'
        /\ \A a \in buffer' : a \in {n} \/ (a \in buffer /\ \A q \in {n} : a.id # q.id /\ ~Same(a, q))
    <3>1. PICK N : N = {n}
      OBVIOUS
    <3>2. Unlike(N) /\ buffer' = Overlay(buffer, N)
      BY <1>7, <2>1, <3>1
    <3>3. /\ Unlike(buffer') /\ N \subseteq buffer'
          /\ \A a \in buffer' : a \in N \/ (a \in buffer /\ \A q \in N : a.id # q.id /\ ~Same(a, q))
      BY <2>1, <3>2, BufferTaken
    <3> QED BY <3>1, <3>3
  <2> QED BY <2>2
<1>11. PICK x : x = Job("row", {n}) /\ x.op = "row" /\ x.rows = {n} /\ JobTyped(x)
  <2>1. JobTyped(Job("row", {n}))
    BY <1>4 DEF JobTyped, Job, Loose, Carries
  <2> QED BY <2>1 DEF Job
<1>12. \A y \in Planned(jobs) : y.op \notin {"window", "history", "reread", "page", "publish"}
  BY <1>2, QueuedJobs
<1>13. Planned(jobs') = Planned(jobs) \cup {x} /\ InOrder(jobs')
  <2>1. \A y \in Planned(jobs) : After(y, x)
    BY <1>11, <1>12 DEF After, Fetching, Readers
  <2> QED BY <1>5, <1>11, <2>1, Issued DEF Typed, Ops, Whole
<1>14. fetch.rows = {}
  BY <1>2 DEF Whole, FetchPlace
<1>15. Copies' \subseteq Copies \cup {n}
  <2>1. Bare' \subseteq Copies /\ buffer' \subseteq Copies \cup {n} /\ fetch'.rows \subseteq Copies
    BY <1>2, <1>8, <1>10, StillKeeps, PlacedRows
  <2>2. \A y \in Planned(jobs') : y.rows \subseteq Copies \cup {n}
    BY <1>11, <1>13, PlacedRows
  <2> QED BY <2>1, <2>2, PlacedNext
<1>16. RowsTold' /\ IdsKin' /\ IdsCommand'
  <2>1. {n} \in SUBSET MessageRecord /\ command' = command /\ Real(n)'
    BY <1>2, <1>6, <1>8, ToldKeeps
  <2>2. RowsTold' /\ IdsKin'
    BY <1>8, <1>9, <1>15, <2>1, RowsKeep DEF Whole
  <2>3. IdsCommand'
    BY <1>8, <1>9, <1>15, <2>1, CommandKeep DEF Whole
  <2> QED BY <2>2, <2>3
<1>17. FetchPlace'
  BY <1>2, <1>11, <1>13 DEF Whole, FetchPlace
<1>18. JobsHold'
  <2>1. ASSUME NEW y \in Planned(jobs) PROVE JobHolds(y)'
    <3>1. y.op = "row" => \A r \in y.rows, a \in buffer' : a \in buffer \/ a.smid # r.smid \/ a.pts # 0
      BY <1>4, <1>6, <1>10
    <3> QED BY <1>8, <1>12, <3>1, StillJob
  <2>2. JobHolds(x)'
    <3>1. \A a \in buffer' : a.smid = m => a.pts # 0
      BY <1>4, <1>6, <1>10 DEF Same
    <3>2. PushHolds(n)'
      BY <1>2, <1>4, <1>6, <3>1 DEF PushHolds
    <3> QED BY <1>11, <3>2 DEF JobHolds
  <2> QED BY <1>13, <2>1, <2>2 DEF JobsHold
<1>19. FetchHolds'
  BY <1>2, <1>14 DEF FetchHolds
<1>20. Held'
  <2>1. \A a : PushedFor(a) => PushedFor(a)'
    BY <1>13 DEF PushedFor
  <2>2. PushedFor(n)'
    BY <1>11, <1>13 DEF PushedFor, Knows
  <2> QED BY <1>8, <1>10, <2>1, <2>2, StillKeeps DEF Whole, Held
<1>21. Gaps'
  <2>1. \A k : Fix(k) => Fix(k)'
    BY <1>13 DEF Fix
  <2>2. \A k : DiskGap(k) => DiskGap(k)'
    BY <1>8, StillKeeps
  <2>3. \A a \in buffer' : HasPtsGap(a) => (DiskGap(a.smid)' /\ bufferMode' # "pts") \/ Fix(a.smid)'
    BY <1>4, <1>6, <1>7, <1>10, <2>1, <2>2 DEF Whole, Gaps, HasPtsGap
  <2>4. \A y \in Planned(jobs') : y.op # "reread"
    BY <1>11, <1>12, <1>13
  <2> QED BY <2>3, <2>4 DEF Gaps
<1>22. NothingForgotten
  <2>1. \A a \in buffer : a.smid = m => Knows(n, a)
    BY <1>4
  <2>2. \A a \in buffer, b \in buffer' : a.smid # 0 /\ a.smid = b.smid => Knows(b, a)
    BY <1>4, <1>10, <2>1 DEF Whole, Unlike, Same, Knows
  <2> QED BY <1>8, <2>2, StillKeeps DEF NothingForgotten
<1> QED BY <1>8, <1>10, <1>13, <1>16, <1>17, <1>18, <1>19, <1>20, <1>21, <1>22, StillKeeps DEF Whole

\* The database gets the row k for every row that is the same as k.
Swapped(k) == Bare' = {c \in Bare : ~Same(c, k)} \cup {k}

-----------------------------------------------------------------------------
(* Writes of one message: pushes, acks and commits of a page.              *)

\* One row takes the place of all rows of its message.
LEMMA SwapKeeps ==
    ASSUME Typed, Whole, log' = log, sends' = sends, NEW m \in DOMAIN log,
           NEW k \in MessageRecord, k.smid = m, k.lmid = log[m].lmid, Swapped(k),
           \A l \in 1..MaxSends : command'[l] = command[l] \/ (command'[l] = 0 /\ l = log[m].lmid),
           \A b \in Bare : Same(b, k) =>
               /\ b.smid = m => Knows(k, b)
               /\ \A l \in 1..MaxSends : command'[l] = b.id => k.id = b.id
    PROVE  /\ LogKeeps /\ LogSound' /\ Unlike(Bare') /\ CommandsStored' /\ k \in Bare'
           /\ \A r \in MessageRecord : r.lmid # 0 /\ CreateHolds(r) => CreateHolds(r)'
           /\ \A r : r.smid # 0 /\ OnDisk(r) => OnDisk(r)'
           /\ \A r \in MessageRecord : Uncommanded(r) => Uncommanded(r)'
           /\ \A j : j # 0 /\ j # m /\ DiskGap(j) => DiskGap(j)'
           /\ \A a \in Bare, b \in Bare' : a.smid # 0 /\ a.smid = b.smid => Knows(b, a)
           /\ Bare' \subseteq Copies \cup {k}
<1>1. /\ LogKeeps
  BY Numbers DEF LogKeeps, Typed, LogTyped
<1>2. m # 0 /\ \A n \in DOMAIN log : log[n].lmid \in 0..MaxSends
  BY BuiltRows, Numbers DEF Typed, Ids
<1>3. /\ Bare' = {c \in Bare : ~Same(c, k)} \cup {k}
      /\ \A r \in Bare : r \in Copies /\ (Same(r, k) <=> (r.smid = m \/ (r.smid = 0 /\ r.lmid = log[m].lmid)))
                         /\ Real(r) /\ r \in MessageRecord
  BY PlacedRows, SameMessageOf DEF Swapped
<1>4. LogSound'
  <2>1. \A n \in DOMAIN log : log[n].lmid # 0 /\ command'[log[n].lmid] # 0 => ~log[n].revoked
    <3> SUFFICES ASSUME NEW n \in DOMAIN log, log[n].lmid # 0, command'[log[n].lmid] # 0
                 PROVE  ~log[n].revoked
      OBVIOUS
    <3>1. log[n].lmid \in 1..MaxSends
      BY <1>2, Numbers
    <3>2. command[log[n].lmid] # 0
      BY <3>1
    <3> QED BY <3>2 DEF Whole, LogSound
  <2> QED BY <2>1 DEF Whole, LogSound
<1>5. Unlike(Bare')
  <2>1. Unlike({c \in Bare : ~Same(c, k)})
    BY DEF Whole, Unlike
  <2>2. \A c \in Bare : Same(k, c) => Same(c, k)
    BY DEF Same
  <2> QED BY <1>3, <2>1, <2>2 DEF Unlike
<1>6. CommandsStored'
  <2>1. ASSUME NEW l \in 1..MaxSends, command'[l] # 0
        PROVE  command[l] = command'[l] /\ l <= sends /\ \E r \in Bare' : r.id = command'[l]
    <3>1. command[l] = command'[l]
      BY <2>1
    <3>2. PICK r \in Bare : r.id = command[l]
      BY <2>1, <3>1 DEF Whole, CommandsStored
    <3>3. l <= sends
      BY <2>1, <3>1 DEF Whole, CommandsStored
    <3> QED BY <1>3, <3>1, <3>2, <3>3
  <2>2. ASSUME NEW r \in Bare', r.smid = 0
        PROVE  command'[r.lmid] = r.id
    <3>1. r \in Bare /\ ~Same(r, k)
      BY <1>2, <1>3, <2>2
    <3>2. r.lmid # log[m].lmid /\ r.lmid \in 1..MaxSends
      BY <1>3, <2>2, <3>1, Numbers DEF Real, Typed, LogTyped
    <3> QED BY <2>2, <3>1, <3>2 DEF Whole, CommandsStored
  <2> QED BY <2>1, <2>2 DEF Whole, CommandsStored
<1>7. \A r \in MessageRecord : r.lmid # 0 /\ CreateHolds(r) => CreateHolds(r)'
  <2> SUFFICES ASSUME NEW r \in MessageRecord, r.lmid # 0, CreateHolds(r)
               PROVE  CreateHolds(r)'
    OBVIOUS
  <2>1. r.lmid \in 1..MaxSends
    BY RowTyped, Numbers
  <2>2. command'[r.lmid] = 0
    BY <2>1 DEF CreateHolds
  <2>3. \A d \in Bare' : Send(d)' = Send(d)
    BY DEF Send
  <2>4. Send(k) = log[m].lmid
    BY <1>2 DEF Send
  <2> QED BY <1>3, <2>2, <2>3, <2>4 DEF CreateHolds
<1>8. \A r : r.smid # 0 /\ OnDisk(r) => OnDisk(r)'
  <2> SUFFICES ASSUME NEW r, r.smid # 0, NEW d \in Bare, d.smid = r.smid, Knows(d, r)
               PROVE  \E e \in Bare' : e.smid = r.smid /\ Knows(e, r)
    BY DEF OnDisk
  <2>1. CASE Same(d, k)
    BY <1>3, <2>1 DEF Knows
  <2>2. CASE ~Same(d, k)
    BY <1>3, <2>2
  <2> QED BY <2>1, <2>2
<1>9. \A r \in MessageRecord : Uncommanded(r) => Uncommanded(r)'
  BY RowTyped DEF Uncommanded
<1>10. \A j : j # 0 /\ j # m /\ DiskGap(j) => DiskGap(j)'
  BY <1>3 DEF DiskGap
<1>11. \A a \in Bare, b \in Bare' : a.smid # 0 /\ a.smid = b.smid => Knows(b, a)
  <2> SUFFICES ASSUME NEW a \in Bare, NEW b \in Bare', a.smid # 0, a.smid = b.smid
               PROVE  Knows(b, a)
    OBVIOUS
  <2>1. CASE b = k
    BY <1>2, <1>3, <2>1
  <2>2. CASE b \in Bare
    BY <2>2 DEF Whole, Unlike, Same, Knows
  <2> QED BY <1>3, <2>1, <2>2
<1> QED BY <1>1, <1>3, <1>4, <1>5, <1>6, <1>7, <1>8, <1>9, <1>10, <1>11

\* A row that has both numbers is written over the one row that is the same.
LEMMA UpsertSwaps ==
    ASSUME Typed, Whole, NEW m \in DOMAIN log, NEW t \in Copies, t.smid = m, t.lmid = log[m].lmid, t.pts = m,
           \A b, c \in Bare : Same(b, t) /\ Same(c, t) => b = c
    PROVE  /\ Keyed(UpsertRow(disk, t), diskMode) /\ Legal(UpsertRow(disk, t))
           /\ \E k \in MessageRecord :
                 /\ Bared(UpsertRow(disk, t)) = {c \in Bare : ~Same(c, k)} \cup {k}
                 /\ k.by = "none" /\ k.smid = m /\ k.lmid = log[m].lmid /\ k.pts = m /\ Real(k) /\ Knows(k, t)
                 /\ \A b \in Bare : Same(b, k) => Knows(k, b) /\ k.id = b.id
                 /\ \E p \in Copies : p.id = k.id /\ Kin(p, k) /\ (p.body /\ p.exact => k.body /\ k.exact)
<1> DEFINE rows == UpsertRow(disk, t)
<1>1. t \in MessageRecord /\ t.by = "none" /\ Real(t) /\ m # 0
  BY PlacedRows, SameMessageOf DEF Loose
<1>2. Keyed(disk, diskMode) /\ diskMode \in Modes
  BY DEF Typed, DiskTyped
<1>3. /\ Keyed(rows, diskMode)
      /\ \/ /\ \A b \in Bare : b.id # t.id /\ ~Same(b, t)
            /\ Bared(rows) = Bare \cup {t}
         \/ \E b \in Bare : /\ b.id = t.id \/ Same(b, t)
                            /\ Bared(rows) = (Bare \ {b}) \cup {Merged(b, t)}
  BY <1>1, <1>2, UpsertedRow DEF Bare
<1> HIDE DEF rows
<1>4. \E k \in MessageRecord :
         /\ Bared(rows) = {c \in Bare : ~Same(c, k)} \cup {k}
         /\ k.by = "none" /\ k.smid = m /\ k.lmid = log[m].lmid /\ k.pts = m /\ Real(k) /\ Knows(k, t)
         /\ \A b \in Bare : Same(b, k) => Knows(k, b) /\ k.id = b.id
         /\ \E p \in Copies : p.id = k.id /\ Kin(p, k) /\ (p.body /\ p.exact => k.body /\ k.exact)
  <2>1. CASE /\ \A b \in Bare : b.id # t.id /\ ~Same(b, t)
             /\ Bared(rows) = Bare \cup {t}
    <3>1. Bared(rows) = {c \in Bare : ~Same(c, t)} \cup {t}
      BY <2>1
    <3> QED BY <1>1, <2>1, <3>1 DEF Kin, Knows
  <2>2. ASSUME NEW b \in Bare, b.id = t.id \/ Same(b, t), Bared(rows) = (Bare \ {b}) \cup {Merged(b, t)}
        PROVE  \E k \in MessageRecord :
         /\ Bared(rows) = {c \in Bare : ~Same(c, k)} \cup {k}
         /\ k.by = "none" /\ k.smid = m /\ k.lmid = log[m].lmid /\ k.pts = m /\ Real(k) /\ Knows(k, t)
         /\ \A c \in Bare : Same(c, k) => Knows(k, c) /\ k.id = c.id
         /\ \E p \in Copies : p.id = k.id /\ Kin(p, k) /\ (p.body /\ p.exact => k.body /\ k.exact)
    <3> DEFINE k == Merged(b, t)
    <3>1. b \in Copies /\ Real(b) /\ b \in MessageRecord /\ Send(t) = log[m].lmid
      BY SameMessageOf, PlacedRows
    <3>2. Same(b, t) /\ Kin(b, t) /\ (b.smid = m \/ (b.smid = 0 /\ b.lmid = log[m].lmid))
      <4>1. b.id = t.id => Kin(b, t)
        BY <3>1 DEF Whole, IdsKin
      <4> QED BY <2>2, <3>1, <4>1, SameMessageOf
    <3>3. /\ k \in MessageRecord /\ k.id = b.id /\ k.smid = m /\ k.lmid = log[m].lmid /\ k.pts = m /\ k.by = "none"
          /\ k.body = (t.body \/ b.body)
          /\ k.status = (IF b.status = "sent" /\ ~t.body THEN "sent" ELSE t.status)
          /\ k.revoked = (t.revoked \/ b.revoked)
          /\ k.exact = (t.exact \/ b.exact)
      BY <1>1, <3>1, MergedRow
    <3> HIDE DEF k
    <3>4. Knows(k, b) /\ Knows(k, t) /\ (b.body /\ b.exact => k.body /\ k.exact)
      <4>1. /\ k.body = (t.body \/ b.body) /\ k.revoked = (t.revoked \/ b.revoked)
            /\ k.exact = (t.exact \/ b.exact)
        BY <3>3
      <4> QED BY <4>1, Zenon DEF Knows
    <3>5. Real(k)
      <4>1. b.revoked => log[m].revoked
        BY <3>1, <3>2, <1>1 DEF Real
      <4>2. t.revoked => log[m].revoked
        BY <1>1 DEF Real
      <4>3. k.revoked => log[m].revoked
        <5>1. k.revoked = (t.revoked \/ b.revoked)
          BY <3>3
        <5> QED BY <4>1, <4>2, <5>1, Zenon
      <4>4. b.status = "sent" => t.status = "sent"
        BY <1>1, <3>1, <3>2 DEF Real, Mine
      <4>5. k.status = t.status
        BY <3>3, <4>4
      <4> QED BY <1>1, <3>3, <4>3, <4>5 DEF Real
    <3>6. \A c \in Bare : Same(c, k) <=> c = b
      <4>1. \A c \in Bare : Same(c, k) <=> Same(c, t)
        BY <3>3 DEF Same
      <4> QED BY <3>2, <4>1
    <3>7. Bared(rows) = {c \in Bare : ~Same(c, k)} \cup {k}
      BY <2>2, <3>6 DEF k
    <3>8. Kin(b, k)
      BY <1>1, <3>2, <3>3 DEF Kin, Send
    <3> QED BY <3>1, <3>3, <3>4, <3>5, <3>6, <3>7, <3>8
  <2> QED BY <1>3, <2>1, <2>2
<1>5. Legal(rows)
  <2>1. PICK k \in MessageRecord : Bared(rows) = {c \in Bare : ~Same(c, k)} \cup {k}
    BY <1>4
  <2>2. Unlike(Bared(rows))
    <3>1. Unlike({c \in Bare : ~Same(c, k)})
      BY DEF Whole, Unlike
    <3>2. \A c \in Bare : Same(k, c) => Same(c, k)
      BY DEF Same
    <3> QED BY <2>1, <3>1, <3>2 DEF Unlike
  <2> QED BY <1>2, <1>3, <2>2, KeyedRows
<1> QED BY <1>3, <1>4, <1>5 DEF rows

\* What the database counts as the message of a push is at most one row.
LEMMA OneSame ==
    ASSUME Typed, Whole, NEW m \in DOMAIN log, NEW t, t.smid = m, t.lmid = log[m].lmid,
           NEW S, S = {r \in disk : Same(r, t)}, ~(Cardinality(S) > 1)
    PROVE  \A b, c \in Bare : Same(b, t) /\ Same(c, t) => b = c
<1> SUFFICES ASSUME NEW b \in Bare, NEW c \in Bare, Same(b, t), Same(c, t), b # c
             PROVE  FALSE
  OBVIOUS
<1>1. Keyed(disk, diskMode) /\ diskMode \in Modes
  BY DEF Typed, DiskTyped
<1>2. \A d \in disk : Strip(d) \in Bare /\ (Same(Strip(d), t) <=> Same(d, t))
  BY <1>1, StripRow DEF Bare, Bared, Keyed, Same
<1>3. PICK d \in disk, e \in disk : b = Strip(d) /\ c = Strip(e)
  BY DEF Bare, Bared
<1>4. d \in S /\ e \in S /\ d # e
  BY <1>2, <1>3
<1>5. \A x \in Bare : Same(x, t) => x = b \/ x = c
  <2>1. \A x, y \in Bare : Same(x, t) /\ Same(y, t) /\ (x.smid = 0 <=> y.smid = 0) => x = y
    <3> SUFFICES ASSUME NEW x \in Bare, NEW y \in Bare, Same(x, t), Same(y, t), x.smid = 0 <=> y.smid = 0
                 PROVE  x = y
      OBVIOUS
    <3>1. /\ x.smid = m \/ (x.smid = 0 /\ x.lmid = log[m].lmid)
          /\ y.smid = m \/ (y.smid = 0 /\ y.lmid = log[m].lmid)
          /\ m # 0 /\ Real(x)
      BY PlacedRows, SameMessageOf
    <3>2. 0 \notin 1..sends
      BY Numbers DEF Typed, LogTyped
    <3>3. Same(x, y)
      BY <3>1, <3>2 DEF Same, Real
    <3> QED BY <3>3 DEF Whole, Unlike
  <2> QED BY <2>1
<1>6. S = {d} \cup {e}
  <2>1. \A x \in S : x = d \/ x = e
    <3> SUFFICES ASSUME NEW x \in S PROVE x = d \/ x = e
      OBVIOUS
    <3>1. x \in disk /\ (Strip(x) = Strip(d) \/ Strip(x) = Strip(e))
      BY <1>2, <1>3, <1>5
    <3> QED BY <1>1, <3>1, KeyedRows
  <2> QED BY <1>4, <2>1
<1>7. Cardinality({d}) = 1 /\ IsFiniteSet({d})
  BY FS_Singleton
<1>8. Cardinality({d} \cup {e}) = 2
  <2>1. PICK D : D = {d}
    OBVIOUS
  <2>2. IsFiniteSet(D) /\ Cardinality(D) = 1 /\ e \notin D
    BY <1>4, <1>7, <2>1
  <2>3. Cardinality(D \cup {e}) = Cardinality(D) + 1
    BY <2>2, FS_AddElement
  <2> QED BY <2>1, <2>2, <2>3
<1> QED BY <1>6, <1>8

\* RunPushed: the push reaches the database.
LEMMA RunPushedKeeps ==
    ASSUME Typed, Whole, RunPushed, losses' = {}
    PROVE  Whole' /\ NothingForgotten
<1>1. PICK t : t = TheRow
  OBVIOUS
<1>2. /\ jobs # <<>> /\ Head(jobs).op = "row" /\ Ended
      /\ IF Legal(UpsertRow(disk, t)) THEN ReconcileOrderMode(UpsertRow(disk, t)) ELSE UNCHANGED diskVars
      /\ ~(Cardinality({r \in disk : Same(r, t)}) > 1)
      /\ UNCHANGED <<log, command, sends, buffer, bufferMode, fetch>>
  BY <1>1 DEF RunPushed, Heads, outVars, bufferVars
<1>3. /\ Head(jobs) \in Planned(jobs) /\ Planned(jobs') \subseteq Planned(jobs)
      /\ Planned(jobs) \subseteq Planned(jobs') \cup {Head(jobs)}
      /\ InOrder(jobs') /\ \A y \in Planned(jobs') : After(Head(jobs), y)
  BY <1>2, JobEnded DEF Typed, Whole
<1>4. Head(jobs).rows = {t}
  BY <1>1, <1>2, HeadRow DEF Typed
<1>5. t \in Copies /\ PushHolds(t) /\ Real(t)
  BY <1>2, <1>3, <1>4, PlacedRows DEF Whole, JobsHold, JobHolds, RowsTold
<1>6. PICK m \in DOMAIN log : t.smid = m /\ t.lmid = log[m].lmid /\ t.pts = m
  BY <1>5 DEF PushHolds, Real
<1>7. \A b, c \in Bare : Same(b, t) /\ Same(c, t) => b = c
  <2>1. PICK S : S = {r \in disk : Same(r, t)}
    OBVIOUS
  <2>2. ~(Cardinality(S) > 1)
    BY <1>2, <2>1
  <2> QED BY <1>6, <2>1, <2>2, OneSame
<1>8. PICK k \in MessageRecord :
        /\ Bare' = {c \in Bare : ~Same(c, k)} \cup {k}
        /\ k.by = "none" /\ k.smid = m /\ k.lmid = log[m].lmid /\ k.pts = m /\ Real(k) /\ Knows(k, t)
        /\ \A b \in Bare : Same(b, k) => Knows(k, b) /\ k.id = b.id
        /\ \E p \in Copies : p.id = k.id /\ Kin(p, k) /\ (p.body /\ p.exact => k.body /\ k.exact)
  <2> DEFINE rows == UpsertRow(disk, t)
  <2>1. /\ Keyed(rows, diskMode) /\ Legal(rows)
        /\ \E k \in MessageRecord :
             /\ Bared(rows) = {c \in Bare : ~Same(c, k)} \cup {k}
             /\ k.by = "none" /\ k.smid = m /\ k.lmid = log[m].lmid /\ k.pts = m /\ Real(k) /\ Knows(k, t)
             /\ \A b \in Bare : Same(b, k) => Knows(k, b) /\ k.id = b.id
             /\ \E p \in Copies : p.id = k.id /\ Kin(p, k) /\ (p.body /\ p.exact => k.body /\ k.exact)
    BY <1>5, <1>6, <1>7, UpsertSwaps
  <2>2. ReconcileOrderMode(rows) /\ diskMode \in Modes
    BY <1>2, <2>1 DEF Typed, DiskTyped
  <2> HIDE DEF rows
  <2>3. Bare' = Bared(rows)
    BY <2>1, <2>2, Reconciled
  <2> QED BY <2>1, <2>3
<1>9. m # 0 /\ \A r \in Bare : r \in Copies /\ (Same(r, k) <=> (r.smid = m \/ (r.smid = 0 /\ r.lmid = log[m].lmid)))
  BY <1>8, PlacedRows, SameMessageOf
<1>10. /\ LogKeeps /\ LogSound' /\ Unlike(Bare') /\ CommandsStored' /\ k \in Bare'
       /\ \A r \in MessageRecord : r.lmid # 0 /\ CreateHolds(r) => CreateHolds(r)'
       /\ \A r : r.smid # 0 /\ OnDisk(r) => OnDisk(r)'
       /\ \A r \in MessageRecord : Uncommanded(r) => Uncommanded(r)'
       /\ \A j : j # 0 /\ j # m /\ DiskGap(j) => DiskGap(j)'
       /\ \A a \in Bare, b \in Bare' : a.smid # 0 /\ a.smid = b.smid => Knows(b, a)
       /\ Bare' \subseteq Copies \cup {k}
  BY <1>2, <1>8, SwapKeeps DEF Swapped
<1>11. Copies' \subseteq Copies \cup {k}
  <2>1. buffer' \subseteq Copies /\ fetch'.rows \subseteq Copies
    BY <1>2, PlacedRows
  <2>2. \A y \in Planned(jobs') : y.rows \subseteq Copies \cup {k}
    BY <1>3, PlacedRows
  <2> QED BY <1>10, <2>1, <2>2, PlacedNext
<1>12. Heir(k)
  <2>1. \A p \in Copies : Kin(p, k) => Kin(p, k)'
    BY <1>2 DEF Kin, Send
  <2> QED BY <1>8, <2>1 DEF Heir
<1>13. RowsTold' /\ IdsKin' /\ IdsCommand'
  <2>1. {k} \in SUBSET MessageRecord /\ Real(k)' /\ \A l \in 1..MaxSends : command'[l] \in {0, command[l]}
    BY <1>2, <1>8, <1>10, ToldKeeps
  <2>2. RowsTold' /\ IdsKin'
    BY <1>10, <1>11, <1>12, <2>1, RowsKeep DEF Whole
  <2>3. IdsCommand'
    BY <1>10, <1>11, <1>12, <2>1, CommandKeep DEF Whole
  <2> QED BY <2>2, <2>3
<1>14. FetchPlace'
  BY <1>2, <1>3 DEF Whole, FetchPlace
<1>15. \A y \in Planned(jobs') : y.op \notin {"reread", "publish"}
  BY <1>2, <1>3 DEF After
<1>16. JobsHold'
  <2> SUFFICES ASSUME NEW x \in Planned(jobs') PROVE JobHolds(x)'
    BY DEF JobsHold
  <2>1. x \in Planned(jobs) /\ JobHolds(x) /\ RowsTold /\ Loose(x.rows)
    BY <1>3, PlacedRows DEF Whole, JobsHold
  <2>2. x.op = "create" => \A r \in x.rows : CreateHolds(r)'
    <3>1. x.op = "create" => \A r \in x.rows : r.lmid # 0
      BY <2>1 DEF Typed, JobsTyped, JobTyped
    <3> QED BY <1>10, <2>1, <3>1 DEF JobHolds, Loose
  <2>3. x.op = "ack" => \A r \in x.rows : command'[r.lmid] # 0
    BY <1>2, <2>1 DEF JobHolds, AckHolds
  <2>4. x.op \in {"page", "history"} => \A r \in x.rows : Uncommanded(r)'
    BY <1>2, <2>1 DEF JobHolds, PageHolds, Uncommanded
  <2>5. \A r \in x.rows, a \in buffer' : a \in buffer
    BY <1>2
  <2> QED BY <1>10, <1>15, <2>1, <2>2, <2>3, <2>4, <2>5, JobKeeps
<1>17. FetchHolds'
  BY <1>2 DEF Whole, FetchHolds, Obtains, UpToDate, Uncommanded
<1>18. Held'
  <2> SUFFICES ASSUME NEW a \in buffer, a.smid # 0 PROVE OnDisk(a)' \/ PushedFor(a)'
    BY <1>2 DEF Held
  <2>1. OnDisk(a) => OnDisk(a)'
    BY <1>10
  <2>2. PushedFor(a) => PushedFor(a)' \/ (t.smid = a.smid /\ Knows(t, a))
    BY <1>3, <1>4 DEF PushedFor
  <2>3. t.smid = a.smid /\ Knows(t, a) => OnDisk(a)'
    BY <1>6, <1>8, <1>10 DEF OnDisk, Knows
  <2> QED BY <2>1, <2>2, <2>3 DEF Whole, Held
<1>19. Gaps'
  <2>1. \A j : Fix(j) => Fix(j)'
    BY <1>2, <1>3, JobsStay
  <2>2. \A a \in buffer : HasPtsGap(a) => a.smid # 0 /\ a.smid # m
    BY <1>5, <1>6 DEF PushHolds, HasPtsGap
  <2>3. \A a \in buffer' : HasPtsGap(a) => (DiskGap(a.smid)' /\ bufferMode' # "pts") \/ Fix(a.smid)'
    BY <1>2, <1>10, <2>1, <2>2 DEF Whole, Gaps
  <2> QED BY <1>15, <2>3 DEF Gaps
<1>20. NothingForgotten /\ Unlike(buffer')
  <2>1. Unlike(buffer') /\ \A a \in buffer, b \in buffer' : a.smid # 0 /\ a.smid = b.smid => Knows(b, a)
    BY <1>2 DEF Whole, Unlike, Same, Knows
  <2> QED BY <1>10, <2>1 DEF NothingForgotten
<1> QED BY <1>3, <1>10, <1>13, <1>14, <1>16, <1>17, <1>18, <1>19, <1>20 DEF Whole

\* An ack is written for every row of its send.
LEMMA AckSwaps ==
    ASSUME Typed, Whole, NEW m \in DOMAIN log, NEW t \in Copies, t.smid = m, t.lmid = log[m].lmid, t.lmid # 0,
           NEW local \in Firsts(ByLmid(t.lmid)), ApplyAck(local, t)
    PROVE  \E k \in MessageRecord :
              /\ k = Acked(local, t) /\ Swapped(k) /\ Real(k)
              /\ k.by = "none" /\ k.smid = m /\ k.lmid = t.lmid /\ k.pts = t.pts
              /\ k.body = t.body /\ k.exact = t.exact /\ k.revoked = t.revoked
              /\ \/ k = t /\ \A b \in Bare : b.lmid # t.lmid
                 \/ \E b \in Bare : b.lmid = t.lmid /\ k.id = b.id /\ \A d \in local : d.status = b.status
              /\ \E p \in Copies : p.id = k.id /\ Kin(p, k)
<1>1. t \in MessageRecord /\ t.by = "none" /\ Real(t) /\ m # 0 /\ Send(t) = t.lmid
  BY PlacedRows, SameMessageOf DEF Loose
<1>2. \A r \in Bare : /\ r \in Copies /\ Real(r) /\ r \in MessageRecord
                      /\ Same(r, t) <=> (r.smid = m \/ (r.smid = 0 /\ r.lmid = t.lmid))
                      /\ Same(r, t) <=> Kin(r, t)
  BY PlacedRows, SameMessageOf
<1>3. PICK k \in MessageRecord, gone \in SUBSET Bare :
         /\ k = Acked(local, t) /\ k.by = "none"
         /\ Absorbs(local, t, t.lmid, k, gone) /\ Bare' = Replaced(t, k, gone)
  BY <1>1, AckedRow DEF Typed
<1>4. /\ k.smid = m /\ k.lmid = t.lmid /\ k.pts = t.pts /\ k.body = t.body /\ k.exact = t.exact
      /\ k.revoked = t.revoked /\ k.status = t.status
  <2>1. CASE k = t
    BY <2>1
  <2>2. ASSUME NEW b \in Bare, k = [t EXCEPT !.id = b.id]
        PROVE  /\ k.smid = m /\ k.lmid = t.lmid /\ k.pts = t.pts /\ k.body = t.body /\ k.exact = t.exact
               /\ k.revoked = t.revoked /\ k.status = t.status
    BY <1>1, <2>2 DEF MessageRecord
  <2> QED BY <1>3, <2>1, <2>2 DEF Absorbs
<1>5. Real(k)
  BY <1>1, <1>4 DEF Real
<1>6. \/ k = t /\ gone = {} /\ \A b \in Bare : b.lmid # t.lmid
      \/ \E b \in Bare : b.lmid = t.lmid /\ k.id = b.id /\ gone = {b} /\ \A d \in local : d.status = b.status
  <2>1. \A b \in Bare : k = [t EXCEPT !.id = b.id] => k.id = b.id
    BY <1>1 DEF MessageRecord
  <2> QED BY <1>3, <2>1 DEF Absorbs
<1>7. \A b \in Bare : b.lmid = t.lmid => Same(b, t)
  BY DEF Same
<1>8. \E p \in Copies : p.id = k.id /\ Kin(p, k)
  <2>1. CASE k = t
    BY <2>1 DEF Kin
  <2>2. ASSUME NEW b \in Bare, b.lmid = t.lmid, k.id = b.id PROVE b \in Copies /\ Kin(b, k)
    <3>1. Kin(b, t)
      BY <1>2, <1>7, <2>2
    <3> QED BY <1>2, <1>4, <3>1 DEF Kin, Send
  <2> QED BY <1>6, <2>1, <2>2
<1>9. \A c \in Bare : (c \notin gone /\ c.smid # m /\ c.id # k.id) <=> ~Same(c, k)
  <2> SUFFICES ASSUME NEW c \in Bare PROVE (c \notin gone /\ c.smid # m /\ c.id # k.id) <=> ~Same(c, k)
    OBVIOUS
  <2>1. Same(c, k) <=> Same(c, t)
    BY <1>4 DEF Same
  <2>2. c.smid = m => Same(c, t)
    BY <1>2
  <2>3. c.id = k.id => Same(c, t)
    <3>1. PICK p \in Copies : p.id = k.id /\ Kin(p, k)
      BY <1>8
    <3>2. c.id = k.id => Kin(c, p)
      BY <1>2, <3>1 DEF Whole, IdsKin
    <3>3. c.id = k.id => Kin(c, t)
      BY <1>4, <3>1, <3>2 DEF Kin, Send
    <3> QED BY <1>2, <3>3
  <2>4. c \in gone => Same(c, t)
    BY <1>6, <1>7
  <2>5. Same(c, t) => c \in gone \/ c.smid = m
    <3> SUFFICES ASSUME Same(c, t), c.smid # m PROVE c \in gone
      OBVIOUS
    <3>1. c.lmid = t.lmid
      BY <1>2
    <3>2. PICK b \in Bare : b.lmid = t.lmid /\ gone = {b}
      BY <1>6, <3>1
    <3>3. b = c
      BY <3>1, <3>2 DEF Whole, Unlike, Same
    <3> QED BY <3>2, <3>3
  <2> QED BY <2>1, <2>2, <2>3, <2>4, <2>5
<1>10. Swapped(k)
  BY <1>3, <1>9 DEF Swapped, Replaced
<1> QED BY <1>3, <1>4, <1>5, <1>6, <1>8, <1>10

\* RunAck: message and command in one transaction.
LEMMA RunAckKeeps ==
    ASSUME Typed, Whole, RunAck, losses' = {}
    PROVE  Whole' /\ NothingForgotten
<1>1. PICK t : t = TheRow
  OBVIOUS
<1>2. PICK local \in Firsts(ByLmid(t.lmid)) :
      /\ jobs # <<>> /\ Head(jobs).op = "ack" /\ Ended /\ ~Queued({"reread"})
      /\ ApplyAck(local, t) /\ UpsertBuffer({Acked(local, t)})
      /\ command' = [command EXCEPT ![t.lmid] = 0]
      /\ UNCHANGED <<log, sends, fetch>>
  BY <1>1 DEF RunAck, Heads, Overtakes
<1>3. /\ Head(jobs) \in Planned(jobs) /\ Planned(jobs') \subseteq Planned(jobs)
      /\ Planned(jobs) \subseteq Planned(jobs') \cup {Head(jobs)}
      /\ InOrder(jobs') /\ \A y \in Planned(jobs') : After(Head(jobs), y)
  BY <1>2, JobEnded DEF Typed, Whole
<1>4. Head(jobs).rows = {t}
  BY <1>1, <1>2, HeadRow DEF Typed
<1>5. t \in Copies /\ AckHolds(t) /\ Real(t)
  BY <1>2, <1>3, <1>4, PlacedRows DEF Whole, JobsHold, JobHolds, RowsTold
<1>6. PICK m \in DOMAIN log : /\ t.smid = m /\ t.lmid = log[m].lmid /\ t.lmid # 0 /\ t.pts = m /\ t.body /\ t.exact
                              /\ command[t.lmid] # 0
  BY <1>5 DEF AckHolds, Real
<1>7. ~log[m].revoked /\ t.lmid \in 1..MaxSends /\ m # 0
  <2>1. log[m].lmid \in 0..MaxSends /\ m # 0
    BY BuiltRows, Numbers DEF Typed, Ids
  <2> QED BY <1>6, <2>1, Numbers DEF Whole, LogSound
<1>8. PICK k \in MessageRecord :
        /\ k = Acked(local, t) /\ Swapped(k) /\ Real(k)
        /\ k.by = "none" /\ k.smid = m /\ k.lmid = log[m].lmid /\ k.pts = m /\ k.body /\ k.exact
        /\ \E p \in Copies : p.id = k.id /\ Kin(p, k)
  BY <1>2, <1>5, <1>6, AckSwaps
<1>9. \A r \in Copies : r.smid = m => Knows(k, r)
  <2>1. \A r \in Copies : r.smid = m => ~r.revoked
    BY <1>7 DEF Whole, RowsTold, Real
  <2> QED BY <1>8, <2>1 DEF Knows
<1>10. ~k.revoked
  BY <1>7, <1>8 DEF Real
<1>11. \A l \in 1..MaxSends : command'[l] = command[l] \/ (command'[l] = 0 /\ l = log[m].lmid)
  BY <1>2, <1>6, <1>7 DEF Typed, LogTyped
<1>12. \A b \in Bare : Same(b, k) =>
          /\ b.smid = m => Knows(k, b)
          /\ \A l \in 1..MaxSends : command'[l] = b.id => k.id = b.id
  <2> SUFFICES ASSUME NEW b \in Bare, Same(b, k), NEW l \in 1..MaxSends, command'[l] = b.id
               PROVE  FALSE
    BY <1>9, PlacedRows
  <2>1. b \in Copies /\ Send(b) = log[m].lmid /\ b.id # 0
    BY <1>8, PlacedRows, SameMessageOf, RowTyped
  <2>2. command[l] = b.id /\ l # log[m].lmid
    BY <1>2, <1>6, <1>7, <1>11, <2>1 DEF Typed, LogTyped
  <2> QED BY <2>1, <2>2 DEF Whole, IdsCommand
<1>13. /\ LogKeeps /\ LogSound' /\ Unlike(Bare') /\ CommandsStored' /\ k \in Bare'
       /\ \A r \in MessageRecord : r.lmid # 0 /\ CreateHolds(r) => CreateHolds(r)'
       /\ \A r : r.smid # 0 /\ OnDisk(r) => OnDisk(r)'
       /\ \A r \in MessageRecord : Uncommanded(r) => Uncommanded(r)'
       /\ \A j : j # 0 /\ j # m /\ DiskGap(j) => DiskGap(j)'
       /\ \A a \in Bare, b \in Bare' : a.smid # 0 /\ a.smid = b.smid => Knows(b, a)
       /\ Bare' \subseteq Copies \cup {k}
  <2>1. log' = log /\ sends' = sends
    BY <1>2
  <2> QED BY <1>8, <1>11, <1>12, <2>1, SwapKeeps
<1>14. buffer' = Overlay(buffer, {k}) /\ bufferMode' = bufferMode
  BY <1>2, <1>7, <1>8 DEF UpsertBuffer, NoteRows, HasPtsGap
<1>15. /\ Unlike(buffer') /\ k \in buffer'
       /\ \A a \in buffer' : a = k \/ (a \in buffer /\ ~Same(a, k))
  <2>1. PICK N : N = {k}
    OBVIOUS
  <2>2. Unlike(N) /\ Unlike(buffer) /\ buffer' = Overlay(buffer, N)
    BY <1>14, <2>1 DEF Unlike, Whole
  <2>3. /\ Unlike(buffer') /\ N \subseteq buffer'
        /\ \A a \in buffer' : a \in N \/ (a \in buffer /\ \A q \in N : a.id # q.id /\ ~Same(a, q))
    BY <2>2, BufferTaken
  <2> QED BY <2>1, <2>3
<1>16. Copies' \subseteq Copies \cup {k}
  <2>1. buffer' \subseteq Copies \cup {k} /\ fetch'.rows \subseteq Copies
    BY <1>2, <1>15, PlacedRows
  <2>2. \A y \in Planned(jobs') : y.rows \subseteq Copies \cup {k}
    BY <1>3, PlacedRows
  <2> QED BY <1>13, <2>1, <2>2, PlacedNext
<1>17. Heir(k)
  <2>1. \A p \in Copies : Kin(p, k) => Kin(p, k)'
    BY <1>2 DEF Kin, Send
  <2> QED BY <1>8, <2>1 DEF Heir
<1>18. RowsTold' /\ IdsKin' /\ IdsCommand'
  <2>1. {k} \in SUBSET MessageRecord /\ Real(k)' /\ \A l \in 1..MaxSends : command'[l] \in {0, command[l]}
    BY <1>8, <1>11, <1>13, ToldKeeps
  <2>2. RowsTold' /\ IdsKin'
    BY <1>13, <1>16, <1>17, <2>1, RowsKeep DEF Whole
  <2>3. IdsCommand'
    BY <1>13, <1>16, <1>17, <2>1, CommandKeep DEF Whole
  <2> QED BY <2>2, <2>3
<1>19. FetchPlace'
  BY <1>2, <1>3 DEF Whole, FetchPlace
<1>20. \A y \in Planned(jobs) : y.op # "reread"
  BY <1>2, QueuedJobs
<1>21. JobsHold'
  <2> SUFFICES ASSUME NEW x \in Planned(jobs') PROVE JobHolds(x)'
    BY DEF JobsHold
  <2>1. x \in Planned(jobs) /\ JobHolds(x) /\ RowsTold /\ Loose(x.rows) /\ x.op \notin {"ack", "reread"}
    BY <1>2, <1>3, <1>20, PlacedRows DEF Whole, JobsHold, After
  <2>2. x.op = "create" => \A r \in x.rows : CreateHolds(r)'
    <3>1. x.op = "create" => \A r \in x.rows : r.lmid # 0
      BY <2>1 DEF Typed, JobsTyped, JobTyped
    <3> QED BY <1>13, <2>1, <3>1 DEF JobHolds, Loose
  <2>3. x.op \in {"page", "history"} => \A r \in x.rows : Uncommanded(r)'
    BY <1>13, <2>1 DEF JobHolds, PageHolds, Loose
  <2>4. \A r \in x.rows, a \in buffer' : a \in buffer \/ (a.pts # 0 /\ ~a.revoked)
    BY <1>7, <1>8, <1>10, <1>15
  <2>5. x.op = "publish" => \A r \in x.rows : OnDisk(r) => OnDisk(r)'
    BY <1>13, <2>1 DEF JobHolds, PublishHolds
  <2>6. \A r \in x.rows :
           (\E d \in Bare' : d.smid = r.smid /\ d.revoked) => \E d \in Bare : d.smid = r.smid /\ d.revoked
    BY <1>8, <1>10 DEF Swapped
  <2>7. ~Queued({"reread"})
    BY <1>2
  <2> QED BY <1>13, <2>1, <2>2, <2>3, <2>4, <2>5, <2>6, <2>7, JobKeeps
<1>22. FetchHolds'
  <2>1. Loose(fetch.rows)
    BY PlacedRows
  <2> QED BY <1>2, <1>10, <1>13, <1>15, <2>1 DEF Whole, FetchHolds, Obtains, UpToDate, Loose
<1>23. Held'
  <2>1. \A a : PushedFor(a) => PushedFor(a)'
    BY <1>2, <1>3, JobsStay
  <2>2. OnDisk(k)'
    BY <1>13 DEF OnDisk, Knows
  <2> QED BY <1>13, <1>15, <2>1, <2>2 DEF Whole, Held
<1>24. Gaps'
  <2>1. \A j : Fix(j) => Fix(j)'
    BY <1>2, <1>3, JobsStay
  <2>2. \A a \in buffer' : HasPtsGap(a) => a \in buffer /\ a.smid # 0 /\ a.smid # m
    BY <1>7, <1>8, <1>15 DEF HasPtsGap, Same
  <2>3. \A a \in buffer' : HasPtsGap(a) => (DiskGap(a.smid)' /\ bufferMode' # "pts") \/ Fix(a.smid)'
    BY <1>13, <1>14, <2>1, <2>2 DEF Whole, Gaps
  <2> QED BY <1>3, <1>20, <2>3 DEF Gaps
<1>25. NothingForgotten
  <2>1. \A a \in buffer, b \in buffer' : a.smid # 0 /\ a.smid = b.smid => Knows(b, a)
    <3> SUFFICES ASSUME NEW a \in buffer, NEW b \in buffer', a.smid # 0, a.smid = b.smid PROVE Knows(b, a)
      OBVIOUS
    <3>1. CASE b = k
      BY <1>8, <1>9, <3>1, PlacedRows
    <3>2. CASE b \in buffer
      BY <3>2 DEF Whole, Unlike, Same, Knows
    <3> QED BY <1>15, <3>1, <3>2
  <2> QED BY <1>13, <2>1 DEF NothingForgotten
<1> QED BY <1>3, <1>13, <1>15, <1>18, <1>19, <1>21, <1>22, <1>23, <1>24, <1>25 DEF Whole

\* A commit is written over the echo of its send, or over the one row that is not one.
LEMMA MergedPage ==
    ASSUME Typed, Whole, NEW m \in DOMAIN log, NEW t \in Copies, t.smid = m, PageHolds(t),
           NEW local \in Firsts(IF t.lmid = 0 THEN {} ELSE ByLmid(t.lmid)),
           \/ /\ \E r \in local : r.status = "pending"
              /\ ApplyAck(local, t)
           \/ /\ \A r \in local : r.status # "pending"
              /\ IF Legal(UpsertRow(disk, t)) THEN ReconcileOrderMode(UpsertRow(disk, t))
                                              ELSE UNCHANGED diskVars
    PROVE  \E k \in MessageRecord :
              /\ Swapped(k) /\ Real(k)
              /\ k.by = "none" /\ k.smid = m /\ k.lmid = log[m].lmid /\ k.pts = m /\ k.body /\ k.exact
              /\ \A b \in Bare : Same(b, k) =>
                    /\ b.smid = m => Knows(k, b)
                    /\ \A l \in 1..MaxSends : command[l] = b.id => k.id = b.id
              /\ \E p \in Copies : p.id = k.id /\ Kin(p, k)
<1>1. t.lmid = log[m].lmid /\ t.pts = m /\ t.body /\ t.exact /\ ~t.revoked /\ m # 0
  BY Numbers DEF PageHolds
<1>2. \A r \in local : /\ t.lmid # 0 /\ Strip(r) \in Bare /\ Strip(r).lmid = t.lmid
                       /\ Strip(r).status = r.status /\ local = {r}
  <2>1. \A r \in disk : r \in MessageRecord /\ Strip(r) \in Bare
    BY DEF Typed, DiskTyped, Keyed, Bare, Bared
  <2>2. \A r \in local : t.lmid # 0 /\ r \in disk /\ r.lmid = t.lmid /\ local = {r}
    BY DEF Firsts, ByLmid
  <2> QED BY <2>1, <2>2, StripRow
<1>3. CASE /\ \E r \in local : r.status = "pending"
           /\ ApplyAck(local, t)
  <2>1. PICK r \in local : r.status = "pending"
    BY <1>3
  <2>2. local \in Firsts(ByLmid(t.lmid)) /\ t.lmid # 0
    BY <1>2, <2>1
  <2>3. PICK k \in MessageRecord :
          /\ Swapped(k) /\ Real(k)
          /\ k.by = "none" /\ k.smid = m /\ k.lmid = t.lmid /\ k.pts = t.pts
          /\ k.body = t.body /\ k.exact = t.exact /\ k.revoked = t.revoked
          /\ \/ k = t /\ \A b \in Bare : b.lmid # t.lmid
             \/ \E b \in Bare : b.lmid = t.lmid /\ k.id = b.id /\ \A d \in local : d.status = b.status
          /\ \E p \in Copies : p.id = k.id /\ Kin(p, k)
    <3>1. ApplyAck(local, t) /\ t.lmid = log[m].lmid
      BY <1>1, <1>3
    <3> QED BY <2>2, <3>1, AckSwaps
  <2>4. PICK b \in Bare : b.lmid = t.lmid /\ k.id = b.id /\ b.status = "pending"
    BY <1>2, <2>1, <2>3
  <2>5. b.smid = 0 /\ b.id # 0 /\ b.lmid \in 1..MaxSends
    <3>1. Real(b) /\ b \in MessageRecord
      BY PlacedRows DEF Whole, RowsTold, Loose
    <3>2. b.lmid \in 0..MaxSends /\ b.id # 0
      BY <3>1, RowTyped
    <3> QED BY <1>1, <2>2, <2>4, <3>1, <3>2, Numbers DEF Real
  <2>6. command[t.lmid] = b.id
    BY <2>4, <2>5 DEF Whole, CommandsStored
  <2>7. ~log[m].revoked
    BY <1>1, <2>2, <2>5, <2>6 DEF Whole, LogSound
  <2>8. \A d \in Bare : d.smid = m => Knows(k, d)
    <3>1. \A d \in Bare : d.smid = m => ~d.revoked
      BY <1>1, <2>7, PlacedRows DEF Whole, RowsTold, Real
    <3> QED BY <1>1, <2>3, <3>1 DEF Knows
  <2>9. \A d \in Bare : Same(d, k) => \A l \in 1..MaxSends : command[l] = d.id => k.id = d.id
    <3> SUFFICES ASSUME NEW d \in Bare, Same(d, k), NEW l \in 1..MaxSends, command[l] = d.id PROVE k.id = d.id
      OBVIOUS
    <3>1. d \in Copies /\ Send(d) = t.lmid
      BY <1>1, <2>3, PlacedRows, SameMessageOf
    <3>2. Send(d) = l
      BY <3>1 DEF Whole, IdsCommand
    <3> QED BY <2>4, <2>6, <3>1, <3>2
  <2> QED BY <1>1, <2>3, <2>8, <2>9
<1>4. CASE /\ \A r \in local : r.status # "pending"
           /\ IF Legal(UpsertRow(disk, t)) THEN ReconcileOrderMode(UpsertRow(disk, t))
                                           ELSE UNCHANGED diskVars
  <2>1. \A b \in Bare : Same(b, t) => b.smid = m
    <3> SUFFICES ASSUME NEW b \in Bare, Same(b, t), b.smid # m PROVE FALSE
      OBVIOUS
    <3>1. b.smid = 0 /\ b.lmid = t.lmid /\ Real(b)
      BY <1>1, PlacedRows, SameMessageOf
    <3>2. t.lmid # 0
      BY <3>1, Numbers DEF Real, Typed, LogTyped
    <3>3. PICK d \in disk : b = Strip(d) /\ d.lmid = t.lmid
      <4>1. \A d \in disk : Strip(d).lmid = d.lmid
        BY StripRow DEF Typed, DiskTyped, Keyed
      <4> QED BY <3>1, <4>1 DEF Bare, Bared
    <3>4. PICK r \in local : TRUE
      BY <3>2, <3>3 DEF Firsts, ByLmid
    <3>5. Strip(r) \in Bare /\ Strip(r).lmid = t.lmid /\ Strip(r).status # "pending"
      BY <1>2, <1>4, <3>4
    <3>6. Same(b, Strip(r))
      BY <3>1, <3>2, <3>5 DEF Same
    <3>7. b = Strip(r)
      BY <3>5, <3>6 DEF Whole, Unlike
    <3> QED BY <3>1, <3>5, <3>7 DEF Real
  <2>2. \A b, c \in Bare : Same(b, t) /\ Same(c, t) => b = c
    BY <1>1, <2>1 DEF Whole, Unlike, Same
  <2> DEFINE rows == UpsertRow(disk, t)
  <2>3. /\ Keyed(rows, diskMode) /\ Legal(rows)
        /\ \E k \in MessageRecord :
             /\ Bared(rows) = {c \in Bare : ~Same(c, k)} \cup {k}
             /\ k.by = "none" /\ k.smid = m /\ k.lmid = log[m].lmid /\ k.pts = m /\ Real(k) /\ Knows(k, t)
             /\ \A b \in Bare : Same(b, k) => Knows(k, b) /\ k.id = b.id
             /\ \E p \in Copies : p.id = k.id /\ Kin(p, k) /\ (p.body /\ p.exact => k.body /\ k.exact)
    BY <1>1, <2>2, UpsertSwaps
  <2>4. ReconcileOrderMode(rows) /\ diskMode \in Modes
    BY <1>4, <2>3 DEF Typed, DiskTyped
  <2> HIDE DEF rows
  <2>5. Bare' = Bared(rows)
    BY <2>3, <2>4, Reconciled
  <2> QED BY <1>1, <2>3, <2>5 DEF Swapped, Knows
<1> QED BY <1>3, <1>4

\* The row of the message, read again, is the one row written.
LEMMA ReadAgain ==
    ASSUME Typed', NEW m, m # 0, NEW k, k.smid = m, Swapped(k),
           NEW P, P = {Strip(r) : r \in {e \in disk' : e.smid = m}}
    PROVE  P = {k}
<1>1. \A d \in disk' : d \in MessageRecord
  BY DEF Typed, DiskTyped, Keyed
<1>2. \A d \in disk' : Strip(d).smid = d.smid /\ Strip(d) \in Bare'
  BY <1>1, StripRow DEF Bare, Bared
<1>3. \A b \in Bare' : b.smid = m => b = k
  BY DEF Swapped, Same
<1>4. \A p \in P : p = k
  BY <1>2, <1>3
<1>5. PICK d \in disk' : k = Strip(d)
  <2>1. k \in Bare'
    BY DEF Swapped
  <2> QED BY <2>1 DEF Bare, Bared
<1>6. k \in P
  BY <1>2, <1>5
<1> QED BY <1>4, <1>6

\* RunMerge: the commit of a page, and what is read again.
LEMMA RunMergeKeeps ==
    ASSUME Typed, Whole, RunMerge, losses' = {}
    PROVE  Whole' /\ NothingForgotten
<1>1. PICK t : t = TheRow
  OBVIOUS
<1>2. /\ jobs # <<>> /\ Head(jobs).op = "page"
      /\ UNCHANGED <<log, command, sends, buffer, bufferMode, fetch>>
  BY DEF RunMerge, Heads, outVars, bufferVars
<1>3. PICK local \in Firsts(IF t.lmid = 0 THEN {} ELSE ByLmid(t.lmid)) :
           \/ /\ \E r \in local : r.status = "pending"
              /\ ApplyAck(local, t)
           \/ /\ \A r \in local : r.status # "pending"
              /\ IF Legal(UpsertRow(disk, t)) THEN ReconcileOrderMode(UpsertRow(disk, t))
                                              ELSE UNCHANGED diskVars
  BY <1>1 DEF RunMerge
<1>4. PICK P : /\ P = {Strip(r) : r \in {e \in disk' : e.smid = t.smid}}
               /\ FollowedBy("publish", P)
  BY <1>1 DEF RunMerge
<1>5. Head(jobs) \in Planned(jobs) /\ Head(jobs).rows = {t} /\ t \in MessageRecord
  BY <1>1, <1>2, HeadRow, HeadJob DEF Typed
<1>6. t \in Copies /\ PageHolds(t) /\ Real(t)
  BY <1>2, <1>5, PlacedRows DEF Whole, JobsHold, JobHolds, RowsTold
<1>7. PICK m \in DOMAIN log : t.smid = m
  BY <1>6 DEF PageHolds, Real
<1>8. PICK k \in MessageRecord :
        /\ Swapped(k) /\ Real(k)
        /\ k.by = "none" /\ k.smid = m /\ k.lmid = log[m].lmid /\ k.pts = m /\ k.body /\ k.exact
        /\ \A b \in Bare : Same(b, k) =>
              /\ b.smid = m => Knows(k, b)
              /\ \A l \in 1..MaxSends : command[l] = b.id => k.id = b.id
        /\ \E p \in Copies : p.id = k.id /\ Kin(p, k)
  BY <1>3, <1>6, <1>7, MergedPage
<1>9. m # 0 /\ P = {k}
  <2>1. m # 0
    BY <1>6, <1>7 DEF PageHolds
  <2>2. Typed'
    <3>1. TimelineNext
      BY DEF TimelineNext
    <3> QED BY <3>1, TypedKeeps
  <2>3. P = {Strip(r) : r \in {e \in disk' : e.smid = m}} /\ k.smid = m /\ Swapped(k)
    BY <1>4, <1>7, <1>8
  <2>4. P = {k}
    BY <2>1, <2>2, <2>3, ReadAgain
  <2> QED BY <2>1, <2>4
<1> DEFINE job == Job("publish", P)
<1>10. job.op = "publish" /\ job.rows = {k} /\ JobTyped(job)
  BY <1>8, <1>9 DEF Job, JobTyped, Loose
<1>11. /\ job \in Planned(jobs')
       /\ Planned(jobs') \subseteq Planned(jobs) \cup {job}
       /\ Planned(jobs) \subseteq Planned(jobs') \cup {Head(jobs)}
       /\ \A y \in Planned(jobs') : y = job \/ After(Head(jobs), y)
       /\ (\A y \in Planned(jobs) : After(Head(jobs), y) => After(y, job)) => InOrder(jobs')
  BY <1>2, <1>4, <1>10, JobFollowed DEF Typed, Ops, Whole
<1> HIDE DEF job
<1>12. \A y : After(Head(jobs), y) => y.op \notin {"row", "page", "publish"}
  BY <1>2 DEF After, Readers
<1>13. InOrder(jobs')
  <2>1. \A y \in Planned(jobs) : After(Head(jobs), y) => After(y, job)
    BY <1>10, <1>12 DEF After, Fetching
  <2> QED BY <1>11, <2>1
<1>14. /\ LogKeeps /\ LogSound' /\ Unlike(Bare') /\ CommandsStored' /\ k \in Bare'
       /\ \A r \in MessageRecord : r.lmid # 0 /\ CreateHolds(r) => CreateHolds(r)'
       /\ \A r : r.smid # 0 /\ OnDisk(r) => OnDisk(r)'
       /\ \A r \in MessageRecord : Uncommanded(r) => Uncommanded(r)'
       /\ \A j : j # 0 /\ j # m /\ DiskGap(j) => DiskGap(j)'
       /\ \A a \in Bare, b \in Bare' : a.smid # 0 /\ a.smid = b.smid => Knows(b, a)
       /\ Bare' \subseteq Copies \cup {k}
  <2>1. log' = log /\ sends' = sends /\ command' = command
    BY <1>2
  <2> QED BY <1>8, <2>1, SwapKeeps
<1>15. Copies' \subseteq Copies \cup {k}
  <2>1. buffer' \subseteq Copies /\ fetch'.rows \subseteq Copies
    BY <1>2, PlacedRows
  <2>2. \A y \in Planned(jobs') : y.rows \subseteq Copies \cup {k}
    BY <1>10, <1>11, PlacedRows
  <2> QED BY <1>14, <2>1, <2>2, PlacedNext
<1>16. Heir(k)
  <2>1. \A p \in Copies : Kin(p, k) => Kin(p, k)'
    BY <1>2 DEF Kin, Send
  <2> QED BY <1>8, <2>1 DEF Heir
<1>17. RowsTold' /\ IdsKin' /\ IdsCommand'
  <2>1. {k} \in SUBSET MessageRecord /\ Real(k)' /\ \A l \in 1..MaxSends : command'[l] \in {0, command[l]}
    BY <1>2, <1>8, <1>14, ToldKeeps
  <2>2. RowsTold' /\ IdsKin'
    BY <1>14, <1>15, <1>16, <2>1, RowsKeep DEF Whole
  <2>3. IdsCommand'
    BY <1>14, <1>15, <1>16, <2>1, CommandKeep DEF Whole
  <2> QED BY <2>2, <2>3
<1>18. FetchPlace'
  BY <1>2, <1>10, <1>11 DEF Whole, FetchPlace
<1>19. \A y \in Planned(jobs) : y.op # "row"
  BY <1>2, <1>10, <1>11, <1>12
<1>20. \A a \in buffer : a.smid # 0 => OnDisk(a)
  BY <1>19 DEF Whole, Held, PushedFor
<1>21. PublishHolds(k)'
  <2>1. UpToDate(k)'
    <3>1. \A a \in buffer : a.smid = m /\ a.revoked => k.revoked
      BY <1>8, <1>9, <1>14, <1>20 DEF OnDisk, Knows
    <3> QED BY <1>2, <1>8, <3>1 DEF UpToDate
  <2>2. OnDisk(k)'
    BY <1>14 DEF OnDisk, Knows
  <2>3. \A d \in Bare' : d.smid = m => d = k
    BY <1>8, <1>9 DEF Swapped, Same
  <2> QED BY <1>8, <1>9, <2>1, <2>2, <2>3 DEF PublishHolds
<1>22. JobsHold'
  <2> SUFFICES ASSUME NEW x \in Planned(jobs') PROVE JobHolds(x)'
    BY DEF JobsHold
  <2>1. CASE x = job
    BY <1>10, <1>21, <2>1 DEF JobHolds
  <2>2. CASE x # job
    <3>1. x \in Planned(jobs) /\ JobHolds(x) /\ RowsTold /\ Loose(x.rows) /\ x.op \notin {"row", "publish"}
      BY <1>11, <1>12, <2>2, PlacedRows DEF Whole, JobsHold
    <3>2. x.op = "create" => \A r \in x.rows : CreateHolds(r)'
      <4>1. x.op = "create" => \A r \in x.rows : r.lmid # 0
        BY <3>1 DEF Typed, JobsTyped, JobTyped
      <4> QED BY <1>14, <3>1, <4>1 DEF JobHolds, Loose
    <3>3. x.op = "ack" => \A r \in x.rows : command'[r.lmid] # 0
      BY <1>2, <3>1 DEF JobHolds, AckHolds
    <3>4. x.op \in {"page", "history"} => \A r \in x.rows : Uncommanded(r)'
      BY <1>2, <3>1 DEF JobHolds, PageHolds, Uncommanded
    <3>5. \A r \in x.rows, a \in buffer' : a \in buffer
      BY <1>2
    <3>6. x.op = "reread" => \A r \in x.rows : OnDisk(r) => OnDisk(r)'
      BY <1>14, <3>1 DEF JobHolds, Obtains
    <3> QED BY <1>14, <3>1, <3>2, <3>3, <3>4, <3>5, <3>6, JobKeeps
  <2> QED BY <2>1, <2>2
<1>23. FetchHolds'
  BY <1>2 DEF Whole, FetchHolds, Obtains, UpToDate, Uncommanded
<1>24. Held'
  BY <1>2, <1>14, <1>20 DEF Held
<1>25. Gaps'
  <2>1. \A j : Fix(j) => Fix(j)'
    BY <1>2, <1>11, JobsStay
  <2>2. Fix(m)'
    BY <1>8, <1>9, <1>10, <1>11 DEF Fix
  <2>3. \A j : j # 0 /\ DiskGap(j) => DiskGap(j)' \/ Fix(j)'
    BY <1>14, <2>2
  <2>4. \A a \in buffer' : HasPtsGap(a) => (DiskGap(a.smid)' /\ bufferMode' # "pts") \/ Fix(a.smid)'
    BY <1>2, <2>1, <2>3 DEF Whole, Gaps, HasPtsGap
  <2>5. \A x \in Planned(jobs') : x.op = "reread" =>
          \A a \in x.rows : HasPtsGap(a) => DiskGap(a.smid)' \/ Fix(a.smid)'
    BY <1>10, <1>11, <2>1, <2>3 DEF Whole, Gaps, HasPtsGap
  <2> QED BY <2>4, <2>5 DEF Gaps
<1>26. NothingForgotten /\ Unlike(buffer')
  <2>1. Unlike(buffer') /\ \A a \in buffer, b \in buffer' : a.smid # 0 /\ a.smid = b.smid => Knows(b, a)
    BY <1>2 DEF Whole, Unlike, Same, Knows
  <2> QED BY <1>14, <2>1 DEF NothingForgotten
<1> QED BY <1>13, <1>14, <1>17, <1>18, <1>22, <1>23, <1>24, <1>25, <1>26 DEF Whole

-----------------------------------------------------------------------------
(* A send becomes durable.                                                 *)

\* The echo and its command are written together.
LEMMA RunCreateKeeps ==
    ASSUME Typed, Whole, RunCreate, losses' = {}
    PROVE  Whole' /\ NothingForgotten
<1>1. PICK t : t = TheRow
  OBVIOUS
<1>2. /\ jobs # <<>> /\ Head(jobs).op = "create" /\ Ended
      /\ disk' = disk \cup {Stamp(t, diskMode)}
      /\ command' = [command EXCEPT ![t.lmid] = t.id]
      /\ UNCHANGED <<log, sends, buffer, bufferMode, fetch>>
  BY <1>1 DEF RunCreate, Heads, bufferVars
<1>3. /\ Head(jobs) \in Planned(jobs) /\ Planned(jobs') \subseteq Planned(jobs)
      /\ Planned(jobs) \subseteq Planned(jobs') \cup {Head(jobs)}
      /\ InOrder(jobs') /\ \A y \in Planned(jobs') : After(Head(jobs), y)
  BY <1>2, JobEnded DEF Typed, Whole
<1>4. Head(jobs).rows = {t} /\ t \in MessageRecord /\ t.by = "none" /\ t.smid = 0
  BY <1>1, <1>2, HeadRow DEF Typed
<1>5. t \in Copies /\ CreateHolds(t) /\ Real(t)
  BY <1>2, <1>3, <1>4, PlacedRows DEF Whole, JobsHold, JobHolds, RowsTold
<1>6. t.lmid \in 1..MaxSends /\ t.lmid \in 1..sends /\ t.lmid # 0 /\ t.id # 0 /\ Send(t) = t.lmid
  <2>1. t.lmid \in 1..sends
    BY <1>4, <1>5 DEF Real
  <2>2. sends \in 0..MaxSends
    BY DEF Typed, LogTyped
  <2> QED BY <1>4, <2>1, <2>2, RowTyped, Numbers DEF Send
<1>7. /\ command'[t.lmid] = t.id
      /\ \A l \in 1..MaxSends : l # t.lmid => command'[l] = command[l]
  BY <1>2, <1>6 DEF Typed, LogTyped
<1>8. Bare' = Bare \cup {t}
  <2>1. diskMode \in Modes
    BY DEF Typed, DiskTyped
  <2>2. Strip(Stamp(t, diskMode)) = t
    BY <1>4, <2>1, StampRow, StripRow
  <2> QED BY <1>2, <2>2 DEF Bare, Bared
<1>9. LogKeeps
  BY <1>2, Numbers DEF LogKeeps, Typed, LogTyped
<1>10. LogSound'
  <2>1. \A m \in DOMAIN log : log[m].lmid \in 0..MaxSends /\ log[m].lmid # t.lmid
    BY <1>5, BuiltRows, Numbers DEF CreateHolds, Typed, Ids
  <2>2. \A m \in DOMAIN log : log[m].lmid # 0 => command'[log[m].lmid] = command[log[m].lmid]
    BY <1>7, <2>1, Numbers
  <2> QED BY <1>2, <2>2 DEF Whole, LogSound
<1>11. \A r \in Copies : /\ r \in MessageRecord /\ Real(r)
                         /\ r.id = t.id => Send(r) = t.lmid
                         /\ r.smid # 0 => Send(r) # t.lmid
  <2>1. \A r \in Copies : r \in MessageRecord /\ Real(r)
    BY PlacedRows DEF Whole, RowsTold, Loose
  <2>2. \A r \in Copies : r.id = t.id => Send(r) = t.lmid
    BY <1>5, <1>6 DEF Whole, IdsKin, Kin
  <2>3. \A r \in Copies : r.smid # 0 => Send(r) # t.lmid
    BY <1>5, <2>1 DEF CreateHolds, Real, Send
  <2> QED BY <2>1, <2>2, <2>3
<1>12. \A r : Send(r)' = Send(r)
  BY <1>2 DEF Send
<1>13. \A b \in Bare : b \in Copies /\ Send(b) # t.lmid /\ ~Same(b, t) /\ ~Same(t, b)
  <2> SUFFICES ASSUME NEW b \in Bare PROVE b \in Copies /\ Send(b) # t.lmid /\ ~Same(b, t) /\ ~Same(t, b)
    OBVIOUS
  <2>1. b \in Copies /\ Real(b)
    BY <1>11, PlacedRows
  <2>2. Send(b) # t.lmid
    BY <1>5 DEF CreateHolds
  <2>3. b.lmid # t.lmid
    BY <1>6, <2>1, <2>2 DEF Real, Send
  <2> QED BY <1>4, <2>1, <2>2, <2>3 DEF Same
<1>14. Unlike(Bare')
  BY <1>8, <1>13 DEF Whole, Unlike
<1>15. CommandsStored'
  <2>1. \A l \in 1..MaxSends : command'[l] # 0 => l <= sends' /\ \E r \in Bare' : r.id = command'[l]
    BY <1>2, <1>6, <1>7, <1>8 DEF Whole, CommandsStored
  <2>2. \A l \in 1..MaxSends : command[l] # t.id \/ l = t.lmid
    BY <1>5, <1>6 DEF Whole, IdsCommand
  <2>3. \A l, k \in 1..MaxSends : command'[l] # 0 /\ command'[l] = command'[k] => l = k
    BY <1>7, <2>2 DEF Whole, CommandsStored
  <2>4. \A r \in Bare' : r.smid = 0 => command'[r.lmid] = r.id
    <3> SUFFICES ASSUME NEW r \in Bare', r.smid = 0 PROVE command'[r.lmid] = r.id
      OBVIOUS
    <3>1. CASE r = t
      BY <1>7, <3>1
    <3>2. CASE r \in Bare
      <4>1. r.lmid # t.lmid /\ r.lmid \in 1..sends
        BY <1>11, <1>13, <3>2 DEF Real, Send
      <4>2. r.lmid \in 1..MaxSends
        BY <4>1, Numbers DEF Typed, LogTyped
      <4> QED BY <1>7, <3>2, <4>1, <4>2 DEF Whole, CommandsStored
    <3> QED BY <1>8, <3>1, <3>2
  <2> QED BY <2>1, <2>3, <2>4 DEF CommandsStored
<1>16. Copies' \subseteq Copies \cup {}
  <2>1. Bare' \subseteq Copies \cup {} /\ buffer' \subseteq Copies \cup {} /\ fetch'.rows \subseteq Copies \cup {}
    BY <1>2, <1>5, <1>8, PlacedRows
  <2>2. \A y \in Planned(jobs') : y.rows \subseteq Copies \cup {}
    BY <1>3, PlacedRows
  <2> QED BY <2>1, <2>2, PlacedNext
<1>17. RowsTold' /\ IdsKin'
  <2>1. {} \in SUBSET MessageRecord
    OBVIOUS
  <2> QED BY <1>9, <1>16, <2>1, RowsKeep DEF Whole
<1>18. IdsCommand'
  <2> SUFFICES ASSUME NEW a \in Copies', NEW l \in 1..MaxSends, command'[l] = a.id
               PROVE  Send(a)' = l /\ a.body /\ a.exact
    BY DEF IdsCommand
  <2>1. a \in Copies /\ Real(a)
    BY <1>11, <1>16
  <2>2. CASE l = t.lmid
    <3>1. Send(a) = l /\ a.smid = 0
      BY <1>7, <1>11, <2>1, <2>2
    <3> QED BY <1>12, <2>1, <3>1 DEF Real
  <2>3. CASE l # t.lmid
    BY <1>7, <1>12, <2>1, <2>3 DEF Whole, IdsCommand
  <2> QED BY <2>2, <2>3
<1>19. FetchPlace'
  BY <1>2, <1>3 DEF Whole, FetchPlace
<1>20. \A r \in Copies : r.smid # 0 /\ Uncommanded(r) => Uncommanded(r)'
  <2> SUFFICES ASSUME NEW r \in Copies, r.smid # 0, Uncommanded(r), NEW l \in 1..MaxSends, command'[l] = r.id
               PROVE  FALSE
    BY DEF Uncommanded
  <2>1. l = t.lmid
    BY <1>7 DEF Uncommanded
  <2> QED BY <1>7, <1>11, <2>1
<1>21. \A r : OnDisk(r) => OnDisk(r)'
  BY <1>8 DEF OnDisk
<1>22. \A m : DiskGap(m) => DiskGap(m)'
  BY <1>8 DEF DiskGap
<1>23. Queued({"reread"}) => Queued({"reread"})'
  BY <1>2, <1>3, QueuedJobs
<1>24. JobsHold'
  <2> SUFFICES ASSUME NEW x \in Planned(jobs') PROVE JobHolds(x)'
    BY DEF JobsHold
  <2>1. x \in Planned(jobs) /\ JobHolds(x) /\ RowsTold /\ Loose(x.rows) /\ x.rows \subseteq Copies
    BY <1>3, PlacedRows DEF Whole, JobsHold
  <2>2. x.op = "create" => \A r \in x.rows : CreateHolds(r)'
    <3> SUFFICES ASSUME x.op = "create", NEW r \in x.rows PROVE CreateHolds(r)'
      OBVIOUS
    <3>1. r.lmid # t.lmid
      BY <1>2, <1>3, <1>4 DEF After
    <3>2. CreateHolds(r) /\ r.smid = 0 /\ Real(r)
      BY <1>11, <2>1 DEF JobHolds, Typed, JobsTyped, JobTyped
    <3>3. r.lmid \in 1..MaxSends
      BY <3>2, Numbers DEF Real, Typed, LogTyped
    <3>4. command'[r.lmid] = 0 /\ \A m \in DOMAIN log' : log'[m].lmid # r.lmid
      BY <1>2, <1>7, <3>1, <3>2, <3>3 DEF CreateHolds
    <3>5. \A d \in Bare' : Send(d)' # r.lmid
      BY <1>6, <1>8, <1>12, <3>1, <3>2 DEF CreateHolds
    <3> QED BY <3>4, <3>5 DEF CreateHolds
  <2>3. x.op = "ack" => \A r \in x.rows : command'[r.lmid] # 0
    <3> SUFFICES ASSUME x.op = "ack", NEW r \in x.rows PROVE command'[r.lmid] # 0
      OBVIOUS
    <3>1. command[r.lmid] # 0 /\ r.lmid # 0 /\ r \in MessageRecord
      BY <2>1 DEF JobHolds, AckHolds, Loose
    <3>2. r.lmid \in 1..MaxSends
      BY <3>1, RowTyped, Numbers
    <3> QED BY <1>6, <1>7, <3>1, <3>2
  <2>4. x.op \in {"page", "history"} => \A r \in x.rows : Uncommanded(r)'
    BY <1>20, <2>1 DEF JobHolds, PageHolds, Obtains
  <2>5. \A r \in x.rows, a \in buffer' : a \in buffer
    BY <1>2
  <2>6. x.op = "publish" => \A r \in x.rows :
          (\E d \in Bare' : d.smid = r.smid /\ d.revoked) => \E d \in Bare : d.smid = r.smid /\ d.revoked
    BY <1>4, <1>8, <2>1 DEF JobHolds, PublishHolds
  <2> QED BY <1>9, <1>21, <1>23, <2>1, <2>2, <2>3, <2>4, <2>5, <2>6, JobKeeps
<1>25. FetchHolds'
  <2> SUFFICES ASSUME NEW h \in fetch'.rows PROVE (Obtains(h) /\ Uncommanded(h))'
    BY DEF FetchHolds
  <2>1. h \in Copies /\ Obtains(h) /\ Uncommanded(h)
    BY <1>2, PlacedRows DEF Whole, FetchHolds
  <2>2. Obtains(h)' /\ h.smid # 0
    BY <1>2, <2>1 DEF Obtains, UpToDate
  <2> QED BY <1>20, <2>1, <2>2
<1>26. Held'
  <2>1. \A a : PushedFor(a) => PushedFor(a)'
    BY <1>2, <1>3, JobsStay
  <2> QED BY <1>2, <1>21, <2>1 DEF Whole, Held
<1>27. Gaps'
  <2>1. \A m : Fix(m) => Fix(m)'
    BY <1>2, <1>3, JobsStay
  <2>2. \A a \in buffer' : HasPtsGap(a) => (DiskGap(a.smid)' /\ bufferMode' # "pts") \/ Fix(a.smid)'
    BY <1>2, <1>22, <2>1 DEF Whole, Gaps
  <2>3. \A x \in Planned(jobs') : x.op = "reread" =>
          \A a \in x.rows : HasPtsGap(a) => DiskGap(a.smid)' \/ Fix(a.smid)'
    BY <1>3, <1>22, <2>1 DEF Whole, Gaps
  <2> QED BY <2>2, <2>3 DEF Gaps
<1>28. NothingForgotten /\ Unlike(buffer')
  <2>1. Unlike(buffer') /\ \A a \in buffer, b \in buffer' : a.smid # 0 /\ a.smid = b.smid => Knows(b, a)
    BY <1>2 DEF Whole, Unlike, Same, Knows
  <2>2. \A a \in Bare, b \in Bare' : a.smid # 0 /\ a.smid = b.smid => Knows(b, a)
    BY <1>4, <1>8 DEF Whole, Unlike, Same, Knows
  <2> QED BY <2>1, <2>2 DEF NothingForgotten
<1> QED BY <1>3, <1>10, <1>14, <1>15, <1>17, <1>18, <1>19, <1>24, <1>25, <1>26, <1>27, <1>28 DEF Whole

-----------------------------------------------------------------------------
(* The answer of the server is stored.                                     *)

\* An id of the answer that the database knows is the message's.
LEMMA HistoryFits ==
    ASSUME Typed, Whole, NEW A \in SUBSET Copies, Numbered(A), \A h \in A : Obtains(h) /\ Uncommanded(h)
    PROVE  Mesh(Bare, A)
<1>1. \A r \in Copies : r \in MessageRecord /\ r.by = "none" /\ Real(r)
  BY PlacedRows DEF Loose, Whole, RowsTold
<1>2. Bare \subseteq Copies
  BY PlacedRows
<1>3. \A a, b \in Copies : a.id = b.id /\ a.smid # 0 /\ b.smid # 0 => a.smid = b.smid
  <2> SUFFICES ASSUME NEW a \in Copies, NEW b \in Copies, a.id = b.id, a.smid # 0, b.smid # 0
               PROVE  a.smid = b.smid
    OBVIOUS
  <2>1. Kin(a, b) /\ a.smid \in DOMAIN log /\ b.smid \in DOMAIN log
    BY <1>1 DEF Whole, IdsKin, Real
  <2> QED BY <2>1 DEF Kin, Send, Whole, LogSound
<1>4. \A h \in A : h.by = "none" /\ h.smid # 0 /\ h.lmid = 0 /\ h.body /\ h.exact /\ h \in Copies
  BY <1>1 DEF Obtains
<1>5. \A g, h \in A : g.smid = h.smid \/ g.id = h.id => g = h
  BY <1>3, <1>4 DEF Numbered
<1>6. \A b \in Bare, h \in A : b.id = h.id => b.smid = h.smid
  <2> SUFFICES ASSUME NEW b \in Bare, NEW h \in A, b.id = h.id PROVE b.smid = h.smid
    OBVIOUS
  <2>1. CASE b.smid # 0
    BY <1>2, <1>3, <1>4, <2>1
  <2>2. CASE b.smid = 0
    <3>1. b.lmid \in 1..MaxSends
      BY <1>1, <1>2, <2>2, Numbers DEF Real, Typed, LogTyped
    <3>2. command[b.lmid] = h.id
      BY <2>2 DEF Whole, CommandsStored
    <3> QED BY <3>1, <3>2 DEF Uncommanded
  <2> QED BY <2>1, <2>2
<1> QED BY <1>1, <1>2, <1>4, <1>5, <1>6 DEF Mesh, Whole

\* What the database says after an answer is written over it.
LEMMA HistoryStored ==
    ASSUME Typed, Whole, log' = log, command' = command, sends' = sends,
           NEW A \in SUBSET Copies, \A h \in A : Obtains(h) /\ Uncommanded(h), Taken(Bare, A, Bare'), Bare' \subseteq MessageRecord
    PROVE  /\ LogKeeps /\ LogSound' /\ Unlike(Bare') /\ CommandsStored'
           /\ \A r \in MessageRecord : CreateHolds(r) => CreateHolds(r)'
           /\ \A r : OnDisk(r) => OnDisk(r)'
           /\ \A h \in A : OnDisk(h)' /\ (h.pts = 0 => DiskGap(h.smid)')
           /\ \A j : DiskGap(j) => DiskGap(j)' \/ \E h \in A : h.smid = j
           /\ \A a \in Bare, b \in Bare' : a.smid # 0 /\ a.smid = b.smid => Knows(b, a)
           /\ \E N \in SUBSET MessageRecord : /\ Bare' \subseteq Copies \cup N
                                              /\ \A n \in N : Real(n)' /\ Heir(n)
<1>1. \A r \in Copies : r \in MessageRecord /\ r.by = "none" /\ Real(r)
  BY PlacedRows DEF Loose, Whole, RowsTold
<1>2. Bare \subseteq Copies
  BY PlacedRows
<1>3. PICK B, C : B = Bare /\ C = Bare'
  OBVIOUS
<1>4. /\ Unlike(C)
      /\ \A x \in C : x \in B \/ \E h \in A : Becomes(B, h, x)
      /\ \A h \in A : \E x \in C : Becomes(B, h, x)
      /\ \A b \in B : \/ b \in C
                      \/ \E x \in C, h \in A : Becomes(B, h, x) /\ x.id = b.id /\ x.smid = b.smid /\ Knows(x, b)
  BY <1>3 DEF Taken
<1>5. LogKeeps /\ LogSound'
  <2>1. LogKeeps
    BY Numbers DEF LogKeeps, Typed, LogTyped
  <2> QED BY <2>1 DEF Whole, LogSound
<1>6. \A h \in A : h.smid # 0 /\ h.lmid = 0 /\ h \in Copies
  BY DEF Obtains
<1>7. \A r : (Real(r)' <=> Real(r)) /\ Send(r)' = Send(r)
  BY DEF Real, Send, Mine
<1>8. \A h \in A : \A x : Becomes(B, h, x) => x.smid = h.smid /\ x.smid # 0 /\ x.pts = h.pts /\ Knows(x, h)
  BY <1>6 DEF Becomes, Knows
<1>9. CommandsStored'
  <2>1. \A l \in 1..MaxSends : command[l] # 0 => l <= sends /\ \E r \in C : r.id = command[l]
    <3>1. \A b \in B : \E r \in C : r.id = b.id
      BY <1>4
    <3> QED BY <1>3, <3>1 DEF Whole, CommandsStored
  <2>2. \A r \in C : r.smid = 0 => command[r.lmid] = r.id
    BY <1>3, <1>4, <1>8 DEF Whole, CommandsStored
  <2> QED BY <1>3, <2>1, <2>2 DEF Whole, CommandsStored
<1>10. \A r \in MessageRecord : CreateHolds(r) => CreateHolds(r)'
  <2> SUFFICES ASSUME NEW r \in MessageRecord, CreateHolds(r), NEW d \in C
               PROVE  Send(d) # r.lmid
    BY <1>3, <1>7 DEF CreateHolds
  <2>1. CASE d \in B
    BY <1>3, <2>1 DEF CreateHolds
  <2>2. ASSUME NEW h \in A, Becomes(B, h, d) PROVE Send(d) # r.lmid
    <3>1. h.smid \in DOMAIN log /\ Send(d) = log[h.smid].lmid
      BY <1>1, <1>6, <1>8, <2>2 DEF Real, Send
    <3> QED BY <3>1 DEF CreateHolds
  <2> QED BY <1>4, <2>1, <2>2
<1>11. \A b \in B : \E x \in C : x.smid = b.smid /\ Knows(x, b)
  BY <1>4 DEF Knows
<1>12. \A r : OnDisk(r) => OnDisk(r)'
  <2> SUFFICES ASSUME NEW r, OnDisk(r) PROVE OnDisk(r)'
    OBVIOUS
  <2>1. PICK b \in B : b.smid = r.smid /\ Knows(b, r)
    BY <1>3 DEF OnDisk
  <2>2. PICK x \in C : x.smid = b.smid /\ Knows(x, b)
    BY <1>11
  <2> QED BY <1>3, <2>1, <2>2 DEF OnDisk, Knows
<1>13. \A h \in A : OnDisk(h)' /\ (h.pts = 0 => DiskGap(h.smid)')
  <2> SUFFICES ASSUME NEW h \in A PROVE OnDisk(h)' /\ (h.pts = 0 => DiskGap(h.smid)')
    OBVIOUS
  <2>1. PICK x \in C : Becomes(B, h, x)
    BY <1>4
  <2> QED BY <1>3, <1>8, <2>1 DEF OnDisk, DiskGap
<1>14. \A j : DiskGap(j) => DiskGap(j)' \/ \E h \in A : h.smid = j
  <2> SUFFICES ASSUME NEW j, DiskGap(j) PROVE DiskGap(j)' \/ \E h \in A : h.smid = j
    OBVIOUS
  <2>1. PICK b \in B : b.smid = j /\ b.pts = 0
    BY <1>3 DEF DiskGap
  <2>2. CASE b \in C
    BY <1>3, <2>1, <2>2 DEF DiskGap
  <2>3. CASE b \notin C
    BY <1>4, <1>8, <2>1, <2>3
  <2> QED BY <2>2, <2>3
<1>15. \A a \in B, b \in C : a.smid # 0 /\ a.smid = b.smid => Knows(b, a)
  <2> SUFFICES ASSUME NEW a \in B, NEW b \in C, a.smid # 0, a.smid = b.smid PROVE Knows(b, a)
    OBVIOUS
  <2>1. PICK x \in C : x.smid = a.smid /\ Knows(x, a)
    BY <1>11
  <2>2. x = b
    BY <1>4, <2>1 DEF Unlike, Same
  <2> QED BY <2>1, <2>2
<1>16. \E N \in SUBSET MessageRecord : Bare' \subseteq Copies \cup N /\ \A n \in N : Real(n)' /\ Heir(n)
  <2> DEFINE N == {x \in C : \E h \in A : Becomes(B, h, x)}
  <2>1. C \subseteq Copies \cup N
    BY <1>2, <1>3, <1>4
  <2>2. \A n \in N : n \in MessageRecord /\ Real(n) /\ Heir(n)
    <3> SUFFICES ASSUME NEW n \in C, NEW h \in A, Becomes(B, h, n)
                 PROVE  n \in MessageRecord /\ Real(n) /\ Heir(n)
      OBVIOUS
    <3>1. n \in MessageRecord
      BY <1>3
    <3>2. Real(n)
      <4>1. Real(h) /\ h.smid # 0 /\ \A b \in B : Real(b)
        BY <1>1, <1>2, <1>3, <1>6
      <4>2. n.smid = h.smid /\ n.lmid = 0 /\ n.pts = h.pts /\ n.status = h.status
        BY <3>1 DEF Becomes
      <4>3. n.revoked => log[h.smid].revoked
        BY <4>1 DEF Becomes, Real
      <4> QED BY <4>1, <4>2, <4>3 DEF Real
    <3>3. PICK p \in Copies : p.id = n.id /\ p.smid = n.smid
      BY <1>2, <1>3, <1>6 DEF Becomes
    <3>4. n.body /\ n.exact /\ n.smid # 0
      BY <1>8 DEF Becomes
    <3>5. Kin(p, n)'
      BY <1>7, <3>3, <3>4 DEF Kin, Send
    <3> QED BY <3>1, <3>2, <3>3, <3>4, <3>5 DEF Heir
  <2>3. N \in SUBSET MessageRecord
    BY <2>2
  <2> HIDE DEF N
  <2> QED BY <1>3, <1>7, <2>1, <2>2, <2>3
<1> QED BY <1>3, <1>4, <1>5, <1>9, <1>10, <1>12, <1>13, <1>14, <1>15, <1>16

\* RunHistory: the answer is stored, and what memory gets of it.
LEMMA RunHistoryKeeps ==
    ASSUME Typed, Whole, RunHistory, losses' = {}
    PROVE  Whole' /\ NothingForgotten
<1>1. PICK A : A = Head(jobs).rows
  OBVIOUS
<1>2. /\ jobs # <<>> /\ Head(jobs).op = "history" /\ UNCHANGED <<log, command, sends>>
  BY DEF RunHistory, Heads, outVars
<1>3. Head(jobs) \in Planned(jobs) /\ JobTyped(Head(jobs)) /\ Loose(A) /\ A \in SUBSET Copies
  BY <1>1, <1>2, HeadJob, PlacedRows DEF Typed
<1>4. Numbered(A) /\ \A h \in A : Obtains(h) /\ Uncommanded(h)
  BY <1>1, <1>2, <1>3 DEF Whole, JobsHold, JobHolds, JobTyped
<1>5. Mesh(Bare, A)
  BY <1>3, <1>4, HistoryFits
<1> DEFINE rows == UpsertRows(disk, A)
<1>6. Keyed(disk, diskMode) /\ diskMode \in Modes
  BY DEF Typed, DiskTyped
<1>7. Keyed(rows, diskMode) /\ Taken(Bare, A, Bared(rows))
  BY <1>3, <1>4, <1>5, <1>6, UpsertedRows DEF Bare
<1>8. \/ /\ ReconcileOrderMode(rows) /\ FollowedBy("reread", A)
         /\ UNCHANGED <<buffer, bufferMode, fetch>>
      \/ /\ ReconcileOrderMode(rows) /\ UpsertBuffer(A) /\ Ended
         /\ fetch' = NoFetch /\ ~Queued({"publish"})
      \/ ~Legal(rows)
  BY <1>1 DEF RunHistory, bufferVars, Overtakes
<1> HIDE DEF rows
<1>9. Legal(rows)
  BY <1>6, <1>7, KeyedRows DEF Taken
<1>10. Taken(Bare, A, Bare') /\ Bare' \subseteq MessageRecord
  <2>1. Bare' = Bared(rows)
    BY <1>6, <1>7, <1>8, <1>9, Reconciled
  <2> QED BY <1>7, <2>1, BaredRows DEF Keyed, Loose
<1>11. /\ LogKeeps /\ LogSound' /\ Unlike(Bare') /\ CommandsStored'
       /\ \A r \in MessageRecord : CreateHolds(r) => CreateHolds(r)'
       /\ \A r : OnDisk(r) => OnDisk(r)'
       /\ \A h \in A : OnDisk(h)' /\ (h.pts = 0 => DiskGap(h.smid)')
       /\ \A j : DiskGap(j) => DiskGap(j)' \/ \E h \in A : h.smid = j
       /\ \A a \in Bare, b \in Bare' : a.smid # 0 /\ a.smid = b.smid => Knows(b, a)
       /\ \E N \in SUBSET MessageRecord : /\ Bare' \subseteq Copies \cup N
                                          /\ \A n \in N : Real(n)' /\ Heir(n)
  BY <1>2, <1>3, <1>4, <1>10, HistoryStored
<1>12. PICK N \in SUBSET MessageRecord : /\ Bare' \subseteq Copies \cup N
                                         /\ \A n \in N : Real(n)' /\ Heir(n)
  BY <1>11
<1> DEFINE job == Job("reread", A)
<1>13. job.op = "reread" /\ job.rows = A /\ JobTyped(job)
  BY <1>3, <1>4 DEF Job, JobTyped
<1>14. /\ FollowedBy("reread", A) => job \in Planned(jobs')
       /\ Ended => Planned(jobs') \subseteq Planned(jobs)
       /\ Planned(jobs') \subseteq Planned(jobs) \cup {job}
       /\ Planned(jobs) \subseteq Planned(jobs') \cup {Head(jobs)}
       /\ \A y \in Planned(jobs') : (y = job /\ ~Ended) \/ After(Head(jobs), y)
       /\ InOrder(jobs')
  <2>1. CASE FollowedBy("reread", A) /\ ~Ended
    <3>1. /\ job \in Planned(jobs')
          /\ Planned(jobs') \subseteq Planned(jobs) \cup {job}
          /\ Planned(jobs) \subseteq Planned(jobs') \cup {Head(jobs)}
          /\ \A y \in Planned(jobs') : y = job \/ After(Head(jobs), y)
          /\ (\A y \in Planned(jobs) : After(Head(jobs), y) => After(y, job)) => InOrder(jobs')
      BY <1>2, <1>13, <2>1, JobFollowed DEF Typed, Ops, Whole
    <3> HIDE DEF job
    <3>2. \A y \in Planned(jobs) : After(Head(jobs), y) => After(y, job)
      BY <1>2, <1>13 DEF After, Fetching, Readers
    <3> QED BY <2>1, <3>1, <3>2
  <2>2. CASE Ended
    <3>1. /\ Planned(jobs') \subseteq Planned(jobs)
          /\ Planned(jobs) \subseteq Planned(jobs') \cup {Head(jobs)}
          /\ InOrder(jobs') /\ \A y \in Planned(jobs') : After(Head(jobs), y)
      BY <1>2, <2>2, JobEnded DEF Typed, Whole
    <3>2. ~FollowedBy("reread", A)
      <4>1. Tail(jobs) \in Seq([op : Ops, rows : SUBSET MessageRecord])
        BY <1>2, FinishedJob DEF Typed, JobsTyped
      <4>2. Append(Tail(jobs), job) # Tail(jobs)
        <5> HIDE DEF job
        <5> QED BY <4>1
      <4> QED BY <2>2, <4>2 DEF Ended, FollowedBy
    <3> QED BY <3>1, <2>2, <3>2
  <2> QED BY <1>8, <1>9, <2>1, <2>2
<1> HIDE DEF job
<1>15. \A y : After(Head(jobs), y) => y.op \notin Fetching /\ y.op # "row"
  BY <1>2 DEF After, Fetching, Readers
<1>16. Copies' \subseteq Copies \cup N
  <2>1. buffer' \subseteq Copies \cup N /\ fetch'.rows \subseteq Copies \cup N
    BY <1>3, <1>8, <1>9, PlacedRows DEF UpsertBuffer, Overlay, NoFetch
  <2>2. \A y \in Planned(jobs') : y.rows \subseteq Copies \cup N
    BY <1>3, <1>13, <1>14, PlacedRows
  <2> QED BY <1>12, <2>1, <2>2, PlacedNext
<1>17. RowsTold' /\ IdsKin' /\ IdsCommand'
  <2>1. \A l \in 1..MaxSends : command'[l] \in {0, command[l]}
    BY <1>2
  <2>2. RowsTold' /\ IdsKin'
    BY <1>11, <1>12, <1>16, RowsKeep DEF Whole
  <2>3. IdsCommand'
    BY <1>11, <1>12, <1>16, <2>1, CommandKeep DEF Whole
  <2> QED BY <2>2, <2>3
<1>18. \A m : Fix(m) => Fix(m)'
  BY <1>2, <1>14, JobsStay
<1>19. \A a : PushedFor(a) => PushedFor(a)'
  BY <1>2, <1>14, JobsStay
<1>20. \A y \in Planned(jobs') : After(Head(jobs), y) =>
          /\ y \in Planned(jobs) /\ y.op \notin Fetching /\ y.op # "row" /\ y # job
          /\ (y.op = "publish" => Queued({"reread"})' /\ buffer' = buffer) => JobHolds(y)'
  <2> SUFFICES ASSUME NEW y \in Planned(jobs'), After(Head(jobs), y)
               PROVE  /\ y \in Planned(jobs) /\ y.op \notin Fetching /\ y.op # "row" /\ y # job
                      /\ (y.op = "publish" => Queued({"reread"})' /\ buffer' = buffer) => JobHolds(y)'
    OBVIOUS
  <2>1. y.op \notin Fetching /\ y.op # "row" /\ y # job /\ y \in Planned(jobs)
    BY <1>13, <1>14, <1>15 DEF Fetching
  <2>2. JobHolds(y) /\ RowsTold /\ Loose(y.rows)
    BY <2>1, PlacedRows DEF Whole, JobsHold
  <2>3. y.op = "create" => \A r \in y.rows : CreateHolds(r)'
    BY <1>11, <2>2 DEF JobHolds, Loose
  <2>4. y.op = "ack" => \A r \in y.rows : command'[r.lmid] # 0
    BY <1>2, <2>2 DEF JobHolds, AckHolds
  <2>5. y.op \in {"page", "history"} => \A r \in y.rows : Uncommanded(r)'
    BY <1>2, <2>1, <2>2 DEF JobHolds, PageHolds, Uncommanded, Fetching
  <2>6. y.op = "publish" => \A r \in y.rows : OnDisk(r) => OnDisk(r)'
    BY <1>11
  <2>7. y.op = "publish" /\ buffer' = buffer => \A r \in y.rows, a \in buffer' : a \in buffer
    OBVIOUS
  <2>8. y.op \notin {"history", "reread", "row"}
    BY <2>1 DEF Fetching
  <2> QED BY <1>11, <2>1, <2>2, <2>3, <2>4, <2>5, <2>6, <2>7, <2>8, JobKeeps
<1>21. CASE FollowedBy("reread", A) /\ UNCHANGED <<buffer, bufferMode, fetch>>
  <2>1. job \in Planned(jobs') /\ Queued({"reread"})'
    BY <1>13, <1>14, <1>21, QueuedJobs
  <2>2. \A y \in Planned(jobs') : y # job => After(Head(jobs), y)
    BY <1>14
  <2>3. FetchPlace'
    <3>1. fetch.at = "storing" /\ fetch.rows = {}
      BY <1>2, <1>3 DEF Whole, FetchPlace
    <3> QED BY <1>13, <1>20, <1>21, <2>2, <3>1 DEF FetchPlace, Fetching
  <2>4. JobHolds(job)'
    <3>1. \A h \in A : Obtains(h)'
      BY <1>4, <1>21 DEF Obtains, UpToDate
    <3> QED BY <1>4, <1>11, <1>13, <3>1 DEF JobHolds
  <2>5. JobsHold'
    BY <1>20, <1>21, <2>1, <2>2, <2>4 DEF JobsHold
  <2>6. FetchHolds'
    BY <1>2, <1>21 DEF Whole, FetchHolds, Obtains, UpToDate, Uncommanded
  <2>7. Held'
    BY <1>11, <1>19, <1>21 DEF Whole, Held
  <2>8. \A h \in A : h.pts # 0 => Fix(h.smid)'
    BY <1>13, <2>1 DEF Fix
  <2>9. \A j : DiskGap(j) => DiskGap(j)' \/ Fix(j)'
    BY <1>11, <2>8
  <2>10. Gaps'
    <3>1. \A a \in buffer' : HasPtsGap(a) => (DiskGap(a.smid)' /\ bufferMode' # "pts") \/ Fix(a.smid)'
      BY <1>18, <1>21, <2>9 DEF Whole, Gaps
    <3>2. \A x \in Planned(jobs') : x.op = "reread" => x = job
      BY <1>20, <2>2 DEF Fetching
    <3>3. \A a \in A : HasPtsGap(a) => DiskGap(a.smid)'
      BY <1>11 DEF HasPtsGap
    <3> QED BY <1>13, <3>1, <3>2, <3>3 DEF Gaps
  <2>11. NothingForgotten /\ Unlike(buffer')
    <3>1. Unlike(buffer') /\ \A a \in buffer, b \in buffer' : a.smid # 0 /\ a.smid = b.smid => Knows(b, a)
      BY <1>21 DEF Whole, Unlike, Same, Knows
    <3> QED BY <1>11, <3>1 DEF NothingForgotten
  <2> QED BY <1>11, <1>14, <1>17, <2>3, <2>5, <2>6, <2>7, <2>10, <2>11 DEF Whole
<1>22. CASE UpsertBuffer(A) /\ Ended /\ fetch' = NoFetch /\ ~Queued({"publish"})
  <2>1. \A y \in Planned(jobs') : After(Head(jobs), y) /\ y \in Planned(jobs) /\ y.op # "publish"
    BY <1>14, <1>22, QueuedJobs
  <2>2. FetchPlace' /\ FetchHolds'
    BY <1>20, <1>22, <2>1 DEF FetchPlace, FetchHolds, NoFetch, Fetching
  <2>3. JobsHold'
    BY <1>20, <2>1 DEF JobsHold
  <2>4. buffer' = Overlay(buffer, A) /\ bufferMode' = NoteRows(bufferMode, A)
    BY <1>22 DEF UpsertBuffer
  <2>5. Unlike(A) /\ \A h \in A : h.smid # 0
    BY <1>4 DEF Unlike, Same, Numbered, Obtains
  <2>6. /\ Unlike(buffer') /\ A \subseteq buffer'
        /\ \A a \in buffer' : a \in A \/ (a \in buffer /\ \A h \in A : ~Same(a, h))
    BY <2>4, <2>5, BufferTaken DEF Whole
  <2>7. Held'
    BY <1>11, <1>19, <2>6 DEF Whole, Held
  <2>8. \A a \in buffer' : HasPtsGap(a) => (DiskGap(a.smid)' /\ bufferMode' # "pts") \/ Fix(a.smid)'
    <3> SUFFICES ASSUME NEW a \in buffer', HasPtsGap(a), ~Fix(a.smid)'
                 PROVE  DiskGap(a.smid)' /\ bufferMode' # "pts"
      OBVIOUS
    <3>1. CASE a \in A
      BY <1>11, <2>4, <3>1 DEF HasPtsGap, NoteRows
    <3>2. CASE a \notin A
      <4>1. a \in buffer /\ DiskGap(a.smid) /\ bufferMode # "pts"
        BY <1>18, <2>6, <3>2 DEF Whole, Gaps
      <4>2. \A h \in A : h.smid # a.smid
        BY <2>6, <3>2 DEF Same, HasPtsGap
      <4> QED BY <1>11, <2>4, <4>1, <4>2 DEF NoteRows
    <3> QED BY <3>1, <3>2
  <2>9. Gaps'
    BY <1>20, <2>1, <2>8 DEF Gaps, Fetching
  <2>10. NothingForgotten
    <3>1. \A a \in buffer, b \in buffer' : a.smid # 0 /\ a.smid = b.smid => Knows(b, a)
      <4> SUFFICES ASSUME NEW a \in buffer, NEW b \in buffer', a.smid # 0, a.smid = b.smid PROVE Knows(b, a)
        OBVIOUS
      <4>1. CASE b \in A
        BY <1>4, <4>1 DEF Obtains, UpToDate, Knows
      <4>2. CASE b \in buffer
        BY <4>2 DEF Whole, Unlike, Same, Knows
      <4> QED BY <2>6, <4>1, <4>2
    <3> QED BY <1>11, <3>1 DEF NothingForgotten
  <2> QED BY <1>11, <1>14, <1>17, <2>2, <2>3, <2>6, <2>7, <2>9, <2>10 DEF Whole
<1> QED BY <1>8, <1>9, <1>21, <1>22

-----------------------------------------------------------------------------
(* The invariant, and what follows from it.                                *)

\* Only the server's steps touch the log, and what is lost stays lost.
LEMMA HistoryGrows ==
    ASSUME Typed, TimelineNext
    PROVE  /\ \A m \in DOMAIN log : m \in DOMAIN log' /\ Mine(m)' = Mine(m)
           /\ losses' = {} => losses = {}
<1>1. losses \subseteq losses'
  <2>1. CASE PeerWrites \/ SendText \/ RunCreate \/ RunAck \/ RunPushed
    BY <2>1 DEF PeerWrites, SendText, RunCreate, RunAck, RunPushed
  <2>2. CASE \E l \in 1..sends : Accept(l) \/ Ack(l) \/ InlineThrows(l)
    BY <2>2 DEF Accept, Ack, InlineThrows
  <2>3. CASE \E m \in DOMAIN log : Revoke(m) \/ SyncPage(m) \/ \E body \in BOOLEAN : Absorb(m, body)
    BY <2>3 DEF Revoke, SyncPage, Absorb
  <2>4. CASE OpenConversation \/ RunMode \/ RunWindow \/ PageHistory
    BY <2>4 DEF OpenConversation, RunMode, RunWindow, PageHistory
  <2>5. CASE AnswerHistory \/ StoreHistory \/ RunHistory \/ RunReread
    BY <2>5 DEF AnswerHistory, StoreHistory, RunHistory, RunReread
  <2>6. CASE RunMerge \/ RunPublish \/ JobFails \/ TabReloads
    BY <2>6 DEF RunMerge, RunPublish, JobFails, TabReloads
  <2> QED BY <2>1, <2>2, <2>3, <2>4, <2>5, <2>6 DEF TimelineNext
<1>2. CASE PeerWrites \/ \E l \in 1..sends : Accept(l)
  <2>1. PICK l \in 0..MaxSends : log' = Append(log, [lmid |-> l, revoked |-> FALSE]) /\ sends' = sends
    <3>1. CASE PeerWrites
      <4>1. 0 \in 0..MaxSends
        BY Numbers
      <4> QED BY <3>1, <4>1 DEF PeerWrites, outVars
    <3>2. ASSUME NEW l \in 1..sends, Accept(l)
          PROVE  l \in 0..MaxSends /\ log' = Append(log, [lmid |-> l, revoked |-> FALSE]) /\ sends' = sends
      <4>1. l \in 0..MaxSends
        BY Numbers DEF Typed, LogTyped
      <4> QED BY <3>2, <4>1 DEF Accept, outVars
    <3> QED BY <1>2, <3>1, <3>2
  <2> QED BY <1>1, <2>1, AppendedLog DEF LogKeeps, Mine
<1>3. CASE \E m \in DOMAIN log : Revoke(m)
  <2>1. PICK n \in DOMAIN log : log' = [log EXCEPT ![n].revoked = TRUE]
    BY <1>3 DEF Revoke
  <2>2. log \in Seq([lmid : 0..MaxSends, revoked : BOOLEAN])
    BY DEF Typed, LogTyped
  <2>3. \A m \in DOMAIN log : m \in DOMAIN log' /\ log'[m].lmid = log[m].lmid
    BY <2>1, <2>2
  <2> QED BY <1>1, <2>3 DEF Mine
<1>4. CASE log' = log
  BY <1>1, <1>4 DEF Mine
<1>5. log' = log \/ PeerWrites \/ (\E l \in 1..sends : Accept(l)) \/ \E m \in DOMAIN log : Revoke(m)
  <2>1. CASE SendText \/ RunCreate \/ RunAck \/ RunPushed
    BY <2>1 DEF SendText, RunCreate, RunAck, RunPushed
  <2>2. CASE \E l \in 1..sends : Ack(l) \/ InlineThrows(l)
    BY <2>2 DEF Ack, InlineThrows
  <2>3. CASE \E m \in DOMAIN log : SyncPage(m) \/ \E body \in BOOLEAN : Absorb(m, body)
    BY <2>3 DEF SyncPage, Absorb
  <2>4. CASE OpenConversation \/ RunMode \/ RunWindow \/ PageHistory
    BY <2>4 DEF OpenConversation, RunMode, RunWindow, PageHistory
  <2>5. CASE AnswerHistory \/ StoreHistory \/ RunHistory \/ RunReread
    BY <2>5 DEF AnswerHistory, StoreHistory, RunHistory, RunReread
  <2>6. CASE RunMerge \/ RunPublish \/ JobFails \/ TabReloads
    BY <2>6 DEF RunMerge, RunPublish, JobFails, TabReloads
  <2> QED BY <2>1, <2>2, <2>3, <2>4, <2>5, <2>6 DEF TimelineNext
<1> QED BY <1>2, <1>3, <1>4, <1>5

\* An action that loses nothing keeps the rows whole.
LEMMA WholeKeeps ==
    ASSUME Typed, Whole, TimelineNext, losses' = {}
    PROVE  Whole' /\ NothingForgotten
<1>1. CASE PeerWrites \/ SendText \/ RunCreate \/ RunAck \/ RunPushed
  BY <1>1, PeerWritesKeeps, SendTextKeeps, RunCreateKeeps, RunAckKeeps, RunPushedKeeps
<1>2. CASE \E l \in 1..sends : Accept(l) \/ Ack(l) \/ InlineThrows(l)
  BY <1>2, AcceptKeeps, AckKeeps, InlineThrowsKeeps
<1>3. CASE \E m \in DOMAIN log : Revoke(m) \/ SyncPage(m) \/ \E body \in BOOLEAN : Absorb(m, body)
  BY <1>3, RevokeKeeps, SyncPageKeeps, AbsorbPushKeeps
<1>4. CASE OpenConversation \/ RunMode \/ RunWindow \/ PageHistory
  BY <1>4, OpenConversationKeeps, RunModeKeeps, RunWindowKeeps, PageHistoryKeeps
<1>5. CASE AnswerHistory \/ StoreHistory \/ RunHistory \/ RunReread
  BY <1>5, AnswerHistoryKeeps, StoreHistoryKeeps, RunHistoryKeeps, RunRereadKeeps
<1>6. CASE RunMerge \/ RunPublish \/ JobFails \/ TabReloads
  BY <1>6, RunMergeKeeps, RunPublishKeeps, JobFailsKeeps, TabReloadsKeeps
<1> QED BY <1>1, <1>2, <1>3, <1>4, <1>5, <1>6 DEF TimelineNext

\* TimelineSound holds of an empty conversation.
LEMMA SoundStarts == TimelineInit => TimelineSound
<1> SUFFICES ASSUME TimelineInit PROVE Whole
  BY TypedStarts DEF TimelineSound
<1>1. Bare = {} /\ Planned(jobs) = {} /\ Copies = {}
  BY DEF TimelineInit, Bare, Bared, Planned, Copies, NoFetch
<1>2. LogSound /\ InOrder(jobs) /\ FetchPlace /\ FetchHolds
  BY <1>1 DEF TimelineInit, LogSound, InOrder, FetchPlace, FetchHolds, NoFetch
<1>3. RowsTold /\ IdsKin /\ IdsCommand /\ Unlike(Bare) /\ Unlike(buffer)
  BY <1>1 DEF TimelineInit, RowsTold, IdsKin, IdsCommand, Unlike
<1>4. CommandsStored /\ JobsHold /\ Held /\ Gaps
  BY <1>1 DEF TimelineInit, CommandsStored, JobsHold, Held, Gaps
<1> QED BY <1>2, <1>3, <1>4 DEF Whole

\* TimelineSound is inductive.
LEMMA SoundKeeps ==
    ASSUME TimelineSound, TimelineNext \/ UNCHANGED timelineVars
    PROVE  TimelineSound'
<1>1. Typed'
  BY TypedKeeps DEF TimelineSound
<1>2. CASE TimelineNext
  BY <1>1, <1>2, HistoryGrows, WholeKeeps DEF TimelineSound
<1>3. CASE UNCHANGED timelineVars
  BY <1>1, <1>3, StutterKeeps DEF TimelineSound, timelineVars, outVars, diskVars, bufferVars
<1> QED BY <1>2, <1>3

\* No step that loses nothing makes memory or database say less of a message.
LEMMA NothingRegresses ==
    ASSUME TimelineSound, TimelineNext, losses' = {}
    PROVE  ~Regresses(buffer, buffer') /\ ~Regresses(disk, disk')
<1>1. Typed /\ Whole /\ Whole' /\ NothingForgotten /\ Typed'
  BY HistoryGrows, WholeKeeps, TypedKeeps DEF TimelineSound
<1>2. \A a \in Copies, b \in Copies' : a.smid # 0 /\ a.smid = b.smid => a.status = b.status
  <2> SUFFICES ASSUME NEW a \in Copies, NEW b \in Copies', a.smid # 0, a.smid = b.smid PROVE a.status = b.status
    OBVIOUS
  <2>1. /\ a.smid \in DOMAIN log /\ a.status = (IF Mine(a.smid) THEN "sent" ELSE "received")
        /\ b.status = (IF Mine(a.smid)' THEN "sent" ELSE "received")
    BY <1>1 DEF Whole, RowsTold, Real, Mine
  <2>2. Mine(a.smid)' = Mine(a.smid)
    BY <1>1, <2>1, HistoryGrows
  <2> QED BY <2>1, <2>2
<1>3. \A d \in disk : \E b \in Bare : /\ b \in Copies /\ b.smid = d.smid /\ b.status = d.status
                                      /\ b.body = d.body /\ b.revoked = d.revoked /\ b.exact = d.exact
  BY <1>1, StripRow DEF Bare, Bared, Copies, Typed, DiskTyped, Keyed
<1>4. \A d \in disk' : \E b \in Bare' : /\ b \in Copies' /\ b.smid = d.smid /\ b.status = d.status
                                        /\ b.body = d.body /\ b.revoked = d.revoked /\ b.exact = d.exact
  BY <1>1, StripRow DEF Bare, Bared, Copies, Typed, DiskTyped, Keyed
<1>5. buffer \subseteq Copies /\ buffer' \subseteq Copies'
  BY DEF Copies
<1>6. ~Regresses(buffer, buffer')
  BY <1>1, <1>2, <1>5 DEF Regresses, NothingForgotten, Knows
<1>7. ~Regresses(disk, disk')
  <2> SUFFICES ASSUME NEW d \in disk, NEW e \in disk', d.smid # 0, d.smid = e.smid
               PROVE  /\ (d.body => e.body) /\ (d.revoked => e.revoked) /\ (d.exact => e.exact)
                      /\ d.status = e.status
    BY DEF Regresses
  <2>1. PICK a \in Bare : /\ a \in Copies /\ a.smid = d.smid /\ a.status = d.status
                          /\ a.body = d.body /\ a.revoked = d.revoked /\ a.exact = d.exact
    BY <1>3
  <2>2. PICK b \in Bare' : /\ b \in Copies' /\ b.smid = e.smid /\ b.status = e.status
                           /\ b.body = e.body /\ b.revoked = e.revoked /\ b.exact = e.exact
    BY <1>4
  <2>3. Knows(b, a) /\ a.status = b.status
    BY <1>1, <1>2, <2>1, <2>2 DEF NothingForgotten
  <2> QED BY <2>1, <2>2, <2>3 DEF Knows
<1> QED BY <1>6, <1>7

\* What the checked properties say follows.
LEMMA SoundTimeline ==
    ASSUME TimelineSound
    PROVE  OneRowEach /\ KeysUnderOneMode /\ ShownInOrder /\ TimelineTypeOK
<1>1. Typed /\ (losses = {} => Whole)
  BY DEF TimelineSound
<1>2. OneRowEach
  BY <1>1, KeyedRows DEF OneRowEach, Whole, Unlike, Bare, Typed, DiskTyped
<1>3. KeysUnderOneMode
  BY <1>1 DEF KeysUnderOneMode, Typed, DiskTyped, Keyed
<1>4. ShownInOrder
  <2> SUFFICES ASSUME losses = {}, jobs = <<>>, bufferMode = "pts", NEW a \in buffer, HasPtsGap(a) PROVE FALSE
    BY DEF ShownInOrder
  <2>1. Fix(a.smid)
    BY <1>1 DEF Whole, Gaps
  <2> QED BY <2>1 DEF Fix, Planned
<1>5. TimelineTypeOK
  <2>1. \A m \in DOMAIN log : log[m] \in [lmid : 0..MaxSends, revoked : BOOLEAN]
    <3>1. log \in Seq([lmid : 0..MaxSends, revoked : BOOLEAN])
      BY <1>1 DEF Typed, LogTyped
    <3> DEFINE S == [lmid : 0..MaxSends, revoked : BOOLEAN]
    <3> HIDE DEF S
    <3>2. log \in Seq(S) => \A m \in DOMAIN log : log[m] \in S
      OBVIOUS
    <3> USE DEF S
    <3> QED BY <3>1, <3>2
  <2>2. disk \subseteq MessageRecord /\ (\A r \in disk : r.by \in Modes) /\ diskMode \in Modes
    BY <1>1 DEF Typed, DiskTyped, Keyed
  <2>3. fetch.at \in Fetches /\ fetch.rows \subseteq MessageRecord
    BY <1>1 DEF Typed, FetchTyped
  <2> QED BY <1>1, <2>1, <2>2, <2>3 DEF TimelineTypeOK, Typed, LogTyped, BufferTyped, Loose, JobsTyped, LossesTyped
<1> QED BY <1>2, <1>3, <1>4, <1>5

-----------------------------------------------------------------------------
(* Lists: folds over them, and what is selected of them.                   *)

\* What is not wrong at the start, nor becomes so, is right to the end.
LEMMA NeverWrong ==
    ASSUME NEW n \in Nat, NEW Wrong, Wrong \subseteq 0..n, 0 \notin Wrong,
           \A k \in 1..n : k \in Wrong => k - 1 \in Wrong
    PROVE  Wrong = {}
<1>1. SUFFICES ASSUME Wrong # {} PROVE FALSE
  OBVIOUS
<1>2. Wrong \subseteq Nat
  OBVIOUS
<1>3. PICK k \in Wrong : \A m \in Wrong : k <= m
  BY <1>1, <1>2, LeastNumber
<1>4. k \in 1..n
  BY <1>3
<1>5. k <= k - 1
  BY <1>3, <1>4
<1> QED BY <1>4, <1>5

LEMMA LastOfPrefix ==
    ASSUME NEW k \in Nat, k # 0
    PROVE  Max(1..k) = k /\ (1..k) \ {k} = 1..(k - 1)
<1>1. k \in 1..k /\ \A y \in 1..k : k >= y
  OBVIOUS
<1>2. \A x \in 1..k : (\A y \in 1..k : x >= y) => x = k
  BY <1>1
<1>3. Max(1..k) = k
  BY <1>1, <1>2 DEF Max
<1> QED BY <1>3

LEMMA MaxIsMember ==
    ASSUME NEW n \in Nat, NEW t, t \subseteq 1..n, t # {}
    PROVE  Max(t) \in t
<1> DEFINE T == {n - i : i \in t}
<1>1. T \subseteq Nat /\ T # {}
  <2>1. \A i \in t : i \in 1..n
    OBVIOUS
  <2>2. \A i \in t : n - i \in Nat
    BY <2>1
  <2> QED BY <2>2
<1>2. PICK m \in T : \A j \in T : m <= j
  <2> HIDE DEF T
  <2> QED BY <1>1, LeastNumber
<1>3. PICK i \in t : m = n - i
  OBVIOUS
<1>4. \A y \in t : i >= y
  <2> SUFFICES ASSUME NEW y \in t PROVE i >= y
    OBVIOUS
  <2>1. n - i <= n - y
    BY <1>2, <1>3
  <2>2. i \in 1..n /\ y \in 1..n
    OBVIOUS
  <2> QED BY <2>1, <2>2
<1> QED BY <1>4 DEF Max

\* h is the fold of F over the members of s at each set of places.
FoldsWith(h, Y, F, base, s) ==
    /\ h \in [SUBSET (1..Len(s)) -> Y]
    /\ \A t \in SUBSET (1..Len(s)) :
          h[t] = IF t = {} THEN base ELSE F[<<h[t \ {Max(t)}], s[Max(t)]>>]

\* The function a fold over a list is of exists, whatever it does with a member.
LEMMA FoldOver ==
    ASSUME NEW X, NEW Y, NEW F \in [Y \X X -> Y], NEW base \in Y, NEW s \in Seq(X)
    PROVE  \E h : FoldsWith(h, Y, F, base, s)
<1> DEFINE D == 1..Len(s)
           Small(n) == {t \in SUBSET D : Cardinality(t) <= n}
           Right(g, n) == \A t \in Small(n) :
               g[t] = IF t = {} THEN base ELSE F[<<g[t \ {Max(t)}], s[Max(t)]>>]
           Missing == {n \in 0..Len(s) : ~ \E g \in [SUBSET D -> Y] : Right(g, n)}
<1>1. Len(s) \in Nat /\ \A i \in D : s[i] \in X
  OBVIOUS
<1>2. \A t \in SUBSET D : /\ IsFiniteSet(t) /\ Cardinality(t) \in Nat /\ Cardinality(t) <= Len(s)
                          /\ Cardinality(t) = 0 <=> t = {}
  <2>1. IsFiniteSet(D) /\ Cardinality(D) = Len(s)
    <3>1. 1 \in Int /\ Len(s) \in Int
      BY <1>1
    <3>2. IsFiniteSet(D) /\ Cardinality(D) = IF 1 > Len(s) THEN 0 ELSE Len(s) - 1 + 1
      BY <3>1, FS_Interval
    <3> QED BY <3>2, <1>1
  <2> SUFFICES ASSUME NEW t \in SUBSET D
               PROVE  /\ IsFiniteSet(t) /\ Cardinality(t) \in Nat /\ Cardinality(t) <= Len(s)
                      /\ Cardinality(t) = 0 <=> t = {}
    OBVIOUS
  <2> HIDE DEF D
  <2>2. IsFiniteSet(t) /\ Cardinality(t) <= Cardinality(D)
    BY <2>1, FS_Subset
  <2> QED BY <2>1, <2>2, FS_CardinalityType, FS_EmptySet
<1>3. ASSUME NEW t \in SUBSET D, t # {}
      PROVE  /\ Max(t) \in t /\ s[Max(t)] \in X /\ t \ {Max(t)} \in SUBSET D
             /\ Cardinality(t \ {Max(t)}) = Cardinality(t) - 1
  <2>1. Max(t) \in t
    BY <1>1, <1>3, MaxIsMember
  <2>2. Cardinality(t \ {Max(t)}) = Cardinality(t) - 1
    BY <2>1, <1>2, FS_RemoveElement
  <2> QED BY <2>1, <2>2, <1>1
<1>4. 0 \notin Missing
  <2>1. Small(0) = {{}}
    BY <1>2
  <2>2. [t \in SUBSET D |-> base] \in [SUBSET D -> Y]
    OBVIOUS
  <2>3. Right([t \in SUBSET D |-> base], 0)
    BY <2>1
  <2> HIDE DEF Right
  <2> QED BY <2>2, <2>3
<1>5. ASSUME NEW n \in 1..Len(s), n - 1 \notin Missing
      PROVE  n \notin Missing
  <2>1. n - 1 \in 0..Len(s) /\ n \in Nat
    BY <1>1
  <2>2. PICK g \in [SUBSET D -> Y] : Right(g, n - 1)
    BY <1>5, <2>1
  <2> DEFINE f == [t \in SUBSET D |-> IF Cardinality(t) <= n - 1 THEN g[t]
                                      ELSE F[<<g[t \ {Max(t)}], s[Max(t)]>>]]
  <2>3. f \in [SUBSET D -> Y]
    <3>1. ASSUME NEW t \in SUBSET D, ~(Cardinality(t) <= n - 1)
          PROVE  F[<<g[t \ {Max(t)}], s[Max(t)]>>] \in Y
      <4>1. t # {}
        BY <3>1, <1>2, <2>1
      <4> QED BY <4>1, <1>3
    <3> QED BY <3>1
  <2>4. ASSUME NEW t \in Small(n)
        PROVE  f[t] = IF t = {} THEN base ELSE F[<<f[t \ {Max(t)}], s[Max(t)]>>]
    <3>1. t \in SUBSET D /\ Cardinality(t) \in Nat /\ Cardinality(t) <= n
      BY <1>2
    <3>2. CASE t = {}
      <4>1. Cardinality(t) <= n - 1
        BY <3>2, <1>2, <2>1
      <4>2. g[t] = base
        BY <2>2, <3>1, <3>2, <4>1
      <4> QED BY <3>1, <3>2, <4>1, <4>2
    <3>3. CASE t # {}
      <4> DEFINE u == t \ {Max(t)}
      <4>1. u \in SUBSET D /\ Cardinality(u) = Cardinality(t) - 1
        BY <3>1, <3>3, <1>3
      <4>2. Cardinality(u) <= n - 1
        BY <4>1, <3>1, <2>1
      <4>3. f[u] = g[u]
        BY <4>1, <4>2
      <4>4. f[t] = F[<<g[u], s[Max(t)]>>]
        <5>1. CASE Cardinality(t) <= n - 1
          <6>1. g[t] = F[<<g[u], s[Max(t)]>>]
            BY <2>2, <3>1, <3>3, <5>1
          <6> QED BY <6>1, <3>1, <5>1
        <5>2. CASE ~(Cardinality(t) <= n - 1)
          BY <3>1, <5>2
        <5> QED BY <5>1, <5>2
      <4> HIDE DEF f, u
      <4> QED BY <3>3, <4>3, <4>4 DEF u
    <3> QED BY <3>2, <3>3
  <2> HIDE DEF f
  <2>5. Right(f, n)
    BY <2>4
  <2> HIDE DEF Right
  <2> QED BY <2>3, <2>5
<1>6. Missing = {}
  <2>1. Missing \subseteq 0..Len(s)
    OBVIOUS
  <2> HIDE DEF Missing
  <2>2. \A k \in 1..Len(s) : k \in Missing => k - 1 \in Missing
    BY <1>5
  <2> QED BY <1>1, <1>4, <2>1, <2>2, NeverWrong
<1>7. PICK h \in [SUBSET D -> Y] : Right(h, Len(s))
  <2>1. Len(s) \in 0..Len(s)
    BY <1>1
  <2> HIDE DEF Right
  <2> QED BY <2>1, <1>6
<1>8. \A t \in SUBSET D : t \in Small(Len(s))
  BY <1>2
<1> QED BY <1>7, <1>8 DEF FoldsWith

\* A list with one more member.
LEMMA Appended ==
    ASSUME NEW X, NEW a \in Seq(X), NEW x \in X
    PROVE  /\ Append(a, x) \in Seq(X) /\ Len(a) \in Nat /\ Len(Append(a, x)) = Len(a) + 1
           /\ Append(a, x)[Len(a) + 1] = x /\ \A i \in 1..Len(a) : Append(a, x)[i] = a[i]
  OBVIOUS

\* c[k] is what is selected of the first k members of s.
Selecting(c, X, s, S) ==
    /\ c \in [0..Len(s) -> Seq(X)] /\ c[0] = <<>>
    /\ \A k \in 1..Len(s) : c[k] = IF s[k] \in S THEN Append(c[k - 1], s[k]) ELSE c[k - 1]

\* A selection is made member by member.
LEMMA SelectedSteps ==
    ASSUME NEW X, NEW s \in Seq(X), NEW S
    PROVE  \E c : Selecting(c, X, s, S) /\ Selected(s, S) = c[Len(s)]
<1> DEFINE D == 1..Len(s)
           F == [p \in Seq(X) \X X |-> IF p[2] \in S THEN Append(p[1], p[2]) ELSE p[1]]
           g == CHOOSE g : g = [t \in SUBSET DOMAIN s |->
                    IF t = {} THEN <<>>
                    ELSE IF s[Max(t)] \in S THEN Append(g[t \ {Max(t)}], s[Max(t)])
                                            ELSE g[t \ {Max(t)}]]
           c == [k \in 0..Len(s) |-> g[1..k]]
           Wrong == {k \in 0..Len(s) : c[k] \notin Seq(X)}
<1>1. Len(s) \in Nat /\ DOMAIN s = D /\ \A i \in D : s[i] \in X
  OBVIOUS
<1>2. g = [t \in SUBSET D |-> IF t = {} THEN <<>>
                              ELSE IF s[Max(t)] \in S THEN Append(g[t \ {Max(t)}], s[Max(t)])
                                                      ELSE g[t \ {Max(t)}]]
  <2>1. F \in [Seq(X) \X X -> Seq(X)] /\ <<>> \in Seq(X)
    OBVIOUS
  <2> HIDE DEF F
  <2>2. PICK h \in [SUBSET D -> Seq(X)] :
           \A t \in SUBSET D : h[t] = IF t = {} THEN <<>> ELSE F[<<h[t \ {Max(t)}], s[Max(t)]>>]
    <3>1. PICK Y : Y = Seq(X)
      OBVIOUS
    <3>2. F \in [Y \X X -> Y] /\ <<>> \in Y
      BY <2>1, <3>1
    <3>3. PICK h : FoldsWith(h, Y, F, <<>>, s)
      BY <3>2, FoldOver
    <3> QED BY <3>1, <3>3 DEF FoldsWith
  <2>3. \A t \in SUBSET D : t # {} => Max(t) \in D /\ t \ {Max(t)} \in SUBSET D
    BY <1>1, MaxIsMember
  <2>4. \A t \in SUBSET D :
           h[t] = IF t = {} THEN <<>>
                  ELSE IF s[Max(t)] \in S THEN Append(h[t \ {Max(t)}], s[Max(t)])
                                          ELSE h[t \ {Max(t)}]
    BY <2>2, <2>3, <1>1 DEF F
  <2>5. h = [t \in SUBSET D |-> IF t = {} THEN <<>>
                                ELSE IF s[Max(t)] \in S THEN Append(h[t \ {Max(t)}], s[Max(t)])
                                                        ELSE h[t \ {Max(t)}]]
    <3> DEFINE k == [t \in SUBSET D |-> IF t = {} THEN <<>>
                                ELSE IF s[Max(t)] \in S THEN Append(h[t \ {Max(t)}], s[Max(t)])
                                                        ELSE h[t \ {Max(t)}]]
    <3>1. \A t \in SUBSET D : h[t] = k[t]
      BY <2>4
    <3>2. k = [t \in SUBSET D |-> k[t]] /\ h = [t \in SUBSET D |-> h[t]]
      OBVIOUS
    <3> HIDE DEF k
    <3>3. h = k
      BY <3>1, <3>2
    <3> QED BY <3>3 DEF k
  <2> HIDE DEF D
  <2> QED BY <2>5, <1>1
<1>3. Selected(s, S) = g[DOMAIN s]
  BY DEF Selected, FoldLeft, MapThenFoldSet
<1> HIDE DEF g
<1>4. c[0] = <<>>
  <2>1. 1..0 = {}
    OBVIOUS
  <2> QED BY <1>1, <1>2, <2>1
<1>5. \A k \in 1..Len(s) : c[k] = IF s[k] \in S THEN Append(c[k - 1], s[k]) ELSE c[k - 1]
  <2> SUFFICES ASSUME NEW k \in 1..Len(s)
               PROVE  c[k] = IF s[k] \in S THEN Append(c[k - 1], s[k]) ELSE c[k - 1]
    OBVIOUS
  <2>1. k \in Nat /\ k # 0 /\ 1..k \in SUBSET D /\ 1..k # {} /\ k - 1 \in 0..Len(s) /\ k \in 0..Len(s)
    <3>1. k \in Nat /\ k # 0 /\ k <= Len(s) /\ k - 1 \in 0..Len(s) /\ k \in 0..Len(s)
      BY <1>1
    <3>2. 1 \in 1..k /\ \A i \in 1..k : i \in D
      BY <3>1, <1>1
    <3> QED BY <3>1, <3>2
  <2>2. Max(1..k) = k /\ (1..k) \ {k} = 1..(k - 1)
    BY <2>1, LastOfPrefix
  <2>3. g[1..k] = IF s[k] \in S THEN Append(g[1..(k - 1)], s[k]) ELSE g[1..(k - 1)]
    <3> DEFINE t == 1..k
    <3>1. t \in SUBSET D /\ t # {} /\ Max(t) = k /\ t \ {k} = 1..(k - 1)
      BY <2>1, <2>2
    <3> HIDE DEF t, D
    <3>2. g[t] = IF s[Max(t)] \in S THEN Append(g[t \ {Max(t)}], s[Max(t)]) ELSE g[t \ {Max(t)}]
      BY <3>1, <1>2
    <3> QED BY <3>1, <3>2 DEF t
  <2> QED BY <2>1, <2>3
<1>6. Wrong = {}
  <2>1. Wrong \subseteq 0..Len(s) /\ 0 \notin Wrong
    BY <1>4
  <2>2. \A k \in 1..Len(s) : k \in Wrong => k - 1 \in Wrong
    <3> SUFFICES ASSUME NEW k \in 1..Len(s), c[k - 1] \in Seq(X) PROVE c[k] \in Seq(X)
      BY <1>1
    <3>1. s[k] \in X
      BY <1>1
    <3> HIDE DEF c
    <3>2. Append(c[k - 1], s[k]) \in Seq(X)
      BY <3>1, Appended
    <3> QED BY <1>5, <3>2
  <2> HIDE DEF Wrong
  <2> QED BY <2>1, <2>2, <1>1, NeverWrong
<1>7. c \in [0..Len(s) -> Seq(X)]
  <2>1. \A k \in 0..Len(s) : c[k] \in Seq(X)
    BY <1>6
  <2> QED BY <2>1
<1>8. Selected(s, S) = c[Len(s)]
  BY <1>1, <1>3
<1> HIDE DEF c
<1>9. Selecting(c, X, s, S)
  BY <1>4, <1>5, <1>7 DEF Selecting
<1> QED BY <1>8, <1>9

\* The places of s that t has, in their order.
PlacesOf(e, s, S, t) ==
    /\ e \in [1..Len(t) -> 1..Len(s)]
    /\ \A i \in 1..Len(t) : t[i] = s[e[i]] /\ t[i] \in S
    /\ \A i, j \in 1..Len(t) : i < j => e[i] < e[j]
    /\ \A j \in 1..Len(s) : s[j] \in S => \E i \in 1..Len(t) : e[i] = j

\* A selection has the members that qualify and no others, as they stood.
LEMMA SelectedPlaces ==
    ASSUME NEW X, NEW s \in Seq(X), NEW S
    PROVE  Selected(s, S) \in Seq(X) /\ \E e : PlacesOf(e, s, S, Selected(s, S))
<1>0. PICK c : Selecting(c, X, s, S) /\ Selected(s, S) = c[Len(s)]
  BY SelectedSteps
<1>1. /\ c \in [0..Len(s) -> Seq(X)] /\ c[0] = <<>>
      /\ \A k \in 1..Len(s) : c[k] = IF s[k] \in S THEN Append(c[k - 1], s[k]) ELSE c[k - 1]
      /\ Selected(s, S) = c[Len(s)]
  BY <1>0 DEF Selecting
<1> DEFINE To(e, k) ==
               /\ e \in [1..Len(c[k]) -> 1..k]
               /\ \A i \in 1..Len(c[k]) : c[k][i] = s[e[i]] /\ c[k][i] \in S
               /\ \A i, j \in 1..Len(c[k]) : i < j => e[i] < e[j]
               /\ \A j \in 1..k : s[j] \in S => \E i \in 1..Len(c[k]) : e[i] = j
           Wrong == {k \in 0..Len(s) : ~ \E e : To(e, k)}
<1>2. Len(s) \in Nat
  OBVIOUS
<1>3. 0 \notin Wrong
  <2>1. To(<<>>, 0)
    BY <1>1
  <2> HIDE DEF To
  <2> QED BY <2>1
<1>4. ASSUME NEW k \in 1..Len(s), k - 1 \notin Wrong
      PROVE  k \notin Wrong
  <2>1. k - 1 \in 0..Len(s) /\ k \in 0..Len(s) /\ k \in Nat /\ k - 1 \in Nat
    BY <1>2
  <2>2. PICK e : To(e, k - 1)
    <3> HIDE DEF To
    <3> QED BY <1>4, <2>1
  <2>3. PICK a : a = c[k - 1] /\ a \in Seq(X)
    BY <1>1, <2>1
  <2>4. Len(a) \in Nat /\ s[k] \in X
    BY <2>3
  <2>5. CASE s[k] \in S
    <3>1. c[k] = Append(a, s[k])
      BY <1>1, <2>3, <2>5
    <3>2. PICK b : b = c[k] /\ Len(b) = Len(a) + 1 /\ b[Len(a) + 1] = s[k]
                   /\ \A i \in 1..Len(a) : b[i] = a[i]
      <4>1. PICK x : x = s[k] /\ x \in X
        BY <2>4
      <4>2. c[k] = Append(a, x)
        BY <3>1, <4>1
      <4>3. Len(c[k]) = Len(a) + 1 /\ c[k][Len(a) + 1] = x /\ \A i \in 1..Len(a) : c[k][i] = a[i]
        BY <4>1, <4>2, <2>3, Appended
      <4> QED BY <4>1, <4>3
    <3> DEFINE f == [i \in 1..(Len(a) + 1) |-> IF i <= Len(a) THEN e[i] ELSE k]
    <3>3. e \in [1..Len(a) -> 1..(k - 1)]
      BY <2>2, <2>3
    <3>4. f \in [1..(Len(a) + 1) -> 1..k]
      BY <3>3, <2>1, <2>4
    <3>5. /\ \A i \in 1..Len(a) : i \in 1..(Len(a) + 1) /\ i <= Len(a) /\ f[i] = e[i] /\ e[i] \in 1..(k - 1)
          /\ f[Len(a) + 1] = k
          /\ \A i \in 1..(Len(a) + 1) : i \in 1..Len(a) \/ i = Len(a) + 1
      <4>1. \A i \in 1..Len(a) : i \in 1..(Len(a) + 1) /\ i <= Len(a) /\ e[i] \in 1..(k - 1)
        BY <3>3, <2>4
      <4>2. Len(a) + 1 \in 1..(Len(a) + 1) /\ ~(Len(a) + 1 <= Len(a))
        BY <2>4
      <4>3. \A i \in 1..(Len(a) + 1) : i \in 1..Len(a) \/ i = Len(a) + 1
        BY <2>4
      <4> QED BY <4>1, <4>2, <4>3
    <3> HIDE DEF f
    <3>6. \A i \in 1..(Len(a) + 1) : b[i] = s[f[i]] /\ b[i] \in S
      BY <2>2, <2>3, <2>5, <3>2, <3>5
    <3>7. \A i, j \in 1..(Len(a) + 1) : i < j => f[i] < f[j]
      <4> SUFFICES ASSUME NEW i \in 1..(Len(a) + 1), NEW j \in 1..(Len(a) + 1), i < j
                   PROVE  f[i] < f[j]
        OBVIOUS
      <4>1. i \in 1..Len(a)
        BY <2>4
      <4>2. CASE j \in 1..Len(a)
        BY <4>1, <4>2, <3>5, <2>2, <2>3
      <4>3. CASE j = Len(a) + 1
        BY <4>1, <4>3, <3>5, <2>1
      <4> QED BY <4>2, <4>3, <3>5
    <3>8. \A j \in 1..k : s[j] \in S => \E i \in 1..(Len(a) + 1) : f[i] = j
      <4> SUFFICES ASSUME NEW j \in 1..k, s[j] \in S PROVE \E i \in 1..(Len(a) + 1) : f[i] = j
        OBVIOUS
      <4>1. CASE j = k
        <5>1. Len(a) + 1 \in 1..(Len(a) + 1)
          BY <2>4
        <5> QED BY <4>1, <3>5, <5>1
      <4>2. CASE j # k
        <5>1. j \in 1..(k - 1)
          BY <4>2, <2>1
        <5>2. PICK i \in 1..Len(a) : e[i] = j
          BY <5>1, <2>2, <2>3
        <5> QED BY <5>2, <3>5
      <4> QED BY <4>1, <4>2
    <3>9. To(f, k)
      BY <3>2, <3>4, <3>6, <3>7, <3>8
    <3> HIDE DEF To
    <3> QED BY <3>9
  <2>6. CASE s[k] \notin S
    <3>1. c[k] = a
      BY <1>1, <2>3, <2>6
    <3>2. e \in [1..Len(a) -> 1..k]
      BY <2>2, <2>3, <2>1
    <3>3. \A j \in 1..k : s[j] \in S => j \in 1..(k - 1)
      BY <2>6, <2>1
    <3>4. To(e, k)
      BY <3>1, <3>2, <3>3, <2>2, <2>3
    <3> HIDE DEF To
    <3> QED BY <3>4
  <2> QED BY <2>5, <2>6
<1>5. Wrong = {}
  <2>1. Wrong \subseteq 0..Len(s)
    OBVIOUS
  <2> HIDE DEF Wrong
  <2> QED BY <1>2, <1>3, <1>4, <2>1, NeverWrong
<1>6. PICK e : To(e, Len(s))
  <2>1. Len(s) \in 0..Len(s)
    BY <1>2
  <2> HIDE DEF To
  <2> QED BY <1>5, <2>1
<1>7. Selected(s, S) \in Seq(X) /\ Selected(s, S) = c[Len(s)]
  BY <1>1, <1>2
<1>8. PlacesOf(e, s, S, Selected(s, S))
  BY <1>6, <1>7 DEF PlacesOf
<1> QED BY <1>7, <1>8

-----------------------------------------------------------------------------
(* The buffer of a conversation (ConversationFeed).                        *)

\* A list of rows, no two of one id.
Listed(list) ==
    /\ list \in Seq(ShownRow)
    /\ \A i, j \in 1..Len(list) : list[i].id = list[j].id => i = j

LEMMA ListedRange ==
    ASSUME NEW list, Listed(list)
    PROVE  /\ Len(list) \in Nat /\ Range(list) = {list[i] : i \in 1..Len(list)}
           /\ Range(list) \subseteq ShownRow
           /\ \A a, b \in Range(list) : a.id = b.id => a = b
<1>1. Len(list) \in Nat /\ DOMAIN list = 1..Len(list) /\ \A i \in 1..Len(list) : list[i] \in ShownRow
  BY DEF Listed
<1>2. Range(list) = {list[i] : i \in 1..Len(list)}
  BY <1>1 DEF Range
<1> QED BY <1>1, <1>2 DEF Listed

LEMMA SelectedRows ==
    ASSUME NEW list, Listed(list), NEW S
    PROVE  /\ Listed(Selected(list, S))
           /\ \A a : a \in Range(Selected(list, S)) <=> a \in Range(list) /\ a \in S
<1>1. PICK X : X = ShownRow
  OBVIOUS
<1>2. list \in Seq(X)
  BY <1>1 DEF Listed
<1>3. PICK t : t = Selected(list, S)
  OBVIOUS
<1>4. t \in Seq(X)
  BY <1>2, <1>3, SelectedPlaces
<1>5. PICK e : PlacesOf(e, list, S, t)
  BY <1>2, <1>3, SelectedPlaces
<1>6. /\ e \in [1..Len(t) -> 1..Len(list)]
      /\ \A i \in 1..Len(t) : t[i] = list[e[i]] /\ t[i] \in S
      /\ \A i, j \in 1..Len(t) : i < j => e[i] < e[j]
      /\ \A j \in 1..Len(list) : list[j] \in S => \E i \in 1..Len(t) : e[i] = j
  BY <1>5 DEF PlacesOf
<1>7. Len(t) \in Nat /\ Len(list) \in Nat
  BY <1>2, <1>4
<1>8. \A i, j \in 1..Len(t) : t[i].id = t[j].id => i = j
  <2> SUFFICES ASSUME NEW i \in 1..Len(t), NEW j \in 1..Len(t), t[i].id = t[j].id PROVE i = j
    OBVIOUS
  <2>1. e[i] = e[j] /\ e[i] \in 1..Len(list) /\ e[j] \in 1..Len(list)
    <3>1. e[i] \in 1..Len(list) /\ e[j] \in 1..Len(list)
      BY <1>6
    <3>2. list[e[i]].id = list[e[j]].id
      BY <1>6
    <3>3. \A a, b \in 1..Len(list) : list[a].id = list[b].id => a = b
      BY DEF Listed
    <3> QED BY <3>1, <3>2, <3>3
  <2>2. ~(i < j) /\ ~(j < i)
    BY <2>1, <1>6, <1>7
  <2> QED BY <2>2, <1>7
<1>9. Listed(t)
  BY <1>1, <1>4, <1>8 DEF Listed
<1>10. \A a : a \in Range(t) <=> a \in Range(list) /\ a \in S
  <2>1. Range(t) = {t[i] : i \in 1..Len(t)} /\ Range(list) = {list[i] : i \in 1..Len(list)}
    BY <1>9, ListedRange
  <2>2. ASSUME NEW a \in Range(t) PROVE a \in Range(list) /\ a \in S
    <3>1. PICK i \in 1..Len(t) : a = t[i]
      BY <2>1
    <3>2. e[i] \in 1..Len(list)
      BY <1>6
    <3> QED BY <3>1, <3>2, <1>6, <2>1
  <2>3. ASSUME NEW a \in Range(list), a \in S PROVE a \in Range(t)
    <3>1. PICK j \in 1..Len(list) : a = list[j]
      BY <2>1
    <3>2. PICK i \in 1..Len(t) : e[i] = j
      BY <3>1, <2>3, <1>6
    <3>3. t[i] = a
      BY <3>1, <3>2, <1>6
    <3> QED BY <3>3, <2>1
  <2> QED BY <2>2, <2>3
<1> QED BY <1>3, <1>9, <1>10

LEMMA PlacedRow ==
    ASSUME NEW list, Listed(list), NEW r \in ShownRow
    PROVE  /\ Listed(Placed(list, r))
           /\ \A a : a \in Range(Placed(list, r)) <=> a = r \/ (a \in Range(list) /\ a.id # r.id)
<1>1. /\ Len(list) \in Nat /\ Range(list) = {list[i] : i \in 1..Len(list)}
      /\ Range(list) \subseteq ShownRow
      /\ \A i \in 1..Len(list) : list[i] \in Range(list)
  BY ListedRange
<1>2. PICK t : t = Placed(list, r)
  OBVIOUS
<1>3. CASE r.id \in IdsOf(Range(list))
  <2>1. PICK k \in 1..Len(list) : list[k].id = r.id
    BY <1>1, <1>3 DEF IdsOf
  <2>2. t = [i \in 1..Len(list) |-> IF list[i].id = r.id THEN r ELSE list[i]]
    BY <1>2, <1>3 DEF Placed
  <2>3. \A i \in 1..Len(list) : t[i] = (IF i = k THEN r ELSE list[i]) /\ (i # k => list[i].id # r.id)
    BY <2>1, <2>2 DEF Listed
  <2>4. t \in Seq(ShownRow) /\ Len(t) = Len(list)
    <3>1. \A i \in 1..Len(list) : (IF list[i].id = r.id THEN r ELSE list[i]) \in ShownRow
      BY <1>1
    <3>2. t \in [1..Len(list) -> ShownRow]
      BY <2>2, <3>1
    <3> HIDE DEF ShownRow
    <3> QED BY <3>2, <1>1
  <2>5. Listed(t)
    BY <2>1, <2>3, <2>4 DEF Listed
  <2>6. Range(t) = {t[i] : i \in 1..Len(list)}
    BY <2>4, <2>5, ListedRange
  <2>7. ASSUME NEW a \in Range(t) PROVE a = r \/ (a \in Range(list) /\ a.id # r.id)
    BY <2>6, <2>3, <1>1
  <2>8. r \in Range(t)
    BY <2>6, <2>3, <2>1
  <2>9. ASSUME NEW a \in Range(list), a.id # r.id PROVE a \in Range(t)
    <3>1. PICK i \in 1..Len(list) : a = list[i]
      BY <1>1
    <3>2. t[i] = a
      BY <3>1, <2>1, <2>3, <2>9
    <3> QED BY <3>2, <2>6
  <2> QED BY <1>2, <2>5, <2>7, <2>8, <2>9
<1>4. CASE r.id \notin IdsOf(Range(list))
  <2>1. \A i \in 1..Len(list) : list[i].id # r.id
    BY <1>1, <1>4 DEF IdsOf
  <2>2. t = Append(list, r)
    BY <1>2, <1>4 DEF Placed
  <2>3. /\ t \in Seq(ShownRow) /\ Len(t) = Len(list) + 1 /\ t[Len(list) + 1] = r
        /\ \A i \in 1..Len(list) : t[i] = list[i]
    <3>1. PICK X : X = ShownRow
      OBVIOUS
    <3>2. list \in Seq(X) /\ r \in X
      BY <3>1 DEF Listed
    <3> QED BY <3>1, <3>2, <2>2, Appended
  <2>4. \A i \in 1..Len(t) : i \in 1..Len(list) \/ i = Len(list) + 1
    BY <2>3, <1>1
  <2>5. Len(list) + 1 \in 1..Len(t) /\ \A i \in 1..Len(list) : i \in 1..Len(t)
    BY <2>3, <1>1
  <2>6. Listed(t)
    BY <2>1, <2>3, <2>4 DEF Listed
  <2>7. Range(t) = {t[i] : i \in 1..Len(t)}
    BY <2>6, ListedRange
  <2>8. \A a : a \in Range(t) <=> a = r \/ a \in Range(list)
    <3>1. ASSUME NEW a \in Range(t) PROVE a = r \/ a \in Range(list)
      BY <2>3, <2>4, <2>7, <1>1
    <3>2. r \in Range(t)
      BY <2>3, <2>5, <2>7
    <3>3. ASSUME NEW a \in Range(list) PROVE a \in Range(t)
      BY <2>3, <2>5, <2>7, <1>1
    <3> QED BY <3>1, <3>2, <3>3
  <2>9. \A a \in Range(list) : a.id # r.id
    BY <2>1, <1>1
  <2> QED BY <1>2, <2>6, <2>8, <2>9
<1> QED BY <1>3, <1>4

\* c[k] is list with the first k of more placed in it.
Placing(c, list, more) ==
    /\ c[0] = list
    /\ \A k \in 1..Len(more) : c[k] = Placed(c[k - 1], more[k])

LEMMA PlacedSteps ==
    ASSUME NEW list, Listed(list), NEW more, Listed(more)
    PROVE  \E c : Placing(c, list, more) /\ PlacedAll(list, more) = c[Len(more)]
<1> DEFINE D == 1..Len(more)
           g == CHOOSE g : g = [t \in SUBSET DOMAIN more |->
                    IF t = {} THEN list ELSE Placed(g[t \ {Max(t)}], more[Max(t)])]
           c == [k \in 0..Len(more) |-> g[1..k]]
<1>0. PICK X : X = ShownRow
  OBVIOUS
<1>1. more \in Seq(X) /\ list \in Seq(X) /\ Len(more) \in Nat /\ DOMAIN more = D /\ \A i \in D : more[i] \in X
  BY <1>0 DEF Listed
<1>2. g = [t \in SUBSET D |-> IF t = {} THEN list ELSE Placed(g[t \ {Max(t)}], more[Max(t)])]
  <2>1. PICK Y : Y = Seq(X)
    OBVIOUS
  <2> DEFINE F == [p \in Y \X X |-> Placed(p[1], p[2])]
  <2>2. \A a \in Y, r \in X : Placed(a, r) \in Y
    <3> SUFFICES ASSUME NEW a \in Seq(X), NEW r \in X PROVE Placed(a, r) \in Seq(X)
      BY <2>1
    <3>1. Append(a, r) \in Seq(X)
      BY Appended
    <3>2. [i \in 1..Len(a) |-> IF a[i].id = r.id THEN r ELSE a[i]] \in Seq(X)
      <4>1. Len(a) \in Nat /\ \A i \in 1..Len(a) : a[i] \in X
        OBVIOUS
      <4>2. [i \in 1..Len(a) |-> IF a[i].id = r.id THEN r ELSE a[i]] \in [1..Len(a) -> X]
        BY <4>1
      <4> QED BY <4>1, <4>2
    <3> QED BY <3>1, <3>2 DEF Placed
  <2>3. F \in [Y \X X -> Y] /\ list \in Y
    BY <1>1, <2>1, <2>2
  <2>4. \A a \in Y, r \in X : F[<<a, r>>] = Placed(a, r)
    OBVIOUS
  <2> HIDE DEF F
  <2>5. PICK h : FoldsWith(h, Y, F, list, more)
    BY <1>1, <2>3, FoldOver
  <2>6. \A t \in SUBSET D : t # {} => Max(t) \in D /\ t \ {Max(t)} \in SUBSET D
    BY <1>1, MaxIsMember
  <2>7. /\ h \in [SUBSET D -> Y]
        /\ \A t \in SUBSET D : h[t] = IF t = {} THEN list ELSE Placed(h[t \ {Max(t)}], more[Max(t)])
    BY <2>4, <2>5, <2>6, <1>1 DEF FoldsWith
  <2>8. h = [t \in SUBSET D |-> IF t = {} THEN list ELSE Placed(h[t \ {Max(t)}], more[Max(t)])]
    <3> DEFINE k == [t \in SUBSET D |-> IF t = {} THEN list ELSE Placed(h[t \ {Max(t)}], more[Max(t)])]
    <3>1. \A t \in SUBSET D : h[t] = k[t]
      BY <2>7
    <3>2. k = [t \in SUBSET D |-> k[t]] /\ h = [t \in SUBSET D |-> h[t]]
      BY <2>7
    <3> HIDE DEF k
    <3>3. h = k
      BY <3>1, <3>2
    <3> QED BY <3>3 DEF k
  <2> HIDE DEF D
  <2> QED BY <2>8, <1>1
<1>3. PlacedAll(list, more) = g[DOMAIN more]
  BY DEF PlacedAll, FoldLeft, MapThenFoldSet
<1> HIDE DEF g
<1>4. c[0] = list
  <2>1. 1..0 = {}
    OBVIOUS
  <2> QED BY <1>1, <1>2, <2>1
<1>5. \A k \in 1..Len(more) : c[k] = Placed(c[k - 1], more[k])
  <2> SUFFICES ASSUME NEW k \in 1..Len(more) PROVE c[k] = Placed(c[k - 1], more[k])
    OBVIOUS
  <2>1. k \in Nat /\ k # 0 /\ 1..k \in SUBSET D /\ 1..k # {} /\ k - 1 \in 0..Len(more) /\ k \in 0..Len(more)
    <3>1. k \in Nat /\ k # 0 /\ k <= Len(more) /\ k - 1 \in 0..Len(more) /\ k \in 0..Len(more)
      BY <1>1
    <3>2. 1 \in 1..k /\ \A i \in 1..k : i \in D
      BY <3>1, <1>1
    <3> QED BY <3>1, <3>2
  <2>2. Max(1..k) = k /\ (1..k) \ {k} = 1..(k - 1)
    BY <2>1, LastOfPrefix
  <2>3. g[1..k] = Placed(g[1..(k - 1)], more[k])
    <3> DEFINE t == 1..k
    <3>1. t \in SUBSET D /\ t # {} /\ Max(t) = k /\ t \ {k} = 1..(k - 1)
      BY <2>1, <2>2
    <3> HIDE DEF t, D
    <3>2. g[t] = Placed(g[t \ {Max(t)}], more[Max(t)])
      BY <3>1, <1>2
    <3> QED BY <3>1, <3>2 DEF t
  <2> QED BY <2>1, <2>3
<1>6. PlacedAll(list, more) = c[Len(more)]
  BY <1>1, <1>3
<1> HIDE DEF c
<1>7. Placing(c, list, more)
  BY <1>4, <1>5 DEF Placing
<1> QED BY <1>6, <1>7

\* Rows placed in a list stand in for those of their ids.
LEMMA RowsPlaced ==
    ASSUME NEW list, Listed(list), NEW more, Listed(more)
    PROVE  /\ Listed(PlacedAll(list, more))
           /\ \A a : a \in Range(PlacedAll(list, more)) <=>
                 a \in Range(more) \/ (a \in Range(list) /\ \A n \in Range(more) : n.id # a.id)
<1>1. PICK c : Placing(c, list, more) /\ PlacedAll(list, more) = c[Len(more)]
  BY PlacedSteps
<1> DEFINE Upto(k) ==
               /\ Listed(c[k])
               /\ \A a : a \in Range(c[k]) <=>
                     \/ \E i \in 1..k : a = more[i]
                     \/ a \in Range(list) /\ \A i \in 1..k : more[i].id # a.id
           Wrong == {k \in 0..Len(more) : ~Upto(k)}
<1>2. /\ Len(more) \in Nat /\ Range(more) = {more[i] : i \in 1..Len(more)}
      /\ \A i \in 1..Len(more) : more[i] \in ShownRow
  BY ListedRange
<1>3. 0 \notin Wrong
  <2>1. 1..0 = {} /\ c[0] = list
    BY <1>1 DEF Placing
  <2> QED BY <2>1
<1>4. ASSUME NEW k \in 1..Len(more), k - 1 \notin Wrong
      PROVE  k \notin Wrong
  <2>1. k - 1 \in 0..Len(more) /\ k \in 0..Len(more) /\ k \in Nat /\ k - 1 \in Nat
        /\ 1..k = 1..(k - 1) \cup {k} /\ 1..k \subseteq 1..Len(more)
    BY <1>2
  <2>2. Upto(k - 1)
    <3> HIDE DEF Upto
    <3> QED BY <1>4, <2>1
  <2>3. PICK b : b = c[k - 1]
    OBVIOUS
  <2>4. c[k] = Placed(b, more[k]) /\ Listed(b) /\ more[k] \in ShownRow
    BY <1>1, <1>2, <2>2, <2>3 DEF Placing
  <2>5. /\ Listed(c[k])
        /\ \A a : a \in Range(c[k]) <=> a = more[k] \/ (a \in Range(b) /\ a.id # more[k].id)
    BY <2>4, PlacedRow
  <2>6. \A i \in 1..(k - 1) : more[i].id # more[k].id
    BY <2>1, <1>2 DEF Listed
  <2>7. \A a : a \in Range(b) <=>
                     \/ \E i \in 1..(k - 1) : a = more[i]
                     \/ a \in Range(list) /\ \A i \in 1..(k - 1) : more[i].id # a.id
    BY <2>2, <2>3
  <2>8. Upto(k)
    BY <2>1, <2>5, <2>6, <2>7
  <2> HIDE DEF Upto
  <2> QED BY <2>8
<1>5. Wrong = {}
  <2>1. Wrong \subseteq 0..Len(more)
    OBVIOUS
  <2> HIDE DEF Wrong
  <2> QED BY <1>2, <1>3, <1>4, <2>1, NeverWrong
<1>6. Upto(Len(more))
  <2>1. Len(more) \in 0..Len(more)
    BY <1>2
  <2> HIDE DEF Upto
  <2> QED BY <1>5, <2>1
<1> QED BY <1>1, <1>2, <1>6

\* i stands no later than j when the list is sorted.
NoLater(list, i, j) ==
    ComesBefore(list[i], list[j]) \/ (~ComesBefore(list[j], list[i]) /\ i <= j)

Ahead(list, j) == {i \in 1..Len(list) : NoLater(list, i, j)}

\* The display order ranks rows.
LEMMA DisplayOrder ==
    ASSUME NEW a \in ShownRow, NEW b \in ShownRow, NEW c \in ShownRow
    PROVE  /\ ComesBefore(a, b) => ~ComesBefore(b, a)
           /\ ~ComesBefore(a, b) /\ ~ComesBefore(b, c) => ~ComesBefore(a, c)
<1> DEFINE Key(r, p, q) == p = (IF r.sent THEN 0 ELSE 1) /\ q = (IF r.sent THEN r.msg ELSE r.seq)
<1>1. ASSUME NEW r \in ShownRow, NEW s \in ShownRow
      PROVE  ComesBefore(r, s) <=> \/ r.sent /\ ~s.sent
                                   \/ r.sent /\ s.sent /\ r.msg < s.msg
                                   \/ ~r.sent /\ ~s.sent /\ r.seq < s.seq
  <2>1. r.sent \in BOOLEAN /\ s.sent \in BOOLEAN
    BY DEF ShownRow
  <2>2. CASE r.sent /\ s.sent
    BY <2>2 DEF ComesBefore, OrderKey
  <2>3. CASE r.sent /\ ~s.sent
    BY <2>3 DEF ComesBefore, OrderKey
  <2>4. CASE ~r.sent /\ s.sent
    BY <2>4 DEF ComesBefore, OrderKey
  <2>5. CASE ~r.sent /\ ~s.sent
    BY <2>5 DEF ComesBefore, OrderKey
  <2> QED BY <2>1, <2>2, <2>3, <2>4, <2>5
<1>2. \A r \in {a, b, c} : r.msg \in Nat /\ r.seq \in Nat /\ r.sent \in BOOLEAN
  BY ConversationAssumption DEF ShownRow
<1> QED BY <1>1, <1>2

LEMMA NoLaterOrder ==
    ASSUME NEW list, Listed(list), NEW i \in 1..Len(list), NEW j \in 1..Len(list),
           NEW k \in 1..Len(list)
    PROVE  /\ NoLater(list, i, i)
           /\ NoLater(list, i, j) \/ NoLater(list, j, i)
           /\ NoLater(list, i, j) /\ NoLater(list, j, i) => i = j
           /\ NoLater(list, i, j) /\ NoLater(list, j, k) => NoLater(list, i, k)
<1>1. /\ list[i] \in ShownRow /\ list[j] \in ShownRow /\ list[k] \in ShownRow
      /\ i \in Nat /\ j \in Nat /\ k \in Nat
  BY ListedRange
<1> DEFINE CB(x, y) == ComesBefore(list[x], list[y])
<1>2. \A x, y, z \in {i, j, k} : /\ CB(x, y) => ~CB(y, x)
                                 /\ ~CB(x, y) /\ ~CB(y, z) => ~CB(x, z)
  BY <1>1, DisplayOrder
<1>3. \A x, y \in {i, j, k} : NoLater(list, x, y) <=> CB(x, y) \/ (~CB(y, x) /\ x <= y)
  BY DEF NoLater
<1> HIDE DEF CB
<1> QED BY <1>1, <1>2, <1>3

\* A place is ahead of as many as its rank, and each rank is somebody's.
LEMMA Ranked ==
    ASSUME NEW list, Listed(list), NEW k \in 1..Len(list)
    PROVE  \E i \in 1..Len(list) : Cardinality(Ahead(list, i)) = k
<1> DEFINE n == Len(list)
           rank == [i \in 1..n |-> Cardinality(Ahead(list, i))]
<1>1. n \in Nat
  BY ListedRange
<1>2. IsFiniteSet(1..n) /\ Cardinality(1..n) = n
  <2>1. 1 \in Int /\ n \in Int
    BY <1>1
  <2>2. IsFiniteSet(1..n) /\ Cardinality(1..n) = IF 1 > n THEN 0 ELSE n - 1 + 1
    BY <2>1, FS_Interval
  <2> QED BY <2>2, <1>1
<1>3. ASSUME NEW i \in 1..n
      PROVE  /\ Ahead(list, i) \in SUBSET (1..n) /\ i \in Ahead(list, i)
             /\ IsFiniteSet(Ahead(list, i)) /\ Cardinality(Ahead(list, i)) \in 1..n
  <2>1. Ahead(list, i) \in SUBSET (1..n) /\ i \in Ahead(list, i)
    BY NoLaterOrder DEF Ahead
  <2>2. IsFiniteSet(Ahead(list, i)) /\ Cardinality(Ahead(list, i)) <= n
    BY <1>2, <2>1, FS_Subset
  <2>3. Cardinality(Ahead(list, i)) \in Nat /\ Cardinality(Ahead(list, i)) # 0
    BY <2>1, <2>2, FS_CardinalityType, FS_EmptySet
  <2> QED BY <2>1, <2>2, <2>3, <1>1
<1>4. ASSUME NEW i \in 1..n, NEW j \in 1..n, i # j, NoLater(list, i, j)
      PROVE  rank[i] # rank[j]
  <2>1. Ahead(list, i) \in SUBSET Ahead(list, j)
    BY <1>4, NoLaterOrder DEF Ahead
  <2>2. j \notin Ahead(list, i)
    BY <1>4, NoLaterOrder DEF Ahead
  <2>3. Ahead(list, i) # Ahead(list, j)
    BY <2>2, <1>3
  <2> QED BY <2>1, <2>3, <1>3, FS_Subset
<1>5. \A i, j \in 1..n : rank[i] = rank[j] => i = j
  BY <1>4, NoLaterOrder
<1>6. rank \in [1..n -> 1..n]
  BY <1>3
<1>7. PICK D : D = 1..n
  OBVIOUS
<1>8. rank \in Injection(D, D)
  <2> HIDE DEF rank
  <2> QED BY <1>5, <1>6, <1>7 DEF Injection, IsInjective
<1>9. rank \in Surjection(D, D)
  <2> HIDE DEF rank
  <2> QED BY <1>2, <1>7, <1>8, FS_Injection
<1>10. \E i \in 1..n : rank[i] = k
  <2> HIDE DEF rank
  <2> QED BY <1>7, <1>9 DEF Surjection
<1> QED BY <1>10

\* Sorting moves rows, and does no more.
LEMMA SortedRows ==
    ASSUME NEW list, Listed(list)
    PROVE  Listed(Sorted(list)) /\ Range(Sorted(list)) = Range(list) /\ Len(Sorted(list)) = Len(list)
<1> DEFINE n == Len(list)
           At(k) == CHOOSE i \in 1..n : Cardinality(Ahead(list, i)) = k
<1>1. n \in Nat /\ \A i \in 1..n : list[i] \in ShownRow
  BY ListedRange
<1>2. \A k \in 1..n : At(k) \in 1..n /\ Cardinality(Ahead(list, At(k))) = k
  BY Ranked
<1>3. Sorted(list) = [k \in 1..n |-> list[At(k)]]
  BY DEF Sorted, Ahead, NoLater
<1>4. PICK t : t = Sorted(list)
  OBVIOUS
<1>5. \A i \in 1..n : \E k \in 1..n : At(k) = i
  <2> DEFINE at == [k \in 1..n |-> At(k)]
  <2>1. PICK D : D = 1..n
    OBVIOUS
  <2>2. IsFiniteSet(D)
    <3>1. 1 \in Int /\ n \in Int
      BY <1>1
    <3> QED BY <2>1, <3>1, FS_Interval
  <2> HIDE DEF At
  <2>3. at \in [D -> D] /\ \A j, k \in D : at[j] = at[k] => j = k
    BY <1>2, <2>1
  <2>4. \A k \in D : at[k] = At(k)
    BY <2>1
  <2> HIDE DEF at
  <2>5. at \in Injection(D, D)
    BY <2>3 DEF Injection, IsInjective
  <2>6. at \in Surjection(D, D)
    BY <2>2, <2>5, FS_Injection
  <2> QED BY <2>1, <2>4, <2>6 DEF Surjection
<1> HIDE DEF At
<1>6. t \in Seq(ShownRow) /\ Len(t) = n /\ \A k \in 1..n : t[k] = list[At(k)]
  <2>1. t \in [1..n -> ShownRow]
    BY <1>1, <1>2, <1>3, <1>4
  <2>2. \A k \in 1..n : t[k] = list[At(k)]
    BY <1>3, <1>4
  <2> HIDE DEF ShownRow
  <2> QED BY <1>1, <2>1, <2>2
<1>7. \A j, k \in 1..n : t[j].id = t[k].id => j = k
  <2> SUFFICES ASSUME NEW j \in 1..n, NEW k \in 1..n, t[j].id = t[k].id PROVE j = k
    OBVIOUS
  <2>1. At(j) = At(k)
    BY <1>2, <1>6 DEF Listed
  <2> QED BY <2>1, <1>2
<1>8. Listed(t)
  BY <1>6, <1>7 DEF Listed
<1>9. Range(t) = Range(list)
  <2>1. Range(t) = {t[k] : k \in 1..n} /\ Range(list) = {list[i] : i \in 1..n}
    BY <1>6, <1>8, ListedRange
  <2>2. ASSUME NEW k \in 1..n PROVE t[k] \in Range(list)
    BY <2>1, <1>2, <1>6
  <2>3. ASSUME NEW i \in 1..n PROVE list[i] \in Range(t)
    <3>1. PICK k \in 1..n : At(k) = i
      BY <1>5
    <3>2. t[k] = list[i]
      BY <3>1, <1>6
    <3> QED BY <2>1, <3>2
  <2> QED BY <2>1, <2>2, <2>3
<1> QED BY <1>4, <1>6, <1>8, <1>9

\* A table of rows, written as a list.
LEMMA RowsAsList ==
    ASSUME NEW S, S \subseteq ShownRow, \A a, b \in S : a.id = b.id => a = b
    PROVE  Listed(SetToSeq(S)) /\ Range(SetToSeq(S)) = S
<1>1. IsFiniteSet(S)
  <2> DEFINE f == [a \in S |-> a.id]
  <2>1. PICK D : D = 1..MaxRowIds
    OBVIOUS
  <2>2. IsFiniteSet(D)
    <3>1. 1 \in Int /\ MaxRowIds \in Int
      BY ConversationAssumption
    <3> QED BY <2>1, <3>1, FS_Interval
  <2>3. f \in Injection(S, D)
    <3>1. \A a \in S : a.id \in D
      BY <2>1 DEF ShownRow
    <3> QED BY <3>1 DEF Injection, IsInjective
  <2> HIDE DEF f
  <2> QED BY <2>2, <2>3, FS_Injection
<1>2. PICK n : n = Cardinality(S) /\ n \in Nat /\ ExistsBijection(1..n, S)
  BY <1>1, FS_CardinalityType
<1>3. PICK g : g \in Bijection(1..n, S)
  BY <1>2 DEF ExistsBijection
<1>4. g \in [1..n -> S] /\ IsInjective(g)
  BY <1>3 DEF Bijection, Injection
<1>5. PICK t : t = SetToSeq(S)
  OBVIOUS
<1>6. t \in [1..n -> S] /\ IsInjective(t)
  BY <1>2, <1>4, <1>5 DEF SetToSeq
<1>7. t \in Surjection(1..n, S)
  <2>1. PICK D : D = 1..n
    OBVIOUS
  <2>2. t \in Injection(D, S)
    BY <1>6, <2>1 DEF Injection
  <2>3. IsFiniteSet(D) /\ Cardinality(D) = n
    <3>1. 1 \in Int /\ n \in Int
      BY <1>2
    <3>2. IsFiniteSet(D) /\ Cardinality(D) = IF 1 > n THEN 0 ELSE n - 1 + 1
      BY <2>1, <3>1, FS_Interval
    <3> QED BY <3>2, <1>2
  <2>4. t \in Surjection(D, S)
    BY <1>1, <1>2, <2>2, <2>3, FS_Injection
  <2> QED BY <2>1, <2>4
<1>8. t \in Seq(ShownRow) /\ Len(t) = n
  <2>1. t \in [1..n -> ShownRow]
    BY <1>6
  <2> HIDE DEF ShownRow
  <2> QED BY <1>2, <2>1
<1>9. Listed(t)
  BY <1>6, <1>8 DEF Listed, IsInjective
<1>10. Range(t) = S
  <2>1. Range(t) = {t[i] : i \in 1..n}
    BY <1>8, <1>9, ListedRange
  <2> QED BY <2>1, <1>6, <1>7 DEF Surjection
<1> QED BY <1>5, <1>9, <1>10

\* No two rows of one message; an id stands for one message.
Distinct(rows)  == \A a, b \in rows : a.msg = b.msg => a = b
OneMessage(rows) == \A a, b \in rows : a.id = b.id => a.msg = b.msg

\* Who applied every patch sees the rows.
Watches(seenRows, rows) ==
    /\ \A r \in rows : \E v \in seenRows : Alike(v, r)
    /\ \A v \in seenRows : \E r \in rows : Alike(v, r)

\* The buffer, and what its observer makes of the patches.
BufferSound ==
    /\ Listed(screen) /\ Distinct(Range(screen))
    /\ view \subseteq ShownRow /\ unsaid \subseteq {"absorbed", "refilled", "cleared"}
    /\ unsaid = {} => Watches(view, Range(screen))

LEMMA AlikeRows ==
    ASSUME NEW a \in ShownRow, NEW b \in ShownRow
    PROVE  /\ Alike(a, a)
           /\ Alike(a, b) => Alike(b, a) /\ a.id = b.id /\ a.msg = b.msg
           /\ \A c : Alike(a, b) /\ Alike(b, c) => Alike(a, c)
<1>1. \A r \in ShownRow : [r EXCEPT !.seq = 0].id = r.id /\ [r EXCEPT !.seq = 0].msg = r.msg
  BY DEF ShownRow
<1> QED BY <1>1 DEF Alike

LEMMA AppendedRow ==
    ASSUME NEW list, Listed(list), NEW r \in ShownRow, \A a \in Range(list) : a.id # r.id
    PROVE  /\ Listed(Append(list, r))
           /\ \A a : a \in Range(Append(list, r)) <=> a = r \/ a \in Range(list)
<1>1. r.id \notin IdsOf(Range(list))
  BY DEF IdsOf
<1>2. Placed(list, r) = Append(list, r)
  BY <1>1 DEF Placed
<1> QED BY <1>2, PlacedRow

\* Rows that do not stand for a message of the incoming, but for their ids.
LEMMA SparedRows ==
    ASSUME NEW list, Listed(list), NEW rows
    PROVE  /\ Listed(WithoutDuplicates(list, rows))
           /\ \A a : a \in Range(WithoutDuplicates(list, rows)) <=>
                 /\ a \in Range(list)
                 /\ \/ \E s \in Range(rows) : s.id = a.id
                    \/ \A s \in Range(rows) : s.msg # a.msg
<1>1. PICK S : S = {r \in Range(list) : \/ r.id \in IdsOf(Range(rows))
                                         \/ \A s \in Range(rows) : s.msg # r.msg}
  OBVIOUS
<1>2. WithoutDuplicates(list, rows) = Selected(list, S)
  BY <1>1 DEF WithoutDuplicates
<1>3. /\ Listed(Selected(list, S))
      /\ \A a : a \in Range(Selected(list, S)) <=> a \in Range(list) /\ a \in S
  BY SelectedRows
<1>4. \A a \in Range(list) : a.id \in IdsOf(Range(rows)) <=> \E s \in Range(rows) : s.id = a.id
  BY DEF IdsOf
<1> QED BY <1>1, <1>2, <1>3, <1>4

\* What incoming rows make of a list.
LEMMA MergedRows ==
    ASSUME NEW list, Listed(list), Distinct(Range(list)), NEW rows, Listed(rows),
           Distinct(Range(rows)), OneMessage(Range(list) \cup Range(rows)),
           NEW after, after = Sorted(PlacedAll(WithoutDuplicates(list, rows), rows))
    PROVE  /\ Listed(after) /\ Distinct(Range(after))
           /\ \A a : a \in Range(after) <=>
                 \/ a \in Range(rows)
                 \/ a \in Range(list) /\ \A s \in Range(rows) : s.id # a.id /\ s.msg # a.msg
<1>1. PICK kept : kept = WithoutDuplicates(list, rows)
  OBVIOUS
<1>2. /\ Listed(kept)
      /\ \A a : a \in Range(kept) <=>
                 /\ a \in Range(list)
                 /\ \/ \E s \in Range(rows) : s.id = a.id
                    \/ \A s \in Range(rows) : s.msg # a.msg
  BY <1>1, SparedRows
<1>3. PICK all : all = PlacedAll(kept, rows)
  OBVIOUS
<1>4. /\ Listed(all)
      /\ \A a : a \in Range(all) <=>
            a \in Range(rows) \/ (a \in Range(kept) /\ \A n \in Range(rows) : n.id # a.id)
  BY <1>2, <1>3, RowsPlaced
<1>5. Listed(after) /\ Range(after) = Range(all)
  BY <1>1, <1>3, <1>4, SortedRows
<1>6. \A a : a \in Range(after) <=>
                 \/ a \in Range(rows)
                 \/ a \in Range(list) /\ \A s \in Range(rows) : s.id # a.id /\ s.msg # a.msg
  BY <1>2, <1>4, <1>5
<1>7. Distinct(Range(after))
  BY <1>6 DEF Distinct
<1> QED BY <1>5, <1>6, <1>7

\* What a patch makes of what its observer has.
LEMMA Notified ==
    ASSUME view \subseteq ShownRow, NEW upserted, upserted \subseteq ShownRow, NEW removed,
           Notify(upserted, removed)
    PROVE  /\ view' \subseteq ShownRow
           /\ \A v : v \in view' <=> \/ v \in upserted
                                     \/ /\ v \in view /\ v.id \notin removed
                                        /\ \A u \in upserted : u.id # v.id
<1>1. \A v \in view : v.id \in removed \cup IdsOf(upserted)
                        <=> v.id \in removed \/ \E u \in upserted : u.id = v.id
  BY DEF IdsOf
<1> QED BY <1>1 DEF Notify

\* upsertMessages.
LEMMA UpsertSound ==
    ASSUME BufferSound, NEW rows, Listed(rows), Distinct(Range(rows)),
           OneMessage(Range(screen) \cup Range(rows)), Upsert(rows)
    PROVE  BufferSound' /\ \A a \in Range(screen') : a \in Range(screen) \/ a \in Range(rows)
<1>1. PICK kept : kept = WithoutDuplicates(screen, rows)
  OBVIOUS
<1>2. PICK changed : changed = {r \in Range(rows) : \A s \in Range(kept) : s.id = r.id => ~Alike(s, r)}
  OBVIOUS
<1>3. /\ Listed(kept)
      /\ \A a : a \in Range(kept) <=>
                 /\ a \in Range(screen)
                 /\ \/ \E s \in Range(rows) : s.id = a.id
                    \/ \A s \in Range(rows) : s.msg # a.msg
  BY <1>1, SparedRows DEF BufferSound
<1>4. CASE changed = {}
  <2>1. UNCHANGED <<screen, view, unsaid>>
    BY <1>1, <1>2, <1>4 DEF Upsert
  <2> QED BY <2>1 DEF BufferSound, Listed, Distinct, Watches
<1>5. CASE changed # {}
  <2>1. /\ screen' = Sorted(PlacedAll(kept, rows)) /\ Notify(changed, {})
        /\ unsaid' = unsaid \cup Untold("absorbed", Range(screen) \ Range(kept))
    BY <1>1, <1>2, <1>5 DEF Upsert
  <2>2. /\ Listed(screen') /\ Distinct(Range(screen'))
        /\ \A a : a \in Range(screen') <=>
              \/ a \in Range(rows)
              \/ a \in Range(screen) /\ \A s \in Range(rows) : s.id # a.id /\ s.msg # a.msg
    BY <1>1, <2>1, MergedRows DEF BufferSound
  <2>3. Range(rows) \subseteq ShownRow /\ Range(screen) \subseteq ShownRow
    BY ListedRange DEF BufferSound
  <2>4. /\ view' \subseteq ShownRow
        /\ \A v : v \in view' <=> v \in changed \/ (v \in view /\ \A u \in changed : u.id # v.id)
    BY <1>2, <2>1, <2>3, Notified DEF BufferSound
  <2>5. unsaid' \subseteq {"absorbed", "refilled", "cleared"}
    BY <2>1 DEF Untold, BufferSound
  <2>6. ASSUME unsaid' = {} PROVE Watches(view', Range(screen'))
    <3>1. unsaid = {} /\ \A a \in Range(screen) : a \in Range(kept)
      BY <2>1, <2>6 DEF Untold
    <3>2. Watches(view, Range(screen))
      BY <3>1 DEF BufferSound
    <3>3. \A a \in Range(screen), s \in Range(rows) : s.msg = a.msg => \E q \in Range(rows) : q.id = a.id
      BY <1>3, <3>1
    <3>4. ASSUME NEW r \in Range(rows), r \notin changed
          PROVE  \E s \in Range(screen) : s.id = r.id /\ Alike(s, r)
      BY <3>4, <1>2, <1>3
    <3>5. ASSUME NEW r \in Range(screen') PROVE \E v \in view' : Alike(v, r)
      <4>1. CASE r \in changed
        BY <4>1, <2>4, <2>3, <1>2, AlikeRows
      <4>2. CASE r \in Range(rows) /\ r \notin changed
        <5>1. PICK s \in Range(screen) : s.id = r.id /\ Alike(s, r)
          BY <4>2, <3>4
        <5>2. PICK v \in view : Alike(v, s)
          BY <3>2 DEF Watches
        <5>3. v \in ShownRow /\ s \in ShownRow /\ r \in ShownRow
          BY <2>3, <4>2 DEF BufferSound
        <5>4. Alike(v, r) /\ v.id = r.id
          BY <5>1, <5>2, <5>3, AlikeRows
        <5>5. \A u \in changed : u.id # v.id
          <6> SUFFICES ASSUME NEW u \in changed, u.id = v.id PROVE FALSE
            OBVIOUS
          <6>1. u \in Range(rows) /\ r \in Range(rows) /\ u.id = r.id
            BY <1>2, <4>2, <5>4
          <6>2. u = r
            BY <6>1, ListedRange
          <6> QED BY <6>2, <4>2
        <5> QED BY <5>4, <5>5, <2>4
      <4>3. CASE r \in Range(screen) /\ \A s \in Range(rows) : s.id # r.id /\ s.msg # r.msg
        <5>1. PICK v \in view : Alike(v, r)
          BY <3>2, <4>3 DEF Watches
        <5>2. v.id = r.id
          BY <5>1, <4>3, <2>3, AlikeRows DEF BufferSound
        <5> QED BY <5>1, <5>2, <4>3, <2>4, <1>2
      <4> QED BY <4>1, <4>2, <4>3, <2>2
    <3>6. ASSUME NEW v \in view' PROVE \E r \in Range(screen') : Alike(v, r)
      <4>1. CASE v \in changed
        BY <4>1, <1>2, <2>2, <2>3, AlikeRows
      <4>2. CASE v \in view /\ \A u \in changed : u.id # v.id
        <5>1. PICK s \in Range(screen) : Alike(v, s)
          BY <3>2, <4>2 DEF Watches
        <5>2. v.id = s.id /\ v \in ShownRow /\ s \in ShownRow
          BY <5>1, <4>2, <2>3, AlikeRows DEF BufferSound
        <5>3. CASE s \in Range(screen')
          BY <5>1, <5>3
        <5>4. CASE s \notin Range(screen')
          <6>1. PICK q \in Range(rows) : q.id = s.id
            BY <5>4, <2>2, <3>3
          <6>2. q \notin changed
            BY <6>1, <5>2, <4>2
          <6>3. PICK a \in Range(screen) : a.id = q.id /\ Alike(a, q)
            BY <6>1, <6>2, <3>4
          <6>4. a = s
            BY <6>1, <6>3, ListedRange DEF BufferSound
          <6>5. Alike(v, q)
            BY <5>1, <5>2, <6>3, <6>4, AlikeRows
          <6> QED BY <6>5, <2>2
        <5> QED BY <5>3, <5>4
      <4> QED BY <4>1, <4>2, <2>4
    <3> QED BY <3>5, <3>6 DEF Watches
  <2>7. BufferSound'
    <3> HIDE DEF Watches
    <3> QED BY <2>2, <2>4, <2>5, <2>6 DEF BufferSound, Distinct, Listed, Watches
  <2> QED BY <2>2, <2>7
<1> QED BY <1>4, <1>5

\* replaceWindow.
LEMMA RefillSound ==
    ASSUME BufferSound, NEW rows, Listed(rows), Distinct(Range(rows)),
           OneMessage(Range(screen) \cup Range(rows)), RefillWindow(rows)
    PROVE  BufferSound' /\ \A a \in Range(screen') : a \in Range(screen) \/ a \in Range(rows)
<1>1. PICK window : window = Sorted(rows)
  OBVIOUS
<1>2. Listed(window) /\ Range(window) = Range(rows)
  BY <1>1, SortedRows
<1>3. PICK S : S = {r \in Range(screen) : \/ ComesBefore(r, Head(window))
                                           \/ ComesBefore(Last(window), r)}
  OBVIOUS
<1>4. PICK outside : outside = Selected(screen, S)
  OBVIOUS
<1>5. Listed(outside) /\ \A a : a \in Range(outside) => a \in Range(screen)
  BY <1>4, SelectedRows DEF BufferSound
<1>6. Distinct(Range(outside)) /\ OneMessage(Range(outside) \cup Range(window))
  BY <1>2, <1>5 DEF BufferSound, Distinct, OneMessage
<1>7. PICK merged : merged = Sorted(PlacedAll(WithoutDuplicates(outside, window), window))
  OBVIOUS
<1>8. /\ Listed(merged) /\ Distinct(Range(merged))
      /\ \A a : a \in Range(merged) => a \in Range(rows) \/ a \in Range(screen)
  BY <1>2, <1>5, <1>6, <1>7, MergedRows
<1>9. PICK fresh : fresh = {r \in Range(merged) : r.id \notin IdsOf(Range(screen))}
  OBVIOUS
<1>10. PICK gone : gone = IdsOf(Range(screen)) \ IdsOf(Range(merged))
  OBVIOUS
<1>11. /\ screen' = merged /\ Notify(fresh, gone)
       /\ unsaid' = unsaid \cup Untold("refilled", {r \in Range(merged) :
                        \E s \in Range(screen) : s.id = r.id /\ ~Alike(s, r)})
  BY <1>1, <1>3, <1>4, <1>7, <1>9, <1>10 DEF RefillWindow
<1>12. Range(merged) \subseteq ShownRow /\ Range(screen) \subseteq ShownRow
  BY <1>8, ListedRange DEF BufferSound
<1>13. /\ view' \subseteq ShownRow
       /\ \A v : v \in view' <=> \/ v \in fresh
                                 \/ /\ v \in view /\ v.id \notin gone
                                    /\ \A u \in fresh : u.id # v.id
  BY <1>9, <1>11, <1>12, Notified DEF BufferSound
<1>14. unsaid' \subseteq {"absorbed", "refilled", "cleared"}
  BY <1>11 DEF Untold, BufferSound
<1>15. /\ \A r \in fresh : r \in Range(merged) /\ \A s \in Range(screen) : s.id # r.id
       /\ \A r \in Range(merged) : r \notin fresh => \E s \in Range(screen) : s.id = r.id
       /\ \A s \in Range(screen) : s.id \notin gone => \E r \in Range(merged) : r.id = s.id
       /\ \A r \in Range(merged) : r.id \notin gone
  BY <1>9, <1>10 DEF IdsOf
<1>16. ASSUME unsaid' = {} PROVE Watches(view', Range(merged))
  <2>1. unsaid = {} /\ \A r \in Range(merged), s \in Range(screen) : s.id = r.id => Alike(s, r)
    BY <1>11, <1>16 DEF Untold
  <2>2. Watches(view, Range(screen))
    BY <2>1 DEF BufferSound
  <2>3. ASSUME NEW r \in Range(merged) PROVE \E v \in view' : Alike(v, r)
    <3>1. CASE r \in fresh
      BY <3>1, <1>13, <1>12, AlikeRows
    <3>2. CASE r \notin fresh
      <4>1. PICK s \in Range(screen) : s.id = r.id
        BY <3>2, <1>15
      <4>2. PICK v \in view : Alike(v, s)
        BY <2>2 DEF Watches
      <4>3. Alike(v, r) /\ v.id = s.id
        BY <4>1, <4>2, <2>1, <1>12, AlikeRows DEF BufferSound
      <4>4. v.id \notin gone /\ \A u \in fresh : u.id # v.id
        BY <4>1, <4>3, <1>15
      <4> QED BY <4>3, <4>4, <1>13
    <3> QED BY <3>1, <3>2
  <2>4. ASSUME NEW v \in view' PROVE \E r \in Range(merged) : Alike(v, r)
    <3>1. CASE v \in fresh
      BY <3>1, <1>15, <1>12, AlikeRows
    <3>2. CASE v \in view /\ v.id \notin gone
      <4>1. PICK s \in Range(screen) : Alike(v, s)
        BY <2>2, <3>2 DEF Watches
      <4>2. v.id = s.id /\ v \in ShownRow /\ s \in ShownRow
        BY <4>1, <3>2, <1>12, AlikeRows DEF BufferSound
      <4>3. PICK r \in Range(merged) : r.id = s.id
        BY <4>2, <3>2, <1>15
      <4>4. Alike(s, r) /\ r \in ShownRow
        BY <4>3, <2>1, <1>12
      <4> QED BY <4>1, <4>2, <4>4, AlikeRows
    <3> QED BY <3>1, <3>2, <1>13
  <2> QED BY <2>3, <2>4 DEF Watches
<1>17. BufferSound'
  BY <1>8, <1>11, <1>13, <1>14, <1>16 DEF BufferSound, Distinct, Listed, Watches
<1> QED BY <1>8, <1>11, <1>17

\* replaceMessage, by a row of the same id.
LEMMA ReplaceSound ==
    ASSUME BufferSound, NEW next \in ShownRow,
           \A a \in Range(screen) : a.msg = next.msg => a.id = next.id,
           ReplaceMessage(next.id, next)
    PROVE  BufferSound' /\ \A a \in Range(screen') : a \in Range(screen) \/ a = next
<1>1. PICK S : S = {r \in Range(screen) : r.id \notin {next.id, next.id} /\ r.msg # next.msg}
  OBVIOUS
<1>2. PICK kept : kept = Selected(screen, S)
  OBVIOUS
<1>3. /\ Listed(kept)
      /\ \A a : a \in Range(kept) <=> a \in Range(screen) /\ a.id # next.id /\ a.msg # next.msg
  BY <1>1, <1>2, SelectedRows DEF BufferSound
<1>4. PICK all : all = Append(kept, next)
  OBVIOUS
<1>5. Listed(all) /\ \A a : a \in Range(all) <=> a = next \/ a \in Range(kept)
  BY <1>3, <1>4, AppendedRow
<1>6. PICK none : none = {}
  OBVIOUS
<1>7. PICK new : new = {next}
  OBVIOUS
<1>8. screen' = Sorted(all) /\ Notify(new, none) /\ unsaid' = unsaid
  BY <1>1, <1>2, <1>4, <1>6, <1>7 DEF ReplaceMessage
<1>9. Listed(screen') /\ Range(screen') = Range(all)
  BY <1>5, <1>8, SortedRows
<1>10. \A a : a \in Range(screen') <=>
           a = next \/ (a \in Range(screen) /\ a.id # next.id /\ a.msg # next.msg)
  BY <1>3, <1>5, <1>9
<1>11. Distinct(Range(screen'))
  BY <1>10 DEF BufferSound, Distinct
<1>12. Range(screen) \subseteq ShownRow
  BY ListedRange DEF BufferSound
<1>13. /\ view' \subseteq ShownRow
       /\ \A v : v \in view' <=> v = next \/ (v \in view /\ v.id # next.id)
  <2>1. /\ view' \subseteq ShownRow
        /\ \A v : v \in view' <=> \/ v \in new
                                  \/ v \in view /\ v.id \notin none /\ \A u \in new : u.id # v.id
    <3>1. new \subseteq ShownRow
      BY <1>7
    <3> QED BY <3>1, <1>8, Notified DEF BufferSound
  <2> QED BY <2>1, <1>6, <1>7
<1>14. ASSUME unsaid' = {} PROVE Watches(view', Range(screen'))
  <2>1. Watches(view, Range(screen))
    BY <1>8, <1>14 DEF BufferSound
  <2>2. ASSUME NEW r \in Range(screen') PROVE \E v \in view' : Alike(v, r)
    <3>1. CASE r = next
      BY <3>1, <1>13, AlikeRows
    <3>2. CASE r \in Range(screen) /\ r.id # next.id
      <4>1. PICK v \in view : Alike(v, r)
        BY <2>1, <3>2 DEF Watches
      <4>2. v.id = r.id
        BY <4>1, <3>2, <1>12, AlikeRows DEF BufferSound
      <4> QED BY <4>1, <4>2, <3>2, <1>13
    <3> QED BY <3>1, <3>2, <1>10
  <2>3. ASSUME NEW v \in view' PROVE \E r \in Range(screen') : Alike(v, r)
    <3>1. CASE v = next
      BY <3>1, <1>10, AlikeRows
    <3>2. CASE v \in view /\ v.id # next.id
      <4>1. PICK s \in Range(screen) : Alike(v, s)
        BY <2>1, <3>2 DEF Watches
      <4>2. v.id = s.id
        BY <4>1, <3>2, <1>12, AlikeRows DEF BufferSound
      <4> QED BY <4>1, <4>2, <3>2, <1>10
    <3> QED BY <3>1, <3>2, <1>13
  <2> QED BY <2>2, <2>3 DEF Watches
<1>15. BufferSound'
  BY <1>8, <1>9, <1>11, <1>13, <1>14 DEF BufferSound, Distinct, Listed, Watches
<1> QED BY <1>10, <1>15

LEMMA RemoveSound ==
    ASSUME BufferSound, NEW id, RemoveMessage(id)
    PROVE  BufferSound' /\ \A a \in Range(screen') : a \in Range(screen)
<1>1. PICK S : S = {r \in Range(screen) : r.id # id}
  OBVIOUS
<1>2. PICK none : none = {}
  OBVIOUS
<1>3. PICK gone : gone = {id}
  OBVIOUS
<1>4. screen' = Selected(screen, S) /\ Notify(none, gone) /\ unsaid' = unsaid
  BY <1>1, <1>2, <1>3 DEF RemoveMessage
<1>5. Listed(screen') /\ \A a : a \in Range(screen') <=> a \in Range(screen) /\ a.id # id
  BY <1>1, <1>4, SelectedRows DEF BufferSound
<1>6. /\ view' \subseteq ShownRow
      /\ \A v : v \in view' <=> v \in view /\ v.id # id
  <2>1. /\ view' \subseteq ShownRow
        /\ \A v : v \in view' <=> \/ v \in none
                                  \/ v \in view /\ v.id \notin gone /\ \A u \in none : u.id # v.id
    BY <1>2, <1>4, Notified DEF BufferSound
  <2> QED BY <2>1, <1>2, <1>3
<1>7. Range(screen) \subseteq ShownRow
  BY ListedRange DEF BufferSound
<1>8. ASSUME unsaid' = {} PROVE Watches(view', Range(screen'))
  <2>1. Watches(view, Range(screen))
    BY <1>4, <1>8 DEF BufferSound
  <2>2. \A v \in view, r \in Range(screen) : Alike(v, r) => v.id = r.id
    BY <1>7, AlikeRows DEF BufferSound
  <2> QED BY <2>1, <2>2, <1>5, <1>6 DEF Watches
<1>9. Distinct(Range(screen'))
  BY <1>5 DEF BufferSound, Distinct
<1>10. BufferSound'
  BY <1>4, <1>5, <1>6, <1>8, <1>9 DEF BufferSound, Distinct, Listed, Watches
<1> QED BY <1>5, <1>10

\* Rows there are, those of them that may be pending, and what was counted.
Standing(rows, pend, c) ==
    /\ rows \subseteq ShownRow /\ pend \subseteq rows
    /\ OneMessage(rows)
    /\ \A a \in rows : a.id <= c.ids /\ a.msg <= c.posts
    /\ \A p \in pend : ~p.sent => \A a \in rows : a.msg = p.msg => a.id = p.id

AllRows == Range(screen) \cup Range(saving) \cup onDisk

\* The inductive invariant.
DatabaseSound ==
    /\ saving \in Seq(ShownRow) /\ \A p \in Range(saving) : ~p.sent
    /\ Distinct(onDisk)
    /\ count \in [posts : 0..MaxShown, ids : 0..MaxRowIds, seqs : 0..MaxShown]
    /\ count.seqs + Len(saving) <= count.posts
    /\ Standing(AllRows, Range(saving) \cup onDisk, count)

\* Rows of the ids and messages there were stand as well.
LEMMA StillStanding ==
    ASSUME NEW rows, NEW pend, NEW c, Standing(rows, pend, c),
           NEW rows2 \in SUBSET ShownRow, NEW pend2 \in SUBSET rows2,
           \A a \in rows2 : \E b \in rows : b.id = a.id /\ b.msg = a.msg,
           \A p \in pend2 : ~p.sent => \E q \in pend : ~q.sent /\ q.id = p.id /\ q.msg = p.msg
    PROVE  Standing(rows2, pend2, c)
<1>1. OneMessage(rows2)
  BY DEF Standing, OneMessage
<1>2. \A a \in rows2 : a.id <= c.ids /\ a.msg <= c.posts
  BY DEF Standing
<1>3. \A p \in pend2 : ~p.sent => \A a \in rows2 : a.msg = p.msg => a.id = p.id
  BY DEF Standing
<1> QED BY <1>1, <1>2, <1>3 DEF Standing

\* So do rows of new ids, of messages none of which is pending.
LEMMA NewStanding ==
    ASSUME NEW rows, NEW pend, NEW c, Standing(rows, pend, c), NEW c2,
           c.ids \in Nat, c.posts \in Nat, c2.ids \in Nat, c2.posts \in Nat,
           c.ids <= c2.ids, c.posts <= c2.posts,
           NEW new \in SUBSET ShownRow, OneMessage(new),
           \A a \in new : /\ a.sent /\ c.ids < a.id /\ a.id <= c2.ids /\ a.msg <= c2.posts
                          /\ \A p \in pend : p.msg = a.msg => p.sent,
           NEW rows2, rows2 = rows \cup new, NEW pend2 \in SUBSET rows2,
           pend2 \subseteq pend \cup new
    PROVE  Standing(rows2, pend2, c2)
<1>1. \A a \in rows2 : a.id \in Nat /\ a.msg \in Nat
  BY ConversationAssumption DEF Standing, ShownRow
<1>2. OneMessage(rows2)
  BY <1>1 DEF Standing, OneMessage
<1>3. \A a \in rows2 : a.id <= c2.ids /\ a.msg <= c2.posts
  BY <1>1 DEF Standing
<1>4. \A p \in pend2 : ~p.sent => \A a \in rows2 : a.msg = p.msg => a.id = p.id
  BY DEF Standing
<1> QED BY <1>2, <1>3, <1>4 DEF Standing

\* One row, as a list.
LEMMA OneRow ==
    ASSUME NEW r \in ShownRow, NEW list, list = <<r>>
    PROVE  /\ Listed(list) /\ Distinct(Range(list))
           /\ \A a : a \in Range(list) <=> a = r
<1>1. list \in Seq(ShownRow) /\ Len(list) = 1 /\ list[1] = r
  <2> HIDE DEF ShownRow
  <2> QED OBVIOUS
<1>2. Listed(list)
  BY <1>1 DEF Listed
<1>3. \A a : a \in Range(list) <=> a = r
  <2>1. Range(list) = {list[i] : i \in 1..Len(list)}
    BY <1>2, ListedRange
  <2> QED BY <2>1, <1>1
<1> QED BY <1>2, <1>3 DEF Distinct

\* The rows being saved.
LEMMA SavingRows ==
    ASSUME NEW s \in Seq(ShownRow)
    PROVE  /\ Len(s) \in Nat /\ Range(s) \subseteq ShownRow
           /\ s # <<>> => /\ Head(s) \in Range(s) /\ Tail(s) \in Seq(ShownRow)
                          /\ Len(s) = Len(Tail(s)) + 1
                          /\ \A a \in Range(Tail(s)) : a \in Range(s)
           /\ \A r \in ShownRow : /\ Append(s, r) \in Seq(ShownRow)
                                  /\ Len(Append(s, r)) = Len(s) + 1
                                  /\ \A a : a \in Range(Append(s, r)) <=> a = r \/ a \in Range(s)
<1>1. PICK X : X = ShownRow
  OBVIOUS
<1>2. s \in Seq(X)
  BY <1>1
<1>3. Len(s) \in Nat /\ DOMAIN s = 1..Len(s) /\ \A i \in 1..Len(s) : s[i] \in X
  BY <1>2
<1>4. Range(s) = {s[i] : i \in 1..Len(s)}
  BY <1>3 DEF Range
<1>5. ASSUME s # <<>>
      PROVE  /\ Head(s) \in Range(s) /\ Tail(s) \in Seq(X) /\ Len(s) = Len(Tail(s)) + 1
             /\ \A a \in Range(Tail(s)) : a \in Range(s)
  <2>1. PICK t : t = Tail(s)
    OBVIOUS
  <2>2. t \in Seq(X) /\ Len(s) = Len(t) + 1 /\ Len(t) \in Nat /\ Len(s) # 0 /\ Head(s) = s[1]
    BY <1>2, <1>5, <2>1
  <2>3. \A i \in 1..Len(t) : t[i] = s[i + 1]
    BY <1>2, <1>5, <2>1
  <2>4. Range(t) = {t[i] : i \in 1..Len(t)}
    BY <2>2 DEF Range
  <2>5. \A a \in Range(t) : a \in Range(s)
    BY <2>2, <2>3, <2>4, <1>4, <1>3
  <2>6. 1 \in 1..Len(s)
    BY <2>2
  <2> QED BY <2>1, <2>2, <2>5, <2>6, <1>4
<1>6. ASSUME NEW r \in X
      PROVE  /\ Append(s, r) \in Seq(X) /\ Len(Append(s, r)) = Len(s) + 1
             /\ \A a : a \in Range(Append(s, r)) <=> a = r \/ a \in Range(s)
  <2>1. PICK t : t = Append(s, r)
    OBVIOUS
  <2>2. t \in Seq(X) /\ Len(t) = Len(s) + 1 /\ t[Len(s) + 1] = r /\ \A i \in 1..Len(s) : t[i] = s[i]
    BY <1>2, <2>1
  <2>3. Range(t) = {t[i] : i \in 1..Len(t)}
    BY <2>2 DEF Range
  <2>4. \A i : i \in 1..Len(t) <=> i = Len(s) + 1 \/ i \in 1..Len(s)
    BY <1>3, <2>2
  <2> QED BY <2>1, <2>2, <2>3, <2>4, <1>4
<1> QED BY <1>1, <1>3, <1>4, <1>5, <1>6

\* Writing a row takes the rows of its message and its id.
LEMMA DiskKept ==
    ASSUME Distinct(onDisk), NEW r, DiskKeeps(r)
    PROVE  Distinct(onDisk') /\ r \in onDisk' /\ \A a \in onDisk' : a = r \/ a \in onDisk
BY DEF DiskKeeps, Distinct

ConversationSound == BufferSound /\ DatabaseSound

\* What the counts are, and where rows lie.
LEMMA CountsOf ==
    ASSUME ConversationSound
    PROVE  /\ count.posts \in Nat /\ count.ids \in Nat /\ count.seqs \in Nat
           /\ count.posts <= MaxShown /\ count.ids <= MaxRowIds
           /\ MaxShown \in Nat /\ MaxRowIds \in Nat
           /\ count = [posts |-> count.posts, ids |-> count.ids, seqs |-> count.seqs]
           /\ Len(saving) \in Nat /\ Range(saving) \subseteq ShownRow
           /\ Range(screen) \subseteq ShownRow /\ onDisk \subseteq ShownRow
           /\ OneMessage(AllRows)
<1>1. Len(saving) \in Nat /\ Range(saving) \subseteq ShownRow
  BY SavingRows DEF ConversationSound, DatabaseSound
<1>2. Range(screen) \subseteq ShownRow
  BY ListedRange DEF ConversationSound, BufferSound
<1>3. onDisk \subseteq ShownRow /\ OneMessage(AllRows)
  BY DEF ConversationSound, DatabaseSound, Standing, AllRows
<1>4. MaxShown \in Nat /\ MaxRowIds \in Nat
  BY ConversationAssumption
<1>5. count \in [posts : 0..MaxShown, ids : 0..MaxRowIds, seqs : 0..MaxShown]
  BY DEF ConversationSound, DatabaseSound
<1> QED BY <1>1, <1>2, <1>3, <1>4, <1>5

\* A step that leaves the ids and messages as they were.
LEMMA SameStanding ==
    ASSUME ConversationSound, BufferSound', Distinct(onDisk'),
           saving' \in Seq(ShownRow), \A p \in Range(saving') : p \in Range(saving),
           count' \in [posts : 0..MaxShown, ids : 0..MaxRowIds, seqs : 0..MaxShown],
           count'.ids = count.ids, count'.posts = count.posts,
           count'.seqs + Len(saving') <= count'.posts,
           onDisk' \subseteq ShownRow,
           \A a \in Range(screen') \cup onDisk' :
               \E b \in AllRows : b.id = a.id /\ b.msg = a.msg,
           \A p \in onDisk' : ~p.sent =>
               \E q \in Range(saving) \cup onDisk : ~q.sent /\ q.id = p.id /\ q.msg = p.msg
    PROVE  ConversationSound'
<1>1. PICK rows : rows = AllRows
  OBVIOUS
<1>2. PICK pend : pend = Range(saving) \cup onDisk
  OBVIOUS
<1>3. PICK rows2 : rows2 = Range(screen') \cup Range(saving') \cup onDisk'
  OBVIOUS
<1>4. PICK pend2 : pend2 = Range(saving') \cup onDisk'
  OBVIOUS
<1>5. Standing(rows, pend, count)
  BY <1>1, <1>2 DEF ConversationSound, DatabaseSound
<1>6. Range(saving') \subseteq ShownRow /\ Range(screen') \subseteq ShownRow
  <2>1. Listed(screen')
    BY DEF BufferSound
  <2>2. Range(screen') \subseteq ShownRow
    BY <2>1, ListedRange
  <2>3. Range(saving) \subseteq ShownRow
    BY CountsOf
  <2> QED BY <2>2, <2>3
<1>7. rows2 \in SUBSET ShownRow /\ pend2 \in SUBSET rows2
  BY <1>3, <1>4, <1>6
<1>8. \A a \in rows2 : \E b \in rows : b.id = a.id /\ b.msg = a.msg
  BY <1>1, <1>3 DEF AllRows
<1>9. \A p \in pend2 : ~p.sent => \E q \in pend : ~q.sent /\ q.id = p.id /\ q.msg = p.msg
  BY <1>2, <1>4
<1>10. Standing(rows2, pend2, count)
  BY <1>5, <1>7, <1>8, <1>9, StillStanding
<1>11. Standing(rows2, pend2, count')
  BY <1>10 DEF Standing
<1>12. \A p \in Range(saving') : ~p.sent
  BY DEF ConversationSound, DatabaseSound
<1>13. DatabaseSound'
  BY <1>3, <1>4, <1>11, <1>12 DEF DatabaseSound, AllRows, Distinct, Standing, OneMessage
<1> QED BY <1>13 DEF ConversationSound

LEMMA ConversationStart ==
    ASSUME ConversationInit
    PROVE  ConversationSound
<1>1. screen = <<>> /\ onDisk = {} /\ saving = <<>> /\ view = {} /\ unsaid = {}
      /\ count = [posts |-> 0, ids |-> 0, seqs |-> 0]
  BY DEF ConversationInit
<1>2. PICK X : X = ShownRow
  OBVIOUS
<1>3. <<>> \in Seq(X) /\ Len(<<>>) = 0
  OBVIOUS
<1>4. Listed(screen)
  BY <1>1, <1>2, <1>3 DEF Listed
<1>5. Range(screen) = {}
  BY <1>1, <1>3, <1>4, ListedRange
<1>6. BufferSound
  BY <1>1, <1>4, <1>5 DEF BufferSound, Distinct, Watches
<1>7. count \in [posts : 0..MaxShown, ids : 0..MaxRowIds, seqs : 0..MaxShown]
  BY <1>1, ConversationAssumption
<1>8. Range(saving) = {}
  BY <1>1, <1>5
<1>9. Standing(AllRows, Range(saving) \cup onDisk, count)
  BY <1>1, <1>5, <1>8 DEF Standing, AllRows, OneMessage
<1>10. DatabaseSound
  BY <1>1, <1>2, <1>3, <1>7, <1>8, <1>9 DEF DatabaseSound, Distinct
<1> QED BY <1>6, <1>10 DEF ConversationSound

LEMMA EchoSent ==
    ASSUME ConversationSound, SendEcho
    PROVE  ConversationSound'
<1>1. PICK echo : echo = [id |-> count.ids + 1, msg |-> count.posts + 1, face |-> 0, seq |-> 0,
                          sent |-> FALSE]
  OBVIOUS
<1>2. /\ count.posts < MaxShown /\ count.ids < MaxRowIds
      /\ count' = [count EXCEPT !.posts = @ + 1, !.ids = @ + 1]
      /\ onDisk' = onDisk
  BY DEF SendEcho
<1>3. /\ count'.posts = count.posts + 1 /\ count'.ids = count.ids + 1 /\ count'.seqs = count.seqs
      /\ count' \in [posts : 0..MaxShown, ids : 0..MaxRowIds, seqs : 0..MaxShown]
  <2>1. count' = [posts |-> count.posts + 1, ids |-> count.ids + 1, seqs |-> count.seqs]
    BY <1>2, CountsOf
  <2>2. count.posts + 1 \in 0..MaxShown /\ count.ids + 1 \in 0..MaxRowIds
    BY <1>2, CountsOf
  <2>3. count.seqs \in 0..MaxShown
    BY DEF ConversationSound, DatabaseSound
  <2> QED BY <2>1, <2>2, <2>3
<1>4. Upsert(<<echo>>) /\ saving' = Append(saving, echo)
  BY <1>1, <1>3 DEF SendEcho
<1>5. echo \in ShownRow
  BY <1>1, <1>2, CountsOf DEF ShownRow
<1>6. PICK list : list = <<echo>>
  OBVIOUS
<1>7. /\ Listed(list) /\ Distinct(Range(list))
      /\ \A a : a \in Range(list) <=> a = echo
  BY <1>5, <1>6, OneRow
<1>8. Standing(AllRows, Range(saving) \cup onDisk, count)
  BY DEF ConversationSound, DatabaseSound
<1>9. \A a \in AllRows : a.id \in Nat /\ a.msg \in Nat /\ a.id < echo.id /\ a.msg < echo.msg
  <2>1. \A a \in AllRows : a \in ShownRow /\ a.id <= count.ids /\ a.msg <= count.posts
    BY <1>8 DEF Standing
  <2>2. \A a \in ShownRow : a.id \in Nat /\ a.msg \in Nat
    BY CountsOf DEF ShownRow
  <2> QED BY <2>1, <2>2, <1>1, CountsOf
<1>10. OneMessage(AllRows \cup {echo})
  BY <1>9, CountsOf DEF OneMessage
<1>11. OneMessage(Range(screen) \cup Range(list))
  BY <1>7, <1>10 DEF OneMessage, AllRows
<1>12. BufferSound' /\ \A a \in Range(screen') : a \in Range(screen) \/ a = echo
  <2>1. Upsert(list)
    BY <1>4, <1>6
  <2> QED BY <2>1, <1>7, <1>11, UpsertSound DEF ConversationSound
<1>13. /\ saving' \in Seq(ShownRow) /\ Len(saving') = Len(saving) + 1
       /\ \A a : a \in Range(saving') <=> a = echo \/ a \in Range(saving)
  <2>1. saving \in Seq(ShownRow)
    BY DEF ConversationSound, DatabaseSound
  <2> QED BY <2>1, <1>4, <1>5, SavingRows
<1>14. AllRows' \subseteq AllRows \cup {echo}
  BY <1>2, <1>12, <1>13 DEF AllRows
<1>15. Standing(AllRows', (Range(saving) \cup onDisk)', count')
  <2>1. AllRows' \subseteq ShownRow
    BY <1>14, <1>5, CountsOf DEF AllRows
  <2>2. OneMessage(AllRows')
    BY <1>10, <1>14 DEF OneMessage
  <2>3. \A a \in AllRows' : a.id <= count'.ids /\ a.msg <= count'.posts
    BY <1>14, <1>9, <1>1, <1>3, CountsOf
  <2>4. ASSUME NEW p \in (Range(saving) \cup onDisk)', ~p.sent, NEW a \in AllRows', a.msg = p.msg
        PROVE  a.id = p.id
    <3>1. p = echo \/ (p \in Range(saving) \cup onDisk /\ p \in AllRows)
      BY <1>2, <1>13 DEF AllRows
    <3>2. a = echo \/ a \in AllRows
      BY <1>14
    <3> QED BY <3>1, <3>2, <2>4, <1>8, <1>9 DEF Standing
  <2>5. (Range(saving) \cup onDisk)' \subseteq AllRows'
    BY DEF AllRows
  <2> QED BY <2>1, <2>2, <2>3, <2>4, <2>5 DEF Standing
<1>16. \A p \in Range(saving') : ~p.sent
  BY <1>1, <1>13 DEF ConversationSound, DatabaseSound
<1>17. count'.seqs + Len(saving') <= count'.posts
  BY <1>3, <1>13, CountsOf DEF ConversationSound, DatabaseSound
<1>18. DatabaseSound'
  BY <1>2, <1>3, <1>13, <1>15, <1>16, <1>17 DEF DatabaseSound, ConversationSound, Distinct
<1> QED BY <1>12, <1>18 DEF ConversationSound

LEMMA EchoStored ==
    ASSUME ConversationSound, EchoSaved
    PROVE  ConversationSound'
<1>1. PICK head : head = Head(saving)
  OBVIOUS
<1>2. PICK saved : saved = [head EXCEPT !.seq = count.seqs + 1]
  OBVIOUS
<1>3. /\ saving # <<>> /\ saving' = Tail(saving)
      /\ count' = [count EXCEPT !.seqs = @ + 1]
  BY DEF EchoSaved
<1>4. /\ head \in Range(saving) /\ saving' \in Seq(ShownRow) /\ Len(saving) = Len(saving') + 1
      /\ \A a \in Range(saving') : a \in Range(saving)
  BY <1>1, <1>3, SavingRows DEF ConversationSound, DatabaseSound
<1>5. Len(saving') \in Nat
  BY <1>4, SavingRows
<1>6. /\ count' = [posts |-> count.posts, ids |-> count.ids, seqs |-> count.seqs + 1]
      /\ count.seqs + 1 \in 0..MaxShown /\ count.seqs + 1 + Len(saving') <= count.posts
  <2>1. count.seqs + Len(saving) <= count.posts
    BY DEF ConversationSound, DatabaseSound
  <2> QED BY <2>1, <1>3, <1>4, <1>5, CountsOf
<1>7. count' \in [posts : 0..MaxShown, ids : 0..MaxRowIds, seqs : 0..MaxShown]
  <2>1. count.posts \in 0..MaxShown /\ count.ids \in 0..MaxRowIds
    BY CountsOf
  <2> QED BY <1>6, <2>1
<1>8. Upsert(<<saved>>) /\ DiskKeeps(saved)
  BY <1>1, <1>2, <1>6 DEF EchoSaved
<1>9. head \in ShownRow /\ ~head.sent
  BY <1>4, CountsOf DEF ConversationSound, DatabaseSound
<1>10. saved \in ShownRow /\ saved.id = head.id /\ saved.msg = head.msg /\ ~saved.sent
  BY <1>2, <1>6, <1>9 DEF ShownRow
<1>11. PICK list : list = <<saved>>
  OBVIOUS
<1>12. /\ Listed(list) /\ Distinct(Range(list))
       /\ \A a : a \in Range(list) <=> a = saved
  BY <1>10, <1>11, OneRow
<1>13. OneMessage(Range(screen) \cup Range(list))
  BY <1>4, <1>10, <1>12, CountsOf DEF OneMessage, AllRows
<1>14. BufferSound' /\ \A a \in Range(screen') : a \in Range(screen) \/ a = saved
  <2>1. Upsert(list)
    BY <1>8, <1>11
  <2> QED BY <2>1, <1>12, <1>13, UpsertSound DEF ConversationSound
<1>15. Distinct(onDisk') /\ \A a \in onDisk' : a = saved \/ a \in onDisk
  BY <1>8, DiskKept DEF ConversationSound, DatabaseSound
<1>16. \A a \in Range(screen') \cup onDisk' : \E b \in AllRows : b.id = a.id /\ b.msg = a.msg
  BY <1>4, <1>10, <1>14, <1>15 DEF AllRows
<1>17. \A p \in onDisk' : ~p.sent =>
           \E q \in Range(saving) \cup onDisk : ~q.sent /\ q.id = p.id /\ q.msg = p.msg
  BY <1>4, <1>9, <1>10, <1>15
<1>18. onDisk' \subseteq ShownRow
  BY <1>10, <1>15, CountsOf
<1> QED BY <1>4, <1>6, <1>7, <1>14, <1>15, <1>16, <1>17, <1>18, SameStanding

LEMMA EchoFailed ==
    ASSUME ConversationSound, EchoFails
    PROVE  ConversationSound'
<1>1. /\ saving # <<>> /\ saving' = Tail(saving) /\ onDisk' = onDisk /\ count' = count
      /\ RemoveMessage(Head(saving).id)
  BY DEF EchoFails
<1>2. /\ saving' \in Seq(ShownRow) /\ Len(saving) = Len(saving') + 1
      /\ \A a \in Range(saving') : a \in Range(saving)
  BY <1>1, SavingRows DEF ConversationSound, DatabaseSound
<1>3. Len(saving') \in Nat
  BY <1>2, SavingRows
<1>4. BufferSound' /\ \A a \in Range(screen') : a \in Range(screen)
  BY <1>1, RemoveSound DEF ConversationSound
<1>5. count'.seqs + Len(saving') <= count'.posts
  BY <1>1, <1>2, <1>3, CountsOf DEF ConversationSound, DatabaseSound
<1>6. Distinct(onDisk') /\ onDisk' \subseteq ShownRow
  BY <1>1, CountsOf DEF ConversationSound, DatabaseSound
<1>7. \A a \in Range(screen') \cup onDisk' : \E b \in AllRows : b.id = a.id /\ b.msg = a.msg
  BY <1>1, <1>4 DEF AllRows
<1>8. \A p \in onDisk' : ~p.sent =>
          \E q \in Range(saving) \cup onDisk : ~q.sent /\ q.id = p.id /\ q.msg = p.msg
  BY <1>1
<1>9. count' \in [posts : 0..MaxShown, ids : 0..MaxRowIds, seqs : 0..MaxShown]
  BY <1>1 DEF ConversationSound, DatabaseSound
<1> QED BY <1>1, <1>2, <1>4, <1>5, <1>6, <1>7, <1>8, <1>9, SameStanding

\* A step that leaves the sends, the counts and what rows stand for alone.
LEMMA QuietStanding ==
    ASSUME ConversationSound, BufferSound', Distinct(onDisk'), UNCHANGED <<saving, count>>,
           onDisk' \subseteq ShownRow,
           \A a \in Range(screen') \cup onDisk' :
               \E b \in AllRows : b.id = a.id /\ b.msg = a.msg,
           \A p \in onDisk' : ~p.sent =>
               \E q \in Range(saving) \cup onDisk : ~q.sent /\ q.id = p.id /\ q.msg = p.msg
    PROVE  ConversationSound'
<1>1. saving' \in Seq(ShownRow) /\ \A p \in Range(saving') : p \in Range(saving)
  BY DEF ConversationSound, DatabaseSound
<1>2. /\ count' \in [posts : 0..MaxShown, ids : 0..MaxRowIds, seqs : 0..MaxShown]
      /\ count'.ids = count.ids /\ count'.posts = count.posts
      /\ count'.seqs + Len(saving') <= count'.posts
  BY DEF ConversationSound, DatabaseSound
<1> QED BY <1>1, <1>2, SameStanding

LEMMA AckTaken ==
    ASSUME ConversationSound, AckArrives
    PROVE  ConversationSound'
<1>1. PICK p \in onDisk : /\ ~p.sent
                          /\ ReplaceMessage(p.id, [p EXCEPT !.sent = TRUE])
                          /\ DiskKeeps([p EXCEPT !.sent = TRUE])
  BY DEF AckArrives
<1>2. UNCHANGED <<saving, count>>
  BY DEF AckArrives
<1>3. PICK acked : acked = [p EXCEPT !.sent = TRUE]
  OBVIOUS
<1>4. p \in ShownRow
  BY <1>1, CountsOf
<1>5. acked \in ShownRow /\ acked.id = p.id /\ acked.msg = p.msg /\ acked.sent
  BY <1>3, <1>4 DEF ShownRow
<1>6. ReplaceMessage(acked.id, acked) /\ DiskKeeps(acked)
  BY <1>1, <1>3, <1>5
<1>7. \A a \in Range(screen) : a.msg = acked.msg => a.id = acked.id
  BY <1>1, <1>5 DEF ConversationSound, DatabaseSound, Standing, AllRows
<1>8. BufferSound' /\ \A a \in Range(screen') : a \in Range(screen) \/ a = acked
  BY <1>5, <1>6, <1>7, ReplaceSound DEF ConversationSound
<1>9. Distinct(onDisk') /\ \A a \in onDisk' : a = acked \/ a \in onDisk
  BY <1>6, DiskKept DEF ConversationSound, DatabaseSound
<1>10. \A a \in Range(screen') \cup onDisk' : \E b \in AllRows : b.id = a.id /\ b.msg = a.msg
  BY <1>1, <1>5, <1>8, <1>9 DEF AllRows
<1>11. \A q \in onDisk' : ~q.sent =>
           \E b \in Range(saving) \cup onDisk : ~b.sent /\ b.id = q.id /\ b.msg = q.msg
  BY <1>5, <1>9
<1>12. onDisk' \subseteq ShownRow
  BY <1>5, <1>9, CountsOf
<1> QED BY <1>2, <1>8, <1>9, <1>10, <1>11, <1>12, QuietStanding

LEMMA PendingDiscarded ==
    ASSUME ConversationSound, DiscardPending
    PROVE  ConversationSound'
<1>1. PICK p \in onDisk : ~p.sent /\ RemoveMessage(p.id) /\ onDisk' = onDisk \ {p}
  BY DEF DiscardPending
<1>2. UNCHANGED <<saving, count>>
  BY DEF DiscardPending
<1>3. BufferSound' /\ \A a \in Range(screen') : a \in Range(screen)
  BY <1>1, RemoveSound DEF ConversationSound
<1>4. Distinct(onDisk') /\ onDisk' \subseteq ShownRow
  BY <1>1, CountsOf DEF ConversationSound, DatabaseSound, Distinct
<1>5. \A a \in Range(screen') \cup onDisk' : \E b \in AllRows : b.id = a.id /\ b.msg = a.msg
  BY <1>1, <1>3 DEF AllRows
<1>6. \A q \in onDisk' : ~q.sent =>
          \E b \in Range(saving) \cup onDisk : ~b.sent /\ b.id = q.id /\ b.msg = q.msg
  BY <1>1
<1> QED BY <1>2, <1>3, <1>4, <1>5, <1>6, QuietStanding

\* A push about a message that is shown.
LEMMA PushMerged ==
    ASSUME ConversationSound, NEW face \in {0, 1}, UNCHANGED <<saving, count>>,
           NEW old \in Range(screen), NEW r,
           r = [old EXCEPT !.sent = TRUE, !.face = IF face = 1 THEN 1 ELSE @],
           Upsert(<<r>>), DiskKeeps(r)
    PROVE  ConversationSound'
<1>1. old \in ShownRow
  BY CountsOf
<1>2. r \in ShownRow /\ r.id = old.id /\ r.msg = old.msg /\ r.sent
  BY <1>1 DEF ShownRow
<1>3. PICK list : list = <<r>>
  OBVIOUS
<1>4. /\ Listed(list) /\ Distinct(Range(list))
      /\ \A a : a \in Range(list) <=> a = r
  BY <1>2, <1>3, OneRow
<1>5. OneMessage(Range(screen) \cup Range(list))
  <2>1. OneMessage(Range(screen))
    BY CountsOf DEF OneMessage, AllRows
  <2> QED BY ZenonT(60), <2>1, <1>2, <1>4 DEF OneMessage
<1>6. BufferSound' /\ \A a \in Range(screen') : a \in Range(screen) \/ a = r
  <2>1. Upsert(list)
    BY <1>3
  <2> QED BY <2>1, <1>4, <1>5, UpsertSound DEF ConversationSound
<1>7. Distinct(onDisk') /\ \A a \in onDisk' : a = r \/ a \in onDisk
  BY DiskKept DEF ConversationSound, DatabaseSound
<1>8. \A a \in Range(screen') \cup onDisk' : \E b \in AllRows : b.id = a.id /\ b.msg = a.msg
  BY <1>2, <1>6, <1>7 DEF AllRows
<1>9. \A q \in onDisk' : ~q.sent =>
          \E b \in Range(saving) \cup onDisk : ~b.sent /\ b.id = q.id /\ b.msg = q.msg
  BY <1>2, <1>7
<1>10. onDisk' \subseteq ShownRow
  BY <1>2, <1>7, CountsOf
<1> QED BY <1>6, <1>7, <1>8, <1>9, <1>10, QuietStanding

\* Rows of new ids, of messages none of which is pending, shown and perhaps stored.
LEMMA FreshTaken ==
    ASSUME ConversationSound, BufferSound', saving' = saving,
           NEW new \in SUBSET ShownRow, OneMessage(new),
           count' \in [posts : 0..MaxShown, ids : 0..MaxRowIds, seqs : 0..MaxShown],
           count.ids <= count'.ids, count.posts <= count'.posts, count'.seqs = count.seqs,
           \A a \in new : /\ a.sent /\ count.ids < a.id /\ a.id <= count'.ids
                          /\ a.msg <= count'.posts
                          /\ \A p \in Range(saving) \cup onDisk : p.msg = a.msg => p.sent,
           \A a \in Range(screen') : a \in Range(screen) \/ a \in new,
           Distinct(onDisk'), \A a \in onDisk' : a \in onDisk \/ a \in new
    PROVE  ConversationSound'
<1>1. PICK rows : rows = AllRows
  OBVIOUS
<1>2. PICK pend : pend = Range(saving) \cup onDisk
  OBVIOUS
<1>3. Standing(rows, pend, count)
  BY <1>1, <1>2 DEF ConversationSound, DatabaseSound
<1>4. PICK rows2 : rows2 = rows \cup new
  OBVIOUS
<1>5. PICK pend2 : pend2 = (Range(saving) \cup onDisk)'
  OBVIOUS
<1>6. pend2 \subseteq pend \cup new /\ pend2 \in SUBSET rows2
  BY <1>1, <1>2, <1>4, <1>5 DEF AllRows
<1>7. count.ids \in Nat /\ count.posts \in Nat /\ count'.ids \in Nat /\ count'.posts \in Nat
  BY CountsOf
<1>8. \A a \in new : /\ a.sent /\ count.ids < a.id /\ a.id <= count'.ids
                     /\ a.msg <= count'.posts
                     /\ \A p \in pend : p.msg = a.msg => p.sent
  BY <1>2
<1>9. Standing(rows2, pend2, count')
  BY <1>3, <1>4, <1>6, <1>7, <1>8, NewStanding
<1>10. (AllRows)' \subseteq rows2 /\ pend2 \subseteq (AllRows)'
  BY <1>1, <1>4, <1>5 DEF AllRows
<1>11. Standing((AllRows)', pend2, count')
  BY <1>9, <1>10 DEF Standing, OneMessage
<1>12. count'.seqs + Len(saving') <= count'.posts
  <2>1. count.seqs + Len(saving) <= count.posts
    BY DEF ConversationSound, DatabaseSound
  <2> QED BY <2>1, <1>7, CountsOf
<1>13. DatabaseSound'
  BY <1>5, <1>11, <1>12 DEF DatabaseSound, ConversationSound, Distinct
<1> QED BY <1>13 DEF ConversationSound

LEMMA PushTaken ==
    ASSUME ConversationSound, NEW face \in {0, 1}, PushArrives(face)
    PROVE  ConversationSound'
<1>1. saving' = saving
  BY DEF PushArrives
<1>2. PICK m \in 1..MaxShown :
        LET known == {r \in Range(screen) : r.msg = m}
            old   == CHOOSE r \in known : TRUE
        IN  /\ m <= count.posts + 1
            /\ IF known # {}
               THEN LET r == [old EXCEPT !.sent = TRUE, !.face = IF face = 1 THEN 1 ELSE @]
                    IN  Upsert(<<r>>) /\ DiskKeeps(r) /\ UNCHANGED count
               ELSE LET r == [id |-> count.ids + 1, msg |-> m, face |-> face, seq |-> 0,
                              sent |-> TRUE]
                    IN  /\ count.ids < MaxRowIds
                        /\ \A d \in Range(saving) \cup onDisk : d.msg = m => d.sent
                        /\ count' = [count EXCEPT !.ids = @ + 1,
                                                  !.posts = IF m > @ THEN m ELSE @]
                        /\ Upsert(<<r>>)
                        /\ IF \E d \in onDisk : d.msg = m THEN UNCHANGED onDisk
                           ELSE DiskKeeps(r)
  BY DEF PushArrives
<1>3. PICK known : known = {r \in Range(screen) : r.msg = m}
  OBVIOUS
<1>4. CASE known # {}
  <2>1. PICK old : old = CHOOSE r \in known : TRUE
    OBVIOUS
  <2>2. PICK r : r = [old EXCEPT !.sent = TRUE, !.face = IF face = 1 THEN 1 ELSE @]
    OBVIOUS
  <2>3. Upsert(<<r>>) /\ DiskKeeps(r) /\ UNCHANGED count
    BY <1>2, <1>3, <1>4, <2>1, <2>2
  <2>4. old \in Range(screen)
    BY <1>3, <1>4, <2>1
  <2>5. UNCHANGED <<saving, count>>
    BY <1>1, <2>3
  <2> QED BY <2>2, <2>3, <2>4, <2>5, PushMerged
<1>5. CASE known = {}
  <2>1. PICK r : r = [id |-> count.ids + 1, msg |-> m, face |-> face, seq |-> 0, sent |-> TRUE]
    OBVIOUS
  <2>2. /\ count.ids < MaxRowIds
        /\ \A d \in Range(saving) \cup onDisk : d.msg = m => d.sent
        /\ count' = [count EXCEPT !.ids = @ + 1, !.posts = IF m > @ THEN m ELSE @]
        /\ Upsert(<<r>>)
        /\ (IF \E d \in onDisk : d.msg = m THEN UNCHANGED onDisk ELSE DiskKeeps(r))
    BY <1>2, <1>3, <1>5, <2>1
  <2>3. r \in ShownRow
    BY <2>1, <2>2, CountsOf DEF ShownRow
  <2>4. PICK new : new = {r}
    OBVIOUS
  <2>5. PICK list : list = <<r>>
    OBVIOUS
  <2>6. /\ Listed(list) /\ Distinct(Range(list))
        /\ \A a : a \in Range(list) <=> a = r
    BY <2>3, <2>5, OneRow
  <2>7. \A a \in AllRows : a.id \in Nat /\ a.id < r.id
    <3>1. \A a \in AllRows : a \in ShownRow /\ a.id <= count.ids
      BY DEF ConversationSound, DatabaseSound, Standing
    <3>2. \A a \in ShownRow : a.id \in Nat
      BY CountsOf DEF ShownRow
    <3> QED BY <3>1, <3>2, <2>1, CountsOf
  <2>8. OneMessage(Range(screen) \cup Range(list))
    <3>1. r.id \in Nat
      BY <2>1, CountsOf
    <3> QED BY <2>6, <2>7, <3>1, CountsOf DEF OneMessage, AllRows
  <2>9. BufferSound' /\ \A a \in Range(screen') : a \in Range(screen) \/ a = r
    <3>1. Upsert(list)
      BY <2>2, <2>5
    <3> QED BY <3>1, <2>6, <2>8, UpsertSound DEF ConversationSound
  <2>10. Distinct(onDisk') /\ \A a \in onDisk' : a \in onDisk \/ a \in new
    <3>1. Distinct(onDisk)
      BY DEF ConversationSound, DatabaseSound
    <3>2. CASE \E d \in onDisk : d.msg = m
      <4>1. onDisk' = onDisk
        BY <2>2, <3>2
      <4> QED BY <3>1, <4>1
    <3>3. CASE ~\E d \in onDisk : d.msg = m
      <4>1. DiskKeeps(r)
        BY <2>2, <3>3
      <4> QED BY <3>1, <4>1, <2>4, DiskKept
    <3> QED BY <3>2, <3>3
  <2>11. /\ count'.ids = count.ids + 1 /\ count'.seqs = count.seqs
         /\ count'.posts = (IF m > count.posts THEN m ELSE count.posts)
         /\ count' \in [posts : 0..MaxShown, ids : 0..MaxRowIds, seqs : 0..MaxShown]
    <3>1. count' = [posts |-> IF m > count.posts THEN m ELSE count.posts, ids |-> count.ids + 1,
                    seqs |-> count.seqs]
      BY <2>2, CountsOf
    <3>2. count.ids + 1 \in 0..MaxRowIds /\ (IF m > count.posts THEN m ELSE count.posts) \in 0..MaxShown
      BY <2>2, CountsOf
    <3>3. count.seqs \in 0..MaxShown
      BY DEF ConversationSound, DatabaseSound
    <3> QED BY <3>1, <3>2, <3>3
  <2>12. count.ids <= count'.ids /\ count.posts <= count'.posts
    BY <2>11, CountsOf
  <2>13. \A a \in new : /\ a.sent /\ count.ids < a.id /\ a.id <= count'.ids
                        /\ a.msg <= count'.posts
                        /\ \A p \in Range(saving) \cup onDisk : p.msg = a.msg => p.sent
    BY <2>1, <2>2, <2>4, <2>11, CountsOf
  <2>14. new \in SUBSET ShownRow /\ OneMessage(new)
    BY <2>3, <2>4 DEF OneMessage
  <2>15. \A a \in Range(screen') : a \in Range(screen) \/ a \in new
    BY <2>4, <2>9
  <2> QED BY <1>1, <2>9, <2>10, <2>11, <2>12, <2>13, <2>14, <2>15, FreshTaken
<1> QED BY <1>4, <1>5

\* The rows an answer of the server holds.
LEMMA FetchedRows ==
    ASSUME ConversationSound, NEW from \in 1..MaxShown, NEW to \in 1..MaxShown,
           AnswerOf(from, to), NEW rows, rows = Fetched(from, to)
    PROVE  /\ Listed(rows) /\ Distinct(Range(rows))
           /\ \E i : i \in 1..Len(rows)
           /\ OneMessage(Range(screen) \cup Range(rows))
           /\ \A a \in Range(rows) :
                 /\ a.sent /\ count.ids < a.id /\ a.id <= count'.ids /\ a.msg <= count.posts
                 /\ \A p \in Range(saving) \cup onDisk : p.msg = a.msg => p.sent
           /\ count'.posts = count.posts /\ count'.seqs = count.seqs /\ count.ids <= count'.ids
           /\ count' \in [posts : 0..MaxShown, ids : 0..MaxRowIds, seqs : 0..MaxShown]
<1> DEFINE n == to - from + 1
<1>1. /\ from <= to /\ to <= count.posts /\ count.ids + n <= MaxRowIds
      /\ \A r \in Range(saving) \cup onDisk : r.msg \in from..to => r.sent
      /\ count' = [count EXCEPT !.ids = @ + n]
  BY DEF AnswerOf
<1>2. n \in Nat /\ n >= 1 /\ from \in Nat /\ to \in Nat /\ from >= 1
  BY <1>1, CountsOf
<1>3. /\ count'.posts = count.posts /\ count'.seqs = count.seqs /\ count'.ids = count.ids + n
      /\ count' \in [posts : 0..MaxShown, ids : 0..MaxRowIds, seqs : 0..MaxShown]
  <2>1. count' = [posts |-> count.posts, ids |-> count.ids + n, seqs |-> count.seqs]
    BY <1>1, CountsOf
  <2>2. count.posts \in 0..MaxShown /\ count.ids + n \in 0..MaxRowIds
    BY <1>1, <1>2, CountsOf
  <2>3. count.seqs \in 0..MaxShown
    BY DEF ConversationSound, DatabaseSound
  <2> QED BY <2>1, <2>2, <2>3
<1>4. rows = [i \in 1..n |-> [id |-> count.ids + i, msg |-> from + i - 1, face |-> 0,
                              seq |-> 0, sent |-> TRUE]]
  BY DEF Fetched
<1>5. \A i \in 1..n : /\ rows[i] \in ShownRow /\ rows[i].id = count.ids + i
                      /\ rows[i].msg = from + i - 1 /\ rows[i].sent
                      /\ rows[i].msg \in from..to
  <2> SUFFICES ASSUME NEW i \in 1..n
               PROVE  /\ rows[i] \in ShownRow /\ rows[i].id = count.ids + i
                      /\ rows[i].msg = from + i - 1 /\ rows[i].sent
                      /\ rows[i].msg \in from..to
    OBVIOUS
  <2>1. rows[i] = [id |-> count.ids + i, msg |-> from + i - 1, face |-> 0, seq |-> 0, sent |-> TRUE]
    BY <1>4
  <2>2. i \in Nat /\ i >= 1 /\ i <= n
    BY <1>2
  <2>3. /\ count.ids + i \in 1..MaxRowIds /\ from + i - 1 \in 1..MaxShown
        /\ from + i - 1 \in from..to /\ 0 \in 0..MaxShown
    BY SMTT(30), <1>1, <1>2, <2>2, CountsOf
  <2> QED BY <2>1, <2>3 DEF ShownRow
<1> HIDE DEF n
<1>6. rows \in Seq(ShownRow) /\ Len(rows) = n
  <2>1. PICK X : X = ShownRow
    OBVIOUS
  <2>2. rows \in [1..n -> X]
    BY <1>4, <1>5, <2>1
  <2>3. rows \in Seq(X) /\ Len(rows) = n
    BY <2>2, <1>2
  <2> QED BY <2>1, <2>3
<1>7. Listed(rows)
  BY <1>2, <1>5, <1>6, CountsOf DEF Listed
<1>8. Range(rows) = {rows[i] : i \in 1..n}
  BY <1>6, <1>7, ListedRange
<1>9. Distinct(Range(rows))
  <2>1. \A i, j \in 1..n : rows[i].msg = rows[j].msg => i = j
    BY <1>2, <1>5
  <2> QED BY <2>1, <1>8 DEF Distinct
<1>10. \A a \in Range(rows) :
           /\ a.sent /\ count.ids < a.id /\ a.id <= count'.ids /\ a.msg <= count.posts
           /\ \A p \in Range(saving) \cup onDisk : p.msg = a.msg => p.sent
  <2> SUFFICES ASSUME NEW i \in 1..n
               PROVE  /\ rows[i].sent /\ count.ids < rows[i].id /\ rows[i].id <= count'.ids
                      /\ rows[i].msg <= count.posts
                      /\ \A p \in Range(saving) \cup onDisk : p.msg = rows[i].msg => p.sent
    BY <1>8
  <2>1. i \in Nat /\ i >= 1 /\ i <= n
    BY <1>2
  <2>2. /\ rows[i].sent /\ rows[i].id = count.ids + i /\ rows[i].msg = from + i - 1
        /\ rows[i].msg \in from..to
    BY <1>5
  <2>3. count.ids < rows[i].id /\ rows[i].id <= count'.ids
    BY SMTT(30), <1>2, <1>3, <2>1, <2>2, CountsOf
  <2>4. rows[i].msg <= count.posts
    BY <1>1, <1>2, <2>2, CountsOf
  <2> QED BY <1>1, <2>2, <2>3, <2>4
<1>11. \A a \in Range(screen) : a.id \in Nat /\ a.id <= count.ids
  <2>1. \A a \in Range(screen) : a \in ShownRow /\ a.id <= count.ids
    BY DEF ConversationSound, DatabaseSound, Standing, AllRows
  <2>2. \A a \in ShownRow : a.id \in Nat
    BY CountsOf DEF ShownRow
  <2> QED BY <2>1, <2>2
<1>12. \A a \in Range(rows) : a.id \in Nat
  <2>1. \A a \in ShownRow : a.id \in Nat
    BY CountsOf DEF ShownRow
  <2>2. Range(rows) \subseteq ShownRow
    BY <1>5, <1>8
  <2> QED BY <2>1, <2>2
<1>13. OneMessage(Range(screen) \cup Range(rows))
  <2>1. OneMessage(Range(screen))
    BY CountsOf DEF OneMessage, AllRows
  <2>2. OneMessage(Range(rows))
    <3>1. \A a, b \in Range(rows) : a.id = b.id => a = b
      BY <1>7, ListedRange
    <3> QED BY <3>1 DEF OneMessage
  <2>3. \A a \in Range(screen), b \in Range(rows) : a.id # b.id
    BY <1>10, <1>11, <1>12, CountsOf
  <2> QED BY <2>1, <2>2, <2>3 DEF OneMessage
<1>14. count.ids <= count'.ids
  BY <1>2, <1>3, CountsOf
<1>15. 1 \in 1..Len(rows)
  BY <1>2, <1>6
<1> QED BY <1>3, <1>7, <1>9, <1>10, <1>13, <1>14, <1>15

\* An answer of the server, shown.
LEMMA AnswerTaken ==
    ASSUME ConversationSound, UNCHANGED <<onDisk, saving>>,
           NEW from \in 1..MaxShown, NEW to \in 1..MaxShown,
           AnswerOf(from, to), RefillWindow(Fetched(from, to)) \/ Upsert(Fetched(from, to))
    PROVE  ConversationSound'
<1>1. PICK rows : rows = Fetched(from, to)
  OBVIOUS
<1>2. /\ Listed(rows) /\ Distinct(Range(rows))
      /\ OneMessage(Range(screen) \cup Range(rows))
      /\ \A a \in Range(rows) :
            /\ a.sent /\ count.ids < a.id /\ a.id <= count'.ids /\ a.msg <= count.posts
            /\ \A p \in Range(saving) \cup onDisk : p.msg = a.msg => p.sent
      /\ count'.posts = count.posts /\ count'.seqs = count.seqs /\ count.ids <= count'.ids
      /\ count' \in [posts : 0..MaxShown, ids : 0..MaxRowIds, seqs : 0..MaxShown]
  BY <1>1, FetchedRows
<1>3. BufferSound' /\ \A a \in Range(screen') : a \in Range(screen) \/ a \in Range(rows)
  <2>1. CASE RefillWindow(Fetched(from, to))
    BY <2>1, <1>1, <1>2, RefillSound DEF ConversationSound
  <2>2. CASE Upsert(Fetched(from, to))
    BY <2>2, <1>1, <1>2, UpsertSound DEF ConversationSound
  <2> QED BY <2>1, <2>2
<1>4. PICK new : new = Range(rows)
  OBVIOUS
<1>5. new \in SUBSET ShownRow /\ OneMessage(new)
  <2>1. Range(rows) \subseteq ShownRow
    BY <1>2, ListedRange
  <2> QED BY <2>1, <1>2, <1>4 DEF OneMessage
<1>6. \A a \in new : /\ a.sent /\ count.ids < a.id /\ a.id <= count'.ids
                     /\ a.msg <= count'.posts
                     /\ \A p \in Range(saving) \cup onDisk : p.msg = a.msg => p.sent
  BY <1>2, <1>4
<1>7. \A a \in Range(screen') : a \in Range(screen) \/ a \in new
  BY <1>3, <1>4
<1>8. Distinct(onDisk') /\ \A a \in onDisk' : a \in onDisk \/ a \in new
  BY DEF ConversationSound, DatabaseSound
<1>9. count.posts <= count'.posts
  BY <1>2, CountsOf
<1> QED BY <1>2, <1>3, <1>5, <1>6, <1>7, <1>8, <1>9, FreshTaken

LEMMA CachedOpened ==
    ASSUME ConversationSound, OpenCached
    PROVE  ConversationSound'
<1>1. RefillWindow(SetToSeq(onDisk)) /\ UNCHANGED <<onDisk, saving, count>>
  BY DEF OpenCached
<1>2. PICK rows : rows = SetToSeq(onDisk)
  OBVIOUS
<1>3. Distinct(onDisk) /\ onDisk \subseteq ShownRow /\ OneMessage(AllRows)
  BY CountsOf DEF ConversationSound, DatabaseSound
<1>4. \A a, b \in onDisk : a.id = b.id => a = b
  BY <1>3 DEF Distinct, OneMessage, AllRows
<1>5. PICK S : S = onDisk
  OBVIOUS
<1>6. Listed(rows) /\ Range(rows) = onDisk
  BY <1>2, <1>3, <1>4, <1>5, RowsAsList
<1>7. OneMessage(Range(screen) \cup Range(rows))
  BY <1>3, <1>6 DEF OneMessage, AllRows
<1>8. RefillWindow(rows)
  BY <1>1, <1>2
<1>9. BufferSound' /\ \A a \in Range(screen') : a \in Range(screen) \/ a \in Range(rows)
  BY <1>3, <1>6, <1>7, <1>8, RefillSound DEF ConversationSound
<1>10. \A a \in Range(screen') \cup onDisk' : \E b \in AllRows : b.id = a.id /\ b.msg = a.msg
  BY <1>1, <1>6, <1>9 DEF AllRows
<1>11. \A q \in onDisk' : ~q.sent =>
           \E b \in Range(saving) \cup onDisk : ~b.sent /\ b.id = q.id /\ b.msg = q.msg
  BY <1>1
<1>12. Distinct(onDisk') /\ onDisk' \subseteq ShownRow /\ UNCHANGED <<saving, count>>
  BY <1>1, <1>3
<1> QED BY <1>9, <1>10, <1>11, <1>12, QuietStanding

\* The buffer emptied.
LEMMA NothingListed ==
    ASSUME NEW list, list = <<>>
    PROVE  Listed(list) /\ Range(list) = {}
<1>1. PICK X : X = ShownRow
  OBVIOUS
<1>2. list \in Seq(X) /\ Len(list) = 0
  OBVIOUS
<1>3. Listed(list)
  BY <1>1, <1>2 DEF Listed
<1> QED BY <1>2, <1>3, ListedRange

LEMMA ResyncCleared ==
    ASSUME ConversationSound, ResyncClears
    PROVE  ConversationSound'
<1>1. PICK none : none = {}
  OBVIOUS
<1>2. PICK gone : gone = IdsOf(Range(screen))
  OBVIOUS
<1>3. /\ screen' = <<>> /\ Notify(none, gone) /\ onDisk' = {r \in onDisk : ~r.sent}
      /\ UNCHANGED <<saving, unsaid, count>>
  BY <1>1, <1>2 DEF ResyncClears
<1>4. Listed(screen') /\ Range(screen') = {}
  BY <1>3, NothingListed
<1>5. view' \subseteq ShownRow /\ \A v : v \in view' <=> v \in view /\ v.id \notin gone
  <2>1. /\ view' \subseteq ShownRow
        /\ \A v : v \in view' <=> \/ v \in none
                                  \/ v \in view /\ v.id \notin gone /\ \A u \in none : u.id # v.id
    BY <1>1, <1>3, Notified DEF ConversationSound, BufferSound
  <2> QED BY <2>1, <1>1
<1>6. ASSUME unsaid' = {} PROVE Watches(view', Range(screen'))
  <2>1. Watches(view, Range(screen)) /\ view \subseteq ShownRow
    BY <1>3, <1>6 DEF ConversationSound, BufferSound
  <2>2. \A v \in view : \E r \in Range(screen) : r.id = v.id
    BY <2>1, CountsOf, AlikeRows DEF Watches
  <2>3. \A v \in view : v.id \in gone
    BY <2>2, <1>2 DEF IdsOf
  <2> QED BY <2>3, <1>4, <1>5 DEF Watches
<1>7. BufferSound'
  BY <1>3, <1>4, <1>5, <1>6 DEF ConversationSound, BufferSound, Distinct, Listed, Watches
<1>8. Distinct(onDisk') /\ onDisk' \subseteq ShownRow /\ \A a \in onDisk' : a \in onDisk
  BY <1>3, CountsOf DEF ConversationSound, DatabaseSound, Distinct
<1>9. \A a \in Range(screen') \cup onDisk' : \E b \in AllRows : b.id = a.id /\ b.msg = a.msg
  BY <1>4, <1>8 DEF AllRows
<1>10. \A q \in onDisk' : ~q.sent =>
           \E b \in Range(saving) \cup onDisk : ~b.sent /\ b.id = q.id /\ b.msg = q.msg
  BY <1>8
<1>11. UNCHANGED <<saving, count>>
  BY <1>3
<1> QED BY <1>7, <1>8, <1>9, <1>10, <1>11, QuietStanding

LEMMA OwnerChanged ==
    ASSUME ConversationSound, OwnerChanges
    PROVE  ConversationSound'
<1>1. /\ screen' = <<>> /\ onDisk' = {} /\ UNCHANGED <<saving, view, count>>
      /\ unsaid' = unsaid \cup Untold("cleared", Range(screen))
  BY DEF OwnerChanges
<1>2. Listed(screen') /\ Range(screen') = {}
  BY <1>1, NothingListed
<1>3. unsaid' \subseteq {"absorbed", "refilled", "cleared"}
  BY <1>1 DEF Untold, ConversationSound, BufferSound
<1>4. unsaid' = {} => Watches(view', Range(screen'))
  BY <1>1, <1>2 DEF Untold, ConversationSound, BufferSound
<1>5. BufferSound'
  BY <1>1, <1>2, <1>3, <1>4 DEF ConversationSound, BufferSound, Distinct, Listed, Watches
<1>6. Distinct(onDisk') /\ onDisk' \subseteq ShownRow
  BY <1>1 DEF Distinct
<1>7. \A a \in Range(screen') \cup onDisk' : \E b \in AllRows : b.id = a.id /\ b.msg = a.msg
  BY <1>1, <1>2
<1>8. \A q \in onDisk' : ~q.sent =>
          \E b \in Range(saving) \cup onDisk : ~b.sent /\ b.id = q.id /\ b.msg = q.msg
  BY <1>1
<1>9. UNCHANGED <<saving, count>>
  BY <1>1
<1> QED BY <1>5, <1>6, <1>7, <1>8, <1>9, QuietStanding

LEMMA ObserverJoined ==
    ASSUME ConversationSound, ObserverJoins
    PROVE  ConversationSound'
<1>1. view' = Range(screen) /\ unsaid' = {} /\ UNCHANGED <<screen, onDisk, saving, count>>
  BY DEF ObserverJoins
<1>2. Watches(view', Range(screen'))
  <2>1. \A r \in Range(screen) : Alike(r, r)
    BY CountsOf, AlikeRows
  <2> QED BY <1>1, <2>1 DEF Watches
<1>3. BufferSound'
  BY <1>1, <1>2, CountsOf DEF ConversationSound, BufferSound, Distinct, Listed, Watches
<1>4. Distinct(onDisk') /\ onDisk' \subseteq ShownRow
  BY <1>1, CountsOf DEF ConversationSound, DatabaseSound
<1>5. \A a \in Range(screen') \cup onDisk' : \E b \in AllRows : b.id = a.id /\ b.msg = a.msg
  BY <1>1 DEF AllRows
<1>6. \A q \in onDisk' : ~q.sent =>
          \E b \in Range(saving) \cup onDisk : ~b.sent /\ b.id = q.id /\ b.msg = q.msg
  BY <1>1
<1>7. UNCHANGED <<saving, count>>
  BY <1>1
<1> QED BY <1>3, <1>4, <1>5, <1>6, <1>7, QuietStanding

LEMMA FeedReloaded ==
    ASSUME ConversationSound, FeedReloads
    PROVE  ConversationSound'
<1>1. /\ screen' = <<>> /\ saving' = <<>> /\ view' = {} /\ unsaid' = {}
      /\ UNCHANGED <<onDisk, count>>
  BY DEF FeedReloads
<1>2. Listed(screen') /\ Range(screen') = {}
  BY <1>1, NothingListed
<1>3. BufferSound'
  BY <1>1, <1>2 DEF BufferSound, Distinct, Listed, Watches
<1>4. Distinct(onDisk') /\ onDisk' \subseteq ShownRow
  BY <1>1, CountsOf DEF ConversationSound, DatabaseSound
<1>5. saving' \in Seq(ShownRow) /\ Len(saving') = 0 /\ Range(saving') = {}
  BY <1>1, <1>2 DEF Listed
<1>6. count'.seqs + Len(saving') <= count'.posts
  BY <1>1, <1>5, CountsOf DEF ConversationSound, DatabaseSound
<1>7. \A a \in Range(screen') \cup onDisk' : \E b \in AllRows : b.id = a.id /\ b.msg = a.msg
  BY <1>1, <1>2 DEF AllRows
<1>8. \A q \in onDisk' : ~q.sent =>
          \E b \in Range(saving) \cup onDisk : ~b.sent /\ b.id = q.id /\ b.msg = q.msg
  BY <1>1
<1>9. count' \in [posts : 0..MaxShown, ids : 0..MaxRowIds, seqs : 0..MaxShown]
  BY <1>1 DEF ConversationSound, DatabaseSound
<1>10. \A p \in Range(saving') : p \in Range(saving)
  BY <1>5
<1>11. count'.ids = count.ids /\ count'.posts = count.posts
  BY <1>1
<1> QED BY <1>3, <1>4, <1>5, <1>6, <1>7, <1>8, <1>9, <1>10, <1>11, SameStanding

\* Every step of the feed.
LEMMA ConversationStep ==
    ASSUME ConversationSound, ConversationNext
    PROVE  ConversationSound'
<1>1. CASE \E face \in {0, 1} : PushArrives(face)
  BY <1>1, PushTaken
<1>2. CASE OpenAnswer
  <2>1. PICK from \in 1..MaxShown, to \in 1..MaxShown :
            AnswerOf(from, to) /\ RefillWindow(Fetched(from, to))
    BY <1>2 DEF OpenAnswer
  <2>2. UNCHANGED <<onDisk, saving>>
    BY <1>2 DEF OpenAnswer
  <2> QED BY <2>1, <2>2, AnswerTaken
<1>3. CASE ScrollAnswer
  <2>1. PICK from \in 1..MaxShown, to \in 1..MaxShown :
            AnswerOf(from, to) /\ Upsert(Fetched(from, to))
    BY <1>3 DEF ScrollAnswer
  <2>2. UNCHANGED <<onDisk, saving>>
    BY <1>3 DEF ScrollAnswer
  <2> QED BY <2>1, <2>2, AnswerTaken
<1> QED BY <1>1, <1>2, <1>3, EchoSent, EchoStored, EchoFailed, AckTaken, PendingDiscarded,
           CachedOpened, ResyncCleared, OwnerChanged, ObserverJoined, FeedReloaded
        DEF ConversationNext

LEMMA ConversationStill ==
    ASSUME ConversationSound, UNCHANGED conversationVars
    PROVE  ConversationSound'
BY DEF ConversationSound, conversationVars, BufferSound, DatabaseSound, Distinct, Listed, Watches,
       Standing, OneMessage, AllRows

\* What the invariant says of the observer, and of the types.
LEMMA ObserverIsTold ==
    ASSUME ConversationSound
    PROVE  PatchesTell /\ ConversationTypeOK
<1>1. ASSUME unsaid = {}
      PROVE  {[r EXCEPT !.seq = 0] : r \in Range(screen)} = {[v EXCEPT !.seq = 0] : v \in view}
  <2>1. Watches(view, Range(screen))
    BY <1>1 DEF ConversationSound, BufferSound
  <2> DEFINE Seen(r) == [r EXCEPT !.seq = 0]
  <2>2. \A v, r : Alike(v, r) <=> Seen(v) = Seen(r)
    BY DEF Alike
  <2> HIDE DEF Seen
  <2>3. /\ \A r \in Range(screen) : \E v \in view : Seen(v) = Seen(r)
        /\ \A v \in view : \E r \in Range(screen) : Seen(v) = Seen(r)
    BY <2>1, <2>2 DEF Watches
  <2>4. {Seen(r) : r \in Range(screen)} = {Seen(v) : v \in view}
    BY <2>3
  <2> QED BY <2>4 DEF Seen
<1>2. \A i, j \in 1..Len(screen) : i # j => screen[i].msg # screen[j].msg
  <2>1. Listed(screen) /\ Distinct(Range(screen))
    BY DEF ConversationSound, BufferSound
  <2>2. \A i \in 1..Len(screen) : screen[i] \in Range(screen)
    BY <2>1, ListedRange
  <2> QED BY <2>1, <2>2 DEF Listed, Distinct
<1>3. \A r \in view : [r EXCEPT !.seq = 0] \in ShownRow
  <2>1. view \subseteq ShownRow
    BY DEF ConversationSound, BufferSound
  <2>2. 0 \in 0..MaxShown
    BY CountsOf
  <2> QED BY <2>1, <2>2 DEF ShownRow
<1>4. Range(screen) \cup Range(saving) \cup onDisk \subseteq ShownRow
  BY CountsOf
<1>5. /\ unsaid \subseteq {"absorbed", "refilled", "cleared"}
      /\ count \in [posts : 0..MaxShown, ids : 0..MaxRowIds, seqs : 0..MaxShown]
  BY DEF ConversationSound, BufferSound, DatabaseSound
<1> QED BY <1>1, <1>2, <1>3, <1>4, <1>5 DEF PatchesTell, ConversationTypeOK

=============================================================================
