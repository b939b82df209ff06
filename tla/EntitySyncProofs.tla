-------------------------- MODULE EntitySyncProofs ---------------------------
(***************************************************************************)
(* The user profiles of one tab for any set of users, any number of server *)
(* changes and any window of remembered ids: the inductive invariant       *)
(* EntitySound and the safety properties of EntitySync that follow.        *)
(***************************************************************************)
EXTENDS EntitySync, WellFoundedInduction, TLAPS

\* The key a running sync works on, and the phases each sync goes through.
Busy(j) == job[j].at \notin {"idle", "done", "synced"}

Placed ==
    /\ \A k \in Keys : job[k].at # "idle" => running
    /\ \A k \in Keys : Busy(k) => job[k].who = k
    /\ job[Boot].who = All
    /\ Busy(Refresh) => job[Refresh].who \in Users
    /\ job[Refresh].at \notin {"sizing", "publishing"}
    /\ \A j \in Jobs : job[j].at \in {"hydrating", "hydrated"} => j = Boot
    /\ \A j \in Jobs : job[j].at = "sizing" => job[j].who = All
    /\ \A j \in Jobs : job[j].at = "replied" => j = Refresh

\* Nothing is announced, fetched or stored before the server has it.
Sourced ==
    /\ \A n \in mail : n.key \in {n.user, All} /\ n.id <= srv[n.user]
    /\ \A u \in Users : heard[u] <= srv[u] /\ disk[u] <= srv[u] /\ mem[u] <= srv[u]
    /\ \A j \in Jobs, u \in Users : job[j].got[u] <= srv[u] /\ job[j].base[u] <= srv[u]
    /\ \A j \in Jobs : job[j].since <= Top(srv)

\* A queued key has its timer set, or a flush that will set it at its end.
Queued ==
    /\ pending # {} => armed \/ running
    /\ disposed => pending = {} /\ heard = NoRows

\* What the database holds is in memory, or a running sync is about to put it
\* there; only a tab just loaded is behind, and a hydration under way is behind
\* by what was stored since it read.
Publishing(u) == \E i \in Jobs : At(i, "publishing") /\ job[i].got[u] >= disk[u]

Shown == \A u \in Users : disk[u] > mem[u] => cold \/ Publishing(u)

HydrationShows(j) ==
    \A u \in Users :
        At(j, "hydrated") /\ disk[u] > mem[u] /\ disk[u] > job[j].got[u] => Publishing(u)

\* The changes up to v are in these rows.
Passed(rows, v) == \A u \in Users : srv[u] <= v => srv[u] <= rows[u]

\* The cursor of a sweep, and then each row of its answer, has passed only
\* changes that are in the cache or in the answer.
SweepIsWhole(j) ==
    job[j].who = All =>
        /\ At(j, "sizing") => Passed(Both(disk, mem), job[j].since)
        /\ At(j, "asking") => ~cold /\ Passed(disk, job[j].since)
        /\ job[j].at \in {"answered", "merging", "publishing"} =>
             \A v \in Users : Passed(Both(disk, job[j].got), job[j].got[v])

\* What a sync has read of the cache, or put into it, the cache has not lost.
SyncKeeps(j) ==
    \A u \in Users :
        /\ At(j, "hydrated") => job[j].got[u] <= disk[u]
        /\ At(j, "merging") => job[j].base[u] <= disk[u]
        /\ j = Refresh /\ job[j].at \in {"answered", "merging"} => job[j].got[u] <= mem[u]

Honest(rows) == \A v \in Users : Passed(rows, rows[v])

Whole ==
    /\ Shown /\ Honest(disk) /\ Honest(Both(disk, mem))
    /\ \A j \in Jobs : SweepIsWhole(j) /\ SyncKeeps(j) /\ HydrationShows(j)

EntitySound ==
    /\ EntityTypeOK /\ Placed /\ Sourced /\ Queued
    /\ hazards = {} => Whole
    /\ AnnouncedIsOwed

-----------------------------------------------------------------------------
(* The largest version of a copy.                                          *)

\* A nonempty set of versions has a largest one.
LEMMA LargestVersion ==
    ASSUME NEW S, S \subseteq Version, S # {}
    PROVE  Max(S) \in S /\ \A v \in S : v <= Max(S)
<1> DEFINE T == {MaxVersion - v : v \in S}
<1>1. MaxVersion \in Nat BY EntityAssumption
<1>2. T \subseteq Nat
  <2>1. \A v \in S : v \in Nat /\ MaxVersion - v \in Nat BY <1>1 DEF Version
  <2> QED BY <2>1
<1>5. T # {}
  <2>1. PICK v \in S : TRUE OBVIOUS
  <2>2. MaxVersion - v \in T OBVIOUS
  <2> QED BY <2>2
<1> HIDE DEF T
<1>3. \E x \in T : \A y \in T : ~ (<<y, x>> \in OpToRel(<, Nat))
  BY <1>2, <1>5, NatLessThanWellFounded, WFMin
<1>4. PICK x \in T : \A y \in T : ~ (y < x) BY <1>2, <1>3 DEF OpToRel
<1>6. PICK m \in S : x = MaxVersion - m BY <1>4 DEF T
<1>7. \A v \in S : m >= v
  <2>1. TAKE v \in S
  <2>2. ~ (MaxVersion - v < MaxVersion - m) BY <1>4, <1>6 DEF T
  <2> QED BY <1>1, <2>2 DEF Version
<1> QED BY <1>7 DEF Max, Version

\* Top is the largest version of a row, 0 when there is none.
LEMMA TopIsLargest ==
    ASSUME NEW rows \in Rows
    PROVE  /\ Top(rows) \in Version
           /\ \A u \in Users : rows[u] <= Top(rows)
           /\ Top(rows) = 0 \/ \E u \in Users : Top(rows) = rows[u]
<1> DEFINE S == {0} \cup {rows[u] : u \in Users}
<1>1. S \subseteq Version /\ S # {} BY EntityAssumption DEF Rows, Version
<1>2. Max(S) \in S /\ \A v \in S : v <= Max(S) BY <1>1, LargestVersion
<1>3. Top(rows) = Max(S) BY DEF Top
<1> QED BY <1>1, <1>2, <1>3

\* Merging and choosing keep a copy a copy.
LEMMA CopiesStayCopies ==
    /\ NoRows \in Rows
    /\ \A a, b \in Rows : Over(a, b) \in Rows /\ Both(a, b) \in Rows
    /\ \A u \in Users, v \in Version : Only(u, v) \in Rows
BY EntityAssumption DEF NoRows, Rows, Version, Over, Both, Larger, Only

\* What merging and choosing do to one row.
LEMMA RowByRow ==
    ASSUME NEW a \in Rows, NEW b \in Rows, NEW u \in Users
    PROVE  /\ Over(a, b)[u] = IF b[u] # 0 THEN b[u] ELSE a[u]
           /\ Both(a, b)[u] = Larger(a[u], b[u])
           /\ a[u] \in Nat /\ b[u] \in Nat /\ NoRows[u] = 0
BY EntityAssumption DEF Over, Both, Rows, Version, NoRows

-----------------------------------------------------------------------------
(* Type correctness.                                                       *)

\* EntityTypeOK, in three parts.
CopiesOK ==
    /\ srv \in Rows /\ disk \in Rows /\ mem \in Rows /\ heard \in Rows
    /\ cold \in BOOLEAN

QueueOK ==
    /\ mail \subseteq Mail
    /\ seen \in Seq(Version) /\ Len(seen) <= SeenWindow
    /\ pending \subseteq Keys
    /\ armed \in BOOLEAN /\ running \in BOOLEAN /\ disposed \in BOOLEAN

JobsOK ==
    /\ job \in [Jobs -> Job]
    /\ hazards \subseteq {"targeted", "stale", "raced", "blank", "cold", "ahead"}

LEMMA TypeInParts == EntityTypeOK <=> CopiesOK /\ QueueOK /\ JobsOK
<1>1. {cold, armed, running, disposed} \subseteq BOOLEAN
        <=> cold \in BOOLEAN /\ armed \in BOOLEAN /\ running \in BOOLEAN /\ disposed \in BOOLEAN
  OBVIOUS
<1> QED BY <1>1 DEF EntityTypeOK, CopiesOK, QueueOK, JobsOK

\* Where a sync can be after a step of it.
LEMMA IdleIsJob ==
    /\ Idle \in Job
    /\ \A k \in Keys, v \in Version : [Idle EXCEPT !.who = k, !.since = v] \in Job
<1>1. All \in Keys /\ 0 \in Version BY EntityAssumption DEF Keys, Version
<1>2. NoRows \in Rows BY CopiesStayCopies
<1>3. Idle \in Job BY <1>1, <1>2 DEF Idle, Job
<1>4. ASSUME NEW k \in Keys, NEW v \in Version
      PROVE  [Idle EXCEPT !.who = k, !.since = v] \in Job
  BY <1>3, <1>4 DEF Job
<1> QED BY <1>3, <1>4

LEMMA JobFields ==
    ASSUME JobsOK, NEW j \in Jobs
    PROVE  /\ job[j].at \in {"idle", "hydrating", "hydrated", "sizing", "asking", "replied",
                             "answered", "merging", "publishing", "done", "synced"}
           /\ job[j].who \in Keys /\ job[j].since \in Version
           /\ job[j].got \in Rows /\ job[j].base \in Rows
BY DEF JobsOK, Job

\* What an answer brings is a copy.
LEMMA AnswerIsCopy ==
    ASSUME CopiesOK, JobsOK, NEW j \in Jobs
    PROVE  Fetched(j) \in Rows
<1>1. job[j].who \in Keys BY JobFields
<1>2. CASE job[j].who = All
  BY <1>2, EntityAssumption DEF CopiesOK, Fetched, Rows, Version
<1>3. CASE job[j].who # All
  <2>1. job[j].who \in Users BY <1>1, <1>3 DEF Keys
  <2>2. srv[job[j].who] \in Version BY <2>1 DEF CopiesOK, Rows
  <2>3. Fetched(j) = Only(job[j].who, srv[job[j].who]) BY <1>3 DEF Fetched
  <2> QED BY <2>1, <2>2, <2>3, CopiesStayCopies
<1> QED BY <1>2, <1>3

\* A sync that begins, waits or is over is a job.
LEMMA StartsAreJobs ==
    ASSUME CopiesOK
    PROVE  /\ \A v \in Version, l \in {"idle", "hydrating", "sizing", "done", "synced"} :
                [Idle EXCEPT !.at = l, !.since = v] \in Job /\ [Idle EXCEPT !.at = l] \in Job
           /\ \A k \in Keys : Begun(k) \in Job
           /\ \A u \in Users : [Idle EXCEPT !.at = "asking", !.who = u] \in Job
           /\ Top(mem) \in Version
<1>1. Top(mem) \in Version BY TopIsLargest DEF CopiesOK
<1>2. \A v \in Version, l \in {"idle", "hydrating", "sizing", "done", "synced"} :
        [Idle EXCEPT !.at = l, !.since = v] \in Job /\ [Idle EXCEPT !.at = l] \in Job
  BY IdleIsJob DEF Job
<1>3. ASSUME NEW k \in Keys PROVE [Idle EXCEPT !.at = "asking", !.who = k] \in Job
  BY <1>3, IdleIsJob DEF Job
<1>4. \A k \in Keys : Begun(k) \in Job BY <1>1, <1>2, <1>3 DEF Begun
<1> QED BY <1>1, <1>2, <1>3, <1>4 DEF Keys

\* One sync moves: the others stay.
LEMMA OneMoves ==
    ASSUME JobsOK, NEW j \in Jobs
    PROVE  /\ \A r \in Job : [job EXCEPT ![j] = r] \in [Jobs -> Job]
           /\ \A l \in {"done", "synced", "idle"} :
                [job EXCEPT ![j] = [Idle EXCEPT !.at = l]] \in [Jobs -> Job]
<1>1. \A l \in {"done", "synced", "idle"} : [Idle EXCEPT !.at = l] \in Job
  BY IdleIsJob DEF Job
<1> QED BY <1>1 DEF JobsOK

\* Every step keeps the types.
LEMMA TypeStep == EntityTypeOK /\ [Next]_vars => EntityTypeOK'
<1> SUFFICES ASSUME CopiesOK, QueueOK, JobsOK, [Next]_vars
             PROVE  CopiesOK' /\ QueueOK' /\ JobsOK'
  <2>1. EntityTypeOK' <=> CopiesOK' /\ QueueOK' /\ JobsOK'
    <3>1. {cold, armed, running, disposed}' \subseteq BOOLEAN
            <=> /\ cold' \in BOOLEAN /\ armed' \in BOOLEAN /\ running' \in BOOLEAN
                /\ disposed' \in BOOLEAN
      OBVIOUS
    <3> QED BY <3>1 DEF EntityTypeOK, CopiesOK, QueueOK, JobsOK
  <2> QED BY <2>1, TypeInParts
<1> USE DEF cacheVars, queueVars
<1>1. ASSUME NEW u \in Users, Change(u) PROVE CopiesOK' /\ QueueOK' /\ JobsOK'
  <2>1. Top(srv) \in Version /\ Top(srv) + 1 \in Version
    BY <1>1, TopIsLargest, EntityAssumption DEF Change, CopiesOK, Version
  <2>2. srv' \in Rows /\ srv'[u] \in Version BY <1>1, <2>1 DEF Change, CopiesOK, Rows
  <2>3. PICK k \in {u, All} : mail' = mail \cup {[key |-> k, user |-> u, id |-> srv'[u]]}
    BY <1>1 DEF Change
  <2>4. [key |-> k, user |-> u, id |-> srv'[u]] \in Mail BY <2>2 DEF Mail, Keys
  <2>5. mail' \subseteq Mail BY <2>3, <2>4 DEF QueueOK
  <2> QED BY <1>1, <2>2, <2>5 DEF Change, CopiesOK, QueueOK, JobsOK
<1>2. ASSUME NEW u \in Users, RefreshUser(u) PROVE CopiesOK' /\ QueueOK' /\ JobsOK'
  <2>1. job' \in [Jobs -> Job] BY <1>2, OneMoves, StartsAreJobs DEF RefreshUser, Jobs
  <2> QED BY <1>2, <2>1 DEF RefreshUser, CopiesOK, QueueOK, JobsOK
<1>3. ASSUME NEW n \in mail, Deliver(n) PROVE CopiesOK' /\ QueueOK' /\ JobsOK'
  <2>1. n.key \in Keys /\ n.user \in Users /\ n.id \in Version BY DEF QueueOK, Mail
  <2>2. seen' \in Seq(Version) /\ Len(seen') <= SeenWindow
    BY <1>3, <2>1, EntityAssumption DEF Deliver, QueueOK
  <2>3. heard' \in Rows BY <1>3, <2>1 DEF Deliver, CopiesOK, Rows, Larger
  <2>4. pending' \subseteq Keys /\ armed' \in BOOLEAN BY <1>3, <2>1 DEF Deliver, Queue, QueueOK
  <2> QED BY <1>3, <2>2, <2>3, <2>4 DEF Deliver, CopiesOK, QueueOK, JobsOK
<1>4. CASE Reconnected
  <2>1. Unresolved \subseteq Keys BY EntityAssumption DEF Unresolved, Keys
  <2> QED BY <1>4, <2>1 DEF Reconnected, Queue, CopiesOK, QueueOK, JobsOK
<1>5. CASE Connect
  BY <1>5, CopiesStayCopies DEF Connect, CopiesOK, QueueOK, JobsOK
<1>6. CASE Dispose
  BY <1>6, CopiesStayCopies DEF Dispose, CopiesOK, QueueOK, JobsOK
<1>7. CASE Reload
  <2>1. job' \in [Jobs -> Job] BY <1>7, IdleIsJob DEF Reload
  <2>2. seen' \in Seq(Version) /\ Len(seen') <= SeenWindow
    BY <1>7, EntityAssumption DEF Reload
  <2>3. cold' \in BOOLEAN BY <1>7 DEF Reload
  <2> QED BY <1>7, <2>1, <2>2, <2>3, CopiesStayCopies DEF Reload, CopiesOK, QueueOK, JobsOK
<1>8. CASE Bootstrapped
  <2>1. Unresolved \subseteq Keys BY EntityAssumption DEF Unresolved, Keys
  <2>2. job' \in [Jobs -> Job]
    BY <1>8, OneMoves, StartsAreJobs DEF Bootstrapped, Jobs, JobsOK
  <2>3. hazards' \subseteq {"targeted", "stale", "raced", "blank", "cold", "ahead"}
    BY <1>8 DEF Bootstrapped, Note, JobsOK
  <2> QED BY <1>8, <2>1, <2>2, <2>3 DEF Bootstrapped, Queue, CopiesOK, QueueOK, JobsOK
<1>9. CASE TimerFires
  <2>1. CASE running \/ disposed
    BY <1>9, <2>1 DEF TimerFires, CopiesOK, QueueOK, JobsOK
  <2>2. CASE ~ (running \/ disposed)
    <3>1. \A j \in Jobs : (IF j \in pending THEN Begun(j) ELSE job[j]) \in Job
      BY StartsAreJobs DEF QueueOK, JobsOK
    <3> QED BY <1>9, <2>2, <3>1 DEF TimerFires, CopiesOK, QueueOK, JobsOK
  <2> QED BY <2>1, <2>2
<1>10. CASE FlushEnds
  <2>1. \A j \in Jobs : (IF j \in Keys THEN Idle ELSE job[j]) \in Job
    BY IdleIsJob DEF JobsOK
  <2> QED BY <1>10, <2>1 DEF FlushEnds, CopiesOK, QueueOK, JobsOK
<1>11. ASSUME NEW j \in Jobs, Step(j) PROVE CopiesOK' /\ QueueOK' /\ JobsOK'
  <2>1. CASE HydrateRead(j)
    <3>1. job' \in [Jobs -> Job] BY <2>1 DEF HydrateRead, JobsOK, Job, CopiesOK
    <3> QED BY <2>1, <3>1 DEF HydrateRead, CopiesOK, QueueOK, JobsOK
  <2>2. CASE Hydrate(j)
    <3>1. mem' \in Rows BY <2>2, JobFields, CopiesStayCopies DEF Hydrate, CopiesOK
    <3>2. Top(mem') \in Version BY <3>1, TopIsLargest
    <3>3. job' \in [Jobs -> Job]
      <4>1. [Idle EXCEPT !.at = "sizing", !.since = Top(mem')] \in Job
        BY <3>2, StartsAreJobs
      <4> QED BY <2>2, <4>1, OneMoves DEF Hydrate
    <3> QED BY <2>2, <3>1, <3>3 DEF Hydrate, Note, CopiesOK, QueueOK, JobsOK
  <2>3. CASE Size(j)
    <3>1. Larger(job[j].since, Top(disk)) \in Version
      BY JobFields, TopIsLargest DEF CopiesOK, Larger
    <3>2. job' \in [Jobs -> Job] BY <2>3, <3>1 DEF Size, JobsOK, Job
    <3> QED BY <2>3, <3>2 DEF Size, Note, CopiesOK, QueueOK, JobsOK
  <2>4. CASE Answer(j)
    <3>1. Fetched(j) \in Rows /\ 0 \in Version
      BY AnswerIsCopy, EntityAssumption DEF Version
    <3>2. \A l \in {"replied", "answered"} :
            [job[j] EXCEPT !.at = l, !.since = 0, !.got = Fetched(j)] \in Job
      BY <3>1 DEF JobsOK, Job
    <3>3. job' = [job EXCEPT ![j] = [job[j] EXCEPT
                    !.at = IF j = Refresh THEN "replied" ELSE "answered",
                    !.since = 0, !.got = Fetched(j)]]
      BY <2>4 DEF Answer, JobsOK
    <3>4. job' \in [Jobs -> Job] BY <3>2, <3>3, OneMoves
    <3> QED BY <2>4, <3>4 DEF Answer, CopiesOK, QueueOK, JobsOK
  <2>5. CASE AnswerEmpty(j)
    <3>1. job' \in [Jobs -> Job]
      BY <2>5, OneMoves DEF AnswerEmpty, Fail, End, Finish
    <3>2. pending' \subseteq Keys BY <2>5 DEF AnswerEmpty, Fail, QueueOK
    <3>3. hazards' \subseteq {"targeted", "stale", "raced", "blank", "cold", "ahead"}
      BY <2>5 DEF AnswerEmpty, Note, JobsOK
    <3> QED BY <2>5, <3>1, <3>2, <3>3 DEF AnswerEmpty, CopiesOK, QueueOK, JobsOK
  <2>6. CASE Persist(j)
    <3>1. mem' \in Rows /\ disk' \in Rows
      BY <2>6, JobFields, CopiesStayCopies DEF Persist, Land, CopiesOK
    <3>2. job' \in [Jobs -> Job] BY <2>6 DEF Persist, Goto, JobsOK, Job
    <3> QED BY <2>6, <3>1, <3>2 DEF Persist, Land, Note, CopiesOK, QueueOK, JobsOK
  <2>7. CASE Get(j)
    <3>1. job' \in [Jobs -> Job] BY <2>7 DEF Get, JobsOK, Job, CopiesOK
    <3> QED BY <2>7, <3>1 DEF Get, CopiesOK, QueueOK, JobsOK
  <2>8. CASE Put(j)
    <3>1. Merged(j) \in Rows
      BY JobFields, EntityAssumption DEF Merged, Rows, Version
    <3>2. disk' \in Rows /\ mem' \in Rows
      BY <2>8, <3>1, CopiesStayCopies DEF Put, Land, CopiesOK
    <3>3. job' \in [Jobs -> Job]
      <4>1. CASE j = Refresh BY <2>8, <4>1, OneMoves DEF Put, End, Finish
      <4>2. CASE j # Refresh BY <2>8, <4>2, CopiesStayCopies DEF Put, JobsOK, Job
      <4> QED BY <4>1, <4>2
    <3> QED BY <2>8, <3>2, <3>3 DEF Put, Land, Note, CopiesOK, QueueOK, JobsOK
  <2>9. CASE Publish(j)
    <3>1. mem' \in Rows /\ disk' \in Rows
      BY <2>9, JobFields, CopiesStayCopies DEF Publish, Land, CopiesOK
    <3>2. job' \in [Jobs -> Job] BY <2>9, OneMoves DEF Publish, End, Finish
    <3> QED BY <2>9, <3>1, <3>2 DEF Publish, Land, Note, CopiesOK, QueueOK, JobsOK
  <2>10. CASE Fails(j)
    <3>1. job' \in [Jobs -> Job]
      BY <2>10, OneMoves, StartsAreJobs DEF Fails, Fail, Finish
    <3>2. pending' \subseteq Keys BY <2>10 DEF Fails, Fail, QueueOK
    <3> QED BY <2>10, <3>1, <3>2 DEF Fails, CopiesOK, QueueOK, JobsOK
  <2> QED BY <1>11, <2>1, <2>2, <2>3, <2>4, <2>5, <2>6, <2>7, <2>8, <2>9, <2>10 DEF Step
<1>12. CASE UNCHANGED vars BY <1>12 DEF vars, CopiesOK, QueueOK, JobsOK
<1> QED BY <1>1, <1>2, <1>3, <1>4, <1>5, <1>6, <1>7, <1>8, <1>9, <1>10, <1>11, <1>12 DEF Next

-----------------------------------------------------------------------------
(* What a step of a sync does to the jobs.                                 *)

\* The fields of a job.
Fields(r, at, who, since, got, base) ==
    /\ r.at = at /\ r.who = who /\ r.since = since /\ r.got = got /\ r.base = base

\* The phase a sync is left in when it ends, and when it fails.
Ended(j) == IF j \in Keys THEN "done" ELSE IF j = Boot THEN "synced" ELSE "idle"
Failed(j) == IF j \in Keys THEN "done" ELSE "idle"

\* Only the sync that steps moves.
LEMMA OthersStay ==
    ASSUME JobsOK, NEW j \in Jobs, Step(j)
    PROVE  \A i \in Jobs \ {j} : job'[i] = job[i]
<1>1. CASE HydrateRead(j) BY <1>1 DEF HydrateRead, JobsOK
<1>2. CASE Hydrate(j) BY <1>2 DEF Hydrate, JobsOK
<1>3. CASE Size(j) BY <1>3 DEF Size, JobsOK
<1>4. CASE Answer(j) BY <1>4 DEF Answer, JobsOK
<1>5. CASE AnswerEmpty(j) BY <1>5 DEF AnswerEmpty, Fail, End, Finish, JobsOK
<1>6. CASE Persist(j) BY <1>6 DEF Persist, Goto, JobsOK
<1>7. CASE Get(j) BY <1>7 DEF Get, JobsOK
<1>8. CASE Put(j) BY <1>8 DEF Put, End, Finish, JobsOK
<1>9. CASE Publish(j) BY <1>9 DEF Publish, End, Finish, JobsOK
<1>10. CASE Fails(j) BY <1>10 DEF Fails, Fail, Finish, JobsOK
<1> QED BY <1>1, <1>2, <1>3, <1>4, <1>5, <1>6, <1>7, <1>8, <1>9, <1>10 DEF Step

\* And this is how.
LEMMA Moves ==
    ASSUME JobsOK, NEW j \in Jobs
    PROVE  LET r == job[j] IN
           /\ HydrateRead(j) => Fields(job'[j], "hydrated", r.who, r.since, disk, r.base)
           /\ Hydrate(j) => Fields(job'[j], "sizing", All, Top(mem'), NoRows, NoRows)
           /\ Size(j) => Fields(job'[j], "asking", r.who, Larger(r.since, Top(disk)), r.got, r.base)
           /\ Answer(j) => Fields(job'[j], IF j = Refresh THEN "replied" ELSE "answered",
                                  r.who, 0, Fetched(j), r.base)
           /\ Persist(j) => Fields(job'[j], "answered", r.who, r.since, r.got, r.base)
           /\ Get(j) => Fields(job'[j], "merging", r.who, r.since, r.got, disk)
           /\ Put(j) => IF j = Refresh
                        THEN Fields(job'[j], "idle", All, 0, NoRows, NoRows)
                        ELSE Fields(job'[j], "publishing", r.who, r.since, r.got, NoRows)
           /\ Publish(j) => Fields(job'[j], Ended(j), All, 0, NoRows, NoRows)
           /\ AnswerEmpty(j) => \/ Fields(job'[j], Failed(j), All, 0, NoRows, NoRows)
                                \/ Fields(job'[j], Ended(j), All, 0, NoRows, NoRows)
           /\ Fails(j) => \/ At(j, "hydrating")
                             /\ Fields(job'[j], "sizing", All, Top(mem), NoRows, NoRows)
                          \/ ~At(j, "hydrating")
                             /\ Fields(job'[j], Failed(j), All, 0, NoRows, NoRows)
<1> USE DEF Fields, JobsOK, Job
<1>1. \A r \in Job : [job EXCEPT ![j] = r][j] = r OBVIOUS
<1>2. \A l \in {"done", "synced", "idle"} :
        Finish(j, l) => Fields(job'[j], l, All, 0, NoRows, NoRows)
  BY DEF Finish, Idle
<1>3. HydrateRead(j) => Fields(job'[j], "hydrated", job[j].who, job[j].since, disk, job[j].base)
  BY DEF HydrateRead
<1>4. Hydrate(j) => Fields(job'[j], "sizing", All, Top(mem'), NoRows, NoRows)
  BY DEF Hydrate, Idle
<1>5. Size(j) => Fields(job'[j], "asking", job[j].who, Larger(job[j].since, Top(disk)),
                        job[j].got, job[j].base)
  BY DEF Size
<1>6. Answer(j) => Fields(job'[j], IF j = Refresh THEN "replied" ELSE "answered",
                          job[j].who, 0, Fetched(j), job[j].base)
  <2> SUFFICES ASSUME Answer(j)
               PROVE  Fields(job'[j], IF j = Refresh THEN "replied" ELSE "answered",
                             job[j].who, 0, Fetched(j), job[j].base)
    OBVIOUS
  <2>1. job' = [job EXCEPT ![j] = [job[j] EXCEPT
                  !.at = IF j = Refresh THEN "replied" ELSE "answered",
                  !.since = 0, !.got = Fetched(j)]]
    BY DEF Answer
  <2> QED BY <2>1
<1>7. Persist(j) => Fields(job'[j], "answered", job[j].who, job[j].since, job[j].got, job[j].base)
  BY DEF Persist, Goto
<1>8. Get(j) => Fields(job'[j], "merging", job[j].who, job[j].since, job[j].got, disk)
  BY DEF Get
<1>9. Put(j) => IF j = Refresh
                THEN Fields(job'[j], "idle", All, 0, NoRows, NoRows)
                ELSE Fields(job'[j], "publishing", job[j].who, job[j].since, job[j].got, NoRows)
  <2>1. Refresh \notin Keys /\ Refresh # Boot BY EntityAssumption DEF Keys
  <2>2. CASE j = Refresh BY <1>2, <2>1, <2>2 DEF Put, End
  <2>3. CASE j # Refresh BY <2>3 DEF Put
  <2> QED BY <2>2, <2>3
<1>10. Publish(j) => Fields(job'[j], Ended(j), All, 0, NoRows, NoRows)
  BY <1>2 DEF Publish, End, Ended
<1>11. AnswerEmpty(j) => \/ Fields(job'[j], Failed(j), All, 0, NoRows, NoRows)
                         \/ Fields(job'[j], Ended(j), All, 0, NoRows, NoRows)
  <2>1. Fail(j) => Fields(job'[j], Failed(j), All, 0, NoRows, NoRows)
    BY <1>2 DEF Fail, Failed
  <2>2. End(j) => Fields(job'[j], Ended(j), All, 0, NoRows, NoRows)
    BY <1>2 DEF End, Ended
  <2> QED BY <2>1, <2>2 DEF AnswerEmpty
<1>12. Fails(j) => \/ At(j, "hydrating")
                      /\ Fields(job'[j], "sizing", All, Top(mem), NoRows, NoRows)
                   \/ ~At(j, "hydrating")
                      /\ Fields(job'[j], Failed(j), All, 0, NoRows, NoRows)
  <2>1. Fail(j) => Fields(job'[j], Failed(j), All, 0, NoRows, NoRows)
    BY <1>2 DEF Fail, Failed
  <2>2. CASE At(j, "hydrating") BY <2>2 DEF Fails, Idle
  <2>3. CASE ~At(j, "hydrating") BY <2>1, <2>3 DEF Fails
  <2> QED BY <2>2, <2>3
<1> QED BY <1>3, <1>4, <1>5, <1>6, <1>7, <1>8, <1>9, <1>10, <1>11, <1>12

-----------------------------------------------------------------------------
(* Where the syncs are.                                                    *)

\* A batch of the flush starts on keys no sync is running for.
LEMMA PlacedStep == EntityTypeOK /\ Placed /\ [Next]_vars => Placed'
<1> SUFFICES ASSUME CopiesOK, QueueOK, JobsOK, Placed, [Next]_vars PROVE Placed'
  BY TypeInParts
<1> USE DEF cacheVars, queueVars
<1>a. All \in Keys /\ Boot \notin Keys /\ Refresh \notin Keys /\ Boot # Refresh
  BY EntityAssumption DEF Keys
<1>b. Users \subseteq Keys /\ Keys \subseteq Jobs /\ Boot \in Jobs /\ Refresh \in Jobs
  BY DEF Keys, Jobs
<1>1. CASE job' = job /\ running' = running BY <1>1 DEF Placed, Busy
<1>2. ASSUME NEW u \in Users, RefreshUser(u) PROVE Placed'
  <2>1. \A i \in Jobs \ {Refresh} : job'[i] = job[i] BY <1>2 DEF RefreshUser, JobsOK
  <2>2. job'[Refresh].at = "asking" /\ job'[Refresh].who = u
    BY <1>2, <1>b DEF RefreshUser, JobsOK, Idle
  <2>3. running' = running BY <1>2 DEF RefreshUser
  <2> QED BY <2>1, <2>2, <2>3, <1>a, <1>b DEF Placed, Busy
<1>3. CASE Reload
  <2>1. \A i \in Jobs : job'[i].at = "idle" /\ job'[i].who = All BY <1>3 DEF Reload, Idle
  <2> QED BY <2>1, <1>a, <1>b DEF Placed, Busy
<1>4. CASE Bootstrapped
  <2>1. \A i \in Jobs \ {Boot} : job'[i] = job[i] BY <1>4 DEF Bootstrapped, JobsOK
  <2>2. \/ job'[Boot] = job[Boot]
        \/ job'[Boot].who = All /\ job'[Boot].at \in {"hydrating", "sizing"}
    BY <1>4, <1>b DEF Bootstrapped, JobsOK, Idle
  <2>3. running' = running BY <1>4 DEF Bootstrapped
  <2> QED BY <2>1, <2>2, <2>3, <1>a, <1>b DEF Placed, Busy
<1>5. CASE TimerFires
  <2>1. CASE running \/ disposed BY <1>5, <2>1, <1>1 DEF TimerFires
  <2>2. CASE ~ (running \/ disposed)
    <3>1. running' = TRUE BY <1>5, <2>2 DEF TimerFires
    <3>2. \A i \in Jobs : job'[i] = IF i \in pending THEN Begun(i) ELSE job[i]
      BY <1>5, <2>2 DEF TimerFires
    <3>3. \A k \in Keys : /\ Begun(k).who = k
                          /\ Begun(k).at = IF k = All THEN "sizing" ELSE "asking"
      BY DEF Begun, Idle
    <3>4. \A k \in Keys : job'[k] = job[k] \/ job'[k] = Begun(k) BY <3>2, <1>b
    <3>5. job'[Boot] = job[Boot] /\ job'[Refresh] = job[Refresh]
      BY <3>2, <1>a, <1>b DEF QueueOK
    <3> QED BY <3>1, <3>3, <3>4, <3>5, <1>a, <1>b DEF Placed, Busy, Jobs
  <2> QED BY <2>1, <2>2
<1>6. CASE FlushEnds
  <2>1. \A i \in Jobs : job'[i] = IF i \in Keys THEN Idle ELSE job[i] BY <1>6 DEF FlushEnds
  <2>2. Idle.at = "idle" /\ Idle.who = All BY DEF Idle
  <2> QED BY <2>1, <2>2, <1>a, <1>b DEF Placed, Busy, Jobs
<1>7. ASSUME NEW j \in Jobs, Step(j) PROVE Placed'
  <2>1. \A i \in Jobs \ {j} : job'[i] = job[i] BY <1>7, OthersStay
  <2>2. running' = running
    BY <1>7 DEF Step, HydrateRead, Hydrate, Size, Answer, AnswerEmpty, Persist, Get, Put,
                Publish, Fails
  <2>3. \/ job'[j].who = job[j].who /\ Busy(j)
           /\ job'[j].at \in {"hydrated", "asking", "replied", "answered", "merging", "publishing"}
           /\ (j = Refresh => job'[j].at # "publishing")
           /\ (job'[j].at = "replied" => j = Refresh)
           /\ (job'[j].at = "hydrated" => At(j, "hydrating"))
        \/ job'[j].who = All /\ j = Boot /\ job'[j].at = "sizing"
        \/ job'[j].who = All /\ job'[j].at = "done" /\ j \in Keys /\ Busy(j)
        \/ job'[j].who = All /\ job'[j].at = "synced" /\ j = Boot
        \/ job'[j].who = All /\ job'[j].at = "idle" /\ j \notin Keys
    <3>1. \A l \in {Failed(j), Ended(j)} :
            \/ l = "done" /\ j \in Keys
            \/ l = "synced" /\ j = Boot
            \/ l = "idle" /\ j \notin Keys
      BY DEF Failed, Ended
    <3>2. CASE HydrateRead(j) BY <3>2, Moves DEF HydrateRead, At, Busy, Fields, Placed
    <3>3. CASE Hydrate(j) BY <3>3, Moves DEF Hydrate, At, Fields, Placed
    <3>4. CASE Size(j) BY <3>4, Moves DEF Size, At, Busy, Fields
    <3>5. CASE Answer(j)
      <4>1. /\ job'[j].at \in {"replied", "answered"} /\ job'[j].who = job[j].who
            /\ (job'[j].at = "replied" => j = Refresh)
        BY <3>5, Moves DEF Fields
      <4>2. job[j].at = "asking" BY <3>5 DEF Answer, At
      <4> QED BY <4>1, <4>2 DEF Busy
    <3>6. CASE Persist(j) BY <3>6, Moves DEF Persist, At, Busy, Fields
    <3>7. CASE Get(j) BY <3>7, Moves DEF Get, At, Busy, Fields
    <3>8. CASE Put(j) BY <3>8, Moves, <1>a DEF Put, At, Busy, Fields
    <3>9. CASE Publish(j) BY <3>9, <3>1, Moves DEF Publish, At, Busy, Fields
    <3>10. CASE AnswerEmpty(j) BY <3>10, <3>1, Moves DEF AnswerEmpty, At, Busy, Fields
    <3>11. CASE Fails(j) BY <3>11, <3>1, Moves DEF Fails, At, Busy, Fields, Placed
    <3> QED BY <1>7, <3>2, <3>3, <3>4, <3>5, <3>6, <3>7, <3>8, <3>9, <3>10, <3>11 DEF Step
  <2> QED BY <2>1, <2>2, <2>3, <1>a, <1>b DEF Placed, Busy, At
<1>8. ASSUME NEW u \in Users, Change(u) PROVE Placed' BY <1>1, <1>8 DEF Change
<1>9. ASSUME NEW n \in mail, Deliver(n) PROVE Placed' BY <1>1, <1>9 DEF Deliver
<1>10. CASE Reconnected BY <1>1, <1>10 DEF Reconnected
<1>11. CASE Connect BY <1>1, <1>11 DEF Connect
<1>12. CASE Dispose BY <1>1, <1>12 DEF Dispose
<1>13. CASE UNCHANGED vars BY <1>1, <1>13 DEF vars
<1> QED BY <1>2, <1>3, <1>4, <1>5, <1>6, <1>7, <1>8, <1>9, <1>10, <1>11, <1>12, <1>13 DEF Next

\* Nothing is in the queue without its timer, or a flush that sets it.
LEMMA QueuedStep == EntityTypeOK /\ Placed /\ Queued /\ [Next]_vars => Queued'
<1> SUFFICES ASSUME CopiesOK, QueueOK, JobsOK, Placed, Queued, [Next]_vars PROVE Queued'
  BY TypeInParts
<1> USE DEF cacheVars, queueVars
<1>1. ASSUME NEW u \in Users, Change(u) PROVE Queued' BY <1>1 DEF Change, Queued
<1>2. ASSUME NEW u \in Users, RefreshUser(u) PROVE Queued' BY <1>2 DEF RefreshUser, Queued
<1>3. ASSUME NEW n \in mail, Deliver(n) PROVE Queued' BY <1>3 DEF Deliver, Queue, Queued
<1>4. CASE Reconnected BY <1>4 DEF Reconnected, Queue, Queued
<1>5. CASE Connect BY <1>5 DEF Connect, Queued
<1>6. CASE Dispose BY <1>6 DEF Dispose, Queued
<1>7. CASE Reload
  <2>1. pending' = {} /\ disposed' = FALSE BY <1>7 DEF Reload
  <2> QED BY <2>1 DEF Queued
<1>8. CASE Bootstrapped BY <1>8 DEF Bootstrapped, Queue, Queued
<1>9. CASE TimerFires
  <2>1. CASE running BY <1>9, <2>1 DEF TimerFires, Queued
  <2>2. CASE disposed /\ ~running BY <1>9, <2>2 DEF TimerFires, Queued
  <2>3. CASE ~disposed /\ ~running BY <1>9, <2>3 DEF TimerFires, Queued
  <2> QED BY <2>1, <2>2, <2>3
<1>10. CASE FlushEnds BY <1>10 DEF FlushEnds, Queued
<1>11. ASSUME NEW j \in Jobs, Step(j) PROVE Queued'
  <2>1. UNCHANGED <<armed, running, disposed, heard>>
    BY <1>11 DEF Step, HydrateRead, Hydrate, Size, Answer, AnswerEmpty, Persist, Get, Put,
                 Publish, Fails
  <2>2. \/ pending' = pending
        \/ j \in Keys /\ job[j].at # "idle" /\ ~disposed
    BY <1>11 DEF Step, HydrateRead, Hydrate, Size, Answer, AnswerEmpty, Persist, Get, Put,
                 Publish, Fails, Fail, At
  <2> QED BY <2>1, <2>2 DEF Placed, Queued
<1>12. CASE UNCHANGED vars BY <1>12 DEF vars, Queued
<1> QED BY <1>1, <1>2, <1>3, <1>4, <1>5, <1>6, <1>7, <1>8, <1>9, <1>10, <1>11, <1>12 DEF Next

-----------------------------------------------------------------------------
(* Nothing runs ahead of the server.                                       *)

\* A copy that is behind the server has no larger version than it.
LEMMA TopIsMonotone ==
    ASSUME NEW a \in Rows, NEW b \in Rows, \A u \in Users : a[u] <= b[u]
    PROVE  Top(a) <= Top(b)
<1>1. Top(a) \in Nat /\ Top(b) \in Nat BY TopIsLargest, EntityAssumption DEF Version
<1>2. CASE Top(a) = 0 BY <1>1, <1>2
<1>3. ASSUME NEW u \in Users, Top(a) = a[u] PROVE Top(a) <= Top(b)
  BY <1>1, <1>3, TopIsLargest, RowByRow
<1> QED BY <1>2, <1>3, TopIsLargest

\* Only Change moves the server, and only upwards.
LEMMA ServerGrows ==
    ASSUME EntityTypeOK, [Next]_vars
    PROVE  /\ \A u \in Users : srv'[u] \in Nat /\ srv[u] <= srv'[u]
           /\ Top(srv) <= Top(srv')
<1>1. CopiesOK /\ CopiesOK' BY TypeStep, TypeInParts DEF EntityTypeOK, CopiesOK
<1>2. \A u \in Users : srv[u] \in Nat /\ srv'[u] \in Nat
  BY <1>1, EntityAssumption DEF CopiesOK, Rows, Version
<1>3. \A u \in Users : srv[u] <= srv'[u]
  <2>1. ASSUME NEW v \in Users, Change(v) PROVE \A u \in Users : srv[u] <= srv'[u]
    <3>1. Top(srv) \in Nat /\ \A u \in Users : srv[u] <= Top(srv)
      BY <1>1, TopIsLargest, EntityAssumption DEF CopiesOK, Version
    <3> QED BY <2>1, <3>1, <1>1, <1>2 DEF Change, CopiesOK, Rows
  <2>2. CASE srv' = srv BY <2>2, <1>2
  <2>3. srv' = srv \/ \E v \in Users : Change(v)
    BY DEF Next, Step, vars, RefreshUser, Deliver, Reconnected, Connect, Dispose, Reload,
           Bootstrapped, TimerFires, FlushEnds, HydrateRead, Hydrate, Size, Answer,
           AnswerEmpty, Persist, Get, Put, Publish, Fails
  <2> QED BY <2>1, <2>2, <2>3
<1>4. Top(srv) <= Top(srv')
  <2>1. srv \in Rows /\ srv' \in Rows BY <1>1 DEF CopiesOK
  <2> QED BY <2>1, <1>3, TopIsMonotone
<1> QED BY <1>2, <1>3, <1>4

\* What is announced, fetched and stored stays behind the server.
LEMMA SourcedStep == EntityTypeOK /\ Placed /\ Sourced /\ [Next]_vars => Sourced'
<1> SUFFICES ASSUME EntityTypeOK, Placed, Sourced, [Next]_vars PROVE Sourced'
  OBVIOUS
<1> DEFINE Behind(rows) == \A u \in Users : rows[u] <= srv'[u]
           Source(j) == /\ Behind(job'[j].got) /\ Behind(job'[j].base)
                        /\ job'[j].since <= Top(srv')
<1> USE DEF cacheVars, queueVars
<1>a. CopiesOK /\ QueueOK /\ JobsOK BY TypeInParts
<1>b. \A u \in Users : srv'[u] \in Nat /\ srv[u] <= srv'[u] BY ServerGrows
<1>c. /\ Top(srv) \in Nat /\ Top(srv') \in Nat /\ Top(srv) <= Top(srv')
  <2>1. srv \in Rows /\ srv' \in Rows BY TypeStep DEF EntityTypeOK
  <2> QED BY <2>1, TopIsLargest, ServerGrows, EntityAssumption DEF Version
<1>d. \A rows \in Rows : (\A u \in Users : rows[u] <= srv[u]) => Behind(rows)
  BY <1>a, <1>b, EntityAssumption DEF CopiesOK, Rows, Version
<1>e. Behind(heard) /\ Behind(disk) /\ Behind(mem) /\ Behind(NoRows)
  <2>1. Behind(NoRows) BY <1>b DEF NoRows
  <2> QED BY <2>1, <1>a, <1>d DEF Sourced, CopiesOK
<1>f. \A j \in Jobs : /\ Behind(job[j].got) /\ Behind(job[j].base)
                      /\ job[j].since <= Top(srv')
  <2> TAKE j \in Jobs
  <2>1. job[j].got \in Rows /\ job[j].base \in Rows /\ job[j].since \in Nat
    BY <1>a, JobFields, EntityAssumption DEF Version
  <2> QED BY <2>1, <1>c, <1>d DEF Sourced
<1>g. \A rows \in Rows : Behind(rows) => Top(rows) <= Top(srv')
  <2>1. srv' \in Rows BY TypeStep DEF EntityTypeOK
  <2> QED BY <2>1, TopIsMonotone
<1>h. 0 <= Top(srv') BY <1>c
<1>i. \A n \in mail : n.key \in {n.user, All} /\ n.id <= srv'[n.user]
  BY <1>a, <1>b, EntityAssumption DEF Sourced, QueueOK, CopiesOK, Mail, Rows, Version
<1>m. ASSUME mail' = mail, Behind(heard'), Behind(disk'), Behind(mem'), \A j \in Jobs : Source(j)
      PROVE  Sourced'
  BY <1>m, <1>i DEF Sourced
<1> HIDE DEF Behind, Source
<1>k. ASSUME NEW j \in Jobs, job'[j] = job[j] PROVE Source(j) BY <1>k, <1>f DEF Source
<1>z. ASSUME NEW j \in Jobs, Behind(job'[j].got), job'[j].base = NoRows, job'[j].since <= Top(srv')
      PROVE  Source(j)
  BY <1>z, <1>e DEF Source
<1>1. ASSUME NEW u \in Users, Change(u) PROVE Sourced'
  <2>1. PICK k \in {u, All} : mail' = mail \cup {[key |-> k, user |-> u, id |-> srv'[u]]}
    BY <1>1 DEF Change
  <2>2. \A n \in mail' : n.key \in {n.user, All} /\ n.id <= srv'[n.user]
    BY <2>1, <1>b, <1>i
  <2> QED BY <1>1, <2>2, <1>e, <1>f DEF Change, Sourced, Behind
<1>2. ASSUME NEW u \in Users, RefreshUser(u) PROVE Sourced'
  <2>1. Source(Refresh)
    <3>1. Fields(job'[Refresh], "asking", u, 0, NoRows, NoRows)
      BY <1>2, <1>a DEF RefreshUser, JobsOK, Jobs, Idle, Fields
    <3> QED BY <3>1, <1>z, <1>e, <1>h DEF Fields, Jobs
  <2>2. \A i \in Jobs \ {Refresh} : job'[i] = job[i] BY <1>2, <1>a DEF RefreshUser, JobsOK
  <2> QED BY <1>2, <2>1, <2>2, <1>e, <1>k, <1>m DEF RefreshUser
<1>3. ASSUME NEW n \in mail, Deliver(n) PROVE Sourced'
  <2>1. \A u \in Users : \/ heard'[u] = heard[u]
                         \/ u = n.user /\ heard'[u] = n.id
    BY <1>3, <1>a DEF Deliver, Larger, CopiesOK, Rows
  <2>2. Behind(heard') BY <2>1, <1>e, <1>i DEF Behind
  <2> QED BY <1>3, <2>2, <1>e, <1>k, <1>m DEF Deliver
<1>4. CASE Reconnected BY <1>4, <1>e, <1>k, <1>m DEF Reconnected
<1>5. CASE Connect BY <1>5, <1>e, <1>k, <1>m DEF Connect
<1>6. CASE Dispose BY <1>6, <1>e, <1>k, <1>m DEF Dispose
<1>7. CASE Reload
  <2>1. \A j \in Jobs : Fields(job'[j], "idle", All, 0, NoRows, NoRows)
    BY <1>7 DEF Reload, Idle, Fields
  <2>2. \A j \in Jobs : Source(j) BY <2>1, <1>e, <1>h, <1>z DEF Fields
  <2> QED BY <1>7, <2>2, <1>e, <1>m DEF Reload
<1>8. CASE Bootstrapped
  <2>1. \A i \in Jobs \ {Boot} : job'[i] = job[i] BY <1>8, <1>a DEF Bootstrapped, JobsOK
  <2>2. \/ job'[Boot] = job[Boot]
        \/ Fields(job'[Boot], "hydrating", All, 0, NoRows, NoRows)
        \/ Fields(job'[Boot], "sizing", All, Top(mem), NoRows, NoRows)
    BY <1>8, <1>a DEF Bootstrapped, JobsOK, Jobs, Idle, Fields
  <2>3. Boot \in Jobs BY DEF Jobs
  <2>4. Top(mem) <= Top(srv') BY <1>a, <1>e, <1>g DEF CopiesOK
  <2>5. Source(Boot) BY <2>2, <2>3, <2>4, <1>e, <1>h, <1>k, <1>z DEF Fields
  <2> QED BY <1>8, <2>1, <2>5, <1>e, <1>k, <1>m DEF Bootstrapped
<1>9. CASE TimerFires
  <2>1. CASE running \/ disposed BY <1>9, <2>1, <1>e, <1>k, <1>m DEF TimerFires
  <2>2. CASE ~ (running \/ disposed)
    <3>1. \A i \in Jobs : job'[i] = IF i \in pending THEN Begun(i) ELSE job[i]
      BY <1>9, <2>2 DEF TimerFires
    <3>2. \A k : \/ Fields(Begun(k), "sizing", All, Top(mem), NoRows, NoRows)
                 \/ Fields(Begun(k), "asking", k, 0, NoRows, NoRows)
      BY DEF Begun, Idle, Fields
    <3>3. Top(mem) <= Top(srv') BY <1>a, <1>e, <1>g DEF CopiesOK
    <3>4. ASSUME NEW i \in Jobs PROVE Source(i)
      BY <3>1, <3>2, <3>3, <1>e, <1>h, <1>k, <1>z DEF Fields
    <3> QED BY <1>9, <3>4, <1>e, <1>m DEF TimerFires
  <2> QED BY <2>1, <2>2
<1>10. CASE FlushEnds
  <2>1. \A i \in Jobs : job'[i] = IF i \in Keys THEN Idle ELSE job[i] BY <1>10 DEF FlushEnds
  <2>2. Fields(Idle, "idle", All, 0, NoRows, NoRows) BY DEF Idle, Fields
  <2>3. ASSUME NEW i \in Jobs PROVE Source(i)
    BY <2>1, <2>2, <1>e, <1>h, <1>k, <1>z DEF Fields
  <2> QED BY <1>10, <2>3, <1>e, <1>m DEF FlushEnds
<1>11. ASSUME NEW j \in Jobs, Step(j) PROVE Sourced'
  <2>1. \A i \in Jobs \ {j} : Source(i) BY <1>11, <1>a, <1>k, OthersStay
  <2>2. UNCHANGED <<mail, heard>>
    BY <1>11 DEF Step, HydrateRead, Hydrate, Size, Answer, AnswerEmpty, Persist, Get, Put,
                 Publish, Fails
  <2>a. srv' = srv
    BY <1>11 DEF Step, HydrateRead, Hydrate, Size, Answer, AnswerEmpty, Persist, Get, Put,
                 Publish, Fails
  <2>b. disk \in Rows /\ mem \in Rows /\ job[j].got \in Rows /\ job[j].base \in Rows
    BY <1>a, JobFields DEF CopiesOK
  <2>3. ASSUME NEW a \in Rows, NEW b \in Rows, Behind(a), Behind(b) PROVE Behind(Over(a, b))
    BY <2>3, RowByRow DEF Behind
  <2>4. Merged(j) \in Rows /\ Behind(Merged(j))
    <3>1. Merged(j) \in Rows
      BY <2>b, EntityAssumption DEF Merged, Rows, Version
    <3>2. \A u \in Users : Merged(j)[u] = 0 \/ Merged(j)[u] = job[j].got[u] BY DEF Merged
    <3> QED BY <3>1, <3>2, <1>b, <1>f DEF Behind
  <2>5. Behind(disk') /\ Behind(mem')
    <3>1. \/ disk' = disk
          \/ disk' = Over(disk, Merged(j))
      BY <1>11 DEF Step, HydrateRead, Hydrate, Size, Answer, AnswerEmpty, Persist, Get, Put,
                   Publish, Fails, Land, cacheVars
    <3>2. \/ mem' = mem
          \/ mem' = Over(mem, job[j].got)
      BY <1>11 DEF Step, HydrateRead, Hydrate, Size, Answer, AnswerEmpty, Persist, Get, Put,
                   Publish, Fails, Land, cacheVars
    <3> QED BY <3>1, <3>2, <2>b, <2>3, <2>4, <1>e, <1>f
  <2>6. Source(j)
    <3> DEFINE S(r) == Behind(r.got) /\ Behind(r.base) /\ r.since <= Top(srv')
    <3>0. Source(j) <=> S(job'[j]) BY DEF Source
    <3>1. S(job[j]) BY <1>f
    <3>2. CASE HydrateRead(j) BY <3>0, <3>1, <3>2, <1>a, <1>e, Moves DEF Fields
    <3>3. CASE Hydrate(j)
      <4>1. mem' \in Rows BY TypeStep DEF EntityTypeOK
      <4>2. Top(mem') <= Top(srv') BY <4>1, <2>5, <1>g
      <4> QED BY <3>0, <3>3, <4>2, <1>a, <1>e, Moves DEF Fields
    <3>4. CASE Size(j)
      <4>1. Top(disk) <= Top(srv') BY <2>b, <1>e, <1>g
      <4>2. Larger(job[j].since, Top(disk)) <= Top(srv') BY <3>1, <4>1 DEF Larger
      <4>3. Fields(job'[j], "asking", job[j].who, Larger(job[j].since, Top(disk)),
                   job[j].got, job[j].base)
        BY <3>4, <1>a, Moves
      <4> QED BY <3>0, <3>1, <4>2, <4>3 DEF Fields
    <3>5. CASE Answer(j)
      <4>1. Behind(Fetched(j))
        BY <1>a, <1>b, <2>a, JobFields, EntityAssumption
        DEF Behind, Fetched, Only, NoRows, CopiesOK, Rows, Version
      <4>2. /\ job'[j].since = 0 /\ job'[j].got = Fetched(j) /\ job'[j].base = job[j].base
        BY <3>5, <1>a, Moves DEF Fields
      <4> QED BY <3>0, <3>1, <4>1, <4>2, <1>h
    <3>6. CASE Persist(j) BY <3>0, <3>1, <3>6, <1>a, Moves DEF Fields
    <3>7. CASE Get(j) BY <3>0, <3>1, <3>7, <1>a, <1>e, Moves DEF Fields
    <3>8. CASE Put(j)
      <4>1. /\ job'[j].got \in {job[j].got, NoRows} /\ job'[j].base = NoRows
            /\ job'[j].since \in {job[j].since, 0}
        BY <3>8, <1>a, Moves DEF Fields
      <4> QED BY <3>0, <3>1, <4>1, <1>e, <1>h
    <3>9. CASE Publish(j) BY <3>0, <3>9, <1>a, <1>e, <1>h, Moves DEF Fields
    <3>10. CASE AnswerEmpty(j) BY <3>0, <3>10, <1>a, <1>e, <1>h, Moves DEF Fields
    <3>11. CASE Fails(j)
      <4>1. Top(mem) <= Top(srv') BY <2>b, <1>e, <1>g
      <4>2. /\ job'[j].got = NoRows /\ job'[j].base = NoRows
            /\ job'[j].since \in {Top(mem), 0}
        BY <3>11, <1>a, Moves DEF Fields
      <4> QED BY <3>0, <4>1, <4>2, <1>e, <1>h
    <3> QED BY <1>11, <3>2, <3>3, <3>4, <3>5, <3>6, <3>7, <3>8, <3>9, <3>10, <3>11 DEF Step
  <2> QED BY <2>1, <2>2, <2>5, <2>6, <1>e, <1>m
<1>12. CASE UNCHANGED vars BY <1>12, <1>e, <1>k, <1>m DEF vars
<1> QED BY <1>1, <1>2, <1>3, <1>4, <1>5, <1>6, <1>7, <1>8, <1>9, <1>10, <1>11, <1>12 DEF Next

-----------------------------------------------------------------------------
(* The copies, while nothing from outside the queue has broken them.       *)

LEMMA VersionsAreNumbers ==
    ASSUME EntityTypeOK
    PROVE  /\ \A u \in Users : srv[u] \in Nat /\ disk[u] \in Nat /\ mem[u] \in Nat
                               /\ heard[u] \in Nat
           /\ \A j \in Jobs : job[j].since \in Nat
           /\ \A j \in Jobs, u \in Users : job[j].got[u] \in Nat /\ job[j].base[u] \in Nat
<1>1. \A rows \in Rows, u \in Users : rows[u] \in Nat
  BY EntityAssumption DEF Rows, Version
<1>2. CopiesOK /\ JobsOK BY TypeInParts
<1> QED BY <1>1, <1>2, JobFields, EntityAssumption DEF CopiesOK, Version

\* A history of harm is kept.
LEMMA HarmStays == [Next]_vars => hazards \subseteq hazards'
BY DEF Next, Step, vars, Change, RefreshUser, Deliver, Reconnected, Connect, Dispose, Reload,
       Bootstrapped, TimerFires, FlushEnds, HydrateRead, Hydrate, Size, Answer, AnswerEmpty,
       Persist, Get, Put, Publish, Fails, Land, Note

\* A cursor taken from memory has passed what memory shows.
LEMMA MemoryCursor ==
    ASSUME EntityTypeOK, Honest(Both(disk, mem))
    PROVE  Passed(Both(disk, mem), Top(mem))
<1>1. mem \in Rows /\ disk \in Rows BY DEF EntityTypeOK
<1>2. \A u \in Users : srv[u] \in Nat /\ disk[u] \in Nat /\ mem[u] \in Nat
  BY VersionsAreNumbers
<1>3. CASE Top(mem) = 0 BY <1>2, <1>3 DEF Passed, Both, Larger
<1>4. ASSUME NEW v \in Users, Top(mem) = mem[v] PROVE Passed(Both(disk, mem), Top(mem))
  BY <1>2, <1>4 DEF Passed, Both, Larger, Honest
<1> QED BY <1>1, <1>3, <1>4, TopIsLargest

\* A sync that begins has nothing to keep, and its cursor is honest.
Fresh(r) ==
    \/ r.at \in {"idle", "done", "synced", "hydrating"}
    \/ r.at = "sizing" /\ r.since = Top(mem)
    \/ r.at = "asking" /\ r.who # All

\* Steps that leave the copies alone and start or end syncs that publish nothing.
LEMMA QuietStep ==
    ASSUME EntityTypeOK, Whole, UNCHANGED <<srv, disk, mem, cold>>,
           \A j \in Jobs : job'[j] = job[j] \/ (Fresh(job'[j]) /\ ~At(j, "publishing"))
    PROVE  Whole'
<1>1. \A u \in Users : Publishing(u) => Publishing(u)'
  BY DEF Publishing, At
<1>2. Shown' BY <1>1 DEF Whole, Shown
<1>3. Honest(disk)' /\ Honest(Both(disk, mem))' BY DEF Whole, Honest, Passed, Both
<1>4. Passed(Both(disk, mem), Top(mem)) BY MemoryCursor DEF Whole
<1>5. ASSUME NEW j \in Jobs PROVE (SweepIsWhole(j) /\ SyncKeeps(j) /\ HydrationShows(j))'
  <2>1. CASE job'[j] = job[j]
    <3>1. SweepIsWhole(j)' BY <2>1 DEF Whole, SweepIsWhole, At, Passed, Both
    <3>2. SyncKeeps(j)' BY <2>1 DEF Whole, SyncKeeps, At
    <3>3. HydrationShows(j)' BY <2>1, <1>1 DEF Whole, HydrationShows, At
    <3> QED BY <3>1, <3>2, <3>3
  <2>2. CASE Fresh(job'[j])
    <3>1. SweepIsWhole(j)' BY <2>2, <1>4 DEF SweepIsWhole, Fresh, At, Passed, Both
    <3>2. SyncKeeps(j)' BY <2>2 DEF SyncKeeps, Fresh, At
    <3>3. HydrationShows(j)' BY <2>2 DEF HydrationShows, Fresh, At
    <3> QED BY <3>1, <3>2, <3>3
  <2> QED BY <2>1, <2>2
<1> QED BY <1>2, <1>3, <1>5 DEF Whole

\* One sync moves on what it has read, and the copies stay.
LEMMA ReadingStep ==
    ASSUME EntityTypeOK, Whole, UNCHANGED <<srv, disk, mem, cold>>, NEW j \in Jobs,
           ~At(j, "publishing"), \A i \in Jobs \ {j} : job'[i] = job[i],
           (SweepIsWhole(j) /\ SyncKeeps(j) /\ HydrationShows(j))'
    PROVE  Whole'
<1>1. \A u \in Users : Publishing(u) => Publishing(u)'
  BY DEF Publishing, At
<1>2. Shown' BY <1>1 DEF Whole, Shown
<1>3. Honest(disk)' /\ Honest(Both(disk, mem))' BY DEF Whole, Honest, Passed, Both
<1>5. ASSUME NEW i \in Jobs \ {j} PROVE (SweepIsWhole(i) /\ SyncKeeps(i) /\ HydrationShows(i))'
  <2>0. job'[i] = job[i] BY <1>5
  <2>1. SweepIsWhole(i)' BY <2>0 DEF Whole, SweepIsWhole, At, Passed, Both
  <2>2. SyncKeeps(i)' BY <2>0 DEF Whole, SyncKeeps, At
  <2>3. HydrationShows(i)' BY <2>0, <1>1 DEF Whole, HydrationShows, At
  <2> QED BY <2>1, <2>2, <2>3
<1> QED BY <1>2, <1>3, <1>5 DEF Whole

\* Both copies grow, and one sync moves.
LEMMA GrowthStep ==
    ASSUME EntityTypeOK, EntityTypeOK', Whole, srv' = srv, cold' => cold, NEW j \in Jobs,
           \A u \in Users : disk[u] <= disk'[u] /\ mem[u] <= mem'[u],
           \A i \in Jobs \ {j} : job'[i] = job[i],
           (Shown /\ Honest(disk) /\ Honest(Both(disk, mem)))',
           \A i \in Jobs : HydrationShows(i)',
           (SweepIsWhole(j) /\ SyncKeeps(j))'
    PROVE  Whole'
<1>1. \A u \in Users : /\ disk[u] \in Nat /\ mem[u] \in Nat /\ srv[u] \in Nat
                       /\ disk'[u] \in Nat /\ mem'[u] \in Nat
  BY EntityAssumption DEF EntityTypeOK, Rows, Version
<1>2. ASSUME NEW i \in Jobs \ {j} PROVE SweepIsWhole(i)' /\ SyncKeeps(i)'
  <2>0. job'[i] = job[i] /\ SweepIsWhole(i) /\ SyncKeeps(i) BY <1>2 DEF Whole
  <2>a. \A u \in Users : job[i].got[u] \in Nat /\ job[i].base[u] \in Nat
    BY VersionsAreNumbers
  <2>1. SyncKeeps(i)' BY <2>0, <2>a, <1>1 DEF SyncKeeps, At
  <2>2. ASSUME job[i].who = All, At(i, "sizing")
        PROVE  Passed(Both(disk, mem), job[i].since)'
    BY <2>0, <2>2, <1>1 DEF SweepIsWhole, Passed, Both, Larger
  <2>3. ASSUME job[i].who = All, At(i, "asking")
        PROVE  (~cold /\ Passed(disk, job[i].since))'
    BY <2>0, <2>3, <1>1 DEF SweepIsWhole, Passed
  <2>4. ASSUME job[i].who = All, job[i].at \in {"answered", "merging", "publishing"},
               NEW v \in Users
        PROVE  Passed(Both(disk, job[i].got), job[i].got[v])'
    BY <2>0, <2>4, <2>a, <1>1 DEF SweepIsWhole, Passed, Both, Larger
  <2>5. SweepIsWhole(i)' BY <2>0, <2>2, <2>3, <2>4 DEF SweepIsWhole, At
  <2> QED BY <2>1, <2>5
<1> QED BY <1>2 DEF Whole

\* Holes is empty of a copy whose sweeps may start at its largest version.
LEMMA NoHoles ==
    ASSUME EntityTypeOK, NEW rows \in Rows
    PROVE  Holes(rows) = {} <=> Honest(rows)
<1>1. \A u \in Users : srv[u] \in Nat /\ rows[u] \in Nat
  BY EntityAssumption DEF EntityTypeOK, Rows, Version
<1>2. Top(rows) \in Nat BY TopIsLargest, EntityAssumption DEF Version
<1>3. ASSUME Holes(rows) = {} PROVE Honest(rows)
  <2>1. \A u \in Users : srv[u] <= Top(rows) => srv[u] <= rows[u] BY <1>1, <1>3 DEF Holes
  <2>2. \A v \in Users : rows[v] <= Top(rows) BY TopIsLargest
  <2> QED BY <2>1, <2>2, <1>1, <1>2 DEF Honest, Passed
<1>4. ASSUME Honest(rows) PROVE Holes(rows) = {}
  <2>1. ASSUME NEW u \in Users, srv[u] <= Top(rows) PROVE srv[u] <= rows[u]
    <3>1. CASE Top(rows) = 0 BY <2>1, <3>1, <1>1
    <3>2. ASSUME NEW v \in Users, Top(rows) = rows[v] PROVE srv[u] <= rows[u]
      BY <2>1, <3>2, <1>4 DEF Honest, Passed
    <3> QED BY <3>1, <3>2, TopIsLargest
  <2> QED BY <2>1, <1>1 DEF Holes
<1> QED BY <1>3, <1>4

\* What Land leaves when it notes no harm.
LEMMA LandsWhole ==
    ASSUME EntityTypeOK, EntityTypeOK', NEW j \in Jobs, NEW d \in Rows, NEW m \in Rows, NEW harm,
           srv' = srv, Land(j, d, m, harm), hazards' = {}, job[j].who # All
    PROVE  (Honest(disk) /\ Honest(Both(disk, mem)))'
<1>1. disk' = d /\ mem' = m BY DEF Land
<1>2. Holes(d) = {} /\ Holes(Both(d, m)) = {} BY DEF Land
<1>3. Both(d, m) \in Rows BY CopiesStayCopies
<1>4. Honest(d) /\ Honest(Both(d, m)) BY <1>2, <1>3, NoHoles
<1> QED BY <1>1, <1>4 DEF Honest, Passed, Both

\* A change of the server is ahead of every copy and every cursor.
LEMMA ChangeKeepsWhole ==
    ASSUME EntityTypeOK, Sourced, Whole, NEW w \in Users, Change(w)
    PROVE  Whole'
<1>1. UNCHANGED <<disk, mem, cold, job>> BY DEF Change, cacheVars
<1>2. /\ srv' = [srv EXCEPT ![w] = Top(srv) + 1] /\ Top(srv) \in Nat
      /\ \A u \in Users : srv[u] \in Nat /\ srv[u] <= Top(srv)
  <2>1. srv \in Rows BY DEF EntityTypeOK
  <2> QED BY <2>1, TopIsLargest, VersionsAreNumbers, EntityAssumption DEF Change, Version
<1>3. \A u \in Users : disk[u] \in Nat /\ mem[u] \in Nat /\ disk[u] <= Top(srv) /\ mem[u] <= Top(srv)
  BY <1>2, VersionsAreNumbers DEF Sourced
<1>4. \A j \in Jobs, u \in Users : job[j].got[u] \in Nat /\ job[j].got[u] <= Top(srv)
  BY <1>2, VersionsAreNumbers DEF Sourced
<1>5. \A j \in Jobs : job[j].since \in Nat /\ job[j].since <= Top(srv)
  BY VersionsAreNumbers DEF Sourced
<1>6. ASSUME NEW rows, NEW v \in Nat, v <= Top(srv), Passed(rows, v)
      PROVE  \A u \in Users : srv'[u] <= v => srv'[u] <= rows[u]
  <2>1. srv \in Rows BY DEF EntityTypeOK
  <2> QED BY <2>1, <1>2, <1>6 DEF Passed, Rows
<1>7. Shown' BY <1>1 DEF Whole, Shown, Publishing, At
<1>8. Honest(disk)' BY <1>1, <1>3, <1>6 DEF Whole, Honest, Passed
<1>9. Honest(Both(disk, mem))'
  <2>1. \A v \in Users : /\ Both(disk, mem)[v] \in Nat /\ Both(disk, mem)[v] <= Top(srv)
                         /\ Passed(Both(disk, mem), Both(disk, mem)[v])
    BY <1>3 DEF Both, Larger, Whole, Honest
  <2>2. \A v, u \in Users : srv'[u] <= Both(disk, mem)[v] => srv'[u] <= Both(disk, mem)[u]
    BY <2>1, <1>6
  <2>3. Both(disk, mem)' = Both(disk, mem) BY <1>1 DEF Both
  <2> QED BY <2>2, <2>3 DEF Honest, Passed
<1>10. ASSUME NEW j \in Jobs PROVE (SweepIsWhole(j) /\ SyncKeeps(j) /\ HydrationShows(j))'
  <2>0. SweepIsWhole(j) /\ SyncKeeps(j) /\ HydrationShows(j) BY DEF Whole
  <2>1. SyncKeeps(j)' BY <2>0, <1>1 DEF SyncKeeps, At
  <2>2. HydrationShows(j)' BY <2>0, <1>1 DEF HydrationShows, Publishing, At
  <2>3. ASSUME job[j].who = All, At(j, "sizing") PROVE Passed(Both(disk, mem), job[j].since)'
    <3>1. \A u \in Users : srv'[u] <= job[j].since => srv'[u] <= Both(disk, mem)[u]
      BY <2>0, <2>3, <1>5, <1>6 DEF SweepIsWhole
    <3>2. Both(disk, mem)' = Both(disk, mem) BY <1>1 DEF Both
    <3> QED BY <3>1, <3>2, <1>1 DEF Passed
  <2>4. ASSUME job[j].who = All, At(j, "asking") PROVE (~cold /\ Passed(disk, job[j].since))'
    BY <2>0, <2>4, <1>1, <1>5, <1>6 DEF SweepIsWhole, Passed
  <2>5. ASSUME job[j].who = All, job[j].at \in {"answered", "merging", "publishing"},
               NEW v \in Users
        PROVE  Passed(Both(disk, job[j].got), job[j].got[v])'
    <3>1. \A u \in Users :
            srv'[u] <= job[j].got[v] => srv'[u] <= Both(disk, job[j].got)[u]
      BY <2>0, <2>5, <1>4, <1>6 DEF SweepIsWhole
    <3>2. Both(disk, job[j].got)' = Both(disk, job[j].got) BY <1>1 DEF Both
    <3> QED BY <3>1, <3>2, <1>1 DEF Passed
  <2>6. SweepIsWhole(j)' BY <1>1, <2>3, <2>4, <2>5 DEF SweepIsWhole, At
  <2> QED BY <2>1, <2>2, <2>6
<1> QED BY <1>7, <1>8, <1>9, <1>10 DEF Whole

\* A reload leaves a memory that shows nothing, and says so.
LEMMA ReloadKeepsWhole == ASSUME EntityTypeOK, Whole, Reload PROVE Whole'
<1>1. srv' = srv /\ disk' = disk /\ mem' = NoRows /\ cold' = (disk # NoRows) BY DEF Reload
<1>2. \A j \in Jobs : job'[j].at = "idle" BY DEF Reload, Idle
<1>3. \A u \in Users : disk[u] \in Nat BY VersionsAreNumbers
<1>4. Shown'
  <2>1. ASSUME NEW u \in Users, disk[u] > 0 PROVE disk # NoRows BY <2>1, <1>3 DEF NoRows
  <2> QED BY <2>1, <1>1, <1>3 DEF Shown, NoRows
<1>5. Honest(disk)' BY <1>1 DEF Whole, Honest, Passed
<1>6. Honest(Both(disk, mem))'
  <2>1. \A u \in Users : Both(disk', mem')[u] = disk[u] BY <1>1, <1>3 DEF Both, Larger, NoRows
  <2> QED BY <2>1, <1>1, <1>5 DEF Honest, Passed
<1>7. \A j \in Jobs : (SweepIsWhole(j) /\ SyncKeeps(j) /\ HydrationShows(j))'
  BY <1>2 DEF SweepIsWhole, SyncKeeps, HydrationShows, At
<1> QED BY <1>4, <1>5, <1>6, <1>7 DEF Whole

\* Memory takes rows over its own, none of them older.
LEMMA MemoryTakes ==
    ASSUME EntityTypeOK, NEW j \in Jobs,
           \A u \in Users : ~ (job[j].got[u] # 0 /\ job[j].got[u] < mem[u])
    PROVE  \A u \in Users : LET m == Over(mem, job[j].got)[u] IN
             /\ m \in Nat /\ mem[u] <= m /\ job[j].got[u] <= m
             /\ (m = mem[u] \/ m = job[j].got[u])
BY VersionsAreNumbers DEF Over

\* hydrateFromCache into memory.
LEMMA HydrateKeepsWhole ==
    ASSUME EntityTypeOK, EntityTypeOK', Whole, NEW j \in Jobs, Hydrate(j), Placed,
           \A i \in Jobs \ {j} : job'[i] = job[i], hazards' = {}
    PROVE  Whole'
<1>0. JobsOK BY TypeInParts
<1>1. /\ srv' = srv /\ disk' = disk /\ cold' = FALSE /\ mem' = Over(mem, job[j].got)
      /\ At(j, "hydrated")
  BY DEF Hydrate
<1>2. Fields(job'[j], "sizing", All, Top(mem'), NoRows, NoRows) BY <1>0, Moves
<1>3. \A u \in Users : disk[u] \in Nat /\ mem[u] \in Nat /\ job[j].got[u] \in Nat
  BY VersionsAreNumbers
<1>4. \A u \in Users : ~ (mem'[u] < mem[u]) BY DEF Hydrate, Note
<1>5. \A u \in Users : /\ mem'[u] \in Nat /\ mem[u] <= mem'[u] /\ job[j].got[u] <= mem'[u]
                       /\ (mem'[u] = mem[u] \/ mem'[u] = job[j].got[u])
  BY <1>1, <1>3, <1>4 DEF Over
<1>6. \A u \in Users : Publishing(u) => Publishing(u)' BY <1>1 DEF Publishing, At
<1>7. Shown'
  <2>1. ASSUME NEW u \in Users, disk[u] > mem'[u] PROVE Publishing(u)
    <3>1. disk[u] > mem[u] /\ disk[u] > job[j].got[u] BY <2>1, <1>3, <1>5
    <3> QED BY <3>1, <1>1 DEF Whole, HydrationShows
  <2> QED BY <2>1, <1>1, <1>6 DEF Shown
<1>8. ASSUME NEW i \in Jobs PROVE HydrationShows(i)'
  <2>1. CASE i = j BY <2>1, <1>2 DEF HydrationShows, At, Fields
  <2>2. CASE i # j
    <3>1. \A u \in Users : disk[u] > mem'[u] => disk[u] > mem[u] BY <1>3, <1>5
    <3> QED BY <2>2, <3>1, <1>1, <1>6 DEF Whole, HydrationShows, At
  <2> QED BY <2>1, <2>2
<1>9. Honest(disk)' BY <1>1 DEF Whole, Honest, Passed
<1>10. Honest(Both(disk, mem))'
  <2>1. \A u \in Users : job[j].got[u] <= disk[u] BY <1>1 DEF Whole, SyncKeeps
  <2>2. \A u \in Users : Both(disk', mem')[u] = Both(disk, mem)[u]
    BY <2>1, <1>1, <1>3, <1>5 DEF Both, Larger
  <2> QED BY <2>2, <1>1 DEF Whole, Honest, Passed
<1>11. SweepIsWhole(j)'
  <2>1. \A u \in Users : srv[u] \in Nat BY VersionsAreNumbers
  <2>2. mem' \in Rows BY DEF EntityTypeOK
  <2>3. ASSUME NEW u \in Users, srv[u] <= Top(mem') PROVE srv[u] <= Both(disk', mem')[u]
    <3>1. CASE Top(mem') = 0 BY <2>1, <2>3, <3>1, <1>1, <1>3, <1>5 DEF Both, Larger
    <3>2. ASSUME NEW v \in Users, Top(mem') = mem'[v] PROVE srv[u] <= Both(disk', mem')[u]
      BY <2>1, <2>3, <3>2, <1>1, <1>3, <1>5, <1>10 DEF Honest, Passed, Both, Larger
    <3> QED BY <2>2, <3>1, <3>2, TopIsLargest
  <2> QED BY <2>3, <1>1, <1>2 DEF SweepIsWhole, At, Fields, Passed
<1>12. SyncKeeps(j)' BY <1>2 DEF SyncKeeps, At, Fields
<1>13. \A u \in Users : disk[u] <= disk'[u] /\ mem[u] <= mem'[u] BY <1>1, <1>3, <1>5
<1>14. cold' => cold BY <1>1
<1> QED BY <1>1, <1>7, <1>8, <1>9, <1>10, <1>11, <1>12, <1>13, <1>14, GrowthStep

\* persistUserRecord: memory first.
LEMMA PersistKeepsWhole ==
    ASSUME EntityTypeOK, EntityTypeOK', Whole, NEW j \in Jobs, Persist(j), Placed,
           \A i \in Jobs \ {j} : job'[i] = job[i], hazards' = {}
    PROVE  Whole'
<1>0. JobsOK /\ j = Refresh /\ job[j].who # All
  <2>1. j = Refresh BY DEF Persist, At, Placed
  <2>2. job[j].who \in Users BY <2>1 DEF Persist, At, Placed, Busy
  <2> QED BY <2>1, <2>2, TypeInParts, EntityAssumption
<1>1. srv' = srv /\ disk' = disk /\ cold' = cold /\ mem' = Over(mem, job[j].got) /\ At(j, "replied")
  BY DEF Persist, Land
<1>2. Fields(job'[j], "answered", job[j].who, job[j].since, job[j].got, job[j].base)
  BY <1>0, Moves
<1>3. \A u \in Users : disk[u] \in Nat /\ mem[u] \in Nat BY VersionsAreNumbers
<1>4. \A u \in Users : ~ (job[j].got[u] # 0 /\ job[j].got[u] < mem[u])
  BY DEF Persist, Land, Note
<1>5. \A u \in Users : mem'[u] \in Nat /\ mem[u] <= mem'[u] /\ job[j].got[u] <= mem'[u]
  BY <1>1, <1>4, MemoryTakes
<1>6. \A u \in Users : Publishing(u) => Publishing(u)' BY <1>1 DEF Publishing, At
<1>7. \A u \in Users : disk[u] > mem'[u] => disk[u] > mem[u] BY <1>3, <1>5
<1>8. Shown' BY <1>1, <1>6, <1>7 DEF Whole, Shown
<1>9. ASSUME NEW i \in Jobs PROVE HydrationShows(i)'
  <2>1. CASE i = j BY <2>1, <1>2 DEF HydrationShows, At, Fields
  <2>2. CASE i # j BY <2>2, <1>1, <1>6, <1>7 DEF Whole, HydrationShows, At
  <2> QED BY <2>1, <2>2
<1>10. (Honest(disk) /\ Honest(Both(disk, mem)))'
  <2>1. \E harm : Land(j, disk, Over(mem, job[j].got), harm) BY DEF Persist
  <2>2. disk \in Rows /\ Over(mem, job[j].got) \in Rows
    BY <1>0, JobFields, CopiesStayCopies DEF EntityTypeOK
  <2> QED BY <2>1, <2>2, <1>0, <1>1, LandsWhole
<1>11. SweepIsWhole(j)' BY <1>0, <1>2 DEF SweepIsWhole, Fields
<1>12. SyncKeeps(j)' BY <1>2, <1>5 DEF SyncKeeps, At, Fields
<1>13. \A u \in Users : disk[u] <= disk'[u] /\ mem[u] <= mem'[u] BY <1>1, <1>3, <1>5
<1>14. cold' => cold BY <1>1
<1> QED BY <1>1, <1>8, <1>9, <1>10, <1>11, <1>12, <1>13, <1>14, GrowthStep

\* The answer of a sweep keeps a copy honest: the changes up to a row of it are
\* in the answer or in the database.
LEMMA AnswerKeepsHonest ==
    ASSUME EntityTypeOK, NEW j \in Jobs, NEW rows, NEW more,
           \A u \in Users : rows[u] \in Nat /\ more[u] \in Nat /\ rows[u] <= more[u],
           \A u \in Users : more[u] = rows[u] \/ more[u] = job[j].got[u],
           \A u \in Users : disk[u] <= more[u] /\ job[j].got[u] <= more[u],
           Honest(rows), \A v \in Users : Passed(Both(disk, job[j].got), job[j].got[v])
    PROVE  Honest(more)
<1>1. \A u \in Users : srv[u] \in Nat /\ disk[u] \in Nat /\ job[j].got[u] \in Nat
  BY VersionsAreNumbers
<1>2. ASSUME NEW v \in Users, NEW u \in Users, srv[u] <= more[v] PROVE srv[u] <= more[u]
  <2>1. CASE more[v] = rows[v]
    <3>1. srv[u] <= rows[u] BY <2>1, <1>2 DEF Honest, Passed
    <3> QED BY <3>1, <1>1
  <2>2. CASE more[v] = job[j].got[v]
    <3>1. srv[u] <= Both(disk, job[j].got)[u] BY <2>2, <1>2 DEF Passed
    <3> QED BY <3>1, <1>1 DEF Both, Larger
  <2> QED BY <2>1, <2>2
<1> QED BY <1>2 DEF Honest, Passed

\* upsertUsers: the database takes what is not older than the row it read.
LEMMA PutKeepsWhole ==
    ASSUME EntityTypeOK, EntityTypeOK', Whole, NEW j \in Jobs, Put(j), Placed,
           \A i \in Jobs \ {j} : job'[i] = job[i], hazards' = {}
    PROVE  Whole'
<1>0. JobsOK BY TypeInParts
<1>1. srv' = srv /\ mem' = mem /\ cold' = cold /\ disk' = Over(disk, Merged(j)) /\ At(j, "merging")
  BY DEF Put, Land
<1>2. IF j = Refresh
      THEN Fields(job'[j], "idle", All, 0, NoRows, NoRows)
      ELSE Fields(job'[j], "publishing", job[j].who, job[j].since, job[j].got, NoRows)
  BY <1>0, Moves
<1>3. \A u \in Users : /\ disk[u] \in Nat /\ mem[u] \in Nat
                       /\ job[j].got[u] \in Nat /\ job[j].base[u] \in Nat
  BY VersionsAreNumbers
<1>4. \A u \in Users : ~ (Merged(j)[u] # 0 /\ Merged(j)[u] < disk[u])
  BY DEF Put, Land, Note
<1>5. \A u \in Users : job[j].base[u] <= disk[u] BY <1>1 DEF Whole, SyncKeeps
<1>6. \A u \in Users : /\ disk'[u] \in Nat /\ disk[u] <= disk'[u] /\ job[j].got[u] <= disk'[u]
                       /\ (disk'[u] = disk[u] \/ disk'[u] = job[j].got[u])
  <2>1. \A u \in Users : Merged(j)[u] = IF job[j].got[u] < job[j].base[u] THEN 0 ELSE job[j].got[u]
    BY DEF Merged
  <2>2. \A u \in Users : disk'[u] = IF Merged(j)[u] # 0 THEN Merged(j)[u] ELSE disk[u]
    BY <1>1 DEF Over
  <2> QED BY <2>1, <2>2, <1>3, <1>4, <1>5
<1>7. ASSUME NEW u \in Users, disk'[u] > mem[u]
      PROVE  \/ Publishing(u)'
             \/ disk[u] = disk'[u] /\ (Publishing(u) => Publishing(u)')
  <2>1. CASE disk'[u] = disk[u] BY <2>1, <1>1 DEF Publishing, At
  <2>2. CASE disk'[u] = job[j].got[u]
    <3>1. j # Refresh BY <2>2, <1>1, <1>3, <1>7 DEF Whole, SyncKeeps, At
    <3>2. At(j, "publishing")' /\ job'[j].got[u] >= disk'[u]
      BY <2>2, <3>1, <1>2, <1>3 DEF Fields, At
    <3> QED BY <3>2 DEF Publishing
  <2> QED BY <2>1, <2>2, <1>6
<1>8. Shown' BY <1>1, <1>7 DEF Whole, Shown
<1>9. ASSUME NEW i \in Jobs PROVE HydrationShows(i)'
  <2>1. CASE i = j BY <2>1, <1>2 DEF HydrationShows, At, Fields
  <2>2. CASE i # j BY <2>2, <1>1, <1>7 DEF Whole, HydrationShows, At
  <2> QED BY <2>1, <2>2
<1>10. (Honest(disk) /\ Honest(Both(disk, mem)))'
  <2>1. CASE job[j].who # All
    <3>1. \E harm : Land(j, Over(disk, Merged(j)), mem, harm) BY DEF Put
    <3>2. Over(disk, Merged(j)) \in Rows /\ mem \in Rows BY <1>1 DEF EntityTypeOK
    <3> QED BY <2>1, <3>1, <3>2, <1>1, LandsWhole
  <2>2. CASE job[j].who = All
    <3>1. \A v \in Users : Passed(Both(disk, job[j].got), job[j].got[v])
      BY <2>2, <1>1 DEF Whole, SweepIsWhole, At
    <3>2. Honest(disk') BY <3>1, <1>3, <1>6, AnswerKeepsHonest DEF Whole
    <3>3. \A u \in Users : LET b == Both(disk, mem)[u] c == Both(disk', mem)[u] IN
            /\ b \in Nat /\ c \in Nat /\ b <= c /\ disk[u] <= c /\ job[j].got[u] <= c
            /\ (c = b \/ c = job[j].got[u])
      BY <1>3, <1>6 DEF Both, Larger
    <3>4. Honest(Both(disk', mem)) BY <3>1, <3>3, AnswerKeepsHonest DEF Whole
    <3> QED BY <3>2, <3>4, <1>1 DEF Honest, Passed, Both
  <2> QED BY <2>1, <2>2
<1>11. SweepIsWhole(j)'
  <2>1. CASE j = Refresh BY <2>1, <1>2 DEF SweepIsWhole, At, Fields
  <2>2. CASE j # Refresh
    <3>1. Fields(job'[j], "publishing", job[j].who, job[j].since, job[j].got, NoRows)
      BY <2>2, <1>2
    <3>2. ASSUME job[j].who = All, NEW v \in Users, NEW u \in Users, srv[u] <= job[j].got[v]
          PROVE  srv[u] <= Both(disk', job[j].got)[u]
      <4>1. srv[u] <= Both(disk, job[j].got)[u] BY <3>2, <1>1 DEF Whole, SweepIsWhole, At, Passed
      <4>2. srv[u] \in Nat BY VersionsAreNumbers
      <4> QED BY <4>1, <4>2, <1>3, <1>6 DEF Both, Larger
    <3> QED BY <3>1, <3>2, <1>1 DEF SweepIsWhole, At, Fields, Passed
  <2> QED BY <2>1, <2>2
<1>12. SyncKeeps(j)' BY <1>2 DEF SyncKeeps, At, Fields
<1>13. \A u \in Users : disk[u] <= disk'[u] /\ mem[u] <= mem'[u] BY <1>1, <1>3, <1>6
<1>14. cold' => cold BY <1>1
<1> QED BY <1>1, <1>8, <1>9, <1>10, <1>11, <1>12, <1>13, <1>14, GrowthStep

\* upsertMany: memory takes the answer.
LEMMA PublishKeepsWhole ==
    ASSUME EntityTypeOK, EntityTypeOK', Whole, NEW j \in Jobs, Publish(j), Placed,
           \A i \in Jobs \ {j} : job'[i] = job[i], hazards' = {}
    PROVE  Whole'
<1>0. JobsOK BY TypeInParts
<1>1. srv' = srv /\ disk' = disk /\ cold' = cold /\ mem' = Over(mem, job[j].got) /\ At(j, "publishing")
  BY DEF Publish, Land
<1>2. Fields(job'[j], Ended(j), All, 0, NoRows, NoRows) /\ Ended(j) \in {"idle", "done", "synced"}
  BY <1>0, Moves DEF Ended
<1>3. \A u \in Users : disk[u] \in Nat /\ mem[u] \in Nat /\ job[j].got[u] \in Nat
  BY VersionsAreNumbers
<1>4. \A u \in Users : ~ (job[j].got[u] # 0 /\ job[j].got[u] < mem[u])
  BY DEF Publish, Land, Note
<1>5. \A u \in Users : /\ mem'[u] \in Nat /\ mem[u] <= mem'[u] /\ job[j].got[u] <= mem'[u]
                       /\ (mem'[u] = mem[u] \/ mem'[u] = job[j].got[u])
  BY <1>1, <1>4, MemoryTakes
<1>6. ASSUME NEW u \in Users, disk[u] > mem'[u], Publishing(u) PROVE Publishing(u)'
  <2>1. PICK i \in Jobs : At(i, "publishing") /\ job[i].got[u] >= disk[u] BY <1>6 DEF Publishing
  <2>2. i # j BY <2>1, <1>3, <1>5, <1>6
  <2>3. job'[i] = job[i] BY <2>2
  <2> QED BY <2>1, <2>3, <1>1 DEF Publishing, At
<1>7. \A u \in Users : disk[u] > mem'[u] => disk[u] > mem[u] BY <1>3, <1>5
<1>8. Shown' BY <1>1, <1>6, <1>7 DEF Whole, Shown
<1>9. ASSUME NEW i \in Jobs PROVE HydrationShows(i)'
  <2>1. CASE i = j BY <2>1, <1>2 DEF HydrationShows, At, Fields
  <2>2. CASE i # j BY <2>2, <1>1, <1>6, <1>7 DEF Whole, HydrationShows, At
  <2> QED BY <2>1, <2>2
<1>10. (Honest(disk) /\ Honest(Both(disk, mem)))'
  <2>1. CASE job[j].who # All
    <3>1. \E harm : Land(j, disk, Over(mem, job[j].got), harm) BY DEF Publish
    <3>2. disk \in Rows /\ Over(mem, job[j].got) \in Rows
      BY <1>0, JobFields, CopiesStayCopies DEF EntityTypeOK
    <3> QED BY <2>1, <3>1, <3>2, <1>1, LandsWhole
  <2>2. CASE job[j].who = All
    <3>1. \A v \in Users : Passed(Both(disk, job[j].got), job[j].got[v])
      BY <2>2, <1>1 DEF Whole, SweepIsWhole, At
    <3>2. \A u \in Users : LET b == Both(disk, mem)[u] c == Both(disk, mem')[u] IN
            /\ b \in Nat /\ c \in Nat /\ b <= c /\ disk[u] <= c /\ job[j].got[u] <= c
            /\ (c = b \/ c = job[j].got[u])
      BY <1>3, <1>5 DEF Both, Larger
    <3>3. Honest(Both(disk, mem')) BY <3>1, <3>2, AnswerKeepsHonest DEF Whole
    <3> QED BY <3>3, <1>1 DEF Whole, Honest, Passed, Both
  <2> QED BY <2>1, <2>2
<1>11. SweepIsWhole(j)' BY <1>2 DEF SweepIsWhole, At, Fields
<1>12. SyncKeeps(j)' BY <1>2 DEF SyncKeeps, At, Fields
<1>13. \A u \in Users : disk[u] <= disk'[u] /\ mem[u] <= mem'[u] BY <1>1, <1>3, <1>5
<1>14. cold' => cold BY <1>1
<1> QED BY <1>1, <1>8, <1>9, <1>10, <1>11, <1>12, <1>13, <1>14, GrowthStep

\* No step without harm makes the copies less whole.
LEMMA WholeStep ==
    ASSUME EntityTypeOK, EntityTypeOK', Placed, Sourced, Whole, [Next]_vars, hazards' = {}
    PROVE  Whole'
<1> USE DEF cacheVars
<1>a. CopiesOK /\ QueueOK /\ JobsOK BY TypeInParts
<1>b. All \in Keys /\ Boot \notin Keys /\ Refresh \notin Keys /\ Boot # Refresh
  BY EntityAssumption DEF Keys
<1>1. CASE UNCHANGED <<srv, disk, mem, cold, job>> BY <1>1, QuietStep
<1>2. ASSUME NEW u \in Users, RefreshUser(u) PROVE Whole'
  <2>1. \A i \in Jobs \ {Refresh} : job'[i] = job[i] BY <1>2, <1>a DEF RefreshUser, JobsOK
  <2>2. Fresh(job'[Refresh]) /\ ~At(Refresh, "publishing")
    BY <1>2, <1>a, EntityAssumption DEF RefreshUser, JobsOK, Jobs, Idle, Fresh, At
  <2> QED BY <1>2, <2>1, <2>2, QuietStep DEF RefreshUser
<1>3. CASE Bootstrapped
  <2>1. \A i \in Jobs \ {Boot} : job'[i] = job[i] BY <1>3, <1>a DEF Bootstrapped, JobsOK
  <2>2. job'[Boot] = job[Boot] \/ (Fresh(job'[Boot]) /\ ~At(Boot, "publishing"))
    <3>1. CASE Boot \in Active BY <1>3, <3>1 DEF Bootstrapped
    <3>2. CASE Boot \notin Active
      <4>1. Boot \in Jobs /\ ~At(Boot, "publishing") BY <3>2 DEF Active, Jobs, At
      <4>2. Fresh(job'[Boot])
        BY <1>3, <3>2, <4>1, <1>a DEF Bootstrapped, JobsOK, Idle, Fresh
      <4> QED BY <4>1, <4>2
    <3> QED BY <3>1, <3>2
  <2> QED BY <1>3, <2>1, <2>2, QuietStep DEF Bootstrapped
<1>4. CASE TimerFires
  <2>1. CASE running \/ disposed BY <1>1, <1>4, <2>1 DEF TimerFires
  <2>2. CASE ~ (running \/ disposed)
    <3>1. \A i \in Jobs : job'[i] = IF i \in pending THEN Begun(i) ELSE job[i]
      BY <1>4, <2>2 DEF TimerFires
    <3>2. \A k \in Keys : Fresh(Begun(k)) BY DEF Begun, Idle, Fresh
    <3>3. \A k \in Keys : ~At(k, "publishing") BY <2>2 DEF Placed, At
    <3>4. \A i \in Jobs : job'[i] = job[i] \/ (Fresh(job'[i]) /\ ~At(i, "publishing"))
      BY <3>1, <3>2, <3>3, <1>a DEF QueueOK
    <3> QED BY <1>4, <3>4, QuietStep DEF TimerFires
  <2> QED BY <2>1, <2>2
<1>5. CASE FlushEnds
  <2>1. \A i \in Jobs : job'[i] = job[i] \/ (Fresh(job'[i]) /\ ~At(i, "publishing"))
    BY <1>5, <1>a DEF FlushEnds, Idle, Fresh, At
  <2> QED BY <1>5, <2>1, QuietStep DEF FlushEnds
<1>6. ASSUME NEW j \in Jobs, Step(j) PROVE Whole'
  <2>0. \A i \in Jobs \ {j} : job'[i] = job[i] BY <1>6, <1>a, OthersStay
  <2>n. \A u \in Users : /\ srv[u] \in Nat /\ disk[u] \in Nat /\ mem[u] \in Nat
                         /\ job[j].got[u] \in Nat /\ job[j].base[u] \in Nat
    BY VersionsAreNumbers
  <2>w. SweepIsWhole(j) /\ SyncKeeps(j) /\ HydrationShows(j) BY DEF Whole
  <2>f. Failed(j) \in {"idle", "done", "synced"} /\ Ended(j) \in {"idle", "done", "synced"}
    BY DEF Failed, Ended
  <2>1. CASE HydrateRead(j)
    <3>1. /\ Fields(job'[j], "hydrated", job[j].who, job[j].since, disk, job[j].base)
          /\ UNCHANGED <<srv, disk, mem, cold>> /\ ~At(j, "publishing")
      BY <2>1, <1>a, Moves DEF HydrateRead, At
    <3>2. (SweepIsWhole(j) /\ SyncKeeps(j) /\ HydrationShows(j))'
      BY <3>1, <2>n DEF SweepIsWhole, SyncKeeps, HydrationShows, At, Fields
    <3> QED BY <3>1, <3>2, <2>0, ReadingStep
  <2>2. CASE Hydrate(j) BY <2>0, <2>2, HydrateKeepsWhole
  <2>3. CASE Size(j)
    <3>1. /\ Fields(job'[j], "asking", job[j].who, Larger(job[j].since, Top(disk)),
                    job[j].got, job[j].base)
          /\ UNCHANGED <<srv, disk, mem, cold>> /\ At(j, "sizing") /\ job[j].who = All
      BY <2>3, <1>a, Moves DEF Size, At, Placed
    <3>2. ~cold /\ \A u \in Users : mem[u] <= disk[u]
      BY <2>3, <2>n DEF Size, Note
    <3>3. Passed(disk, job[j].since)
      <4>1. \A u \in Users : Both(disk, mem)[u] = disk[u] BY <3>2, <2>n DEF Both, Larger
      <4> QED BY <4>1, <3>1, <2>w DEF SweepIsWhole, Passed
    <3>4. Passed(disk, Top(disk))
      <4>1. Holes(disk) = {} BY NoHoles DEF Whole, EntityTypeOK
      <4>2. Top(disk) \in Nat BY TopIsLargest, EntityAssumption DEF EntityTypeOK, Version
      <4> QED BY <4>1, <4>2, <2>n DEF Holes, Passed
    <3>5. Passed(disk, Larger(job[j].since, Top(disk))) BY <3>3, <3>4 DEF Larger
    <3>6. (SweepIsWhole(j) /\ SyncKeeps(j) /\ HydrationShows(j))'
      BY <3>1, <3>2, <3>5 DEF SweepIsWhole, SyncKeeps, HydrationShows, At, Fields, Passed
    <3>7. ~At(j, "publishing") BY <3>1 DEF At
    <3> QED BY <3>1, <3>6, <3>7, <2>0, ReadingStep
  <2>4. CASE Answer(j)
    <3>1. /\ Fields(job'[j], IF j = Refresh THEN "replied" ELSE "answered",
                    job[j].who, 0, Fetched(j), job[j].base)
          /\ UNCHANGED <<srv, disk, mem, cold>> /\ At(j, "asking")
      BY <2>4, <1>a, Moves DEF Answer
    <3>2. ASSUME job[j].who = All, NEW v \in Users, NEW u \in Users, srv[u] <= Fetched(j)[v]
          PROVE  srv[u] <= Both(disk, Fetched(j))[u]
      <4>1. \A w \in Users : Fetched(j)[w] = IF srv[w] > job[j].since THEN srv[w] ELSE 0
        BY <3>2 DEF Fetched
      <4>2. srv[u] <= job[j].since => srv[u] <= disk[u]
        BY <3>1, <3>2, <2>w DEF SweepIsWhole, Passed
      <4>3. job[j].since \in Nat BY VersionsAreNumbers
      <4> QED BY <4>1, <4>2, <4>3, <2>n DEF Both, Larger
    <3>4. SweepIsWhole(j)'
      BY <3>1, <3>2 DEF SweepIsWhole, At, Fields, Passed, Both
    <3>5. (SyncKeeps(j) /\ HydrationShows(j))'
      BY <3>1 DEF SyncKeeps, HydrationShows, At, Fields
    <3>6. ~At(j, "publishing") BY <3>1 DEF At
    <3> QED BY <3>1, <3>4, <3>5, <3>6, <2>0, ReadingStep
  <2>5. CASE AnswerEmpty(j)
    <3>1. Fresh(job'[j]) /\ ~At(j, "publishing") /\ UNCHANGED <<srv, disk, mem, cold>>
      BY <2>5, <2>f, <1>a, Moves DEF AnswerEmpty, Fresh, At, Fields
    <3> QED BY <3>1, <2>0, QuietStep
  <2>6. CASE Persist(j) BY <2>0, <2>6, PersistKeepsWhole
  <2>7. CASE Get(j)
    <3>1. /\ Fields(job'[j], "merging", job[j].who, job[j].since, job[j].got, disk)
          /\ UNCHANGED <<srv, disk, mem, cold>> /\ At(j, "answered")
      BY <2>7, <1>a, Moves DEF Get
    <3>2. SweepIsWhole(j)'
      BY <3>1, <2>w DEF SweepIsWhole, At, Fields, Passed, Both
    <3>3. (SyncKeeps(j) /\ HydrationShows(j))'
      BY <3>1, <2>n, <2>w DEF SyncKeeps, HydrationShows, At, Fields
    <3>4. ~At(j, "publishing") BY <3>1 DEF At
    <3> QED BY <3>1, <3>2, <3>3, <3>4, <2>0, ReadingStep
  <2>8. CASE Put(j) BY <2>0, <2>8, PutKeepsWhole
  <2>9. CASE Publish(j) BY <2>0, <2>9, PublishKeepsWhole
  <2>10. CASE Fails(j)
    <3>1. Fresh(job'[j])
      BY <2>10, <2>f, <1>a, Moves DEF Fresh, Fields
    <3>2. ~At(j, "publishing") /\ UNCHANGED <<srv, disk, mem, cold>>
      BY <2>10 DEF Fails, At
    <3> QED BY <3>1, <3>2, <2>0, QuietStep
  <2> QED BY <1>6, <2>1, <2>2, <2>3, <2>4, <2>5, <2>6, <2>7, <2>8, <2>9, <2>10 DEF Step
<1>7. ASSUME NEW u \in Users, Change(u) PROVE Whole' BY <1>7, ChangeKeepsWhole
<1>8. CASE Reload BY <1>8, ReloadKeepsWhole
<1>9. ASSUME NEW n \in mail, Deliver(n) PROVE Whole' BY <1>1, <1>9 DEF Deliver
<1>10. CASE Reconnected BY <1>1, <1>10 DEF Reconnected
<1>11. CASE Connect BY <1>1, <1>11 DEF Connect
<1>12. CASE Dispose BY <1>1, <1>12 DEF Dispose
<1>13. CASE UNCHANGED vars BY <1>1, <1>13 DEF vars
<1> QED BY <1>2, <1>3, <1>4, <1>5, <1>6, <1>7, <1>8, <1>9, <1>10, <1>11, <1>12, <1>13 DEF Next

-----------------------------------------------------------------------------
(* What was announced is owed.                                             *)

\* A queued key stays owed, and so does a sync that does not move.
LEMMA QueueKeepsOwing ==
    ASSUME NEW u \in Users, {u, All} \cap pending # {}, armed \/ running,
           pending \subseteq pending', armed' \/ running'
    PROVE  Owed(u)'
BY DEF Owed

LEMMA StillOwed ==
    ASSUME NEW u \in Users, Owed(u), heard'[u] = heard[u], pending \subseteq pending',
           armed \/ running => armed' \/ running',
           \A i \in Jobs : Busy(i) => job'[i] = job[i]
    PROVE  Owed(u)'
<1>1. {u, All} \subseteq Jobs BY DEF Jobs, Keys
<1>2. CASE {u, All} \cap pending # {} /\ (armed \/ running) BY <1>2 DEF Owed
<1>3. ASSUME NEW k \in {u, All}, job[k].at \in {"sizing", "asking"} PROVE Owed(u)'
  <2>1. job'[k] = job[k] BY <1>1, <1>3 DEF Busy
  <2> QED BY <1>3, <2>1 DEF Owed
<1>4. ASSUME NEW k \in {u, All}, job[k].at \in {"answered", "merging"}, job[k].got[u] >= heard[u]
      PROVE  Owed(u)'
  <2>1. job'[k] = job[k] BY <1>1, <1>4 DEF Busy
  <2> QED BY <1>4, <2>1 DEF Owed
<1>5. ASSUME NEW j \in Jobs, job[j].at \in {"hydrated", "publishing"}, job[j].got[u] >= heard[u]
      PROVE  Owed(u)'
  <2>1. job'[j] = job[j] BY <1>5 DEF Busy
  <2> QED BY <1>5, <2>1 DEF Owed
<1> QED BY <1>2, <1>3, <1>4, <1>5 DEF Owed

\* A row that is on its way to memory is owed by the sync that brings it.
LEMMA PublishingOwes ==
    ASSUME EntityTypeOK, NEW u \in Users, Publishing(u), disk[u] >= heard[u], disk[u] \in Nat,
           heard'[u] = heard[u], NEW j \in Jobs, ~At(j, "publishing"),
           \A i \in Jobs \ {j} : job'[i] = job[i]
    PROVE  Owed(u)'
<1>1. PICK i \in Jobs : At(i, "publishing") /\ job[i].got[u] >= disk[u] BY DEF Publishing
<1>2. i # j /\ job'[i] = job[i] BY <1>1
<1>3. job[i].got[u] \in Nat /\ heard[u] \in Nat BY VersionsAreNumbers
<1>4. job'[i].at = "publishing" /\ job'[i].got[u] >= heard'[u] BY <1>1, <1>2, <1>3 DEF At
<1> QED BY <1>4 DEF Owed

\* A sync that settles what was announced either brings it or is queued again.
LEMMA SyncKeepsOwing ==
    ASSUME EntityTypeOK, EntityTypeOK', Placed, Sourced, Queued, Whole, NEW j \in Jobs, Step(j),
           hazards' = {}, NEW u \in Users, Owed(u), heard[u] > mem[u], heard'[u] > mem'[u]
    PROVE  Owed(u)'
<1>a. CopiesOK /\ QueueOK /\ JobsOK BY TypeInParts
<1>0. \A i \in Jobs \ {j} : job'[i] = job[i] BY <1>a, OthersStay
<1>1. UNCHANGED <<heard, srv, armed, running, disposed>> /\ pending \subseteq pending'
  BY DEF Step, HydrateRead, Hydrate, Size, Answer, AnswerEmpty, Persist, Get, Put, Publish,
         Fails, Fail, queueVars
<1>2. /\ srv[u] \in Nat /\ disk[u] \in Nat /\ mem[u] \in Nat /\ heard[u] \in Nat
      /\ job[j].got[u] \in Nat /\ job[j].since \in Nat /\ heard[u] <= srv[u]
  BY VersionsAreNumbers DEF Sourced
<1>3. ~disposed BY <1>2 DEF Queued, NoRows
<1>4. CASE {u, All} \cap pending # {} /\ (armed \/ running)
  BY <1>1, <1>4, QueueKeepsOwing
<1>5. ASSUME NEW k \in {u, All} \ {j},
             \/ job[k].at \in {"sizing", "asking"}
             \/ job[k].at \in {"answered", "merging"} /\ job[k].got[u] >= heard[u]
      PROVE  Owed(u)'
  <2>1. job'[k] = job[k] BY <1>0, <1>5 DEF Jobs, Keys
  <2> QED BY <1>1, <1>5, <2>1 DEF Owed
<1>6. ASSUME NEW i \in Jobs \ {j}, job[i].at \in {"hydrated", "publishing"},
             job[i].got[u] >= heard[u]
      PROVE  Owed(u)'
  <2>1. job'[i] = job[i] BY <1>0
  <2> QED BY <1>1, <1>6, <2>1 DEF Owed
<1>7. CASE j \in {u, All} /\ Fail(j)
  <2>1. j \in Keys BY <1>7 DEF Keys
  <2>2. j \in pending' BY <1>3, <1>7, <2>1 DEF Fail
  <2>3. running' \/ armed'
    <3>1. job[j].at # "idle"
      BY DEF Step, HydrateRead, Hydrate, Size, Answer, AnswerEmpty, Persist, Get, Put, Publish,
             Fails, At
    <3> QED BY <3>1, <2>1, <1>1 DEF Placed
  <2> QED BY <1>7, <2>2, <2>3 DEF Owed
<1>8. ASSUME j \in {u, All},
             \/ job[j].at \in {"sizing", "asking"}
             \/ job[j].at \in {"answered", "merging"} /\ job[j].got[u] >= heard[u]
      PROVE  Owed(u)'
  <2>a. j \in Keys /\ j # Refresh /\ j # Boot BY <1>8, EntityAssumption DEF Keys
  <2>b. job[j].who = j BY <1>8, <2>a DEF Placed, Busy
  <2>1. CASE Size(j)
    <3>1. job'[j].at = "asking" BY <2>1, <1>a, Moves DEF Fields
    <3> QED BY <1>8, <3>1 DEF Owed
  <2>2. ASSUME At(j, "asking"), j = All, Fetched(j)[u] < heard[u], ~At(j, "publishing")
        PROVE  Owed(u)'
    <3>1. Fetched(j)[u] = IF srv[u] > job[j].since THEN srv[u] ELSE 0
      BY <2>2, <2>b DEF Fetched
    <3>2. srv[u] <= job[j].since BY <3>1, <2>2, <1>2
    <3>3. ~cold /\ srv[u] <= disk[u]
      BY <3>2, <2>2, <2>b DEF Whole, SweepIsWhole, Passed
    <3>4. disk[u] > mem[u] /\ disk[u] >= heard[u] BY <3>3, <1>2
    <3>5. Publishing(u) BY <3>3, <3>4 DEF Whole, Shown
    <3> QED BY <3>4, <3>5, <2>2, <1>0, <1>1, <1>2, PublishingOwes
  <2>3. CASE Answer(j)
    <3>1. job'[j].at = "answered" /\ job'[j].got = Fetched(j) /\ At(j, "asking")
      BY <2>3, <2>a, <1>a, Moves DEF Fields, Answer
    <3>2. CASE j = u
      <4>1. Fetched(j)[u] = srv[u]
        BY <3>2, <2>b, EntityAssumption DEF Fetched, Only, NoRows
      <4> QED BY <3>1, <3>2, <4>1, <1>1, <1>2 DEF Owed
    <3>3. CASE j = All /\ Fetched(j)[u] >= heard[u] BY <3>1, <3>3, <1>1 DEF Owed
    <3>4. CASE j = All /\ ~ (Fetched(j)[u] >= heard[u])
      <4>1. Fetched(j)[u] \in Nat
        BY <1>a, AnswerIsCopy, RowByRow
      <4>2. ~At(j, "publishing") BY <3>1 DEF At
      <4> QED BY <3>1, <3>4, <4>1, <4>2, <1>2, <2>2
    <3> QED BY <1>8, <3>2, <3>3, <3>4
  <2>4. CASE AnswerEmpty(j)
    <3>1. CASE j \in Users /\ mem[j] = 0 BY <1>7, <1>8, <2>4, <3>1 DEF AnswerEmpty
    <3>2. CASE j \in Users /\ mem[j] # 0
      <4>1. j = u BY <1>8, <3>2, EntityAssumption
      <4>2. ~ (mem[u] < srv[u]) BY <2>4, <3>2, <4>1 DEF AnswerEmpty, Note
      <4> QED BY <4>2, <1>2
    <3>3. CASE j \notin Users
      <4>1. j = All /\ Fetched(j) = NoRows /\ At(j, "asking")
        BY <1>8, <2>4, <3>3 DEF AnswerEmpty
      <4>2. Fetched(j)[u] < heard[u] BY <4>1, <1>2 DEF NoRows
      <4>3. ~At(j, "publishing") BY <4>1 DEF At
      <4> QED BY <4>1, <4>2, <4>3, <2>2
    <3> QED BY <3>1, <3>2, <3>3
  <2>5. CASE Get(j)
    <3>1. job'[j].at = "merging" /\ job'[j].got = job[j].got /\ At(j, "answered")
      BY <2>5, <1>a, Moves DEF Fields, Get
    <3> QED BY <1>1, <1>8, <3>1 DEF Owed, At
  <2>6. CASE Put(j)
    <3>1. job'[j].at = "publishing" /\ job'[j].got = job[j].got /\ At(j, "merging")
      BY <2>6, <2>a, <1>a, Moves DEF Fields, Put
    <3> QED BY <1>1, <1>8, <3>1 DEF Owed, At
  <2>7. CASE Fails(j)
    <3>1. Fail(j) BY <1>8, <2>7 DEF Fails, At
    <3> QED BY <3>1, <1>7, <1>8
  <2>8. ~HydrateRead(j) /\ ~Hydrate(j) /\ ~Persist(j) /\ ~Publish(j)
    BY <1>8 DEF HydrateRead, Hydrate, Persist, Publish, At
  <2> QED BY <2>1, <2>3, <2>4, <2>5, <2>6, <2>7, <2>8 DEF Step
<1>9. ASSUME job[j].at \in {"hydrated", "publishing"}, job[j].got[u] >= heard[u] PROVE FALSE
  <2>1. Hydrate(j) \/ Publish(j)
    BY <1>9 DEF Step, HydrateRead, Hydrate, Size, Answer, AnswerEmpty, Persist, Get, Put,
                Publish, Fails, At
  <2>2. mem' = Over(mem, job[j].got) BY <2>1 DEF Hydrate, Publish, Land
  <2>3. mem'[u] = job[j].got[u] BY <2>2, <1>2, <1>9 DEF Over
  <2> QED BY <2>3, <1>1, <1>2, <1>9
<1> QED BY <1>4, <1>5, <1>6, <1>8, <1>9 DEF Owed

\* Every step keeps what is announced owed.
LEMMA OwedStep ==
    ASSUME EntityTypeOK, EntityTypeOK', Placed, Sourced, Queued, hazards = {}, Whole,
           AnnouncedIsOwed, [Next]_vars, hazards' = {}
    PROVE  AnnouncedIsOwed'
<1> SUFFICES ASSUME NEW u \in Users, heard'[u] > mem'[u] PROVE Owed(u)'
  BY DEF AnnouncedIsOwed
<1> USE DEF cacheVars, queueVars
<1>a. CopiesOK /\ QueueOK /\ JobsOK BY TypeInParts
<1>b. All \in Keys /\ Boot \notin Keys /\ Refresh \notin Keys /\ Boot # Refresh
  BY EntityAssumption DEF Keys
<1>n. heard[u] \in Nat /\ mem[u] \in Nat /\ heard'[u] \in Nat /\ mem'[u] \in Nat
  BY EntityAssumption DEF EntityTypeOK, Rows, Version
<1>o. heard[u] > mem[u] => Owed(u) BY DEF AnnouncedIsOwed
<1>d. CASE heard' = NoRows
  <2>1. heard'[u] = 0 BY <1>d DEF NoRows
  <2> QED BY <2>1, <1>n
<1>1. CASE UNCHANGED <<mem, job, heard, pending, armed, running>>
  BY <1>1, <1>o, StillOwed
<1>2. ASSUME NEW v \in Users, RefreshUser(v) PROVE Owed(u)'
  <2>1. UNCHANGED <<mem, heard, pending, armed, running>> BY <1>2 DEF RefreshUser
  <2>2. \A i \in Jobs : Busy(i) => job'[i] = job[i]
    BY <1>2, <1>a DEF RefreshUser, JobsOK, Busy, At
  <2> QED BY <2>1, <2>2, <1>o, StillOwed
<1>3. ASSUME NEW n \in mail, Deliver(n) PROVE Owed(u)'
  <2>1. /\ pending' = pending \cup {n.key} /\ running' = running
        /\ job' = job /\ mem' = mem
        /\ armed' \/ running'
    BY <1>3 DEF Deliver, Queue
  <2>2. CASE n.user = u
    <3>1. n.key \in {u, All} BY <2>2 DEF Sourced
    <3>2. {u, All} \cap pending' # {} BY <2>1, <3>1
    <3> QED BY <2>1, <3>2 DEF Owed
  <2>3. CASE n.user # u
    <3>1. heard'[u] = heard[u] BY <1>3, <2>3, <1>a DEF Deliver, CopiesOK, Rows
    <3>2. Owed(u) BY <2>1, <3>1, <1>o
    <3>3. pending \subseteq pending' BY <2>1
    <3>4. armed \/ running => armed' \/ running' BY <2>1
    <3>5. \A i \in Jobs : Busy(i) => job'[i] = job[i] BY <2>1
    <3> QED BY <3>1, <3>2, <3>3, <3>4, <3>5, StillOwed
  <2> QED BY <2>2, <2>3
<1>4. CASE Reconnected
  <2>1. /\ UNCHANGED <<mem, heard, job, running>> /\ pending \subseteq pending'
        /\ armed => armed'
    BY <1>4 DEF Reconnected, Queue
  <2> QED BY <2>1, <1>o, StillOwed
<1>5. CASE Bootstrapped
  <2>1. /\ UNCHANGED <<mem, heard, running>> /\ pending \subseteq pending'
        /\ armed => armed'
    BY <1>5 DEF Bootstrapped, Queue
  <2>2. \A i \in Jobs : Busy(i) => job'[i] = job[i]
    BY <1>5, <1>a DEF Bootstrapped, JobsOK, Busy, Active
  <2> QED BY <2>1, <2>2, <1>o, StillOwed
<1>6. CASE TimerFires
  <2>1. CASE disposed
    <3>1. heard' = NoRows BY <1>6, <2>1 DEF TimerFires, Queued
    <3> QED BY <3>1, <1>d
  <2>2. CASE running
    <3>1. UNCHANGED <<mem, heard, job, pending, running>> BY <1>6, <2>2 DEF TimerFires
    <3> QED BY <2>2, <3>1, <1>o, StillOwed
  <2>3. CASE ~running /\ ~disposed
    <3>1. /\ running' = TRUE /\ UNCHANGED <<mem, heard>>
          /\ \A i \in Jobs : job'[i] = IF i \in pending THEN Begun(i) ELSE job[i]
      BY <1>6, <2>3 DEF TimerFires
    <3>2. ASSUME NEW k \in {u, All} \cap pending PROVE Owed(u)'
      <4>1. k \in Jobs BY <1>b DEF Jobs, Keys
      <4>2. job'[k].at \in {"sizing", "asking"} BY <3>1, <3>2, <4>1 DEF Begun, Idle
      <4> QED BY <4>2 DEF Owed
    <3>3. CASE {u, All} \cap pending = {}
      <4>1. \A k \in Keys : ~Busy(k) BY <2>3 DEF Placed, Busy
      <4>2. \A i \in Jobs : Busy(i) => job'[i] = job[i] BY <3>1, <4>1, <1>a DEF QueueOK
      <4>3. Owed(u) BY <3>1, <1>o
      <4>4. ASSUME NEW k \in {u, All} PROVE job[k].at \notin {"sizing", "asking", "answered", "merging"}
        BY <4>1, <4>4, <1>b DEF Keys, Busy
      <4>5. PICK i \in Jobs : job[i].at \in {"hydrated", "publishing"} /\ job[i].got[u] >= heard[u]
        BY <3>3, <4>3, <4>4 DEF Owed
      <4>6. job'[i] = job[i] BY <4>2, <4>5 DEF Busy
      <4> QED BY <3>1, <4>5, <4>6 DEF Owed
    <3> QED BY <3>2, <3>3
  <2> QED BY <2>1, <2>2, <2>3
<1>7. CASE FlushEnds
  <2>1. /\ UNCHANGED <<mem, heard, pending>> /\ armed' = (armed \/ pending # {})
        /\ \A i \in Jobs : job'[i] = IF i \in Keys THEN Idle ELSE job[i]
        /\ \A k \in Keys : job[k].at \in {"idle", "done"}
    BY <1>7 DEF FlushEnds
  <2>2. Owed(u) BY <2>1, <1>o
  <2>3. CASE {u, All} \cap pending # {}
    <3>1. armed' BY <2>1, <2>3
    <3> QED BY <2>1, <2>3, <3>1 DEF Owed
  <2>4. CASE {u, All} \cap pending = {}
    <3>1. ASSUME NEW k \in {u, All} PROVE job[k].at \notin {"sizing", "asking", "answered", "merging"}
      <4>1. k \in Keys BY <1>b DEF Keys
      <4> QED BY <2>1, <4>1
    <3>2. PICK i \in Jobs : job[i].at \in {"hydrated", "publishing"} /\ job[i].got[u] >= heard[u]
      BY <2>2, <2>4, <3>1 DEF Owed
    <3>3. job'[i] = job[i] BY <2>1, <3>2
    <3> QED BY <2>1, <3>2, <3>3 DEF Owed
  <2> QED BY <2>3, <2>4
<1>8. ASSUME NEW j \in Jobs, Step(j) PROVE Owed(u)'
  <2>1. heard' = heard
    BY <1>8 DEF Step, HydrateRead, Hydrate, Size, Answer, AnswerEmpty, Persist, Get, Put,
                Publish, Fails
  <2>2. mem[u] <= mem'[u]
    <3>1. \/ mem' = mem
          \/ mem' = Over(mem, job[j].got) /\ ~ (job[j].got[u] # 0 /\ job[j].got[u] < mem[u])
          \/ ~ (mem'[u] < mem[u])
      BY <1>8 DEF Step, HydrateRead, Hydrate, Size, Answer, AnswerEmpty, Persist, Get, Put,
                  Publish, Fails, Land, Note
    <3>2. job[j].got[u] \in Nat BY VersionsAreNumbers
    <3> QED BY <3>1, <3>2, <1>n DEF Over
  <2>3. heard[u] > mem[u] BY <2>1, <2>2, <1>n
  <2> QED BY <1>8, <2>3, <1>o, SyncKeepsOwing
<1>9. ASSUME NEW v \in Users, Change(v) PROVE Owed(u)' BY <1>1, <1>9 DEF Change
<1>10. CASE Connect BY <1>d, <1>10 DEF Connect
<1>11. CASE Dispose BY <1>d, <1>11 DEF Dispose
<1>12. CASE Reload BY <1>d, <1>12 DEF Reload
<1>13. CASE UNCHANGED vars BY <1>1, <1>13 DEF vars
<1> QED BY <1>2, <1>3, <1>4, <1>5, <1>6, <1>7, <1>8, <1>9, <1>10, <1>11, <1>12, <1>13 DEF Next

-----------------------------------------------------------------------------
(* The invariant, and what follows from it.                                *)

LEMMA EntitySoundInit == Init => EntitySound
<1> SUFFICES ASSUME Init PROVE EntitySound
  OBVIOUS
<1>1. NoRows \in Rows /\ Idle \in Job BY CopiesStayCopies, IdleIsJob
<1>2. \A j \in Jobs : Fields(job[j], "idle", All, 0, NoRows, NoRows)
  BY DEF Init, Idle, Fields
<1>3. EntityTypeOK
  <2>1. CopiesOK BY <1>1 DEF Init, CopiesOK
  <2>2. QueueOK
    <3>1. seen \in Seq(Version) /\ Len(seen) <= SeenWindow
      <4>1. seen = <<>> BY DEF Init
      <4> QED BY <4>1, EntityAssumption
    <3> QED BY <3>1 DEF Init, QueueOK
  <2>3. JobsOK BY <1>1 DEF Init, JobsOK
  <2> QED BY <2>1, <2>2, <2>3, TypeInParts
<1>4. Placed BY <1>2, EntityAssumption DEF Placed, Fields, Jobs, Keys, Busy
<1>5. \A u \in Users : NoRows[u] = 0 BY DEF NoRows
<1>6. Sourced
  <2>1. Top(srv) \in Nat
    BY <1>1, TopIsLargest, EntityAssumption DEF Init, Version
  <2> QED BY <2>1, <1>2, <1>5 DEF Init, Sourced, Fields
<1>7. Queued BY DEF Init, Queued
<1>8. Whole
  <2>1. Shown BY <1>5 DEF Init, Shown
  <2>2. Honest(disk) BY <1>5 DEF Init, Honest, Passed
  <2>3. Honest(Both(disk, mem)) BY <1>5 DEF Init, Honest, Passed, Both, Larger
  <2>4. \A j \in Jobs : SweepIsWhole(j) /\ SyncKeeps(j) /\ HydrationShows(j)
    BY <1>2 DEF SweepIsWhole, SyncKeeps, HydrationShows, Fields, At
  <2> QED BY <2>1, <2>2, <2>3, <2>4 DEF Whole
<1>9. AnnouncedIsOwed BY <1>5 DEF Init, AnnouncedIsOwed
<1> QED BY <1>3, <1>4, <1>6, <1>7, <1>8, <1>9 DEF EntitySound

LEMMA EntitySoundStep == EntitySound /\ [Next]_vars => EntitySound'
<1> SUFFICES ASSUME EntitySound, [Next]_vars PROVE EntitySound'
  OBVIOUS
<1>1. EntityTypeOK /\ Placed /\ Sourced /\ Queued /\ AnnouncedIsOwed BY DEF EntitySound
<1>2. EntityTypeOK' BY <1>1, TypeStep
<1>3. Placed' BY <1>1, PlacedStep
<1>4. Sourced' BY <1>1, SourcedStep
<1>5. Queued' BY <1>1, QueuedStep
<1>6. hazards' = {} => hazards = {} BY HarmStays
<1>7. hazards' = {} => Whole' BY <1>1, <1>2, <1>6, WholeStep DEF EntitySound
<1>8. AnnouncedIsOwed'
  <2>1. CASE hazards' = {} BY <2>1, <1>1, <1>2, <1>6, OwedStep DEF EntitySound
  <2>2. CASE hazards' # {} BY <2>2 DEF AnnouncedIsOwed
  <2> QED BY <2>1, <2>2
<1> QED BY <1>2, <1>3, <1>4, <1>5, <1>7, <1>8 DEF EntitySound

THEOREM EntitySoundHolds == Spec => []EntitySound
BY EntitySoundInit, EntitySoundStep, PTL DEF Spec

\* Every copy, queue and sync keeps its type, and the window of remembered ids
\* its size (SEEN_ENTITY_INVALIDATION_LIMIT in maybeConsumeEntityInvalidationPush).
THEOREM EntityTypeCorrect == Spec => []EntityTypeOK
<1>1. EntitySound => EntityTypeOK BY DEF EntitySound
<1> QED BY <1>1, EntitySoundHolds, PTL

\* flushEntityInvalidations never gives up: what was announced to the queue is in
\* memory, queued with its timer, or being brought by a sync that will see it,
\* for any number of users, overlapping sweeps, failures and reloads.
THEOREM AnnouncementsAreOwed == Spec => []AnnouncedIsOwed
<1>1. EntitySound => AnnouncedIsOwed BY DEF EntitySound
<1> QED BY <1>1, EntitySoundHolds, PTL

\* maxSyncVersion never passes a change the cache has not got, while nothing but
\* the queue and the sweeps writes the cache (bootstrapUsers, upsertUsers).
THEOREM CursorStaysHonest == Spec => []CursorIsHonest
<1>1. EntitySound => CursorIsHonest
  <2> SUFFICES ASSUME EntitySound, hazards = {}
               PROVE  Holes(disk) = {} /\ Holes(Both(disk, mem)) = {}
    BY DEF CursorIsHonest
  <2>1. EntityTypeOK /\ Honest(disk) /\ Honest(Both(disk, mem)) BY DEF EntitySound, Whole
  <2>2. disk \in Rows /\ Both(disk, mem) \in Rows
    BY <2>1, CopiesStayCopies DEF EntityTypeOK
  <2> QED BY <2>1, <2>2, NoHoles
<1> QED BY <1>1, EntitySoundHolds, PTL

=============================================================================
