------------------------------ MODULE EntitySync ------------------------------
(***************************************************************************)
(* User profiles of one tab: the queue of entity invalidations and the     *)
(* syncs it shares the cache with (src/client.ts, src/cache).              *)
(*                                                                         *)
(* The server stamps every change of a user with the next version.  A row  *)
(* of the cache is the version it holds, 0 for none; the cache is a        *)
(* database table and a map in memory that observers read.                 *)
(*                                                                         *)
(* A JOB is one running sync: the one a flush runs for a key of the queue  *)
(* (a user, or All for an item without scope), Boot for the sweep of       *)
(* bootstrapProfilesBestEffort, Refresh for a call of refreshUserProfile.  *)
(* Pages of one answer are one step.  Names, avatars and field ownership   *)
(* are left out; friends and groups are swept like All.                    *)
(* Names ending in _Slip are deliberate errors nothing uses: see README.   *)
(***************************************************************************)
EXTENDS Naturals, Sequences, FiniteSetsExt, SequencesExt

CONSTANTS
    Users,
    Peers,          \* users the tab has a direct channel with
    All, Boot, Refresh,
    MaxVersion,     \* bound: changes of the server
    MaxJobs,        \* bound: syncs at a time for Boot or Refresh to start another
    SeenWindow      \* notification ids remembered; 256 in the code

Keys == Users \cup {All}
Jobs == Keys \cup {Boot, Refresh}

ASSUME EntityAssumption ==
    /\ Peers \subseteq Users
    /\ Users \cap {All, Boot, Refresh} = {}
    /\ All # Boot /\ All # Refresh /\ Boot # Refresh
    /\ MaxVersion \in Nat /\ MaxJobs \in Nat /\ SeenWindow \in Nat \ {0}

VARIABLES
    srv,        \* the server's rows
    mail,       \* invalidations the server has pushed
    disk, mem,  \* the two copies of the cache
    cold,       \* the database has rows from before, memory has not read them
    seen,       \* seenEntityInvalidationOrder
    pending,    \* pendingEntityInvalidations
    armed,      \* entityInvalidationTimer is set
    running,    \* entityInvalidationFlushRunning
    disposed,
    job,        \* the running syncs
    heard,      \* history: per user, the last version announced to this queue
    hazards     \* history: what has broken the cache from outside the queue

cacheVars == <<disk, mem, cold>>
queueVars == <<seen, pending, armed, running, disposed>>
vars      == <<srv, mail, cacheVars, queueVars, job, heard, hazards>>

Version == 0..MaxVersion
Rows    == [Users -> Version]
NoRows  == [u \in Users |-> 0]

Idle == [at |-> "idle", who |-> All, since |-> 0, got |-> NoRows, base |-> NoRows]

Job == [at : {"idle", "hydrating", "hydrated", "sizing", "asking", "replied",
              "answered", "merging", "publishing", "done", "synced"},
        who : Keys, since : Version, got : Rows, base : Rows]

Mail == [key : Keys, user : Users, id : Version]

EntityTypeOK ==
    /\ srv \in Rows /\ disk \in Rows /\ mem \in Rows /\ heard \in Rows
    /\ mail \subseteq Mail
    /\ seen \in Seq(Version) /\ Len(seen) <= SeenWindow
    /\ pending \subseteq Keys
    /\ {cold, armed, running, disposed} \subseteq BOOLEAN
    /\ job \in [Jobs -> Job]
    /\ hazards \subseteq {"targeted", "stale", "raced", "blank", "cold", "ahead"}

Init ==
    /\ srv = NoRows /\ mail = {}
    /\ disk = NoRows /\ mem = NoRows /\ cold = FALSE
    /\ seen = <<>> /\ pending = {}
    /\ armed = FALSE /\ running = FALSE /\ disposed = FALSE
    /\ job = [j \in Jobs |-> Idle]
    /\ heard = NoRows /\ hazards = {}

-----------------------------------------------------------------------------
Larger(a, b) == IF a < b THEN b ELSE a

\* maxSyncVersion.
Top(rows) == Max({0} \cup {rows[u] : u \in Users})

Only(u, v) == [NoRows EXCEPT ![u] = v]

\* upsertMany: what was fetched replaces what was there.
Over(rows, new) == [u \in Users |-> IF new[u] # 0 THEN new[u] ELSE rows[u]]

Note(condition, hazard) == IF condition THEN hazards \cup {hazard} ELSE hazards

At(j, l) == job[j].at = l

Goto(j, l) == job' = [job EXCEPT ![j].at = l]

Active == {j \in Jobs : job[j].at \notin {"idle", "done", "synced"}}

\* queueEntityInvalidation and scheduleEntityInvalidationFlush.
Queue(ks) ==
    /\ pending' = pending \cup ks
    /\ armed' = (armed \/ (ks # {} /\ ~running))

-----------------------------------------------------------------------------
(* The server, and what arrives.                                           *)

\* A change of u; its invalidation names the user or the whole collection.
Change(u) ==
    /\ Top(srv) < MaxVersion
    /\ srv' = [srv EXCEPT ![u] = Top(srv) + 1]
    /\ \E k \in {u, All} : mail' = mail \cup {[key |-> k, user |-> u, id |-> srv'[u]]}
    /\ UNCHANGED <<cacheVars, queueVars, job, heard, hazards>>

\* The window evicts one id too late.
DeliverWide_Slip(n) ==
    /\ ~disposed
    /\ ~Contains(seen, n.id)
    /\ seen' = IF Len(seen) > SeenWindow THEN Append(Tail(seen), n.id) ELSE Append(seen, n.id)
    /\ Queue({n.key})
    /\ heard' = [heard EXCEPT ![n.user] = Larger(@, n.id)]
    /\ UNCHANGED <<srv, mail, cacheVars, running, disposed, job, hazards>>

\* A key that is being synced would not be queued again.
Deliver_Slip(n) ==
    /\ ~disposed
    /\ ~Contains(seen, n.id)
    /\ seen' = IF Len(seen) = SeenWindow THEN Append(Tail(seen), n.id) ELSE Append(seen, n.id)
    /\ IF At(n.key, "idle") THEN Queue({n.key}) ELSE UNCHANGED <<pending, armed>>
    /\ heard' = [heard EXCEPT ![n.user] = Larger(@, n.id)]
    /\ UNCHANGED <<srv, mail, cacheVars, running, disposed, job, hazards>>

\* maybeConsumeEntityInvalidationPush: late, repeated, in any order or never.
Deliver(n) ==
    /\ ~disposed
    /\ ~Contains(seen, n.id)
    /\ seen' = IF Len(seen) = SeenWindow THEN Append(Tail(seen), n.id) ELSE Append(seen, n.id)
    /\ Queue({n.key})
    /\ heard' = [heard EXCEPT ![n.user] = Larger(@, n.id)]
    /\ UNCHANGED <<srv, mail, cacheVars, running, disposed, job, hazards>>

\* queueUnresolvedDmPeers.
Unresolved == {u \in Peers : mem[u] = 0}

\* The tail of a reconnect.
Reconnected ==
    /\ ~disposed
    /\ Queue(Unresolved)
    /\ UNCHANGED <<srv, mail, cacheVars, seen, running, disposed, job, heard, hazards>>

\* The host logs in again: connect drops the queue, and a running flush goes on.
Connect ==
    /\ ~disposed
    /\ pending' = {} /\ armed' = FALSE
    /\ heard' = NoRows
    /\ UNCHANGED <<srv, mail, cacheVars, seen, running, disposed, job, hazards>>

Dispose ==
    /\ ~disposed
    /\ disposed' = TRUE
    /\ pending' = {} /\ armed' = FALSE
    /\ heard' = NoRows
    /\ UNCHANGED <<srv, mail, cacheVars, seen, running, job, hazards>>

\* The page is loaded again, or crashed.
Reload ==
    /\ mem' = NoRows
    /\ cold' = (disk # NoRows)
    /\ seen' = <<>> /\ pending' = {}
    /\ armed' = FALSE /\ running' = FALSE /\ disposed' = FALSE
    /\ job' = [j \in Jobs |-> Idle]
    /\ heard' = NoRows
    /\ UNCHANGED <<srv, mail, disk, hazards>>

-----------------------------------------------------------------------------
(* The flush.                                                              *)

\* since_version starts at what memory holds; a scoped request asks from 0.
Begun(k) ==
    IF k = All THEN [Idle EXCEPT !.at = "sizing", !.since = Top(mem)]
               ELSE [Idle EXCEPT !.at = "asking", !.who = k]

TimerFires ==
    /\ armed
    /\ armed' = FALSE
    /\ IF running \/ disposed
       THEN UNCHANGED <<running, pending, job>>
       ELSE /\ running' = TRUE
            /\ pending' = {}
            /\ job' = [j \in Jobs |-> IF j \in pending THEN Begun(j) ELSE job[j]]
    /\ UNCHANGED <<srv, mail, cacheVars, seen, disposed, heard, hazards>>

\* The map would be cleared after the awaits.
FlushEnds_Slip ==
    /\ running
    /\ \A k \in Keys : job[k].at \in {"idle", "done"}
    /\ running' = FALSE
    /\ job' = [j \in Jobs |-> IF j \in Keys THEN Idle ELSE job[j]]
    /\ pending' = {} /\ armed' = FALSE
    /\ UNCHANGED <<srv, mail, cacheVars, seen, disposed, heard, hazards>>

\* Every sync of the batch has settled: what came or failed meanwhile is next.
FlushEnds ==
    /\ running
    /\ \A k \in Keys : job[k].at \in {"idle", "done"}
    /\ running' = FALSE
    /\ armed' = (armed \/ pending # {})
    /\ job' = [j \in Jobs |-> IF j \in Keys THEN Idle ELSE job[j]]
    /\ UNCHANGED <<srv, mail, cacheVars, seen, pending, disposed, heard, hazards>>

\* A sync is over; the flush waits for those of its keys.
Finish(j, l) == job' = [job EXCEPT ![j] = [Idle EXCEPT !.at = l]]

End(j) == Finish(j, IF j \in Keys THEN "done" ELSE IF j = Boot THEN "synced" ELSE "idle")

\* The sync of a key throws: queued again, however often it has failed.
Fail(j) ==
    /\ Finish(j, IF j \in Keys THEN "done" ELSE "idle")
    /\ pending' = IF j \in Keys /\ ~disposed THEN pending \cup {j} ELSE pending

-----------------------------------------------------------------------------
(* The other syncs.                                                        *)

\* bootstrapChannels ends: the profile sweep starts, unless one is running,
\* and peers without a row are queued.  An empty memory is hydrated first.
Bootstrapped ==
    /\ ~disposed
    /\ IF Boot \in Active
       THEN UNCHANGED <<job, hazards>>
       ELSE /\ Cardinality(Active) < MaxJobs
            /\ job' = [job EXCEPT ![Boot] =
                         IF mem = NoRows THEN [Idle EXCEPT !.at = "hydrating"]
                         ELSE [Idle EXCEPT !.at = "sizing", !.since = Top(mem)]]
            /\ hazards' = Note(cold /\ mem # NoRows, "cold")
    /\ Queue(Unresolved)
    /\ UNCHANGED <<srv, mail, cacheVars, seen, running, disposed, heard>>

HydrateRead(j) ==
    /\ At(j, "hydrating")
    /\ job' = [job EXCEPT ![j].at = "hydrated", ![j].got = disk]
    /\ UNCHANGED <<srv, mail, cacheVars, queueVars, heard, hazards>>

Hydrate(j) ==
    /\ At(j, "hydrated")
    /\ mem' = Over(mem, job[j].got)
    /\ cold' = FALSE
    /\ job' = [job EXCEPT ![j] = [Idle EXCEPT !.at = "sizing", !.since = Top(mem')]]
    /\ hazards' = Note(\E u \in Users : mem'[u] < mem[u], "stale")
    /\ UNCHANGED <<srv, mail, disk, queueVars, heard>>

\* refreshUserProfile asks user/detail.
RefreshUser(u) ==
    /\ ~disposed
    /\ At(Refresh, "idle") /\ Cardinality(Active) < MaxJobs
    /\ job' = [job EXCEPT ![Refresh] = [Idle EXCEPT !.at = "asking", !.who = u]]
    /\ UNCHANGED <<srv, mail, cacheVars, queueVars, heard, hazards>>

\* Changes below the largest version of a copy that are not in it: a sweep that
\* starts there never asks for them.
Holes(rows) == {u \in Users : srv[u] <= Top(rows) /\ rows[u] < srv[u]}

Both(d, m) == [u \in Users |-> Larger(d[u], m[u])]

\* A row fetched for one user lands above an older change nothing has fetched.
Land(j, d, m, harm) ==
    /\ disk' = d /\ mem' = m
    /\ hazards' = harm \cup
         IF job[j].who # All /\ (Holes(d) \cup Holes(Both(d, m)) # {}) THEN {"targeted"} ELSE {}

\* persistUserRecord: memory takes the answer as it is, the database later.
Persist(j) ==
    /\ At(j, "replied")
    /\ Land(j, disk, Over(mem, job[j].got),
            Note(\E u \in Users : job[j].got[u] # 0 /\ job[j].got[u] < mem[u], "stale"))
    /\ Goto(j, "answered")
    /\ UNCHANGED <<srv, mail, cold, queueVars, heard>>

-----------------------------------------------------------------------------
(* bootstrapUsers and upsertUsers.                                         *)

\* The cursor is the larger of the two copies.
Size(j) ==
    /\ At(j, "sizing")
    /\ job' = [job EXCEPT ![j].at = "asking", ![j].since = Larger(@, Top(disk))]
    /\ hazards' = Note(cold, "cold") \cup Note(\E u \in Users : mem[u] > disk[u], "ahead")
    /\ UNCHANGED <<srv, mail, cacheVars, queueVars, heard>>

Fetched(j) ==
    LET u == job[j].who IN
    IF u = All THEN [v \in Users |-> IF srv[v] > job[j].since THEN srv[v] ELSE 0]
    ELSE Only(u, srv[u])

Answer(j) ==
    /\ At(j, "asking") /\ Fetched(j) # NoRows
    /\ job' = [job EXCEPT ![j].at = IF j = Refresh THEN "replied" ELSE "answered",
                          ![j].since = 0, ![j].got = Fetched(j)]
    /\ UNCHANGED <<srv, mail, cacheVars, queueVars, heard, hazards>>

\* An empty answer: nothing is newer, or the one user asked for is hidden or not
\* generated yet.  The latter is a success only if the user can be shown.
AnswerEmpty(j) ==
    /\ At(j, "asking") /\ j # Refresh
    /\ j \in Users \/ Fetched(j) = NoRows
    /\ IF j \in Users /\ mem[j] = 0
       THEN Fail(j) /\ UNCHANGED hazards
       ELSE /\ End(j) /\ UNCHANGED pending
            /\ hazards' = Note(j \in Users /\ mem[j] < srv[j], "blank")
    /\ UNCHANGED <<srv, mail, cacheVars, seen, armed, running, disposed, heard>>

\* upsertUsers reads the rows and writes the merged ones, in two transactions.
Get(j) ==
    /\ At(j, "answered")
    /\ job' = [job EXCEPT ![j].at = "merging", ![j].base = disk]
    /\ UNCHANGED <<srv, mail, cacheVars, queueVars, heard, hazards>>

\* An answer older than the row that was read is dropped.
Merged(j) == [u \in Users |-> IF job[j].got[u] < job[j].base[u] THEN 0 ELSE job[j].got[u]]

\* Of an answer only the newest row would be stored.
Put_Slip(j) ==
    /\ At(j, "merging")
    /\ Land(j, Over(disk, [u \in Users |-> IF job[j].got[u] = Top(job[j].got) THEN job[j].got[u] ELSE 0]), mem,
            Note(\E u \in Users : Merged(j)[u] # 0 /\ Merged(j)[u] < disk[u], "raced"))
    /\ IF j = Refresh THEN End(j)
       ELSE job' = [job EXCEPT ![j].at = "publishing", ![j].base = NoRows]
    /\ UNCHANGED <<srv, mail, cold, queueVars, heard>>

Put(j) ==
    /\ At(j, "merging")
    /\ Land(j, Over(disk, Merged(j)), mem,
            Note(\E u \in Users : Merged(j)[u] # 0 /\ Merged(j)[u] < disk[u], "raced"))
    /\ IF j = Refresh THEN End(j)
       ELSE job' = [job EXCEPT ![j].at = "publishing", ![j].base = NoRows]
    /\ UNCHANGED <<srv, mail, cold, queueVars, heard>>

\* Memory takes what was fetched, whatever the merge has dropped.
Publish(j) ==
    /\ At(j, "publishing")
    /\ Land(j, disk, Over(mem, job[j].got),
            Note(\E u \in Users : job[j].got[u] # 0 /\ job[j].got[u] < mem[u], "stale"))
    /\ End(j)
    /\ UNCHANGED <<srv, mail, cold, queueVars, heard>>

\* A request fails, or the database does.  A failed hydration is swallowed.
Fails(j) ==
    /\ job[j].at \in {"hydrating", "sizing", "asking", "answered", "merging"}
    /\ IF At(j, "hydrating")
       THEN /\ job' = [job EXCEPT ![j] = [Idle EXCEPT !.at = "sizing", !.since = Top(mem)]]
            /\ UNCHANGED pending
       ELSE Fail(j)
    /\ UNCHANGED <<srv, mail, cacheVars, seen, armed, running, disposed, heard, hazards>>

-----------------------------------------------------------------------------
Step(j) ==
    \/ HydrateRead(j) \/ Hydrate(j)
    \/ Size(j) \/ Answer(j) \/ AnswerEmpty(j) \/ Persist(j)
    \/ Get(j) \/ Put(j) \/ Publish(j) \/ Fails(j)

Next ==
    \/ \E u \in Users : Change(u) \/ RefreshUser(u)
    \/ \E n \in mail : Deliver(n)
    \/ Reconnected \/ Connect \/ Dispose \/ Reload \/ Bootstrapped
    \/ TimerFires \/ FlushEnds
    \/ \E j \in Jobs : Step(j)

Spec == Init /\ [][Next]_vars

\* Timers elapse and awaited promises settle.  Failures and empty answers to a
\* request that has one stop in the end: while they go on nothing can arrive.
Failure ==
    \E j \in Jobs : Fails(j) \/ (AnswerEmpty(j) /\ Fetched(j) # NoRows)

Fairness ==
    /\ WF_vars(TimerFires \/ FlushEnds \/ \E k \in Keys : Step(k))
    /\ WF_vars(Step(Boot))
    /\ <>[][~Failure]_vars

FairSpec == Spec /\ Fairness

-----------------------------------------------------------------------------
\* What a sync of u's keys is still to bring.
Owed(u) ==
    \/ {u, All} \cap pending # {} /\ (armed \/ running)
    \/ \E k \in {u, All} :
         \/ job[k].at \in {"sizing", "asking"}
         \/ job[k].at \in {"answered", "merging"} /\ job[k].got[u] >= heard[u]
    \/ \E j \in Jobs : job[j].at \in {"hydrated", "publishing"} /\ job[j].got[u] >= heard[u]

\* "Slow down, never give up" (flushEntityInvalidations): a change announced to
\* this queue is in memory, or a key that brings it is queued with its timer
\* set, or is being synced by a request that will see it.  An announcement
\* that comes while the same key is being synced is not lost in that sync.
AnnouncedIsOwed ==
    hazards = {} => \A u \in Users : heard[u] > mem[u] => Owed(u)

\* What the sweeps' cursor has passed is in the cache, whatever sweeps overlap,
\* fail or are cut by a reload between database and memory.
CursorIsHonest == hazards = {} => Holes(disk) = {} /\ Holes(Both(disk, mem)) = {}

\* The announced changes reach memory, however they come and fail meanwhile:
\* it never stays behind them for good, unless the host drops the queue.
AnnouncedArrives ==
    []<>((\A u \in Users : heard[u] <= mem[u]) \/ hazards # {})

=============================================================================
