---------------------------- MODULE OutboxEngine ----------------------------
(***************************************************************************)
(* The outbound queue of the SDK: the persisted `outbox` table, the lease  *)
(* discipline of src/cache/outbox-store.ts and the engine that drains it,  *)
(* src/outbox-engine.ts.                                                   *)
(*                                                                         *)
(* Several tabs share one database.  A PASS is one call of flushOutbox or  *)
(* recoverLocalState; passes of one tab overlap at every await and are     *)
(* ordered only by the per-channel promise chain, passes of different tabs *)
(* only by the transactions of the database.  The module follows one       *)
(* conversation: rows of different conversations share no state.           *)
(*                                                                         *)
(* Wall-clock time is abstracted: a lease or a backoff that is running may *)
(* elapse at any moment (a suspended tab outlives any timeout).            *)
(*                                                                         *)
(* A definition whose name ends in _Slip is a deliberate error.  Nothing   *)
(* uses it: put in place of the definition it precedes, it must make the   *)
(* property that README.md pairs it with fail.                             *)
(***************************************************************************)
EXTENDS Naturals, FiniteSets

CONSTANTS
    Cmds,               \* outbox commands; the number is `created_at`
    Passes,             \* concurrent flushOutbox / recoverLocalState calls
    Tabs,               \* engines sharing the database
    TabOf,              \* the tab each pass runs in
    Rebuildable,        \* commands whose payload alone can rebuild the message
    MaxAttempts,        \* maxAttempts
    MaxRepairAttempts,  \* maxRepairAttempts
    None                \* "no pass"

ASSUME OutboxAssumption ==
    /\ Cmds \subseteq Nat \ {0}
    /\ TabOf \in [Passes -> Tabs]
    /\ Rebuildable \subseteq Cmds
    /\ MaxAttempts \in Nat \ {0}
    /\ MaxRepairAttempts \in Nat \ {0}
    /\ None \notin Passes

VARIABLES
    outbox,     \* the outbox table
    local,      \* messages_v2 row found by (channel, local_message_id)
    remote,     \* commands with a messages_v2 row known by server id only
    held,       \* per tab: messages its in-memory MessageStore holds
    pc,         \* per pass: where it is suspended
    cmd,        \* per pass: the command it works on
    kind,       \* per pass: "flush" or "recover"
    todo,       \* per pass: commands of its snapshot still to process
    acks,       \* per pass: commands its snapshot saw as ack_pending
    tries,      \* per pass: attempt counter copied with the claimed row
    seen,       \* per pass: the row updateOutboxStatus has read
    prior,      \* per pass: the pass it awaits in the channel's promise chain
    inFlight,   \* per tab: the channel's entry of the inFlight map
    net,        \* requests still on the wire after their sender gave up
    server,     \* commands the server has accepted
    created,    \* commands that were ever enqueued
    told,       \* commands announced as `sent`
    expired     \* passes whose send lease ran out while they held it

dbVars   == <<outbox, local, remote>>
passVars == <<pc, cmd, kind, todo, acks, tries, seen, expired>>
lockVars == <<prior, inFlight>>
envVars  == <<held, net, server, created, told>>
vars     == <<dbVars, passVars, lockVars, envVars>>

Statuses == {"none", "pending", "sending", "failed", "ack_pending",
             "integrity_error", "local_data_error"}

Row == [status   : Statuses,                    \* "none": no such row
        timer    : {"due", "wait", "frozen"},   \* next_attempt_at
        attempts : 0..MaxAttempts,              \* attempt_count
        acked    : BOOLEAN,                     \* acked_server_message_id set
        owner    : Passes \cup {None},          \* whose lease_token it carries
        live     : BOOLEAN,                     \* `sending`, lease_until > now
        rowner   : Passes \cup {None},          \* whose repair_lease_token
        rlive    : BOOLEAN,                     \* repair_lease_until > now
        rdue     : BOOLEAN,                     \* repair_next_attempt_at <= now
        rtries   : 0..MaxRepairAttempts]        \* repair_attempts

NoRow == [status |-> "none", timer |-> "due", attempts |-> 0, acked |-> FALSE,
          owner |-> None, live |-> FALSE, rowner |-> None, rlive |-> FALSE,
          rdue |-> TRUE, rtries |-> 0]

NewRow == [NoRow EXCEPT !.status = "pending"]

\* The attempt is over.  The code leaves its token on the row; nobody holds
\* that token any more, and lease_until is read on `sending` rows only.
Unleased(r) == [r EXCEPT !.owner = None, !.live = FALSE]

SendPCs   == {"sending", "transient", "rejected", "acked",
              "uncommitted", "unprojected"}
ReplayPCs == {"replay", "reread_t", "reread_i", "rewrite_t", "rewrite_i"}
RepairPCs == {"hook", "mend", "unmended"}
Working   == SendPCs \cup ReplayPCs \cup RepairPCs
PCs       == {"idle", "repair", "drain"} \cup Working

Capped_Slip(n, cap) == IF n <= cap THEN n + 1 ELSE cap

\* Counters are compared with their cap only, so they saturate there.
Capped(n, cap) == IF n < cap THEN n + 1 ELSE cap

DbTypeOK ==
    /\ outbox \in [Cmds -> Row]
    /\ local \in [Cmds -> {"none", "pending", "sent"}]
    /\ remote \subseteq Cmds

PassTypeOK ==
    /\ pc \in [Passes -> PCs]
    /\ cmd \in [Passes -> Cmds \cup {0}]
    /\ kind \in [Passes -> {"flush", "recover"}]
    /\ todo \in [Passes -> SUBSET Cmds]
    /\ acks \in [Passes -> SUBSET Cmds]
    /\ tries \in [Passes -> Nat]
    /\ seen \in [Passes -> Row]
    /\ expired \subseteq Passes
    /\ \A p \in Passes : pc[p] \in Working => cmd[p] \in Cmds

LockTypeOK ==
    /\ prior \in [Passes -> Passes \cup {None}]
    /\ inFlight \in [Tabs -> Passes \cup {None}]

EnvTypeOK ==
    /\ held \in [Tabs -> SUBSET Cmds]
    /\ net \subseteq Cmds
    /\ server \subseteq Cmds
    /\ created \subseteq Cmds
    /\ told \subseteq Cmds

TypeOK == DbTypeOK /\ PassTypeOK /\ LockTypeOK /\ EnvTypeOK

Init ==
    /\ outbox = [c \in Cmds |-> NoRow]
    /\ local = [c \in Cmds |-> "none"]
    /\ remote = {}
    /\ held = [t \in Tabs |-> {}]
    /\ pc = [p \in Passes |-> "idle"]
    /\ cmd = [p \in Passes |-> 0]
    /\ kind = [p \in Passes |-> "flush"]
    /\ todo = [p \in Passes |-> {}]
    /\ acks = [p \in Passes |-> {}]
    /\ tries = [p \in Passes |-> 0]
    /\ seen = [p \in Passes |-> NoRow]
    /\ prior = [p \in Passes |-> None]
    /\ inFlight = [t \in Tabs |-> None]
    /\ net = {}
    /\ server = {}
    /\ created = {}
    /\ told = {}
    /\ expired = {}

-----------------------------------------------------------------------------
(* Rows: what the queries and the compare-and-set transactions test.       *)

\* A claim that trusts the status and forgets the lease.
Claimable_Slip(r) == r.status \in {"pending", "failed", "sending"}

\* A claim that takes whatever carries no running lease.
ClaimableAny_Slip(r) == r.status # "none" /\ ~r.live

\* A claim that never takes over a row whose owner died.
ClaimableFresh_Slip(r) == r.status \in {"pending", "failed"}

Claimable(r) ==
    \/ r.status \in {"pending", "failed"}
    \/ r.status = "sending" /\ ~r.live

\* A query that lists what must be sent and forgets what must converge.
Due_Slip(r) == r.timer = "due" /\ Claimable(r)

\* listDueOutboxEntries
Due(r) == r.timer = "due" /\ (Claimable(r) \/ r.status = "ack_pending")

RepairClaimable(r) == r.status = "integrity_error" /\ ~r.rlive /\ r.rdue

\* resolvePending finds a record, or can rebuild one.  `ackOnRow`: the
\* command already carries acked_server_message_id.
Resolvable(t, c, ackOnRow) ==
    \/ c \in held[t]
    \/ local[c] # "none"
    \/ ackOnRow /\ c \in remote
    \/ c \in Rebuildable

-----------------------------------------------------------------------------
(* The end of a row and the end of a pass.                                 *)

Goto(p, l) == pc' = [pc EXCEPT ![p] = l]

\* Back to the loop over the snapshot the pass is in.
LoopOf(p) == IF pc[p] \in RepairPCs THEN "repair" ELSE "drain"

NextRow(p) ==
    /\ Goto(p, LoopOf(p))
    /\ cmd' = [cmd EXCEPT ![p] = 0]
    /\ tries' = [tries EXCEPT ![p] = 0]
    /\ expired' = expired \ {p}
    /\ seen' = [seen EXCEPT ![p] = NoRow]
    /\ UNCHANGED <<kind, todo, acks>>

\* Frees the map entry without asking whose it is.
Release_Slip(p) ==
    /\ prior' = [q \in Passes |-> IF prior[q] = p THEN None ELSE prior[q]]
    /\ inFlight' = [inFlight EXCEPT ![TabOf[p]] = None]

\* The channel's work promise settles: who awaits it may run, and the map
\* entry is freed when it is still this pass's.
Release(p) ==
    /\ prior' = [q \in Passes |-> IF prior[q] = p THEN None ELSE prior[q]]
    /\ inFlight' = [t \in Tabs |-> IF inFlight[t] = p THEN None ELSE inFlight[t]]

ResetPass(p) ==
    /\ Goto(p, "idle")
    /\ cmd' = [cmd EXCEPT ![p] = 0]
    /\ kind' = [kind EXCEPT ![p] = "flush"]
    /\ todo' = [todo EXCEPT ![p] = {}]
    /\ acks' = [acks EXCEPT ![p] = {}]
    /\ tries' = [tries EXCEPT ![p] = 0]
    /\ seen' = [seen EXCEPT ![p] = NoRow]
    /\ expired' = expired \ {p}

\* The row the pass works on next: oldest first.
Oldest(p, c) == c \in todo[p] /\ \A d \in todo[p] : c <= d

-----------------------------------------------------------------------------
(* Enqueue: createLocalMessageQueued, the message row and its command in   *)
(* one transaction, after the local echo went into memory.                 *)

Enqueue(t, c) ==
    /\ \A d \in created : d < c
    /\ created' = created \cup {c}
    /\ outbox' = [outbox EXCEPT ![c] = NewRow]
    /\ local' = [local EXCEPT ![c] = "pending"]
    /\ held' = [held EXCEPT ![t] = @ \cup {c}]
    /\ UNCHANGED <<remote, passVars, lockVars, net, server, told>>

-----------------------------------------------------------------------------
(* A pass: first the quarantined rows, then the due ones.                  *)

Start(p, k) ==
    /\ pc[p] = "idle"
    /\ Goto(p, "repair")
    /\ kind' = [kind EXCEPT ![p] = k]
    /\ todo' = [todo EXCEPT ![p] =
                  {c \in Cmds : outbox[c].status = "integrity_error"}]
    /\ UNCHANGED <<cmd, acks, tries, seen, expired, dbVars, lockVars, envVars>>

\* claimRepairRow took the row: the counter lives inside the claim.
ClaimRepair(p) ==
    /\ pc[p] = "repair"
    /\ \E c \in todo[p] :
         /\ RepairClaimable(outbox[c])
         /\ outbox' = [outbox EXCEPT ![c] = [outbox[c] EXCEPT
                !.rtries = Capped(outbox[c].rtries, MaxRepairAttempts),
                !.rowner = p, !.rlive = TRUE]]
         /\ cmd' = [cmd EXCEPT ![p] = c]
         /\ tries' = [tries EXCEPT ![p] =
                        Capped(outbox[c].rtries, MaxRepairAttempts)]
         /\ todo' = [todo EXCEPT ![p] = @ \ {c}]
    /\ Goto(p, "hook")
    /\ UNCHANGED <<kind, acks, seen, expired, local, remote, lockVars, envVars>>

\* Someone is on the row, it backs off, or it is no longer quarantined.
SkipRepair(p) ==
    /\ pc[p] = "repair"
    /\ \E c \in todo[p] :
         /\ ~RepairClaimable(outbox[c])
         /\ todo' = [todo EXCEPT ![p] = @ \ {c}]
    /\ UNCHANGED <<pc, cmd, kind, acks, tries, seen, expired, dbVars, lockVars, envVars>>

\* onIntegrityFault: the host fetches the message by its server id, or fails.
RepairHook(p) ==
    /\ pc[p] = "hook"
    /\ remote' \in {remote} \cup
         (IF cmd[p] \in server /\ local[cmd[p]] # "sent"
          THEN {remote \cup {cmd[p]}} ELSE {})
    /\ Goto(p, "mend")
    /\ UNCHANGED <<outbox, local, cmd, kind, todo, acks, tries, seen, expired,
                   lockVars, envVars>>

\* The message settles beside the copy a history page brought in.
SettleRow_Slip(t, c) ==
    /\ outbox' = [outbox EXCEPT ![c] = NoRow]
    /\ local' = [local EXCEPT ![c] = "sent"]
    /\ held' = [held EXCEPT ![t] = @ \cup {c}]
    /\ told' = told \cup {c}
    /\ UNCHANGED remote

\* The command goes first, the message would follow in a write of its own.
SettleRowFirst_Slip(t, c) ==
    /\ outbox' = [outbox EXCEPT ![c] = NoRow]
    /\ held' = [held EXCEPT ![t] = @ \cup {c}]
    /\ told' = told \cup {c}
    /\ UNCHANGED <<local, remote>>

\* What applyAck leaves behind: one message row, `sent`, and no command.
SettleRow(t, c) ==
    /\ outbox' = [outbox EXCEPT ![c] = NoRow]
    /\ local' = [local EXCEPT ![c] = "sent"]
    /\ remote' = remote \ {c}
    /\ held' = [held EXCEPT ![t] = @ \cup {c}]
    /\ told' = told \cup {c}

\* attemptRepair replays the stored ACK under the repair lease.
Mend(p) ==
    LET c == cmd[p] IN
    /\ pc[p] = "mend"
    /\ outbox[c].rowner = p
    /\ Resolvable(TabOf[p], c, TRUE)
    /\ SettleRow(TabOf[p], c)
    /\ NextRow(p)
    /\ UNCHANGED <<lockVars, net, server, created>>

\* Lease lost, nothing to resolve, or the transaction failed.
MendFails(p) ==
    /\ pc[p] = "mend"
    /\ Goto(p, "unmended")
    /\ UNCHANGED <<cmd, kind, todo, acks, tries, seen, expired, dbVars, lockVars, envVars>>

\* commitRepairTransition: back off, or give up once the budget is spent.
CommitUnmended(p) ==
    LET c == cmd[p] IN
    /\ pc[p] = "unmended"
    /\ outbox' = IF outbox[c].rowner # p THEN outbox
                 ELSE [outbox EXCEPT ![c] =
                        IF tries[p] >= MaxRepairAttempts
                        THEN [@ EXCEPT !.status = "local_data_error",
                                       !.rlive = FALSE, !.rowner = None]
                        ELSE [@ EXCEPT !.rdue = FALSE,
                                       !.rlive = FALSE, !.rowner = None]]
    /\ NextRow(p)
    /\ UNCHANGED <<local, remote, lockVars, envVars>>

\* The quarantined rows are done: list what is due, oldest first, and
\* register behind the pass that holds the channel.  `limit` keeps a prefix.
\* recoverLocalState keeps the ack_pending rows and takes no place in the chain.
ListDue(p) ==
    /\ pc[p] = "repair"
    /\ todo[p] = {}
    /\ LET due  == {c \in Cmds : Due(outbox[c])}
           ackd == {c \in due : outbox[c].status = "ack_pending"}
           tab  == TabOf[p]
       IN  \E batch \in IF kind[p] = "recover" THEN {ackd}
                        ELSE {{c \in due : c <= limit} : limit \in Cmds} :
             /\ todo' = [todo EXCEPT ![p] = batch]
             /\ acks' = [acks EXCEPT ![p] = batch \cap ackd]
             /\ IF kind[p] = "flush" /\ batch # {}
                THEN /\ prior' = [prior EXCEPT ![p] = inFlight[tab]]
                     /\ inFlight' = [inFlight EXCEPT ![tab] = p]
                ELSE UNCHANGED lockVars
    /\ Goto(p, "drain")
    /\ UNCHANGED <<cmd, kind, tries, seen, expired, dbVars, envVars>>

\* Every row settled: the pass returns.
Finish(p) ==
    /\ pc[p] = "drain"
    /\ prior[p] = None
    /\ todo[p] = {}
    /\ ResetPass(p)
    /\ Release(p)
    /\ UNCHANGED <<dbVars, envVars>>

-----------------------------------------------------------------------------
(* processRow.                                                             *)

\* The snapshot says ack_pending: replay locally, never on the wire.
StartReplay(p) ==
    /\ pc[p] = "drain"
    /\ prior[p] = None
    /\ \E c \in acks[p] :
         /\ Oldest(p, c)
         /\ cmd' = [cmd EXCEPT ![p] = c]
         /\ todo' = [todo EXCEPT ![p] = @ \ {c}]
         /\ acks' = [acks EXCEPT ![p] = @ \ {c}]
    /\ Goto(p, "replay")
    /\ UNCHANGED <<kind, tries, seen, expired, dbVars, lockVars, envVars>>

\* Not authenticated, or the claim found the row gone, leased or delivered.
\* The connection comes and goes at any time, so the first is a free choice.
SkipRow(p) ==
    /\ pc[p] = "drain"
    /\ prior[p] = None
    /\ \E c \in todo[p] \ acks[p] :
         /\ Oldest(p, c)
         /\ todo' = [todo EXCEPT ![p] = @ \ {c}]
    /\ UNCHANGED <<pc, cmd, kind, acks, tries, seen, expired, dbVars, lockVars, envVars>>

\* claimOutboxEntry: the caller's snapshot is not trusted, the status and the
\* lease are read again inside the transaction; then the request goes out.
ClaimSend(p) ==
    /\ pc[p] = "drain"
    /\ prior[p] = None
    /\ \E c \in todo[p] \ acks[p] :
         /\ Oldest(p, c)
         /\ Claimable(outbox[c])
         /\ outbox' = [outbox EXCEPT ![c] = [@ EXCEPT
                !.status = "sending", !.owner = p, !.live = TRUE]]
         /\ cmd' = [cmd EXCEPT ![p] = c]
         /\ tries' = [tries EXCEPT ![p] = outbox[c].attempts]
         /\ todo' = [todo EXCEPT ![p] = @ \ {c}]
    /\ Goto(p, "sending")
    /\ UNCHANGED <<kind, acks, seen, expired, local, remote, lockVars, envVars>>

\* The send throws: transport failure, close, or sendTimeoutMs.  Its request
\* may still reach the server.
SendThrows(p) ==
    /\ pc[p] = "sending"
    /\ Goto(p, "transient")
    /\ net' = net \cup ({cmd[p]} \ server)
    /\ UNCHANGED <<cmd, kind, todo, acks, tries, seen, expired, dbVars, lockVars,
                   held, server, created, told>>

\* handleTransient: back off, or freeze when the budget is spent.
CommitTransient(p) ==
    LET c    == cmd[p]
        next == Capped(tries[p], MaxAttempts)
    IN
    /\ pc[p] = "transient"
    /\ outbox' = IF outbox[c].owner # p THEN outbox
                 ELSE [outbox EXCEPT ![c] = [Unleased(@) EXCEPT
                        !.status = "failed", !.attempts = next,
                        !.timer = IF next >= MaxAttempts THEN "frozen" ELSE "wait"]]
    /\ NextRow(p)
    /\ UNCHANGED <<local, remote, lockVars, envVars>>

\* A rejection that deletes the row instead of freezing it.
CommitRejected_Slip(p) ==
    /\ pc[p] = "rejected"
    /\ outbox' = IF outbox[cmd[p]].owner # p THEN outbox
                 ELSE [outbox EXCEPT ![cmd[p]] = NoRow]
    /\ NextRow(p)
    /\ UNCHANGED <<local, remote, lockVars, envVars>>

\* handleRejected: a terminal answer freezes the row at once.
CommitRejected(p) ==
    LET c == cmd[p] IN
    /\ pc[p] = "rejected"
    /\ outbox' = IF outbox[c].owner # p THEN outbox
                 ELSE [outbox EXCEPT ![c] = [Unleased(@) EXCEPT
                        !.status = "failed", !.attempts = Capped(tries[p], MaxAttempts),
                        !.timer = "frozen"]]
    /\ NextRow(p)
    /\ UNCHANGED <<local, remote, lockVars, envVars>>

\* applyAck under the send lease: row deleted and message settled together.
CommitAck(p) ==
    LET c == cmd[p] IN
    /\ pc[p] = "acked"
    /\ Resolvable(TabOf[p], c, FALSE)
    /\ IF outbox[c].owner = p
       THEN SettleRow(TabOf[p], c)
       ELSE UNCHANGED <<dbVars, held, told>>
    /\ NextRow(p)
    /\ UNCHANGED <<lockVars, net, server, created>>

\* applyAck throws: a storage fault, or a projection nothing can rebuild.
AckThrows(p) ==
    /\ pc[p] = "acked"
    /\ Goto(p, IF Resolvable(TabOf[p], cmd[p], FALSE)
               THEN "uncommitted" ELSE "unprojected")
    /\ UNCHANGED <<cmd, kind, todo, acks, tries, seen, expired, dbVars, lockVars, envVars>>

AckPending(r) == [Unleased(r) EXCEPT
    !.status = "ack_pending", !.acked = TRUE, !.timer = "wait"]

Quarantined(r) == [Unleased(r) EXCEPT
    !.status = "integrity_error", !.acked = TRUE, !.timer = "frozen", !.rdue = TRUE]

\* handleLocalCommitFailure of an attempt that holds a lease: fenced write.
CommitUncommitted(p) ==
    LET c == cmd[p] IN
    /\ pc[p] \in {"uncommitted", "unprojected"}
    /\ outbox' = IF outbox[c].owner # p THEN outbox
                 ELSE [outbox EXCEPT ![c] = IF pc[p] = "uncommitted"
                                            THEN AckPending(@) ELSE Quarantined(@)]
    /\ NextRow(p)
    /\ UNCHANGED <<local, remote, lockVars, envVars>>

\* retryLocalCommit: the ACK replay no lease guards.
Replay(p) ==
    /\ pc[p] = "replay"
    /\ Resolvable(TabOf[p], cmd[p], TRUE)
    /\ SettleRow(TabOf[p], cmd[p])
    /\ NextRow(p)
    /\ UNCHANGED <<lockVars, net, server, created>>

ReplayThrows(p) ==
    /\ pc[p] = "replay"
    /\ Goto(p, IF Resolvable(TabOf[p], cmd[p], TRUE) THEN "reread_t" ELSE "reread_i")
    /\ UNCHANGED <<cmd, kind, todo, acks, tries, seen, expired, dbVars, lockVars, envVars>>

\* updateOutboxStatus is a get and a put, not one transaction.
RereadRow(p) ==
    /\ pc[p] \in {"reread_t", "reread_i"}
    /\ IF outbox[cmd[p]].status = "none"
       THEN NextRow(p)
       ELSE /\ Goto(p, IF pc[p] = "reread_t" THEN "rewrite_t" ELSE "rewrite_i")
            /\ seen' = [seen EXCEPT ![p] = outbox[cmd[p]]]
            /\ UNCHANGED <<cmd, kind, todo, acks, tries, expired>>
    /\ UNCHANGED <<dbVars, lockVars, envVars>>

\* The put writes the row as read, also when it was deleted meanwhile.
RewriteRow(p) ==
    LET c == cmd[p] IN
    /\ pc[p] \in {"rewrite_t", "rewrite_i"}
    /\ outbox' = [outbox EXCEPT ![c] = IF pc[p] = "rewrite_t"
                                       THEN AckPending(seen[p]) ELSE Quarantined(seen[p])]
    /\ NextRow(p)
    /\ UNCHANGED <<local, remote, lockVars, envVars>>

-----------------------------------------------------------------------------
(* The server: external.  It deduplicates by local_message_id, so a second *)
(* copy of a request it has accepted changes nothing.                      *)

ServerAccepts(c) ==
    /\ server' = server \cup {c}
    /\ net' = net \ {c}

\* Accepted; the answer reaches the sender, or is lost and the sender throws.
Accept(p) ==
    /\ pc[p] = "sending"
    /\ ServerAccepts(cmd[p])
    /\ \E l \in {"acked", "transient"} : Goto(p, l)
    /\ UNCHANGED <<dbVars, cmd, kind, todo, acks, tries, seen, expired, lockVars,
                   held, created, told>>

\* reason_code # 0: isRetryableServerCode decides which handler runs.
Refuse(p) ==
    /\ pc[p] = "sending"
    /\ \E l \in {"transient", "rejected"} : Goto(p, l)
    /\ UNCHANGED <<cmd, kind, todo, acks, tries, seen, expired, dbVars, lockVars, envVars>>

\* A request outlives the attempt that sent it.
AcceptLate(c) ==
    /\ c \in net
    /\ ServerAccepts(c)
    /\ UNCHANGED <<dbVars, passVars, lockVars, held, created, told>>

-----------------------------------------------------------------------------
(* Time, faults, and the other writers of the message table.               *)

LeaseExpires(c) ==
    /\ outbox[c].live
    /\ outbox' = [outbox EXCEPT ![c].live = FALSE]
    /\ expired' = expired \cup
         {p \in Passes : outbox[c].owner = p /\ cmd[p] = c /\ pc[p] \in SendPCs}
    /\ UNCHANGED <<local, remote, pc, cmd, kind, todo, acks, tries, seen,
                   lockVars, envVars>>

BackoffElapses(c) ==
    /\ outbox[c].timer = "wait"
    /\ outbox' = [outbox EXCEPT ![c].timer = "due"]
    /\ UNCHANGED <<local, remote, passVars, lockVars, envVars>>

RepairLeaseExpires(c) ==
    /\ outbox[c].rlive
    /\ outbox' = [outbox EXCEPT ![c].rlive = FALSE]
    /\ UNCHANGED <<local, remote, passVars, lockVars, envVars>>

RepairBackoffElapses(c) ==
    /\ ~outbox[c].rdue
    /\ outbox' = [outbox EXCEPT ![c].rdue = TRUE]
    /\ UNCHANGED <<local, remote, passVars, lockVars, envVars>>

\* A database call rejects: the pass's promise rejects with it.
StorageFault(p) ==
    /\ pc[p] \notin {"idle", "hook", "sending", "acked", "replay", "mend"}
    /\ prior[p] = None
    /\ ResetPass(p)
    /\ Release(p)
    /\ UNCHANGED <<dbVars, envVars>>

\* The tab dies: its passes and its memory are gone, the database stays, and
\* what it had on the wire (`more`: beside the requests of its passes) may
\* still arrive.
TabDies(t, more) ==
    /\ LET dead == {p \in Passes : TabOf[p] = t}
           sent == {cmd[p] : p \in {q \in dead : pc[q] = "sending"}}
       IN
         /\ pc' = [p \in Passes |-> IF p \in dead THEN "idle" ELSE pc[p]]
         /\ cmd' = [p \in Passes |-> IF p \in dead THEN 0 ELSE cmd[p]]
         /\ kind' = [p \in Passes |-> IF p \in dead THEN "flush" ELSE kind[p]]
         /\ todo' = [p \in Passes |-> IF p \in dead THEN {} ELSE todo[p]]
         /\ acks' = [p \in Passes |-> IF p \in dead THEN {} ELSE acks[p]]
         /\ tries' = [p \in Passes |-> IF p \in dead THEN 0 ELSE tries[p]]
         /\ seen' = [p \in Passes |-> IF p \in dead THEN NoRow ELSE seen[p]]
         /\ prior' = [p \in Passes |-> IF p \in dead THEN None ELSE prior[p]]
         /\ expired' = expired \ dead
         /\ net' = net \cup ((sent \cup more) \ server)
    /\ inFlight' = [inFlight EXCEPT ![t] = None]
    /\ held' = [held EXCEPT ![t] = {}]
    /\ UNCHANGED <<dbVars, server, created, told>>

Crash(t) == TabDies(t, {})

\* handleResync of the sync engine drops the tab's buffer and, a few awaits
\* later, every message row of the channel, unsent ones included.
ClearBuffer(t) ==
    /\ held[t] # {}
    /\ held' = [held EXCEPT ![t] = {}]
    /\ UNCHANGED <<dbVars, passVars, lockVars, net, server, created, told>>

ClearMessages ==
    /\ \/ remote # {}
       \/ \E c \in Cmds : local[c] # "none"
    /\ local' = [c \in Cmds |-> "none"]
    /\ remote' = {}
    /\ UNCHANGED <<outbox, passVars, lockVars, envVars>>

\* A history page brings the message back without its local_message_id.
HistoryLands(c) ==
    /\ c \in server \ remote
    /\ local[c] # "sent"
    /\ remote' = remote \cup {c}
    /\ UNCHANGED <<outbox, local, passVars, lockVars, envVars>>

\* mergeCommits: the commit echoes our local_message_id.
CommitLands(c) ==
    /\ c \in server
    /\ local[c] # "sent"
    /\ local' = [local EXCEPT ![c] = "sent"]
    /\ remote' = remote \ {c}
    /\ UNCHANGED <<outbox, passVars, lockVars, envVars>>

-----------------------------------------------------------------------------
Pass(p) ==
    \/ \E k \in {"flush", "recover"} : Start(p, k)
    \/ ClaimRepair(p) \/ SkipRepair(p) \/ RepairHook(p)
    \/ Mend(p) \/ MendFails(p) \/ CommitUnmended(p)
    \/ ListDue(p) \/ Finish(p)
    \/ StartReplay(p) \/ SkipRow(p) \/ ClaimSend(p)
    \/ SendThrows(p) \/ Accept(p) \/ Refuse(p) \/ CommitTransient(p) \/ CommitRejected(p)
    \/ CommitAck(p) \/ AckThrows(p) \/ CommitUncommitted(p)
    \/ Replay(p) \/ ReplayThrows(p) \/ RereadRow(p) \/ RewriteRow(p)
    \/ StorageFault(p)

Surroundings ==
    \/ \E c \in Cmds :
         \/ LeaseExpires(c) \/ BackoffElapses(c)
         \/ RepairLeaseExpires(c) \/ RepairBackoffElapses(c)
         \/ AcceptLate(c) \/ HistoryLands(c) \/ CommitLands(c)
    \/ \E t \in Tabs : ClearBuffer(t)
    \/ ClearMessages

Next ==
    \/ \E t \in Tabs, c \in Cmds : Enqueue(t, c)
    \/ \E p \in Passes : Pass(p)
    \/ \E t \in Tabs : Crash(t)
    \/ Surroundings

Spec == Init /\ [][Next]_vars

(* Fairness.  The event loop runs every continuation whose promise settled, *)
(* timers elapse, and flushes with no `limit` keep coming, whatever else    *)
(* the tab starts (every reconnect runs one).  The connection is up again   *)
(* and again when a row's turn comes, and so is the database when an ACK is *)
(* replayed.  Tabs stop dying and database calls stop rejecting at some     *)
(* point.                                                                   *)

Continue(p) ==
    \/ ClaimRepair(p) \/ SkipRepair(p) \/ RepairHook(p)
    \/ Mend(p) \/ MendFails(p) \/ CommitUnmended(p)
    \/ ListDue(p) \/ Finish(p)
    \/ StartReplay(p) \/ SkipRow(p) \/ ClaimSend(p)
    \/ SendThrows(p) \/ CommitTransient(p) \/ CommitRejected(p)
    \/ CommitAck(p) \/ AckThrows(p) \/ CommitUncommitted(p)
    \/ Replay(p) \/ ReplayThrows(p) \/ RereadRow(p) \/ RewriteRow(p)

\* A flush with no `limit`, as every reconnect runs it.
ListAll(p) ==
    /\ ListDue(p)
    /\ kind[p] = "flush"
    /\ todo'[p] = {c \in Cmds : Due(outbox[c])}

Timers(c) ==
    \/ LeaseExpires(c) \/ BackoffElapses(c)
    \/ RepairLeaseExpires(c) \/ RepairBackoffElapses(c)

\* A step of a pass that leaves what a crash of an idle tab would leave is not
\* a disaster.
Disaster ==
    /\ \/ \E t \in Tabs : Crash(t)
       \/ \E p \in Passes : StorageFault(p)
    /\ ~ \E p \in Passes : Continue(p)

Fairness ==
    /\ \A p \in Passes :
         /\ SF_vars(Start(p, "flush"))
         /\ SF_vars(ListAll(p))
         /\ WF_vars(Continue(p))
         /\ \A c \in Cmds : SF_vars(ClaimSend(p) /\ cmd'[p] = c)
         /\ SF_vars(Replay(p))
    /\ \A c \in Cmds : WF_vars(Timers(c))
    /\ <>[][~Disaster]_vars

FairSpec == Spec /\ Fairness

-----------------------------------------------------------------------------
(* What the queue promises.                                                *)

Quiet == {"ack_pending", "integrity_error", "local_data_error"}

\* Once the server's ACK is stored on a row, no interleaving of passes, lease
\* expiries and crashes brings that row back to a state a claim would send
\* ("nothing may drag them back onto the wire", claimOutboxEntry).
AckedOffWire == \A c \in Cmds : outbox[c].acked => outbox[c].status \in Quiet

\* A command leaves the table, is marked acknowledged or is announced as
\* `sent` only when the server has accepted it: retiring a row cannot lose a
\* message (applyAck deletes the row, handleLocalCommitFailure stores the ACK).
RetiredIsDelivered ==
    /\ \A c \in created : outbox[c].status = "none" => c \in server
    /\ \A c \in Cmds : outbox[c].acked => c \in server
    /\ told \subseteq server

\* An attempt loses its row to another one only after its own lease ran out:
\* two tabs never send one command under two running leases.
StolenOnlyExpired ==
    \A p \in Passes :
        pc[p] \in SendPCs /\ outbox[cmd[p]].owner # p => p \in expired

\* Command-First, seen from the message: a message shown as `pending` always
\* has a command that will send it or converge it.
PendingHasCommand ==
    \A c \in Cmds : local[c] = "pending" => outbox[c].status # "none"

\* One logical message, one row: an acknowledged message has absorbed the copy
\* that came back by its server id.
OneRowPerMessage == \A c \in Cmds : local[c] = "sent" => c \notin remote

\* The promise chain is a mutex: of the flushes of one tab at most one works
\* on a row of the channel (processChannel, the inFlight map).
ChannelMutex ==
    \A p, q \in Passes :
        /\ p # q /\ TabOf[p] = TabOf[q]
        => ~(/\ pc[p] \in SendPCs \cup ReplayPCs /\ kind[p] = "flush"
             /\ pc[q] \in SendPCs \cup ReplayPCs /\ kind[q] = "flush")

\* The engine implements the abstract queue: leases, passes, crashes and replays
\* add up to a queue whose commands leave it only delivered.
Queue == INSTANCE CommandQueue
         WITH queued <- {c \in Cmds : outbox[c].status # "none"},
              delivered <- server,
              dropped <- {}

ImplementsQueue == Queue!Spec

\* No command lingers: every one is delivered and gone, given up with its
\* repair budget, or frozen for the user to decide.
Settled(c) ==
    \/ outbox[c].status \in {"none", "local_data_error"}
    \/ outbox[c].status = "failed" /\ outbox[c].timer = "frozen"

EveryCommandSettles == \A c \in Cmds : <>[](c \in created => Settled(c))

\* A delivered message always stops showing as unsettled: an ACK stored on a
\* row converges, with no network, to `sent` or to an honest failure.
AckedConverges ==
    \A c \in Cmds :
        outbox[c].acked ~> outbox[c].status \in {"none", "local_data_error"}

-----------------------------------------------------------------------------
(* What a comment of the code says, and run frozen_stranded refutes.       *)

\* "Reclaimed once [the lease has expired]": a row whose owner died in
\* `sending` is selected again by some later flush (listDueOutboxEntries).
NoRowStranded ==
    \A c \in Cmds :
        /\ outbox[c].status = "sending" /\ ~outbox[c].live
        /\ \A p \in Passes : cmd[p] # c
        => outbox[c].timer # "frozen"
=============================================================================
