------------------------- MODULE OutboxEngineProofs -------------------------
(***************************************************************************)
(* Theorems about OutboxEngine, for any number of commands, passes and     *)
(* tabs and any retry budgets: its types; that no command is lost and no   *)
(* acknowledged command is sent again, from the inductive invariant behind *)
(* AckedOffWire and RetiredIsDelivered; the refinement of CommandQueue     *)
(* that rests on it; and what the leases and the promise chain keep: an    *)
(* attempt loses its row only after its own lease ran out, a pending       *)
(* message has its command, one message has one row, and the chain of a    *)
(* tab is a mutex.                                                         *)
(***************************************************************************)
EXTENDS OutboxEngine, TLAPS

-----------------------------------------------------------------------------
(* Rows.                                                                   *)

LEMMA NoRowType == NoRow \in Row /\ NewRow \in Row
<1>1. 0 \in 0..MaxAttempts /\ 0 \in 0..MaxRepairAttempts
  BY OutboxAssumption
<1>2. NoRow \in Row
  BY <1>1 DEF NoRow, Row, Statuses
<1>3. NewRow \in Row
  BY <1>2 DEF NewRow, Row, Statuses
<1>4. QED
  BY <1>2, <1>3

LEMMA RowUpdateType ==
  ASSUME NEW r \in Row
  PROVE  /\ Unleased(r) \in Row
         /\ AckPending(r) \in Row
         /\ Quarantined(r) \in Row
  BY OutboxAssumption DEF Unleased, AckPending, Quarantined, Row, Statuses

LEMMA CappedType ==
  ASSUME NEW cap \in Nat, NEW n \in Nat
  PROVE  Capped(n, cap) \in 0..cap
  BY DEF Capped

\* One row of the table is rewritten; the message rows keep their type.
LEMMA RowWrite ==
  ASSUME DbTypeOK, NEW c \in Cmds, NEW r \in Row,
         outbox' = [outbox EXCEPT ![c] = r],
         UNCHANGED <<local, remote>>
  PROVE  DbTypeOK'
  BY DEF DbTypeOK

-----------------------------------------------------------------------------
(* Type correctness, one lemma for each helper the actions share.          *)

LEMMA InitType == Init => TypeOK
<1> SUFFICES ASSUME Init PROVE TypeOK
  OBVIOUS
<1>1. DbTypeOK
  BY NoRowType DEF Init, DbTypeOK
<1>2. PassTypeOK
  BY NoRowType DEF Init, PassTypeOK, PCs, Working, SendPCs, ReplayPCs, RepairPCs
<1>3. LockTypeOK /\ EnvTypeOK
  BY DEF Init, LockTypeOK, EnvTypeOK
<1>4. QED
  BY <1>1, <1>2, <1>3 DEF TypeOK

LEMMA NextRowKeepsType ==
  ASSUME PassTypeOK, NEW p \in Passes, NextRow(p)
  PROVE  PassTypeOK'
  BY NoRowType
  DEF NextRow, Goto, LoopOf, PassTypeOK, PCs, Working, SendPCs, ReplayPCs, RepairPCs

LEMMA ResetPassKeepsType ==
  ASSUME PassTypeOK, NEW p \in Passes, ResetPass(p)
  PROVE  PassTypeOK'
  BY NoRowType
  DEF ResetPass, Goto, PassTypeOK, PCs, Working, SendPCs, ReplayPCs, RepairPCs

LEMMA ReleaseKeepsType ==
  ASSUME LockTypeOK, NEW p \in Passes, Release(p)
  PROVE  LockTypeOK'
  BY DEF Release, LockTypeOK

\* A pass that already works on a command moves on with it.
LEMMA GotoKeepsType ==
  ASSUME PassTypeOK, NEW p \in Passes, pc[p] \in Working, NEW l \in PCs,
         Goto(p, l), UNCHANGED <<cmd, kind, todo, acks, tries, seen, expired>>
  PROVE  PassTypeOK'
  BY DEF Goto, PassTypeOK, PCs, Working

LEMMA SettleRowKeepsType ==
  ASSUME DbTypeOK, EnvTypeOK, NEW t \in Tabs, NEW c \in Cmds, SettleRow(t, c),
         UNCHANGED <<net, server, created>>
  PROVE  DbTypeOK' /\ EnvTypeOK'
<1>1. DbTypeOK'
  BY NoRowType DEF SettleRow, DbTypeOK
<1>2. EnvTypeOK'
  BY DEF SettleRow, EnvTypeOK
<1>3. QED
  BY <1>1, <1>2

LEMMA UnchangedKeepsType ==
  /\ DbTypeOK /\ UNCHANGED dbVars => DbTypeOK'
  /\ PassTypeOK /\ UNCHANGED passVars => PassTypeOK'
  /\ LockTypeOK /\ UNCHANGED lockVars => LockTypeOK'
  /\ EnvTypeOK /\ UNCHANGED envVars => EnvTypeOK'
BY DEF DbTypeOK, PassTypeOK, LockTypeOK, EnvTypeOK, dbVars, passVars, lockVars, envVars

-----------------------------------------------------------------------------
(* The repair half of a pass.                                              *)

LEMMA StartType ==
  ASSUME TypeOK, NEW p \in Passes, NEW k \in {"flush", "recover"}, Start(p, k)
  PROVE  TypeOK'
<1>1. PassTypeOK'
  BY DEF Start, Goto, TypeOK, PassTypeOK, PCs, Working, SendPCs, ReplayPCs, RepairPCs
<1>2. QED
  BY <1>1, UnchangedKeepsType DEF Start, TypeOK

LEMMA ClaimRepairType ==
  ASSUME TypeOK, NEW p \in Passes, ClaimRepair(p)
  PROVE  TypeOK'
<1>1. PICK c \in todo[p] :
        /\ outbox' = [outbox EXCEPT ![c] = [outbox[c] EXCEPT
               !.rtries = Capped(outbox[c].rtries, MaxRepairAttempts),
               !.rowner = p, !.rlive = TRUE]]
        /\ cmd' = [cmd EXCEPT ![p] = c]
        /\ tries' = [tries EXCEPT ![p] = Capped(outbox[c].rtries, MaxRepairAttempts)]
        /\ todo' = [todo EXCEPT ![p] = @ \ {c}]
  BY DEF ClaimRepair
<1>2. c \in Cmds /\ outbox[c] \in Row
  BY DEF TypeOK, PassTypeOK, DbTypeOK
<1>3. Capped(outbox[c].rtries, MaxRepairAttempts) \in 0..MaxRepairAttempts
  <2>1. outbox[c].rtries \in Nat /\ MaxRepairAttempts \in Nat
    BY <1>2, OutboxAssumption DEF Row
  <2>2. QED
    BY <2>1, CappedType
<1>4. [outbox[c] EXCEPT !.rtries = Capped(outbox[c].rtries, MaxRepairAttempts),
                        !.rowner = p, !.rlive = TRUE] \in Row
  BY <1>2, <1>3 DEF Row
<1>5. DbTypeOK'
  BY <1>1, <1>2, <1>4 DEF ClaimRepair, TypeOK, DbTypeOK
<1>6. Capped(outbox[c].rtries, MaxRepairAttempts) \in Nat
  BY <1>3, OutboxAssumption
<1>7. PassTypeOK'
  BY <1>1, <1>2, <1>6
  DEF ClaimRepair, Goto, TypeOK, PassTypeOK, PCs, Working, SendPCs, ReplayPCs, RepairPCs
<1>8. QED
  BY <1>5, <1>7, UnchangedKeepsType DEF ClaimRepair, TypeOK

LEMMA SkipRepairType ==
  ASSUME TypeOK, NEW p \in Passes, SkipRepair(p)
  PROVE  TypeOK'
<1>1. PassTypeOK'
  BY DEF SkipRepair, TypeOK, PassTypeOK
<1>2. QED
  BY <1>1, UnchangedKeepsType DEF SkipRepair, TypeOK

LEMMA RepairHookType ==
  ASSUME TypeOK, NEW p \in Passes, RepairHook(p)
  PROVE  TypeOK'
<1>1. cmd[p] \in Cmds
  BY DEF RepairHook, TypeOK, PassTypeOK, Working, RepairPCs
<1>2. DbTypeOK'
  BY <1>1 DEF RepairHook, TypeOK, DbTypeOK
<1>3. PassTypeOK'
  BY GotoKeepsType DEF RepairHook, TypeOK, PCs, Working, RepairPCs
<1>4. QED
  BY <1>2, <1>3, UnchangedKeepsType DEF RepairHook, TypeOK

LEMMA MendType ==
  ASSUME TypeOK, NEW p \in Passes, Mend(p)
  PROVE  TypeOK'
<1>1. cmd[p] \in Cmds /\ TabOf[p] \in Tabs
  BY OutboxAssumption DEF Mend, TypeOK, PassTypeOK, Working, RepairPCs
<1>2. DbTypeOK' /\ EnvTypeOK'
  BY <1>1, SettleRowKeepsType DEF Mend, TypeOK
<1>3. PassTypeOK'
  BY NextRowKeepsType DEF Mend, TypeOK
<1>4. QED
  BY <1>2, <1>3, UnchangedKeepsType DEF Mend, TypeOK

LEMMA MendFailsType ==
  ASSUME TypeOK, NEW p \in Passes, MendFails(p)
  PROVE  TypeOK'
<1>1. PassTypeOK'
  BY GotoKeepsType DEF MendFails, TypeOK, PCs, Working, RepairPCs
<1>2. QED
  BY <1>1, UnchangedKeepsType DEF MendFails, TypeOK

LEMMA CommitUnmendedType ==
  ASSUME TypeOK, NEW p \in Passes, CommitUnmended(p)
  PROVE  TypeOK'
<1>1. cmd[p] \in Cmds /\ outbox[cmd[p]] \in Row
  BY DEF CommitUnmended, TypeOK, PassTypeOK, DbTypeOK, Working, RepairPCs
<1>2. /\ [outbox[cmd[p]] EXCEPT !.status = "local_data_error",
                                !.rlive = FALSE, !.rowner = None] \in Row
      /\ [outbox[cmd[p]] EXCEPT !.rdue = FALSE,
                                !.rlive = FALSE, !.rowner = None] \in Row
  BY <1>1 DEF Row, Statuses
<1>3. DbTypeOK'
  BY <1>1, <1>2 DEF CommitUnmended, TypeOK, DbTypeOK
<1>4. PassTypeOK'
  BY NextRowKeepsType DEF CommitUnmended, TypeOK
<1>5. QED
  BY <1>3, <1>4, UnchangedKeepsType DEF CommitUnmended, TypeOK

LEMMA ListDueType ==
  ASSUME TypeOK, NEW p \in Passes, ListDue(p)
  PROVE  TypeOK'
<1> DEFINE due  == {c \in Cmds : Due(outbox[c])}
           ackd == {c \in due : outbox[c].status = "ack_pending"}
<1>1. PICK batch \in IF kind[p] = "recover" THEN {ackd}
                     ELSE {{c \in due : c <= limit} : limit \in Cmds} :
        /\ todo' = [todo EXCEPT ![p] = batch]
        /\ acks' = [acks EXCEPT ![p] = batch \cap ackd]
        /\ \/ /\ prior' = [prior EXCEPT ![p] = inFlight[TabOf[p]]]
              /\ inFlight' = [inFlight EXCEPT ![TabOf[p]] = p]
           \/ UNCHANGED lockVars
  BY DEF ListDue
<1>2. batch \subseteq Cmds
  BY <1>1
<1>3. PassTypeOK'
  BY <1>1, <1>2
  DEF ListDue, Goto, TypeOK, PassTypeOK, PCs, Working, SendPCs, ReplayPCs, RepairPCs
<1>4. LockTypeOK'
  BY <1>1, OutboxAssumption DEF TypeOK, LockTypeOK, lockVars
<1>5. QED
  BY <1>3, <1>4, UnchangedKeepsType DEF ListDue, TypeOK

LEMMA LeaveType ==
  ASSUME TypeOK, NEW p \in Passes, Finish(p) \/ StorageFault(p)
  PROVE  TypeOK'
<1>1. PassTypeOK' /\ LockTypeOK'
  BY ResetPassKeepsType, ReleaseKeepsType DEF Finish, StorageFault, TypeOK
<1>2. QED
  BY <1>1, UnchangedKeepsType DEF Finish, StorageFault, TypeOK

-----------------------------------------------------------------------------
(* The send half of a pass.                                                *)

LEMMA StartReplayType ==
  ASSUME TypeOK, NEW p \in Passes, StartReplay(p)
  PROVE  TypeOK'
<1>1. PassTypeOK'
  BY DEF StartReplay, Goto, TypeOK, PassTypeOK, PCs, Working, SendPCs, ReplayPCs, RepairPCs
<1>2. QED
  BY <1>1, UnchangedKeepsType DEF StartReplay, TypeOK

LEMMA SkipRowType ==
  ASSUME TypeOK, NEW p \in Passes, SkipRow(p)
  PROVE  TypeOK'
<1>1. PassTypeOK'
  BY DEF SkipRow, TypeOK, PassTypeOK
<1>2. QED
  BY <1>1, UnchangedKeepsType DEF SkipRow, TypeOK

LEMMA ClaimSendType ==
  ASSUME TypeOK, NEW p \in Passes, ClaimSend(p)
  PROVE  TypeOK'
<1>1. PICK c \in todo[p] :
        /\ outbox' = [outbox EXCEPT ![c] = [outbox[c] EXCEPT
               !.status = "sending", !.owner = p, !.live = TRUE]]
        /\ cmd' = [cmd EXCEPT ![p] = c]
        /\ tries' = [tries EXCEPT ![p] = outbox[c].attempts]
        /\ todo' = [todo EXCEPT ![p] = @ \ {c}]
  BY DEF ClaimSend
<1>2. c \in Cmds /\ outbox[c] \in Row
  BY DEF TypeOK, PassTypeOK, DbTypeOK
<1>3. /\ [outbox[c] EXCEPT !.status = "sending", !.owner = p, !.live = TRUE] \in Row
      /\ outbox[c].attempts \in Nat
  <2>1. [outbox[c] EXCEPT !.status = "sending", !.owner = p, !.live = TRUE] \in Row
    BY <1>2 DEF Row, Statuses
  <2>2. outbox[c].attempts \in Nat
    BY <1>2, OutboxAssumption DEF Row
  <2>3. QED
    BY <2>1, <2>2
<1>4. DbTypeOK'
  BY <1>1, <1>2, <1>3, RowWrite DEF ClaimSend, TypeOK
<1>5. PassTypeOK'
  BY <1>1, <1>2, <1>3
  DEF ClaimSend, Goto, TypeOK, PassTypeOK, PCs, Working, SendPCs, ReplayPCs, RepairPCs
<1>6. QED
  BY <1>4, <1>5, UnchangedKeepsType DEF ClaimSend, TypeOK

\* The answer to a request: nothing is written locally yet.
LEMMA AnswerType ==
  ASSUME TypeOK, NEW p \in Passes, SendThrows(p) \/ Accept(p) \/ Refuse(p)
  PROVE  TypeOK'
<1>1. cmd[p] \in Cmds
  BY DEF SendThrows, Accept, Refuse, TypeOK, PassTypeOK, Working, SendPCs
<1>2. PassTypeOK'
  <2>1. PICK l \in {"transient", "acked", "rejected"} : Goto(p, l)
    BY DEF SendThrows, Accept, Refuse
  <2>2. l \in PCs /\ pc[p] \in Working
    BY DEF SendThrows, Accept, Refuse, PCs, Working, SendPCs
  <2>3. QED
    BY <2>1, <2>2, GotoKeepsType DEF SendThrows, Accept, Refuse, TypeOK
<1>3. EnvTypeOK'
  BY <1>1, UnchangedKeepsType
  DEF SendThrows, Accept, Refuse, ServerAccepts, TypeOK, EnvTypeOK
<1>4. QED
  BY <1>2, <1>3, UnchangedKeepsType DEF SendThrows, Accept, Refuse, TypeOK

\* The fenced writes that end an attempt without an ACK.
LEMMA CommitFailureType ==
  ASSUME TypeOK, NEW p \in Passes, CommitTransient(p) \/ CommitRejected(p)
  PROVE  TypeOK'
<1> DEFINE next == Capped(tries[p], MaxAttempts)
<1>1. cmd[p] \in Cmds /\ outbox[cmd[p]] \in Row /\ tries[p] \in Nat
  BY DEF CommitTransient, CommitRejected, TypeOK, PassTypeOK, DbTypeOK, Working, SendPCs
<1>2. next \in 0..MaxAttempts
  BY <1>1, OutboxAssumption, CappedType
<1> HIDE DEF next
<1>3. \A tm \in {"wait", "frozen"} :
        [Unleased(outbox[cmd[p]]) EXCEPT
           !.status = "failed", !.attempts = next, !.timer = tm] \in Row
  <2>1. Unleased(outbox[cmd[p]]) \in Row
    BY <1>1, RowUpdateType
  <2>2. QED
    BY <1>2, <2>1 DEF Row, Statuses
<1>4. PICK tm \in {"wait", "frozen"} :
        outbox' = IF outbox[cmd[p]].owner # p THEN outbox
                  ELSE [outbox EXCEPT ![cmd[p]] =
                          [Unleased(outbox[cmd[p]]) EXCEPT
                             !.status = "failed", !.attempts = next, !.timer = tm]]
  <2>1. CASE CommitTransient(p)
    BY <2>1 DEF CommitTransient, next
  <2>2. CASE CommitRejected(p)
    BY <2>2 DEF CommitRejected, next
  <2>3. QED
    BY <2>1, <2>2
<1>5. UNCHANGED <<local, remote>>
  BY DEF CommitTransient, CommitRejected
<1>6. DbTypeOK'
  BY <1>1, <1>3, <1>4, <1>5 DEF TypeOK, DbTypeOK
<1>7. PassTypeOK'
  BY NextRowKeepsType DEF CommitTransient, CommitRejected, TypeOK
<1>8. QED
  BY <1>6, <1>7, UnchangedKeepsType DEF CommitTransient, CommitRejected, TypeOK

LEMMA CommitAckType ==
  ASSUME TypeOK, NEW p \in Passes, CommitAck(p) \/ Replay(p)
  PROVE  TypeOK'
<1>1. cmd[p] \in Cmds /\ TabOf[p] \in Tabs
  BY OutboxAssumption
  DEF CommitAck, Replay, TypeOK, PassTypeOK, Working, SendPCs, ReplayPCs
<1>2. DbTypeOK' /\ EnvTypeOK'
  <2>1. CASE SettleRow(TabOf[p], cmd[p])
    BY <1>1, <2>1, SettleRowKeepsType DEF CommitAck, Replay, TypeOK
  <2>2. CASE UNCHANGED <<dbVars, held, told>>
    BY <2>2, UnchangedKeepsType DEF CommitAck, Replay, TypeOK, envVars
  <2>3. QED
    BY <2>1, <2>2 DEF CommitAck, Replay
<1>3. PassTypeOK'
  BY NextRowKeepsType DEF CommitAck, Replay, TypeOK
<1>4. QED
  BY <1>2, <1>3, UnchangedKeepsType DEF CommitAck, Replay, TypeOK

LEMMA ThrowsType ==
  ASSUME TypeOK, NEW p \in Passes, AckThrows(p) \/ ReplayThrows(p)
  PROVE  TypeOK'
<1>1. PICK l \in {"uncommitted", "unprojected", "reread_t", "reread_i"} : Goto(p, l)
  BY DEF AckThrows, ReplayThrows
<1>2. l \in PCs /\ pc[p] \in Working
  BY DEF AckThrows, ReplayThrows, PCs, Working, SendPCs, ReplayPCs
<1>3. PassTypeOK'
  BY <1>1, <1>2, GotoKeepsType DEF AckThrows, ReplayThrows, TypeOK
<1>4. QED
  BY <1>3, UnchangedKeepsType DEF AckThrows, ReplayThrows, TypeOK

LEMMA CommitUncommittedType ==
  ASSUME TypeOK, NEW p \in Passes, CommitUncommitted(p)
  PROVE  TypeOK'
<1>1. cmd[p] \in Cmds /\ outbox[cmd[p]] \in Row
  BY DEF CommitUncommitted, TypeOK, PassTypeOK, DbTypeOK, Working, SendPCs
<1>2. DbTypeOK'
  BY <1>1, RowUpdateType DEF CommitUncommitted, TypeOK, DbTypeOK
<1>3. PassTypeOK'
  BY NextRowKeepsType DEF CommitUncommitted, TypeOK
<1>4. QED
  BY <1>2, <1>3, UnchangedKeepsType DEF CommitUncommitted, TypeOK

LEMMA RereadRowType ==
  ASSUME TypeOK, NEW p \in Passes, RereadRow(p)
  PROVE  TypeOK'
<1>1. cmd[p] \in Cmds /\ outbox[cmd[p]] \in Row
  BY DEF RereadRow, TypeOK, PassTypeOK, DbTypeOK, Working, ReplayPCs
<1>2. PassTypeOK'
  <2>1. CASE NextRow(p)
    BY <2>1, NextRowKeepsType DEF TypeOK
  <2>2. CASE ~NextRow(p)
    BY <1>1, <2>2
    DEF RereadRow, Goto, TypeOK, PassTypeOK, PCs, Working, ReplayPCs
  <2>3. QED
    BY <2>1, <2>2
<1>3. QED
  BY <1>2, UnchangedKeepsType DEF RereadRow, TypeOK

LEMMA RewriteRowType ==
  ASSUME TypeOK, NEW p \in Passes, RewriteRow(p)
  PROVE  TypeOK'
<1>1. cmd[p] \in Cmds /\ seen[p] \in Row
  BY DEF RewriteRow, TypeOK, PassTypeOK, Working, ReplayPCs
<1>2. DbTypeOK'
  BY <1>1, RowUpdateType DEF RewriteRow, TypeOK, DbTypeOK
<1>3. PassTypeOK'
  BY NextRowKeepsType DEF RewriteRow, TypeOK
<1>4. QED
  BY <1>2, <1>3, UnchangedKeepsType DEF RewriteRow, TypeOK

-----------------------------------------------------------------------------
(* Everything around the passes.                                           *)

LEMMA EnqueueType ==
  ASSUME TypeOK, NEW t \in Tabs, NEW c \in Cmds, Enqueue(t, c)
  PROVE  TypeOK'
<1>1. DbTypeOK'
  BY NoRowType DEF Enqueue, TypeOK, DbTypeOK
<1>2. EnvTypeOK'
  BY DEF Enqueue, TypeOK, EnvTypeOK
<1>3. QED
  BY <1>1, <1>2, UnchangedKeepsType DEF Enqueue, TypeOK

LEMMA TimerType ==
  ASSUME TypeOK, NEW c \in Cmds,
         \/ LeaseExpires(c) \/ BackoffElapses(c)
         \/ RepairLeaseExpires(c) \/ RepairBackoffElapses(c)
  PROVE  TypeOK'
<1> DEFINE r == outbox[c]
<1>1. r \in Row
  BY DEF TypeOK, DbTypeOK
<1>2. DbTypeOK'
  <2>1. \/ outbox' = [outbox EXCEPT ![c] = [r EXCEPT !.live = FALSE]]
        \/ outbox' = [outbox EXCEPT ![c] = [r EXCEPT !.timer = "due"]]
        \/ outbox' = [outbox EXCEPT ![c] = [r EXCEPT !.rlive = FALSE]]
        \/ outbox' = [outbox EXCEPT ![c] = [r EXCEPT !.rdue = TRUE]]
    BY DEF LeaseExpires, BackoffElapses, RepairLeaseExpires, RepairBackoffElapses
  <2>2. /\ [r EXCEPT !.live = FALSE] \in Row
        /\ [r EXCEPT !.timer = "due"] \in Row
        /\ [r EXCEPT !.rlive = FALSE] \in Row
        /\ [r EXCEPT !.rdue = TRUE] \in Row
    BY <1>1 DEF Row
  <2>3. QED
    BY <2>1, <2>2
    DEF LeaseExpires, BackoffElapses, RepairLeaseExpires, RepairBackoffElapses,
        TypeOK, DbTypeOK
<1>3. PassTypeOK'
  BY UnchangedKeepsType
  DEF LeaseExpires, BackoffElapses, RepairLeaseExpires, RepairBackoffElapses,
      TypeOK, PassTypeOK
<1>4. QED
  BY <1>2, <1>3, UnchangedKeepsType
  DEF LeaseExpires, BackoffElapses, RepairLeaseExpires, RepairBackoffElapses, TypeOK

LEMMA TabDiesType ==
  ASSUME TypeOK, NEW t \in Tabs, NEW more \in SUBSET Cmds, TabDies(t, more)
  PROVE  TypeOK'
<1>1. PassTypeOK'
  BY NoRowType
  DEF TabDies, TypeOK, PassTypeOK, PCs, Working, SendPCs, ReplayPCs, RepairPCs
<1>2. LockTypeOK'
  BY DEF TabDies, TypeOK, LockTypeOK
<1>3. EnvTypeOK'
  BY DEF TabDies, TypeOK, EnvTypeOK, PassTypeOK, Working, SendPCs
<1>4. QED
  BY <1>1, <1>2, <1>3, UnchangedKeepsType DEF TabDies, TypeOK

LEMMA SurroundingsType ==
  ASSUME TypeOK, Surroundings
  PROVE  TypeOK'
<1>1. ASSUME NEW c \in Cmds,
             \/ LeaseExpires(c) \/ BackoffElapses(c)
             \/ RepairLeaseExpires(c) \/ RepairBackoffElapses(c)
      PROVE  TypeOK'
  BY <1>1, TimerType
<1>2. ASSUME NEW c \in Cmds, AcceptLate(c) PROVE TypeOK'
  BY <1>2, UnchangedKeepsType DEF AcceptLate, ServerAccepts, TypeOK, EnvTypeOK
<1>3. ASSUME NEW c \in Cmds, HistoryLands(c) PROVE TypeOK'
  BY <1>3, UnchangedKeepsType DEF HistoryLands, TypeOK, DbTypeOK
<1>4. ASSUME NEW c \in Cmds, CommitLands(c) PROVE TypeOK'
  BY <1>4, UnchangedKeepsType DEF CommitLands, TypeOK, DbTypeOK
<1>5. ASSUME NEW t \in Tabs, ClearBuffer(t) PROVE TypeOK'
  BY <1>5, UnchangedKeepsType DEF ClearBuffer, TypeOK, EnvTypeOK
<1>6. CASE ClearMessages
  BY <1>6, UnchangedKeepsType DEF ClearMessages, TypeOK, DbTypeOK
<1>7. QED
  BY <1>1, <1>2, <1>3, <1>4, <1>5, <1>6 DEF Surroundings

LEMMA PassType ==
  ASSUME TypeOK, NEW p \in Passes, Pass(p)
  PROVE  TypeOK'
<1>1. CASE \/ \E k \in {"flush", "recover"} : Start(p, k)
           \/ ClaimRepair(p) \/ SkipRepair(p) \/ RepairHook(p)
           \/ Mend(p) \/ MendFails(p) \/ CommitUnmended(p)
  BY <1>1, StartType, ClaimRepairType, SkipRepairType, RepairHookType,
     MendType, MendFailsType, CommitUnmendedType
<1>2. CASE \/ ListDue(p) \/ Finish(p) \/ StorageFault(p)
           \/ StartReplay(p) \/ SkipRow(p) \/ ClaimSend(p)
  BY <1>2, ListDueType, LeaveType, StartReplayType, SkipRowType, ClaimSendType
<1>3. CASE \/ SendThrows(p) \/ Accept(p) \/ Refuse(p)
           \/ CommitTransient(p) \/ CommitRejected(p)
           \/ CommitAck(p) \/ AckThrows(p) \/ CommitUncommitted(p)
  BY <1>3, AnswerType, CommitFailureType, CommitAckType, ThrowsType,
     CommitUncommittedType
<1>4. CASE Replay(p) \/ ReplayThrows(p) \/ RereadRow(p) \/ RewriteRow(p)
  BY <1>4, CommitAckType, ThrowsType, RereadRowType, RewriteRowType
<1>5. QED
  BY <1>1, <1>2, <1>3, <1>4 DEF Pass

LEMMA NextType == TypeOK /\ [Next]_vars => TypeOK'
<1> SUFFICES ASSUME TypeOK, [Next]_vars PROVE TypeOK'
  OBVIOUS
<1>1. ASSUME NEW t \in Tabs, NEW c \in Cmds, Enqueue(t, c) PROVE TypeOK'
  BY <1>1, EnqueueType
<1>2. ASSUME NEW p \in Passes, Pass(p) PROVE TypeOK'
  BY <1>2, PassType
<1>3. ASSUME NEW t \in Tabs, Crash(t) PROVE TypeOK'
  BY <1>3, TabDiesType DEF Crash
<1>4. CASE Surroundings
  BY <1>4, SurroundingsType
<1>5. CASE UNCHANGED vars
  BY <1>5, UnchangedKeepsType DEF vars, TypeOK
<1>6. QED
  BY <1>1, <1>2, <1>3, <1>4, <1>5 DEF Next

\* Every variable keeps its type, counters included: no interleaving of
\* passes, crashes and faults makes a retry counter exceed its budget.
THEOREM TypeCorrect == Spec => []TypeOK
  BY InitType, NextType, PTL DEF Spec

-----------------------------------------------------------------------------
(* Delivery.                                                               *)


\* Where a pass holds an answer of the server, or a stored one.
HoldsAck == {"acked", "uncommitted", "unprojected"} \cup ReplayPCs \cup RepairPCs

\* A row, unless it is absent: a send lease lies on `sending` rows only, a repair lease on
\* acknowledged rows only, and a row is acknowledged exactly in the statuses
\* no claim takes.
RowSound(c, r) ==
    /\ IF r.status = "none" THEN r = NoRow ELSE c \in created
    /\ r.owner # None => r.status = "sending"
    /\ r.acked <=> r.status \in Quiet
    /\ r.rowner # None => r.acked
    /\ r.acked => c \in server

RowsSound == \A c \in Cmds : RowSound(c, outbox[c])

\* What a pass remembers stays true whatever the others do meanwhile.
PassesSound ==
    \A p \in Passes :
        /\ acks[p] \subseteq server
        /\ pc[p] \in Working => cmd[p] \in created
        /\ pc[p] \in HoldsAck => cmd[p] \in server

ServerSound ==
    /\ server \subseteq created
    /\ net \subseteq created
    /\ told \subseteq server
    /\ \A c \in created : outbox[c].status = "none" => c \in server

Sound == TypeOK /\ RowsSound /\ PassesSound /\ ServerSound

-----------------------------------------------------------------------------
(* What the actions share.                                                 *)

LEMMA InitSound == Init => Sound
<1> SUFFICES ASSUME Init PROVE Sound
  OBVIOUS
<1>1. TypeOK
  BY InitType
<1>2. RowsSound
  BY DEF Init, RowsSound, RowSound, NoRow, Quiet
<1>3. PassesSound
  BY DEF Init, PassesSound, Working, HoldsAck, SendPCs, ReplayPCs, RepairPCs
<1>4. ServerSound
  BY DEF Init, ServerSound
<1>5. QED
  BY <1>1, <1>2, <1>3, <1>4 DEF Sound

\* The table is untouched and nothing the server has is forgotten.
LEMMA TableKept ==
  ASSUME RowsSound, ServerSound, UNCHANGED <<outbox, created>>,
         server \subseteq server', server' \subseteq created,
         net' \subseteq created, told' \subseteq server'
  PROVE  RowsSound' /\ ServerSound'
  BY DEF RowsSound, RowSound, ServerSound, Quiet

\* One row is written: it must be sound, and may only vanish when delivered.
LEMMA RowPut ==
  ASSUME TypeOK, RowsSound, ServerSound, UNCHANGED <<created, server>>,
         NEW c \in Cmds, NEW r, outbox' = [outbox EXCEPT ![c] = r],
         RowSound(c, r), r.status = "none" => c \in server,
         net' \subseteq created, told' \subseteq server
  PROVE  RowsSound' /\ ServerSound'
<1>1. \A d \in Cmds : outbox'[d] = IF d = c THEN r ELSE outbox[d]
  BY DEF TypeOK, DbTypeOK
<1>2. RowsSound'
  BY <1>1 DEF RowsSound, RowSound, Quiet
<1>3. ServerSound'
  BY <1>1 DEF ServerSound, TypeOK, EnvTypeOK
<1>4. QED
  BY <1>2, <1>3

\* The passes are untouched, or one of them ends its row or its run.
LEMMA PassesKept ==
  ASSUME TypeOK, PassesSound, UNCHANGED <<pc, cmd, acks>>,
         server \subseteq server', created \subseteq created'
  PROVE  PassesSound'
  BY DEF PassesSound

LEMMA RowDone ==
  ASSUME TypeOK, PassesSound, NEW p \in Passes, NextRow(p) \/ ResetPass(p),
         server \subseteq server', created \subseteq created'
  PROVE  PassesSound'
<1>1. \A q \in Passes : q # p =>
        pc'[q] = pc[q] /\ cmd'[q] = cmd[q] /\ acks'[q] = acks[q]
  BY DEF NextRow, ResetPass, Goto, TypeOK, PassTypeOK
<1>2. pc'[p] \notin Working /\ pc'[p] \notin HoldsAck
  BY DEF NextRow, ResetPass, Goto, LoopOf, TypeOK, PassTypeOK, Working, HoldsAck,
         SendPCs, ReplayPCs, RepairPCs
<1>3. acks'[p] \subseteq acks[p]
  BY DEF NextRow, ResetPass, TypeOK, PassTypeOK
<1>4. QED
  BY <1>1, <1>2, <1>3 DEF PassesSound

\* A pass that works on a command moves on with it; from where it holds no ACK
\* it reaches one only once the server has accepted.
LEMMA PassMoves ==
  ASSUME TypeOK, PassesSound, NEW p \in Passes, NEW l, Goto(p, l),
         UNCHANGED <<cmd, acks>>, pc[p] \in Working,
         server \subseteq server', created \subseteq created',
         l \in HoldsAck => pc[p] \in HoldsAck \/ cmd[p] \in server'
  PROVE  PassesSound'
<1>1. \A q \in Passes : pc'[q] = IF q = p THEN l ELSE pc[q]
  BY DEF Goto, TypeOK, PassTypeOK
<1>2. QED
  BY <1>1 DEF PassesSound

\* applyAck: the message is settled and its row gone.
LEMMA RowSettled ==
  ASSUME TypeOK, RowsSound, ServerSound, NEW t \in Tabs, NEW c \in server,
         SettleRow(t, c), UNCHANGED <<net, server, created>>
  PROVE  RowsSound' /\ ServerSound'
<1>1. c \in Cmds
  BY DEF TypeOK, EnvTypeOK
<1>2. /\ outbox' = [outbox EXCEPT ![c] = NoRow]
      /\ told' = told \cup {c}
  BY DEF SettleRow
<1>3. RowSound(c, NoRow)
  BY DEF RowSound, NoRow, Quiet
<1>4. net' \subseteq created /\ told' \subseteq server
  BY <1>2 DEF ServerSound
<1>5. QED
  BY <1>1, <1>2, <1>3, <1>4, RowPut

-----------------------------------------------------------------------------
(* The repair half of a pass.                                              *)

LEMMA ClaimRepairSound ==
  ASSUME Sound, NEW p \in Passes, ClaimRepair(p)
  PROVE  RowsSound' /\ PassesSound' /\ ServerSound'
<1>1. PICK c \in todo[p] :
        /\ RepairClaimable(outbox[c])
        /\ outbox' = [outbox EXCEPT ![c] = [outbox[c] EXCEPT
               !.rtries = Capped(outbox[c].rtries, MaxRepairAttempts),
               !.rowner = p, !.rlive = TRUE]]
        /\ cmd' = [cmd EXCEPT ![p] = c]
  BY DEF ClaimRepair
<1>2. c \in Cmds /\ outbox[c] \in Row
  BY DEF Sound, TypeOK, PassTypeOK, DbTypeOK
<1>3. RowSound(c, outbox[c]) /\ outbox[c].status = "integrity_error"
  BY <1>1, <1>2 DEF Sound, RowsSound, RepairClaimable
<1>4. c \in server /\ c \in created
  BY <1>3 DEF RowSound, Quiet
<1> DEFINE r == [outbox[c] EXCEPT
                   !.rtries = Capped(outbox[c].rtries, MaxRepairAttempts),
                   !.rowner = p, !.rlive = TRUE]
<1>5. RowSound(c, r)
  <2>1. /\ r.status = outbox[c].status
        /\ r.acked = outbox[c].acked
        /\ r.owner = outbox[c].owner
    BY <1>2 DEF Row
  <2>2. QED
    BY <1>3, <1>4, <2>1 DEF RowSound, Quiet
<1>6. r.status # "none"
  BY <1>2, <1>3 DEF Row
<1> HIDE DEF r
<1>7. RowsSound' /\ ServerSound'
  <2>1. /\ outbox' = [outbox EXCEPT ![c] = r]
        /\ UNCHANGED <<created, server, net, told>>
    BY <1>1 DEF ClaimRepair, envVars, r
  <2>2. net' \subseteq created /\ told' \subseteq server
    BY <2>1 DEF Sound, ServerSound
  <2>3. QED
    BY <1>2, <1>5, <1>6, <2>1, <2>2, RowPut DEF Sound
<1>8. PassesSound'
  BY <1>1, <1>4 DEF ClaimRepair, Goto, envVars, Sound, TypeOK, PassTypeOK, PassesSound
<1>9. QED
  BY <1>7, <1>8

LEMMA CommitUnmendedSound ==
  ASSUME Sound, NEW p \in Passes, CommitUnmended(p)
  PROVE  RowsSound' /\ PassesSound' /\ ServerSound'
<1> DEFINE c == cmd[p]
<1>1. c \in Cmds /\ outbox[c] \in Row /\ RowSound(c, outbox[c])
  BY DEF CommitUnmended, Sound, RowsSound, TypeOK, PassTypeOK, DbTypeOK, Working, RepairPCs
<1>2. UNCHANGED <<created, server, net, told>>
  BY DEF CommitUnmended, envVars
<1>3. net' \subseteq created /\ told' \subseteq server
  BY <1>2 DEF Sound, ServerSound
<1>4. PassesSound'
  BY <1>2, RowDone DEF CommitUnmended, Sound
<1>5. CASE outbox[c].rowner # p
  BY <1>2, <1>4, <1>5, TableKept DEF CommitUnmended, Sound, ServerSound
<1>6. CASE outbox[c].rowner = p
  <2>1. outbox[c].acked /\ c \in server
    BY <1>1, <1>6, OutboxAssumption DEF RowSound
  <2>2. PICK r \in {[outbox[c] EXCEPT !.status = "local_data_error",
                                      !.rlive = FALSE, !.rowner = None],
                    [outbox[c] EXCEPT !.rdue = FALSE,
                                      !.rlive = FALSE, !.rowner = None]} :
          outbox' = [outbox EXCEPT ![c] = r]
    BY <1>6 DEF CommitUnmended
  <2>3. /\ r.status \in Quiet
        /\ r.acked
        /\ r.owner = outbox[c].owner
        /\ r.rowner = None
    BY <1>1, <2>1 DEF Row, RowSound, Quiet
  <2>4. RowSound(c, r)
    <3>1. outbox[c].owner = None
      BY <1>1, <2>1 DEF RowSound, Quiet
    <3>2. c \in created
      BY <2>1 DEF Sound, ServerSound
    <3>3. QED
      BY <2>1, <2>3, <3>1, <3>2 DEF RowSound, Quiet
  <2>5. QED
    BY <1>1, <1>2, <1>3, <1>4, <2>1, <2>2, <2>4, RowPut DEF Sound
<1>7. QED
  BY <1>5, <1>6

\* The steps that only move a pass, and write nothing.
LEMMA MovesSound ==
  ASSUME Sound, NEW p \in Passes,
         \/ \E k \in {"flush", "recover"} : Start(p, k)
         \/ SkipRepair(p) \/ RepairHook(p) \/ MendFails(p)
         \/ ListDue(p) \/ Finish(p) \/ StorageFault(p)
         \/ StartReplay(p) \/ SkipRow(p)
         \/ AckThrows(p) \/ ReplayThrows(p) \/ RereadRow(p) \/ Refuse(p)
  PROVE  RowsSound' /\ PassesSound' /\ ServerSound'
<1>1. UNCHANGED <<outbox, created, server, net, told>>
  BY DEF Start, SkipRepair, RepairHook, MendFails, ListDue, Finish, StorageFault,
         StartReplay, SkipRow, AckThrows, ReplayThrows, RereadRow, Refuse,
         dbVars, envVars
<1>2. RowsSound' /\ ServerSound'
  BY <1>1, TableKept DEF Sound, ServerSound
<1>3. server \subseteq server' /\ created \subseteq created'
  BY <1>1
<1>4. CASE \/ \E k \in {"flush", "recover"} : Start(p, k)
           \/ SkipRepair(p) \/ SkipRow(p)
  <2>1. CASE SkipRepair(p) \/ SkipRow(p)
    BY <1>2, <1>3, <2>1, PassesKept DEF SkipRepair, SkipRow, Sound
  <2>2. CASE \E k \in {"flush", "recover"} : Start(p, k)
    BY <1>1, <1>2, <2>2
    DEF Start, Goto, Sound, TypeOK, PassTypeOK, PassesSound,
        Working, HoldsAck, SendPCs, ReplayPCs, RepairPCs
  <2>3. QED
    BY <1>4, <2>1, <2>2
<1>5. CASE Finish(p) \/ StorageFault(p)
  BY <1>2, <1>3, <1>5, RowDone DEF Finish, StorageFault, Sound
<1>6. CASE RepairHook(p) \/ MendFails(p) \/ AckThrows(p) \/ ReplayThrows(p) \/ Refuse(p)
  <2>1. PICK l : /\ Goto(p, l)
                 /\ l \in HoldsAck => pc[p] \in HoldsAck
    BY <1>6 DEF RepairHook, MendFails, AckThrows, ReplayThrows, Refuse, HoldsAck,
                ReplayPCs, RepairPCs
  <2>2. pc[p] \in Working /\ UNCHANGED <<cmd, acks>>
    BY <1>6 DEF RepairHook, MendFails, AckThrows, ReplayThrows, Refuse, Working,
                SendPCs, ReplayPCs, RepairPCs
  <2>3. QED
    BY <1>2, <1>3, <2>1, <2>2, PassMoves DEF Sound
<1>7. CASE RereadRow(p)
  <2>1. CASE NextRow(p)
    BY <1>2, <1>3, <2>1, RowDone DEF Sound
  <2>2. CASE ~NextRow(p)
    <3>1. PICK l \in {"rewrite_t", "rewrite_i"} : Goto(p, l)
      BY <1>7, <2>2 DEF RereadRow
    <3>2. /\ pc[p] \in Working /\ pc[p] \in HoldsAck
          /\ UNCHANGED <<cmd, acks>>
      BY <1>7, <2>2 DEF RereadRow, Working, HoldsAck, ReplayPCs
    <3>3. QED
      BY <1>2, <1>3, <3>1, <3>2, PassMoves DEF Sound
  <2>3. QED
    BY <2>1, <2>2
<1>8. CASE ListDue(p)
  <2>1. PICK batch : acks' = [acks EXCEPT ![p] =
                       batch \cap {c \in {d \in Cmds : Due(outbox[d])} :
                                     outbox[c].status = "ack_pending"}]
    BY <1>8 DEF ListDue
  <2>2. \A c \in Cmds : outbox[c].status = "ack_pending" => c \in server
    BY DEF Sound, RowsSound, RowSound, Quiet
  <2>3. acks'[p] \subseteq server
    BY <2>1, <2>2 DEF Sound, TypeOK, PassTypeOK
  <2>4. QED
    BY <1>1, <1>2, <1>8, <2>1, <2>3
    DEF ListDue, Goto, Sound, TypeOK, PassTypeOK, PassesSound,
        Working, HoldsAck, SendPCs, ReplayPCs, RepairPCs
<1>9. CASE StartReplay(p)
  <2>1. PICK c \in acks[p] : /\ cmd' = [cmd EXCEPT ![p] = c]
                             /\ acks' = [acks EXCEPT ![p] = @ \ {c}]
    BY <1>9 DEF StartReplay
  <2>2. c \in server /\ c \in created
    BY <2>1 DEF Sound, PassesSound, ServerSound
  <2>3. QED
    BY <1>1, <1>2, <1>9, <2>1, <2>2
    DEF StartReplay, Goto, Sound, TypeOK, PassTypeOK, PassesSound
<1>10. QED
  BY <1>4, <1>5, <1>6, <1>7, <1>8, <1>9

\* The three places that converge a message with the server's ACK.
LEMMA SettlesSound ==
  ASSUME Sound, NEW p \in Passes, Mend(p) \/ CommitAck(p) \/ Replay(p)
  PROVE  RowsSound' /\ PassesSound' /\ ServerSound'
<1>1. UNCHANGED <<net, server, created>>
  BY DEF Mend, CommitAck, Replay
<1>2. cmd[p] \in server
  BY DEF Mend, CommitAck, Replay, Sound, PassesSound, HoldsAck, ReplayPCs, RepairPCs
<1>3. PassesSound'
  BY <1>1, RowDone DEF Mend, CommitAck, Replay, Sound
<1>4. CASE SettleRow(TabOf[p], cmd[p])
  <2>1. TabOf[p] \in Tabs
    BY OutboxAssumption
  <2>2. QED
    BY <1>1, <1>2, <1>3, <1>4, <2>1, RowSettled DEF Sound
<1>5. CASE UNCHANGED <<dbVars, held, told>>
  BY <1>1, <1>3, <1>5, TableKept DEF dbVars, Sound, ServerSound
<1>6. QED
  BY <1>4, <1>5 DEF Mend, CommitAck, Replay

-----------------------------------------------------------------------------
(* The send half of a pass.                                                *)

LEMMA ClaimSendSound ==
  ASSUME Sound, NEW p \in Passes, ClaimSend(p)
  PROVE  RowsSound' /\ PassesSound' /\ ServerSound'
<1>1. PICK c \in todo[p] :
        /\ Claimable(outbox[c])
        /\ outbox' = [outbox EXCEPT ![c] = [outbox[c] EXCEPT
               !.status = "sending", !.owner = p, !.live = TRUE]]
        /\ cmd' = [cmd EXCEPT ![p] = c]
  BY DEF ClaimSend
<1>2. c \in Cmds /\ outbox[c] \in Row /\ RowSound(c, outbox[c])
  BY DEF Sound, RowsSound, TypeOK, PassTypeOK, DbTypeOK
<1>3. outbox[c].status \in {"pending", "failed", "sending"}
  BY <1>1 DEF Claimable
<1>4. c \in created /\ ~outbox[c].acked /\ outbox[c].rowner = None
  BY <1>2, <1>3 DEF RowSound, Quiet
<1> DEFINE r == [outbox[c] EXCEPT !.status = "sending", !.owner = p, !.live = TRUE]
<1>5. r.status = "sending" /\ r.acked = outbox[c].acked /\ r.rowner = outbox[c].rowner
  BY <1>2 DEF Row
<1> HIDE DEF r
<1>6. RowSound(c, r) /\ r.status # "none"
  BY <1>4, <1>5 DEF RowSound, Quiet
<1>7. RowsSound' /\ ServerSound'
  <2>1. outbox' = [outbox EXCEPT ![c] = r] /\ UNCHANGED <<created, server, net, told>>
    BY <1>1 DEF ClaimSend, envVars, r
  <2>2. net' \subseteq created /\ told' \subseteq server
    BY <2>1 DEF Sound, ServerSound
  <2>3. QED
    BY <1>2, <1>6, <2>1, <2>2, RowPut DEF Sound
<1>8. PassesSound'
  BY <1>1, <1>4
  DEF ClaimSend, Goto, envVars, Sound, TypeOK, PassTypeOK, PassesSound, HoldsAck,
      ReplayPCs, RepairPCs
<1>9. QED
  BY <1>7, <1>8

LEMMA WireSound ==
  ASSUME Sound, NEW p \in Passes, SendThrows(p) \/ Accept(p)
  PROVE  RowsSound' /\ PassesSound' /\ ServerSound'
<1>1. cmd[p] \in created /\ pc[p] \in Working
  BY DEF SendThrows, Accept, Sound, PassesSound, Working, SendPCs
<1>2. UNCHANGED <<outbox, created, told, cmd, acks>>
  BY DEF SendThrows, Accept, dbVars
<1>3. /\ server \subseteq server' /\ server' \subseteq created
      /\ net' \subseteq created
  BY <1>1 DEF SendThrows, Accept, ServerAccepts, Sound, ServerSound
<1>4. RowsSound' /\ ServerSound'
  BY <1>2, <1>3, TableKept DEF Sound, ServerSound
<1>5. PassesSound'
  <2>1. PICK l : /\ Goto(p, l)
                 /\ l \in HoldsAck => cmd[p] \in server'
    BY DEF SendThrows, Accept, ServerAccepts, HoldsAck, ReplayPCs, RepairPCs
  <2>2. QED
    BY <1>1, <1>2, <1>3, <2>1, PassMoves DEF Sound
<1>6. QED
  BY <1>4, <1>5

\* The fenced writes that end an attempt.
LEMMA FencedSound ==
  ASSUME Sound, NEW p \in Passes,
         CommitTransient(p) \/ CommitRejected(p) \/ CommitUncommitted(p)
  PROVE  RowsSound' /\ PassesSound' /\ ServerSound'
<1> DEFINE c == cmd[p]
<1>1. c \in Cmds /\ outbox[c] \in Row /\ RowSound(c, outbox[c])
  BY DEF CommitTransient, CommitRejected, CommitUncommitted, Sound, RowsSound,
         TypeOK, PassTypeOK, DbTypeOK, Working, SendPCs
<1>2. UNCHANGED <<created, server, net, told>>
  BY DEF CommitTransient, CommitRejected, CommitUncommitted, envVars
<1>3. net' \subseteq created /\ told' \subseteq server
  BY <1>2 DEF Sound, ServerSound
<1>4. PassesSound'
  BY <1>2, RowDone DEF CommitTransient, CommitRejected, CommitUncommitted, Sound
<1>5. CASE outbox[c].owner # p
  BY <1>2, <1>4, <1>5, TableKept
  DEF CommitTransient, CommitRejected, CommitUncommitted, Sound, ServerSound
<1>6. CASE outbox[c].owner = p
  <2>1. c \in created /\ ~outbox[c].acked /\ outbox[c].rowner = None
    BY <1>1, <1>6, OutboxAssumption DEF RowSound, Quiet
  <2>2. PICK r : /\ outbox' = [outbox EXCEPT ![c] = r]
                 /\ r.owner = None
                 /\ r.rowner = outbox[c].rowner
                 /\ \/ r.status = "failed" /\ r.acked = outbox[c].acked
                    \/ r.status \in Quiet /\ r.acked /\ c \in server
    <3>1. CASE CommitTransient(p) \/ CommitRejected(p)
      <4>1. PICK n \in {Capped(tries[p], MaxAttempts)}, tm \in {"wait", "frozen"} :
              outbox' = [outbox EXCEPT ![c] = [Unleased(outbox[c]) EXCEPT
                           !.status = "failed", !.attempts = n, !.timer = tm]]
        BY <1>6, <3>1 DEF CommitTransient, CommitRejected
      <4> DEFINE r == [Unleased(outbox[c]) EXCEPT
                         !.status = "failed", !.attempts = n, !.timer = tm]
      <4>2. /\ r.owner = None /\ r.rowner = outbox[c].rowner
            /\ r.status = "failed" /\ r.acked = outbox[c].acked
        BY <1>1 DEF Unleased, Row
      <4>3. QED
        BY <4>1, <4>2
    <3>2. CASE CommitUncommitted(p)
      <4>1. c \in server
        BY <3>2 DEF CommitUncommitted, Sound, PassesSound, HoldsAck
      <4>2. PICK r \in {AckPending(outbox[c]), Quarantined(outbox[c])} :
              outbox' = [outbox EXCEPT ![c] = r]
        BY <1>6, <3>2 DEF CommitUncommitted
      <4>3. /\ r.owner = None /\ r.rowner = outbox[c].rowner
            /\ r.status \in Quiet /\ r.acked
        BY <1>1 DEF AckPending, Quarantined, Unleased, Row, Quiet
      <4>4. QED
        BY <4>1, <4>2, <4>3
    <3>3. QED
      BY <3>1, <3>2
  <2>3. RowSound(c, r) /\ r.status # "none"
    BY <2>1, <2>2 DEF RowSound, Quiet
  <2>4. QED
    BY <1>1, <1>2, <1>3, <1>4, <2>2, <2>3, RowPut DEF Sound
<1>7. QED
  BY <1>5, <1>6

\* The unfenced write: stale as the row it read may be, it stores an ACK.
LEMMA RewriteRowSound ==
  ASSUME Sound, NEW p \in Passes, RewriteRow(p)
  PROVE  RowsSound' /\ PassesSound' /\ ServerSound'
<1> DEFINE c == cmd[p]
<1>1. c \in Cmds /\ seen[p] \in Row
  BY DEF RewriteRow, Sound, TypeOK, PassTypeOK, Working, ReplayPCs
<1>2. c \in server /\ c \in created
  BY DEF RewriteRow, Sound, PassesSound, ServerSound, HoldsAck, ReplayPCs
<1>3. UNCHANGED <<created, server, net, told>>
  BY DEF RewriteRow, envVars
<1>4. net' \subseteq created /\ told' \subseteq server
  BY <1>3 DEF Sound, ServerSound
<1>5. PassesSound'
  BY <1>3, RowDone DEF RewriteRow, Sound
<1>6. PICK r \in {AckPending(seen[p]), Quarantined(seen[p])} :
        outbox' = [outbox EXCEPT ![c] = r]
  BY DEF RewriteRow
<1>7. r.owner = None /\ r.status \in Quiet /\ r.acked
  BY <1>1, <1>6 DEF AckPending, Quarantined, Unleased, Row, Quiet
<1>8. RowSound(c, r)
  BY <1>2, <1>7 DEF RowSound, Quiet
<1>9. QED
  BY <1>1, <1>2, <1>3, <1>4, <1>5, <1>6, <1>8, RowPut DEF Sound

-----------------------------------------------------------------------------
(* Everything around the passes.                                           *)

LEMMA EnqueueSound ==
  ASSUME Sound, NEW t \in Tabs, NEW c \in Cmds, Enqueue(t, c)
  PROVE  RowsSound' /\ PassesSound' /\ ServerSound'
<1>1. \A d \in Cmds : outbox'[d] = IF d = c THEN NewRow ELSE outbox[d]
  BY DEF Enqueue, Sound, TypeOK, DbTypeOK
<1>2. /\ created' = created \cup {c}
      /\ UNCHANGED <<server, net, told, pc, cmd, acks>>
  BY DEF Enqueue, passVars
<1>3. NewRow.status = "pending" /\ ~NewRow.acked
      /\ NewRow.owner = None /\ NewRow.rowner = None
  BY DEF NewRow, NoRow
<1>4. RowsSound'
  BY <1>1, <1>2, <1>3 DEF Sound, RowsSound, RowSound, Quiet
<1>5. PassesSound'
  BY <1>2, PassesKept DEF Sound
<1>6. ServerSound'
  BY <1>1, <1>2, <1>3 DEF Sound, ServerSound, TypeOK, EnvTypeOK
<1>7. QED
  BY <1>4, <1>5, <1>6

LEMMA TimerSound ==
  ASSUME Sound, NEW c \in Cmds,
         \/ LeaseExpires(c) \/ BackoffElapses(c)
         \/ RepairLeaseExpires(c) \/ RepairBackoffElapses(c)
  PROVE  RowsSound' /\ PassesSound' /\ ServerSound'
<1>1. outbox[c] \in Row /\ RowSound(c, outbox[c])
  BY DEF Sound, RowsSound, TypeOK, DbTypeOK
<1>2. PICK r \in {[outbox[c] EXCEPT !.live = FALSE], [outbox[c] EXCEPT !.timer = "due"],
                  [outbox[c] EXCEPT !.rlive = FALSE], [outbox[c] EXCEPT !.rdue = TRUE]} :
        outbox' = [outbox EXCEPT ![c] = r]
  BY DEF LeaseExpires, BackoffElapses, RepairLeaseExpires, RepairBackoffElapses
<1>3. /\ r.status = outbox[c].status
      /\ r.acked = outbox[c].acked
      /\ r.owner = outbox[c].owner
      /\ r.rowner = outbox[c].rowner
  BY <1>1, <1>2 DEF Row
<1>4. outbox[c] # NoRow
  BY DEF LeaseExpires, BackoffElapses, RepairLeaseExpires, RepairBackoffElapses, NoRow
<1>5. RowSound(c, r) /\ r.status # "none"
  BY <1>1, <1>3, <1>4 DEF RowSound
<1>6. UNCHANGED <<created, server, net, told, pc, cmd, acks>>
  BY DEF LeaseExpires, BackoffElapses, RepairLeaseExpires, RepairBackoffElapses,
         envVars, passVars
<1>7. net' \subseteq created /\ told' \subseteq server
  BY <1>6 DEF Sound, ServerSound
<1>8. PassesSound'
  BY <1>6, PassesKept DEF Sound
<1>9. QED
  BY <1>2, <1>5, <1>6, <1>7, <1>8, RowPut DEF Sound

LEMMA CrashSound ==
  ASSUME Sound, NEW t \in Tabs, Crash(t)
  PROVE  RowsSound' /\ PassesSound' /\ ServerSound'
<1>1. UNCHANGED <<outbox, server, created, told>>
  BY DEF Crash, TabDies, dbVars
<1>2. \A p \in Passes :
        \/ pc'[p] = "idle" /\ acks'[p] = {}
        \/ pc'[p] = pc[p] /\ cmd'[p] = cmd[p] /\ acks'[p] = acks[p]
  BY DEF Crash, TabDies
<1>3. PassesSound'
  BY <1>1, <1>2
  DEF Sound, PassesSound, Working, HoldsAck, SendPCs, ReplayPCs, RepairPCs
<1>4. net' \subseteq created
  BY DEF Crash, TabDies, Sound, ServerSound, PassesSound, Working, SendPCs
<1>5. RowsSound' /\ ServerSound'
  BY <1>1, <1>4, TableKept DEF Sound, ServerSound
<1>6. QED
  BY <1>3, <1>5

LEMMA SurroundingsSound ==
  ASSUME Sound, Surroundings
  PROVE  RowsSound' /\ PassesSound' /\ ServerSound'
<1>1. ASSUME NEW c \in Cmds,
             \/ LeaseExpires(c) \/ BackoffElapses(c)
             \/ RepairLeaseExpires(c) \/ RepairBackoffElapses(c)
      PROVE  RowsSound' /\ PassesSound' /\ ServerSound'
  BY <1>1, TimerSound
<1>2. ASSUME NEW c \in Cmds, AcceptLate(c)
      PROVE  RowsSound' /\ PassesSound' /\ ServerSound'
  <2>1. /\ UNCHANGED <<outbox, created, told, pc, cmd, acks>>
        /\ server \subseteq server' /\ server' \subseteq created
        /\ net' \subseteq created
    BY <1>2 DEF AcceptLate, ServerAccepts, dbVars, passVars, Sound, ServerSound
  <2>2. told' \subseteq server'
    BY <2>1 DEF Sound, ServerSound
  <2>3. QED
    BY <2>1, <2>2, TableKept, PassesKept DEF Sound
<1>3. CASE \/ \E c \in Cmds : HistoryLands(c) \/ CommitLands(c)
           \/ \E t \in Tabs : ClearBuffer(t)
           \/ ClearMessages
  <2>1. UNCHANGED <<outbox, created, server, net, told, pc, cmd, acks>>
    BY <1>3 DEF HistoryLands, CommitLands, ClearBuffer, ClearMessages,
                dbVars, passVars, envVars
  <2>2. net' \subseteq created /\ told' \subseteq server'
        /\ server' \subseteq created
    BY <2>1 DEF Sound, ServerSound
  <2>3. QED
    BY <2>1, <2>2, TableKept, PassesKept DEF Sound
<1>4. QED
  BY <1>1, <1>2, <1>3 DEF Surroundings

LEMMA PassSound ==
  ASSUME Sound, NEW p \in Passes, Pass(p)
  PROVE  RowsSound' /\ PassesSound' /\ ServerSound'
<1>1. CASE \/ \E k \in {"flush", "recover"} : Start(p, k)
           \/ SkipRepair(p) \/ RepairHook(p) \/ MendFails(p)
           \/ ListDue(p) \/ Finish(p) \/ StorageFault(p)
           \/ StartReplay(p) \/ SkipRow(p)
           \/ AckThrows(p) \/ ReplayThrows(p) \/ RereadRow(p) \/ Refuse(p)
  BY <1>1, MovesSound
<1>2. CASE \/ ClaimRepair(p) \/ CommitUnmended(p) \/ ClaimSend(p)
           \/ SendThrows(p) \/ Accept(p)
  BY <1>2, ClaimRepairSound, CommitUnmendedSound, ClaimSendSound, WireSound
<1>3. CASE \/ Mend(p) \/ CommitAck(p) \/ Replay(p) \/ RewriteRow(p)
           \/ CommitTransient(p) \/ CommitRejected(p) \/ CommitUncommitted(p)
  BY <1>3, SettlesSound, FencedSound, RewriteRowSound
<1>4. QED
  BY <1>1, <1>2, <1>3 DEF Pass

LEMMA NextSound == Sound /\ [Next]_vars => Sound'
<1> SUFFICES ASSUME Sound, [Next]_vars PROVE Sound'
  OBVIOUS
<1>1. TypeOK'
  BY NextType DEF Sound
<1>2. ASSUME NEW t \in Tabs, NEW c \in Cmds, Enqueue(t, c)
      PROVE  RowsSound' /\ PassesSound' /\ ServerSound'
  BY <1>2, EnqueueSound
<1>3. ASSUME NEW p \in Passes, Pass(p)
      PROVE  RowsSound' /\ PassesSound' /\ ServerSound'
  BY <1>3, PassSound
<1>4. ASSUME NEW t \in Tabs, Crash(t)
      PROVE  RowsSound' /\ PassesSound' /\ ServerSound'
  BY <1>4, CrashSound
<1>5. ASSUME Surroundings
      PROVE  RowsSound' /\ PassesSound' /\ ServerSound'
  BY <1>5, SurroundingsSound
<1>6. ASSUME UNCHANGED vars
      PROVE  RowsSound' /\ PassesSound' /\ ServerSound'
  <2>1. UNCHANGED <<outbox, created, server, net, told, pc, cmd, acks>>
    BY <1>6 DEF vars, dbVars, passVars, envVars
  <2>2. net' \subseteq created /\ told' \subseteq server' /\ server' \subseteq created
    BY <2>1 DEF Sound, ServerSound
  <2>3. QED
    BY <2>1, <2>2, TableKept, PassesKept DEF Sound
<1>7. RowsSound' /\ PassesSound' /\ ServerSound'
  BY <1>2, <1>3, <1>4, <1>5, <1>6 DEF Next
<1>8. QED
  BY <1>1, <1>7 DEF Sound

LEMMA AlwaysSound == Spec => []Sound
  BY InitSound, NextSound, PTL DEF Spec

-----------------------------------------------------------------------------
(* The theorems.                                                           *)

\* A row whose ACK is stored is in a status no claim takes, for ever: no
\* interleaving of claims, fenced and unfenced writes and crashes puts an
\* acknowledged command back on the wire.
THEOREM AckedStaysOffWire == Spec => []AckedOffWire
<1>1. Sound => AckedOffWire
  BY DEF Sound, RowsSound, RowSound, AckedOffWire
<1>2. QED
  BY <1>1, AlwaysSound, PTL

\* A command leaves the outbox, carries an ACK or is announced as sent only
\* when the server has accepted it.
THEOREM NoCommandLost == Spec => []RetiredIsDelivered
<1>1. Sound => RetiredIsDelivered
  BY DEF Sound, RowsSound, RowSound, ServerSound, RetiredIsDelivered
<1>2. QED
  BY <1>1, AlwaysSound, PTL

-----------------------------------------------------------------------------
(* The engine implements CommandQueue.                                     *)

LEMMA QueueInit == Init => Queue!Init
  BY DEF Init, Queue!Init, NoRow

LEMMA QueueStutters ==
  ASSUME UNCHANGED <<outbox, server>>
  PROVE  UNCHANGED Queue!qvars
  BY DEF Queue!qvars

\* A write to one row retires it, reinstates it, or leaves it queued.
LEMMA QueueRowStep ==
  ASSUME Sound, Sound', UNCHANGED <<server, created>>, NEW c \in Cmds,
         \A d \in Cmds \ {c} : outbox'[d] = outbox[d]
  PROVE  Queue!Next \/ UNCHANGED Queue!qvars
<1> DEFINE Q == {d \in Cmds : outbox[d].status # "none"}
<1>1. \A d \in Cmds \ {c} : d \in Q <=> d \in Q'
  OBVIOUS
<1>2. CASE c \in Q /\ c \in Q'
  <2>1. Q' = Q
    BY <1>1, <1>2
  <2>2. QED
    BY <2>1 DEF Queue!qvars
<1>3. CASE c \notin Q /\ c \notin Q'
  <2>1. Q' = Q
    BY <1>1, <1>3
  <2>2. QED
    BY <2>1 DEF Queue!qvars
<1>4. CASE c \in Q /\ c \notin Q'
  <2>1. Q' = Q \ {c}
    BY <1>1, <1>4
  <2>2. c \in created
    BY <1>4 DEF Sound, RowsSound, RowSound
  <2>3. c \in server
    BY <1>4, <2>2 DEF Sound, ServerSound
  <2>4. Queue!Retire(c)
    BY <1>4, <2>1, <2>3 DEF Queue!Retire
  <2>5. QED
    BY <2>4 DEF Queue!Next
<1>5. CASE c \notin Q /\ c \in Q'
  <2>1. Q' = Q \cup {c}
    BY <1>1, <1>5
  <2>2. c \in created
    BY <1>5 DEF Sound, RowsSound, RowSound
  <2>3. c \in server
    BY <1>5, <2>2 DEF Sound, ServerSound
  <2>4. Queue!Reinstate(c)
    BY <2>1, <2>3 DEF Queue!Reinstate
  <2>5. QED
    BY <2>4 DEF Queue!Next
<1>6. QED
  BY <1>2, <1>3, <1>4, <1>5

\* What the server accepts is still queued, or it had it before.
LEMMA QueueServerStep ==
  ASSUME Sound, NEW c \in created, UNCHANGED outbox, ServerAccepts(c)
  PROVE  Queue!Next \/ UNCHANGED Queue!qvars
<1>1. CASE c \in server
  <2>1. server' = server
    BY <1>1 DEF ServerAccepts
  <2>2. QED
    BY <2>1, QueueStutters
<1>2. CASE c \notin server
  <2>1. c \in Cmds /\ outbox[c].status # "none"
    BY <1>2 DEF Sound, ServerSound, TypeOK, EnvTypeOK
  <2>2. Queue!Deliver(c)
    BY <2>1 DEF Queue!Deliver, ServerAccepts
  <2>3. QED
    BY <2>1, <2>2 DEF Queue!Next
<1>3. QED
  BY <1>1, <1>2

LEMMA QueueEnqueueStep ==
  ASSUME Sound, NEW t \in Tabs, NEW c \in Cmds, Enqueue(t, c)
  PROVE  Queue!Next
<1>1. c \notin created
  BY OutboxAssumption DEF Enqueue
<1>2. c \notin server /\ outbox[c].status = "none"
  BY <1>1 DEF Sound, ServerSound, RowsSound, RowSound
<1>3. \A d \in Cmds : outbox'[d] = IF d = c THEN NewRow ELSE outbox[d]
  BY DEF Enqueue, Sound, TypeOK, DbTypeOK
<1>4. server' = server
  BY DEF Enqueue
<1>5. Queue!Enqueue(c)
  BY <1>2, <1>3, <1>4 DEF Queue!Enqueue, NewRow, NoRow
<1>6. QED
  BY <1>5 DEF Queue!Next

LEMMA QueuePassStep ==
  ASSUME Sound, Sound', NEW p \in Passes, Pass(p)
  PROVE  Queue!Next \/ UNCHANGED Queue!qvars
<1>1. CASE \/ \E k \in {"flush", "recover"} : Start(p, k)
           \/ SkipRepair(p) \/ RepairHook(p) \/ MendFails(p)
           \/ ListDue(p) \/ Finish(p) \/ StorageFault(p)
           \/ StartReplay(p) \/ SkipRow(p) \/ SendThrows(p)
           \/ AckThrows(p) \/ ReplayThrows(p) \/ RereadRow(p) \/ Refuse(p)
  BY <1>1, QueueStutters
  DEF Start, SkipRepair, RepairHook, MendFails, ListDue, Finish, StorageFault,
      StartReplay, SkipRow, SendThrows, AckThrows, ReplayThrows, RereadRow, Refuse,
      dbVars, envVars
<1>2. CASE Accept(p)
  <2>1. cmd[p] \in created
    BY <1>2 DEF Accept, Sound, PassesSound, Working, SendPCs
  <2>2. QED
    BY <1>2, <2>1, QueueServerStep DEF Accept, dbVars
<1>3. CASE ClaimRepair(p) \/ ClaimSend(p)
  <2>1. PICK c \in todo[p] : \E r : outbox' = [outbox EXCEPT ![c] = r]
    BY <1>3 DEF ClaimRepair, ClaimSend
  <2>2. c \in Cmds /\ \A d \in Cmds \ {c} : outbox'[d] = outbox[d]
    BY <2>1 DEF Sound, TypeOK, PassTypeOK, DbTypeOK
  <2>3. UNCHANGED <<server, created>>
    BY <1>3 DEF ClaimRepair, ClaimSend, envVars
  <2>4. QED
    BY <2>2, <2>3, QueueRowStep
<1>4. CASE \/ Mend(p) \/ CommitUnmended(p) \/ CommitAck(p) \/ Replay(p)
           \/ CommitTransient(p) \/ CommitRejected(p)
           \/ CommitUncommitted(p) \/ RewriteRow(p)
  <2>1. cmd[p] \in Cmds
    BY <1>4 DEF Mend, CommitUnmended, CommitAck, Replay, CommitTransient,
                CommitRejected, CommitUncommitted, RewriteRow,
                Sound, TypeOK, PassTypeOK, Working, SendPCs, ReplayPCs, RepairPCs
  <2>2. \/ outbox' = outbox
        \/ \E r : outbox' = [outbox EXCEPT ![cmd[p]] = r]
    BY <1>4 DEF Mend, CommitUnmended, CommitAck, Replay, CommitTransient,
                CommitRejected, CommitUncommitted, RewriteRow, SettleRow, dbVars
  <2>3. \A d \in Cmds \ {cmd[p]} : outbox'[d] = outbox[d]
    BY <2>1, <2>2 DEF Sound, TypeOK, DbTypeOK
  <2>4. UNCHANGED <<server, created>>
    BY <1>4 DEF Mend, CommitUnmended, CommitAck, Replay, CommitTransient,
                CommitRejected, CommitUncommitted, RewriteRow, envVars
  <2>5. QED
    BY <2>1, <2>3, <2>4, QueueRowStep
<1>5. QED
  BY <1>1, <1>2, <1>3, <1>4 DEF Pass

LEMMA QueueSurroundingsStep ==
  ASSUME Sound, Sound', Surroundings
  PROVE  Queue!Next \/ UNCHANGED Queue!qvars
<1>1. ASSUME NEW c \in Cmds,
             \/ LeaseExpires(c) \/ BackoffElapses(c)
             \/ RepairLeaseExpires(c) \/ RepairBackoffElapses(c)
      PROVE  Queue!Next \/ UNCHANGED Queue!qvars
  <2>1. \A d \in Cmds \ {c} : outbox'[d] = outbox[d]
    BY <1>1 DEF LeaseExpires, BackoffElapses, RepairLeaseExpires,
                RepairBackoffElapses, Sound, TypeOK, DbTypeOK
  <2>2. UNCHANGED <<server, created>>
    BY <1>1 DEF LeaseExpires, BackoffElapses, RepairLeaseExpires,
                RepairBackoffElapses, envVars
  <2>3. QED
    BY <2>1, <2>2, QueueRowStep
<1>2. ASSUME NEW c \in Cmds, AcceptLate(c)
      PROVE  Queue!Next \/ UNCHANGED Queue!qvars
  <2>1. c \in created
    BY <1>2 DEF AcceptLate, Sound, ServerSound
  <2>2. QED
    BY <1>2, <2>1, QueueServerStep DEF AcceptLate, dbVars
<1>3. CASE \/ \E c \in Cmds : HistoryLands(c) \/ CommitLands(c)
           \/ \E t \in Tabs : ClearBuffer(t)
           \/ ClearMessages
  BY <1>3, QueueStutters DEF HistoryLands, CommitLands, ClearBuffer, ClearMessages,
                             dbVars, envVars
<1>4. QED
  BY <1>1, <1>2, <1>3 DEF Surroundings

LEMMA QueueStep == Sound /\ Sound' /\ [Next]_vars => [Queue!Next]_(Queue!qvars)
<1> SUFFICES ASSUME Sound, Sound', [Next]_vars
             PROVE  Queue!Next \/ UNCHANGED Queue!qvars
  OBVIOUS
<1>1. ASSUME NEW t \in Tabs, NEW c \in Cmds, Enqueue(t, c)
      PROVE  Queue!Next
  BY <1>1, QueueEnqueueStep
<1>2. ASSUME NEW p \in Passes, Pass(p)
      PROVE  Queue!Next \/ UNCHANGED Queue!qvars
  BY <1>2, QueuePassStep
<1>3. ASSUME NEW t \in Tabs, Crash(t)
      PROVE  UNCHANGED Queue!qvars
  BY <1>3, QueueStutters DEF Crash, TabDies, dbVars
<1>4. CASE Surroundings
  BY <1>4, QueueSurroundingsStep
<1>5. CASE UNCHANGED vars
  BY <1>5, QueueStutters DEF vars, dbVars, envVars
<1>6. QED
  BY <1>1, <1>2, <1>3, <1>4, <1>5 DEF Next

\* Leases, passes, tabs, crashes and stale writes add up to a queue whose
\* commands leave it only once delivered.
THEOREM EngineImplementsQueue == Spec => ImplementsQueue
<1>1. Spec => Queue!Init
  BY QueueInit DEF Spec
<1>2. Spec => [][Queue!Next]_(Queue!qvars)
  BY AlwaysSound, QueueStep, PTL DEF Spec
<1>3. QED
  BY <1>1, <1>2 DEF ImplementsQueue, Queue!Spec

-----------------------------------------------------------------------------
(* Leases: what an attempt holds, and what replays without one.            *)

\* A command that no claim takes again: acknowledged, given up, or gone.
Retired(c) == c \in created /\ outbox[c].status \in Quiet \cup {"none"}

\* An attempt whose lease has not run out still has the row.
AttemptsHold ==
    \A p \in Passes :
        pc[p] \in SendPCs /\ p \notin expired =>
            /\ outbox[cmd[p]].owner = p
            /\ outbox[cmd[p]].live

\* A pass that replays without a lease replays what no attempt can hold.
ReplaysRetired ==
    \A p \in Passes :
        /\ \A c \in acks[p] : Retired(c)
        /\ pc[p] \in ReplayPCs => Retired(cmd[p])

Fenced == AttemptsHold /\ ReplaysRetired

-----------------------------------------------------------------------------
(* Leases: what the actions share.                                         *)

LEMMA InitFenced == Init => Fenced
  BY DEF Init, Fenced, AttemptsHold, ReplaysRetired, SendPCs, ReplayPCs

\* An attempt that holds its row does so on a row in `sending`.
LEMMA HeldIsSending ==
  ASSUME Sound, Fenced, NEW p \in Passes, pc[p] \in SendPCs, p \notin expired
  PROVE  /\ cmd[p] \in Cmds
         /\ outbox[cmd[p]].status = "sending"
         /\ outbox[cmd[p]].live
         /\ ~outbox[cmd[p]].acked
         /\ outbox[cmd[p]].rowner = None
<1>1. cmd[p] \in Cmds
  BY DEF Sound, TypeOK, PassTypeOK, Working
<1>2. RowSound(cmd[p], outbox[cmd[p]]) /\ outbox[cmd[p]].owner = p
      /\ outbox[cmd[p]].live
  BY <1>1 DEF Sound, RowsSound, Fenced, AttemptsHold
<1>3. p # None
  BY OutboxAssumption
<1>4. QED
  BY <1>1, <1>2, <1>3 DEF RowSound, Quiet

\* A command no claim takes again stays so, unless a write makes it due.
LEMMA RetiredStays ==
  ASSUME Sound, NEW c, Retired(c), created \subseteq created',
         \/ outbox'[c] = outbox[c]
         \/ outbox'[c].status \in Quiet \cup {"none"}
  PROVE  Retired(c)'
  BY DEF Retired

\* The general step: no pass enters an attempt, rows of running attempts keep
\* owner and lease or their pass is marked, and retired commands stay retired.
LEMMA FencedKept ==
  ASSUME Sound, Fenced, created \subseteq created',
         \A p \in Passes :
            \/ pc'[p] \notin SendPCs
            \/ pc[p] \in SendPCs /\ cmd'[p] = cmd[p] /\ (p \in expired => p \in expired'),
         \A p \in Passes :
            pc[p] \in SendPCs /\ pc'[p] \in SendPCs /\ p \notin expired' =>
                /\ outbox'[cmd[p]].owner = outbox[cmd[p]].owner
                /\ outbox'[cmd[p]].live = outbox[cmd[p]].live,
         \A p \in Passes :
            /\ \A c \in acks'[p] : c \in acks[p] \/ Retired(c)
            /\ pc'[p] \in ReplayPCs =>
                \/ pc[p] \in ReplayPCs /\ cmd'[p] = cmd[p]
                \/ Retired(cmd'[p]),
         \A c \in created : Retired(c) => Retired(c)'
  PROVE  Fenced'
<1>1. AttemptsHold'
  BY DEF Fenced, AttemptsHold
<1>2. ReplaysRetired'
  BY DEF Fenced, ReplaysRetired, Retired
<1>3. QED
  BY <1>1, <1>2 DEF Fenced
-----------------------------------------------------------------------------
(* Leases: the steps of a pass.                                            *)

\* No row is written and no pass enters an attempt or picks a replay.
LEMMA MovesFenced ==
  ASSUME Sound, Fenced, NEW p \in Passes, UNCHANGED <<outbox, created>>,
         \A q \in Passes \ {p} :
            pc'[q] = pc[q] /\ cmd'[q] = cmd[q] /\ acks'[q] = acks[q],
         \A q \in Passes \ {p} : q \in expired => q \in expired',
         \/ pc'[p] \notin SendPCs
         \/ pc[p] \in SendPCs /\ cmd'[p] = cmd[p] /\ (p \in expired => p \in expired'),
         \A c \in acks'[p] : c \in acks[p] \/ Retired(c),
         pc'[p] \in ReplayPCs =>
            (pc[p] \in ReplayPCs /\ cmd'[p] = cmd[p]) \/ Retired(cmd'[p])
  PROVE  Fenced'
<1>1. \A c \in created : Retired(c) => Retired(c)'
  BY DEF Retired
<1>2. QED
  BY <1>1, FencedKept

LEMMA QuietStepsFenced ==
  ASSUME Sound, Fenced, NEW p \in Passes,
         \/ \E k \in {"flush", "recover"} : Start(p, k)
         \/ SkipRepair(p) \/ RepairHook(p) \/ MendFails(p)
         \/ ListDue(p) \/ Finish(p) \/ StorageFault(p)
         \/ StartReplay(p) \/ SkipRow(p)
         \/ AckThrows(p) \/ ReplayThrows(p) \/ RereadRow(p)
         \/ SendThrows(p) \/ Accept(p) \/ Refuse(p)
  PROVE  Fenced'
<1>1. UNCHANGED <<outbox, created>>
  BY DEF Start, SkipRepair, RepairHook, MendFails, ListDue, Finish, StorageFault,
         StartReplay, SkipRow, AckThrows, ReplayThrows, RereadRow, SendThrows,
         Accept, Refuse, dbVars, envVars
<1>2. \A q \in Passes \ {p} :
         /\ pc'[q] = pc[q] /\ cmd'[q] = cmd[q] /\ acks'[q] = acks[q]
         /\ q \in expired => q \in expired'
  <2>1. CASE \/ \E k \in {"flush", "recover"} : Start(p, k)
             \/ SkipRepair(p) \/ RepairHook(p) \/ MendFails(p) \/ ListDue(p)
             \/ StartReplay(p) \/ SkipRow(p)
    BY <2>1 DEF Start, SkipRepair, RepairHook, MendFails, ListDue, StartReplay,
                SkipRow, Goto, Sound, TypeOK, PassTypeOK
  <2>2. CASE AckThrows(p) \/ ReplayThrows(p) \/ SendThrows(p) \/ Accept(p) \/ Refuse(p)
    BY <2>2 DEF AckThrows, ReplayThrows, SendThrows, Accept, Refuse, Goto,
                Sound, TypeOK, PassTypeOK
  <2>3. CASE Finish(p) \/ StorageFault(p) \/ RereadRow(p)
    BY <2>3 DEF Finish, StorageFault, RereadRow, ResetPass, NextRow, Goto,
                Sound, TypeOK, PassTypeOK
  <2>4. QED
    BY <2>1, <2>2, <2>3
<1>3. CASE \/ \E k \in {"flush", "recover"} : Start(p, k)
           \/ SkipRepair(p) \/ RepairHook(p) \/ MendFails(p)
           \/ Finish(p) \/ StorageFault(p) \/ SkipRow(p)
  <2>1. pc'[p] \notin SendPCs /\ pc'[p] \notin ReplayPCs
    BY <1>3 DEF Start, SkipRepair, RepairHook, MendFails, Finish, StorageFault, SkipRow,
                ResetPass, Goto, Sound, TypeOK, PassTypeOK, SendPCs, ReplayPCs
  <2>2. acks'[p] \subseteq acks[p]
    BY <1>3 DEF Start, SkipRepair, RepairHook, MendFails, Finish, StorageFault, SkipRow,
                ResetPass, Sound, TypeOK, PassTypeOK
  <2>3. QED
    BY <1>1, <1>2, <2>1, <2>2, MovesFenced
<1>4. CASE AckThrows(p) \/ SendThrows(p) \/ Accept(p) \/ Refuse(p)
  <2>1. /\ pc[p] \in SendPCs /\ pc'[p] \notin ReplayPCs
        /\ UNCHANGED <<cmd, acks, expired>>
    BY <1>4 DEF AckThrows, SendThrows, Accept, Refuse, Goto, SendPCs, ReplayPCs,
                Sound, TypeOK, PassTypeOK
  <2>2. QED
    BY <1>1, <1>2, <2>1, MovesFenced
<1>5. CASE ReplayThrows(p) \/ RereadRow(p)
  <2>1. pc[p] \in ReplayPCs /\ pc'[p] \notin SendPCs /\ UNCHANGED acks
    BY <1>5 DEF ReplayThrows, RereadRow, NextRow, LoopOf, Goto, SendPCs, ReplayPCs,
                Sound, TypeOK, PassTypeOK
  <2>2. pc'[p] \in ReplayPCs => cmd'[p] = cmd[p]
    BY <1>5 DEF ReplayThrows, RereadRow, NextRow, LoopOf, Goto, ReplayPCs,
                Sound, TypeOK, PassTypeOK
  <2>3. QED
    BY <1>1, <1>2, <2>1, <2>2, MovesFenced
<1>6. CASE ListDue(p)
  <2>1. PICK batch : acks' = [acks EXCEPT ![p] =
                       batch \cap {c \in {d \in Cmds : Due(outbox[d])} :
                                     outbox[c].status = "ack_pending"}]
    BY <1>6 DEF ListDue
  <2>2. \A c \in acks'[p] : Retired(c)
    BY <2>1 DEF Sound, TypeOK, PassTypeOK, RowsSound, RowSound, Retired, Quiet
  <2>3. pc'[p] = "drain"
    BY <1>6 DEF ListDue, Goto, Sound, TypeOK, PassTypeOK
  <2>4. QED
    BY <1>1, <1>2, <2>2, <2>3, MovesFenced DEF SendPCs, ReplayPCs
<1>7. CASE StartReplay(p)
  <2>1. PICK c \in acks[p] : /\ cmd' = [cmd EXCEPT ![p] = c]
                             /\ acks' = [acks EXCEPT ![p] = @ \ {c}]
    BY <1>7 DEF StartReplay
  <2>2. cmd'[p] = c /\ acks'[p] \subseteq acks[p] /\ Retired(c)
    BY <2>1 DEF Sound, TypeOK, PassTypeOK, Fenced, ReplaysRetired
  <2>3. pc'[p] = "replay"
    BY <1>7 DEF StartReplay, Goto, Sound, TypeOK, PassTypeOK
  <2>4. QED
    BY <1>1, <1>2, <2>2, <2>3, MovesFenced DEF SendPCs
<1>8. QED
  BY <1>3, <1>4, <1>5, <1>6, <1>7

\* A pass writes one row and ends its work on it.  Nobody else holds the row,
\* and what was retired stays so.
LEMMA RowEndFenced ==
  ASSUME Sound, Fenced, NEW p \in Passes, NEW c \in Cmds, NEW r,
         outbox' = [outbox EXCEPT ![c] = r], NextRow(p), created' = created,
         \A q \in Passes \ {p} : pc[q] \in SendPCs /\ q \notin expired => cmd[q] # c,
         Retired(c) => r.status \in Quiet \cup {"none"}
  PROVE  Fenced'
<1>1. \A q \in Passes \ {p} :
         /\ pc'[q] = pc[q] /\ cmd'[q] = cmd[q]
         /\ q \in expired' <=> q \in expired
  BY DEF NextRow, Goto, Sound, TypeOK, PassTypeOK
<1>2. pc'[p] \notin SendPCs /\ pc'[p] \notin ReplayPCs /\ acks' = acks
  BY DEF NextRow, Goto, LoopOf, Sound, TypeOK, PassTypeOK, SendPCs, ReplayPCs
<1>3. \A d \in Cmds : outbox'[d] = IF d = c THEN r ELSE outbox[d]
  BY DEF Sound, TypeOK, DbTypeOK
<1>4. \A d \in created : Retired(d) => Retired(d)'
  BY <1>3 DEF Retired, Sound, TypeOK, EnvTypeOK
<1>5. \A q \in Passes \ {p} : pc[q] \in SendPCs => cmd[q] \in Cmds
  BY DEF Sound, TypeOK, PassTypeOK, Working
<1>6. \A q \in Passes :
         pc[q] \in SendPCs /\ pc'[q] \in SendPCs /\ q \notin expired' =>
            outbox'[cmd[q]] = outbox[cmd[q]]
  BY <1>1, <1>2, <1>3, <1>5
<1>7. QED
  BY <1>1, <1>2, <1>4, <1>6, FencedKept

\* A row that is acknowledged, or retired, or another's, no attempt holds.
LEMMA NobodyElseHolds ==
  ASSUME Sound, Fenced, NEW p \in Passes, NEW c \in Cmds,
         \/ outbox[c].owner = p
         \/ outbox[c].status # "sending"
         \/ outbox[c].rowner # None
         \/ ~outbox[c].live,
         NEW q \in Passes \ {p}, pc[q] \in SendPCs, q \notin expired
  PROVE  cmd[q] # c
<1>1. outbox[cmd[q]].owner = q
  BY DEF Fenced, AttemptsHold
<1>2. QED
  BY <1>1, HeldIsSending

LEMMA SettlesFenced ==
  ASSUME Sound, Fenced, NEW p \in Passes, Mend(p) \/ CommitAck(p) \/ Replay(p)
  PROVE  Fenced'
<1> DEFINE c == cmd[p]
<1>1. c \in Cmds
  BY DEF Mend, CommitAck, Replay, Sound, TypeOK, PassTypeOK, Working, SendPCs,
         RepairPCs, ReplayPCs
<1>2. NextRow(p) /\ created' = created
  BY DEF Mend, CommitAck, Replay
<1>3. \/ outbox' = [outbox EXCEPT ![c] = NoRow] /\ (outbox[c].owner = p \/ ~CommitAck(p))
      \/ outbox' = [outbox EXCEPT ![c] = outbox[c]]
  <2>1. outbox = [outbox EXCEPT ![c] = outbox[c]]
    BY <1>1 DEF Sound, TypeOK, DbTypeOK
  <2>2. QED
    BY <2>1 DEF Mend, CommitAck, Replay, SettleRow, dbVars
<1>4. CASE outbox' = [outbox EXCEPT ![c] = outbox[c]]
  <2>1. \A d \in Cmds : outbox'[d] = outbox[d]
    BY <1>1, <1>4 DEF Sound, TypeOK, DbTypeOK
  <2>2. \A q \in Passes \ {p} :
           /\ pc'[q] = pc[q] /\ cmd'[q] = cmd[q]
           /\ q \in expired' <=> q \in expired
    BY <1>2 DEF NextRow, Goto, Sound, TypeOK, PassTypeOK
  <2>3. pc'[p] \notin SendPCs /\ pc'[p] \notin ReplayPCs /\ acks' = acks
    BY <1>2 DEF NextRow, Goto, LoopOf, Sound, TypeOK, PassTypeOK, SendPCs, ReplayPCs
  <2>4. \A d \in created : Retired(d) => Retired(d)'
    BY <1>2, <2>1 DEF Retired, Sound, TypeOK, EnvTypeOK
  <2>5. \A q \in Passes : pc[q] \in SendPCs => cmd[q] \in Cmds
    BY DEF Sound, TypeOK, PassTypeOK, Working
  <2>6. QED
    BY <1>2, <2>1, <2>2, <2>3, <2>4, <2>5, FencedKept
<1>5. CASE outbox' = [outbox EXCEPT ![c] = NoRow] /\ (outbox[c].owner = p \/ ~CommitAck(p))
  <2>1. \/ outbox[c].owner = p
        \/ outbox[c].status # "sending"
        \/ outbox[c].rowner # None
    <3>1. CASE Mend(p)
      BY <3>1, OutboxAssumption DEF Mend
    <3>2. CASE Replay(p)
      BY <3>2 DEF Replay, Fenced, ReplaysRetired, Retired, ReplayPCs, Quiet
    <3>3. QED
      BY <1>5, <3>1, <3>2
  <2>2. \A q \in Passes \ {p} : pc[q] \in SendPCs /\ q \notin expired => cmd[q] # c
    BY <1>1, <2>1, NobodyElseHolds
  <2>3. NoRow.status = "none"
    BY DEF NoRow
  <2>4. QED
    BY <1>1, <1>2, <1>5, <2>2, <2>3, RowEndFenced
<1>6. QED
  BY <1>3, <1>4, <1>5

\* The writes under a lease: the row is this attempt's, or untouched.
LEMMA FencedWritesFenced ==
  ASSUME Sound, Fenced, NEW p \in Passes,
         \/ CommitUnmended(p) \/ CommitTransient(p)
         \/ CommitRejected(p) \/ CommitUncommitted(p)
  PROVE  Fenced'
<1> DEFINE c == cmd[p]
<1>1. c \in Cmds /\ outbox[c] \in Row /\ RowSound(c, outbox[c])
  BY DEF CommitUnmended, CommitTransient, CommitRejected, CommitUncommitted, Sound,
         RowsSound, TypeOK, PassTypeOK, DbTypeOK, Working, SendPCs, RepairPCs
<1>2. NextRow(p) /\ created' = created
  BY DEF CommitUnmended, CommitTransient, CommitRejected, CommitUncommitted, envVars
<1>3. p # None
  BY OutboxAssumption
<1>4. PICK r :
        /\ outbox' = [outbox EXCEPT ![c] = r]
        /\ \/ r = outbox[c] /\ outbox'= outbox
           \/ outbox[c].rowner = p /\ r.status \in Quiet \cup {outbox[c].status}
           \/ outbox[c].owner = p
  <2>1. outbox = [outbox EXCEPT ![c] = outbox[c]]
    BY <1>1 DEF Sound, TypeOK, DbTypeOK
  <2>2. CASE CommitUnmended(p)
    <3>1. CASE outbox[c].rowner # p
      BY <2>1, <2>2, <3>1 DEF CommitUnmended
    <3>2. CASE outbox[c].rowner = p
      <4>1. PICK r \in {[outbox[c] EXCEPT !.status = "local_data_error",
                                          !.rlive = FALSE, !.rowner = None],
                        [outbox[c] EXCEPT !.rdue = FALSE,
                                          !.rlive = FALSE, !.rowner = None]} :
              outbox' = [outbox EXCEPT ![c] = r]
        BY <2>2, <3>2 DEF CommitUnmended
      <4>2. r.status \in Quiet \cup {outbox[c].status}
        BY <1>1 DEF Row, Quiet
      <4>3. QED
        BY <3>2, <4>1, <4>2
    <3>3. QED
      BY <3>1, <3>2
  <2>3. CASE CommitTransient(p) \/ CommitRejected(p) \/ CommitUncommitted(p)
    BY <2>1, <2>3 DEF CommitTransient, CommitRejected, CommitUncommitted
  <2>4. QED
    BY <2>2, <2>3
<1>5. CASE r = outbox[c] /\ outbox' = outbox
  <2>1. \A q \in Passes \ {p} :
           /\ pc'[q] = pc[q] /\ cmd'[q] = cmd[q] /\ acks'[q] = acks[q]
           /\ q \in expired => q \in expired'
    BY <1>2 DEF NextRow, Goto, Sound, TypeOK, PassTypeOK
  <2>2. pc'[p] \notin SendPCs /\ pc'[p] \notin ReplayPCs /\ acks' = acks
    BY <1>2 DEF NextRow, Goto, LoopOf, Sound, TypeOK, PassTypeOK, SendPCs, ReplayPCs
  <2>3. QED
    BY <1>2, <1>5, <2>1, <2>2, MovesFenced
<1>6. CASE \/ outbox[c].rowner = p /\ r.status \in Quiet \cup {outbox[c].status}
           \/ outbox[c].owner = p
  <2>1. outbox[c].owner = p \/ outbox[c].rowner # None
    BY <1>3, <1>6
  <2>2. \A q \in Passes \ {p} : pc[q] \in SendPCs /\ q \notin expired => cmd[q] # c
    BY <1>1, <2>1, NobodyElseHolds
  <2>3. Retired(c) => r.status \in Quiet \cup {"none"}
    BY <1>1, <1>3, <1>6 DEF Retired, RowSound, Quiet
  <2>4. QED
    BY <1>1, <1>2, <1>4, <2>2, <2>3, RowEndFenced
<1>7. QED
  BY <1>4, <1>5, <1>6

\* The write under no lease at all stores an ACK on what was retired.
LEMMA RewriteFenced ==
  ASSUME Sound, Fenced, NEW p \in Passes, RewriteRow(p)
  PROVE  Fenced'
<1> DEFINE c == cmd[p]
<1>1. c \in Cmds /\ seen[p] \in Row
  BY DEF RewriteRow, Sound, TypeOK, PassTypeOK, Working, ReplayPCs
<1>2. NextRow(p) /\ created' = created
  BY DEF RewriteRow, envVars
<1>3. Retired(c)
  BY DEF RewriteRow, Fenced, ReplaysRetired, ReplayPCs
<1>4. PICK r \in {AckPending(seen[p]), Quarantined(seen[p])} :
        outbox' = [outbox EXCEPT ![c] = r]
  BY DEF RewriteRow
<1>5. r.status \in Quiet
  BY <1>1, <1>4 DEF AckPending, Quarantined, Unleased, Row, Quiet
<1>6. outbox[c].status # "sending"
  BY <1>3 DEF Retired, Quiet
<1>7. \A q \in Passes \ {p} : pc[q] \in SendPCs /\ q \notin expired => cmd[q] # c
  BY <1>1, <1>6, NobodyElseHolds
<1>8. QED
  BY <1>1, <1>2, <1>4, <1>5, <1>7, RowEndFenced

LEMMA ClaimRepairFenced ==
  ASSUME Sound, Fenced, NEW p \in Passes, ClaimRepair(p)
  PROVE  Fenced'
<1>1. PICK c \in todo[p] :
        /\ RepairClaimable(outbox[c])
        /\ outbox' = [outbox EXCEPT ![c] = [outbox[c] EXCEPT
               !.rtries = Capped(outbox[c].rtries, MaxRepairAttempts),
               !.rowner = p, !.rlive = TRUE]]
        /\ cmd' = [cmd EXCEPT ![p] = c]
  BY DEF ClaimRepair
<1>2. c \in Cmds /\ outbox[c] \in Row /\ outbox[c].status = "integrity_error"
  BY <1>1 DEF Sound, TypeOK, PassTypeOK, DbTypeOK, RepairClaimable
<1>3. \A d \in Cmds : /\ d # c => outbox'[d] = outbox[d]
                      /\ outbox'[d].status = outbox[d].status
  BY <1>1, <1>2 DEF Sound, TypeOK, DbTypeOK, Row
<1>4. \A d \in created : Retired(d) => Retired(d)'
  BY <1>3 DEF ClaimRepair, envVars, Retired, Sound, TypeOK, EnvTypeOK
<1>5. \A q \in Passes : pc[q] \in SendPCs /\ q \notin expired =>
         cmd[q] \in Cmds /\ cmd[q] # c
  BY <1>2, HeldIsSending
<1>6. \A q \in Passes : /\ pc'[q] = IF q = p THEN "hook" ELSE pc[q]
                        /\ q # p => cmd'[q] = cmd[q]
  BY <1>1 DEF ClaimRepair, Goto, Sound, TypeOK, PassTypeOK
<1>7. created' = created /\ acks' = acks /\ expired' = expired
  BY DEF ClaimRepair, envVars
<1>8. QED
  BY <1>3, <1>4, <1>5, <1>6, <1>7, FencedKept DEF SendPCs, ReplayPCs

\* A claim takes no row that an attempt still holds.
LEMMA ClaimSendFenced ==
  ASSUME Sound, Fenced, NEW p \in Passes, ClaimSend(p)
  PROVE  Fenced'
<1>1. PICK c \in todo[p] :
        /\ Claimable(outbox[c])
        /\ outbox' = [outbox EXCEPT ![c] = [outbox[c] EXCEPT
               !.status = "sending", !.owner = p, !.live = TRUE]]
        /\ cmd' = [cmd EXCEPT ![p] = c]
  BY DEF ClaimSend
<1>2. c \in Cmds /\ outbox[c] \in Row
  BY DEF Sound, TypeOK, PassTypeOK, DbTypeOK
<1>3. ~Retired(c) /\ (outbox[c].status # "sending" \/ ~outbox[c].live)
  BY <1>1 DEF Claimable, Retired, Quiet
<1>4. /\ outbox'[c].owner = p /\ outbox'[c].live
      /\ \A d \in Cmds : d # c => outbox'[d] = outbox[d]
  BY <1>1, <1>2 DEF Sound, TypeOK, DbTypeOK, Row
<1>5. \A q \in Passes \ {p} : pc[q] \in SendPCs /\ q \notin expired =>
         cmd[q] \in Cmds /\ cmd[q] # c
  BY <1>2, <1>3, NobodyElseHolds, HeldIsSending
<1>6. \A q \in Passes : /\ pc'[q] = IF q = p THEN "sending" ELSE pc[q]
                        /\ cmd'[q] = IF q = p THEN c ELSE cmd[q]
  BY <1>1 DEF ClaimSend, Goto, Sound, TypeOK, PassTypeOK
<1>7. created' = created /\ acks' = acks /\ expired' = expired
  BY DEF ClaimSend, envVars
<1>8. AttemptsHold'
  BY <1>4, <1>5, <1>6, <1>7 DEF Fenced, AttemptsHold
<1>9. ReplaysRetired'
  <2>1. \A d \in Cmds : Retired(d) => Retired(d)'
    BY <1>3, <1>4, <1>7 DEF Retired
  <2>2. \A q \in Passes : /\ acks[q] \subseteq Cmds
                          /\ pc[q] \in ReplayPCs => cmd[q] \in Cmds
    BY DEF Sound, TypeOK, PassTypeOK, Working
  <2>3. QED
    BY <1>6, <1>7, <2>1, <2>2 DEF Fenced, ReplaysRetired, ReplayPCs
<1>10. QED
  BY <1>8, <1>9 DEF Fenced

-----------------------------------------------------------------------------
(* Leases: everything around the passes.                                   *)

\* The row that is new is one no pass works on.
LEMMA EnqueueFenced ==
  ASSUME Sound, Fenced, NEW t \in Tabs, NEW c \in Cmds, Enqueue(t, c)
  PROVE  Fenced'
<1>1. c \notin created
  BY OutboxAssumption DEF Enqueue
<1>2. \A d \in created : outbox'[d] = outbox[d]
  BY <1>1 DEF Enqueue, Sound, TypeOK, DbTypeOK, EnvTypeOK
<1>3. \A q \in Passes : pc[q] \in Working => cmd[q] \in created
  BY DEF Sound, PassesSound
<1>4. created \subseteq created' /\ UNCHANGED <<pc, cmd, acks, expired>>
  BY DEF Enqueue, passVars
<1>5. \A d \in created : Retired(d) => Retired(d)'
  BY <1>2, <1>4 DEF Retired
<1>6. QED
  BY <1>2, <1>3, <1>4, <1>5, FencedKept DEF Working

\* A lease that runs out marks the pass that held it.
LEMMA TimerFenced ==
  ASSUME Sound, Fenced, NEW c \in Cmds,
         \/ LeaseExpires(c) \/ BackoffElapses(c)
         \/ RepairLeaseExpires(c) \/ RepairBackoffElapses(c)
  PROVE  Fenced'
<1>1. outbox[c] \in Row
  BY DEF Sound, TypeOK, DbTypeOK
<1>2. PICK r \in {[outbox[c] EXCEPT !.live = FALSE], [outbox[c] EXCEPT !.timer = "due"],
                  [outbox[c] EXCEPT !.rlive = FALSE], [outbox[c] EXCEPT !.rdue = TRUE]} :
        /\ outbox' = [outbox EXCEPT ![c] = r]
        /\ r = [outbox[c] EXCEPT !.live = FALSE] \/ r.live = outbox[c].live
  BY <1>1 DEF LeaseExpires, BackoffElapses, RepairLeaseExpires, RepairBackoffElapses, Row
<1>3. r.status = outbox[c].status /\ r.owner = outbox[c].owner
  BY <1>1, <1>2 DEF Row
<1>4. \A d \in Cmds : outbox'[d] = IF d = c THEN r ELSE outbox[d]
  BY <1>2 DEF Sound, TypeOK, DbTypeOK
<1>5. created' = created /\ UNCHANGED <<pc, cmd, acks>> /\ expired \subseteq expired'
  BY DEF LeaseExpires, BackoffElapses, RepairLeaseExpires, RepairBackoffElapses,
         envVars, passVars
<1>6. \A d \in created : Retired(d) => Retired(d)'
  BY <1>3, <1>4, <1>5 DEF Retired, Sound, TypeOK, EnvTypeOK
<1>7. ASSUME NEW q \in Passes, pc[q] \in SendPCs, q \notin expired'
      PROVE  outbox'[cmd[q]].owner = outbox[cmd[q]].owner
             /\ outbox'[cmd[q]].live = outbox[cmd[q]].live
  <2>1. q \notin expired /\ cmd[q] \in Cmds
    BY <1>5, <1>7, HeldIsSending
  <2>2. CASE cmd[q] # c
    BY <1>4, <2>1, <2>2
  <2>3. CASE cmd[q] = c
    <3>1. outbox[c].owner = q /\ outbox[c].live
      BY <1>7, <2>1, <2>3 DEF Fenced, AttemptsHold
    <3>2. ~LeaseExpires(c)
      BY <1>7, <2>3, <3>1 DEF LeaseExpires
    <3>3. outbox'[c].live = outbox[c].live
      BY <1>1, <3>2, <1>4, <1>2
      DEF BackoffElapses, RepairLeaseExpires, RepairBackoffElapses, Row, Sound, TypeOK,
          DbTypeOK
    <3>4. QED
      BY <1>3, <1>4, <2>3, <3>3
  <2>4. QED
    BY <2>2, <2>3
<1>8. QED
  BY <1>5, <1>6, <1>7, FencedKept

LEMMA CrashFenced ==
  ASSUME Sound, Fenced, NEW t \in Tabs, Crash(t)
  PROVE  Fenced'
<1>1. UNCHANGED <<outbox, created>>
  BY DEF Crash, TabDies, dbVars
<1>2. \A p \in Passes :
        \/ pc'[p] = "idle" /\ acks'[p] = {}
        \/ /\ pc'[p] = pc[p] /\ cmd'[p] = cmd[p] /\ acks'[p] = acks[p]
           /\ p \in expired => p \in expired'
  BY DEF Crash, TabDies
<1>3. QED
  BY <1>1, <1>2 DEF Fenced, AttemptsHold, ReplaysRetired, Retired, SendPCs, ReplayPCs

LEMMA SurroundingsFenced ==
  ASSUME Sound, Fenced, Surroundings
  PROVE  Fenced'
<1>1. ASSUME NEW c \in Cmds,
             \/ LeaseExpires(c) \/ BackoffElapses(c)
             \/ RepairLeaseExpires(c) \/ RepairBackoffElapses(c)
      PROVE  Fenced'
  BY <1>1, TimerFenced
<1>2. CASE \/ \E c \in Cmds : AcceptLate(c) \/ HistoryLands(c) \/ CommitLands(c)
           \/ \E t \in Tabs : ClearBuffer(t)
           \/ ClearMessages
  <2>1. UNCHANGED <<outbox, created, pc, cmd, acks, expired>>
    BY <1>2 DEF AcceptLate, HistoryLands, CommitLands, ClearBuffer, ClearMessages,
                dbVars, passVars, envVars
  <2>2. QED
    BY <2>1 DEF Fenced, AttemptsHold, ReplaysRetired, Retired
<1>3. QED
  BY <1>1, <1>2 DEF Surroundings

LEMMA NextFenced == Sound /\ Fenced /\ [Next]_vars => Fenced'
<1> SUFFICES ASSUME Sound, Fenced, [Next]_vars PROVE Fenced'
  OBVIOUS
<1>1. ASSUME NEW t \in Tabs, NEW c \in Cmds, Enqueue(t, c) PROVE Fenced'
  BY <1>1, EnqueueFenced
<1>2. ASSUME NEW p \in Passes, Pass(p) PROVE Fenced'
  <2>1. CASE \/ ClaimRepair(p) \/ ClaimSend(p) \/ RewriteRow(p)
             \/ Mend(p) \/ CommitAck(p) \/ Replay(p)
             \/ CommitUnmended(p) \/ CommitTransient(p)
             \/ CommitRejected(p) \/ CommitUncommitted(p)
    BY <2>1, ClaimRepairFenced, ClaimSendFenced, RewriteFenced, SettlesFenced,
       FencedWritesFenced
  <2>2. CASE \/ \E k \in {"flush", "recover"} : Start(p, k)
             \/ SkipRepair(p) \/ RepairHook(p) \/ MendFails(p)
             \/ ListDue(p) \/ Finish(p) \/ StorageFault(p)
             \/ StartReplay(p) \/ SkipRow(p)
             \/ AckThrows(p) \/ ReplayThrows(p) \/ RereadRow(p)
             \/ SendThrows(p) \/ Accept(p) \/ Refuse(p)
    BY <2>2, QuietStepsFenced
  <2>3. QED
    BY <1>2, <2>1, <2>2 DEF Pass
<1>3. ASSUME NEW t \in Tabs, Crash(t) PROVE Fenced'
  BY <1>3, CrashFenced
<1>4. CASE Surroundings
  BY <1>4, SurroundingsFenced
<1>5. CASE UNCHANGED vars
  BY <1>5 DEF vars, dbVars, passVars, envVars, Fenced, AttemptsHold, ReplaysRetired, Retired
<1>6. QED
  BY <1>1, <1>2, <1>3, <1>4, <1>5 DEF Next

LEMMA AlwaysFenced == Spec => []Fenced
<1>1. Sound /\ Fenced /\ [Next]_vars => Fenced'
  BY NextFenced
<1>2. QED
  BY <1>1, InitFenced, AlwaysSound, PTL DEF Spec

\* Two tabs, or two passes of one, never send one command under two running
\* leases: while an attempt has lost its row to another, its own lease had
\* run out before.
THEOREM LeaseHoldsTheRow == Spec => []StolenOnlyExpired
<1>1. Fenced => StolenOnlyExpired
  BY DEF Fenced, AttemptsHold, StolenOnlyExpired
<1>2. QED
  BY <1>1, AlwaysFenced, PTL

-----------------------------------------------------------------------------
(* Messages.                                                               *)

\* The message rows are untouched and no command with a pending one goes.
LEMMA MessagesKept ==
  ASSUME PendingHasCommand, OneRowPerMessage, UNCHANGED <<local, remote>>,
         \A c \in Cmds : outbox[c].status # "none" => outbox'[c].status # "none"
  PROVE  PendingHasCommand' /\ OneRowPerMessage'
  BY DEF PendingHasCommand, OneRowPerMessage

\* A command goes together with its message's turning `sent`.
LEMMA SettledMessages ==
  ASSUME Sound, PendingHasCommand, OneRowPerMessage, NEW t \in Tabs, NEW c \in Cmds,
         SettleRow(t, c)
  PROVE  PendingHasCommand' /\ OneRowPerMessage'
<1>1. \A d \in Cmds : /\ d # c => outbox'[d] = outbox[d] /\ local'[d] = local[d]
                      /\ local'[c] = "sent"
  BY DEF SettleRow, Sound, TypeOK, DbTypeOK
<1>2. remote' = remote \ {c}
  BY DEF SettleRow
<1>3. QED
  BY <1>1, <1>2 DEF PendingHasCommand, OneRowPerMessage

\* What a pass writes to the table leaves a row where there was one.
LEMMA PassKeepsRows ==
  ASSUME Sound, NEW p \in Passes,
         \/ ClaimRepair(p) \/ CommitUnmended(p) \/ ClaimSend(p)
         \/ CommitTransient(p) \/ CommitRejected(p)
         \/ CommitUncommitted(p) \/ RewriteRow(p)
  PROVE  /\ UNCHANGED <<local, remote>>
         /\ \A c \in Cmds : outbox[c].status # "none" => outbox'[c].status # "none"
<1>1. UNCHANGED <<local, remote>>
  BY DEF ClaimRepair, CommitUnmended, ClaimSend, CommitTransient, CommitRejected,
         CommitUncommitted, RewriteRow
<1>2. \A c \in Cmds : outbox[c] \in Row
  BY DEF Sound, TypeOK, DbTypeOK
<1>3. CASE ClaimRepair(p) \/ ClaimSend(p)
  <2>1. CASE ClaimRepair(p)
    <3>1. PICK c \in Cmds :
            outbox' = [outbox EXCEPT ![c] = [outbox[c] EXCEPT
                !.rtries = Capped(outbox[c].rtries, MaxRepairAttempts),
                !.rowner = p, !.rlive = TRUE]]
      BY <2>1 DEF ClaimRepair, Sound, TypeOK, PassTypeOK
    <3> DEFINE r == [outbox[c] EXCEPT
                !.rtries = Capped(outbox[c].rtries, MaxRepairAttempts),
                !.rowner = p, !.rlive = TRUE]
    <3>2. r.status = outbox[c].status
      BY <1>2 DEF Row
    <3>3. \A d \in Cmds : outbox'[d] = IF d = c THEN r ELSE outbox[d]
      BY <3>1 DEF Sound, TypeOK, DbTypeOK
    <3>4. QED
      BY <1>1, <3>2, <3>3
  <2>2. CASE ClaimSend(p)
    <3>1. PICK c \in Cmds :
            outbox' = [outbox EXCEPT ![c] = [outbox[c] EXCEPT
                !.status = "sending", !.owner = p, !.live = TRUE]]
      BY <2>2 DEF ClaimSend, Sound, TypeOK, PassTypeOK
    <3> DEFINE r == [outbox[c] EXCEPT
                !.status = "sending", !.owner = p, !.live = TRUE]
    <3>2. r.status = "sending"
      BY <1>2 DEF Row
    <3>3. \A d \in Cmds : outbox'[d] = IF d = c THEN r ELSE outbox[d]
      BY <3>1 DEF Sound, TypeOK, DbTypeOK
    <3>4. QED
      BY <1>1, <3>2, <3>3
  <2>3. QED
    BY <1>3, <2>1, <2>2
<1>4. CASE CommitUnmended(p)
  <2>1. cmd[p] \in Cmds
    BY <1>4 DEF CommitUnmended, Sound, TypeOK, PassTypeOK, Working, RepairPCs
  <2>2. CASE outbox[cmd[p]].rowner # p
    BY <1>1, <1>4, <2>2 DEF CommitUnmended
  <2>3. CASE outbox[cmd[p]].rowner = p
    <3>1. PICK r \in {[outbox[cmd[p]] EXCEPT !.status = "local_data_error",
                                            !.rlive = FALSE, !.rowner = None],
                      [outbox[cmd[p]] EXCEPT !.rdue = FALSE,
                                            !.rlive = FALSE, !.rowner = None]} :
            outbox' = [outbox EXCEPT ![cmd[p]] = r]
      BY <1>4, <2>3 DEF CommitUnmended
    <3>2. r.status \in {outbox[cmd[p]].status, "local_data_error"}
      BY <1>2, <2>1, <3>1 DEF Row
    <3>3. \A d \in Cmds : outbox'[d] = IF d = cmd[p] THEN r ELSE outbox[d]
      BY <3>1 DEF Sound, TypeOK, DbTypeOK
    <3>4. QED
      BY <1>1, <3>2, <3>3
  <2>4. QED
    BY <2>2, <2>3
<1>5. CASE CommitTransient(p) \/ CommitRejected(p) \/ CommitUncommitted(p) \/ RewriteRow(p)
  <2>1. cmd[p] \in Cmds /\ seen[p] \in Row
    BY <1>5 DEF CommitTransient, CommitRejected, CommitUncommitted, RewriteRow,
                Sound, TypeOK, PassTypeOK, Working, SendPCs, ReplayPCs
  <2>2. CASE outbox' = outbox
    BY <1>1, <2>2
  <2>3. CASE (CommitTransient(p) \/ CommitRejected(p)) /\ outbox[cmd[p]].owner = p
    <3>1. PICK n \in {Capped(tries[p], MaxAttempts)}, tm \in {"wait", "frozen"} :
            outbox' = [outbox EXCEPT ![cmd[p]] = [Unleased(outbox[cmd[p]]) EXCEPT
                         !.status = "failed", !.attempts = n, !.timer = tm]]
      BY <2>3 DEF CommitTransient, CommitRejected
    <3>2. outbox'[cmd[p]].status = "failed"
      BY <1>2, <2>1, <3>1 DEF Unleased, Row, Sound, TypeOK, DbTypeOK
    <3>3. \A d \in Cmds : d # cmd[p] => outbox'[d] = outbox[d]
      BY <3>1 DEF Sound, TypeOK, DbTypeOK
    <3>4. QED
      BY <1>1, <3>2, <3>3
  <2>4. CASE \/ CommitUncommitted(p) /\ outbox[cmd[p]].owner = p
             \/ RewriteRow(p)
    <3>1. PICK r \in {AckPending(r0) : r0 \in Row} \cup {Quarantined(r0) : r0 \in Row} :
            outbox' = [outbox EXCEPT ![cmd[p]] = r]
      <4>1. PICK r0 \in {outbox[cmd[p]], seen[p]} :
              \/ outbox' = [outbox EXCEPT ![cmd[p]] = AckPending(r0)]
              \/ outbox' = [outbox EXCEPT ![cmd[p]] = Quarantined(r0)]
        BY <2>4 DEF CommitUncommitted, RewriteRow
      <4>2. r0 \in Row
        BY <1>2, <2>1, <4>1
      <4>3. QED
        BY <4>1, <4>2
    <3>2. r.status # "none"
      BY <3>1 DEF AckPending, Quarantined, Unleased, Row
    <3>3. \A d \in Cmds : outbox'[d] = IF d = cmd[p] THEN r ELSE outbox[d]
      BY <3>1 DEF Sound, TypeOK, DbTypeOK
    <3>4. QED
      BY <1>1, <3>2, <3>3
  <2>5. QED
    BY <1>5, <2>2, <2>3, <2>4 DEF CommitTransient, CommitRejected, CommitUncommitted
<1>6. QED
  BY <1>3, <1>4, <1>5

LEMMA PassMessages ==
  ASSUME Sound, PendingHasCommand, OneRowPerMessage, NEW p \in Passes, Pass(p)
  PROVE  PendingHasCommand' /\ OneRowPerMessage'
<1>1. CASE Mend(p) \/ CommitAck(p) \/ Replay(p)
  <2>1. cmd[p] \in Cmds /\ TabOf[p] \in Tabs
    BY <1>1, OutboxAssumption
    DEF Mend, CommitAck, Replay, Sound, TypeOK, PassTypeOK, Working, SendPCs,
        RepairPCs, ReplayPCs
  <2>2. CASE SettleRow(TabOf[p], cmd[p])
    BY <2>1, <2>2, SettledMessages
  <2>3. CASE UNCHANGED <<dbVars, held, told>>
    BY <2>3, MessagesKept DEF dbVars
  <2>4. QED
    BY <1>1, <2>2, <2>3 DEF Mend, CommitAck, Replay
<1>2. CASE RepairHook(p)
  <2>1. outbox' = outbox /\ local' = local
    BY <1>2 DEF RepairHook
  <2>2. \A c \in remote' : c \in remote \/ local[c] # "sent"
    BY <1>2 DEF RepairHook
  <2>3. QED
    BY <2>1, <2>2 DEF PendingHasCommand, OneRowPerMessage
<1>3. CASE \/ ClaimRepair(p) \/ CommitUnmended(p) \/ ClaimSend(p)
           \/ CommitTransient(p) \/ CommitRejected(p)
           \/ CommitUncommitted(p) \/ RewriteRow(p)
  BY <1>3, PassKeepsRows, MessagesKept
<1>4. CASE \/ \E k \in {"flush", "recover"} : Start(p, k)
           \/ SkipRepair(p) \/ MendFails(p)
           \/ ListDue(p) \/ Finish(p) \/ StorageFault(p)
           \/ StartReplay(p) \/ SkipRow(p)
           \/ AckThrows(p) \/ ReplayThrows(p) \/ RereadRow(p)
           \/ SendThrows(p) \/ Accept(p) \/ Refuse(p)
  <2>1. UNCHANGED dbVars
    BY <1>4 DEF Start, SkipRepair, MendFails, ListDue, Finish, StorageFault, StartReplay,
                SkipRow, AckThrows, ReplayThrows, RereadRow, SendThrows, Accept, Refuse
  <2>2. QED
    BY <2>1, MessagesKept DEF dbVars
<1>5. QED
  BY <1>1, <1>2, <1>3, <1>4 DEF Pass

LEMMA SurroundingsMessages ==
  ASSUME Sound, PendingHasCommand, OneRowPerMessage, Surroundings
  PROVE  PendingHasCommand' /\ OneRowPerMessage'
<1>1. ASSUME NEW c \in Cmds,
             \/ LeaseExpires(c) \/ BackoffElapses(c)
             \/ RepairLeaseExpires(c) \/ RepairBackoffElapses(c)
      PROVE  PendingHasCommand' /\ OneRowPerMessage'
  <2>1. outbox[c] \in Row
    BY DEF Sound, TypeOK, DbTypeOK
  <2>2. PICK r \in {[outbox[c] EXCEPT !.live = FALSE], [outbox[c] EXCEPT !.timer = "due"],
                    [outbox[c] EXCEPT !.rlive = FALSE], [outbox[c] EXCEPT !.rdue = TRUE]} :
          outbox' = [outbox EXCEPT ![c] = r]
    BY <1>1 DEF LeaseExpires, BackoffElapses, RepairLeaseExpires, RepairBackoffElapses
  <2>3. r.status = outbox[c].status
    BY <2>1, <2>2 DEF Row
  <2>4. UNCHANGED <<local, remote>>
    BY <1>1 DEF LeaseExpires, BackoffElapses, RepairLeaseExpires, RepairBackoffElapses
  <2>5. QED
    BY <2>2, <2>3, <2>4, MessagesKept DEF Sound, TypeOK, DbTypeOK
<1>2. ASSUME NEW c \in Cmds, HistoryLands(c)
      PROVE  PendingHasCommand' /\ OneRowPerMessage'
  BY <1>2 DEF HistoryLands, PendingHasCommand, OneRowPerMessage
<1>3. ASSUME NEW c \in Cmds, CommitLands(c)
      PROVE  PendingHasCommand' /\ OneRowPerMessage'
  BY <1>3 DEF CommitLands, PendingHasCommand, OneRowPerMessage, Sound, TypeOK, DbTypeOK
<1>4. CASE ClearMessages
  BY <1>4 DEF ClearMessages, PendingHasCommand, OneRowPerMessage
<1>5. CASE \/ \E c \in Cmds : AcceptLate(c)
           \/ \E t \in Tabs : ClearBuffer(t)
  BY <1>5, MessagesKept DEF AcceptLate, ClearBuffer, dbVars
<1>6. QED
  BY <1>1, <1>2, <1>3, <1>4, <1>5 DEF Surroundings

LEMMA NextMessages ==
  Sound /\ PendingHasCommand /\ OneRowPerMessage /\ [Next]_vars
    => PendingHasCommand' /\ OneRowPerMessage'
<1> SUFFICES ASSUME Sound, PendingHasCommand, OneRowPerMessage, [Next]_vars
             PROVE  PendingHasCommand' /\ OneRowPerMessage'
  OBVIOUS
<1>1. ASSUME NEW t \in Tabs, NEW c \in Cmds, Enqueue(t, c)
      PROVE  PendingHasCommand' /\ OneRowPerMessage'
  <2>1. NewRow.status = "pending"
    BY DEF NewRow, NoRow
  <2>2. QED
    BY <1>1, <2>1 DEF Enqueue, PendingHasCommand, OneRowPerMessage, Sound, TypeOK, DbTypeOK
<1>2. ASSUME NEW t \in Tabs, Crash(t)
      PROVE  PendingHasCommand' /\ OneRowPerMessage'
  BY <1>2, MessagesKept DEF Crash, TabDies, dbVars
<1>3. CASE UNCHANGED vars
  BY <1>3, MessagesKept DEF vars, dbVars
<1>4. QED
  BY <1>1, <1>2, <1>3, PassMessages, SurroundingsMessages DEF Next

LEMMA AlwaysMessages == Spec => [](PendingHasCommand /\ OneRowPerMessage)
<1>1. Init => PendingHasCommand /\ OneRowPerMessage
  BY DEF Init, PendingHasCommand, OneRowPerMessage
<1>2. QED
  BY <1>1, NextMessages, AlwaysSound, PTL DEF Spec

\* A message shown as pending always has the command that will send it or
\* converge it, whichever tab wiped or merged what in between.
THEOREM PendingKeepsItsCommand == Spec => []PendingHasCommand
  BY AlwaysMessages, PTL

\* An acknowledged message has absorbed the copy known by server id only, by
\* whichever of ACK, commit, history and repair it was settled.
THEOREM MessagesAreSingle == Spec => []OneRowPerMessage
  BY AlwaysMessages, PTL

-----------------------------------------------------------------------------
(* The promise chain of a tab.                                             *)

Draining == SendPCs \cup ReplayPCs

\* `ord` numbers the flushes that took a place in the chain of their tab (0:
\* none) in the order they took it: whoever has a flush before it awaits one
\* that is no earlier, and inFlight names the last.
Ranked(ord) ==
    /\ \A p \in Passes : ord[p] > 0 =>
         /\ kind[p] = "flush" /\ pc[p] \in Draining \cup {"drain"}
         /\ inFlight[TabOf[p]] # None
         /\ ord[p] <= ord[inFlight[TabOf[p]]]
    /\ \A p \in Passes :
         kind[p] = "flush" /\ (pc[p] \in Draining \/ (pc[p] = "drain" /\ todo[p] # {}))
           => ord[p] > 0
    /\ \A p \in Passes : pc[p] \in Draining => prior[p] = None
    /\ \A p \in Passes : prior[p] # None =>
         /\ ord[prior[p]] > 0 /\ ord[prior[p]] < ord[p]
         /\ TabOf[prior[p]] = TabOf[p]
    /\ \A t \in Tabs : inFlight[t] # None =>
         ord[inFlight[t]] > 0 /\ TabOf[inFlight[t]] = t
    /\ \A p, q \in Passes :
         /\ p # q /\ TabOf[p] = TabOf[q]
         /\ ord[p] > 0 /\ ord[p] <= ord[q]
         => prior[q] # None /\ ord[p] <= ord[prior[q]]

Chained == \E ord \in [Passes -> Nat] : Ranked(ord)

LEMMA InitChained == Init => Chained
<1> SUFFICES ASSUME Init PROVE Chained
  OBVIOUS
<1>1. PICK ord \in [Passes -> Nat] : ord = [p \in Passes |-> 0]
  OBVIOUS
<1>2. Ranked(ord)
  BY <1>1 DEF Init, Ranked, Draining, SendPCs, ReplayPCs
<1>3. QED
  BY <1>2 DEF Chained

\* One pass moves and the chain is left alone.
LEMMA ChainKept ==
  ASSUME Sound, Chained, NEW p \in Passes, UNCHANGED lockVars, kind'[p] = kind[p],
         \A q \in Passes \ {p} : kind'[q] = kind[q] /\ pc'[q] = pc[q] /\ todo'[q] = todo[q],
         \/ /\ pc[p] \in Draining \cup {"drain"}
            /\ pc'[p] \in Draining => prior[p] = None /\ (pc[p] \in Draining \/ todo[p] # {})
            /\ pc'[p] \in Draining \cup {"drain"}
            /\ todo'[p] \subseteq todo[p]
         \/ /\ pc[p] \notin Draining \cup {"drain"}
            /\ pc'[p] \notin Draining \cup {"drain"}
  PROVE  Chained'
<1>1. PICK ord \in [Passes -> Nat] : Ranked(ord)
  BY DEF Chained
<1>2. \A q \in Passes : ord[q] > 0 =>
         /\ kind'[q] = "flush" /\ pc'[q] \in Draining \cup {"drain"}
         /\ inFlight[TabOf[q]] # None
         /\ ord[q] <= ord[inFlight[TabOf[q]]]
  BY <1>1 DEF Ranked
<1>3. \A q \in Passes :
         kind'[q] = "flush" /\ (pc'[q] \in Draining \/ (pc'[q] = "drain" /\ todo'[q] # {}))
           => ord[q] > 0
  <2>1. \A q \in Passes :
           kind[q] = "flush" /\ (pc[q] \in Draining \/ (pc[q] = "drain" /\ todo[q] # {}))
             => ord[q] > 0
    BY <1>1 DEF Ranked
  <2>2. TAKE q \in Passes
  <2>3. CASE q # p
    BY <2>1, <2>3
  <2>4. CASE q = p
    BY <2>1, <2>4
  <2>5. QED
    BY <2>3, <2>4
<1>4. \A q \in Passes : pc'[q] \in Draining => prior[q] = None
  <2>1. \A q \in Passes : pc[q] \in Draining => prior[q] = None
    BY <1>1 DEF Ranked
  <2>2. QED
    BY <2>1
<1>5. Ranked(ord)'
  BY <1>1, <1>2, <1>3, <1>4 DEF Ranked, lockVars
<1>6. QED
  BY <1>5 DEF Chained

\* Steps inside a pass that holds the channel, or that never asked for it.
LEMMA InsideChained ==
  ASSUME Sound, Chained, NEW p \in Passes,
         \/ \E k \in {"flush", "recover"} : Start(p, k)
         \/ ClaimRepair(p) \/ SkipRepair(p) \/ RepairHook(p)
         \/ Mend(p) \/ MendFails(p) \/ CommitUnmended(p)
         \/ StartReplay(p) \/ SkipRow(p) \/ ClaimSend(p)
         \/ SendThrows(p) \/ Accept(p) \/ Refuse(p)
         \/ CommitTransient(p) \/ CommitRejected(p)
         \/ CommitAck(p) \/ AckThrows(p) \/ CommitUncommitted(p)
         \/ Replay(p) \/ ReplayThrows(p) \/ RereadRow(p) \/ RewriteRow(p)
  PROVE  Chained'
<1> USE DEF Draining, SendPCs, ReplayPCs, RepairPCs
<1>1. CASE \E k \in {"flush", "recover"} : Start(p, k)
  <2>1. PICK ord \in [Passes -> Nat] : Ranked(ord)
    BY DEF Chained
  <2>2. pc'[p] = "repair" /\ pc[p] = "idle"
    BY <1>1 DEF Start, Goto, Sound, TypeOK, PassTypeOK
  <2>3. \A q \in Passes \ {p} : kind'[q] = kind[q] /\ pc'[q] = pc[q] /\ todo'[q] = todo[q]
    BY <1>1 DEF Start, Goto, Sound, TypeOK, PassTypeOK
  <2>4. UNCHANGED <<prior, inFlight>>
    BY <1>1 DEF Start, lockVars
  <2>5. Ranked(ord)'
    BY <2>1, <2>2, <2>3, <2>4 DEF Ranked
  <2>6. QED
    BY <2>5 DEF Chained
<1>2. CASE \/ ClaimRepair(p) \/ SkipRepair(p) \/ RepairHook(p) \/ MendFails(p)
  <2>1. /\ UNCHANGED <<lockVars, kind>>
        /\ \A q \in Passes \ {p} : pc'[q] = pc[q] /\ todo'[q] = todo[q]
        /\ pc[p] \notin Draining \cup {"drain"} /\ pc'[p] \notin Draining \cup {"drain"}
    BY <1>2 DEF ClaimRepair, SkipRepair, RepairHook, MendFails, Goto,
                Sound, TypeOK, PassTypeOK
  <2>2. QED
    BY <2>1, ChainKept
<1>3. CASE Mend(p) \/ CommitUnmended(p)
  <2>1. /\ UNCHANGED <<lockVars, kind, todo>>
        /\ \A q \in Passes \ {p} : pc'[q] = pc[q]
        /\ pc[p] \notin Draining \cup {"drain"} /\ pc'[p] = "repair"
    BY <1>3 DEF Mend, CommitUnmended, NextRow, LoopOf, Goto, Sound, TypeOK, PassTypeOK
  <2>2. QED
    BY <2>1, ChainKept
<1>4. CASE StartReplay(p) \/ SkipRow(p) \/ ClaimSend(p)
  <2>1. UNCHANGED <<lockVars, kind>> /\ pc[p] = "drain" /\ prior[p] = None
    BY <1>4 DEF StartReplay, SkipRow, ClaimSend
  <2>2. PICK c \in todo[p] : todo' = [todo EXCEPT ![p] = @ \ {c}]
    BY <1>4 DEF StartReplay, SkipRow, ClaimSend, Oldest
  <2>3. \E l \in {"drain", "replay", "sending"} : pc' = [pc EXCEPT ![p] = l]
    <3>1. SkipRow(p) => pc' = [pc EXCEPT ![p] = "drain"]
      BY <2>1 DEF SkipRow, Sound, TypeOK, PassTypeOK
    <3>2. QED
      BY <1>4, <3>1 DEF StartReplay, ClaimSend, Goto
  <2>4. /\ \A q \in Passes \ {p} : pc'[q] = pc[q] /\ todo'[q] = todo[q]
        /\ pc'[p] \in Draining \cup {"drain"} /\ todo'[p] \subseteq todo[p]
    BY <2>2, <2>3 DEF Sound, TypeOK, PassTypeOK
  <2>5. QED
    BY <2>1, <2>2, <2>4, ChainKept
<1>5. CASE \/ SendThrows(p) \/ Accept(p) \/ Refuse(p)
           \/ AckThrows(p) \/ ReplayThrows(p)
  <2>1. /\ UNCHANGED <<lockVars, kind, todo>>
        /\ \A q \in Passes \ {p} : pc'[q] = pc[q]
        /\ pc[p] \in Draining /\ pc'[p] \in Draining
    BY <1>5 DEF SendThrows, Accept, Refuse, AckThrows, ReplayThrows, Goto,
                Sound, TypeOK, PassTypeOK
  <2>2. prior[p] = None
    BY <2>1 DEF Chained, Ranked
  <2>3. QED
    BY <2>1, <2>2, ChainKept
<1>6. CASE \/ CommitTransient(p) \/ CommitRejected(p) \/ CommitAck(p)
           \/ CommitUncommitted(p) \/ Replay(p) \/ RereadRow(p) \/ RewriteRow(p)
  <2>1. /\ UNCHANGED <<lockVars, kind, todo>> /\ pc[p] \in Draining
    BY <1>6 DEF CommitTransient, CommitRejected, CommitAck, CommitUncommitted, Replay,
                RereadRow, RewriteRow, NextRow
  <2>2. /\ \A q \in Passes \ {p} : pc'[q] = pc[q]
        /\ pc'[p] \in {"drain", "rewrite_t", "rewrite_i"}
    BY <1>6, <2>1 DEF CommitTransient, CommitRejected, CommitAck, CommitUncommitted, Replay,
                RereadRow, RewriteRow, NextRow, LoopOf, Goto, Sound, TypeOK, PassTypeOK
  <2>3. prior[p] = None
    BY <2>1 DEF Chained, Ranked
  <2>4. QED
    BY <2>1, <2>2, <2>3, ChainKept
<1>7. QED
  BY <1>1, <1>2, <1>3, <1>4, <1>5, <1>6

\* A flush with rows to send takes the next number and awaits the last one.
LEMMA ListDueChained ==
  ASSUME Sound, Chained, NEW p \in Passes, ListDue(p)
  PROVE  Chained'
<1>1. PICK ord \in [Passes -> Nat] : Ranked(ord)
  BY DEF Chained
<1>2. /\ pc[p] = "repair" /\ pc' = [pc EXCEPT ![p] = "drain"]
      /\ kind' = kind
  BY DEF ListDue, Goto
<1>3. PICK batch :
        /\ todo' = [todo EXCEPT ![p] = batch]
        /\ IF kind[p] = "flush" /\ batch # {}
           THEN /\ prior' = [prior EXCEPT ![p] = inFlight[TabOf[p]]]
                /\ inFlight' = [inFlight EXCEPT ![TabOf[p]] = p]
           ELSE UNCHANGED lockVars
  BY DEF ListDue
<1>4. ord[p] = 0 /\ prior[p] = None
  <2>1. ord[p] = 0
    BY <1>1, <1>2 DEF Ranked, Draining, SendPCs, ReplayPCs
  <2>2. prior[p] \in Passes \cup {None}
    BY DEF Sound, TypeOK, LockTypeOK
  <2>3. prior[p] # None => ord[prior[p]] > 0 /\ ord[prior[p]] < ord[p]
    BY <1>1 DEF Ranked
  <2>4. QED
    BY <2>1, <2>2, <2>3
<1>5. TabOf[p] \in Tabs
  BY OutboxAssumption
<1>6. \A q \in Passes \ {p} : pc'[q] = pc[q] /\ todo'[q] = todo[q]
  BY <1>2, <1>3 DEF Sound, TypeOK, PassTypeOK
<1>7. pc'[p] = "drain" /\ todo'[p] = batch
  BY <1>2, <1>3 DEF Sound, TypeOK, PassTypeOK
<1>8. CASE ~(kind[p] = "flush" /\ batch # {})
  <2>1. UNCHANGED lockVars
    BY <1>3, <1>8
  <2>2. Ranked(ord)'
    BY <1>1, <1>2, <1>4, <1>6, <1>7, <1>8, <2>1
    DEF Ranked, lockVars, Draining, SendPCs, ReplayPCs
  <2>3. QED
    BY <2>2 DEF Chained
<1>9. CASE kind[p] = "flush" /\ batch # {}
  <2> DEFINE last == inFlight[TabOf[p]]
  <2>1. last \in Passes \cup {None} /\ p # None /\ None \notin Passes
    BY <1>5, OutboxAssumption DEF Sound, TypeOK, LockTypeOK
  <2>2. PICK n \in Nat : n = IF last = None THEN 1 ELSE ord[last] + 1
    BY <2>1
  <2>3. PICK o2 \in [Passes -> Nat] : o2 = [ord EXCEPT ![p] = n]
    BY <2>2
  <2>4. \A q \in Passes : o2[q] = IF q = p THEN n ELSE ord[q]
    BY <2>3
  <2>5. \A q \in Passes : prior'[q] = IF q = p THEN last ELSE prior[q]
    BY <1>3, <1>9 DEF Sound, TypeOK, LockTypeOK
  <2>6. \A t \in Tabs : inFlight'[t] = IF t = TabOf[p] THEN p ELSE inFlight[t]
    BY <1>3, <1>9, <1>5 DEF Sound, TypeOK, LockTypeOK
  <2>7. \A q \in Passes : ord[q] > 0 /\ TabOf[q] = TabOf[p] =>
           last # None /\ ord[q] <= ord[last] /\ ord[q] < n
    BY <1>1, <2>1, <2>2 DEF Ranked
  <2>8. n > 0
    BY <2>1, <2>2
  <2>9. last # None => last # p /\ last \in Passes /\ ord[last] > 0 /\ ord[last] < n
                       /\ TabOf[last] = TabOf[p]
    BY <1>1, <1>4, <1>5, <2>1, <2>2 DEF Ranked
  <2>10. \A q \in Passes : TabOf[q] \in Tabs
    BY OutboxAssumption
  <2>11. \A q \in Passes : o2[q] > 0 =>
         /\ kind[q] = "flush" /\ pc'[q] \in Draining \cup {"drain"}
         /\ inFlight'[TabOf[q]] # None
         /\ o2[q] <= o2[inFlight'[TabOf[q]]]
    <3>1. TAKE q \in Passes
    <3>2. CASE q = p
      BY <1>5, <1>7, <1>9, <2>1, <2>2, <2>4, <2>6, <3>2
    <3>3. CASE q # p /\ TabOf[q] = TabOf[p]
      BY <1>1, <1>6, <2>1, <2>2, <2>4, <2>6, <2>7, <2>10, <3>3 DEF Ranked
    <3>4. CASE q # p /\ TabOf[q] # TabOf[p]
      <4>1. SUFFICES ASSUME ord[q] > 0
                     PROVE  /\ inFlight[TabOf[q]] # p
                            /\ inFlight[TabOf[q]] \in Passes
        BY <1>1, <1>6, <2>4, <2>6, <2>10, <3>4 DEF Ranked
      <4>2. inFlight[TabOf[q]] \in Passes /\ TabOf[inFlight[TabOf[q]]] = TabOf[q]
        BY <1>1, <2>10, <4>1 DEF Ranked, Sound, TypeOK, LockTypeOK
      <4>3. QED
        BY <3>4, <4>2
    <3>5. QED
      BY <3>2, <3>3, <3>4
  <2>12. \A q \in Passes :
         kind[q] = "flush" /\ (pc'[q] \in Draining \/ (pc'[q] = "drain" /\ todo'[q] # {}))
           => o2[q] > 0
    BY <1>1, <1>6, <2>4, <2>8 DEF Ranked
  <2>13. \A q \in Passes : pc'[q] \in Draining => prior'[q] = None
    BY <1>1, <1>6, <1>7, <2>5 DEF Ranked, Draining, SendPCs, ReplayPCs
  <2>14. \A q \in Passes : prior'[q] # None =>
         /\ o2[prior'[q]] > 0 /\ o2[prior'[q]] < o2[q]
         /\ TabOf[prior'[q]] = TabOf[q]
    <3>1. TAKE q \in Passes
    <3>2. CASE q = p
      BY <2>4, <2>5, <2>9, <3>2
    <3>3. CASE q # p
      <4>1. SUFFICES ASSUME prior[q] # None
                     PROVE  prior[q] # p /\ prior[q] \in Passes
        BY <1>1, <2>4, <2>5, <3>3 DEF Ranked
      <4>2. ord[prior[q]] > 0
        BY <1>1, <4>1 DEF Ranked
      <4>3. QED
        BY <1>4, <4>1, <4>2 DEF Sound, TypeOK, LockTypeOK
    <3>4. QED
      BY <3>2, <3>3
  <2>15. \A t \in Tabs : inFlight'[t] # None =>
         o2[inFlight'[t]] > 0 /\ TabOf[inFlight'[t]] = t
    <3>1. TAKE t \in Tabs
    <3>2. CASE t = TabOf[p]
      BY <2>4, <2>6, <2>8, <3>2
    <3>3. CASE t # TabOf[p]
      BY <1>1, <2>4, <2>6, <2>8, <3>3 DEF Ranked, Sound, TypeOK, LockTypeOK
    <3>4. QED
      BY <3>2, <3>3
  <2>16. \A r, q \in Passes :
         /\ r # q /\ TabOf[r] = TabOf[q]
         /\ o2[r] > 0 /\ o2[r] <= o2[q]
         => prior'[q] # None /\ o2[r] <= o2[prior'[q]]
    <3>1. SUFFICES ASSUME NEW r \in Passes, NEW q \in Passes, r # q,
                          TabOf[r] = TabOf[q], o2[r] > 0, o2[r] <= o2[q]
                   PROVE  prior'[q] # None /\ o2[r] <= o2[prior'[q]]
      OBVIOUS
    <3>2. CASE q = p
      <4>1. ord[r] > 0 /\ o2[r] = ord[r]
        BY <2>4, <3>1, <3>2
      <4>2. last # None /\ ord[r] <= ord[last]
        BY <2>7, <3>1, <3>2, <4>1
      <4>3. QED
        BY <2>4, <2>5, <2>9, <3>2, <4>1, <4>2
    <3>3. CASE q # p /\ r = p
      <4>1. ord[q] > 0 /\ n <= ord[q]
        BY <2>4, <2>8, <3>1, <3>3
      <4>2. ord[q] < n
        BY <2>7, <3>1, <3>3, <4>1
      <4>3. QED
        BY <2>2, <4>1, <4>2
    <3>4. CASE q # p /\ r # p
      <4>1. prior[q] # None /\ ord[r] <= ord[prior[q]]
        BY <1>1, <2>4, <3>1, <3>4 DEF Ranked
      <4>2. prior[q] \in Passes /\ prior[q] # p
        BY <1>1, <1>4, <4>1 DEF Ranked, Sound, TypeOK, LockTypeOK
      <4>3. QED
        BY <2>4, <2>5, <3>4, <4>1, <4>2
    <3>5. QED
      BY <3>2, <3>3, <3>4
  <2>17. Ranked(o2)'
    BY <1>2, <2>11, <2>12, <2>13, <2>14, <2>15, <2>16 DEF Ranked
  <2>18. QED
    BY <2>17 DEF Chained
<1>10. QED
  BY <1>8, <1>9

\* The pass that awaits nobody leaves: who awaited it is the first now.
LEMMA LeavingChained ==
  ASSUME Sound, Chained, NEW p \in Passes, Finish(p) \/ StorageFault(p)
  PROVE  Chained'
<1>1. PICK ord \in [Passes -> Nat] : Ranked(ord)
  BY DEF Chained
<1>2. prior[p] = None /\ ResetPass(p) /\ Release(p)
  BY DEF Finish, StorageFault
<1>3. /\ \A q \in Passes \ {p} : pc'[q] = pc[q] /\ kind'[q] = kind[q] /\ todo'[q] = todo[q]
      /\ pc'[p] = "idle"
  BY <1>2 DEF ResetPass, Goto, Sound, TypeOK, PassTypeOK
<1>4. /\ \A q \in Passes : prior'[q] = IF prior[q] = p THEN None ELSE prior[q]
      /\ \A t \in Tabs : inFlight'[t] = IF inFlight[t] = p THEN None ELSE inFlight[t]
  BY <1>2 DEF Release
<1>5. PICK o2 \in [Passes -> Nat] : o2 = [ord EXCEPT ![p] = 0]
  OBVIOUS
<1>6. \A q \in Passes : o2[q] = IF q = p THEN 0 ELSE ord[q]
  BY <1>5
<1>7. p # None /\ \A q \in Passes : TabOf[q] \in Tabs
  BY OutboxAssumption
<1>8. /\ \A q \in Passes : prior[q] \in Passes \cup {None}
      /\ \A t \in Tabs : inFlight[t] \in Passes \cup {None}
  BY DEF Sound, TypeOK, LockTypeOK
<1>9. \A r \in Passes \ {p} : ord[r] > 0 /\ TabOf[r] = TabOf[p] => ~(ord[r] <= ord[p])
  BY <1>1, <1>2 DEF Ranked
<1>10. \A q \in Passes : o2[q] > 0 =>
         /\ kind'[q] = "flush" /\ pc'[q] \in Draining \cup {"drain"}
         /\ inFlight'[TabOf[q]] # None
         /\ o2[q] <= o2[inFlight'[TabOf[q]]]
  <2>1. SUFFICES ASSUME NEW q \in Passes, q # p, ord[q] > 0
                 PROVE  /\ kind[q] = "flush" /\ pc[q] \in Draining \cup {"drain"}
                        /\ inFlight'[TabOf[q]] # None
                        /\ ord[q] <= o2[inFlight'[TabOf[q]]]
    BY <1>3, <1>6
  <2>2. /\ kind[q] = "flush" /\ pc[q] \in Draining \cup {"drain"}
        /\ inFlight[TabOf[q]] # None
        /\ ord[q] <= ord[inFlight[TabOf[q]]]
    BY <1>1, <2>1 DEF Ranked
  <2>3. inFlight[TabOf[q]] # p
    <3>1. SUFFICES ASSUME inFlight[TabOf[q]] = p PROVE FALSE
      OBVIOUS
    <3>2. TabOf[p] = TabOf[q]
      BY <1>1, <1>7, <2>2, <3>1 DEF Ranked
    <3>3. QED
      BY <1>9, <2>1, <2>2, <3>1, <3>2
  <2>4. QED
    BY <1>4, <1>6, <1>7, <1>8, <2>2, <2>3
<1>11. \A q \in Passes :
         kind'[q] = "flush" /\ (pc'[q] \in Draining \/ (pc'[q] = "drain" /\ todo'[q] # {}))
           => o2[q] > 0
  BY <1>1, <1>3, <1>6 DEF Ranked, Draining, SendPCs, ReplayPCs
<1>12. \A q \in Passes : pc'[q] \in Draining => prior'[q] = None
  BY <1>1, <1>3, <1>4 DEF Ranked, Draining, SendPCs, ReplayPCs
<1>13. \A q \in Passes : prior'[q] # None =>
         /\ o2[prior'[q]] > 0 /\ o2[prior'[q]] < o2[q]
         /\ TabOf[prior'[q]] = TabOf[q]
  <2>1. SUFFICES ASSUME NEW q \in Passes, prior[q] # p, prior[q] # None
                 PROVE  /\ o2[prior[q]] > 0 /\ o2[prior[q]] < o2[q]
                        /\ TabOf[prior[q]] = TabOf[q]
    BY <1>4
  <2>2. q # p
    BY <1>2, <2>1
  <2>3. QED
    BY <1>1, <1>6, <1>8, <2>1, <2>2 DEF Ranked
<1>14. \A t \in Tabs : inFlight'[t] # None =>
         o2[inFlight'[t]] > 0 /\ TabOf[inFlight'[t]] = t
  BY <1>1, <1>4, <1>6, <1>8 DEF Ranked
<1>15. \A r, q \in Passes :
         /\ r # q /\ TabOf[r] = TabOf[q]
         /\ o2[r] > 0 /\ o2[r] <= o2[q]
         => prior'[q] # None /\ o2[r] <= o2[prior'[q]]
  <2>1. SUFFICES ASSUME NEW r \in Passes, NEW q \in Passes, r # q,
                        TabOf[r] = TabOf[q], o2[r] > 0, o2[r] <= o2[q]
                 PROVE  prior'[q] # None /\ o2[r] <= o2[prior'[q]]
    OBVIOUS
  <2>2. r # p /\ q # p
    BY <1>6, <2>1
  <2>3. prior[q] # None /\ ord[r] <= ord[prior[q]] /\ ord[r] > 0
    BY <1>1, <1>6, <2>1, <2>2 DEF Ranked
  <2>4. TabOf[prior[q]] = TabOf[q]
    BY <1>1, <2>3 DEF Ranked
  <2>5. prior[q] # p
    BY <1>9, <2>1, <2>2, <2>3, <2>4
  <2>6. QED
    BY <1>4, <1>6, <1>8, <2>2, <2>3, <2>5
<1>16. Ranked(o2)'
  BY <1>10, <1>11, <1>12, <1>13, <1>14, <1>15 DEF Ranked
<1>17. QED
  BY <1>16 DEF Chained

\* A tab's chain dies with the tab and touches no other.
LEMMA CrashChained ==
  ASSUME Sound, Chained, NEW t \in Tabs, Crash(t)
  PROVE  Chained'
<1>1. PICK ord \in [Passes -> Nat] : Ranked(ord)
  BY DEF Chained
<1>2. PICK o2 \in [Passes -> Nat] :
        o2 = [p \in Passes |-> IF TabOf[p] = t THEN 0 ELSE ord[p]]
  OBVIOUS
<1>3. \A p \in Passes : o2[p] = IF TabOf[p] = t THEN 0 ELSE ord[p]
  BY <1>2
<1>4. /\ \A p \in Passes : pc'[p] = IF TabOf[p] = t THEN "idle" ELSE pc[p]
      /\ \A p \in Passes : kind'[p] = IF TabOf[p] = t THEN "flush" ELSE kind[p]
      /\ \A p \in Passes : todo'[p] = IF TabOf[p] = t THEN {} ELSE todo[p]
      /\ \A p \in Passes : prior'[p] = IF TabOf[p] = t THEN None ELSE prior[p]
  BY DEF Crash, TabDies
<1>5. \A s \in Tabs : inFlight'[s] = IF s = t THEN None ELSE inFlight[s]
  BY DEF Crash, TabDies, Sound, TypeOK, LockTypeOK
<1>6. \A p \in Passes : TabOf[p] \in Tabs
  BY OutboxAssumption
<1>7. /\ \A p \in Passes : prior[p] # None => prior[p] \in Passes
      /\ \A s \in Tabs : inFlight[s] # None => inFlight[s] \in Passes
  BY DEF Sound, TypeOK, LockTypeOK
<1>8. \A p \in Passes : o2[p] > 0 =>
         /\ kind'[p] = "flush" /\ pc'[p] \in Draining \cup {"drain"}
         /\ inFlight'[TabOf[p]] # None
         /\ o2[p] <= o2[inFlight'[TabOf[p]]]
  BY <1>1, <1>3, <1>4, <1>5, <1>6, <1>7 DEF Ranked
<1>9. \A p \in Passes :
         kind'[p] = "flush" /\ (pc'[p] \in Draining \/ (pc'[p] = "drain" /\ todo'[p] # {}))
           => o2[p] > 0
  BY <1>1, <1>3, <1>4 DEF Ranked, Draining, SendPCs, ReplayPCs
<1>10. \A p \in Passes : pc'[p] \in Draining => prior'[p] = None
  BY <1>1, <1>4 DEF Ranked
<1>11. \A p \in Passes : prior'[p] # None =>
         /\ o2[prior'[p]] > 0 /\ o2[prior'[p]] < o2[p]
         /\ TabOf[prior'[p]] = TabOf[p]
  BY <1>1, <1>3, <1>4, <1>7 DEF Ranked
<1>12. \A s \in Tabs : inFlight'[s] # None =>
         o2[inFlight'[s]] > 0 /\ TabOf[inFlight'[s]] = s
  BY <1>1, <1>3, <1>5, <1>7 DEF Ranked
<1>13. \A p, q \in Passes :
         /\ p # q /\ TabOf[p] = TabOf[q]
         /\ o2[p] > 0 /\ o2[p] <= o2[q]
         => prior'[q] # None /\ o2[p] <= o2[prior'[q]]
  <2>1. SUFFICES ASSUME NEW p \in Passes, NEW q \in Passes, p # q,
                        TabOf[p] = TabOf[q], o2[p] > 0, o2[p] <= o2[q]
                 PROVE  prior'[q] # None /\ o2[p] <= o2[prior'[q]]
    OBVIOUS
  <2>2. TabOf[p] # t /\ o2[p] = ord[p] /\ o2[q] = ord[q]
    BY <1>3, <2>1
  <2>3. prior[q] # None /\ ord[p] <= ord[prior[q]]
    BY <1>1, <2>1, <2>2 DEF Ranked
  <2>4. TabOf[prior[q]] = TabOf[q] /\ prior[q] \in Passes
    BY <1>1, <1>7, <2>3 DEF Ranked
  <2>5. QED
    BY <1>3, <1>4, <2>1, <2>2, <2>3, <2>4
<1>14. Ranked(o2)'
  BY <1>8, <1>9, <1>10, <1>11, <1>12, <1>13 DEF Ranked
<1>15. QED
  BY <1>14 DEF Chained

LEMMA NextChained == Sound /\ Chained /\ [Next]_vars => Chained'
<1> SUFFICES ASSUME Sound, Chained, [Next]_vars PROVE Chained'
  OBVIOUS
<1>1. ASSUME NEW p \in Passes, Pass(p) PROVE Chained'
  BY <1>1, InsideChained, ListDueChained, LeavingChained DEF Pass
<1>2. ASSUME NEW t \in Tabs, Crash(t) PROVE Chained'
  BY <1>2, CrashChained
<1>3. CASE \/ \E t \in Tabs, c \in Cmds : Enqueue(t, c)
           \/ Surroundings
           \/ UNCHANGED vars
  <2>1. UNCHANGED <<pc, kind, todo, prior, inFlight>>
    BY <1>3 DEF Enqueue, Surroundings, LeaseExpires, BackoffElapses, RepairLeaseExpires,
                RepairBackoffElapses, AcceptLate, HistoryLands, CommitLands, ClearBuffer,
                ClearMessages, vars, passVars, lockVars
  <2>2. QED
    BY <2>1 DEF Chained, Ranked
<1>4. QED
  BY <1>1, <1>2, <1>3 DEF Next

LEMMA AlwaysChained == Spec => []Chained
<1>1. Sound /\ Chained /\ [Next]_vars => Chained'
  BY NextChained
<1>2. QED
  BY <1>1, InitChained, AlwaysSound, PTL DEF Spec

\* The promise chain of a tab is a mutex for any number of overlapping
\* flushes, finished, failed or killed in any order: two flushes of one tab
\* never work on rows of the channel at the same time.
THEOREM ChainIsMutex == Spec => []ChannelMutex
<1>1. Sound /\ Chained => ChannelMutex
  <2>1. SUFFICES ASSUME Sound, Chained, NEW p \in Passes, NEW q \in Passes,
                        p # q, TabOf[p] = TabOf[q],
                        pc[p] \in Draining, kind[p] = "flush",
                        pc[q] \in Draining, kind[q] = "flush"
                 PROVE  FALSE
    BY DEF ChannelMutex, Draining
  <2>2. PICK ord \in [Passes -> Nat] : Ranked(ord)
    BY <2>1 DEF Chained
  <2>3. ord[p] > 0 /\ ord[q] > 0 /\ prior[p] = None /\ prior[q] = None
    BY <2>1, <2>2 DEF Ranked
  <2>4. ~(ord[p] <= ord[q]) /\ ~(ord[q] <= ord[p])
    BY <2>1, <2>2, <2>3 DEF Ranked
  <2>5. QED
    BY <2>2, <2>4
<1>2. QED
  BY <1>1, AlwaysChained, AlwaysSound, PTL

=============================================================================
