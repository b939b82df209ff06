-------------------------- MODULE OutboxClientProofs --------------------------
(***************************************************************************)
(* The client's calls beside the engine take no lease: they void what the  *)
(* engine alone keeps about leases and stored ACKs (Sound).  What is left  *)
(* is enough: for any number of calls, passes and tabs no command is lost, *)
(* and calls and engine together implement CommandQueue.                   *)
(***************************************************************************)
EXTENDS OutboxClient, OutboxEngineProofs

\* A row that exists was enqueued, and one that carries an ACK, or waits for a
\* replay or a repair, was accepted; retryOutboxEntry may make it `pending`.
ClientRow(c, r) ==
    /\ r.status # "none" => c \in created
    /\ r.acked \/ r.status \in {"ack_pending", "integrity_error"} => c \in server

ClientRows == \A c \in Cmds : ClientRow(c, outbox[c])

\* What a call remembers stays true whatever passes and other calls do.
CallsSound ==
    \A o \in Ops :
        /\ IF at[o] = "idle" THEN read[o] = NoRow ELSE target[o] \in created
        /\ at[o] = "acked" => target[o] \in server
        /\ read[o].acked => target[o] \in server

Ledger ==
    /\ server \subseteq created /\ net \subseteq created
    /\ discarded \subseteq created
    /\ told \subseteq server
    /\ \A c \in created : outbox[c].status = "none" => c \in server \cup discarded

ClientSound ==
    /\ TypeOK /\ ClientTypeOK
    /\ ClientRows /\ PassesSound /\ CallsSound /\ Ledger

-----------------------------------------------------------------------------
(* What the steps share.                                                   *)

\* All that a step after the enqueue does to the table: one sound row is
\* written, and deleted only when delivered or dropped.
TableStep ==
    \/ UNCHANGED outbox
    \/ \E c \in Cmds : \E r :
         /\ outbox' = [outbox EXCEPT ![c] = r]
         /\ ClientRow(c, r)
         /\ r.status = "none" =>
              outbox[c].status = "none" \/ c \in server \cup discarded'

LEMMA NoRowSound == ASSUME NEW c PROVE ClientRow(c, NoRow)
  BY DEF ClientRow, NoRow

LEMMA TableStepSound ==
  ASSUME TypeOK, ClientRows, Ledger, TableStep, UNCHANGED created,
         server \subseteq server', server' \subseteq created,
         discarded \subseteq discarded', discarded' \subseteq created,
         net' \subseteq created, told' \subseteq server'
  PROVE  ClientRows' /\ Ledger'
<1>1. created \subseteq Cmds
  BY DEF TypeOK, EnvTypeOK
<1>2. CASE UNCHANGED outbox
  BY <1>2 DEF ClientRows, ClientRow, Ledger
<1>3. CASE ~ UNCHANGED outbox
  <2>1. PICK c \in Cmds : \E r :
          /\ outbox' = [outbox EXCEPT ![c] = r]
          /\ ClientRow(c, r)
          /\ r.status = "none" =>
               outbox[c].status = "none" \/ c \in server \cup discarded'
    BY <1>3 DEF TableStep
  <2>2. PICK r : /\ outbox' = [outbox EXCEPT ![c] = r]
                 /\ ClientRow(c, r)
                 /\ r.status = "none" =>
                      outbox[c].status = "none" \/ c \in server \cup discarded'
    BY <2>1
  <2>3. \A d \in Cmds : outbox'[d] = IF d = c THEN r ELSE outbox[d]
    BY <1>1, <2>2 DEF TypeOK, DbTypeOK
  <2>4. ClientRows'
    BY <2>2, <2>3 DEF ClientRows, ClientRow
  <2>5. Ledger'
    BY <1>1, <2>2, <2>3 DEF Ledger
  <2>6. QED
    BY <2>4, <2>5
<1>4. QED
  BY <1>2, <1>3

-----------------------------------------------------------------------------
(* The passes.                                                             *)

\* What a pass remembers stays true although calls write behind its back.
LEMMA PassRemembers ==
  ASSUME ClientSound, NEW p \in Passes, Pass(p),
         server \subseteq server', created \subseteq created'
  PROVE  PassesSound'
<1> USE DEF ClientSound
<1>1. CASE \/ \E k \in {"flush", "recover"} : Start(p, k)
  BY <1>1
  DEF Start, Goto, TypeOK, PassTypeOK, PassesSound,
      Working, HoldsAck, SendPCs, ReplayPCs, RepairPCs
<1>2. CASE SkipRepair(p) \/ SkipRow(p)
  BY <1>2, PassesKept DEF SkipRepair, SkipRow
<1>3. CASE Finish(p) \/ StorageFault(p) \/ CommitUnmended(p) \/ Mend(p)
           \/ CommitTransient(p) \/ CommitRejected(p) \/ CommitAck(p)
           \/ CommitUncommitted(p) \/ Replay(p) \/ RewriteRow(p)
  BY <1>3, RowDone
  DEF Finish, StorageFault, CommitUnmended, Mend, CommitTransient, CommitRejected,
      CommitAck, CommitUncommitted, Replay, RewriteRow
<1>4. CASE \/ RepairHook(p) \/ MendFails(p) \/ AckThrows(p) \/ ReplayThrows(p)
           \/ Refuse(p) \/ SendThrows(p) \/ Accept(p)
  <2>1. PICK l : /\ Goto(p, l)
                 /\ l \in HoldsAck => pc[p] \in HoldsAck \/ cmd[p] \in server'
    <3>1. CASE RepairHook(p) \/ MendFails(p) \/ AckThrows(p) \/ ReplayThrows(p)
      BY <3>1 DEF RepairHook, MendFails, AckThrows, ReplayThrows, HoldsAck,
                  ReplayPCs, RepairPCs
    <3>2. CASE Refuse(p) \/ SendThrows(p) \/ Accept(p)
      BY <3>2 DEF Refuse, SendThrows, Accept, ServerAccepts, HoldsAck,
                  ReplayPCs, RepairPCs
    <3>3. QED
      BY <1>4, <3>1, <3>2
  <2>2. pc[p] \in Working /\ UNCHANGED <<cmd, acks>>
    BY <1>4
    DEF RepairHook, MendFails, AckThrows, ReplayThrows, Refuse, SendThrows, Accept,
        Working, SendPCs, ReplayPCs, RepairPCs
  <2>3. QED
    BY <2>1, <2>2, PassMoves
<1>5. CASE RereadRow(p)
  <2>1. CASE NextRow(p)
    BY <2>1, RowDone
  <2>2. CASE ~NextRow(p)
    <3>1. PICK l \in {"rewrite_t", "rewrite_i"} : Goto(p, l)
      BY <1>5, <2>2 DEF RereadRow
    <3>2. pc[p] \in Working /\ pc[p] \in HoldsAck /\ UNCHANGED <<cmd, acks>>
      BY <1>5, <2>2 DEF RereadRow, Working, HoldsAck, ReplayPCs
    <3>3. QED
      BY <3>1, <3>2, PassMoves
  <2>3. QED
    BY <2>1, <2>2
<1>6. CASE ListDue(p)
  <2>1. PICK batch : acks' = [acks EXCEPT ![p] =
                       batch \cap {c \in {d \in Cmds : Due(outbox[d])} :
                                     outbox[c].status = "ack_pending"}]
    BY <1>6 DEF ListDue
  <2>2. \A c \in Cmds : outbox[c].status = "ack_pending" => c \in server
    BY DEF ClientRows, ClientRow
  <2>3. acks'[p] \subseteq server
    BY <2>1, <2>2 DEF TypeOK, PassTypeOK
  <2>4. QED
    BY <1>6, <2>1, <2>3
    DEF ListDue, Goto, TypeOK, PassTypeOK, PassesSound,
        Working, HoldsAck, SendPCs, ReplayPCs, RepairPCs
<1>7. CASE StartReplay(p)
  <2>1. PICK c \in acks[p] : /\ cmd' = [cmd EXCEPT ![p] = c]
                             /\ acks' = [acks EXCEPT ![p] = @ \ {c}]
    BY <1>7 DEF StartReplay
  <2>2. c \in server /\ c \in created
    BY <2>1 DEF PassesSound, Ledger
  <2>3. QED
    BY <1>7, <2>1, <2>2 DEF StartReplay, Goto, TypeOK, PassTypeOK, PassesSound
<1>8. CASE ClaimRepair(p)
  <2>1. PICK c \in todo[p] : /\ outbox[c].status = "integrity_error"
                             /\ cmd' = [cmd EXCEPT ![p] = c]
    BY <1>8 DEF ClaimRepair, RepairClaimable
  <2>2. c \in server /\ c \in created
    BY <2>1 DEF ClientRows, ClientRow, TypeOK, PassTypeOK
  <2>3. QED
    BY <1>8, <2>1, <2>2 DEF ClaimRepair, Goto, TypeOK, PassTypeOK, PassesSound
<1>9. CASE ClaimSend(p)
  <2>1. PICK c \in todo[p] : /\ Claimable(outbox[c])
                             /\ cmd' = [cmd EXCEPT ![p] = c]
    BY <1>9 DEF ClaimSend
  <2>2. c \in created
    BY <2>1 DEF Claimable, ClientRows, ClientRow, TypeOK, PassTypeOK
  <2>3. QED
    BY <1>9, <2>1, <2>2
    DEF ClaimSend, Goto, TypeOK, PassTypeOK, PassesSound, HoldsAck, ReplayPCs, RepairPCs
<1>10. QED
  BY <1>1, <1>2, <1>3, <1>4, <1>5, <1>6, <1>7, <1>8, <1>9 DEF Pass

LEMMA PassTable ==
  ASSUME ClientSound, NEW p \in Passes, Pass(p), UNCHANGED discarded
  PROVE  TableStep
<1> USE DEF ClientSound
<1> DEFINE c == cmd[p]
<1>1. CASE \/ \E k \in {"flush", "recover"} : Start(p, k)
           \/ SkipRepair(p) \/ RepairHook(p) \/ MendFails(p)
           \/ ListDue(p) \/ Finish(p) \/ StorageFault(p)
           \/ StartReplay(p) \/ SkipRow(p) \/ SendThrows(p) \/ Accept(p)
           \/ AckThrows(p) \/ ReplayThrows(p) \/ RereadRow(p) \/ Refuse(p)
  BY <1>1
  DEF Start, SkipRepair, RepairHook, MendFails, ListDue, Finish, StorageFault,
      StartReplay, SkipRow, SendThrows, Accept, AckThrows, ReplayThrows, RereadRow,
      Refuse, dbVars, TableStep
<1>2. CASE ClaimRepair(p) \/ ClaimSend(p)
  <2>1. PICK d \in todo[p] : \E r :
          /\ outbox' = [outbox EXCEPT ![d] = r]
          /\ r.status # "none" /\ outbox[d].status # "none"
          /\ r.acked = outbox[d].acked
          /\ r.status = "sending" \/ r.status = outbox[d].status
    <3>1. CASE ClaimRepair(p)
      <4>1. PICK d \in todo[p] :
              /\ RepairClaimable(outbox[d])
              /\ outbox' = [outbox EXCEPT ![d] = [outbox[d] EXCEPT
                     !.rtries = Capped(outbox[d].rtries, MaxRepairAttempts),
                     !.rowner = p, !.rlive = TRUE]]
        BY <3>1 DEF ClaimRepair
      <4>2. outbox[d] \in Row
        BY DEF TypeOK, PassTypeOK, DbTypeOK
      <4> DEFINE r == [outbox[d] EXCEPT
                         !.rtries = Capped(outbox[d].rtries, MaxRepairAttempts),
                         !.rowner = p, !.rlive = TRUE]
      <4>3. r.status = outbox[d].status /\ r.acked = outbox[d].acked
        BY <4>2 DEF Row
      <4>4. outbox[d].status = "integrity_error"
        BY <4>1 DEF RepairClaimable
      <4> HIDE DEF r
      <4>5. QED
        BY <4>1, <4>3, <4>4 DEF r
    <3>2. CASE ClaimSend(p)
      <4>1. PICK d \in todo[p] :
              /\ Claimable(outbox[d])
              /\ outbox' = [outbox EXCEPT ![d] = [outbox[d] EXCEPT
                     !.status = "sending", !.owner = p, !.live = TRUE]]
        BY <3>2 DEF ClaimSend
      <4>2. outbox[d] \in Row
        BY DEF TypeOK, PassTypeOK, DbTypeOK
      <4> DEFINE r == [outbox[d] EXCEPT !.status = "sending", !.owner = p, !.live = TRUE]
      <4>3. r.status = "sending" /\ r.acked = outbox[d].acked
        BY <4>2 DEF Row
      <4>4. outbox[d].status # "none"
        BY <4>1 DEF Claimable
      <4> HIDE DEF r
      <4>5. QED
        BY <4>1, <4>3, <4>4 DEF r
    <3>3. QED
      BY <1>2, <3>1, <3>2
  <2>2. d \in Cmds /\ ClientRow(d, outbox[d])
    BY DEF TypeOK, PassTypeOK, ClientRows
  <2>3. d \in created
    BY <2>1, <2>2 DEF ClientRow
  <2>4. PICK r :
          /\ outbox' = [outbox EXCEPT ![d] = r]
          /\ r.status # "none"
          /\ r.acked = outbox[d].acked
          /\ r.status = "sending" \/ r.status = outbox[d].status
    BY <2>1
  <2>5. ClientRow(d, r)
    BY <2>2, <2>3, <2>4 DEF ClientRow
  <2>6. QED
    BY <2>2, <2>4, <2>5 DEF TableStep
<1>3. CASE Mend(p) \/ CommitAck(p) \/ Replay(p)
  <2>1. c \in server /\ c \in Cmds
    BY <1>3 DEF Mend, CommitAck, Replay, PassesSound, HoldsAck, ReplayPCs, RepairPCs,
                TypeOK, EnvTypeOK
  <2>2. UNCHANGED outbox \/ outbox' = [outbox EXCEPT ![c] = NoRow]
    BY <1>3 DEF Mend, CommitAck, Replay, SettleRow, dbVars
  <2>3. QED
    BY <2>1, <2>2, NoRowSound DEF TableStep
<1>4. CASE CommitUnmended(p) \/ CommitUncommitted(p) \/ RewriteRow(p)
  <2>1. c \in server /\ c \in created /\ c \in Cmds
    BY <1>4 DEF CommitUnmended, CommitUncommitted, RewriteRow, PassesSound, Ledger,
                HoldsAck, ReplayPCs, RepairPCs, TypeOK, EnvTypeOK
  <2>2. UNCHANGED outbox \/ \E r : outbox' = [outbox EXCEPT ![c] = r]
    BY <1>4 DEF CommitUnmended, CommitUncommitted, RewriteRow
  <2>3. \A r : ClientRow(c, r)
    BY <2>1 DEF ClientRow
  <2>4. QED
    BY <2>1, <2>2, <2>3 DEF TableStep
<1>5. CASE CommitTransient(p) \/ CommitRejected(p)
  <2>1. c \in created /\ c \in Cmds /\ outbox[c] \in Row /\ ClientRow(c, outbox[c])
    BY <1>5 DEF CommitTransient, CommitRejected, PassesSound, Working, SendPCs,
                TypeOK, EnvTypeOK, DbTypeOK, ClientRows
  <2>2. UNCHANGED outbox \/
        \E n, tm : outbox' = [outbox EXCEPT ![c] = [Unleased(outbox[c]) EXCEPT
                                !.status = "failed", !.attempts = n, !.timer = tm]]
    BY <1>5 DEF CommitTransient, CommitRejected
  <2>3. CASE UNCHANGED outbox
    BY <2>3 DEF TableStep
  <2>4. CASE ~ UNCHANGED outbox
    <3>1. PICK n, tm :
            outbox' = [outbox EXCEPT ![c] = [Unleased(outbox[c]) EXCEPT
                         !.status = "failed", !.attempts = n, !.timer = tm]]
      BY <2>2, <2>4
    <3> DEFINE r == [Unleased(outbox[c]) EXCEPT
                       !.status = "failed", !.attempts = n, !.timer = tm]
    <3>2. r.status = "failed" /\ r.acked = outbox[c].acked
      BY <2>1 DEF Unleased, Row
    <3> HIDE DEF r
    <3>3. ClientRow(c, r)
      BY <2>1, <3>2 DEF ClientRow
    <3>4. outbox' = [outbox EXCEPT ![c] = r]
      BY <3>1 DEF r
    <3>5. QED
      BY <2>1, <3>2, <3>3, <3>4 DEF TableStep
  <2>5. QED
    BY <2>3, <2>4
<1>6. QED
  BY <1>1, <1>2, <1>3, <1>4, <1>5 DEF Pass

\* The server's side of a pass.
LEMMA PassLedger ==
  ASSUME ClientSound, NEW p \in Passes, Pass(p)
  PROVE  /\ UNCHANGED created
         /\ server \subseteq server' /\ server' \subseteq created
         /\ net' \subseteq created /\ told' \subseteq server'
         /\ \/ UNCHANGED server
            \/ UNCHANGED outbox /\ \E c \in created : ServerAccepts(c)
<1> USE DEF ClientSound
<1>1. CASE Mend(p) \/ CommitAck(p) \/ Replay(p)
  <2>1. cmd[p] \in server
    BY <1>1 DEF Mend, CommitAck, Replay, PassesSound, HoldsAck, ReplayPCs, RepairPCs
  <2>2. QED
    BY <1>1, <2>1 DEF Mend, CommitAck, Replay, SettleRow, Ledger, dbVars
<1>2. CASE SendThrows(p) \/ Accept(p)
  <2>1. cmd[p] \in created
    BY <1>2 DEF SendThrows, Accept, PassesSound, Working, SendPCs
  <2>2. QED
    BY <1>2, <2>1 DEF SendThrows, Accept, ServerAccepts, Ledger, dbVars
<1>3. CASE ~(Mend(p) \/ CommitAck(p) \/ Replay(p) \/ SendThrows(p) \/ Accept(p))
  <2>1. UNCHANGED <<created, server, net, told>>
    <3>1. CASE \/ \E k \in {"flush", "recover"} : Start(p, k)
               \/ ClaimRepair(p) \/ SkipRepair(p) \/ RepairHook(p) \/ MendFails(p)
               \/ CommitUnmended(p) \/ ListDue(p) \/ Finish(p) \/ StorageFault(p)
      BY <3>1 DEF Start, ClaimRepair, SkipRepair, RepairHook, MendFails,
                  CommitUnmended, ListDue, Finish, StorageFault, envVars
    <3>2. CASE \/ StartReplay(p) \/ SkipRow(p) \/ ClaimSend(p) \/ Refuse(p)
               \/ CommitTransient(p) \/ CommitRejected(p) \/ AckThrows(p)
               \/ CommitUncommitted(p) \/ ReplayThrows(p) \/ RereadRow(p)
               \/ RewriteRow(p)
      BY <3>2 DEF StartReplay, SkipRow, ClaimSend, Refuse, CommitTransient,
                  CommitRejected, AckThrows, CommitUncommitted, ReplayThrows,
                  RereadRow, RewriteRow, envVars
    <3>3. QED
      BY <1>3, <3>1, <3>2 DEF Pass
  <2>2. QED
    BY <2>1 DEF Ledger
<1>4. QED
  BY <1>1, <1>2, <1>3

-----------------------------------------------------------------------------
(* The calls.                                                              *)

LEMMA CallsKept ==
  ASSUME ClientTypeOK, CallsSound, UNCHANGED opVars,
         server \subseteq server', created \subseteq created'
  PROVE  ClientTypeOK' /\ CallsSound'
  BY DEF ClientTypeOK, CallsSound, opVars

LEMMA CallBegins ==
  ASSUME ClientTypeOK, CallsSound, NEW o \in Ops, NEW c \in Cmds, NEW l \in Ats,
         Begin(o, c, l), l \notin {"idle", "acked"}, c \in created', NEW r \in Row,
         r.acked => c \in server, UNCHANGED <<server, discarded>>,
         created \subseteq created',
         read' \in {read, [read EXCEPT ![o] = r]}
  PROVE  ClientTypeOK' /\ CallsSound'
<1>1. ClientTypeOK'
  BY DEF Begin, ClientTypeOK
<1>2. \A q \in Ops :
        /\ q # o => at'[q] = at[q] /\ target'[q] = target[q] /\ read'[q] = read[q]
        /\ q = o => at'[q] = l /\ target'[q] = c
  BY DEF Begin, ClientTypeOK
<1>3. read'[o].acked => c \in server
  BY DEF Begin, ClientTypeOK, CallsSound, NoRow
<1>4. CallsSound'
  BY <1>2, <1>3 DEF CallsSound
<1>5. QED
  BY <1>1, <1>4

LEMMA CallMoves ==
  ASSUME ClientTypeOK, CallsSound, NEW o \in Ops, NEW l \in Ats,
         Step(o, at[o], l), at[o] # "idle", l # "idle",
         l = "acked" => target[o] \in server',
         NEW r \in Row, r.acked => target[o] \in server',
         read' = [read EXCEPT ![o] = r] \/ UNCHANGED read,
         server \subseteq server', UNCHANGED created, discarded' \subseteq Cmds
  PROVE  ClientTypeOK' /\ CallsSound'
<1>1. ClientTypeOK'
  BY DEF Step, ClientTypeOK
<1>2. \A q \in Ops :
        /\ target'[q] = target[q]
        /\ q # o => at'[q] = at[q] /\ read'[q] = read[q]
        /\ q = o => at'[q] = l /\ (read'[q] = r \/ read'[q] = read[q])
  BY DEF Step, ClientTypeOK
<1>3. CallsSound'
  BY <1>2 DEF CallsSound
<1>4. QED
  BY <1>1, <1>3

LEMMA CallReturns ==
  ASSUME ClientTypeOK, CallsSound, NEW o \in Ops, Return(o),
         UNCHANGED <<server, created, discarded>>
  PROVE  ClientTypeOK' /\ CallsSound'
<1>1. ClientTypeOK'
  BY NoRowType DEF Return, ClientTypeOK, Ats
<1>2. \A q \in Ops :
        \/ at'[q] = at[q] /\ target'[q] = target[q] /\ read'[q] = read[q]
        \/ at'[q] = "idle" /\ read'[q] = NoRow
  BY DEF Return, ClientTypeOK
<1>3. ~NoRow.acked
  BY DEF NoRow
<1>4. CallsSound'
  BY <1>2, <1>3 DEF CallsSound
<1>5. QED
  BY <1>1, <1>4

\* A row of the queue is rewritten by a call that has read it.
LEMMA CallWrites ==
  ASSUME TypeOK, NEW c \in Cmds, NEW r \in Row, outbox' = [outbox EXCEPT ![c] = r],
         UNCHANGED <<local, remote, passVars, lockVars, envVars>>
  PROVE  TypeOK'
<1>1. DbTypeOK'
  BY RowWrite DEF TypeOK
<1>2. QED
  BY <1>1, UnchangedKeepsType DEF TypeOK

\* The row a call writes, and the one it has read.
LEMMA TargetRow ==
  ASSUME ClientSound, NEW o \in Ops, at[o] # "idle"
  PROVE  /\ target[o] \in created /\ target[o] \in Cmds
         /\ outbox[target[o]] \in Row /\ read[o] \in Row
         /\ ClientRow(target[o], outbox[target[o]])
<1>1. target[o] \in created /\ read[o] \in Row
  BY DEF ClientSound, CallsSound, ClientTypeOK
<1>2. target[o] \in Cmds
  BY <1>1 DEF ClientSound, TypeOK, EnvTypeOK
<1>3. QED
  BY <1>1, <1>2 DEF ClientSound, TypeOK, DbTypeOK, ClientRows

\* A settled call: the row is gone and the server has the message.
LEMMA CommitSound ==
  ASSUME ClientSound, NEW o \in Ops, InlineCommit(o)
  PROVE  /\ TypeOK' /\ ClientTypeOK' /\ CallsSound' /\ PassesSound'
         /\ TableStep
         /\ UNCHANGED <<created, server, net, discarded>> /\ told' \subseteq server'
<1>1. target[o] \in created /\ target[o] \in Cmds /\ target[o] \in server
  BY TargetRow DEF InlineCommit, ClientSound, CallsSound
<1>2. TypeOK'
  <2>1. OpTab[o] \in Tabs
    BY OpAssumption
  <2>2. UNCHANGED <<passVars, lockVars, net, server, created>>
    BY DEF InlineCommit
  <2>3. DbTypeOK' /\ EnvTypeOK'
    BY <1>1, <2>1, <2>2, SettleRowKeepsType DEF InlineCommit, ClientSound, TypeOK
  <2>4. QED
    BY <2>2, <2>3, UnchangedKeepsType DEF ClientSound, TypeOK
<1>3. ClientTypeOK' /\ CallsSound'
  BY CallReturns DEF InlineCommit, ClientSound
<1>4. PassesSound'
  BY PassesKept DEF InlineCommit, passVars, ClientSound
<1>5. TableStep
  BY <1>1, NoRowSound DEF InlineCommit, SettleRow, TableStep
<1>6. told' \subseteq server'
  BY <1>1 DEF InlineCommit, SettleRow, ClientSound, Ledger
<1>7. QED
  BY <1>2, <1>3, <1>4, <1>5, <1>6 DEF InlineCommit

\* A put of a row that was read before: stale as it may be, it deletes nothing
\* and carries an ACK only of a message the server has.
LEMMA PutSound ==
  ASSUME ClientSound, NEW o \in Ops, MarkWrite(o) \/ RetryWrite(o)
  PROVE  /\ TypeOK' /\ ClientTypeOK' /\ CallsSound' /\ PassesSound'
         /\ TableStep
         /\ UNCHANGED <<created, server, net, told, discarded>>
<1> DEFINE c == target[o]
<1>1. /\ c \in created /\ c \in Cmds /\ read[o] \in Row
      /\ read[o].acked => c \in server
  BY TargetRow DEF MarkWrite, RetryWrite, ClientSound, CallsSound
<1>2. PICK r \in Row : /\ outbox' = [outbox EXCEPT ![c] = r]
                       /\ r.status \in {"failed", "pending"}
                       /\ r.acked = read[o].acked
  <2>1. CASE MarkWrite(o)
    <3> DEFINE r == [read[o] EXCEPT !.status = "failed", !.attempts = 1]
    <3>1. outbox' = [outbox EXCEPT ![c] = r]
      BY <2>1 DEF MarkWrite
    <3>2. 1 \in 0..MaxAttempts
      BY OutboxAssumption
    <3>3. r \in Row /\ r.status = "failed" /\ r.acked = read[o].acked
      BY <1>1, <3>2 DEF Row, Statuses
    <3>4. QED
      BY <3>1, <3>3
  <2>2. CASE RetryWrite(o)
    <3> DEFINE r == [read[o] EXCEPT !.status = "pending", !.attempts = 0, !.timer = "due"]
    <3>1. outbox' = [outbox EXCEPT ![c] = r]
      BY <2>2 DEF RetryWrite
    <3>2. 0 \in 0..MaxAttempts
      BY OutboxAssumption
    <3>3. r \in Row /\ r.status = "pending" /\ r.acked = read[o].acked
      BY <1>1, <3>2 DEF Row, Statuses
    <3>4. QED
      BY <3>1, <3>3
  <2>3. QED
    BY <2>1, <2>2
<1>3. ClientRow(c, r) /\ r.status # "none"
  BY <1>1, <1>2 DEF ClientRow
<1>4. UNCHANGED <<local, remote, passVars, lockVars, envVars, discarded>> /\ Return(o)
  BY DEF MarkWrite, RetryWrite
<1>5. TypeOK'
  BY <1>1, <1>2, <1>4, CallWrites DEF ClientSound
<1>6. UNCHANGED <<created, server, net, told>>
  BY <1>4 DEF envVars
<1>7. ClientTypeOK' /\ CallsSound'
  BY <1>4, <1>6, CallReturns DEF ClientSound
<1>8. PassesSound'
  BY <1>4, <1>6, PassesKept DEF passVars, ClientSound
<1>9. TableStep
  BY <1>1, <1>2, <1>3 DEF TableStep
<1>10. QED
  BY <1>4, <1>5, <1>6, <1>7, <1>8, <1>9

\* The user's drop.
LEMMA DropSound ==
  ASSUME ClientSound, NEW o \in Ops, DiscardRow(o)
  PROVE  /\ TypeOK' /\ ClientTypeOK' /\ CallsSound' /\ PassesSound'
         /\ TableStep
         /\ UNCHANGED <<created, server, net, told>>
         /\ discarded' = discarded \cup {target[o]} /\ target[o] \in created
<1>1. target[o] \in created /\ target[o] \in Cmds /\ read[o] \in Row
  BY TargetRow DEF DiscardRow, Step
<1>2. /\ outbox' = [outbox EXCEPT ![target[o]] = NoRow]
      /\ discarded' = discarded \cup {target[o]}
      /\ UNCHANGED <<local, remote, passVars, lockVars, envVars, read>>
      /\ at[o] = "dropping" /\ Step(o, at[o], "forgetting")
  BY DEF DiscardRow, Step
<1>3. TypeOK'
  BY <1>1, <1>2, NoRowType, CallWrites DEF ClientSound
<1>4. UNCHANGED <<created, server, net, told>>
  BY <1>2 DEF envVars
<1>5. "forgetting" \in Ats /\ discarded' \subseteq Cmds
  BY <1>1, <1>2 DEF Ats, ClientSound, ClientTypeOK
<1>6. read[o].acked => target[o] \in server
  BY DEF ClientSound, CallsSound
<1>7. ClientTypeOK' /\ CallsSound'
  BY <1>1, <1>2, <1>4, <1>5, <1>6, CallMoves DEF ClientSound
<1>8. PassesSound'
  BY <1>2, <1>4, PassesKept DEF passVars, ClientSound
<1>9. TableStep
  BY <1>1, <1>2, NoRowSound DEF TableStep
<1>10. QED
  BY <1>1, <1>2, <1>3, <1>4, <1>7, <1>8, <1>9

\* The steps of a call that leave the table alone.
LEMMA AnswerSound ==
  ASSUME ClientSound, NEW o \in Ops,
         InlineAccepted(o) \/ InlineRefused(o) \/ InlineThrows(o)
  PROVE  /\ TypeOK' /\ ClientTypeOK' /\ CallsSound' /\ PassesSound'
         /\ UNCHANGED <<outbox, created, told, discarded>>
         /\ \/ UNCHANGED server
            \/ target[o] \in created /\ ServerAccepts(target[o])
         /\ server \subseteq server' /\ server' \subseteq created
         /\ net' \subseteq created /\ told' \subseteq server'
<1>1. /\ at[o] = "sending" /\ target[o] \in created /\ target[o] \in Cmds
      /\ read[o] \in Row /\ (read[o].acked => target[o] \in server)
  BY TargetRow
  DEF InlineAccepted, InlineRefused, InlineThrows, Step, ClientSound, CallsSound
<1>2. UNCHANGED <<dbVars, passVars, lockVars, held, created, told, read, discarded>>
  BY DEF InlineAccepted, InlineRefused, InlineThrows, vars, envVars
<1>3. \/ UNCHANGED <<server, net>>
      \/ ServerAccepts(target[o])
      \/ UNCHANGED server /\ net' = net \cup ({target[o]} \ server)
  BY DEF InlineAccepted, InlineRefused, InlineThrows, vars, envVars
<1>4. /\ server \subseteq server' /\ server' \subseteq created
      /\ net' \subseteq created /\ told' \subseteq server'
  BY <1>1, <1>2, <1>3 DEF ServerAccepts, ClientSound, Ledger
<1>5. TypeOK'
  <2>1. EnvTypeOK'
    BY <1>2, <1>4 DEF ClientSound, TypeOK, EnvTypeOK
  <2>2. QED
    BY <1>2, <2>1, UnchangedKeepsType DEF ClientSound, TypeOK
<1>6. ClientTypeOK' /\ CallsSound'
  <2>1. PICK l \in {"acked", "failing", "refusing"} :
          Step(o, at[o], l) /\ (l = "acked" => target[o] \in server')
    BY <1>1 DEF InlineAccepted, InlineRefused, InlineThrows, ServerAccepts
  <2>2. l \in Ats /\ discarded' \subseteq Cmds
    BY <1>2 DEF Ats, AwaitsWire, ClientSound, ClientTypeOK
  <2>3. QED
    BY <1>1, <1>2, <1>4, <2>1, <2>2, CallMoves DEF ClientSound
<1>7. PassesSound'
  BY <1>2, <1>4, PassesKept DEF passVars, ClientSound
<1>8. QED
  BY <1>1, <1>2, <1>3, <1>4, <1>5, <1>6, <1>7 DEF dbVars

LEMMA QuietCallSound ==
  ASSUME ClientSound, NEW o \in Ops,
         InlineCommitFails(o) \/ MarkRead(o) \/ DiscardMessage(o)
  PROVE  /\ TypeOK' /\ ClientTypeOK' /\ CallsSound' /\ PassesSound'
         /\ UNCHANGED <<outbox, created, server, net, told, discarded>>
<1>1. UNCHANGED <<outbox, remote, passVars, lockVars, net, server, created, told,
                  discarded>>
  BY DEF InlineCommitFails, MarkRead, DiscardMessage, vars, dbVars, envVars
<1>2. TypeOK'
  <2>1. OpTab[o] \in Tabs
    BY OpAssumption
  <2>2. DbTypeOK' /\ EnvTypeOK'
    BY <1>1, <2>1
    DEF InlineCommitFails, MarkRead, DiscardMessage, vars, dbVars, envVars,
        ClientSound, TypeOK, DbTypeOK, EnvTypeOK
  <2>3. QED
    BY <1>1, <2>2, UnchangedKeepsType DEF ClientSound, TypeOK
<1>3. ClientTypeOK' /\ CallsSound'
  <2>1. CASE Return(o)
    BY <1>1, <2>1, CallReturns DEF ClientSound
  <2>2. CASE ~Return(o)
    <3>1. PICK l \in {"marking", "barring"} :
            Step(o, at[o], l) /\ read' = [read EXCEPT ![o] = outbox[target[o]]]
      BY <2>2 DEF InlineCommitFails, MarkRead, DiscardMessage
    <3>2. at[o] # "idle"
      BY <2>2 DEF InlineCommitFails, MarkRead, DiscardMessage
    <3>3. /\ outbox[target[o]] \in Row
          /\ outbox[target[o]].acked => target[o] \in server
      BY <3>2, TargetRow DEF ClientRow
    <3>4. l \in Ats /\ discarded' \subseteq Cmds
      BY <1>1 DEF Ats, ClientSound, ClientTypeOK
    <3>5. QED
      BY <1>1, <3>1, <3>2, <3>3, <3>4, CallMoves DEF ClientSound
  <2>3. QED
    BY <2>1, <2>2
<1>4. PassesSound'
  BY <1>1, PassesKept DEF passVars, ClientSound
<1>5. QED
  BY <1>1, <1>2, <1>3, <1>4

\* A call on a queued row begins.
LEMMA CallOnRowSound ==
  ASSUME ClientSound, NEW o \in Ops, NEW c \in Cmds, RetryRead(o, c) \/ DiscardRead(o, c)
  PROVE  /\ TypeOK' /\ ClientTypeOK' /\ CallsSound' /\ PassesSound'
         /\ UNCHANGED <<outbox, created, server, net, told, discarded>>
<1>1. UNCHANGED <<vars, discarded>>
  BY DEF RetryRead, DiscardRead
<1>2. UNCHANGED <<outbox, created, server, net, told, pc, cmd, acks>>
  BY <1>1 DEF vars, dbVars, passVars, envVars
<1>3. TypeOK'
  BY <1>1, UnchangedKeepsType DEF vars, ClientSound, TypeOK
<1>4. /\ outbox[c] \in Row /\ (outbox[c].acked => c \in server)
      /\ c \in created
  BY DEF RetryRead, DiscardRead, ClientSound, ClientRows, ClientRow, TypeOK, DbTypeOK
<1>5. PICK l \in {"rearming", "dropping"} :
        /\ Begin(o, c, l)
        /\ read' \in {read, [read EXCEPT ![o] = outbox[c]]}
  BY DEF RetryRead, DiscardRead
<1>6. l \in Ats
  BY DEF Ats
<1>7. ClientTypeOK' /\ CallsSound'
  BY <1>1, <1>2, <1>4, <1>5, <1>6, CallBegins DEF ClientSound
<1>8. PassesSound'
  BY <1>2, PassesKept DEF ClientSound
<1>9. QED
  BY <1>1, <1>2, <1>3, <1>7, <1>8

\* createLocalMessageQueued, with or without an inline attempt.
LEMMA SendSound ==
  ASSUME ClientSound, NEW o \in Ops, NEW c \in Cmds, SendOffline(o, c) \/ SendInline(o, c)
  PROVE  ClientSound'
<1>1. OpTab[o] \in Tabs
  BY OpAssumption
<1>2. Enqueue(OpTab[o], c) /\ UNCHANGED discarded
  BY DEF SendOffline, SendInline, opVars
<1>3. TypeOK'
  BY <1>1, <1>2, EnqueueType DEF ClientSound
<1>4. \A d \in Cmds : outbox'[d] = IF d = c THEN NewRow ELSE outbox[d]
  BY <1>2 DEF Enqueue, ClientSound, TypeOK, DbTypeOK
<1>5. /\ created' = created \cup {c}
      /\ UNCHANGED <<server, net, told, pc, cmd, acks>>
  BY <1>2 DEF Enqueue, passVars
<1>6. NewRow.status = "pending" /\ ~NewRow.acked
  BY DEF NewRow, NoRow
<1>7. ClientRows'
  BY <1>4, <1>5, <1>6 DEF ClientSound, ClientRows, ClientRow
<1>8. Ledger'
  BY <1>2, <1>4, <1>5, <1>6 DEF ClientSound, Ledger, TypeOK, EnvTypeOK
<1>9. PassesSound'
  BY <1>5, PassesKept DEF ClientSound
<1>10. ClientTypeOK' /\ CallsSound'
  <2>1. CASE SendOffline(o, c)
    BY <1>5, <2>1, CallsKept DEF SendOffline, ClientSound
  <2>2. CASE SendInline(o, c)
    <3>1. /\ Begin(o, c, "sending") /\ "sending" \in Ats
          /\ NoRow \in Row /\ ~NoRow.acked /\ read' \in {read, [read EXCEPT ![o] = NoRow]}
      BY <2>2, NoRowType DEF SendInline, Ats, AwaitsWire, NoRow
    <3>2. QED
      BY <1>2, <1>5, <3>1, CallBegins DEF ClientSound
  <2>3. QED
    BY <2>1, <2>2
<1>11. QED
  BY <1>3, <1>7, <1>8, <1>9, <1>10 DEF ClientSound

-----------------------------------------------------------------------------
(* What happens around calls and passes.                                   *)

LEMMA TimerTable ==
  ASSUME ClientSound, NEW c \in Cmds,
         \/ LeaseExpires(c) \/ BackoffElapses(c)
         \/ RepairLeaseExpires(c) \/ RepairBackoffElapses(c)
  PROVE  TableStep
<1>1. outbox[c] \in Row /\ ClientRow(c, outbox[c])
  BY DEF ClientSound, ClientRows, TypeOK, DbTypeOK
<1>2. PICK r \in {[outbox[c] EXCEPT !.live = FALSE], [outbox[c] EXCEPT !.timer = "due"],
                  [outbox[c] EXCEPT !.rlive = FALSE], [outbox[c] EXCEPT !.rdue = TRUE]} :
        outbox' = [outbox EXCEPT ![c] = r]
  BY DEF LeaseExpires, BackoffElapses, RepairLeaseExpires, RepairBackoffElapses
<1>3. r.status = outbox[c].status /\ r.acked = outbox[c].acked
  BY <1>1, <1>2 DEF Row
<1>4. ClientRow(c, r)
  BY <1>1, <1>3 DEF ClientRow
<1>5. QED
  BY <1>2, <1>3, <1>4 DEF TableStep

LEMMA AroundSound ==
  ASSUME ClientSound, Surroundings
  PROVE  /\ PassesSound'
         /\ TableStep
         /\ \/ UNCHANGED server
            \/ UNCHANGED outbox /\ \E c \in created : ServerAccepts(c)
         /\ UNCHANGED created
         /\ server \subseteq server' /\ server' \subseteq created
         /\ net' \subseteq created /\ told' \subseteq server'
<1> USE DEF ClientSound
<1>1. ASSUME NEW c \in Cmds, AcceptLate(c)
      PROVE  /\ TableStep /\ UNCHANGED <<outbox, created, told, pc, cmd, acks>>
             /\ c \in created /\ ServerAccepts(c)
             /\ server \subseteq server' /\ server' \subseteq created
             /\ net' \subseteq created
  BY <1>1 DEF AcceptLate, ServerAccepts, dbVars, passVars, Ledger, TableStep
<1>2. ASSUME NEW c \in Cmds,
             \/ LeaseExpires(c) \/ BackoffElapses(c)
             \/ RepairLeaseExpires(c) \/ RepairBackoffElapses(c)
      PROVE  TableStep /\ UNCHANGED <<created, server, net, told, pc, cmd, acks>>
  BY <1>2, TimerTable
  DEF LeaseExpires, BackoffElapses, RepairLeaseExpires, RepairBackoffElapses, envVars,
      passVars
<1>3. ASSUME \/ \E c \in Cmds : HistoryLands(c) \/ CommitLands(c)
             \/ \E t \in Tabs : ClearBuffer(t)
             \/ ClearMessages
      PROVE  TableStep /\ UNCHANGED <<created, server, net, told, pc, cmd, acks>>
  BY <1>3 DEF HistoryLands, CommitLands, ClearBuffer, ClearMessages, dbVars, passVars,
              envVars, TableStep
<1>4. CASE \E c \in Cmds : AcceptLate(c)
  <2>1. /\ UNCHANGED <<created, told, pc, cmd, acks>> /\ server \subseteq server'
        /\ told' \subseteq server'
    BY <1>1, <1>4 DEF Ledger
  <2>2. QED
    BY <1>1, <1>4, <2>1, PassesKept
<1>5. CASE ~ \E c \in Cmds : AcceptLate(c)
  <2>1. TableStep /\ UNCHANGED <<created, server, net, told, pc, cmd, acks>>
    BY <1>2, <1>3, <1>5 DEF Surroundings
  <2>2. PassesSound'
    BY <2>1, PassesKept
  <2>3. QED
    BY <2>1, <2>2 DEF Ledger
<1>6. QED
  BY <1>4, <1>5

LEMMA ClientCrashSound ==
  ASSUME ClientSound, NEW t \in Tabs, ClientCrash(t)
  PROVE  /\ TypeOK' /\ ClientTypeOK' /\ CallsSound' /\ PassesSound'
         /\ UNCHANGED <<outbox, created, server, told, discarded>>
         /\ net' \subseteq created
<1> USE DEF ClientSound
<1>1. PICK more \in SUBSET created : TabDies(t, more)
  <2> DEFINE more == {target[o] : o \in {q \in {x \in Ops : OpTab[x] = t} :
                                           at[q] = "sending"}}
  <2>1. more \subseteq created
    BY DEF CallsSound
  <2>2. TabDies(t, more)
    BY DEF ClientCrash
  <2>3. QED
    BY <2>1, <2>2
<1>2. TypeOK'
  <2>1. more \in SUBSET Cmds
    BY DEF TypeOK, EnvTypeOK
  <2>2. QED
    BY <1>1, <2>1, TabDiesType
<1>3. UNCHANGED <<outbox, created, server, told, discarded>>
  BY <1>1 DEF TabDies, dbVars, ClientCrash
<1>4. net' \subseteq created
  BY <1>1 DEF TabDies, Ledger, PassesSound, Working, SendPCs
<1>5. PassesSound'
  <2>1. \A p \in Passes :
          \/ pc'[p] = "idle" /\ acks'[p] = {}
          \/ pc'[p] = pc[p] /\ cmd'[p] = cmd[p] /\ acks'[p] = acks[p]
    BY <1>1 DEF TabDies
  <2>2. QED
    BY <1>3, <2>1
    DEF PassesSound, Working, HoldsAck, SendPCs, ReplayPCs, RepairPCs
<1>6. ClientTypeOK'
  BY <1>3, NoRowType DEF ClientCrash, ClientTypeOK, Ats
<1>7. CallsSound'
  <2>1. \A o \in Ops :
          \/ at'[o] = at[o] /\ target'[o] = target[o] /\ read'[o] = read[o]
          \/ at'[o] = "idle" /\ read'[o] = NoRow
    BY DEF ClientCrash
  <2>2. ~NoRow.acked
    BY DEF NoRow
  <2>3. QED
    BY <1>3, <2>1, <2>2 DEF CallsSound
<1>8. QED
  BY <1>2, <1>3, <1>4, <1>5, <1>6, <1>7

-----------------------------------------------------------------------------
(* The invariant.                                                          *)

\* What every step but an enqueue does.
Mundane ==
    /\ TypeOK' /\ ClientTypeOK' /\ CallsSound' /\ PassesSound' /\ TableStep
    /\ UNCHANGED created
    /\ server \subseteq server' /\ server' \subseteq created
    /\ net' \subseteq created /\ told' \subseteq server'
    /\ \/ UNCHANGED <<server, discarded>>
       \/ UNCHANGED <<outbox, discarded>> /\ \E c \in created : ServerAccepts(c)
       \/ /\ UNCHANGED server
          /\ \E c \in created : /\ discarded' = discarded \cup {c}
                                /\ outbox' = [outbox EXCEPT ![c] = NoRow]

LEMMA StepIsMundane ==
  ASSUME ClientSound, [ClientNext]_clientVars,
         ~ \E o \in Ops, c \in Cmds : SendOffline(o, c) \/ SendInline(o, c)
  PROVE  Mundane
<1>1. told \subseteq server /\ server \subseteq created /\ net \subseteq created
  BY DEF ClientSound, Ledger
<1>2. ASSUME NEW o \in Ops, NEW c \in Cmds, RetryRead(o, c) \/ DiscardRead(o, c)
      PROVE  Mundane
  BY <1>1, <1>2, CallOnRowSound DEF Mundane, TableStep
<1>3. ASSUME NEW o \in Ops, Resume(o) PROVE Mundane
  <2>1. CASE InlineAccepted(o) \/ InlineRefused(o) \/ InlineThrows(o)
    BY <2>1, AnswerSound DEF Mundane, TableStep
  <2>2. CASE InlineCommit(o)
    BY <1>1, <2>2, CommitSound DEF Mundane
  <2>3. CASE MarkWrite(o) \/ RetryWrite(o)
    BY <1>1, <2>3, PutSound DEF Mundane
  <2>4. CASE DiscardRow(o)
    BY <1>1, <2>4, DropSound DEF Mundane, DiscardRow
  <2>5. CASE InlineCommitFails(o) \/ MarkRead(o) \/ DiscardMessage(o)
    BY <1>1, <2>5, QuietCallSound DEF Mundane, TableStep
  <2>6. QED
    BY <1>3, <2>1, <2>2, <2>3, <2>4, <2>5 DEF Resume
<1>4. ASSUME NEW p \in Passes, Pass(p), UNCHANGED opVars PROVE Mundane
  <2>1. TypeOK'
    BY <1>4, PassType DEF ClientSound
  <2>2. UNCHANGED <<created, discarded>> /\ server \subseteq server'
    BY <1>4, PassLedger DEF opVars
  <2>3. ClientTypeOK' /\ CallsSound' /\ PassesSound' /\ TableStep
    BY <1>4, <2>2, CallsKept, PassRemembers, PassTable DEF ClientSound
  <2>4. QED
    BY <1>4, <2>1, <2>2, <2>3, PassLedger DEF Mundane
<1>5. ASSUME NEW t \in Tabs, ClientCrash(t) PROVE Mundane
  BY <1>1, <1>5, ClientCrashSound DEF Mundane, TableStep
<1>6. ASSUME Surroundings, UNCHANGED opVars PROVE Mundane
  <2>1. TypeOK'
    BY <1>6, SurroundingsType DEF ClientSound
  <2>2. UNCHANGED <<created, discarded>> /\ server \subseteq server'
    BY <1>6, AroundSound DEF opVars
  <2>3. ClientTypeOK' /\ CallsSound'
    BY <1>6, <2>2, CallsKept DEF ClientSound
  <2>4. QED
    BY <1>6, <2>1, <2>2, <2>3, AroundSound DEF Mundane
<1>7. CASE UNCHANGED clientVars
  <2>1. /\ UNCHANGED <<outbox, created, server, net, told, pc, cmd, acks, discarded>>
        /\ UNCHANGED opVars /\ UNCHANGED vars
    BY <1>7 DEF clientVars, vars, opVars, dbVars, passVars, envVars
  <2>2. TypeOK'
    BY <2>1, UnchangedKeepsType DEF vars, ClientSound, TypeOK
  <2>3. ClientTypeOK' /\ CallsSound' /\ PassesSound'
    BY <2>1, CallsKept, PassesKept DEF ClientSound
  <2>4. QED
    BY <1>1, <2>1, <2>2, <2>3 DEF Mundane, TableStep
<1>8. QED
  BY <1>2, <1>3, <1>4, <1>5, <1>6, <1>7 DEF ClientNext, Call

LEMMA NextClientSound == ClientSound /\ [ClientNext]_clientVars => ClientSound'
<1> SUFFICES ASSUME ClientSound, [ClientNext]_clientVars PROVE ClientSound'
  OBVIOUS
<1>1. CASE \E o \in Ops, c \in Cmds : SendOffline(o, c) \/ SendInline(o, c)
  BY <1>1, SendSound
<1>2. CASE Mundane
  <2>1. discarded \subseteq discarded' /\ discarded' \subseteq created
    BY <1>2 DEF Mundane, ClientSound, Ledger
  <2>2. ClientRows' /\ Ledger'
    BY <1>2, <2>1, TableStepSound DEF Mundane, ClientSound
  <2>3. QED
    BY <1>2, <2>2 DEF Mundane, ClientSound
<1>3. QED
  BY <1>1, <1>2, StepIsMundane

LEMMA InitClientSound == ClientInit => ClientSound
<1> SUFFICES ASSUME ClientInit PROVE ClientSound
  OBVIOUS
<1>1. TypeOK /\ PassesSound
  BY InitSound DEF ClientInit, Sound
<1>2. ClientTypeOK
  BY NoRowType DEF ClientInit, ClientTypeOK, Ats
<1>3. ClientRows /\ CallsSound /\ Ledger
  BY NoRowSound DEF ClientInit, Init, ClientRows, CallsSound, Ledger, NoRow
<1>4. QED
  BY <1>1, <1>2, <1>3 DEF ClientSound

LEMMA AlwaysClientSound == ClientSpec => []ClientSound
  BY InitClientSound, NextClientSound, PTL DEF ClientSpec

-----------------------------------------------------------------------------
(* Messages.                                                               *)

\* A message and its copy never come to be two rows.
NoCopy == \A c \in Cmds : local'[c] = "sent" /\ c \in remote' => local[c] = "sent" /\ c \in remote

LEMMA SettleMakesNoCopy ==
  ASSUME TypeOK, NEW t \in Tabs, NEW c \in Cmds, SettleRow(t, c)
  PROVE  NoCopy
<1>1. \A d \in Cmds : d # c => local'[d] = local[d]
  BY DEF SettleRow, TypeOK, DbTypeOK
<1>2. remote' = remote \ {c}
  BY DEF SettleRow
<1>3. QED
  BY <1>1, <1>2 DEF NoCopy

LEMMA PassMakesNoCopy ==
  ASSUME TypeOK, NEW p \in Passes, Pass(p)
  PROVE  NoCopy
<1>1. CASE Mend(p) \/ CommitAck(p) \/ Replay(p)
  <2>1. cmd[p] \in Cmds /\ TabOf[p] \in Tabs
    BY <1>1, OutboxAssumption
    DEF Mend, CommitAck, Replay, TypeOK, PassTypeOK, Working, SendPCs, RepairPCs, ReplayPCs
  <2>2. SettleRow(TabOf[p], cmd[p]) \/ UNCHANGED <<local, remote>>
    BY <1>1 DEF Mend, CommitAck, Replay, dbVars
  <2>3. QED
    BY <2>1, <2>2, SettleMakesNoCopy DEF NoCopy
<1>2. CASE RepairHook(p)
  BY <1>2 DEF RepairHook, NoCopy
<1>3. CASE \/ ClaimRepair(p) \/ CommitUnmended(p) \/ ClaimSend(p)
           \/ CommitTransient(p) \/ CommitRejected(p)
           \/ CommitUncommitted(p) \/ RewriteRow(p)
  BY <1>3 DEF ClaimRepair, CommitUnmended, ClaimSend, CommitTransient, CommitRejected,
              CommitUncommitted, RewriteRow, NoCopy
<1>4. CASE \/ \E k \in {"flush", "recover"} : Start(p, k)
           \/ SkipRepair(p) \/ MendFails(p)
           \/ ListDue(p) \/ Finish(p) \/ StorageFault(p)
           \/ StartReplay(p) \/ SkipRow(p)
           \/ AckThrows(p) \/ ReplayThrows(p) \/ RereadRow(p)
           \/ SendThrows(p) \/ Accept(p) \/ Refuse(p)
  <2>1. UNCHANGED dbVars
    BY <1>4 DEF Start, SkipRepair, MendFails, ListDue, Finish, StorageFault, StartReplay,
                SkipRow, AckThrows, ReplayThrows, RereadRow, SendThrows, Accept, Refuse
  <2>2. QED
    BY <2>1 DEF dbVars, NoCopy
<1>5. QED
  BY <1>1, <1>2, <1>3, <1>4 DEF Pass

LEMMA ResumeMakesNoCopy ==
  ASSUME ClientSound, NEW o \in Ops, Resume(o)
  PROVE  NoCopy
<1>1. CASE InlineCommit(o)
  <2>1. target[o] \in Cmds /\ OpTab[o] \in Tabs /\ TypeOK
    BY <1>1, TargetRow, OpAssumption DEF InlineCommit, ClientSound
  <2>2. QED
    BY <1>1, <2>1, SettleMakesNoCopy DEF InlineCommit
<1>2. CASE DiscardMessage(o)
  <2>1. \A c \in Cmds : local'[c] = local[c] \/ local'[c] = "none"
    BY <1>2 DEF DiscardMessage, ClientSound, TypeOK, DbTypeOK
  <2>2. QED
    BY <1>2, <2>1 DEF DiscardMessage, NoCopy
<1>3. CASE \/ InlineAccepted(o) \/ InlineRefused(o) \/ InlineThrows(o)
           \/ InlineCommitFails(o) \/ MarkRead(o) \/ MarkWrite(o)
           \/ RetryWrite(o) \/ DiscardRow(o)
  BY <1>3 DEF InlineAccepted, InlineRefused, InlineThrows, InlineCommitFails, MarkRead,
              MarkWrite, RetryWrite, DiscardRow, vars, dbVars, NoCopy
<1>4. QED
  BY <1>1, <1>2, <1>3 DEF Resume

LEMMA StepMakesNoCopy ==
  ASSUME ClientSound, [ClientNext]_clientVars
  PROVE  NoCopy
<1>1. ASSUME NEW o \in Ops, NEW c \in Cmds, Call(o, c) PROVE NoCopy
  <2>1. CASE SendOffline(o, c) \/ SendInline(o, c)
    BY <2>1 DEF SendOffline, SendInline, Enqueue, NoCopy, ClientSound, TypeOK, DbTypeOK
  <2>2. CASE RetryRead(o, c) \/ DiscardRead(o, c)
    BY <2>2 DEF RetryRead, DiscardRead, vars, dbVars, NoCopy
  <2>3. QED
    BY <1>1, <2>1, <2>2 DEF Call
<1>2. ASSUME NEW p \in Passes, Pass(p) PROVE NoCopy
  BY <1>2, PassMakesNoCopy DEF ClientSound
<1>3. ASSUME NEW t \in Tabs, ClientCrash(t) PROVE NoCopy
  BY <1>3 DEF ClientCrash, TabDies, dbVars, NoCopy
<1>4. CASE Surroundings
  <2>1. ASSUME NEW c \in Cmds, HistoryLands(c) \/ CommitLands(c) PROVE NoCopy
    BY <2>1 DEF HistoryLands, CommitLands, NoCopy, ClientSound, TypeOK, DbTypeOK
  <2>2. CASE ClearMessages
    BY <2>2 DEF ClearMessages, NoCopy
  <2>3. CASE \/ \E c \in Cmds : \/ LeaseExpires(c) \/ BackoffElapses(c)
                                \/ RepairLeaseExpires(c) \/ RepairBackoffElapses(c)
                                \/ AcceptLate(c)
             \/ \E t \in Tabs : ClearBuffer(t)
    BY <2>3 DEF LeaseExpires, BackoffElapses, RepairLeaseExpires, RepairBackoffElapses,
                AcceptLate, ClearBuffer, dbVars, NoCopy
  <2>4. QED
    BY <1>4, <2>1, <2>2, <2>3 DEF Surroundings
<1>5. CASE UNCHANGED clientVars
  BY <1>5 DEF clientVars, vars, dbVars, NoCopy
<1>6. QED
  BY <1>1, <1>2, <1>3, <1>4, <1>5, ResumeMakesNoCopy DEF ClientNext

-----------------------------------------------------------------------------
(* The theorems.                                                           *)

\* Calls and passes keep every variable in its type, the row a call has read
\* included.
THEOREM ClientTypeCorrect == ClientSpec => []ClientTypeOK
<1>1. ClientSound => ClientTypeOK
  BY DEF ClientSound
<1>2. QED
  BY <1>1, AlwaysClientSound, PTL

\* However retries, discards and inline attempts race with the passes of the
\* engine, a command that is gone was delivered or dropped by the user, and an
\* ACK on a row has the server behind it.
THEOREM ClientLosesNothing == ClientSpec => []NothingLost
<1>1. ClientSound => NothingLost
  BY DEF ClientSound, ClientRows, ClientRow, Ledger, NothingLost
<1>2. QED
  BY <1>1, AlwaysClientSound, PTL

\* Nor do the client's own commits, discards and enqueues leave a message
\* beside the copy that came back by its server id.
THEOREM ClientMessagesAreSingle == ClientSpec => []OneRowPerMessage
<1>1. ClientInit => OneRowPerMessage
  BY DEF ClientInit, Init, OneRowPerMessage
<1>2. OneRowPerMessage /\ ClientSound /\ [ClientNext]_clientVars => OneRowPerMessage'
  BY StepMakesNoCopy DEF OneRowPerMessage, NoCopy
<1>3. QED
  BY <1>1, <1>2, AlwaysClientSound, PTL DEF ClientSpec

-----------------------------------------------------------------------------
(* Calls and engine implement CommandQueue.                                *)

LEMMA ClientQueueStep ==
  ClientSound /\ ClientSound' /\ [ClientNext]_clientVars
    => [ClientQueue!Next]_(ClientQueue!qvars)
<1> SUFFICES ASSUME ClientSound, ClientSound', [ClientNext]_clientVars
             PROVE  ClientQueue!Next \/ UNCHANGED ClientQueue!qvars
  OBVIOUS
<1> DEFINE Q == {d \in Cmds : outbox[d].status # "none"}
<1>1. /\ created \subseteq Cmds
      /\ \A c \in created : c \in Q \cup server \cup discarded
      /\ \A c \in Cmds \ created : c \notin Q \cup server \cup discarded
  BY DEF ClientSound, TypeOK, EnvTypeOK, Ledger, ClientRows, ClientRow
<1>2. ASSUME NEW o \in Ops, NEW c \in Cmds, SendOffline(o, c) \/ SendInline(o, c)
      PROVE  ClientQueue!Next
  <2>1. Enqueue(OpTab[o], c) /\ UNCHANGED discarded
    BY <1>2 DEF SendOffline, SendInline, opVars
  <2>2. c \notin created /\ server' = server
    BY <2>1, OutboxAssumption DEF Enqueue
  <2>3. \A d \in Cmds : outbox'[d] = IF d = c THEN NewRow ELSE outbox[d]
    BY <2>1 DEF Enqueue, ClientSound, TypeOK, DbTypeOK
  <2>4. Q' = Q \cup {c}
    BY <2>3 DEF NewRow, NoRow
  <2>5. ClientQueue!Enqueue(c)
    BY <1>1, <2>1, <2>2, <2>4 DEF ClientQueue!Enqueue
  <2>6. QED
    BY <2>5 DEF ClientQueue!Next
<1>3. CASE UNCHANGED <<outbox, discarded>> /\ \E c \in created : ServerAccepts(c)
  <2>1. PICK c \in created : ServerAccepts(c)
    BY <1>3
  <2>2. CASE c \in server
    BY <1>3, <2>1, <2>2 DEF ServerAccepts, ClientQueue!qvars
  <2>3. CASE c \notin server
    <3>1. c \in Cmds /\ c \in Q \cup discarded
      BY <1>1, <2>3
    <3>2. ClientQueue!Deliver(c)
      BY <1>3, <2>1, <3>1 DEF ClientQueue!Deliver, ServerAccepts
    <3>3. QED
      BY <3>1, <3>2 DEF ClientQueue!Next
  <2>4. QED
    BY <2>2, <2>3
<1>4. CASE UNCHANGED server /\ \E c \in created :
             discarded' = discarded \cup {c} /\ outbox' = [outbox EXCEPT ![c] = NoRow]
  <2>1. PICK c \in created :
          discarded' = discarded \cup {c} /\ outbox' = [outbox EXCEPT ![c] = NoRow]
    BY <1>4
  <2>2. c \in Cmds /\ c \in Q \cup server \cup discarded
    BY <1>1
  <2>3. \A d \in Cmds : outbox'[d] = IF d = c THEN NoRow ELSE outbox[d]
    BY <2>1 DEF ClientSound, TypeOK, DbTypeOK
  <2>4. Q' = Q \ {c}
    BY <2>3 DEF NoRow
  <2>5. ClientQueue!Drop(c)
    BY <1>4, <2>1, <2>2, <2>4 DEF ClientQueue!Drop
  <2>6. QED
    BY <2>2, <2>5 DEF ClientQueue!Next
<1>5. CASE TableStep /\ UNCHANGED <<created, server, discarded>>
  <2>1. CASE UNCHANGED outbox
    BY <1>5, <2>1 DEF ClientQueue!qvars
  <2>2. CASE ~ UNCHANGED outbox
    <3>1. PICK c \in Cmds : \E r : outbox' = [outbox EXCEPT ![c] = r]
      BY <1>5, <2>2 DEF TableStep
    <3>2. \A d \in Cmds \ {c} : outbox'[d] = outbox[d]
      BY <3>1 DEF ClientSound, TypeOK, DbTypeOK
    <3>3. CASE c \in Q <=> c \in Q'
      <4>1. Q' = Q
        BY <3>2, <3>3
      <4>2. QED
        BY <1>5, <4>1 DEF ClientQueue!qvars
    <3>4. CASE c \in Q /\ c \notin Q'
      <4>1. Q' = Q \ {c}
        BY <3>2, <3>4
      <4>2. c \in server \cup discarded
        BY <1>1, <1>5, <3>4 DEF ClientSound, Ledger
      <4>3. ClientQueue!Retire(c) \/ ClientQueue!Drop(c)
        BY <1>5, <3>4, <4>1, <4>2 DEF ClientQueue!Retire, ClientQueue!Drop
      <4>4. QED
        BY <4>3 DEF ClientQueue!Next
    <3>5. CASE c \notin Q /\ c \in Q'
      <4>1. Q' = Q \cup {c}
        BY <3>2, <3>5
      <4>2. c \in created
        BY <1>5, <3>5 DEF ClientSound, ClientRows, ClientRow
      <4>3. ClientQueue!Reinstate(c)
        BY <1>1, <1>5, <3>5, <4>1, <4>2 DEF ClientQueue!Reinstate
      <4>4. QED
        BY <4>3 DEF ClientQueue!Next
    <3>6. QED
      BY <3>3, <3>4, <3>5
  <2>3. QED
    BY <2>1, <2>2
<1>6. CASE Mundane
  BY <1>3, <1>4, <1>5, <1>6 DEF Mundane
<1>7. QED
  BY <1>2, <1>6, StepIsMundane

\* Inline attempts, retries, discards, passes and crashes add up to a queue
\* whose commands leave it only delivered or dropped by the user.
THEOREM ClientQueueImplemented == ClientSpec => ClientImplementsQueue
<1>1. ClientInit => ClientQueue!Init
  BY DEF ClientInit, Init, ClientQueue!Init, NoRow
<1>2. ClientSpec => [][ClientQueue!Next]_(ClientQueue!qvars)
  BY AlwaysClientSound, ClientQueueStep, PTL DEF ClientSpec
<1>3. ClientSpec => ClientQueue!Init
  BY <1>1 DEF ClientSpec
<1>4. QED
  BY <1>2, <1>3 DEF ClientImplementsQueue, ClientQueue!Spec
===============================================================================
