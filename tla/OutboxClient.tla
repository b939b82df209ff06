---------------------------- MODULE OutboxClient ----------------------------
(***************************************************************************)
(* The client methods that touch the outbox beside the engine:             *)
(* sendTextMessage with its inline attempt, retryOutboxEntry and           *)
(* discardOutboxEntry (src/client.ts).                                     *)
(*                                                                         *)
(* An OP is one running call of such a method.  It takes no lease and no   *)
(* place in the engine's promise chain, so it interleaves with the passes  *)
(* of OutboxEngine at every await.  Names ending in _Slip are deliberate   *)
(* errors, as there.                                                       *)
(***************************************************************************)
EXTENDS OutboxEngine

CONSTANTS
    Ops,        \* concurrent client calls
    OpTab,      \* the tab each call runs in
    Calls       \* the calls the host makes

ASSUME OpAssumption ==
    /\ OpTab \in [Ops -> Tabs]
    /\ Calls \in [Ops -> SUBSET {"queue", "send", "retry", "discard"}]

VARIABLES
    at,         \* per op: where it is suspended
    target,     \* per op: the command it is about
    read,       \* per op: the row updateOutboxStatus has read
    discarded   \* commands the user has discarded

opVars     == <<at, target, read, discarded>>
clientVars == <<vars, opVars>>

AwaitsWire == {"sending", "acked", "failing", "refusing"}

Ats == {"idle", "marking", "barring", "rearming", "dropping", "forgetting"}
       \cup AwaitsWire

ClientTypeOK ==
    /\ at \in [Ops -> Ats]
    /\ target \in [Ops -> Cmds \cup {0}]
    /\ read \in [Ops -> Row]
    /\ discarded \subseteq Cmds

ClientInit ==
    /\ Init
    /\ at = [o \in Ops |-> "idle"]
    /\ target = [o \in Ops |-> 0]
    /\ read = [o \in Ops |-> NoRow]
    /\ discarded = {}

-----------------------------------------------------------------------------
Begin(o, c, l) ==
    /\ at[o] = "idle"
    /\ at' = [at EXCEPT ![o] = l]
    /\ target' = [target EXCEPT ![o] = c]

Step(o, from, to) ==
    /\ at[o] = from
    /\ at' = [at EXCEPT ![o] = to]
    /\ UNCHANGED target

Return(o) ==
    /\ at' = [at EXCEPT ![o] = "idle"]
    /\ target' = [target EXCEPT ![o] = 0]
    /\ read' = [read EXCEPT ![o] = NoRow]

-----------------------------------------------------------------------------
(* sendTextMessage.                                                        *)

\* The echo and its command become durable together.  Offline, the call
\* returns `queued`; authenticated, the request goes out at once, without a
\* lease: the row stays `pending` and due while the answer is awaited.
SendOffline(o, c) ==
    /\ at[o] = "idle"
    /\ Enqueue(OpTab[o], c)
    /\ UNCHANGED opVars

SendInline(o, c) ==
    /\ Enqueue(OpTab[o], c)
    /\ Begin(o, c, "sending")
    /\ UNCHANGED <<read, discarded>>

InlineAccepted(o) ==
    /\ \E l \in {"acked", "failing"} : Step(o, "sending", l)
    /\ ServerAccepts(target[o])
    /\ UNCHANGED <<dbVars, passVars, lockVars, held, created, told,
                   read, discarded>>

InlineRefused(o) ==
    /\ \E l \in {"failing", "refusing"} : Step(o, "sending", l)
    /\ UNCHANGED <<vars, read, discarded>>

InlineThrows(o) ==
    /\ Step(o, "sending", "failing")
    /\ net' = net \cup ({target[o]} \ server)
    /\ UNCHANGED <<dbVars, passVars, lockVars, held, server, created, told,
                   read, discarded>>

\* commitAck: settle the message and delete the command, whoever holds it.
InlineCommit(o) ==
    /\ at[o] = "acked"
    /\ SettleRow(OpTab[o], target[o])
    /\ Return(o)
    /\ UNCHANGED <<passVars, lockVars, net, server, created, discarded>>

\* AckPersistenceError: the command is left as it is, `pending` and due.
InlineCommitFails(o) ==
    /\ at[o] = "acked"
    /\ Return(o)
    /\ UNCHANGED <<vars, discarded>>

\* markOutboxFailed, the get of updateOutboxStatus.
MarkRead(o) ==
    LET r == outbox[target[o]] IN
    /\ at[o] \in {"failing", "refusing"}
    /\ IF r.status = "none"
       THEN Return(o)
       ELSE /\ Step(o, at[o], IF at[o] = "failing" THEN "marking" ELSE "barring")
            /\ read' = [read EXCEPT ![o] = r]
    /\ UNCHANGED <<vars, discarded>>

\* The put would count the attempt on the row it has read.
MarkWrite_Slip(o) ==
    /\ at[o] \in {"marking", "barring"}
    /\ outbox' = [outbox EXCEPT ![target[o]] =
                    [read[o] EXCEPT !.status = "failed", !.attempts = @ + 1]]
    /\ Return(o)
    /\ UNCHANGED <<local, remote, passVars, lockVars, envVars, discarded>>

\* ... and its put: whatever the row has become, it is `failed` with one
\* attempt.  next_attempt_at is not part of the patch.
MarkWrite(o) ==
    LET c == target[o] IN
    /\ at[o] \in {"marking", "barring"}
    /\ outbox' = [outbox EXCEPT ![c] =
                    [read[o] EXCEPT !.status = "failed", !.attempts = 1]]
    /\ Return(o)
    /\ UNCHANGED <<local, remote, passVars, lockVars, envVars, discarded>>

-----------------------------------------------------------------------------
(* retryOutboxEntry: resets the row whatever its status, then flushes; the *)
(* flush is one of the passes, which may start at any time.                *)

RetryRead(o, c) ==
    /\ outbox[c].status # "none"
    /\ Begin(o, c, "rearming")
    /\ read' = [read EXCEPT ![o] = outbox[c]]
    /\ UNCHANGED <<vars, discarded>>

RetryWrite(o) ==
    LET c == target[o] IN
    /\ at[o] = "rearming"
    /\ outbox' = [outbox EXCEPT ![c] = [read[o] EXCEPT
                    !.status = "pending", !.attempts = 0, !.timer = "due"]]
    /\ Return(o)
    /\ UNCHANGED <<local, remote, passVars, lockVars, envVars, discarded>>

-----------------------------------------------------------------------------
(* discardOutboxEntry: the row, then memory, then the message, in separate *)
(* writes; the last is not awaited and its failure is swallowed.           *)

DiscardRead(o, c) ==
    /\ outbox[c].status # "none"
    /\ Begin(o, c, "dropping")
    /\ UNCHANGED <<vars, read, discarded>>

DiscardRow(o) ==
    /\ Step(o, "dropping", "forgetting")
    /\ outbox' = [outbox EXCEPT ![target[o]] = NoRow]
    /\ discarded' = discarded \cup {target[o]}
    /\ UNCHANGED <<local, remote, passVars, lockVars, envVars, read>>

DiscardMessage(o) ==
    LET c == target[o] IN
    /\ at[o] = "forgetting"
    /\ held' = [held EXCEPT ![OpTab[o]] = @ \ {c}]
    /\ local' \in {local, [local EXCEPT ![c] = "none"]}
    /\ Return(o)
    /\ UNCHANGED <<outbox, remote, passVars, lockVars, net, server, created, told,
                   discarded>>

-----------------------------------------------------------------------------
\* The tab dies with its calls; a request on the wire may still arrive.
ClientCrash(t) ==
    LET dead == {o \in Ops : OpTab[o] = t} IN
    /\ TabDies(t, {target[o] : o \in {q \in dead : at[q] = "sending"}})
    /\ at' = [o \in Ops |-> IF o \in dead THEN "idle" ELSE at[o]]
    /\ target' = [o \in Ops |-> IF o \in dead THEN 0 ELSE target[o]]
    /\ read' = [o \in Ops |-> IF o \in dead THEN NoRow ELSE read[o]]
    /\ UNCHANGED discarded

Call(o, c) ==
    \/ "queue" \in Calls[o] /\ SendOffline(o, c)
    \/ "send" \in Calls[o] /\ SendInline(o, c)
    \/ "retry" \in Calls[o] /\ RetryRead(o, c)
    \/ "discard" \in Calls[o] /\ DiscardRead(o, c)

Resume(o) ==
    \/ InlineAccepted(o) \/ InlineRefused(o) \/ InlineThrows(o)
    \/ InlineCommit(o) \/ InlineCommitFails(o)
    \/ MarkRead(o) \/ MarkWrite(o)
    \/ RetryWrite(o)
    \/ DiscardRow(o) \/ DiscardMessage(o)

ClientNext ==
    \/ \E o \in Ops, c \in Cmds : Call(o, c)
    \/ \E o \in Ops : Resume(o)
    \/ \E p \in Passes : Pass(p) /\ UNCHANGED opVars
    \/ \E t \in Tabs : ClientCrash(t)
    \/ Surroundings /\ UNCHANGED opVars

ClientSpec == ClientInit /\ [][ClientNext]_clientVars

-----------------------------------------------------------------------------
\* Whatever calls and passes race on a row, a command that is gone was
\* accepted by the server or dropped by the user, and an ACK on a row, or a
\* `sent`, always has the server behind it.
NothingLost ==
    /\ \A c \in created : outbox[c].status = "none" => c \in server \cup discarded
    /\ \A c \in Cmds : outbox[c].acked => c \in server
    /\ told \subseteq server

\* The client's calls and the engine together still implement the abstract
\* queue, now with the user's drops.
ClientQueue == INSTANCE CommandQueue
               WITH queued <- {c \in Cmds : outbox[c].status # "none"},
                    delivered <- server,
                    dropped <- discarded

ClientImplementsQueue == ClientQueue!Spec

=============================================================================
