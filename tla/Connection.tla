------------------------------ MODULE Connection ------------------------------
(***************************************************************************)
(* The connection lifecycle of PrivchatClient (src/client.ts): connect,    *)
(* authenticate with its token refresh (src/auth-refresh.ts), disconnect,  *)
(* dispose, the close handler with its reconnect cycle, the idle heartbeat *)
(* and the startup readiness.                                              *)
(*                                                                         *)
(* A TASK is one running async method, suspended at an await.  The host    *)
(* runs connect, authenticate, disconnect and dispose; the reconnect timer *)
(* runs attemptReconnect; the heartbeat timer runs runHeartbeatPing.       *)
(* Between two awaits a task is atomic.  Timers may fire at any moment.    *)
(*                                                                         *)
(* The transport is external (@msgtrans/client).  What the SDK relies on:  *)
(* disconnect() closes the link and reports the close a little later, like *)
(* a drop does; a request on a closed link rejects; a connect() that is    *)
(* awaited when the link is closed on purpose rejects.                     *)
(*                                                                         *)
(* Names ending in _Slip are deliberate errors nothing uses: see README.   *)
(***************************************************************************)
EXTENDS Naturals

CONSTANTS
    Hosts,          \* concurrent calls of the host
    Replays,        \* concurrent runs of attemptReconnect
    Pings,          \* concurrent runs of runHeartbeatPing
    MaxAttempts,    \* reconnect.maxAttempts
    AutoRefresh     \* configureAuthRefresh has been called

ASSUME ConnectionAssumption ==
    /\ MaxAttempts \in Nat
    /\ AutoRefresh \in BOOLEAN
    /\ Hosts \cap Replays = {} /\ Hosts \cap Pings = {} /\ Replays \cap Pings = {}

Tasks == Hosts \cup Replays \cup Pings

VARIABLES
    state,      \* ConnectionState
    readiness,  \* SyncReadiness
    lastAuth,   \* credentials are held for a replay
    byUser,     \* userInitiatedDisconnect
    disposed,
    timer,      \* the reconnect timer is armed
    attempt,    \* reconnectAttempt
    beat,       \* the heartbeat timer is armed
    stray,      \* so is one that heartbeatTimer no longer refers to
    syncs,      \* critical syncs running: of the current generation, superseded
    pc,         \* per task: the await it is suspended at
    link,       \* the transport is open
    report,     \* its close is still to be reported
    stale,      \* tasks awaiting an answer on a link that has closed
    dials,      \* history: dials of the reconnect cycle since it was reset
    overtaken,  \* history: disconnect() or dispose() overtook a login or a cycle
    cut         \* history: a reconnect was asked for while an attempt was resuming

machineVars == <<state, readiness, beat, syncs>>
cycleVars   == <<timer, attempt, dials>>
wireVars    == <<link, report, stale>>
historyVars == <<overtaken, cut>>
hostVars    == <<lastAuth, byUser, disposed>>
vars        == <<machineVars, cycleVars, wireVars, historyVars, hostVars, stray, pc>>

States == {"disconnected", "connecting", "connected", "authenticating",
           "authenticated", "reconnecting", "closing"}

\* setState bumps criticalSyncGeneration and drops the readiness here.
DownStates == {"disconnected", "reconnecting", "closing"}

Wire   == {"auth", "reauth", "ping"}
Login  == {"auth", "reauth", "refresh", "renewed", "denied", "local"}
Cycle  == {"redial", "drop", "resume"}
Awaits == {"idle", "dial", "hangup", "shutdown"} \cup Wire \cup Login \cup Cycle

ConnTypeOK ==
    /\ state \in States
    /\ readiness \in {"disconnected", "authenticated", "syncing_critical",
                      "critical_failed", "ready"}
    /\ {lastAuth, byUser, disposed, timer, beat, stray,
        link, report, overtaken, cut} \subseteq BOOLEAN
    /\ syncs \subseteq {"current", "superseded"}
    /\ attempt \in 0..MaxAttempts
    /\ dials \in 0..MaxAttempts
    /\ pc \in [Tasks -> Awaits]
    /\ stale \subseteq {f \in Tasks : pc[f] \in Wire}

Init ==
    /\ state = "disconnected" /\ readiness = "disconnected"
    /\ lastAuth = FALSE /\ byUser = FALSE /\ disposed = FALSE
    /\ timer = FALSE /\ attempt = 0 /\ dials = 0
    /\ beat = FALSE /\ stray = FALSE /\ syncs = {}
    /\ pc = [f \in Tasks |-> "idle"]
    /\ link = FALSE /\ report = FALSE /\ stale = {}
    /\ overtaken = FALSE /\ cut = FALSE

-----------------------------------------------------------------------------
(* setState.                                                               *)

\* criticalSyncGeneration is bumped.
Superseded == IF syncs = {} THEN {} ELSE {"superseded"}

\* Into a down state.
Fall(next) ==
    /\ state' = next
    /\ readiness' = "disconnected"
    /\ syncs' = Superseded
    /\ beat' = (beat /\ state # "authenticated")

Enter(next) ==
    IF next = state THEN UNCHANGED machineVars
    ELSE IF next \in DownStates THEN Fall(next)
    ELSE /\ state' = next
         /\ beat' = (beat /\ state # "authenticated")
         /\ UNCHANGED <<readiness, syncs>>

-----------------------------------------------------------------------------
(* The transport: external.                                                *)

At(f, l)    == pc[f] = l
Go(f, l)    == pc' = [pc EXCEPT ![f] = l]
Waiting(S)  == {f \in Tasks : pc[f] \in S}

\* The link closes: what is on the wire will reject, the close is reported.
CloseLink ==
    /\ link' = FALSE
    /\ report' = (report \/ link)
    /\ stale' = {f \in Tasks : pc'[f] \in Wire}

\* A new link; reports and answers of the one it retires are fenced off.
OpenLink(f) ==
    /\ link' = TRUE
    /\ report' = FALSE
    /\ stale' = {g \in Tasks \ {f} : pc[g] \in Wire}

\* f stops awaiting an answer, or sends a request over the link as it is.
Unwire(f) == stale' = stale \ {f} /\ UNCHANGED <<link, report>>
Send(f)   == /\ stale' = IF link THEN stale \ {f} ELSE stale \cup {f}
             /\ UNCHANGED <<link, report>>

-----------------------------------------------------------------------------
(* The reconnect cycle: scheduleReconnect and cancelReconnect.             *)

CancelReconnect == timer' = FALSE /\ attempt' = 0 /\ dials' = 0

Exhausted_Slip == attempt > MaxAttempts

Exhausted == attempt >= MaxAttempts

Arm_Slip == timer' = TRUE /\ UNCHANGED <<attempt, dials>>

\* One timer, whoever asks for it; every request spends an attempt.
Arm == timer' = TRUE /\ attempt' = attempt + 1 /\ UNCHANGED dials

ScheduleReconnect ==
    \/ Exhausted /\ Enter("disconnected") /\ CancelReconnect
    \/ ~Exhausted /\ Arm /\ UNCHANGED machineVars

\* The same after setState('reconnecting').
FallAndSchedule ==
    \/ Exhausted /\ Fall("disconnected") /\ CancelReconnect
    \/ ~Exhausted /\ Enter("reconnecting") /\ Arm

Cuts == cut' = (cut \/ Waiting({"resume"}) # {})

-----------------------------------------------------------------------------
(* connect, disconnect, dispose.                                           *)

Connect(h) ==
    /\ At(h, "idle") /\ ~disposed
    /\ state = "disconnected"
    /\ CancelReconnect
    /\ byUser' = FALSE
    /\ Enter("connecting")
    /\ Go(h, "dial")
    /\ UNCHANGED <<lastAuth, disposed, stray, wireVars, historyVars>>

Connected(h) ==
    /\ At(h, "dial") /\ ~byUser
    /\ Go(h, "idle")
    /\ OpenLink(h)
    /\ Enter("connected")
    /\ UNCHANGED <<cycleVars, historyVars, hostVars, stray>>

ConnectFails(h) ==
    /\ At(h, "dial")
    /\ Go(h, "idle")
    /\ Enter("disconnected")
    /\ UNCHANGED <<cycleVars, wireVars, historyVars, hostVars, stray>>

Overtakes == overtaken' = (overtaken \/ Waiting(Login \cup Cycle) # {})

Disconnect(h) ==
    /\ At(h, "idle")
    /\ byUser' = TRUE
    /\ CancelReconnect
    /\ Enter("closing")
    /\ Go(h, "hangup")
    /\ CloseLink
    /\ Overtakes
    /\ UNCHANGED <<lastAuth, disposed, stray, cut>>

\* The `finally` of disconnect, the tail of dispose.
Disconnected(h) ==
    /\ pc[h] \in {"hangup", "shutdown"}
    /\ Go(h, "idle")
    /\ lastAuth' = FALSE
    /\ Fall("disconnected")
    /\ Overtakes
    /\ UNCHANGED <<cycleVars, wireVars, cut, byUser, disposed, stray>>

Dispose(h) ==
    /\ At(h, "idle") /\ ~disposed
    /\ disposed' = TRUE
    /\ CancelReconnect
    /\ IF byUser
       THEN UNCHANGED <<byUser, machineVars, wireVars, pc, overtaken>>
       ELSE /\ byUser' = TRUE
            /\ Enter("closing")
            /\ Go(h, "shutdown")
            /\ CloseLink
            /\ Overtakes
    /\ UNCHANGED <<lastAuth, stray, cut>>

-----------------------------------------------------------------------------
(* authenticateInternal: called by the host or by attemptReconnect.        *)

Authenticate(h) ==
    /\ At(h, "idle")
    /\ state \in {"connected", "authenticated"}
    /\ Enter("authenticating")
    /\ Go(h, "auth")
    /\ Send(h)
    /\ UNCHANGED <<cycleVars, historyVars, hostVars, stray>>

\* A failure that is not terminal is thrown: the host sees it; attemptReconnect
\* closes the transport, to try again from scratch.
Throw(f) ==
    IF f \in Hosts THEN Go(f, "idle") /\ Unwire(f)
    ELSE Go(f, "drop") /\ CloseLink

\* A terminal one ends the cycle.
ThrowTerminal(f) ==
    /\ Go(f, "idle")
    /\ Unwire(f)
    /\ IF f \in Hosts THEN UNCHANGED <<lastAuth, cycleVars>>
       ELSE lastAuth' = FALSE /\ CancelReconnect

Authorized(f) ==
    /\ pc[f] \in {"auth", "reauth"} /\ f \notin stale
    /\ Go(f, "local")
    /\ Unwire(f)
    /\ UNCHANGED <<machineVars, cycleVars, historyVars, hostVars, stray>>

\* The request rejects: the link has closed, or it timed out.
AuthThrows(f) ==
    /\ pc[f] \in {"auth", "reauth"}
    /\ Throw(f)
    /\ UNCHANGED <<machineVars, cycleVars, historyVars, hostVars, stray>>

\* Refused, recoverable or transient, with no refresh to try.
AuthRefused(f) ==
    /\ pc[f] \in {"auth", "reauth"} /\ f \notin stale
    /\ Enter("connected")
    /\ Throw(f)
    /\ UNCHANGED <<cycleVars, historyVars, hostVars, stray>>

AuthTerminal(f) ==
    /\ pc[f] \in {"auth", "reauth"} /\ f \notin stale
    /\ Enter("disconnected")
    /\ ThrowTerminal(f)
    /\ UNCHANGED <<historyVars, byUser, disposed, stray>>

\* A token that can be refreshed, once per authenticate.
AuthExpired(f) ==
    /\ At(f, "auth") /\ f \notin stale /\ AutoRefresh
    /\ Go(f, "refresh")
    /\ Unwire(f)
    /\ UNCHANGED <<machineVars, cycleVars, historyVars, hostVars, stray>>

\* refreshAuth settles for every caller of the coordinator at once.
RefreshSettles ==
    /\ Waiting({"refresh"}) # {}
    /\ \E l \in {"renewed", "denied"} :
         pc' = [f \in Tasks |-> IF pc[f] = "refresh" THEN l ELSE pc[f]]
    /\ UNCHANGED <<machineVars, cycleVars, wireVars, historyVars, hostVars, stray>>

Renewed(f) ==
    /\ At(f, "renewed")
    /\ Enter("authenticating")
    /\ Go(f, "reauth")
    /\ Send(f)
    /\ UNCHANGED <<cycleVars, historyVars, hostVars, stray>>

Denied(f) ==
    /\ At(f, "denied")
    /\ Enter("disconnected")
    /\ ThrowTerminal(f)
    /\ UNCHANGED <<historyVars, byUser, disposed, stray>>

\* ensureCacheOwner rejects (a disposed client has closed its database), or the
\* server answered for another user.
LocalFails(f) ==
    /\ At(f, "local")
    /\ Enter("connected")
    /\ Throw(f)
    /\ UNCHANGED <<cycleVars, historyVars, hostVars, stray>>

\* The cache is ours and recovered: authenticated, the heartbeat starts, and
\* startCriticalSync supersedes whatever ran before.
LoggedIn(f) ==
    /\ At(f, "local")
    /\ lastAuth' = TRUE
    /\ state' = "authenticated"
    /\ beat' = (beat \/ state # "authenticated")
    /\ readiness' = "syncing_critical"
    /\ syncs' = Superseded \cup {"current"}
    /\ Go(f, IF f \in Hosts THEN "idle" ELSE "resume")
    /\ UNCHANGED <<cycleVars, wireVars, historyVars, byUser, disposed, stray>>

CriticalSyncEnds_Slip ==
    \E g \in syncs :
        /\ syncs' = syncs \ {g}
        /\ \E r \in {"ready", "critical_failed"} :
             readiness' = IF lastAuth THEN r ELSE readiness
        /\ UNCHANGED <<state, beat, cycleVars, wireVars, historyVars, hostVars, stray, pc>>

\* startCriticalSync ends; a superseded one changes nothing.
CriticalSyncEnds ==
    \E g \in syncs :
        /\ syncs' = syncs \ {g}
        /\ \E r \in {"ready", "critical_failed"} :
             readiness' = IF g = "current" /\ lastAuth THEN r ELSE readiness
        /\ UNCHANGED <<state, beat, cycleVars, wireVars, historyVars, hostVars, stray, pc>>

-----------------------------------------------------------------------------
(* handleTransportClose and attemptReconnect.                              *)

LinkDrops ==
    /\ link
    /\ UNCHANGED pc
    /\ CloseLink
    /\ UNCHANGED <<machineVars, cycleVars, historyVars, hostVars, stray>>

CloseReported_Slip ==
    /\ report
    /\ report' = FALSE
    /\ \/ ~lastAuth /\ Enter("disconnected") /\ UNCHANGED cycleVars
       \/ lastAuth /\ FallAndSchedule
    /\ Cuts
    /\ UNCHANGED <<link, stale, overtaken, hostVars, stray, pc>>

CloseReported ==
    /\ report
    /\ report' = FALSE
    /\ \/ byUser /\ UNCHANGED <<machineVars, cycleVars>>
       \/ ~byUser /\ ~lastAuth /\ Enter("disconnected") /\ UNCHANGED cycleVars
       \/ ~byUser /\ lastAuth /\ FallAndSchedule
    /\ Cuts
    /\ UNCHANGED <<link, stale, overtaken, hostVars, stray, pc>>

\* The timer fires for nothing.
TimerLapses ==
    /\ timer /\ (byUser \/ ~lastAuth)
    /\ timer' = FALSE
    /\ UNCHANGED <<attempt, dials, machineVars, wireVars, historyVars, hostVars, stray, pc>>

AttemptReconnect(r) ==
    /\ timer /\ ~byUser /\ lastAuth
    /\ At(r, "idle")
    /\ timer' = FALSE
    /\ dials' = dials + 1
    /\ Go(r, "redial")
    /\ UNCHANGED <<attempt, machineVars, wireVars, historyVars, hostVars, stray>>

RedialFails_Slip(r) ==
    /\ At(r, "redial")
    /\ Go(r, "idle")
    /\ UNCHANGED <<machineVars, cycleVars, wireVars, historyVars, hostVars, stray>>

RedialFails(r) ==
    /\ At(r, "redial")
    /\ Go(r, "idle")
    /\ ScheduleReconnect
    /\ Cuts
    /\ UNCHANGED <<wireVars, overtaken, hostVars, stray>>

\* Connected: replay the last authenticate.
Redialed(r) ==
    /\ At(r, "redial") /\ ~byUser /\ lastAuth
    /\ Enter("authenticating")
    /\ Go(r, "auth")
    /\ OpenLink(r)
    /\ UNCHANGED <<cycleVars, historyVars, hostVars, stray>>

\* The transport opened, but the credentials are gone: reading them throws.
RedialedForNobody(r) ==
    /\ At(r, "redial") /\ ~byUser /\ ~lastAuth
    /\ Enter("connected")
    /\ Go(r, "idle")
    /\ OpenLink(r)
    /\ UNCHANGED <<cycleVars, historyVars, hostVars, stray>>

Dropped(r) ==
    /\ At(r, "drop")
    /\ Go(r, "idle")
    /\ FallAndSchedule
    /\ Cuts
    /\ UNCHANGED <<wireVars, overtaken, hostVars, stray>>

\* Subscriptions, sync and outbox have been replayed, each best-effort.
Resumed(r) ==
    /\ At(r, "resume")
    /\ Go(r, "idle")
    /\ CancelReconnect
    /\ UNCHANGED <<machineVars, wireVars, historyVars, hostVars, stray>>

-----------------------------------------------------------------------------
(* The idle heartbeat.                                                     *)

\* The timer of heartbeatTick fires: dropped unless authenticated.  Recent
\* traffic re-arms it, which changes nothing here.
BeatLapses ==
    /\ beat \/ stray
    /\ state # "authenticated"
    /\ beat' = FALSE
    /\ stray' = (beat /\ stray)
    /\ UNCHANGED <<state, readiness, syncs, cycleVars, wireVars, historyVars, hostVars, pc>>

\* heartbeatTimer is cleared by whichever timer fires.
Beat(g) ==
    /\ beat \/ stray
    /\ state = "authenticated"
    /\ At(g, "idle")
    /\ beat' = FALSE
    /\ stray' = (beat /\ stray)
    /\ Go(g, "ping")
    /\ Send(g)
    /\ UNCHANGED <<state, readiness, syncs, cycleVars, historyVars, hostVars>>

Pong_Slip(g) ==
    /\ At(g, "ping") /\ g \notin stale
    /\ Go(g, "idle")
    /\ Unwire(g)
    /\ UNCHANGED <<beat, stray, state, readiness, syncs, cycleVars, historyVars, hostVars>>

\* Re-armed without looking at a timer that a login has armed meanwhile.
Pong(g) ==
    /\ At(g, "ping") /\ g \notin stale
    /\ Go(g, "idle")
    /\ Unwire(g)
    /\ IF state = "authenticated"
       THEN beat' = TRUE /\ stray' = (beat \/ stray)
       ELSE UNCHANGED <<beat, stray>>
    /\ UNCHANGED <<state, readiness, syncs, cycleVars, historyVars, hostVars>>

\* No answer: close the transport, the close handler does the rest.
PingFails(g) ==
    /\ At(g, "ping")
    /\ Go(g, "idle")
    /\ CloseLink
    /\ UNCHANGED <<machineVars, cycleVars, historyVars, hostVars, stray>>

-----------------------------------------------------------------------------
Resume(f) ==
    \/ Connected(f) \/ ConnectFails(f) \/ Disconnected(f)
    \/ Authorized(f) \/ AuthThrows(f) \/ AuthRefused(f) \/ AuthTerminal(f)
    \/ AuthExpired(f) \/ Renewed(f) \/ Denied(f) \/ LocalFails(f) \/ LoggedIn(f)
    \/ RedialFails(f) \/ Redialed(f) \/ RedialedForNobody(f)
    \/ Dropped(f) \/ Resumed(f)
    \/ Pong(f) \/ PingFails(f)

Call(h) == Connect(h) \/ Authenticate(h) \/ Disconnect(h) \/ Dispose(h)

Next ==
    \/ \E h \in Hosts : Call(h)
    \/ \E f \in Tasks : Resume(f)
    \/ \E r \in Replays : AttemptReconnect(r)
    \/ \E g \in Pings : Beat(g)
    \/ RefreshSettles \/ CriticalSyncEnds
    \/ LinkDrops \/ CloseReported \/ TimerLapses \/ BeatLapses

Spec == Init /\ [][Next]_vars

\* Awaited promises settle, timers fire and closes are reported.  Nothing is
\* assumed of the network, the server or the host.
Fairness ==
    /\ \A f \in Tasks : WF_vars(Resume(f))
    /\ WF_vars(\E r \in Replays : AttemptReconnect(r))
    /\ WF_vars(TimerLapses)
    /\ WF_vars(CloseReported)
    /\ WF_vars(RefreshSettles)

FairSpec == Spec /\ Fairness

-----------------------------------------------------------------------------
\* The startup readiness never outlives its connection: whatever login, drop or
\* disconnect a critical sync races, its answer does not revive the readiness of
\* a connection that is down (criticalSyncGeneration).
ReadinessFollowsConnection ==
    state \in DownStates => readiness = "disconnected"

\* One reset of the cycle allows at most MaxAttempts dials, however many drops,
\* failed logins and close reports ask for another (scheduleReconnect).
DialsWithinBudget == dials <= attempt /\ attempt <= MaxAttempts

\* disconnect() is final: once it has returned, and unless it overtook a login
\* or an attempt that was still running, the client is down, holds no
\* credentials and no timer until the host calls connect again.
DisconnectIsFinal ==
    byUser /\ ~overtaken /\ Waiting({"hangup", "shutdown", "dial"}) = {}
    => state = "disconnected" /\ ~lastAuth /\ ~timer /\ ~link

Trying == timer \/ Waiting({"redial", "drop", "auth", "reauth", "refresh",
                            "renewed", "denied", "local"}) # {}

\* A client that shows `reconnecting` and holds credentials is trying to, unless
\* the link was lost while an earlier attempt was still replaying its state (see
\* ReconnectingIsTrying).
ReconnectingUnlessCut ==
    state = "reconnecting" /\ lastAuth /\ ~byUser /\ ~cut => Trying

\* An authenticated link is watched: a heartbeat is armed or on the wire,
\* through logins, refreshes and overlapping timers.
LinkIsWatched ==
    state = "authenticated" /\ link => beat \/ stray \/ Waiting({"ping"}) # {}

\* Reconnecting ends whatever the network and the server do: in a session or in
\* a given-up cycle, unless the host disconnects, the credentials are refused or
\* the cycle is cut (see ReconnectingIsTrying).
ReconnectEnds ==
    state = "reconnecting" ~>
        \/ state \in {"authenticated", "disconnected"}
        \/ byUser \/ ~lastAuth \/ cut

-----------------------------------------------------------------------------
(* What a comment says, and run reconnect_lost refutes.                    *)

\* "otherwise schedule reconnect" (handleTransportClose): a client that shows
\* `reconnecting` has a timer armed or an attempt running.
ReconnectingIsTrying ==
    state = "reconnecting" /\ lastAuth /\ ~byUser => Trying
=============================================================================
