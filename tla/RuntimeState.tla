---------------------------- MODULE RuntimeState ----------------------------
(***************************************************************************)
(* The runtime projection a UI reads (src/runtime/client-runtime.ts): it   *)
(* is told of the connection, the startup readiness, expired credentials,  *)
(* the outbox and the browser's reachability, one callback at a time, and  *)
(* resolves one banner of all of them.  A page may create it when the      *)
(* client is already running.  What the client does is what module         *)
(* Connection lets it do, events included.                                 *)
(* `loose` is history: what the one slot for an error has forgotten.       *)
(* Names ending in _Slip are deliberate errors nothing uses: see README.   *)
(***************************************************************************)
EXTENDS Naturals

VARIABLES
    link,       \* client: its connection state
    readiness,  \* client: its SyncReadiness
    online,     \* browser: navigator.onLine
    expired,    \* client: it has told the runtime of expired credentials and not
                \* logged in since
    queued,     \* outbox: entries, pending, sending or failed
    live,       \* the runtime exists
    slice,      \* runtime: the connectivity slice
    syncing,    \* runtime: resumeSyncRunning of the sync slice
    hadSession, \* runtime: the flag of that name
    feed,       \* integration: a sync it has marked started and not ended
    loose       \* history: "overruled" when an error took the place of auth_expired

clientVars  == <<link, readiness, online, expired, queued>>
runtimeVars == <<clientVars, live, slice, syncing, hadSession, feed, loose>>

Links == {"disconnected", "connecting", "connected", "authenticating", "authenticated",
          "reconnecting", "closing"}
Down == {"disconnected", "reconnecting", "closing"}
Readiness == {"disconnected", "authenticated", "syncing_critical", "ready", "critical_failed"}
Errors == {"none", "auth_expired", "gateway_disconnected", "network_unavailable", "server_busy"}

Fresh == [reachable |-> TRUE, gateway |-> FALSE, authenticated |-> FALSE,
          reconnecting |-> FALSE, busy |-> FALSE, error |-> "none"]

RuntimeTypeOK ==
    /\ link \in Links /\ readiness \in Readiness
    /\ {online, expired, live, syncing, hadSession, feed} \subseteq BOOLEAN
    /\ queued \in 0..1
    /\ slice \in [reachable : BOOLEAN, gateway : BOOLEAN, authenticated : BOOLEAN,
                  reconnecting : BOOLEAN, busy : BOOLEAN, error : Errors]
    /\ loose \subseteq {"overruled"}

RuntimeInit ==
    /\ link = "disconnected" /\ readiness = "disconnected" /\ online \in BOOLEAN
    /\ expired = FALSE /\ queued = 0
    /\ live = FALSE /\ slice = Fresh /\ syncing = FALSE /\ hadSession = FALSE
    /\ feed = FALSE /\ loose = {}

-----------------------------------------------------------------------------
(* What the callbacks make of the slices.                                  *)

\* A disconnect says why, whatever was said before.
ApplyConnectionState(s, c, had) ==
    CASE s = "authenticated" ->
            [c EXCEPT !.gateway = TRUE, !.authenticated = TRUE, !.reconnecting = FALSE,
                      !.busy = FALSE, !.error = "none"]
      [] s \in {"connected", "authenticating"} ->
            [c EXCEPT !.gateway = TRUE, !.authenticated = FALSE, !.reconnecting = had]
      [] s = "connecting" ->
            [c EXCEPT !.gateway = FALSE, !.authenticated = FALSE, !.reconnecting = had]
      [] s = "reconnecting" ->
            [c EXCEPT !.gateway = FALSE, !.authenticated = FALSE, !.reconnecting = TRUE]
      [] OTHER ->
            [c EXCEPT !.gateway = FALSE, !.authenticated = FALSE, !.reconnecting = had,
                      !.error = IF c.reachable THEN "gateway_disconnected" ELSE "network_unavailable"]

SetReachable(on, c) ==
    [c EXCEPT !.reachable = on, !.error = IF on THEN @ ELSE "network_unavailable"]

AuthLost(c) ==
    [c EXCEPT !.authenticated = FALSE, !.reconnecting = FALSE, !.error = "auth_expired"]

ClearServerBusy(c) ==
    [c EXCEPT !.busy = FALSE, !.error = IF @ = "server_busy" THEN "none" ELSE @]

Busy(c) == [c EXCEPT !.busy = TRUE, !.error = "server_busy"]

\* A readiness that is not of the sync slice leaves it alone.
SyncRunning(r, was) ==
    CASE r = "syncing_critical" -> TRUE
      [] r \in {"ready", "critical_failed"} -> FALSE
      [] OTHER -> was

\* resolveRuntimeBanner, once the connection flow has started.
Banner ==
    IF slice.error = "auth_expired" THEN "auth_expired"
    ELSE IF ~slice.reachable THEN "offline"
    ELSE IF slice.authenticated
         THEN IF slice.busy THEN "server_busy" ELSE IF syncing THEN "syncing" ELSE "hidden"
    ELSE IF slice.reconnecting THEN "reconnecting"
    ELSE IF slice.gateway THEN "connecting" ELSE "offline"

\* The slice takes c; another error may take the place of an expired session.
Shown(c) ==
    /\ slice' = IF live THEN c ELSE slice
    /\ loose' = IF live /\ slice.error = "auth_expired" /\ c.error \notin {"auth_expired", "none"}
                THEN {"overruled"} ELSE loose

-----------------------------------------------------------------------------
(* The client, as Connection has it.                                       *)

Steps ==
    [disconnected   |-> {"connecting", "closing"},
     connecting     |-> {"connected", "disconnected", "closing"},
     connected      |-> {"authenticating", "reconnecting", "disconnected", "closing"},
     authenticating |-> {"authenticated", "connected", "reconnecting", "disconnected", "closing"},
     authenticated  |-> {"reconnecting", "disconnected", "closing"},
     reconnecting   |-> {"connected", "disconnected", "closing"},
     closing        |-> {"disconnected"}]

\* setState says the readiness is gone before it says the connection is.
SetState ==
    \E s \in Steps[link] :
        /\ link' = s
        /\ readiness' = IF s \in Down THEN "disconnected"
                        ELSE IF s = "authenticated" THEN "authenticated" ELSE readiness
        /\ expired' = (expired /\ s # "authenticated")
        /\ Shown(ApplyConnectionState(s, slice, hadSession))
        /\ hadSession' = (hadSession \/ (live /\ s = "authenticated"))
        /\ UNCHANGED <<online, queued, live, syncing, feed>>

\* The event before the state.
AuthRefused_Slip ==
    /\ link = "authenticating"
    /\ \E s \in {"disconnected", "connected"} :
        /\ link' = s
        /\ readiness' = IF s \in Down THEN "disconnected" ELSE readiness
        /\ slice' = IF live THEN ApplyConnectionState(s, AuthLost(slice), hadSession) ELSE slice
    /\ expired' = (expired \/ live)
    /\ UNCHANGED <<online, queued, live, syncing, hadSession, feed, loose>>

\* A login the server refuses: the state first, then auth_expired.
AuthRefused ==
    /\ link = "authenticating"
    /\ \E s \in {"disconnected", "connected"} :
        /\ link' = s
        /\ readiness' = IF s \in Down THEN "disconnected" ELSE readiness
        /\ Shown(AuthLost(ApplyConnectionState(s, slice, hadSession)))
    /\ expired' = (expired \/ live)
    /\ UNCHANGED <<online, queued, live, syncing, hadSession, feed>>

CriticalSync ==
    /\ link = "authenticated"
    /\ \E r \in CASE readiness = "authenticated" -> {"syncing_critical", "ready"}
                  [] readiness = "syncing_critical" -> {"ready", "critical_failed"}
                  [] OTHER -> {"syncing_critical"} :
        /\ readiness' = r
        /\ syncing' = IF live THEN SyncRunning(r, syncing) ELSE syncing
        /\ Shown(IF r = "ready" THEN ClearServerBusy(slice) ELSE slice)
    /\ UNCHANGED <<link, online, expired, queued, live, hadSession, feed>>

OutboxChanges ==
    /\ queued' = 1 - queued
    /\ Shown(IF queued' = 0 THEN ClearServerBusy(slice) ELSE slice)
    /\ UNCHANGED <<link, readiness, online, expired, live, syncing, hadSession, feed>>

BrowserGoes ==
    /\ online' = ~online
    /\ Shown(SetReachable(online', slice))
    /\ UNCHANGED <<link, readiness, expired, queued, live, syncing, hadSession, feed>>

-----------------------------------------------------------------------------
(* The page.                                                               *)

\* Not seeded with where the client stands.
CreateRuntime_Slip ==
    /\ ~live /\ live' = TRUE
    /\ slice' = IF online THEN Fresh ELSE SetReachable(FALSE, Fresh)
    /\ syncing' = SyncRunning(readiness, FALSE)
    /\ UNCHANGED <<clientVars, hadSession, feed, loose>>

\* createClientRuntime and seedConnectionState, in one tick.
CreateRuntime ==
    /\ ~live /\ live' = TRUE
    /\ slice' = ApplyConnectionState(link, IF online THEN Fresh ELSE SetReachable(FALSE, Fresh), FALSE)
    /\ hadSession' = (link = "authenticated")
    /\ syncing' = SyncRunning(readiness, FALSE)
    /\ UNCHANGED <<clientVars, feed, loose>>

MarkSyncStarted ==
    /\ live /\ ~feed /\ feed' = TRUE /\ syncing' = TRUE
    /\ UNCHANGED <<clientVars, live, slice, hadSession, loose>>

MarkSyncCompleted ==
    /\ live /\ feed /\ feed' = FALSE /\ syncing' = FALSE
    /\ Shown(ClearServerBusy(slice))
    /\ UNCHANGED <<clientVars, live, hadSession>>

MarkSyncFailed ==
    /\ live /\ feed /\ feed' = FALSE /\ syncing' = FALSE
    /\ \E busy \in BOOLEAN : Shown(IF busy THEN Busy(slice) ELSE slice)
    /\ UNCHANGED <<clientVars, live, hadSession>>

\* Something the server answered says it is busy; there is a session then.
ServerBusySignal ==
    /\ live /\ link = "authenticated"
    /\ Shown(Busy(slice))
    /\ UNCHANGED <<clientVars, live, syncing, hadSession, feed>>

\* A logout, after the client has disconnected.
ResetRuntime ==
    /\ live /\ link = "disconnected"
    /\ slice' = [Fresh EXCEPT !.reachable = slice.reachable]
    /\ syncing' = FALSE /\ hadSession' = FALSE /\ feed' = FALSE
    /\ expired' = FALSE /\ loose' = {}
    /\ UNCHANGED <<link, readiness, online, queued, live>>

\* The page goes; its listeners go with it.
DisposeRuntime ==
    /\ live /\ live' = FALSE
    /\ slice' = Fresh /\ syncing' = FALSE /\ hadSession' = FALSE /\ feed' = FALSE
    /\ loose' = {} /\ expired' = FALSE
    /\ UNCHANGED <<link, readiness, online, queued>>

RuntimeNext ==
    \/ SetState \/ AuthRefused \/ CriticalSync \/ OutboxChanges \/ BrowserGoes
    \/ CreateRuntime \/ MarkSyncStarted \/ MarkSyncCompleted \/ MarkSyncFailed
    \/ ServerBusySignal \/ ResetRuntime \/ DisposeRuntime

RuntimeSpec == RuntimeInit /\ [][RuntimeNext]_runtimeVars

-----------------------------------------------------------------------------
(***************************************************************************)
(* What the banner says is so: it is hidden, busy or syncing only over a   *)
(* session that is up and reachable, syncing only while the client or the  *)
(* integration syncs, and a session that is up is never shown as lost --   *)
(* from the moment the runtime is created, whatever the client was at.     *)
(***************************************************************************)
BannerIsTrue ==
    live =>
        /\ Banner \in {"hidden", "server_busy", "syncing"} => link = "authenticated" /\ online
        /\ Banner = "syncing" => feed \/ readiness \in {"authenticated", "syncing_critical"}
        /\ Banner \in {"reconnecting", "connecting", "auth_expired"} => link # "authenticated"
        /\ Banner = "offline" => ~online \/ link # "authenticated"

(***************************************************************************)
(* An expired session asks for a login until there is one, over every      *)
(* other banner, as the locked priority has it -- unless another error     *)
(* came after it: there is one slot for both.                              *)
(***************************************************************************)
ExpiryIsShown == (live /\ expired /\ loose = {}) => Banner = "auth_expired"
=============================================================================
