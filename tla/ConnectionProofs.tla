--------------------------- MODULE ConnectionProofs ---------------------------
(***************************************************************************)
(* The connection lifecycle for any number of host calls, reconnect        *)
(* attempts and pings, and any attempt budget: the inductive invariant     *)
(* Lifecycle and the safety properties of Connection that follow from it.  *)
(***************************************************************************)
EXTENDS Connection, TLAPS

\* The reconnect cycle's budget: a dial, or the timer that will make one, has
\* an attempt of its own.
Budgeted ==
    /\ dials <= attempt
    /\ timer => dials < attempt

\* A critical sync of the current generation runs only while the connection is
\* up; setState supersedes it with the readiness it drops.
Generations ==
    state \in DownStates => readiness = "disconnected" /\ "current" \notin syncs

\* After disconnect() or dispose(), while neither overtook a login or a cycle:
\* no link, timer, login or attempt; what is still held is held by a call that
\* will let go of it.
Ended ==
    byUser /\ ~overtaken =>
        /\ state \in {"closing", "disconnected"} /\ ~timer /\ ~link
        /\ \A f \in Tasks : pc[f] \notin Login \cup Cycle
        /\ \/ \E f \in Tasks : pc[f] \in {"hangup", "shutdown"}
           \/ state = "disconnected" /\ ~lastAuth

\* Only an attempt of the timer answers for `reconnecting` (a login of the host
\* may throw and leave the state as it is), and no earlier attempt is about to
\* cancel the timer.
Attempting == {"redial", "drop"} \cup Login

Resuming ==
    state = "reconnecting" /\ lastAuth /\ ~byUser /\ ~cut =>
        /\ \A f \in Tasks : pc[f] # "resume"
        /\ timer \/ \E r \in Tasks \ Hosts : pc[r] \in Attempting

Lifecycle ==
    /\ ConnTypeOK
    /\ Budgeted
    /\ Generations
    /\ Ended
    /\ Resuming
    /\ LinkIsWatched

-----------------------------------------------------------------------------
(* Type correctness and the budget of the cycle.                           *)

\* ConnTypeOK, in four parts.
FlagsOK ==
    /\ lastAuth \in BOOLEAN /\ byUser \in BOOLEAN /\ disposed \in BOOLEAN
    /\ timer \in BOOLEAN /\ beat \in BOOLEAN /\ stray \in BOOLEAN
    /\ link \in BOOLEAN /\ report \in BOOLEAN
    /\ overtaken \in BOOLEAN /\ cut \in BOOLEAN

PhaseOK ==
    /\ state \in States
    /\ readiness \in {"disconnected", "authenticated", "syncing_critical",
                      "critical_failed", "ready"}
    /\ syncs \subseteq {"current", "superseded"}

BudgetOK == attempt \in 0..MaxAttempts /\ dials \in 0..MaxAttempts

TasksOK ==
    /\ pc \in [Tasks -> Awaits]
    /\ stale \subseteq Tasks
    /\ \A f \in stale : pc[f] \in Wire

LEMMA TypeParts == ConnTypeOK <=> FlagsOK /\ PhaseOK /\ BudgetOK /\ TasksOK
<1>1. {lastAuth, byUser, disposed, timer, beat, stray,
       link, report, overtaken, cut} \subseteq BOOLEAN <=> FlagsOK
  BY DEF FlagsOK
<1>2. stale \subseteq {f \in Tasks : pc[f] \in Wire}
      <=> stale \subseteq Tasks /\ \A f \in stale : pc[f] \in Wire
  OBVIOUS
<1>3. QED
  BY <1>1, <1>2 DEF ConnTypeOK, PhaseOK, BudgetOK, TasksOK

LEMMA NextFlags ==
  ASSUME FlagsOK, Next
  PROVE  FlagsOK'
<1> USE DEF FlagsOK, Enter, Fall, CloseLink, OpenLink, Send, Unwire, Throw,
        ThrowTerminal, CancelReconnect, ScheduleReconnect, FallAndSchedule,
        Arm, Overtakes, Cuts, machineVars, cycleVars, wireVars, historyVars,
        hostVars
<1>1. CASE \E h \in Hosts : Call(h)
  BY <1>1 DEF Call, Connect, Authenticate, Disconnect, Dispose
<1>2. ASSUME NEW f \in Tasks, Resume(f) PROVE FlagsOK'
  <2>1. CASE Connected(f) \/ ConnectFails(f)
    BY <2>1 DEF Connected, ConnectFails
  <2>2. CASE Disconnected(f) \/ Authorized(f)
    BY <2>2 DEF Disconnected, Authorized
  <2>3. CASE AuthThrows(f) \/ AuthExpired(f)
    BY <2>3 DEF AuthThrows, AuthExpired
  <2>4. CASE AuthRefused(f) \/ LocalFails(f)
    BY <2>4 DEF AuthRefused, LocalFails
  <2>5. CASE AuthTerminal(f)
    BY <2>5 DEF AuthTerminal
  <2>6. CASE Denied(f)
    BY <2>6 DEF Denied
  <2>7. CASE Renewed(f) \/ LoggedIn(f)
    BY <2>7 DEF Renewed, LoggedIn
  <2>8. CASE RedialFails(f) \/ Redialed(f) \/ RedialedForNobody(f) \/ Dropped(f)
    BY <2>8 DEF RedialFails, Redialed, RedialedForNobody, Dropped
  <2>9. CASE Resumed(f) \/ Pong(f) \/ PingFails(f)
    BY <2>9 DEF Resumed, Pong, PingFails
  <2>10. QED
    BY <1>2, <2>1, <2>2, <2>3, <2>4, <2>5, <2>6, <2>7, <2>8, <2>9
    DEF Resume
<1>3. CASE \E r \in Replays : AttemptReconnect(r)
  BY <1>3 DEF AttemptReconnect
<1>4. CASE \E g \in Pings : Beat(g)
  BY <1>4 DEF Beat
<1>5. CASE RefreshSettles \/ CriticalSyncEnds
  BY <1>5 DEF RefreshSettles, CriticalSyncEnds
<1>6. CASE LinkDrops \/ CloseReported \/ TimerLapses \/ BeatLapses
  BY <1>6 DEF LinkDrops, CloseReported, TimerLapses, BeatLapses
<1>7. QED
  BY <1>1, <1>2, <1>3, <1>4, <1>5, <1>6 DEF Next

LEMMA NextPhase ==
  ASSUME PhaseOK, Next
  PROVE  PhaseOK'
<1> USE DEF PhaseOK, States, DownStates, Enter, Fall, Superseded,
        ScheduleReconnect, FallAndSchedule, machineVars
<1>1. ASSUME NEW h \in Hosts, Call(h) PROVE PhaseOK'
  <2>1. CASE Connect(h)
    BY <2>1 DEF Connect
  <2>2. CASE Authenticate(h)
    BY <2>2 DEF Authenticate
  <2>3. CASE Disconnect(h)
    BY <2>3 DEF Disconnect
  <2>4. CASE Dispose(h)
    BY <2>4 DEF Dispose
  <2>5. QED
    BY <1>1, <2>1, <2>2, <2>3, <2>4 DEF Call
<1>2. ASSUME NEW f \in Tasks, Resume(f) PROVE PhaseOK'
  <2>1. CASE Connected(f) \/ ConnectFails(f)
    BY <2>1 DEF Connected, ConnectFails
  <2>2. CASE Disconnected(f) \/ Authorized(f)
    BY <2>2 DEF Disconnected, Authorized
  <2>3. CASE AuthThrows(f) \/ AuthExpired(f)
    BY <2>3 DEF AuthThrows, AuthExpired
  <2>4. CASE AuthRefused(f) \/ LocalFails(f)
    BY <2>4 DEF AuthRefused, LocalFails
  <2>5. CASE AuthTerminal(f)
    BY <2>5 DEF AuthTerminal
  <2>6. CASE Denied(f)
    BY <2>6 DEF Denied
  <2>7. CASE Renewed(f) \/ LoggedIn(f)
    BY <2>7 DEF Renewed, LoggedIn
  <2>8. CASE RedialFails(f) \/ Redialed(f) \/ RedialedForNobody(f) \/ Dropped(f)
    BY <2>8 DEF RedialFails, Redialed, RedialedForNobody, Dropped
  <2>9. CASE Resumed(f) \/ Pong(f) \/ PingFails(f)
    BY <2>9 DEF Resumed, Pong, PingFails
  <2>10. QED
    BY <1>2, <2>1, <2>2, <2>3, <2>4, <2>5, <2>6, <2>7, <2>8, <2>9
    DEF Resume
<1>3. CASE \E r \in Replays : AttemptReconnect(r)
  BY <1>3 DEF AttemptReconnect
<1>4. CASE \E g \in Pings : Beat(g)
  BY <1>4 DEF Beat
<1>5. CASE RefreshSettles \/ CriticalSyncEnds
  BY <1>5 DEF RefreshSettles, CriticalSyncEnds
<1>6. CASE LinkDrops \/ CloseReported \/ TimerLapses \/ BeatLapses
  BY <1>6 DEF LinkDrops, CloseReported, TimerLapses, BeatLapses
<1>7. QED
  BY <1>1, <1>2, <1>3, <1>4, <1>5, <1>6 DEF Next

\* Arm is the only step that asks for a dial, and it raises attempt first;
\* AttemptReconnect turns the armed timer into the dial.
LEMMA NextBudget ==
  ASSUME FlagsOK, BudgetOK, Budgeted, Next
  PROVE  BudgetOK' /\ Budgeted'
<1> USE ConnectionAssumption DEF FlagsOK, BudgetOK, Budgeted, CancelReconnect,
        Exhausted, Arm, ThrowTerminal, ScheduleReconnect, FallAndSchedule,
        cycleVars
<1>1. ASSUME NEW h \in Hosts, Call(h) PROVE BudgetOK' /\ Budgeted'
  <2>1. CASE Connect(h)
    BY <2>1 DEF Connect
  <2>2. CASE Authenticate(h)
    BY <2>2 DEF Authenticate
  <2>3. CASE Disconnect(h)
    BY <2>3 DEF Disconnect
  <2>4. CASE Dispose(h)
    BY <2>4 DEF Dispose
  <2>5. QED
    BY <1>1, <2>1, <2>2, <2>3, <2>4 DEF Call
<1>2. ASSUME NEW f \in Tasks, Resume(f) PROVE BudgetOK' /\ Budgeted'
  <2>1. CASE Connected(f) \/ ConnectFails(f)
    BY <2>1 DEF Connected, ConnectFails
  <2>2. CASE Disconnected(f) \/ Authorized(f)
    BY <2>2 DEF Disconnected, Authorized
  <2>3. CASE AuthThrows(f) \/ AuthExpired(f)
    BY <2>3 DEF AuthThrows, AuthExpired
  <2>4. CASE AuthRefused(f) \/ LocalFails(f)
    BY <2>4 DEF AuthRefused, LocalFails
  <2>5. CASE AuthTerminal(f)
    BY <2>5 DEF AuthTerminal
  <2>6. CASE Denied(f)
    BY <2>6 DEF Denied
  <2>7. CASE Renewed(f) \/ LoggedIn(f)
    BY <2>7 DEF Renewed, LoggedIn
  <2>8. CASE RedialFails(f) \/ Redialed(f) \/ RedialedForNobody(f) \/ Dropped(f)
    BY <2>8 DEF RedialFails, Redialed, RedialedForNobody, Dropped
  <2>9. CASE Resumed(f) \/ Pong(f) \/ PingFails(f)
    BY <2>9 DEF Resumed, Pong, PingFails
  <2>10. QED
    BY <1>2, <2>1, <2>2, <2>3, <2>4, <2>5, <2>6, <2>7, <2>8, <2>9
    DEF Resume
<1>3. CASE \E r \in Replays : AttemptReconnect(r)
  BY <1>3 DEF AttemptReconnect
<1>4. CASE \E g \in Pings : Beat(g)
  BY <1>4 DEF Beat
<1>5. CASE RefreshSettles \/ CriticalSyncEnds
  BY <1>5 DEF RefreshSettles, CriticalSyncEnds
<1>6. CASE LinkDrops \/ CloseReported \/ TimerLapses \/ BeatLapses
  BY <1>6 DEF LinkDrops, CloseReported, TimerLapses, BeatLapses
<1>7. QED
  BY <1>1, <1>2, <1>3, <1>4, <1>5, <1>6 DEF Next

LEMMA NextTasks ==
  ASSUME TasksOK, Next
  PROVE  TasksOK'
<1> USE DEF TasksOK, Tasks, Awaits, Wire, Login, Cycle, At, Go, CloseLink,
        OpenLink, Send, Unwire, Throw, ThrowTerminal, wireVars
<1>1. ASSUME NEW h \in Hosts, Call(h) PROVE TasksOK'
  <2>1. CASE Connect(h)
    BY <2>1 DEF Connect
  <2>2. CASE Authenticate(h)
    BY <2>2 DEF Authenticate
  <2>3. CASE Disconnect(h)
    BY <2>3 DEF Disconnect
  <2>4. CASE Dispose(h)
    BY <2>4 DEF Dispose
  <2>5. QED
    BY <1>1, <2>1, <2>2, <2>3, <2>4 DEF Call
<1>2. ASSUME NEW f \in Tasks, Resume(f) PROVE TasksOK'
  <2>1. CASE Connected(f) \/ ConnectFails(f)
    BY <2>1 DEF Connected, ConnectFails
  <2>2. CASE Disconnected(f) \/ Authorized(f)
    BY <2>2 DEF Disconnected, Authorized
  <2>3. CASE AuthThrows(f) \/ AuthExpired(f)
    BY <2>3 DEF AuthThrows, AuthExpired
  <2>4. CASE AuthRefused(f) \/ LocalFails(f)
    BY <2>4 DEF AuthRefused, LocalFails
  <2>5. CASE AuthTerminal(f)
    BY <2>5 DEF AuthTerminal
  <2>6. CASE Denied(f)
    BY <2>6 DEF Denied
  <2>7. CASE Renewed(f) \/ LoggedIn(f)
    BY <2>7 DEF Renewed, LoggedIn
  <2>8. CASE RedialFails(f) \/ Redialed(f) \/ RedialedForNobody(f) \/ Dropped(f)
    BY <2>8 DEF RedialFails, Redialed, RedialedForNobody, Dropped
  <2>9. CASE Resumed(f) \/ Pong(f) \/ PingFails(f)
    BY <2>9 DEF Resumed, Pong, PingFails
  <2>10. QED
    BY <1>2, <2>1, <2>2, <2>3, <2>4, <2>5, <2>6, <2>7, <2>8, <2>9
    DEF Resume
<1>3. CASE \E r \in Replays : AttemptReconnect(r)
  BY <1>3 DEF AttemptReconnect
<1>4. CASE \E g \in Pings : Beat(g)
  BY <1>4 DEF Beat
<1>5. CASE RefreshSettles \/ CriticalSyncEnds
  BY <1>5 DEF RefreshSettles, CriticalSyncEnds
<1>6. CASE LinkDrops \/ CloseReported \/ TimerLapses \/ BeatLapses
  BY <1>6 DEF LinkDrops, CloseReported, TimerLapses, BeatLapses
<1>7. QED
  BY <1>1, <1>2, <1>3, <1>4, <1>5, <1>6 DEF Next

-----------------------------------------------------------------------------
(* Each of the other parts is kept by every step.                         *)

\* Every way into a down state supersedes the running critical sync with the
\* readiness it drops, and only a current one writes the readiness back.
LEMMA NextGenerations ==
  ASSUME FlagsOK, PhaseOK, Generations, Next
  PROVE  Generations'
<1> USE DEF PhaseOK, Generations, States, DownStates, Enter, Fall, Superseded,
        ScheduleReconnect, FallAndSchedule, machineVars
<1>1. ASSUME NEW h \in Hosts, Call(h) PROVE Generations'
  <2>1. CASE Connect(h)
    BY <2>1 DEF Connect
  <2>2. CASE Authenticate(h)
    BY <2>2 DEF Authenticate
  <2>3. CASE Disconnect(h)
    BY <2>3 DEF Disconnect
  <2>4. CASE Dispose(h)
    BY <2>4 DEF Dispose
  <2>5. QED
    BY <1>1, <2>1, <2>2, <2>3, <2>4 DEF Call
<1>2. ASSUME NEW f \in Tasks, Resume(f) PROVE Generations'
  <2>1. CASE Connected(f) \/ ConnectFails(f)
    BY <2>1 DEF Connected, ConnectFails
  <2>2. CASE Disconnected(f) \/ Authorized(f)
    BY <2>2 DEF Disconnected, Authorized
  <2>3. CASE AuthThrows(f) \/ AuthExpired(f)
    BY <2>3 DEF AuthThrows, AuthExpired
  <2>4. CASE AuthRefused(f) \/ LocalFails(f)
    BY <2>4 DEF AuthRefused, LocalFails
  <2>5. CASE AuthTerminal(f)
    BY <2>5 DEF AuthTerminal
  <2>6. CASE Denied(f)
    BY <2>6 DEF Denied
  <2>7. CASE Renewed(f) \/ LoggedIn(f)
    BY <2>7 DEF Renewed, LoggedIn
  <2>8. CASE RedialFails(f) \/ Redialed(f) \/ RedialedForNobody(f) \/ Dropped(f)
    BY <2>8 DEF RedialFails, Redialed, RedialedForNobody, Dropped
  <2>9. CASE Resumed(f) \/ Pong(f) \/ PingFails(f)
    BY <2>9 DEF Resumed, Pong, PingFails
  <2>10. QED
    BY <1>2, <2>1, <2>2, <2>3, <2>4, <2>5, <2>6, <2>7, <2>8, <2>9
    DEF Resume
<1>3. CASE \E r \in Replays : AttemptReconnect(r)
  BY <1>3 DEF AttemptReconnect
<1>4. CASE \E g \in Pings : Beat(g)
  BY <1>4 DEF Beat
<1>5. CASE RefreshSettles \/ CriticalSyncEnds
  BY <1>5 DEF RefreshSettles, CriticalSyncEnds
<1>6. CASE LinkDrops \/ CloseReported \/ TimerLapses \/ BeatLapses
  BY <1>6 DEF LinkDrops, CloseReported, TimerLapses, BeatLapses
<1>7. QED
  BY <1>1, <1>2, <1>3, <1>4, <1>5, <1>6 DEF Next

\* A login arms the heartbeat; from then on a timer that fires becomes a ping,
\* and a ping re-arms it or closes the link.
LEMMA NextWatched ==
  ASSUME FlagsOK, PhaseOK, TasksOK, LinkIsWatched, Next
  PROVE  LinkIsWatched'
<1> USE DEF FlagsOK, PhaseOK, TasksOK, States, LinkIsWatched, Waiting,
        DownStates, Enter, Fall, At, Go, CloseLink, OpenLink, Send, Unwire,
        Throw, ThrowTerminal, ScheduleReconnect, FallAndSchedule, machineVars,
        wireVars
<1>1. ASSUME NEW h \in Hosts, Call(h) PROVE LinkIsWatched'
  <2>1. CASE Connect(h)
    BY <2>1 DEF Connect
  <2>2. CASE Authenticate(h)
    BY <2>2 DEF Authenticate
  <2>3. CASE Disconnect(h)
    BY <2>3 DEF Disconnect
  <2>4. CASE Dispose(h)
    BY <2>4 DEF Dispose
  <2>5. QED
    BY <1>1, <2>1, <2>2, <2>3, <2>4 DEF Call
<1>2. ASSUME NEW f \in Tasks, Resume(f) PROVE LinkIsWatched'
  <2>1. CASE Connected(f) \/ ConnectFails(f)
    BY <2>1 DEF Connected, ConnectFails
  <2>2. CASE Disconnected(f) \/ Authorized(f)
    BY <2>2 DEF Disconnected, Authorized
  <2>3. CASE AuthThrows(f) \/ AuthExpired(f)
    BY <2>3 DEF AuthThrows, AuthExpired
  <2>4. CASE AuthRefused(f) \/ LocalFails(f)
    BY <2>4 DEF AuthRefused, LocalFails
  <2>5. CASE AuthTerminal(f)
    BY <2>5 DEF AuthTerminal
  <2>6. CASE Denied(f)
    BY <2>6 DEF Denied
  <2>7. CASE Renewed(f) \/ LoggedIn(f)
    BY <2>7 DEF Renewed, LoggedIn
  <2>8. CASE RedialFails(f) \/ Redialed(f) \/ RedialedForNobody(f) \/ Dropped(f)
    BY <2>8 DEF RedialFails, Redialed, RedialedForNobody, Dropped
  <2>9. CASE Resumed(f) \/ Pong(f) \/ PingFails(f)
    BY <2>9 DEF Resumed, Pong, PingFails
  <2>10. QED
    BY <1>2, <2>1, <2>2, <2>3, <2>4, <2>5, <2>6, <2>7, <2>8, <2>9
    DEF Resume
<1>3. CASE \E r \in Replays : AttemptReconnect(r)
  BY <1>3 DEF AttemptReconnect
<1>4. ASSUME NEW g \in Pings, Beat(g) PROVE LinkIsWatched'
  <2>1. g \in Tasks /\ pc'[g] = "ping"
    BY <1>4 DEF Beat, Tasks
  <2>2. QED
    BY <2>1
<1>5. CASE RefreshSettles \/ CriticalSyncEnds
  BY <1>5 DEF RefreshSettles, CriticalSyncEnds
<1>6. CASE LinkDrops \/ CloseReported \/ TimerLapses \/ BeatLapses
  BY <1>6 DEF LinkDrops, CloseReported, TimerLapses, BeatLapses
<1>7. QED
  BY <1>1, <1>2, <1>3, <1>4, <1>5, <1>6 DEF Next

\* A host call of disconnect or dispose finds no login and no cycle, or records
\* that it overtook one; with none running, and no link, nothing starts one.
LEMMA NextEnded ==
  ASSUME FlagsOK, PhaseOK, TasksOK, Ended, Next
  PROVE  Ended'
<1> USE DEF FlagsOK, PhaseOK, TasksOK, States, Ended, Waiting, DownStates,
        Enter, Fall, At, Go, CloseLink, OpenLink, Send, Unwire, Throw,
        ThrowTerminal, Overtakes, Login, Cycle, CancelReconnect, Arm,
        Exhausted, ScheduleReconnect, FallAndSchedule, machineVars, wireVars,
        hostVars, historyVars, cycleVars
<1>1. ASSUME NEW h \in Hosts, Call(h) PROVE Ended'
  <2>1. CASE Connect(h)
    BY <2>1 DEF Connect
  <2>2. CASE Authenticate(h)
    BY <2>2 DEF Authenticate
  <2>3. CASE Disconnect(h)
    <3>1. /\ byUser' /\ ~timer' /\ ~link' /\ state' = "closing"
          /\ h \in Tasks /\ pc' = [pc EXCEPT ![h] = "hangup"]
          /\ ~overtaken' => \A f \in Tasks : pc[f] \notin Login \cup Cycle
      BY <2>3 DEF Disconnect, Tasks
    <3>2. pc'[h] = "hangup" /\ \A f \in Tasks : pc'[f] \in {pc[f], "hangup"}
      BY <3>1
    <3>3. ~overtaken' => \A f \in Tasks : pc'[f] \notin Login \cup Cycle
      BY <3>1, <3>2
    <3>4. QED
      BY <3>1, <3>2, <3>3
  <2>4. CASE Dispose(h)
    <3>1. CASE byUser
      BY <2>4, <3>1 DEF Dispose
    <3>2. CASE ~byUser
      <4>1. /\ byUser' /\ ~timer' /\ ~link' /\ state' = "closing"
            /\ h \in Tasks /\ pc' = [pc EXCEPT ![h] = "shutdown"]
            /\ ~overtaken' => \A f \in Tasks : pc[f] \notin Login \cup Cycle
        BY <2>4, <3>2 DEF Dispose, Tasks
      <4>2. /\ pc'[h] = "shutdown"
            /\ \A f \in Tasks : pc'[f] \in {pc[f], "shutdown"}
        BY <4>1
      <4>3. ~overtaken' => \A f \in Tasks : pc'[f] \notin Login \cup Cycle
        BY <4>1, <4>2
      <4>4. QED
        BY <4>1, <4>2, <4>3
    <3>3. QED
      BY <3>1, <3>2
  <2>5. QED
    BY <1>1, <2>1, <2>2, <2>3, <2>4 DEF Call
<1>2. ASSUME NEW f \in Tasks, Resume(f) PROVE Ended'
  <2>1. CASE Connected(f) \/ ConnectFails(f)
    BY <2>1 DEF Connected, ConnectFails
  <2>2. CASE Disconnected(f) \/ Authorized(f)
    BY <2>2 DEF Disconnected, Authorized
  <2>3. CASE AuthThrows(f) \/ AuthExpired(f)
    BY <2>3 DEF AuthThrows, AuthExpired
  <2>4. CASE AuthRefused(f) \/ LocalFails(f)
    BY <2>4 DEF AuthRefused, LocalFails
  <2>5. CASE AuthTerminal(f)
    BY <2>5 DEF AuthTerminal
  <2>6. CASE Denied(f)
    BY <2>6 DEF Denied
  <2>7. CASE Renewed(f) \/ LoggedIn(f)
    BY <2>7 DEF Renewed, LoggedIn
  <2>8. CASE RedialFails(f) \/ Redialed(f) \/ RedialedForNobody(f) \/ Dropped(f)
    BY <2>8 DEF RedialFails, Redialed, RedialedForNobody, Dropped
  <2>9. CASE Resumed(f) \/ Pong(f) \/ PingFails(f)
    BY <2>9 DEF Resumed, Pong, PingFails
  <2>10. QED
    BY <1>2, <2>1, <2>2, <2>3, <2>4, <2>5, <2>6, <2>7, <2>8, <2>9
    DEF Resume
<1>3. CASE \E r \in Replays : AttemptReconnect(r)
  BY <1>3 DEF AttemptReconnect
<1>4. CASE \E g \in Pings : Beat(g)
  BY <1>4 DEF Beat
<1>5. CASE RefreshSettles \/ CriticalSyncEnds
  BY <1>5 DEF RefreshSettles, CriticalSyncEnds
<1>6. CASE LinkDrops \/ CloseReported \/ TimerLapses \/ BeatLapses
  BY <1>6 DEF LinkDrops, CloseReported, TimerLapses, BeatLapses
<1>7. QED
  BY <1>1, <1>2, <1>3, <1>4, <1>5, <1>6 DEF Next

\* `reconnecting` is entered with the timer armed; the timer becomes an attempt
\* of the cycle, and that attempt ends in another state or in another timer.
LEMMA NextResuming ==
  ASSUME FlagsOK, PhaseOK, TasksOK, Resuming, Next
  PROVE  Resuming'
<1> USE DEF FlagsOK, PhaseOK, TasksOK, States, Resuming, Waiting, DownStates,
        Enter, Fall, At, Go, Throw, ThrowTerminal, Cuts, Login, Attempting,
        CancelReconnect, Arm, Exhausted, ScheduleReconnect, FallAndSchedule,
        machineVars, cycleVars, hostVars, historyVars
<1>1. ASSUME NEW h \in Hosts, Call(h) PROVE Resuming'
  <2>1. CASE Connect(h)
    BY <2>1 DEF Connect
  <2>2. CASE Authenticate(h)
    BY <2>2 DEF Authenticate
  <2>3. CASE Disconnect(h)
    BY <2>3 DEF Disconnect
  <2>4. CASE Dispose(h)
    BY <2>4 DEF Dispose
  <2>5. QED
    BY <1>1, <2>1, <2>2, <2>3, <2>4 DEF Call
<1>2. ASSUME NEW f \in Tasks, Resume(f) PROVE Resuming'
  <2>1. CASE Connected(f) \/ ConnectFails(f)
    BY <2>1 DEF Connected, ConnectFails
  <2>2. CASE Disconnected(f) \/ Authorized(f)
    BY <2>2 DEF Disconnected, Authorized
  <2>3. CASE AuthThrows(f) \/ AuthExpired(f)
    BY <2>3 DEF AuthThrows, AuthExpired
  <2>4. CASE AuthRefused(f) \/ LocalFails(f)
    BY <2>4 DEF AuthRefused, LocalFails
  <2>5. CASE AuthTerminal(f)
    BY <2>5 DEF AuthTerminal
  <2>6. CASE Denied(f)
    BY <2>6 DEF Denied
  <2>7. CASE Renewed(f) \/ LoggedIn(f)
    BY <2>7 DEF Renewed, LoggedIn
  <2>8. CASE RedialFails(f) \/ Redialed(f) \/ RedialedForNobody(f) \/ Dropped(f)
    BY <2>8 DEF RedialFails, Redialed, RedialedForNobody, Dropped
  <2>9. CASE Resumed(f) \/ Pong(f) \/ PingFails(f)
    BY <2>9 DEF Resumed, Pong, PingFails
  <2>10. QED
    BY <1>2, <2>1, <2>2, <2>3, <2>4, <2>5, <2>6, <2>7, <2>8, <2>9
    DEF Resume
<1>3. ASSUME NEW r \in Replays, AttemptReconnect(r) PROVE Resuming'
  <2>1. r \in Tasks \ Hosts /\ pc' = [pc EXCEPT ![r] = "redial"]
    BY <1>3, ConnectionAssumption DEF AttemptReconnect, Tasks
  <2>2. pc'[r] \in Attempting /\ \A f \in Tasks : pc'[f] \in {pc[f], "redial"}
    BY <2>1
  <2>3. QED
    BY <1>3, <2>1, <2>2 DEF AttemptReconnect
<1>4. CASE \E g \in Pings : Beat(g)
  BY <1>4 DEF Beat
<1>5. CASE RefreshSettles \/ CriticalSyncEnds
  BY <1>5 DEF RefreshSettles, CriticalSyncEnds
<1>6. CASE LinkDrops \/ CloseReported \/ TimerLapses \/ BeatLapses
  BY <1>6 DEF LinkDrops, CloseReported, TimerLapses, BeatLapses
<1>7. QED
  BY <1>1, <1>2, <1>3, <1>4, <1>5, <1>6 DEF Next

-----------------------------------------------------------------------------
(* The invariant.                                                          *)

LEMMA InitLifecycle == Init => Lifecycle
<1> SUFFICES ASSUME Init PROVE Lifecycle
  OBVIOUS
<1>1. FlagsOK /\ PhaseOK /\ BudgetOK /\ TasksOK
  <2>1. FlagsOK /\ PhaseOK
    BY DEF Init, FlagsOK, PhaseOK, States
  <2>2. BudgetOK
    BY ConnectionAssumption DEF Init, BudgetOK
  <2>3. TasksOK
    BY DEF Init, TasksOK, Awaits
  <2>4. QED
    BY <2>1, <2>2, <2>3
<1>2. Budgeted /\ Generations /\ Ended /\ Resuming /\ LinkIsWatched
  BY DEF Init, Budgeted, Generations, Ended, Resuming, LinkIsWatched
<1>3. QED
  BY <1>1, <1>2, TypeParts DEF Lifecycle

LEMMA NextLifecycle == Lifecycle /\ [Next]_vars => Lifecycle'
<1> SUFFICES ASSUME Lifecycle, [Next]_vars PROVE Lifecycle'
  OBVIOUS
<1>1. CASE Next
  <2>1. FlagsOK /\ PhaseOK /\ BudgetOK /\ TasksOK
    BY TypeParts DEF Lifecycle
  <2>2. FlagsOK' /\ PhaseOK' /\ BudgetOK' /\ TasksOK' /\ Budgeted'
    BY <1>1, <2>1, NextFlags, NextPhase, NextBudget, NextTasks DEF Lifecycle
  <2>3. Generations' /\ Ended' /\ Resuming' /\ LinkIsWatched'
    BY <1>1, <2>1, NextGenerations, NextEnded, NextResuming, NextWatched
    DEF Lifecycle
  <2>4. ConnTypeOK'
    BY <2>2, TypeParts, PTL
  <2>5. QED
    BY <2>2, <2>3, <2>4 DEF Lifecycle
<1>2. CASE UNCHANGED vars
  BY <1>2 DEF Lifecycle, ConnTypeOK, Budgeted, Generations, Ended, Resuming,
              LinkIsWatched, Waiting, vars, machineVars, cycleVars, wireVars,
              historyVars, hostVars
<1>3. QED
  BY <1>1, <1>2

THEOREM LifecycleHolds == Spec => []Lifecycle
  BY InitLifecycle, NextLifecycle, PTL DEF Spec

-----------------------------------------------------------------------------
\* Every variable keeps its type, and only a call whose request is on the wire
\* can be stale.
THEOREM ConnTypeCorrect == Spec => []ConnTypeOK
<1>1. Lifecycle => ConnTypeOK
  BY DEF Lifecycle
<1>2. QED
  BY <1>1, LifecycleHolds, PTL

\* No answer of a critical sync, however late, makes a connection that is down
\* look started (setState, startCriticalSync).
THEOREM ReadinessIsCurrent == Spec => []ReadinessFollowsConnection
<1>1. Lifecycle => ReadinessFollowsConnection
  BY DEF Lifecycle, Generations, ReadinessFollowsConnection
<1>2. QED
  BY <1>1, LifecycleHolds, PTL

\* For any reconnect.maxAttempts the cycle dials at most that often between two
\* resets, whatever asks for a reconnect (scheduleReconnect, attemptReconnect).
THEOREM DialsAreBounded == Spec => []DialsWithinBudget
<1>1. Lifecycle => DialsWithinBudget
  BY ConnectionAssumption, TypeParts
  DEF Lifecycle, BudgetOK, Budgeted, DialsWithinBudget
<1>2. QED
  BY <1>1, LifecycleHolds, PTL

\* With any number of concurrent calls, a disconnect() that overtakes no login
\* leaves the client down, without credentials, timer or link.
THEOREM DisconnectEndsIt == Spec => []DisconnectIsFinal
<1>1. Lifecycle => DisconnectIsFinal
  BY DEF Lifecycle, Ended, DisconnectIsFinal, Waiting
<1>2. QED
  BY <1>1, LifecycleHolds, PTL

\* A client that shows `reconnecting`, with credentials and no attempt cut
\* short, has its timer armed or an attempt under way.
THEOREM ReconnectingIsOnItsWay == Spec => []ReconnectingUnlessCut
<1>1. Lifecycle => ReconnectingUnlessCut
  BY DEF Lifecycle, Resuming, ReconnectingUnlessCut, Trying, Waiting,
         Attempting, Login, Tasks
<1>2. QED
  BY <1>1, LifecycleHolds, PTL

\* Through any overlap of logins, timers and pings an authenticated link has a
\* heartbeat armed or on the wire.
THEOREM HeartbeatWatches == Spec => []LinkIsWatched
<1>1. Lifecycle => LinkIsWatched
  BY DEF Lifecycle
<1>2. QED
  BY <1>1, LifecycleHolds, PTL
===============================================================================
