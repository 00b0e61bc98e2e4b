----------------------------- MODULE Connection -----------------------------
(***************************************************************************)
(* The frontend's WebSocket across restarts of the backend: connect and    *)
(* reconnect of hooks/useWebSocket.ts, the recovery of                     *)
(* hooks/useSidecarLifecycle.ts, stores/connectionStore.ts, the cached     *)
(* port and token (lib/backend-port.ts, lib/auth-token.ts), the banner's   *)
(* buttons, and the desktop shell, which restarts a backend that has died  *)
(* (src-tauri/src/sidecar.rs).                                             *)
(*                                                                         *)
(* Backends are numbered in the order of their spawning, and the number    *)
(* stands for the token that the shell made for it. The two caches are     *)
(* cleared and filled together, so the token stands for both. Once         *)
(* enabled the hook stays so: backendConnected is never set back.          *)
(***************************************************************************)
EXTENDS Naturals, Sequences, FiniteSets

CONSTANTS
    MAX_AUTO_RESTART_ATTEMPTS,          \* restarts by the shell between two recoveries
    WEBSOCKET_RECONNECT_MAX_ATTEMPTS,   \* connections tried in a row
    MaxSockets,                         \* bound on the sockets at one time
    MaxUpsets                           \* bound on crashes, failures and users' clicks

ASSUME ConnectionBounds ==
    {MAX_AUTO_RESTART_ATTEMPTS, WEBSOCKET_RECONNECT_MAX_ATTEMPTS, MaxUpsets} \subseteq Nat
    /\ MaxSockets \in Nat \ {0}

VARIABLES
    backend, alive, listening,  \* the last backend, it lives, its port is known
    terminated,         \* Terminated events the shell has still to handle
    restarter,          \* "auto" and "manual": where the restart of each is
    restart_attempts,
    signals,            \* Tauri events under way to the frontend
    cachedToken,        \* 0: none
    connects,           \* calls of connect that wait for port and token
    sockets, wsRef,     \* the sockets, and the one the hook refers to (0: none)
    reconnectTimeout,   \* the retry timer is set
    attempt,
    status, sidecarState,   \* connectionStore
    recoveries,         \* calls of handleRecovery by the step they are at
    upsets,
    flaws               \* history: what excuses a broken connection

shellVars == <<backend, alive, listening, terminated, restarter, restart_attempts>>
socketVars == <<connects, sockets, wsRef, reconnectTimeout, attempt, status>>
sidecarVars == <<cachedToken, sidecarState, recoveries>>
connVars == <<shellVars, signals, socketVars, sidecarVars, upsets, flaws>>

SocketIds == 1 .. MaxSockets
Gone == [state |-> "gone", token |-> 0]
Stages == {"token", "health", "reset"}

ConnTypeOK ==
    /\ {alive, listening, reconnectTimeout} \subseteq BOOLEAN /\ (listening => alive)
    /\ {backend, terminated, restart_attempts, attempt, connects} \subseteq Nat
    /\ restarter \in [{"auto", "manual"} -> {"no", "waiting", "killed"}]
    /\ signals \in Seq({"restarting", "restarted", "exhausted", "returned", "rejected"})
    /\ sockets \in [SocketIds -> [state : {"gone", "connecting", "open"}, token : 0 .. backend]]
    /\ wsRef \in 0 .. MaxSockets /\ cachedToken \in 0 .. backend
    /\ status \in {"connected", "connecting", "disconnected"}
    /\ sidecarState \in {"running", "restarting", "failed"}
    /\ recoveries \in [Stages -> Nat] /\ upsets \in 0 .. MaxUpsets

\* The page is shown and connected for the first time, with port and token cached.
ConnInit ==
    /\ backend = 1 /\ alive = TRUE /\ listening = TRUE
    /\ terminated = 0 /\ restart_attempts = 0
    /\ restarter = [w \in {"auto", "manual"} |-> "no"]
    /\ signals = <<>>
    /\ cachedToken = 1 /\ connects = 0
    /\ sockets = [i \in SocketIds |-> IF i = 1 THEN [state |-> "open", token |-> 1] ELSE Gone]
    /\ wsRef = 1
    /\ reconnectTimeout = FALSE /\ attempt = 0
    /\ status = "connected" /\ sidecarState = "running"
    /\ recoveries = [s \in Stages |-> 0]
    /\ upsets = 0 /\ flaws = {}

Upset == upsets < MaxUpsets /\ upsets' = upsets + 1
Flaw(what) == flaws' = flaws \cup what

-----------------------------------------------------------------------------
(* The shell. *)
Signal(what) == signals' = Append(signals, what)

Crash ==
    /\ Upset
    /\ alive /\ alive' = FALSE /\ listening' = FALSE
    /\ terminated' = terminated + 1
    /\ UNCHANGED <<backend, restarter, restart_attempts, signals, socketVars, sidecarVars, flaws>>

\* The backend prints its port.
CapturePort ==
    /\ alive /\ ~listening /\ listening' = TRUE
    /\ UNCHANGED <<backend, alive, terminated, restarter, restart_attempts, signals,
                   socketVars, sidecarVars, upsets, flaws>>

\* While an automatic restart is under way a termination starts no other.
HandleTerminated ==
    /\ terminated > 0 /\ terminated' = terminated - 1
    /\ IF restarter["auto"] # "no" THEN UNCHANGED <<restarter, restart_attempts, signals>>
       ELSE IF restart_attempts < MAX_AUTO_RESTART_ATTEMPTS
       THEN /\ restarter' = [restarter EXCEPT !["auto"] = "waiting"]
            /\ restart_attempts' = restart_attempts + 1
            /\ Signal("restarting")
       ELSE Signal("exhausted") /\ UNCHANGED <<restarter, restart_attempts>>
    /\ UNCHANGED <<backend, alive, listening, socketVars, sidecarVars, upsets, flaws>>

\* restart_sidecar_async kills the backend it knows, and whatever holds the port, waits
\* two seconds, in which the termination is handled, and spawns the next.
KillStored(who) ==
    /\ restarter[who] = "waiting" /\ restarter' = [restarter EXCEPT ![who] = "killed"]
    /\ alive' = FALSE /\ listening' = FALSE
    /\ terminated' = terminated + (IF alive THEN 1 ELSE 0)
    /\ UNCHANGED <<backend, restart_attempts, signals, socketVars, sidecarVars, upsets, flaws>>

Spawn(who) ==
    /\ restarter[who] = "killed" /\ terminated = 0
    /\ restarter' = [restarter EXCEPT ![who] = "no"]
    /\ backend' = backend + 1 /\ alive' = TRUE /\ listening' = FALSE
    /\ terminated' = IF alive THEN 1 ELSE 0
    /\ Signal(IF who = "auto" THEN "restarted" ELSE "returned")
    /\ UNCHANGED <<restart_attempts, socketVars, sidecarVars, upsets, flaws>>

\* The port stays taken, or the spawn fails. The frontend only logs an automatic one, and
\* the shell does not try again.
SpawnFails(who) ==
    /\ Upset
    /\ restarter[who] = "killed" /\ terminated = 0
    /\ restarter' = [restarter EXCEPT ![who] = "no"]
    /\ IF who = "auto" THEN Flaw({"unspawned"}) /\ UNCHANGED signals
       ELSE Signal("rejected") /\ UNCHANGED flaws
    /\ UNCHANGED <<backend, alive, listening, terminated, restart_attempts, socketVars,
                   sidecarVars>>

-----------------------------------------------------------------------------
(* Sockets. *)
Live == {i \in SocketIds : sockets[i].state # "gone"}
Dropped(i) == [sockets EXCEPT ![i] = Gone]

\* The new socket becomes the hook's, whatever that was.
Create(others, token) ==
    \E i \in {j \in SocketIds : others[j].state = "gone"} :
        /\ \A j \in 1 .. i - 1 : others[j].state # "gone"
        /\ sockets' = [others EXCEPT ![i] = [state |-> "connecting", token |-> token]]
        /\ wsRef' = i

\* connect. With port and token cached its awaits give way to no other callback, and
\* without it waits for the shell. Calls under way do not see each other.
Connect(others, ref) ==
    /\ reconnectTimeout' = FALSE
    /\ IF ref # 0 /\ others[ref].state = "open"
       THEN sockets' = others /\ wsRef' = ref /\ UNCHANGED <<connects, flaws>>
       ELSE /\ IF cachedToken # 0 THEN Create(others, cachedToken) /\ UNCHANGED connects
               ELSE sockets' = others /\ wsRef' = ref /\ connects' = connects + 1
            /\ Flaw(IF connects > 0 \/ \E i \in SocketIds : others[i].state # "gone"
                     THEN {"overlap"} ELSE {})

RetryConnect ==
    /\ reconnectTimeout
    /\ Connect(sockets, wsRef)
    /\ UNCHANGED <<shellVars, signals, attempt, status, sidecarVars, upsets>>

\* connect from its awaits on, with the shell's last token unless one is cached by now.
OpenSocket ==
    /\ connects > 0 /\ connects' = connects - 1
    /\ cachedToken' = IF cachedToken = 0 THEN backend ELSE cachedToken
    /\ Create(sockets, cachedToken')
    /\ UNCHANGED <<shellVars, signals, reconnectTimeout, attempt, status, sidecarState,
                   recoveries, upsets, flaws>>

Served(i) == listening /\ sockets[i].token = backend

OnOpen(i) ==
    /\ sockets[i].state = "connecting" /\ Served(i)
    /\ sockets' = [sockets EXCEPT ![i].state = "open"]
    /\ attempt' = 0 /\ status' = "connected"
    /\ UNCHANGED <<shellVars, signals, connects, wsRef, reconnectTimeout, sidecarVars, upsets, flaws>>

\* onclose of any socket sets the one status and the one timer.
Ended(i) ==
    /\ sockets' = Dropped(i)
    /\ IF sidecarState # "running"
       THEN reconnectTimeout' = FALSE /\ status' = "disconnected" /\ UNCHANGED <<attempt, flaws>>
       ELSE /\ attempt' = attempt + 1
            /\ reconnectTimeout' = (attempt < WEBSOCKET_RECONNECT_MAX_ATTEMPTS)
            /\ status' = IF reconnectTimeout' THEN "connecting" ELSE "disconnected"
            /\ Flaw(IF reconnectTimeout' \/ (listening /\ sockets[i].token # backend)
                     THEN {} ELSE {"given up"})
    /\ UNCHANGED <<shellVars, signals, connects, wsRef, sidecarVars>>

OnClose(i) ==
    /\ i \in Live /\ ~Served(i)
    /\ Ended(i) /\ UNCHANGED upsets

NetworkDrops(i) ==
    /\ Upset
    /\ i \in Live /\ Served(i)
    /\ Ended(i)

\* reconnect closes the socket it knows of, and not the calls of connect under way.
Reconnect ==
    /\ attempt' = 0 /\ status' = "connecting"
    /\ Connect(IF wsRef = 0 THEN sockets ELSE Dropped(wsRef), 0)

-----------------------------------------------------------------------------
(* The recovery. *)
RecoveryMoves(from, to) ==
    recoveries' = [s \in Stages |-> recoveries[s] + (IF s = to THEN 1 ELSE 0)
                                                  - (IF s = from THEN 1 ELSE 0)]

\* Mutant of BeginRecovery: the caches are not cleared.
RecoveryKeepsToken == cachedToken' = cachedToken /\ RecoveryMoves("none", "token")

BeginRecovery == cachedToken' = 0 /\ RecoveryMoves("none", "token")

OnSignal ==
    /\ signals # <<>> /\ signals' = Tail(signals)
    /\ CASE Head(signals) = "restarting" ->
              sidecarState' = "restarting" /\ UNCHANGED <<cachedToken, recoveries>>
         [] Head(signals) \in {"exhausted", "rejected"} ->
              sidecarState' = "failed" /\ UNCHANGED <<cachedToken, recoveries>>
         [] Head(signals) \in {"restarted", "returned"} ->
              BeginRecovery /\ UNCHANGED sidecarState
    /\ UNCHANGED <<shellVars, socketVars, upsets, flaws>>

RecoverToken ==
    /\ recoveries["token"] > 0 /\ RecoveryMoves("token", "health")
    /\ cachedToken' = IF cachedToken = 0 THEN backend ELSE cachedToken
    /\ UNCHANGED <<shellVars, signals, socketVars, sidecarState, upsets, flaws>>

\* Ten attempts, which a backend that is slow or dead can fail.
CheckHealth ==
    /\ recoveries["health"] > 0
    /\ IF listening
       THEN RecoveryMoves("health", "reset") /\ UNCHANGED sidecarState
       ELSE RecoveryMoves("health", "none") /\ sidecarState' = "failed"
    /\ UNCHANGED <<shellVars, signals, socketVars, cachedToken, upsets, flaws>>

\* It resets the shell's count, whatever has happened since the health check.
FinishRecovery ==
    /\ recoveries["reset"] > 0 /\ RecoveryMoves("reset", "none")
    /\ restart_attempts' = 0
    /\ sidecarState' = "running"
    /\ Reconnect
    /\ UNCHANGED <<backend, alive, listening, terminated, restarter, signals, cachedToken, upsets>>

\* The banner's buttons.
ManualRestart ==
    /\ Upset
    /\ sidecarState = "failed" /\ restarter["manual"] = "no"
    /\ restart_attempts' = 0 /\ sidecarState' = "restarting"
    /\ restarter' = [restarter EXCEPT !["manual"] = "waiting"]
    /\ UNCHANGED <<backend, alive, listening, terminated, signals, socketVars, cachedToken,
                   recoveries, flaws>>

ManualReconnect ==
    /\ Upset
    /\ sidecarState = "running" /\ status = "disconnected"
    /\ Reconnect
    /\ UNCHANGED <<shellVars, signals, sidecarVars>>

-----------------------------------------------------------------------------
ShellStep ==
    \/ CapturePort \/ HandleTerminated
    \/ \E who \in {"auto", "manual"} : KillStored(who) \/ Spawn(who)

SocketStep ==
    \/ RetryConnect \/ OpenSocket
    \/ \E i \in SocketIds : OnOpen(i) \/ OnClose(i)

RecoveryStep == OnSignal \/ RecoverToken \/ CheckHealth \/ FinishRecovery

ConnNext ==
    \/ Crash \/ \E who \in {"auto", "manual"} : SpawnFails(who)
    \/ \E i \in SocketIds : NetworkDrops(i)
    \/ ManualRestart \/ ManualReconnect
    \/ ShellStep \/ SocketStep \/ RecoveryStep

\* Timers run out, requests return and events are delivered.
ConnFairness == WF_connVars(ShellStep) /\ WF_connVars(SocketStep) /\ WF_connVars(RecoveryStep)

ConnSpec == ConnInit /\ [][ConnNext]_connVars /\ ConnFairness

-----------------------------------------------------------------------------
\* The one feed: the hook's socket is open and there is no other to deliver the same
\* events twice.
OneFeed ==
    /\ status = "connected" /\ sidecarState = "running"
    /\ Live = {wsRef} /\ connects = 0

\* In the end the frontend is at the living backend, with its token, on one socket, or
\* the user is asked to restart it; unless an automatic restart could not spawn one, two
\* connects have overlapped, or all attempts to connect are used up.
ConnectionRestored ==
    <>[](OneFeed \/ sidecarState = "failed" \/ flaws # {})
=============================================================================
