-------------------------- MODULE RemoteConnection --------------------------
(***************************************************************************)
(* The life of a connection to a remote host (RemoteClient and its State   *)
(* in remote_client.rs): opening, the heartbeat task, the monitor of the   *)
(* proxy process, reconnecting with a bounded number of attempts, and      *)
(* shutting down when Zed quits.                                           *)
(*                                                                         *)
(* The tasks live inside the State that holds them: replacing the State    *)
(* drops them, all but the reconnect task, which is detached.  At most one *)
(* proxy process exists at a time.  Errors, delegates and connection       *)
(* objects are left out.                                                   *)
(***************************************************************************)
EXTENDS Naturals

CONSTANTS
    MaxMissed,      \* MAX_MISSED_HEARTBEATS
    MaxAttempts     \* MAX_RECONNECT_ATTEMPTS

ASSUME ConnectionAssumption == MaxMissed \in Nat \ {0} /\ MaxAttempts \in Nat

States == {"Connecting", "Connected", "HeartbeatMissed", "Reconnecting", "ReconnectFailed",
           "ReconnectExhausted", "ServerNotRunning", "None"}

VARIABLES
    state,        \* RemoteClient.state; "None": taken by shutdown_processes
    missed,       \* missed_heartbeats of State::HeartbeatMissed
    attempts,     \* attempts of the reconnect under way
    opening,      \* where RemoteClient::new stands
    heartbeat,    \* the heartbeat task
    missedCount,  \* its own missed_heartbeats
    task,         \* the reconnect task
    proxy,        \* the proxy process and its monitor
    reachable,    \* messages get through to the server and back
    server,       \* the server process runs
    disconnects   \* Disconnected events emitted, up to two

clientVars == <<state, missed, attempts, disconnects>>
worldVars  == <<reachable, server>>
vars == <<clientVars, opening, heartbeat, missedCount, task, proxy, worldVars>>

Init ==
    /\ state = "Connecting" /\ missed = 0 /\ attempts = 0
    /\ opening = "starting" /\ heartbeat = "none" /\ missedCount = 0
    /\ task = "none" /\ proxy = "running"
    /\ reachable = TRUE /\ server = TRUE
    /\ disconnects = 0

Alive == proxy = "running" /\ reachable /\ server
\* set_state
Disconnected == disconnects' = IF disconnects < 2 THEN disconnects + 1 ELSE 2

-----------------------------------------------------------------------------
(* RemoteClient::new *)

RemoteStarted ==
    /\ opening = "starting" /\ Alive
    /\ opening' = "pinging"
    /\ UNCHANGED <<clientVars, heartbeat, missedCount, task, proxy, worldVars>>

\* The answer to the first ping has been handed to new, which has yet to run.
FirstPingAnswered ==
    /\ opening = "pinging" /\ Alive
    /\ opening' = "answered"
    /\ UNCHANGED <<clientVars, heartbeat, missedCount, task, proxy, worldVars>>

Opened ==
    /\ opening = "answered"
    /\ opening' = "done"
    /\ state' = "Connected" /\ missed' = 0
    /\ heartbeat' = "timer" /\ missedCount' = 0
    /\ UNCHANGED <<attempts, task, proxy, worldVars, disconnects>>

\* INITIAL_CONNECTION_TIMEOUT or HEARTBEAT_TIMEOUT; the client is given up.
OpeningFails ==
    /\ opening \in {"starting", "pinging"}
    /\ opening' = "failed" /\ proxy' = "none"
    /\ UNCHANGED <<clientVars, heartbeat, missedCount, task, worldVars>>

-----------------------------------------------------------------------------
(* reconnect *)

CanReconnect == state \in {"Connected", "HeartbeatMissed"}

\* Attempt n begins; the tasks of the old connection are dropped.
Attempt(n) ==
    /\ missed' = 0
    /\ attempts' = n
    /\ heartbeat' = "none" /\ missedCount' = 0 /\ proxy' = "none"
    /\ IF n > MaxAttempts
       THEN state' = "ReconnectExhausted" /\ task' = "none" /\ Disconnected
       ELSE state' = "Reconnecting" /\ task' = "killing" /\ UNCHANGED disconnects
    /\ UNCHANGED <<opening, worldVars>>

OldConnectionKilled ==
    /\ task = "killing"
    /\ task' \in {"connecting", "failed"}
    /\ UNCHANGED <<clientVars, opening, heartbeat, missedCount, proxy, worldVars>>

\* start_proxy; client.reconnect; resync sends its flush.
ProxyStarted ==
    /\ task = "connecting"
    /\ task' = "resyncing" /\ proxy' = "running"
    /\ UNCHANGED <<clientVars, opening, heartbeat, missedCount, worldVars>>

ConnectFails ==
    /\ task = "connecting"
    /\ task' = "failed"
    /\ UNCHANGED <<clientVars, opening, heartbeat, missedCount, proxy, worldVars>>

Resynced ==
    /\ task = "resyncing" /\ Alive
    /\ task' = "resynced"
    /\ UNCHANGED <<clientVars, opening, heartbeat, missedCount, proxy, worldVars>>

\* Mutant: resync waits for its answer as long as it takes.
ResyncWaits ==
    /\ task = "resyncing" /\ proxy # "running" /\ ~reachable
    /\ task' = "failed" /\ proxy' = "none"
    /\ UNCHANGED <<clientVars, opening, heartbeat, missedCount, worldVars>>

ResyncTimesOut ==
    /\ task = "resyncing"
    /\ task' = "failed" /\ proxy' = "none"
    /\ UNCHANGED <<clientVars, opening, heartbeat, missedCount, worldVars>>

\* Mutant: the connection is kept whatever the client has become.
ReconnectSucceedsRegardless ==
    /\ task = "resynced"
    /\ task' = "none" /\ missed' = 0 /\ missedCount' = 0
    /\ IF state = "Reconnecting"
       THEN state' = "Connected" /\ heartbeat' = "timer"
       ELSE heartbeat' = "timer" /\ UNCHANGED state
    /\ UNCHANGED <<attempts, opening, proxy, worldVars, disconnects>>

\* The task's result reaches the client; one that is no longer reconnecting
\* drops it, and a failure starts the next attempt in the same turn.
ReconnectSucceeds ==
    /\ task = "resynced"
    /\ task' = "none" /\ missed' = 0 /\ missedCount' = 0
    /\ IF state = "Reconnecting"
       THEN state' = "Connected" /\ heartbeat' = "timer" /\ UNCHANGED proxy
       ELSE proxy' = "none" /\ UNCHANGED <<state, heartbeat>>
    /\ UNCHANGED <<attempts, opening, worldVars, disconnects>>

ReconnectFails ==
    /\ task = "failed"
    /\ IF state = "Reconnecting" THEN Attempt(attempts + 1)
       ELSE /\ task' = "none"
            /\ UNCHANGED <<clientVars, opening, heartbeat, missedCount, proxy, worldVars>>

-----------------------------------------------------------------------------
(* monitor *)

\* The code of exit says that the server is gone, or something else.
MonitorReports(serverGone) ==
    /\ proxy = "exited" /\ opening # "starting"
    /\ serverGone => ~server
    /\ IF serverGone
       THEN /\ state' = "ServerNotRunning" /\ Disconnected
            /\ missed' = 0 /\ missedCount' = 0
            /\ heartbeat' = "none"
            /\ proxy' = "gone"
            /\ UNCHANGED <<attempts, opening, task, worldVars>>
       ELSE IF CanReconnect THEN Attempt(1)
       ELSE /\ proxy' = "gone"
            /\ UNCHANGED <<clientVars, opening, heartbeat, missedCount, task, worldVars>>

-----------------------------------------------------------------------------
(* heartbeat *)

HandleHeartbeatResult(n) ==
    IF n >= MaxMissed /\ CanReconnect THEN Attempt(1)
    ELSE /\ state'  = CASE state \in {"Connected", "HeartbeatMissed"} /\ n > 0 -> "HeartbeatMissed"
                        [] state = "HeartbeatMissed" /\ n = 0 -> "Connected"
                        [] OTHER -> state
         /\ missed' = IF n = 0 \/ ~CanReconnect THEN 0 ELSE missed + 1
         /\ missedCount' = n
         /\ heartbeat' = IF n >= MaxMissed THEN "stopped" ELSE "timer"
         /\ UNCHANGED <<attempts, disconnects, opening, task, proxy, worldVars>>

\* A message from the server: the timer is set anew.
Activity ==
    /\ heartbeat \in {"timer", "idle"} /\ Alive
    /\ IF missedCount # 0 THEN HandleHeartbeatResult(0)
       ELSE /\ heartbeat' = "timer"
            /\ UNCHANGED <<clientVars, missedCount, opening, task, proxy, worldVars>>

SendHeartbeat ==
    /\ heartbeat = "timer" /\ proxy = "running"
    /\ heartbeat' = "pinging"
    /\ UNCHANGED <<clientVars, missedCount, opening, task, proxy, worldVars>>

\* Any activity counts as the answer, and so does the end of the proxy, which
\* closes the activity channel.  When none was missed, continue skips the line
\* that sets the timer anew.
HeartbeatAnswered ==
    /\ heartbeat = "pinging" /\ (Alive \/ proxy # "running")
    /\ IF missedCount # 0 THEN HandleHeartbeatResult(0)
       ELSE /\ heartbeat' = "idle"
            /\ UNCHANGED <<clientVars, missedCount, opening, task, proxy, worldVars>>

\* Mutant: a miss is not counted.
HeartbeatTimesOutUncounted ==
    /\ heartbeat = "pinging" /\ proxy = "running"
    /\ HandleHeartbeatResult(missedCount)

HeartbeatTimesOut ==
    /\ heartbeat = "pinging" /\ proxy = "running"
    /\ HandleHeartbeatResult(missedCount + 1)

\* The activity channel is closed.
HeartbeatStops ==
    /\ heartbeat \in {"timer", "idle"} /\ proxy # "running"
    /\ heartbeat' = "stopped"
    /\ UNCHANGED <<clientVars, missedCount, opening, task, proxy, worldVars>>

-----------------------------------------------------------------------------
(* shutdown_processes *)

\* Zed quits or the project is released: what the state holds is dropped.  The
\* reconnect task, which nobody holds, goes on; its proxy is its own.
Shutdown ==
    /\ opening = "done" /\ state # "None"
    /\ state' = "None" /\ missed' = 0
    /\ heartbeat' = "none" /\ missedCount' = 0
    /\ proxy' = IF task = "none" THEN "none" ELSE proxy
    /\ UNCHANGED <<attempts, opening, task, worldVars, disconnects>>

-----------------------------------------------------------------------------
(* The world *)

ProxyExits ==
    /\ proxy = "running"
    /\ proxy' = "exited"
    /\ UNCHANGED <<clientVars, opening, heartbeat, missedCount, task, worldVars>>

LinkChanges ==
    /\ reachable' = ~reachable
    /\ UNCHANGED <<clientVars, opening, heartbeat, missedCount, task, proxy, server>>

ServerExits ==
    /\ server
    /\ server' = FALSE
    /\ UNCHANGED <<clientVars, opening, heartbeat, missedCount, task, proxy, reachable>>

OpeningStep   == RemoteStarted \/ FirstPingAnswered \/ Opened \/ OpeningFails
ReconnectStep == OldConnectionKilled \/ ProxyStarted \/ ConnectFails \/ Resynced
                 \/ ResyncTimesOut \/ ReconnectSucceeds \/ ReconnectFails
MonitorStep   == \E serverGone \in BOOLEAN : MonitorReports(serverGone)
HeartbeatStep == SendHeartbeat \/ HeartbeatAnswered \/ HeartbeatTimesOut \/ HeartbeatStops

Next ==
    \/ OpeningStep \/ ReconnectStep \/ MonitorStep \/ HeartbeatStep \/ Activity
    \/ Shutdown \/ ProxyExits \/ LinkChanges \/ ServerExits

\* Tasks run and timers end; nothing is fair about traffic or the world.
Fairness ==
    /\ WF_vars(OpeningStep) /\ WF_vars(ReconnectStep) /\ WF_vars(MonitorStep)
    /\ WF_vars(HeartbeatStep)

Spec     == Init /\ [][Next]_vars
FairSpec == Spec /\ Fairness

-----------------------------------------------------------------------------
TypeOK ==
    /\ state \in States /\ missed \in 0..MaxMissed /\ attempts \in 0..(MaxAttempts + 1)
    /\ opening \in {"starting", "pinging", "answered", "done", "failed"}
    /\ heartbeat \in {"none", "timer", "pinging", "idle", "stopped"}
    /\ missedCount \in 0..MaxMissed
    /\ task \in {"none", "killing", "connecting", "resyncing", "resynced", "failed"}
    /\ proxy \in {"none", "running", "exited", "gone"}
    /\ reachable \in BOOLEAN /\ server \in BOOLEAN /\ disconnects \in 0..2

\* A project is told at most once that its connection is gone for good.
DisconnectedOnce == disconnects <= 1

\* Both counts of missed heartbeats, the task's and the state's, agree.
CountsAgree ==
    /\ state = "HeartbeatMissed" => missed = missedCount /\ missed > 0
    /\ state = "Connected" => missedCount = 0

\* No task or process outlives the state that owns it.
NothingLeaks ==
    /\ heartbeat # "none" => state \in {"Connected", "HeartbeatMissed"}
    /\ proxy = "running" =>
          \/ state \in {"Connected", "HeartbeatMissed"}
          \/ opening \in {"starting", "pinging", "answered"}
          \/ task \in {"resyncing", "resynced"}

\* What holds in every state of the connection.
ConnectionSound == TypeOK /\ DisconnectedOnce /\ CountsAgree /\ NothingLeaks

\* Reconnecting and a series of missed heartbeats come to an end, one way or
\* the other.
TroubleEnds ==
    \A trouble \in {"HeartbeatMissed", "Reconnecting"} :
        state = trouble ~> state # trouble

\* A connection that is shown as connected has a proxy, or its monitor is
\* about to say that it has not.
ConnectedIsWatched == state = "Connected" => proxy \in {"running", "exited"}

\* A host or server that is gone for good while the proxy lives on is noticed,
\* unless a heartbeat that was answered before has left the heartbeat task
\* without a timer.
DeadIsNoticed ==
    [](state = "Connected" /\ [](proxy = "running" /\ ~Alive)
         => <>(state # "Connected" \/ heartbeat = "idle"))

\* "This will cause heartbeat failures and eventually trigger reconnection after
\* MAX_MISSED_HEARTBEATS are missed": also in that case.
DeadLinkNoticed ==
    [](state = "Connected" /\ [](~reachable /\ proxy = "running") => <>(state # "Connected"))
=============================================================================
