------------------------ MODULE RemoteConnectionProofs ------------------------
(***************************************************************************)
(* What RemoteConnection promises for any number of missed heartbeats and  *)
(* of reconnect attempts.                                                   *)
(***************************************************************************)
EXTENDS RemoteConnection, TLAPS

\* A reconnect under way is within its attempts: the one too many ends it.
WithinAttempts == task # "none" => attempts <= MaxAttempts

\* A connection that is shown as connected has missed nothing.
ConnectedFresh == state = "Connected" => missed = 0

\* Once the project has been told, nothing is left that could tell it again:
\* no monitor, no heartbeat under way, no attempt.
ToldForGood ==
    disconnects # 0 =>
        /\ proxy \in {"none", "gone"}
        /\ task \notin {"killing", "connecting"}
        /\ opening # "starting"
        /\ state \in {"ServerNotRunning", "ReconnectExhausted", "None", "Connected"}
        /\ heartbeat # "pinging"

\* A client that is not open yet has no connection to lose: all that can come
\* before is the news that the server is gone, once it has started.
StartsConnecting ==
    /\ opening # "done" => state \in {"Connecting", "ServerNotRunning"} /\ task = "none"
    /\ opening = "starting" => state = "Connecting"

\* While a reconnect is under way the connection is not shown as usable, and
\* until it has started a proxy of its own there is none to report.
TaskUnusable ==
    /\ task # "none" => state \in {"Reconnecting", "ServerNotRunning", "None"}
    /\ task \in {"killing", "connecting"} => proxy = "none"

\* A heartbeat that is missed is never one too many: that one reconnects.
UnderLimit == missedCount < MaxMissed

ConnectionInv ==
    /\ ConnectionSound /\ UnderLimit
    /\ WithinAttempts /\ ConnectedFresh /\ ToldForGood /\ StartsConnecting /\ TaskUnusable

\* The lemmas below are about every part of the invariant at once.
USE DEF ConnectionInv, ConnectionSound, TypeOK, States, DisconnectedOnce, CountsAgree,
        NothingLeaks, UnderLimit, WithinAttempts, ConnectedFresh, ToldForGood,
        StartsConnecting, TaskUnusable, clientVars, worldVars

-----------------------------------------------------------------------------
LEMMA InitGood == Init => ConnectionInv
BY ConnectionAssumption DEF Init

\* The next attempt, whoever starts it, as long as nobody has been told.
LEMMA AttemptGood ==
    ASSUME NEW n \in 1..(MaxAttempts + 1), ConnectionInv, disconnects = 0,
           opening = "done", Attempt(n)
    PROVE  ConnectionInv'
BY ConnectionAssumption DEF Attempt, Disconnected

\* The outcome of a heartbeat: the counts stay in step, or a reconnect begins.
LEMMA ResultGood ==
    ASSUME NEW n \in 0..MaxMissed, ConnectionInv, heartbeat # "none",
           disconnects = 0, opening = "done",
           n \in {0, missedCount + 1}, HandleHeartbeatResult(n)
    PROVE  ConnectionInv'
<1>1. CanReconnect
  BY DEF CanReconnect
<1>2. CASE n >= MaxMissed
  <2>1. Attempt(1)
    BY <1>1, <1>2 DEF HandleHeartbeatResult
  <2> QED
    BY <2>1, AttemptGood, ConnectionAssumption
<1>3. CASE n < MaxMissed
  BY <1>1, <1>3, ConnectionAssumption DEF HandleHeartbeatResult, CanReconnect
<1> QED
  BY <1>2, <1>3, ConnectionAssumption

-----------------------------------------------------------------------------
LEMMA OpeningStepGood == ConnectionInv /\ OpeningStep => ConnectionInv'
<1> SUFFICES ASSUME ConnectionInv, OpeningStep PROVE ConnectionInv'
  OBVIOUS
<1>1. CASE RemoteStarted
  BY <1>1, ConnectionAssumption DEF RemoteStarted, Alive
<1>2. CASE FirstPingAnswered
  BY <1>2, ConnectionAssumption DEF FirstPingAnswered, Alive
<1>3. CASE Opened
  BY <1>3, ConnectionAssumption DEF Opened
<1>4. CASE OpeningFails
  BY <1>4, ConnectionAssumption DEF OpeningFails
<1> QED
  BY <1>1, <1>2, <1>3, <1>4 DEF OpeningStep

LEMMA ReconnectStepGood == ConnectionInv /\ ReconnectStep => ConnectionInv'
<1> SUFFICES ASSUME ConnectionInv, ReconnectStep PROVE ConnectionInv'
  OBVIOUS
<1>1. CASE OldConnectionKilled
  BY <1>1, ConnectionAssumption DEF OldConnectionKilled
<1>2. CASE ProxyStarted
  BY <1>2, ConnectionAssumption DEF ProxyStarted
<1>3. CASE ConnectFails
  BY <1>3, ConnectionAssumption DEF ConnectFails
<1>4. CASE Resynced
  BY <1>4, ConnectionAssumption DEF Resynced
<1>5. CASE ResyncTimesOut
  BY <1>5, ConnectionAssumption DEF ResyncTimesOut
<1>6. CASE ReconnectSucceeds
  BY <1>6, ConnectionAssumption DEF ReconnectSucceeds
<1>7. CASE ReconnectFails /\ state = "Reconnecting"
  \* The next attempt; the last one brings the news that it is over.
  <2>1. attempts + 1 \in 1..(MaxAttempts + 1)
    BY <1>7, ConnectionAssumption DEF ReconnectFails
  <2>2. disconnects = 0 /\ opening = "done"
    BY <1>7
  <2> QED
    BY <1>7, <2>1, <2>2, AttemptGood DEF ReconnectFails
<1>8. CASE ReconnectFails /\ state # "Reconnecting"
  BY <1>8, ConnectionAssumption DEF ReconnectFails
<1> QED
  BY <1>1, <1>2, <1>3, <1>4, <1>5, <1>6, <1>7, <1>8 DEF ReconnectStep

LEMMA MonitorStepGood == ConnectionInv /\ MonitorStep => ConnectionInv'
<1> SUFFICES ASSUME ConnectionInv, NEW serverGone \in BOOLEAN, MonitorReports(serverGone)
             PROVE  ConnectionInv'
  BY DEF MonitorStep
<1>1. proxy = "exited" /\ disconnects = 0 /\ opening # "starting"
  BY DEF MonitorReports
<1>2. CASE serverGone
  BY <1>1, <1>2, ConnectionAssumption DEF MonitorReports, Disconnected
<1>3. CASE ~serverGone /\ CanReconnect
  <2>1. Attempt(1)
    BY <1>3 DEF MonitorReports
  <2>2. opening = "done"
    BY <1>3 DEF CanReconnect
  <2> QED
    BY <1>1, <2>1, <2>2, AttemptGood, ConnectionAssumption
<1>4. CASE ~serverGone /\ ~CanReconnect
  BY <1>1, <1>4, ConnectionAssumption DEF MonitorReports
<1> QED
  BY <1>2, <1>3, <1>4

\* With a heartbeat under way, or a message coming in, nobody has been told.
LEMMA HeartbeatUntold ==
    ASSUME ConnectionInv, heartbeat # "none", heartbeat = "pinging" \/ proxy = "running"
    PROVE  disconnects = 0 /\ opening = "done"
OBVIOUS

LEMMA HeartbeatStepGood == ConnectionInv /\ (HeartbeatStep \/ Activity) => ConnectionInv'
<1> SUFFICES ASSUME ConnectionInv, HeartbeatStep \/ Activity PROVE ConnectionInv'
  OBVIOUS
<1>1. CASE SendHeartbeat
  BY <1>1, ConnectionAssumption DEF SendHeartbeat
<1>2. CASE (HeartbeatAnswered \/ Activity) /\ missedCount # 0
  <2>1. HandleHeartbeatResult(0)
    BY <1>2 DEF HeartbeatAnswered, Activity
  <2>2. heartbeat # "none" /\ (heartbeat = "pinging" \/ proxy = "running")
    BY <1>2 DEF HeartbeatAnswered, Activity, Alive
  <2> QED
    BY <2>1, <2>2, HeartbeatUntold, ResultGood, ConnectionAssumption
<1>3. CASE HeartbeatAnswered /\ missedCount = 0
  BY <1>3, ConnectionAssumption DEF HeartbeatAnswered
<1>4. CASE Activity /\ missedCount = 0
  BY <1>4, ConnectionAssumption DEF Activity
<1>5. CASE HeartbeatTimesOut
  <2>1. missedCount + 1 \in 0..MaxMissed
    BY ConnectionAssumption
  <2>2. HandleHeartbeatResult(missedCount + 1)
    BY <1>5 DEF HeartbeatTimesOut
  <2> QED
    BY <1>5, <2>1, <2>2, HeartbeatUntold, ResultGood DEF HeartbeatTimesOut
<1>6. CASE HeartbeatStops
  BY <1>6, ConnectionAssumption DEF HeartbeatStops
<1> QED
  BY <1>1, <1>2, <1>3, <1>4, <1>5, <1>6 DEF HeartbeatStep

LEMMA ShutdownGood == ConnectionInv /\ Shutdown => ConnectionInv'
BY ConnectionAssumption DEF Shutdown

LEMMA WorldGood ==
    ConnectionInv /\ (ProxyExits \/ LinkChanges \/ ServerExits) => ConnectionInv'
<1> SUFFICES ASSUME ConnectionInv, ProxyExits \/ LinkChanges \/ ServerExits
             PROVE  ConnectionInv'
  OBVIOUS
<1>1. reachable' \in BOOLEAN /\ server' \in BOOLEAN
  BY Zenon DEF ProxyExits, LinkChanges, ServerExits
<1> QED
  BY <1>1, ConnectionAssumption DEF ProxyExits, LinkChanges, ServerExits

LEMMA StutterGood == ConnectionInv /\ UNCHANGED vars => ConnectionInv'
BY DEF vars

-----------------------------------------------------------------------------
HIDE DEF ConnectionInv, ConnectionSound, clientVars, worldVars

\* In whatever order heartbeats, the monitor, the attempts and a shutdown come:
\* the project hears at most once that its connection is gone, the two counts
\* of missed heartbeats agree, and no heartbeat task or proxy process outlives
\* the state that owns it (remote_client.rs).
THEOREM ConnectionStaysSound == Spec => []ConnectionSound
<1>1. ConnectionInv /\ [Next]_vars => ConnectionInv'
  BY OpeningStepGood, ReconnectStepGood, MonitorStepGood, HeartbeatStepGood, ShutdownGood,
     WorldGood, StutterGood DEF Next
<1>2. ConnectionInv => ConnectionSound
  BY DEF ConnectionInv
<1> QED
  BY InitGood, <1>1, <1>2, PTL DEF Spec
===============================================================================
