---------------------------- MODULE AgentTurnProofs ----------------------------
(***************************************************************************)
(* What the view of a conversation promises for any number of turns, tools *)
(* and stops.                                                               *)
(***************************************************************************)
EXTENDS AgentTurn, FiniteSetTheorems, WellFoundedInduction, TLAPS

\* Turns are numbered in the order they are sent, and only a turn that was
\* sent can run or be stopped.
SentInOrder ==
    /\ DOMAIN acp = {"running", "turn_id", "kept", "stops"}
    /\ acp.turn_id \in 0 .. MaxTurns /\ acp.running \in 0 .. acp.turn_id
    /\ stopped \subseteq 1 .. acp.turn_id

\* Each turn has its send task, with the same four things to say of it.
SendsKept ==
    /\ DOMAIN send = Turn
    /\ \A t \in Turn : DOMAIN send[t] = {"state", "after", "response", "answered"}

StatusInv == SentInOrder /\ SendsKept /\ StatusHonest


LEMMA InitStatus == Init => StatusInv
BY AgentTurnAssumption DEF Init, StatusInv, SentInOrder, SendsKept, StatusHonest, Turn

\* Steps of the agent's thread and its tools do not touch what the view says.
LEMMA AgentStatus ==
    ASSUME StatusInv, UNCHANGED <<acp, send, stopped>> PROVE StatusInv'
BY DEF StatusInv, SentInOrder, SendsKept, StatusHonest

\* A send task that moves on without an answer being looked at.
LEMMA ProgressStatus ==
    ASSUME StatusInv, UNCHANGED <<acp, stopped>>, SendsKept',
           \A t \in Turn : send'[t].answered = "done" <=> send[t].answered = "done"
    PROVE  StatusInv'
BY DEF StatusInv, SentInOrder, StatusHonest

LEMMA SendStatus == StatusInv /\ Send => StatusInv'
<1> SUFFICES ASSUME StatusInv, Send PROVE StatusInv'
  OBVIOUS
<1> DEFINE new == acp.turn_id + 1
<1> USE AgentTurnAssumption
<1>1. /\ new \in Turn /\ acp'.turn_id = new /\ acp'.running = new
      /\ DOMAIN acp' = DOMAIN acp
      /\ send' = [send EXCEPT ![new].state = "waiting", ![new].after = acp.running,
                              ![new].answered = "waiting"]
      /\ stopped' = stopped \cup ({acp.running} \ {0})
  BY DEF Send, StatusInv, SentInOrder, Turn
<1>2. SendsKept'
  BY <1>1 DEF StatusInv, SendsKept
<1>3. SentInOrder'
  BY <1>1 DEF StatusInv, SentInOrder, Turn
<1>4. send'[new].answered = "waiting"
  BY <1>1 DEF StatusInv, SendsKept
<1>5. new \notin stopped'
  BY <1>1 DEF StatusInv, SentInOrder
<1>6. StatusHonest'
  BY <1>1, <1>4, <1>5 DEF StatusHonest
<1> QED
  BY <1>2, <1>3, <1>6 DEF StatusInv

LEMMA StopStatus == StatusInv /\ Stop => StatusInv'
<1> SUFFICES ASSUME StatusInv, Stop PROVE StatusInv'
  OBVIOUS
<1> USE AgentTurnAssumption
<1>1. /\ acp'.turn_id = acp.turn_id /\ acp'.running = 0
      /\ DOMAIN acp' = DOMAIN acp
      /\ stopped' = stopped \cup {acp.running} /\ acp.running # 0
  BY DEF Stop, StatusInv, SentInOrder
<1>2. PICK dropped : send' = [t \in Turn |-> IF t \in dropped
                         THEN [send[t] EXCEPT !.state = "dropped"] ELSE send[t]]
  BY DEF Stop
<1>3. SendsKept' /\ \A t \in Turn : send'[t].answered = send[t].answered
  BY <1>2 DEF StatusInv, SendsKept
<1>4. SentInOrder'
  <2>1. acp.running \in 1 .. acp.turn_id
    BY <1>1 DEF StatusInv, SentInOrder
  <2>2. stopped' \subseteq 1 .. acp'.turn_id
    BY <1>1, <2>1 DEF StatusInv, SentInOrder
  <2> QED
    BY <1>1, <2>2 DEF StatusInv, SentInOrder
<1>5. StatusHonest'
  BY <1>1, <1>3 DEF StatusInv, StatusHonest, SentInOrder, Turn
<1> QED
  BY <1>3, <1>4, <1>5 DEF StatusInv

\* The turn that is looked at ends only if it is the one that runs.
LEMMA FinishTurnStatus ==
    ASSUME StatusInv, NEW t \in Turn, FinishTurn(t) PROVE StatusInv'
<1>1. /\ acp' = [acp EXCEPT !.running = IF @ = t THEN 0 ELSE @]
      /\ send' = [send EXCEPT ![t].answered = "done"]
      /\ stopped' = stopped
  BY DEF FinishTurn
<1>2. /\ SendsKept' /\ send'[t].answered = "done"
      /\ \A u \in Turn \ {t} : send'[u] = send[u]
  BY <1>1 DEF StatusInv, SendsKept
<1>3. SentInOrder'
  BY <1>1, AgentTurnAssumption DEF StatusInv, SentInOrder
<1>4. /\ acp'.turn_id = acp.turn_id
      /\ acp'.running = IF acp.running = t THEN 0 ELSE acp.running
  BY <1>1 DEF StatusInv, SentInOrder
<1>5. StatusHonest'
  BY <1>1, <1>2, <1>4 DEF StatusInv, StatusHonest, Turn
<1> QED
  BY <1>2, <1>3, <1>5 DEF StatusInv

LEMMA ViewStatus ==
    ASSUME StatusInv, NEW t \in Turn, ViewStep(t) PROVE StatusInv'
<1>1. CASE StartSend(t)
  <2>1. send' = [send EXCEPT ![t].state = "checkpoint"] /\ UNCHANGED <<acp, stopped>>
    BY <1>1 DEF StartSend
  <2> QED
    BY <2>1, ProgressStatus DEF StatusInv, SendsKept
<1>2. CASE Prompt(t)
  <2>1. send' = [send EXCEPT ![t].state = "prompting"] /\ UNCHANGED <<acp, stopped>>
    BY <1>2 DEF Prompt
  <2> QED
    BY <2>1, ProgressStatus DEF StatusInv, SendsKept
<1>3. CASE HandleEvent(t)
  <2>1. UNCHANGED <<acp, stopped>>
    BY <1>3 DEF HandleEvent
  <2>2. \/ \E x : send' = [send EXCEPT ![t].state = "sent", ![t].response = x]
        \/ send' = send
    BY <1>3 DEF HandleEvent
  <2>3. SendsKept' /\ \A u \in Turn : send'[u].answered = send[u].answered
    BY <2>2 DEF StatusInv, SendsKept
  <2> QED
    BY <2>1, <2>3, ProgressStatus
<1>4. CASE ReceiveResponse(t)
  <2>1. /\ send' = [send EXCEPT ![t].answered = "checkpoint"]
        /\ UNCHANGED <<acp, stopped>> /\ send[t].answered = "waiting"
    BY <1>4 DEF ReceiveResponse, ResponseWaits
  <2>2. SendsKept' /\ \A u \in Turn : send'[u].answered = "done" <=> send[u].answered = "done"
    BY <2>1 DEF StatusInv, SendsKept
  <2> QED
    BY <2>1, <2>2, ProgressStatus
<1>5. CASE FinishTurn(t)
  BY <1>5, FinishTurnStatus
<1> QED
  BY <1>1, <1>2, <1>3, <1>4, <1>5 DEF ViewStep

LEMMA NextStatus == StatusInv /\ [Next]_vars => StatusInv'
<1> SUFFICES ASSUME StatusInv, [Next]_vars PROVE StatusInv'
  OBVIOUS
<1>1. CASE User
  <2>1. CASE \E x \in Tool, allowed \in BOOLEAN : Authorize(x, allowed)
    BY <2>1, AgentStatus DEF Authorize
  <2> QED
    BY <1>1, <2>1, SendStatus, StopStatus DEF User
<1>2. ASSUME NEW t \in Turn, TaskStep(t) PROVE StatusInv'
  <2>1. UNCHANGED viewVars
    BY <1>2 DEF TaskStep, EndStream, NoticeCancellation, Refuse, Drained, FlushAfterCancel,
                ProcessToolResult
  <2> QED
    BY <2>1, AgentStatus DEF viewVars
<1>3. ASSUME NEW t \in Turn, StreamStep(t) PROVE StatusInv'
  BY <1>3, AgentStatus DEF StreamStep, StreamText, StreamToolUse, viewVars
<1>4. ASSUME NEW t \in Turn, ViewStep(t) PROVE StatusInv'
  BY <1>4, ViewStatus
<1>5. ASSUME NEW x \in Tool, ToolStep(x) PROVE StatusInv'
  BY <1>5, AgentStatus DEF ToolStep, FinishTool, AskFails, viewVars
<1>6. CASE UNCHANGED vars
  BY <1>6, AgentStatus DEF vars, viewVars
<1> QED
  BY <1>1, <1>2, <1>3, <1>4, <1>5, <1>6 DEF Next

-----------------------------------------------------------------------------
\* The view says that it is generating exactly while its last turn is neither
\* answered nor stopped, for any number of turns, tools and stops: a late
\* answer of an older turn never ends or revives the status of a newer one
\* (AcpThread::run_turn and the comparison of turn ids in its continuation).
THEOREM StatusStaysHonest == Spec => []StatusHonest
<1>1. StatusInv => StatusHonest
  BY DEF StatusInv
<1> QED
  BY <1>1, InitStatus, NextStatus, PTL DEF Spec
-----------------------------------------------------------------------------
(* The agent's side: turns, tools and the history they write.              *)

Response == {"end", "cancelled", "refusal", "error"}
Event    == ({"call", "ask", "result"} \X Tool) \cup ({"stop"} \X Response)
Results  == SUBSET (Tool \X {"ok", "error", "canceled"})
Entry    == [by : {"user", "agent"}, turns : SUBSET Turn, uses : SUBSET Tool,
             results : Results]

Sends    == [Turn -> [state : {"none", "waiting", "checkpoint", "prompting", "sent", "dropped"},
                      after : 0 .. MaxTurns, response : Response \cup {"none"},
                      answered : {"no", "waiting", "checkpoint", "done"}]]
Calls    == [Tool -> {"none", "waiting", "in_progress", "completed", "failed", "rejected",
                      "canceled"}]
Tasks    == [Turn -> [state : {"none", "streaming", "draining", "failing", "done"},
                      cancelled : BOOLEAN, noticed : BOOLEAN, message_ix : Nat,
                      uses : SUBSET Tool]]
Tools    == [Tool -> [state : {"none", "asking", "running", "finished", "taken", "dropped"},
                      turn : 0 .. MaxTurns, ok : BOOLEAN]]
Channels == [Turn -> [queue : Seq(Event), open : BOOLEAN]]

ViewTypes ==
    /\ acp \in [running : 0 .. MaxTurns, turn_id : 0 .. MaxTurns,
                kept : 0 .. MaxTurns, stops : 0 .. MaxStops]
    /\ send \in Sends /\ call \in Calls /\ stopped \subseteq Turn

AgentTypes ==
    /\ messages \in Seq(Entry)
    /\ pending \in [turns : SUBSET Turn, uses : SUBSET Tool, results : Results]
    /\ running \in 0 .. MaxTurns /\ flushers \subseteq Turn
    /\ task \in Tasks /\ tool \in Tools /\ channel \in Channels

\* A turn that was not sent yet has no send task.
FreshTurns == \A t \in Turn : t > acp.turn_id => send[t].state = "none"

\* The agent's task begins with the prompt.
Prompted ==
    \A t \in Turn : send[t].state \in {"none", "waiting", "checkpoint"} => task[t].state = "none"

\* A turn waits only for tools it has started itself.
UsesOwned ==
    \A t \in Turn : \A x \in task[t].uses : tool[x].turn = t /\ tool[x].state # "none"

Active(t) == task[t].state \notin {"none", "done"} /\ ~task[t].cancelled

\* The message a turn would be cut back to is still there.
CutWithin == \A t \in Turn : Active(t) => task[t].message_ix <= Len(messages)

\* A tool has one result at most, which it gives once.
ResultsOnce ==
    /\ \A r, s \in pending.results : r[1] = s[1] => r = s
    /\ \A r \in pending.results : tool[r[1]].state \in {"taken", "dropped"}

Answered(m) ==
    \A x \in m.uses : \E r \in m.results :
        r[1] = x /\ \A s \in m.results : s[1] = x => s = r

AllAnswered(ms) == \A i \in 1 .. Len(ms) : Answered(ms[i])

TurnInv ==
    /\ ViewTypes /\ FreshTurns /\ AgentTypes /\ Prompted /\ UsesOwned
    /\ OneTurn /\ CutWithin /\ ResultsOnce /\ AllAnswered(messages)

\* Events are added to a channel that listens.
LEMMA ReportTyped ==
    ASSUME NEW ch \in Channels, NEW t \in Turn, NEW evs \in Seq(Event)
    PROVE  Report(ch, t, evs) \in Channels
<1>1. ch[t].queue \o evs \in Seq(Event)
  BY DEF Channels
<1> QED
  BY <1>1 DEF Report, Channels

LEMMA StopReported ==
    ASSUME NEW ch \in Channels, NEW t \in Turn, NEW r \in Response
    PROVE  Report(ch, t, <<<<"stop", r>>>>) \in Channels
<1>1. <<"stop", r>> \in Event
  BY DEF Event
<1> HIDE DEF Event
<1>2. <<<<"stop", r>>>> \in Seq(Event)
  BY <1>1
<1> QED
  BY <1>2, ReportTyped

\* The message that is kept has one result for each use, given or canceled.
LEMMA AgentMessageGood ==
    ASSUME NEW p \in [turns : SUBSET Turn, uses : SUBSET Tool, results : Results],
           \A r, s \in p.results : r[1] = s[1] => r = s
    PROVE  AgentMessage(p) \in Entry /\ Answered(AgentMessage(p))
<1> DEFINE m == AgentMessage(p)
           canceled == {<<x, "canceled">> : x \in p.uses \ {r[1] : r \in p.results}}
<1>1. /\ m.by = "agent" /\ m.turns = p.turns /\ m.uses = p.uses
      /\ m.results = p.results \cup canceled
  BY DEF AgentMessage
<1>2. canceled \in Results
  BY DEF Results
<1>3. m \in Entry
  <2>1. p.results \cup canceled \in Results
    BY <1>2 DEF Results
  <2>2. p.turns \in SUBSET Turn /\ p.uses \in SUBSET Tool
    OBVIOUS
  <2> QED
    BY <2>1, <2>2 DEF AgentMessage, Entry
<1>4. ASSUME NEW x \in m.uses
      PROVE \E r \in m.results : r[1] = x /\ \A s \in m.results : s[1] = x => s = r
  <2>1. CASE x \in {r[1] : r \in p.results}
    <3>1. PICK r \in p.results : r[1] = x
      BY <2>1
    <3>2. \A s \in canceled : s[1] # x
      BY <2>1
    <3> QED
      BY <1>1, <3>1, <3>2
  <2>2. CASE x \notin {r[1] : r \in p.results}
    <3>1. <<x, "canceled">> \in canceled
      BY <1>1, <1>4, <2>2
    <3>2. \A s \in p.results : s[1] # x
      BY <2>2
    <3>3. \A s \in canceled : s[1] = x => s = <<x, "canceled">>
      OBVIOUS
    <3>4. <<x, "canceled">>[1] = x
      OBVIOUS
    <3> HIDE DEF m, canceled
    <3> QED
      BY <1>1, <3>1, <3>2, <3>3, <3>4
  <2> QED
    BY <2>1, <2>2
<1> QED
  BY <1>3, <1>4 DEF Answered

LEMMA AppendAnswered ==
    ASSUME NEW ms \in Seq(Entry), AllAnswered(ms), NEW m \in Entry, Answered(m)
    PROVE  /\ Append(ms, m) \in Seq(Entry) /\ AllAnswered(Append(ms, m))
           /\ Len(Append(ms, m)) = Len(ms) + 1
<1>1. ASSUME NEW i \in 1 .. Len(Append(ms, m)) PROVE Answered(Append(ms, m)[i])
  <2>1. CASE i = Len(ms) + 1
    <3>1. Append(ms, m)[i] = m
      BY <2>1
    <3> QED
      BY <3>1
  <2>2. CASE i # Len(ms) + 1
    <3>1. i \in 1 .. Len(ms) /\ Append(ms, m)[i] = ms[i]
      BY <1>1, <2>2
    <3> QED
      BY <3>1 DEF AllAnswered
  <2> QED
    BY <2>1, <2>2
<1> QED
  BY <1>1 DEF AllAnswered

LEMMA CutAnswered ==
    ASSUME NEW ms \in Seq(Entry), AllAnswered(ms), NEW n \in 0 .. Len(ms)
    PROVE  SubSeq(ms, 1, n) \in Seq(Entry) /\ AllAnswered(SubSeq(ms, 1, n))
<1>1. /\ SubSeq(ms, 1, n) \in Seq(Entry) /\ Len(SubSeq(ms, 1, n)) = n
      /\ \A i \in 1 .. n : SubSeq(ms, 1, n)[i] = ms[i]
  OBVIOUS
<1> QED
  BY <1>1 DEF AllAnswered

LEMMA FlushedGood ==
    ASSUME NEW ms \in Seq(Entry), AllAnswered(ms),
           NEW p \in [turns : SUBSET Turn, uses : SUBSET Tool, results : Results],
           \A r, s \in p.results : r[1] = s[1] => r = s
    PROVE  /\ Flushed(ms, p) \in Seq(Entry) /\ AllAnswered(Flushed(ms, p))
           /\ Len(Flushed(ms, p)) >= Len(ms)
BY AgentMessageGood, AppendAnswered DEF Flushed

LEMMA BlankTyped ==
    Blank \in [turns : SUBSET Turn, uses : SUBSET Tool, results : Results] /\ Blank.results = {}
BY DEF Blank, Results

LEMMA InitTurns == Init => TurnInv
<1> SUFFICES ASSUME Init PROVE TurnInv
  OBVIOUS
<1> USE AgentTurnAssumption DEF Init
<1>1. ViewTypes /\ FreshTurns
  BY DEF ViewTypes, FreshTurns, Sends, Calls, Turn, Response
<1>2. AgentTypes
  <2>1. task \in Tasks /\ tool \in Tools
    BY DEF Tasks, Tools, Turn
  <2>2. channel \in Channels
    BY DEF Channels, Turn
  <2> QED
    BY <2>1, <2>2, BlankTyped DEF AgentTypes
<1>3. Prompted /\ UsesOwned /\ OneTurn /\ CutWithin
  BY DEF Prompted, UsesOwned, OneTurn, CutWithin, Active
<1>4. ResultsOnce /\ AllAnswered(messages)
  BY BlankTyped DEF ResultsOnce, AllAnswered
<1> QED
  BY <1>1, <1>2, <1>3, <1>4 DEF TurnInv
-----------------------------------------------------------------------------
(* Steps of a turn's task and its tools.                                   *)

\* A turn's task moves on by itself.
LEMMA MovesOn ==
    ASSUME TurnInv, NEW t \in Turn, task[t].state = "streaming",
           UNCHANGED <<viewVars, historyVars, running, flushers, tool, channel>>,
           task' \in Tasks,
           task'[t].state \in {"draining", "failing"},
           task'[t].cancelled = task[t].cancelled,
           task'[t].message_ix = task[t].message_ix, task'[t].uses = task[t].uses,
           \A u \in Turn \ {t} : task'[u] = task[u]
    PROVE  TurnInv'
<1> USE DEF viewVars, historyVars
<1>1. ViewTypes' /\ FreshTurns' /\ AgentTypes'
  BY DEF TurnInv, ViewTypes, FreshTurns, AgentTypes
<1>2. Prompted' /\ UsesOwned'
  BY DEF TurnInv, Prompted, UsesOwned
<1>3. \A u \in Turn : Active(u)' => Active(u)
  BY DEF Active
<1>4. OneTurn' /\ CutWithin'
  BY <1>3 DEF TurnInv, OneTurn, CutWithin, Active
<1>5. ResultsOnce' /\ AllAnswered(messages)'
  BY DEF TurnInv, ResultsOnce, AllAnswered
<1> QED
  BY <1>1, <1>2, <1>4, <1>5 DEF TurnInv

LEMMA EndStreamTurns ==
    ASSUME TurnInv, NEW t \in Turn, NEW o \in {"draining", "failing"}, EndStream(t, o)
    PROVE  TurnInv'
<1>1. task[t] \in [state : {"none", "streaming", "draining", "failing", "done"},
                   cancelled : BOOLEAN, noticed : BOOLEAN, message_ix : Nat,
                   uses : SUBSET Tool] /\ DOMAIN task = Turn
  BY DEF TurnInv, AgentTypes, Tasks
<1>2. task' = [task EXCEPT ![t].state = o]
  BY DEF EndStream
<1>3. task' \in Tasks
  BY <1>1, <1>2 DEF TurnInv, AgentTypes, Tasks
<1>4. /\ task'[t].state = o /\ task'[t].cancelled = task[t].cancelled
      /\ task'[t].message_ix = task[t].message_ix /\ task'[t].uses = task[t].uses
      /\ \A u \in Turn \ {t} : task'[u] = task[u]
  BY <1>1, <1>2
<1>5. /\ UNCHANGED <<viewVars, historyVars, running, flushers, tool, channel>>
      /\ task[t].state = "streaming"
  BY DEF EndStream, Streaming
<1> QED
  BY <1>3, <1>4, <1>5, MovesOn

LEMMA NoticeTurns ==
    ASSUME TurnInv, NEW t \in Turn, NoticeCancellation(t)
    PROVE  TurnInv'
<1>1. task[t] \in [state : {"none", "streaming", "draining", "failing", "done"},
                   cancelled : BOOLEAN, noticed : BOOLEAN, message_ix : Nat,
                   uses : SUBSET Tool] /\ DOMAIN task = Turn
  BY DEF TurnInv, AgentTypes, Tasks
<1>2. task' = [task EXCEPT ![t].state = "draining", ![t].noticed = TRUE]
  BY DEF NoticeCancellation
<1>3. task' \in Tasks
  BY <1>1, <1>2 DEF TurnInv, AgentTypes, Tasks
<1>4. /\ task'[t].state = "draining" /\ task'[t].cancelled = task[t].cancelled
      /\ task'[t].message_ix = task[t].message_ix /\ task'[t].uses = task[t].uses
      /\ \A u \in Turn \ {t} : task'[u] = task[u]
  BY <1>1, <1>2
<1>5. /\ UNCHANGED <<viewVars, historyVars, running, flushers, tool, channel>>
      /\ task[t].state = "streaming"
  BY DEF NoticeCancellation, Streaming
<1> QED
  BY <1>3, <1>4, <1>5, MovesOn

LEMMA TextTurns ==
    ASSUME TurnInv, NEW t \in Turn, StreamText(t)
    PROVE  TurnInv'
<1> USE DEF viewVars
<1>1. /\ pending' \in [turns : SUBSET Turn, uses : SUBSET Tool, results : Results]
      /\ pending'.results = pending.results
  BY DEF StreamText, TurnInv, AgentTypes
<1>2. ViewTypes' /\ FreshTurns' /\ AgentTypes'
  BY <1>1 DEF StreamText, TurnInv, ViewTypes, FreshTurns, AgentTypes
<1>3. Prompted' /\ UsesOwned' /\ OneTurn' /\ CutWithin'
  BY DEF StreamText, TurnInv, Prompted, UsesOwned, OneTurn, CutWithin, Active
<1>4. ResultsOnce' /\ AllAnswered(messages)'
  BY <1>1 DEF StreamText, TurnInv, ResultsOnce, AllAnswered
<1> QED
  BY <1>2, <1>3, <1>4 DEF TurnInv

\* A tool that is started belongs to the turn that starts it.
LEMMA ToolUseTurns ==
    ASSUME TurnInv, NEW t \in Turn, NEW x \in Tool,
           NEW state \in {"asking", "running", "finished"}, StreamToolUse(t, x, state)
    PROVE  TurnInv'
<1> DEFINE evs == IF state = "asking" THEN <<<<"call", x>>, <<"ask", x>>>>
                  ELSE <<<<"call", x>>>>
<1> USE DEF viewVars
<1>1. evs \in Seq(Event)
  <2>1. <<"call", x>> \in Event /\ <<"ask", x>> \in Event
    BY DEF Event
  <2> HIDE DEF Event
  <2> QED
    BY <2>1
<1>2. channel' \in Channels
  <2>1. channel' = Report(channel, t, evs)
    BY DEF StreamToolUse
  <2> HIDE DEF evs
  <2> QED
    BY <1>1, <2>1, ReportTyped DEF TurnInv, AgentTypes
<1>3. /\ pending' \in [turns : SUBSET Turn, uses : SUBSET Tool, results : Results]
      /\ pending'.results = pending.results
  <2>1. pending' = [pending EXCEPT !.turns = pending.turns \cup {t},
                                   !.uses = pending.uses \cup {x}]
    BY DEF StreamToolUse
  <2> QED
    BY <2>1 DEF TurnInv, AgentTypes
<1>4. /\ task' \in Tasks /\ task'[t].uses = task[t].uses \cup {x}
      /\ task'[t].state = task[t].state /\ task'[t].cancelled = task[t].cancelled
      /\ task'[t].message_ix = task[t].message_ix
      /\ \A u \in Turn \ {t} : task'[u] = task[u]
  BY DEF StreamToolUse, TurnInv, AgentTypes, Tasks
<1>5. /\ tool' \in Tools /\ tool'[x].turn = t /\ tool'[x].state = state
      /\ tool[x].state = "none" /\ \A y \in Tool \ {x} : tool'[y] = tool[y]
  BY DEF StreamToolUse, TurnInv, AgentTypes, Tools, Turn
<1>6. ViewTypes' /\ FreshTurns' /\ AgentTypes'
  BY <1>2, <1>3, <1>4, <1>5 DEF StreamToolUse, TurnInv, ViewTypes, FreshTurns, AgentTypes
<1>7. Prompted'
  BY <1>4 DEF StreamToolUse, TurnInv, Prompted
<1>8. UsesOwned'
  <2>1. \A u \in Turn : x \notin task[u].uses
    BY <1>5 DEF TurnInv, UsesOwned
  <2>2. \A u \in Turn : task[u].uses \subseteq Tool
    BY DEF TurnInv, AgentTypes, Tasks
  <2> QED
    BY <1>4, <1>5, <2>1, <2>2 DEF TurnInv, UsesOwned
<1>9. OneTurn' /\ CutWithin'
  BY <1>4 DEF StreamToolUse, TurnInv, OneTurn, CutWithin, Active
<1>10. ResultsOnce' /\ AllAnswered(messages)'
  <2>1. \A r \in pending.results : r[1] \in Tool \ {x}
    BY <1>5 DEF TurnInv, ResultsOnce, AgentTypes, Results
  <2> QED
    BY <1>3, <1>5, <2>1 DEF StreamToolUse, TurnInv, ResultsOnce, AllAnswered
<1> QED
  BY <1>6, <1>7, <1>8, <1>9, <1>10 DEF TurnInv

\* A tool moves on without giving its result to the history.
LEMMA ToolMoves ==
    ASSUME TurnInv, NEW x \in Tool, ViewTypes', UNCHANGED <<acp, send>>,
           UNCHANGED <<historyVars, running, task, flushers, channel>>,
           tool' \in Tools, tool'[x].turn = tool[x].turn,
           tool'[x].state # "none", tool[x].state \notin {"taken", "dropped"},
           \A y \in Tool \ {x} : tool'[y] = tool[y]
    PROVE  TurnInv'
<1> USE DEF historyVars
<1>1. FreshTurns' /\ AgentTypes'
  BY DEF TurnInv, FreshTurns, AgentTypes
<1>2. Prompted' /\ UsesOwned' /\ OneTurn' /\ CutWithin'
  <2>1. \A u \in Turn : task[u].uses \subseteq Tool
    BY DEF TurnInv, AgentTypes, Tasks
  <2> QED
    BY <2>1 DEF TurnInv, Prompted, UsesOwned, OneTurn, CutWithin, Active
<1>3. ResultsOnce' /\ AllAnswered(messages)'
  <2>1. \A r \in pending.results : r[1] \in Tool
    BY DEF TurnInv, AgentTypes, Results
  <2> QED
    BY <2>1 DEF TurnInv, ResultsOnce, AllAnswered
<1> QED
  BY <1>1, <1>2, <1>3 DEF TurnInv

LEMMA ToolStepTurns ==
    ASSUME TurnInv, NEW x \in Tool, ToolStep(x) PROVE TurnInv'
<1>1. /\ tool' \in Tools /\ tool'[x].state = "finished" /\ tool'[x].turn = tool[x].turn
      /\ tool[x].state \in {"running", "asking"}
      /\ \A y \in Tool \ {x} : tool'[y] = tool[y]
  <2>1. ASSUME NEW ok \in BOOLEAN, FinishTool(x, ok)
        PROVE /\ tool' \in Tools /\ tool'[x].state = "finished" /\ tool'[x].turn = tool[x].turn
              /\ tool[x].state \in {"running", "asking"}
              /\ \A y \in Tool \ {x} : tool'[y] = tool[y]
    BY <2>1 DEF FinishTool, TurnInv, AgentTypes, Tools
  <2>2. CASE AskFails(x)
    BY <2>2 DEF AskFails, TurnInv, AgentTypes, Tools, AskLost
  <2> QED
    BY <2>1, <2>2 DEF ToolStep
<1>2. UNCHANGED <<viewVars, historyVars, running, task, flushers, channel>>
  BY DEF ToolStep, FinishTool, AskFails
<1> QED
  BY <1>1, <1>2, ToolMoves DEF TurnInv, ViewTypes, viewVars

\* The result is the tool's only one.
LEMMA ResultTurns ==
    ASSUME TurnInv, NEW t \in Turn, NEW x \in Tool, ProcessToolResult(t, x)
    PROVE  TurnInv'
<1> DEFINE result == <<x, IF tool[x].ok THEN "ok" ELSE "error">>
<1> USE DEF viewVars
<1>1. /\ result \in Tool \X {"ok", "error", "canceled"} /\ result[1] = x
  OBVIOUS
<1>2. pending' = [pending EXCEPT !.results = pending.results \cup {result}]
  BY DEF ProcessToolResult
<1> HIDE DEF result
<1>3. /\ pending' \in [turns : SUBSET Turn, uses : SUBSET Tool, results : Results]
      /\ pending'.results = pending.results \cup {result}
  BY <1>1, <1>2 DEF TurnInv, AgentTypes, Results
<1>4. channel' \in Channels
  <2>1. <<"result", x>> \in Event
    BY DEF Event
  <2> HIDE DEF Event
  <2>2. <<<<"result", x>>>> \in Seq(Event)
    BY <2>1
  <2> QED
    BY <2>2, ReportTyped DEF ProcessToolResult, TurnInv, AgentTypes
<1>5. /\ tool' \in Tools /\ tool'[x].state = "taken" /\ tool'[x].turn = tool[x].turn
      /\ tool[x].state = "finished" /\ \A y \in Tool \ {x} : tool'[y] = tool[y]
  BY DEF ProcessToolResult, TurnInv, AgentTypes, Tools, ResultReady
<1>6. ViewTypes' /\ FreshTurns' /\ AgentTypes'
  BY <1>3, <1>4, <1>5 DEF ProcessToolResult, TurnInv, ViewTypes, FreshTurns, AgentTypes
<1>7. Prompted' /\ UsesOwned' /\ OneTurn' /\ CutWithin'
  <2>1. \A u \in Turn : task[u].uses \subseteq Tool
    BY DEF TurnInv, AgentTypes, Tasks
  <2> QED
    BY <1>5, <2>1 DEF ProcessToolResult, TurnInv, Prompted, UsesOwned, OneTurn, CutWithin, Active
<1>8. ResultsOnce'
  <2>1. \A r \in pending.results : r[1] \in Tool \ {x}
    BY <1>5 DEF TurnInv, ResultsOnce, AgentTypes, Results
  <2> QED
    BY <1>1, <1>3, <1>5, <2>1 DEF TurnInv, ResultsOnce
<1>9. AllAnswered(messages)'
  BY DEF ProcessToolResult, TurnInv, AllAnswered
<1> QED
  BY <1>6, <1>7, <1>8, <1>9 DEF TurnInv

\* The pending message joins the history.
LEMMA FlushGood ==
    ASSUME TurnInv
    PROVE  LET ms == Flushed(messages, pending) IN
           ms \in Seq(Entry) /\ AllAnswered(ms) /\ Len(ms) >= Len(messages)
BY FlushedGood DEF TurnInv, AgentTypes, ResultsOnce

LEMMA FlushTurns ==
    ASSUME TurnInv, ViewTypes', FreshTurns', Prompted', channel' \in Channels,
           Flush, UNCHANGED <<running, task, tool>>, flushers' \subseteq Turn
    PROVE  TurnInv'
<1>1. /\ messages' \in Seq(Entry) /\ AllAnswered(messages') /\ Len(messages') >= Len(messages)
      /\ pending' = Blank
  BY FlushGood DEF Flush
<1>2. AgentTypes'
  BY <1>1, BlankTyped DEF TurnInv, AgentTypes
<1>3. UsesOwned' /\ OneTurn'
  BY DEF TurnInv, UsesOwned, OneTurn
<1>4. CutWithin'
  <2>1. Len(messages) \in Nat /\ Len(messages') \in Nat
    BY <1>1 DEF TurnInv, AgentTypes
  <2>2. \A u \in Turn : task[u].message_ix \in Nat
    BY DEF TurnInv, AgentTypes, Tasks
  <2> QED
    BY <1>1, <2>1, <2>2 DEF TurnInv, CutWithin, Active
<1>5. ResultsOnce'
  BY <1>1, BlankTyped DEF ResultsOnce
<1> QED
  BY <1>1, <1>2, <1>3, <1>4, <1>5 DEF TurnInv

LEMMA FlushAfterCancelTurns ==
    ASSUME TurnInv, NEW t \in Turn, FlushAfterCancel(t) PROVE TurnInv'
<1>1. /\ Flush /\ UNCHANGED <<viewVars, running, task, tool, channel>>
      /\ flushers' \subseteq Turn
  BY DEF FlushAfterCancel, TurnInv, AgentTypes
<1>2. ViewTypes' /\ FreshTurns' /\ Prompted' /\ channel' \in Channels
  BY <1>1 DEF viewVars, TurnInv, ViewTypes, FreshTurns, Prompted, AgentTypes
<1> QED
  BY <1>1, <1>2, FlushTurns

\* What the end of a turn's task leaves behind: no turn but the running one
\* goes on, and only the running one cuts the history back.
LEMMA FinishParts ==
    ASSUME TurnInv, NEW t \in Turn, task[t].state \notin {"none", "done"},
           NEW reason \in {"end", "error", "refusal"},
           FinishTask(t, reason, Flushed(messages, pending))
    PROVE  /\ messages' \in Seq(Entry) /\ AllAnswered(messages') /\ pending' = Blank
           /\ running' \in 0 .. MaxTurns /\ channel' \in Channels /\ task' \in Tasks
           /\ task'[t].state = "done" /\ task'[t].uses = {}
           /\ \A u \in Turn \ {t} : task'[u] = task[u]
           /\ \A u \in Turn : Active(u)' =>
                running' = u /\ task'[u].message_ix <= Len(messages')
<1> DEFINE ms == Flushed(messages, pending)
<1>1. ms \in Seq(Entry) /\ AllAnswered(ms) /\ Len(ms) >= Len(messages)
  BY FlushGood
<1>2. Len(ms) \in Nat /\ Len(messages) \in Nat /\ \A u \in Turn : task[u].message_ix \in Nat
  BY <1>1 DEF TurnInv, AgentTypes, Tasks
<1> HIDE DEF ms
<1>3. /\ task' \in Tasks /\ task'[t].state = "done" /\ task'[t].uses = {}
      /\ \A u \in Turn \ {t} : task'[u] = task[u]
  BY ZenonT(40) DEF FinishTask, TurnInv, AgentTypes, Tasks
<1>4. pending' = Blank
  BY DEF FinishTask
<1>5. \A u \in Turn : Active(u) => running = u /\ task[u].message_ix <= Len(messages)
  BY DEF TurnInv, OneTurn, CutWithin, Active
<1>6. \A u \in Turn : Active(u)' => u # t /\ Active(u)
  BY <1>3 DEF Active
<1>7. CASE task[t].cancelled
  <2>1. messages' = ms /\ UNCHANGED <<running, channel>>
    BY <1>7 DEF FinishTask, ms
  <2>2. \A u \in Turn : Active(u)' => running' = u /\ task'[u].message_ix <= Len(messages')
    BY <1>1, <1>2, <1>3, <1>5, <1>6, <2>1
  <2> QED
    BY <1>1, <1>3, <1>4, <2>1, <2>2 DEF TurnInv, AgentTypes
<1>8. CASE ~task[t].cancelled
  <2>1. /\ messages' = IF reason = "refusal" THEN SubSeq(ms, 1, task[t].message_ix) ELSE ms
        /\ running' = 0 /\ channel' = Report(channel, t, <<<<"stop", reason>>>>)
    BY <1>8 DEF FinishTask, ms
  <2>2. Active(t)
    BY <1>8 DEF Active
  <2>3. task[t].message_ix \in 0 .. Len(ms)
    BY <1>1, <1>2, <1>5, <2>2
  <2>4. messages' \in Seq(Entry) /\ AllAnswered(messages')
    BY <1>1, <2>1, <2>3, CutAnswered
  <2>5. channel' \in Channels
    BY <2>1, StopReported DEF TurnInv, AgentTypes, Response
  <2>6. \A u \in Turn : ~Active(u)'
    BY <1>5, <1>6, <2>2
  <2>7. running' \in 0 .. MaxTurns
    BY <2>1, AgentTurnAssumption
  <2> QED
    BY <1>3, <1>4, <2>4, <2>5, <2>6, <2>7
<1> QED
  BY <1>7, <1>8

\* The pending message is blank after such an end.
LEMMA EndsTurn ==
    ASSUME TurnInv, NEW t \in Turn, task[t].state \notin {"none", "done"},
           NEW reason \in {"end", "error", "refusal"},
           FinishTask(t, reason, Flushed(messages, pending)),
           UNCHANGED <<viewVars, flushers>>, tool' \in Tools,
           \A x \in Tool : tool'[x].turn = tool[x].turn
                           /\ (tool[x].state # "none" => tool'[x].state # "none")
    PROVE  TurnInv'
<1> USE DEF viewVars
<1>1. /\ messages' \in Seq(Entry) /\ AllAnswered(messages') /\ pending' = Blank
      /\ running' \in 0 .. MaxTurns /\ channel' \in Channels /\ task' \in Tasks
      /\ task'[t].state = "done" /\ task'[t].uses = {}
      /\ \A u \in Turn \ {t} : task'[u] = task[u]
      /\ \A u \in Turn : Active(u)' =>
            running' = u /\ task'[u].message_ix <= Len(messages')
  BY FinishParts
<1>2. ViewTypes' /\ FreshTurns' /\ AgentTypes'
  BY <1>1, BlankTyped DEF TurnInv, ViewTypes, FreshTurns, AgentTypes
<1>3. Prompted'
  BY <1>1 DEF TurnInv, Prompted
<1>4. UsesOwned'
  <2>1. \A u \in Turn : task[u].uses \subseteq Tool
    BY DEF TurnInv, AgentTypes, Tasks
  <2> QED
    BY <1>1, <2>1 DEF TurnInv, UsesOwned
<1>5. OneTurn' /\ CutWithin'
  BY <1>1 DEF OneTurn, CutWithin, Active
<1>6. ResultsOnce'
  BY <1>1, BlankTyped DEF ResultsOnce
<1> QED
  BY <1>1, <1>2, <1>3, <1>4, <1>5, <1>6 DEF TurnInv

LEMMA RefuseTurns ==
    ASSUME TurnInv, NEW t \in Turn, NEW reason \in {"error", "refusal"},
           Refuse(t, reason)
    PROVE  TurnInv'
<1> USE DEF viewVars, historyVars
<1>1. /\ tool' \in Tools
      /\ \A x \in Tool : /\ tool'[x].turn = tool[x].turn
                         /\ tool'[x].state \in {tool[x].state, "dropped"}
  BY DEF Refuse, TurnInv, AgentTypes, Tools
<1>2. /\ task[t].state \notin {"none", "done"} /\ UNCHANGED <<viewVars, flushers>>
  BY DEF Refuse, Streaming
<1>3. CASE ~task[t].cancelled
  <2>1. FinishTask(t, reason, Flushed(messages, pending))
    BY <1>3 DEF Refuse
  <2> QED
    BY <1>1, <1>2, <2>1, EndsTurn
<1>4. CASE task[t].cancelled
  <2>1. UNCHANGED <<messages, pending, running, channel>>
    BY <1>4 DEF Refuse
  <2>2. /\ task' \in Tasks /\ task'[t].state = "done" /\ task'[t].uses = {}
        /\ \A u \in Turn \ {t} : task'[u] = task[u]
    <3>1. task' = [task EXCEPT ![t].state = "done", ![t].uses = {}]
      BY <1>4 DEF Refuse
    <3> QED
      BY <3>1, ZenonT(40) DEF TurnInv, AgentTypes, Tasks
  <2>3. ViewTypes' /\ FreshTurns' /\ AgentTypes' /\ Prompted'
    BY <1>1, <1>2, <2>1, <2>2 DEF TurnInv, ViewTypes, FreshTurns, AgentTypes, Prompted
  <2>4. UsesOwned' /\ ResultsOnce'
    <3>1. \A u \in Turn : task[u].uses \subseteq Tool
      BY DEF TurnInv, AgentTypes, Tasks
    <3>2. \A r \in pending.results : r[1] \in Tool
      BY DEF TurnInv, AgentTypes, Results
    <3> QED
      BY <1>1, <2>1, <2>2, <3>1, <3>2 DEF TurnInv, UsesOwned, ResultsOnce
  <2>5. OneTurn' /\ CutWithin' /\ AllAnswered(messages)'
    BY <2>1, <2>2 DEF TurnInv, OneTurn, CutWithin, Active, AllAnswered
  <2> QED
    BY <2>3, <2>4, <2>5 DEF TurnInv
<1> QED
  BY <1>3, <1>4

LEMMA DrainedTurns ==
    ASSUME TurnInv, NEW t \in Turn, Drained(t) PROVE TurnInv'
<1> USE DEF viewVars
<1> DEFINE ms == Flushed(messages, pending)
<1>1. task[t].state \in {"draining", "failing"} /\ UNCHANGED <<viewVars, flushers, tool>>
  BY DEF Drained, Draining, AllTaken
<1>2. CASE FinishTask(t, IF task[t].state = "failing" THEN "error" ELSE "end", ms)
  <2>1. tool' \in Tools
    BY <1>1 DEF TurnInv, AgentTypes
  <2> QED
    BY <1>1, <1>2, <2>1, EndsTurn
<1>3. CASE /\ task' = [task EXCEPT ![t].state = "streaming", ![t].uses = {}]
           /\ messages' = ms /\ pending' = Blank /\ UNCHANGED <<running, channel>>
  <2>1. ms \in Seq(Entry) /\ AllAnswered(ms) /\ Len(ms) >= Len(messages)
    BY FlushGood
  <2>2. Len(ms) \in Nat /\ Len(messages) \in Nat /\ \A u \in Turn : task[u].message_ix \in Nat
    BY <2>1 DEF TurnInv, AgentTypes, Tasks
  <2> HIDE DEF ms
  <2>3. /\ task' \in Tasks /\ task'[t].state = "streaming" /\ task'[t].uses = {}
        /\ task'[t].cancelled = task[t].cancelled /\ task'[t].message_ix = task[t].message_ix
        /\ \A u \in Turn \ {t} : task'[u] = task[u]
    BY <1>3 DEF TurnInv, AgentTypes, Tasks
  <2>4. ViewTypes' /\ FreshTurns' /\ AgentTypes' /\ Prompted'
    BY <1>1, <1>3, <2>1, <2>3, BlankTyped
       DEF TurnInv, ViewTypes, FreshTurns, AgentTypes, Prompted
  <2>5. UsesOwned'
    <3>1. \A u \in Turn : task[u].uses \subseteq Tool
      BY DEF TurnInv, AgentTypes, Tasks
    <3> QED
      BY <1>1, <2>3, <3>1 DEF TurnInv, UsesOwned
  <2>6. \A u \in Turn : Active(u)' => Active(u)
    BY <1>1, <2>3 DEF Active
  <2>7. OneTurn' /\ CutWithin'
    <3>1. \A u \in Turn : Active(u) => running = u /\ task[u].message_ix <= Len(messages)
      BY DEF TurnInv, OneTurn, CutWithin, Active
    <3>2. \A u \in Turn : Active(u)' => running' = u /\ task'[u].message_ix <= Len(messages')
      <4>1. \A u \in Turn : task'[u].message_ix = task[u].message_ix
        BY <2>3
      <4>2. running' = running /\ messages' = ms
        BY <1>3
      <4>3. \A n \in Nat : n <= Len(messages) => n <= Len(ms)
        BY <2>1, <2>2
      <4>4. \A u \in Turn : Active(u)' => running = u /\ task[u].message_ix <= Len(ms)
        BY <2>2, <2>6, <3>1, <4>3
      <4> QED
        BY <4>1, <4>2, <4>4
    <3> QED
      BY <3>2 DEF OneTurn, CutWithin, Active
  <2>8. ResultsOnce' /\ AllAnswered(messages)'
    BY <1>3, <2>1, BlankTyped DEF ResultsOnce
  <2> QED
    BY <2>4, <2>5, <2>7, <2>8 DEF TurnInv
<1> QED
  BY <1>2, <1>3 DEF Drained
-----------------------------------------------------------------------------
(* Steps of the user and of the view.                                      *)

\* The view may say something else of a turn whose agent's task goes on.
LEMMA ViewOnly ==
    ASSUME TurnInv, ViewTypes', FreshTurns', Prompted', channel' \in Channels,
           UNCHANGED <<messages, pending, running, flushers, task, tool>>
    PROVE  TurnInv'
<1>1. AgentTypes'
  BY DEF TurnInv, AgentTypes
<1>2. UsesOwned' /\ OneTurn' /\ CutWithin' /\ ResultsOnce' /\ AllAnswered(messages)'
  BY DEF TurnInv, UsesOwned, OneTurn, CutWithin, Active, ResultsOnce, AllAnswered
<1> QED
  BY <1>1, <1>2 DEF TurnInv

\* A turn that is told to end is active no more, and no other was.
LEMMA CancelledParts ==
    ASSUME TurnInv, running # 0
    PROVE  /\ running \in Turn /\ CancelledTask(running) \in Tasks
           /\ CancelledTask(running)[running].cancelled
           /\ \A u \in Turn : /\ CancelledTask(running)[u].state = task[u].state
                              /\ CancelledTask(running)[u].uses = task[u].uses
                              /\ CancelledTask(running)[u].message_ix = task[u].message_ix
                              /\ u # running =>
                                   CancelledTask(running)[u].cancelled = task[u].cancelled
<1>1. running \in Turn
  BY AgentTurnAssumption DEF TurnInv, AgentTypes, Turn
<1> QED
  BY <1>1 DEF TurnInv, AgentTypes, CancelledTask, Tasks

\* What a cancellation does to the agent's thread, whatever the view does
\* with it at once.
LEMMA CancelTurns ==
    ASSUME TurnInv, ViewTypes', FreshTurns', channel' \in Channels, tool' = tool,
           \A t \in Turn : send'[t].state \in {"none", "waiting", "checkpoint"} =>
               task[t].state = "none",
           \/ running = 0 /\ Flush /\ UNCHANGED <<running, task, flushers>>
           \/ /\ running # 0 /\ running' = 0 /\ task' = CancelledTask(running)
              /\ flushers' = flushers \cup {running} /\ UNCHANGED historyVars
    PROVE  TurnInv'
<1>1. CASE running = 0 /\ Flush /\ UNCHANGED <<running, task, flushers>>
  <2>1. flushers' \subseteq Turn /\ Prompted'
    BY <1>1 DEF TurnInv, AgentTypes, Prompted
  <2> QED
    BY <1>1, <2>1, FlushTurns
<1>2. CASE /\ running # 0 /\ running' = 0 /\ task' = CancelledTask(running)
           /\ flushers' = flushers \cup {running} /\ UNCHANGED historyVars
  <2> USE DEF historyVars
  <2>1. /\ running \in Turn /\ task' \in Tasks /\ task'[running].cancelled
        /\ \A u \in Turn : /\ task'[u].state = task[u].state /\ task'[u].uses = task[u].uses
                           /\ task'[u].message_ix = task[u].message_ix
                           /\ u # running => task'[u].cancelled = task[u].cancelled
    BY <1>2, CancelledParts
  <2>2. AgentTypes'
    BY <1>2, <2>1, AgentTurnAssumption DEF TurnInv, AgentTypes
  <2>3. Prompted' /\ UsesOwned'
    BY <2>1 DEF TurnInv, Prompted, UsesOwned
  <2>4. OneTurn' /\ CutWithin'
    <3>1. \A u \in Turn : ~Active(u)'
      BY <2>1 DEF TurnInv, OneTurn, Active
    <3> QED
      BY <3>1 DEF OneTurn, CutWithin, Active
  <2>5. ResultsOnce' /\ AllAnswered(messages)'
    BY <1>2 DEF TurnInv, ResultsOnce, AllAnswered
  <2> QED
    BY <2>2, <2>3, <2>4, <2>5 DEF TurnInv
<1> QED
  BY <1>1, <1>2

LEMMA MarksTyped == ASSUME call \in Calls, MarkPendingToolsAsCanceled PROVE call' \in Calls
BY DEF MarkPendingToolsAsCanceled, Calls

LEMMA SendTurns == TurnInv /\ Send => TurnInv'
<1> SUFFICES ASSUME TurnInv, Send PROVE TurnInv'
  OBVIOUS
<1> DEFINE t == acp.turn_id + 1
<1>1. /\ t \in Turn /\ acp' = [acp EXCEPT !.turn_id = t, !.running = t]
      /\ send' = [send EXCEPT ![t].state = "waiting", ![t].after = acp.running,
                              ![t].answered = "waiting"]
      /\ tool' = tool
  BY AgentTurnAssumption DEF Send, TurnInv, ViewTypes, Turn
<1>2. /\ acp.turn_id \in 0 .. MaxTurns /\ acp.running \in 0 .. MaxTurns
      /\ t \in 0 .. MaxTurns
  BY <1>1, AgentTurnAssumption DEF TurnInv, ViewTypes, Turn
<1>3. send[t].state = "none" /\ task[t].state = "none"
  BY <1>1, <1>2 DEF TurnInv, FreshTurns, Prompted
<1> HIDE DEF t
<1>4. /\ acp' \in [running : 0 .. MaxTurns, turn_id : 0 .. MaxTurns,
                   kept : 0 .. MaxTurns, stops : 0 .. MaxStops]
      /\ acp'.turn_id = t
  <2>1. acp' = [[acp EXCEPT !.turn_id = t] EXCEPT !.running = t]
    BY <1>1
  <2> QED
    BY <1>2, <2>1 DEF TurnInv, ViewTypes
<1>5. send' \in Sends /\ \A u \in Turn \ {t} : send'[u] = send[u]
  <2>1. send \in Sends
    BY DEF TurnInv, ViewTypes
  <2>2. [send EXCEPT ![t].state = "waiting"] \in Sends
    BY <2>1 DEF Sends
  <2> DEFINE waits == [send EXCEPT ![t].state = "waiting", ![t].after = acp.running]
  <2>3. waits \in Sends
    BY <1>2, <2>2, ZenonT(40) DEF Sends
  <2>4. send' = [waits EXCEPT ![t].answered = "waiting"]
    BY <1>1
  <2> HIDE DEF waits
  <2>5. send' \in Sends
    BY <2>3, <2>4 DEF Sends
  <2> QED
    BY <1>1, <2>1, <2>5 DEF Sends
<1>6. FreshTurns'
  <2>1. \A u \in Turn : u > t => u # t /\ u > acp.turn_id
    BY <1>2 DEF t, Turn
  <2> QED
    BY <1>4, <1>5, <2>1 DEF TurnInv, FreshTurns
<1>7. \A u \in Turn : send'[u].state \in {"none", "waiting", "checkpoint"} =>
          task[u].state = "none"
  BY <1>3, <1>5 DEF TurnInv, Prompted
<1>8. CASE acp.running = 0
  <2>1. UNCHANGED <<call, stopped, historyVars, running, task, flushers, channel>>
    BY <1>8 DEF Send
  <2>2. ViewTypes' /\ channel' \in Channels /\ Prompted'
    BY <1>4, <1>5, <1>7, <2>1 DEF TurnInv, ViewTypes, AgentTypes, Prompted
  <2> QED
    BY <1>1, <1>6, <2>1, <2>2, ViewOnly DEF historyVars
<1>9. CASE acp.running # 0
  <2>1. stopped' = stopped \cup {acp.running} /\ MarkPendingToolsAsCanceled /\ CancelThread
    BY <1>9 DEF Send
  <2>2. acp.running \in Turn
    BY <1>2, <1>9, AgentTurnAssumption DEF Turn
  <2>3. ViewTypes'
    BY <1>4, <1>5, <2>1, <2>2, MarksTyped DEF TurnInv, ViewTypes
  <2>4. channel' \in Channels
    <3>1. CASE running = 0
      BY <2>1, <3>1 DEF CancelThread, TurnInv, AgentTypes
    <3>2. CASE running # 0
      BY <2>1, <3>2, CancelledParts, StopReported
         DEF CancelThread, TurnInv, AgentTypes, Response
    <3> QED
      BY <3>1, <3>2
  <2> QED
    BY <1>1, <1>6, <1>7, <2>1, <2>3, <2>4, CancelTurns DEF CancelThread
<1> QED
  BY <1>8, <1>9

LEMMA StopTurns == TurnInv /\ Stop => TurnInv'
<1> SUFFICES ASSUME TurnInv, Stop PROVE TurnInv'
  OBVIOUS
<1> DEFINE cancelled == IF running = 0 THEN channel
                        ELSE Report(channel, running, <<<<"stop", "cancelled">>>>)
<1>1. PICK dropped :
        /\ \A u \in dropped : send[u].state \in {"waiting", "checkpoint", "prompting"}
        /\ send' = [u \in Turn |-> IF u \in dropped
                        THEN [send[u] EXCEPT !.state = "dropped"] ELSE send[u]]
        /\ channel' = [u \in Turn |-> IF u \in dropped
                           THEN [queue |-> <<>>, open |-> FALSE] ELSE cancelled[u]]
  <2>1. PICK ts : /\ ts = IF acp.kept = 0 THEN {} ELSE Unsent(Chain(acp.kept))
                  /\ send' = [u \in Turn |-> IF u \in ts
                        THEN [send[u] EXCEPT !.state = "dropped"] ELSE send[u]]
                  /\ channel' = [u \in Turn |-> IF u \in ts
                           THEN [queue |-> <<>>, open |-> FALSE] ELSE cancelled[u]]
    BY DEF Stop
  <2>2. \A u \in ts : send[u].state \in {"waiting", "checkpoint", "prompting"}
    BY <2>1 DEF Unsent
  <2> QED
    BY <2>1, <2>2
<1>2. cancelled \in Channels
  <2>1. CASE running = 0
    BY <2>1 DEF TurnInv, AgentTypes
  <2>2. CASE running # 0
    BY <2>2, CancelledParts, StopReported DEF TurnInv, AgentTypes, Response
  <2> QED
    BY <2>1, <2>2
<1> HIDE DEF cancelled
<1>3. channel' \in Channels
  <2>1. <<>> \in Seq(Event)
    OBVIOUS
  <2> QED
    BY <1>1, <1>2, <2>1 DEF Channels
<1>4. /\ send' \in Sends
      /\ \A u \in Turn : send'[u].state \in {send[u].state, "dropped"}
      /\ \A u \in Turn : send'[u].state = "dropped" => send[u].state # "none"
  BY <1>1, ZenonT(40) DEF TurnInv, ViewTypes, Sends
<1>5. /\ acp' = [acp EXCEPT !.running = 0, !.kept = acp.running, !.stops = acp.stops + 1]
      /\ acp.running # 0 /\ acp.stops < MaxStops
      /\ stopped' = stopped \cup {acp.running} /\ tool' = tool
      /\ MarkPendingToolsAsCanceled
  BY DEF Stop
<1>6. ViewTypes' /\ acp'.turn_id = acp.turn_id
  <2>1. acp.running \in Turn /\ acp.stops + 1 \in 0 .. MaxStops /\ 0 \in 0 .. MaxTurns
    BY <1>5, AgentTurnAssumption DEF TurnInv, ViewTypes, Turn
  <2> QED
    BY <1>4, <1>5, <2>1, MarksTyped DEF TurnInv, ViewTypes
<1>7. FreshTurns'
  BY <1>4, <1>6 DEF TurnInv, FreshTurns
<1>8. \A u \in Turn : send'[u].state \in {"none", "waiting", "checkpoint"} =>
          task[u].state = "none"
  BY <1>4 DEF TurnInv, Prompted
<1>9. \/ running = 0 /\ Flush /\ UNCHANGED <<running, task, flushers>>
      \/ /\ running # 0 /\ running' = 0 /\ task' = CancelledTask(running)
         /\ flushers' = flushers \cup {running} /\ UNCHANGED historyVars
  BY DEF Stop
<1> QED
  BY <1>3, <1>5, <1>6, <1>7, <1>8, <1>9, CancelTurns

LEMMA AuthorizeTurns ==
    ASSUME TurnInv, NEW x \in Tool, NEW allowed \in BOOLEAN, Authorize(x, allowed)
    PROVE  TurnInv'
<1>1. /\ ViewTypes' /\ FreshTurns' /\ Prompted'
      /\ UNCHANGED <<acp, send, historyVars, running, task, flushers, channel>>
  BY DEF Authorize, TurnInv, ViewTypes, FreshTurns, Prompted, Calls
<1>2. CASE tool[x].state = "asking"
  <2>1. /\ tool' \in Tools /\ tool'[x].turn = tool[x].turn
        /\ tool'[x].state \in {"running", "finished"}
        /\ \A y \in Tool \ {x} : tool'[y] = tool[y]
    BY <1>2 DEF Authorize, TurnInv, AgentTypes, Tools
  <2> QED
    BY <1>1, <1>2, <2>1, ToolMoves
<1>3. CASE tool[x].state # "asking"
  <2>1. tool' = tool
    <3>1. tool' = [tool EXCEPT ![x].state = tool[x].state]
      BY <1>3 DEF Authorize
    <3> QED
      BY <3>1 DEF TurnInv, AgentTypes, Tools
  <2> QED
    BY <1>1, <2>1, ViewOnly DEF historyVars, TurnInv, AgentTypes
<1> QED
  BY <1>2, <1>3

LEMMA StartSendTurns ==
    ASSUME TurnInv, NEW t \in Turn, StartSend(t) PROVE TurnInv'
<1>1. /\ send' = [send EXCEPT ![t].state = "checkpoint"] /\ send[t].state = "waiting"
      /\ UNCHANGED <<acp, call, stopped, historyVars, running, task, flushers, tool, channel>>
  BY DEF StartSend
<1>2. send' \in Sends /\ send'[t].state = "checkpoint" /\ \A u \in Turn \ {t} : send'[u] = send[u]
  BY <1>1 DEF TurnInv, ViewTypes, Sends
<1>3. ViewTypes' /\ FreshTurns' /\ Prompted' /\ channel' \in Channels
  BY <1>1, <1>2 DEF TurnInv, ViewTypes, FreshTurns, Prompted, AgentTypes
<1> QED
  BY <1>1, <1>3, ViewOnly DEF historyVars

LEMMA ReceiveResponseTurns ==
    ASSUME TurnInv, NEW t \in Turn, ReceiveResponse(t) PROVE TurnInv'
<1>1. /\ send' = [send EXCEPT ![t].answered = "checkpoint"]
      /\ UNCHANGED <<acp, call, stopped, historyVars, running, task, flushers, tool, channel>>
  BY DEF ReceiveResponse
<1>2. send' \in Sends /\ \A u \in Turn : send'[u].state = send[u].state
  BY <1>1 DEF TurnInv, ViewTypes, Sends
<1>3. ViewTypes' /\ FreshTurns' /\ Prompted' /\ channel' \in Channels
  BY <1>1, <1>2 DEF TurnInv, ViewTypes, FreshTurns, Prompted, AgentTypes
<1> QED
  BY <1>1, <1>3, ViewOnly DEF historyVars

LEMMA FinishTurnTurns ==
    ASSUME TurnInv, NEW t \in Turn, FinishTurn(t) PROVE TurnInv'
<1>1. /\ send' = [send EXCEPT ![t].answered = "done"]
      /\ acp' = [acp EXCEPT !.running = IF acp.running = t THEN 0 ELSE acp.running]
      /\ UNCHANGED <<stopped, historyVars, running, task, flushers, tool, channel>>
      /\ MarkPendingToolsAsCanceled \/ call' = call
  BY DEF FinishTurn
<1>2. send' \in Sends /\ \A u \in Turn : send'[u].state = send[u].state
  BY <1>1 DEF TurnInv, ViewTypes, Sends
<1>3. call' \in Calls
  BY <1>1, MarksTyped DEF TurnInv, ViewTypes
<1>4. /\ acp' \in [running : 0 .. MaxTurns, turn_id : 0 .. MaxTurns,
                   kept : 0 .. MaxTurns, stops : 0 .. MaxStops]
      /\ acp'.turn_id = acp.turn_id
  BY <1>1, AgentTurnAssumption DEF TurnInv, ViewTypes
<1>5. ViewTypes' /\ FreshTurns' /\ Prompted' /\ channel' \in Channels
  BY <1>1, <1>2, <1>3, <1>4 DEF TurnInv, ViewTypes, FreshTurns, Prompted, AgentTypes
<1> QED
  BY <1>1, <1>5, ViewOnly DEF historyVars

LEMMA HandleEventTurns ==
    ASSUME TurnInv, NEW t \in Turn, HandleEvent(t) PROVE TurnInv'
<1> DEFINE kind == Head(channel[t].queue)[1]
           x == Head(channel[t].queue)[2]
<1>1. /\ send[t].state = "prompting" /\ channel[t].queue # <<>>
      /\ UNCHANGED <<acp, stopped, historyVars, running, task, flushers, tool>>
  BY DEF HandleEvent, EventWaits
<1>2. channel \in Channels /\ channel[t].queue \in Seq(Event)
  BY DEF TurnInv, AgentTypes, Channels
<1>3. Head(channel[t].queue) \in Event /\ Tail(channel[t].queue) \in Seq(Event)
  <2> HIDE DEF Event
  <2> QED
    BY <1>1, <1>2
<1>4. (kind = "stop" /\ x \in Response) \/ (kind # "stop" /\ x \in Tool)
  BY <1>3 DEF Event
<1>5. CASE kind = "stop"
  <2>1. /\ send' = [send EXCEPT ![t].state = "sent", ![t].response = x]
        /\ channel' = [channel EXCEPT ![t] = [queue |-> <<>>, open |-> FALSE]]
        /\ call' = call
    BY <1>5 DEF HandleEvent
  <2>2. x \in Response
    BY <1>4, <1>5
  <2> HIDE DEF x
  <2>3. send' \in Sends /\ send'[t].state = "sent" /\ \A u \in Turn \ {t} : send'[u] = send[u]
    BY <2>1, <2>2, ZenonT(40) DEF TurnInv, ViewTypes, Sends
  <2>4. channel' \in Channels
    <3>1. <<>> \in Seq(Event)
      OBVIOUS
    <3> QED
      BY <1>2, <2>1, <3>1 DEF Channels
  <2>5. ViewTypes' /\ FreshTurns' /\ Prompted'
    BY <1>1, <2>1, <2>3 DEF TurnInv, ViewTypes, FreshTurns, Prompted
  <2> QED
    BY <1>1, <2>4, <2>5, ViewOnly DEF historyVars
<1>6. CASE kind # "stop"
  <2>1. /\ channel' = [channel EXCEPT ![t].queue = Tail(channel[t].queue)] /\ send' = send
        /\ \E status \in {"in_progress", "waiting", "completed", "failed"} :
              call' = [call EXCEPT ![x] = status]
    BY <1>6 DEF HandleEvent
  <2>2. channel' \in Channels
    BY <1>2, <1>3, <2>1 DEF Channels
  <2>3. call' \in Calls
    BY <2>1 DEF TurnInv, ViewTypes, Calls
  <2>4. ViewTypes' /\ FreshTurns' /\ Prompted'
    BY <1>1, <2>1, <2>3 DEF TurnInv, ViewTypes, FreshTurns, Prompted
  <2> QED
    BY <1>1, <2>2, <2>4, ViewOnly DEF historyVars
<1> QED
  BY <1>5, <1>6

\* The prompt ends whichever turn runs, and begins its own with the history
\* as it is then.
LEMMA PromptTurns ==
    ASSUME TurnInv, NEW t \in Turn, Prompt(t) PROVE TurnInv'
<1> DEFINE others == IF running = 0 THEN task ELSE CancelledTask(running)
           told == IF running = 0 THEN channel
                   ELSE Report(channel, running, <<<<"stop", "cancelled">>>>)
<1>1. /\ send[t].state = "checkpoint" /\ send' = [send EXCEPT ![t].state = "prompting"]
      /\ UNCHANGED <<acp, entries, call, stopped, tool>>
      /\ messages' = Flushed(Append(messages, UserMessage(t)), pending)
      /\ pending' = Blank /\ running' = t
      /\ task' = [others EXCEPT ![t].state = "streaming", ![t].message_ix = Len(messages') - 1]
      /\ flushers' = IF running = 0 THEN flushers ELSE flushers \cup {running}
      /\ channel' = [told EXCEPT ![t] = [queue |-> <<>>, open |-> TRUE]]
  BY DEF Prompt, SendToThread
<1>2. send' \in Sends /\ send'[t].state = "prompting" /\ \A u \in Turn \ {t} : send'[u] = send[u]
  BY <1>1, ZenonT(40) DEF TurnInv, ViewTypes, Sends
<1>3. /\ messages' \in Seq(Entry) /\ AllAnswered(messages')
      /\ Len(messages') >= Len(messages) + 1
  <2>1. UserMessage(t) \in Entry /\ Answered(UserMessage(t))
    BY DEF UserMessage, Entry, Answered, Results
  <2>2. messages \in Seq(Entry) /\ AllAnswered(messages)
    BY DEF TurnInv, AgentTypes
  <2>3. LET ms == Append(messages, UserMessage(t)) IN
          ms \in Seq(Entry) /\ AllAnswered(ms) /\ Len(ms) = Len(messages) + 1
    BY <2>1, <2>2, AppendAnswered
  <2> HIDE DEF UserMessage
  <2> QED
    BY <1>1, <2>3, FlushedGood DEF TurnInv, AgentTypes, ResultsOnce
<1>4. Len(messages) \in Nat /\ Len(messages') \in Nat /\ Len(messages') - 1 \in Nat
  <2>1. Len(messages) \in Nat /\ Len(messages') \in Nat
    BY <1>3 DEF TurnInv, AgentTypes
  <2> QED
    BY <1>3, <2>1
<1>5. /\ others \in Tasks
      /\ \A u \in Turn : /\ others[u].state = task[u].state /\ others[u].uses = task[u].uses
                         /\ others[u].message_ix = task[u].message_ix
                         /\ others[u].state \in {"none", "done"} \/ others[u].cancelled
  <2>1. CASE running = 0
    <3>1. \A u \in Turn : u # 0
      BY DEF Turn
    <3> QED
      BY <2>1, <3>1 DEF TurnInv, AgentTypes, OneTurn
  <2>2. CASE running # 0
    BY <2>2, CancelledParts DEF TurnInv, OneTurn
  <2> QED
    BY <2>1, <2>2
<1>6. told \in Channels /\ flushers' \subseteq Turn
  <2>1. CASE running = 0
    BY <1>1, <2>1 DEF TurnInv, AgentTypes
  <2>2. CASE running # 0
    BY <1>1, <2>2, CancelledParts, StopReported DEF TurnInv, AgentTypes, Response
  <2> QED
    BY <2>1, <2>2
<1> HIDE DEF others, told
<1>7. /\ task' \in Tasks /\ task'[t].state = "streaming" /\ task'[t].uses = others[t].uses
      /\ task'[t].message_ix = Len(messages') - 1
      /\ \A u \in Turn \ {t} : task'[u] = others[u]
  <2> DEFINE n == Len(messages') - 1
  <2>1. n \in Nat /\ task' = [others EXCEPT ![t].state = "streaming", ![t].message_ix = n]
    BY <1>1, <1>4
  <2> HIDE DEF n
  <2>2. /\ task' \in Tasks /\ task'[t].state = "streaming" /\ task'[t].uses = others[t].uses
        /\ task'[t].message_ix = n /\ \A u \in Turn \ {t} : task'[u] = others[u]
    BY <1>5, <2>1, ZenonT(40) DEF Tasks
  <2> QED
    BY <2>2 DEF n
<1>8. channel' \in Channels
  <2>1. <<>> \in Seq(Event)
    OBVIOUS
  <2> QED
    BY <1>1, <1>6, <2>1 DEF Channels
<1>9. ViewTypes' /\ FreshTurns'
  BY <1>1, <1>2 DEF TurnInv, ViewTypes, FreshTurns
<1>10. AgentTypes'
  <2>1. running' \in 0 .. MaxTurns /\ tool' \in Tools
    BY <1>1, AgentTurnAssumption DEF TurnInv, AgentTypes, Turn
  <2> QED
    BY <1>1, <1>3, <1>6, <1>7, <1>8, <2>1, BlankTyped DEF AgentTypes
<1>11. Prompted'
  BY <1>2, <1>5, <1>7 DEF TurnInv, Prompted
<1>12. UsesOwned'
  <2>1. tool' = tool /\ \A u \in Turn : task'[u].uses = task[u].uses
    BY <1>1, <1>5, <1>7
  <2> QED
    BY <2>1 DEF TurnInv, UsesOwned
<1>13. OneTurn' /\ CutWithin'
  <2>1. \A u \in Turn : Active(u)' => u = t
    BY <1>5, <1>7 DEF Active
  <2>2. task'[t].message_ix <= Len(messages')
    BY <1>4, <1>7
  <2> QED
    BY <1>1, <2>1, <2>2 DEF OneTurn, CutWithin, Active
<1>14. ResultsOnce' /\ AllAnswered(messages)'
  BY <1>1, <1>3, BlankTyped DEF ResultsOnce
<1> QED
  BY <1>9, <1>10, <1>11, <1>12, <1>13, <1>14 DEF TurnInv

LEMMA NextTurns == TurnInv /\ [Next]_vars => TurnInv'
<1> SUFFICES ASSUME TurnInv, [Next]_vars PROVE TurnInv'
  OBVIOUS
<1>1. CASE User
  BY <1>1, SendTurns, StopTurns, AuthorizeTurns DEF User
<1>2. ASSUME NEW t \in Turn, TaskStep(t) PROVE TurnInv'
  BY <1>2, EndStreamTurns, NoticeTurns, RefuseTurns, DrainedTurns, FlushAfterCancelTurns,
     ResultTurns DEF TaskStep
<1>3. ASSUME NEW t \in Turn, StreamStep(t) PROVE TurnInv'
  BY <1>3, TextTurns, ToolUseTurns DEF StreamStep
<1>4. ASSUME NEW t \in Turn, ViewStep(t) PROVE TurnInv'
  BY <1>4, StartSendTurns, PromptTurns, HandleEventTurns, ReceiveResponseTurns,
     FinishTurnTurns DEF ViewStep
<1>5. ASSUME NEW x \in Tool, ToolStep(x) PROVE TurnInv'
  BY <1>5, ToolStepTurns
<1>6. CASE UNCHANGED vars
  <2>1. ViewTypes' /\ FreshTurns' /\ Prompted' /\ channel' \in Channels
    BY <1>6 DEF vars, viewVars, TurnInv, ViewTypes, FreshTurns, Prompted, AgentTypes
  <2> QED
    BY <1>6, <2>1, ViewOnly DEF vars, historyVars
<1> QED
  BY <1>1, <1>2, <1>3, <1>4, <1>5, <1>6 DEF Next

-----------------------------------------------------------------------------
\* At most one turn goes on that nobody has cancelled, the one a cancellation
\* would reach, and a turn's task exists only once the view has prompted for
\* it: for any number of turns, tools and stops (Thread::run_turn, which
\* cancels the running turn before it starts the next one).
THEOREM TurnsStaySound == Spec => []TurnsSound
<1>1. TurnInv => TurnsSound
  <2> SUFFICES ASSUME TurnInv PROVE TypeOK /\ OneTurn
    BY DEF TurnsSound
  <2>1. ASSUME NEW t \in Turn
        PROVE /\ send[t].state \in {"none", "waiting", "checkpoint", "prompting", "sent", "dropped"}
              /\ send[t].response \in {"none", "end", "cancelled", "refusal", "error"}
              /\ send[t].answered \in {"no", "waiting", "checkpoint", "done"}
              /\ task[t].state \in {"none", "streaming", "draining", "failing", "done"}
              /\ task[t].uses \subseteq Tool
    BY DEF TurnInv, ViewTypes, AgentTypes, Sends, Tasks, Response
  <2>2. ASSUME NEW t \in Turn
        PROVE /\ send[t].state \in {"none", "waiting", "checkpoint"} => task[t].state = "none"
              /\ task[t].uses = {x \in Tool : tool[x].turn = t /\ x \in task[t].uses}
    BY <2>1 DEF TurnInv, Prompted, UsesOwned
  <2>3. ASSUME NEW x \in Tool
        PROVE /\ tool[x].state \in {"none", "asking", "running", "finished", "taken", "dropped"}
              /\ call[x] \in {"none", "waiting", "in_progress", "completed", "failed",
                              "rejected", "canceled"}
    BY DEF TurnInv, ViewTypes, AgentTypes, Tools, Calls
  <2>4. TypeOK
    BY <2>1, <2>2, <2>3 DEF TypeOK, TurnInv, ViewTypes, AgentTypes
  <2> QED
    BY <2>4 DEF TurnInv
<1> QED
  BY <1>1, InitTurns, NextTurns, PTL DEF Spec

\* Every tool use in the history has exactly one result in its message, for
\* any number of turns, tools and stops, also when turns are stopped, replaced
\* or refused with their tools half done (Thread::flush_pending_message, which
\* gives each use without a result one that says it was canceled).
THEOREM UsesStayAnswered == Spec => []UsesHaveResults
<1>1. TurnInv => UsesHaveResults
  <2> SUFFICES ASSUME TurnInv, NEW i \in DOMAIN messages, NEW x \in messages[i].uses
               PROVE  Cardinality({r \in messages[i].results : r[1] = x}) = 1
    BY DEF UsesHaveResults
  <2>1. i \in 1 .. Len(messages)
    BY DEF TurnInv, AgentTypes
  <2>2. PICK r \in messages[i].results :
            r[1] = x /\ \A s \in messages[i].results : s[1] = x => s = r
    BY <2>1 DEF TurnInv, AllAnswered, Answered
  <2>3. {s \in messages[i].results : s[1] = x} = {r}
    BY <2>2
  <2> QED
    BY <2>3, FS_Singleton
<1> QED
  BY <1>1, InitTurns, NextTurns, PTL DEF Spec

-----------------------------------------------------------------------------
(* A turn that was cancelled can always go on.                             *)

\* The events of a turn that the view has not handled yet.
Said(ch, t) == {ch[t].queue[i] : i \in DOMAIN ch[t].queue}
StopOf(r) == <<"stop", r>>

RunningActive == running # 0 => Active(running)

\* Only a task that goes on has tools it waits for.
TasksKept ==
    \A t \in Turn :
        /\ task[t].cancelled => task[t].state # "none"
        /\ task[t].state \in {"none", "done"} => task[t].uses = {}
        /\ \A x \in task[t].uses :
              tool[x].state \in {"asking", "running", "finished", "taken"}

\* The view listens from the prompt to the response.
Listens ==
    \A t \in Turn :
        /\ channel[t].open <=> send[t].state = "prompting"
        /\ Said(channel, t) # {} => channel[t].open
        /\ send[t].state \in {"waiting", "checkpoint", "prompting"} =>
              send[t].answered = "waiting"

\* The events of a turn are about its own tools.
EventsOwn ==
    \A t \in Turn : \A e \in Said(channel, t) :
        e[1] # "stop" => tool[e[2]].turn = t /\ tool[e[2]].state # "none"

\* A turn that goes on has not been told to stop, one that was cancelled has
\* been told so, and nothing else.
StopsTold ==
    \A t \in Turn :
        /\ Active(t) => \A e \in Said(channel, t) : e[1] # "stop"
        /\ task[t].cancelled =>
              \A e \in Said(channel, t) : e[1] = "stop" => e[2] = "cancelled"
        /\ task[t].cancelled /\ channel[t].open => StopOf("cancelled") \in Said(channel, t)

CallsKnown == \A x \in Tool : tool[x].state = "none" => call[x] = "none"

\* A call that waits for the user on view is one whose turn the view still
\* listens to, or has a response for that it has not finished with.
WaitsAnswered ==
    \A t \in Turn : \A x \in task[t].uses :
        tool[x].state = "asking" /\ x \in OnView /\ call[x] = "waiting" =>
            \/ channel[t].open
            \/ /\ send[t].state = "sent" /\ send[t].response = "cancelled"
               /\ send[t].answered \in {"waiting", "checkpoint"}

ViewEntries == Seq(({"user"} \X Turn) \cup ({"tool"} \X Tool))

MoveInv ==
    /\ entries \in ViewEntries
    /\ RunningActive /\ TasksKept /\ Listens /\ EventsOwn /\ StopsTold
    /\ CallsKnown /\ WaitsAnswered

\* Nothing else is said when events are reported, and nothing to a view that
\* does not listen.
LEMMA ReportSays ==
    ASSUME NEW ch \in Channels, NEW t \in Turn, NEW evs \in Seq(Event)
    PROVE  LET new == Report(ch, t, evs) IN
           /\ new \in Channels
           /\ \A u \in Turn : new[u].open = ch[u].open
           /\ \A u \in Turn : (u # t \/ ~ch[t].open) => Said(new, u) = Said(ch, u)
           /\ ch[t].open =>
                Said(new, t) = Said(ch, t) \cup {evs[i] : i \in DOMAIN evs}
<1> DEFINE new == Report(ch, t, evs)
<1>1. new \in Channels
  BY ReportTyped
<1>2. CASE ~ch[t].open
  <2>1. new = ch
    BY <1>2 DEF Report
  <2> QED
    BY <1>1, <1>2, <2>1
<1>3. CASE ch[t].open
  <2>1. ch[t].queue \in Seq(Event)
    BY DEF Channels
  <2>2. new = [ch EXCEPT ![t].queue = ch[t].queue \o evs]
    BY <1>3 DEF Report
  <2>3. /\ new[t].queue = ch[t].queue \o evs
        /\ \A u \in Turn : new[u].open = ch[u].open
        /\ \A u \in Turn : u # t => new[u].queue = ch[u].queue
    BY <2>2 DEF Channels
  <2>4. \A u \in Turn : u # t => Said(new, u) = Said(ch, u)
    BY <2>3 DEF Said
  <2>5. Said(new, t) = Said(ch, t) \cup {evs[i] : i \in DOMAIN evs}
    <3> DEFINE q == ch[t].queue
    <3>1. /\ DOMAIN q = 1 .. Len(q) /\ DOMAIN evs = 1 .. Len(evs)
          /\ DOMAIN (q \o evs) = 1 .. Len(q) + Len(evs)
          /\ Len(q) \in Nat /\ Len(evs) \in Nat
          /\ \A i \in 1 .. Len(q) : (q \o evs)[i] = q[i]
          /\ \A i \in 1 .. Len(evs) : (q \o evs)[i + Len(q)] = evs[i]
          /\ \A i \in 1 .. Len(q) + Len(evs) : i > Len(q) => (q \o evs)[i] = evs[i - Len(q)]
      BY <2>1
    <3>2. Said(new, t) = {(q \o evs)[i] : i \in 1 .. Len(q) + Len(evs)}
      BY <2>3, <3>1 DEF Said
    <3>3. Said(ch, t) = {q[i] : i \in 1 .. Len(q)}
      BY <3>1 DEF Said
    <3>4. \A i \in 1 .. Len(q) : i \in 1 .. Len(q) + Len(evs)
      BY <3>1
    <3>5. \A i \in 1 .. Len(evs) : i + Len(q) \in 1 .. Len(q) + Len(evs)
      BY <3>1
    <3>6. \A i \in 1 .. Len(q) + Len(evs) :
              i \in 1 .. Len(q) \/ (i > Len(q) /\ i - Len(q) \in 1 .. Len(evs))
      BY <3>1
    <3> HIDE DEF q, new
    <3>7. \A e \in Said(new, t) : e \in Said(ch, t) \cup {evs[i] : i \in DOMAIN evs}
      BY <3>1, <3>2, <3>3, <3>6
    <3>8. \A e \in Said(ch, t) : e \in Said(new, t)
      BY <3>1, <3>2, <3>3, <3>4
    <3>9. \A i \in DOMAIN evs : evs[i] \in Said(new, t)
      BY <3>1, <3>2, <3>5
    <3> QED
      BY <3>7, <3>8, <3>9
  <2> QED
    BY <1>1, <1>3, <2>3, <2>4, <2>5
<1> QED
  BY <1>2, <1>3

LEMMA StopSays ==
    ASSUME NEW ch \in Channels, NEW t \in Turn, NEW r \in Response
    PROVE  LET new == Report(ch, t, <<<<"stop", r>>>>) IN
           /\ new \in Channels
           /\ \A u \in Turn : new[u].open = ch[u].open
           /\ \A u \in Turn : (u # t \/ ~ch[t].open) => Said(new, u) = Said(ch, u)
           /\ ch[t].open => Said(new, t) = Said(ch, t) \cup {StopOf(r)}
<1> DEFINE evs == <<<<"stop", r>>>>
<1>1. evs \in Seq(Event)
  <2>1. <<"stop", r>> \in Event
    BY DEF Event
  <2> HIDE DEF Event
  <2> QED
    BY <2>1
<1>2. {evs[i] : i \in DOMAIN evs} = {StopOf(r)}
  BY DEF StopOf
<1> HIDE DEF evs
<1>3. LET new == Report(ch, t, evs) IN
           /\ new \in Channels
           /\ \A u \in Turn : new[u].open = ch[u].open
           /\ \A u \in Turn : (u # t \/ ~ch[t].open) => Said(new, u) = Said(ch, u)
           /\ ch[t].open => Said(new, t) = Said(ch, t) \cup {StopOf(r)}
  <2>1. LET new == Report(ch, t, evs) IN
           /\ new \in Channels
           /\ \A u \in Turn : new[u].open = ch[u].open
           /\ \A u \in Turn : (u # t \/ ~ch[t].open) => Said(new, u) = Said(ch, u)
           /\ ch[t].open =>
                Said(new, t) = Said(ch, t) \cup {evs[i] : i \in DOMAIN evs}
    BY <1>1, ReportSays
  <2> QED
    BY <2>1, <1>2
<1> QED
  BY <1>3 DEF evs

\* A step of the agent that leaves the view alone: what it says is about its
\* own tools, and it tells no turn to stop that goes on.
LEMMA AgentMoves ==
    ASSUME TurnInv, MoveInv, UNCHANGED <<send, entries, call>>,
           RunningActive', TasksKept',
           \A u \in Turn : /\ task'[u].cancelled = task[u].cancelled
                           /\ Active(u)' => Active(u),
           \A u \in Turn : \A x \in task'[u].uses : tool'[x].state = "asking" =>
               call[x] = "none" \/ (x \in task[u].uses /\ tool[x].state = "asking"),
           \A x \in Tool : tool[x].state # "none" =>
               tool'[x].turn = tool[x].turn /\ tool'[x].state # "none",
           channel' \in Channels,
           \A u \in Turn :
               /\ channel'[u].open = channel[u].open
               /\ Said(channel, u) \subseteq Said(channel', u)
               /\ ~channel[u].open => Said(channel', u) = Said(channel, u)
               /\ \A e \in Said(channel', u) : e \notin Said(channel, u) =>
                    IF e[1] = "stop" THEN ~Active(u)' /\ ~task[u].cancelled
                    ELSE tool'[e[2]].turn = u /\ tool'[e[2]].state # "none"
    PROVE  MoveInv'
<1>1. entries' \in ViewEntries /\ Listens'
  BY DEF MoveInv, Listens
<1>2. EventsOwn'
  <2> SUFFICES ASSUME NEW u \in Turn, NEW e \in Said(channel', u), e[1] # "stop"
               PROVE  tool'[e[2]].turn = u /\ tool'[e[2]].state # "none"
    BY DEF EventsOwn
  <2>1. CASE e \in Said(channel, u)
    <3>1. tool[e[2]].turn = u /\ tool[e[2]].state # "none"
      BY <2>1 DEF MoveInv, EventsOwn
    <3>2. e[2] \in Tool
      <4>1. channel[u].queue \in Seq(Event)
        BY DEF TurnInv, AgentTypes, Channels
      <4>2. e \in Event
        <5> HIDE DEF Event
        <5> QED
          BY <2>1, <4>1 DEF Said
      <4> QED
        BY <4>2 DEF Event
    <3> QED
      BY <3>1, <3>2
  <2>2. CASE e \notin Said(channel, u)
    BY <2>2
  <2> QED
    BY <2>1, <2>2
<1>3. StopsTold'
  <2> SUFFICES ASSUME NEW u \in Turn
               PROVE  /\ Active(u)' => \A e \in Said(channel', u) : e[1] # "stop"
                      /\ task'[u].cancelled => \A e \in Said(channel', u) :
                            e[1] = "stop" => e[2] = "cancelled"
                      /\ task'[u].cancelled /\ channel'[u].open =>
                            StopOf("cancelled") \in Said(channel', u)
    BY DEF StopsTold
  <2> QED
    BY DEF MoveInv, StopsTold
<1>4. CallsKnown'
  BY DEF MoveInv, CallsKnown
<1>5. WaitsAnswered'
  <2> SUFFICES ASSUME NEW u \in Turn, NEW x \in task'[u].uses,
                      tool'[x].state = "asking", x \in OnView, call[x] = "waiting"
               PROVE  \/ channel[u].open
                      \/ /\ send[u].state = "sent" /\ send[u].response = "cancelled"
                         /\ send[u].answered \in {"waiting", "checkpoint"}
    BY DEF WaitsAnswered, OnView
  <2>1. x \in task[u].uses /\ tool[x].state = "asking"
    OBVIOUS
  <2> QED
    BY <2>1 DEF MoveInv, WaitsAnswered
<1> QED
  BY <1>1, <1>2, <1>3, <1>4, <1>5 DEF MoveInv

\* Steps of a turn's task.
LEMMA MovesOnMove ==
    ASSUME TurnInv, MoveInv, NEW t \in Turn, task[t].state = "streaming",
           UNCHANGED <<viewVars, historyVars, running, flushers, tool, channel>>,
           task' \in Tasks,
           task'[t].state \in {"draining", "failing"},
           task'[t].cancelled = task[t].cancelled, task'[t].uses = task[t].uses,
           \A u \in Turn \ {t} : task'[u] = task[u]
    PROVE  MoveInv'
<1> USE DEF viewVars
<1>1. \A u \in Turn : /\ task'[u].cancelled = task[u].cancelled
                      /\ task'[u].uses = task[u].uses
                      /\ Active(u)' <=> Active(u)
  BY DEF Active
<1>2. RunningActive'
  BY <1>1, AgentTurnAssumption DEF MoveInv, RunningActive, TurnInv, AgentTypes, Turn
<1>3. TasksKept'
  BY <1>1 DEF MoveInv, TasksKept
<1>4. channel' \in Channels /\ \A u \in Turn : Said(channel', u) = Said(channel, u)
  BY DEF TurnInv, AgentTypes
<1> QED
  BY <1>1, <1>2, <1>3, <1>4, AgentMoves

LEMMA EndStreamMove ==
    ASSUME TurnInv, MoveInv, NEW t \in Turn, NEW o \in {"draining", "failing"}, EndStream(t, o)
    PROVE  MoveInv'
<1>1. task' = [task EXCEPT ![t].state = o]
  BY DEF EndStream
<1>2. /\ task' \in Tasks
      /\ task'[t].state = o /\ task'[t].cancelled = task[t].cancelled
      /\ task'[t].uses = task[t].uses /\ \A u \in Turn \ {t} : task'[u] = task[u]
  BY <1>1 DEF TurnInv, AgentTypes, Tasks
<1>3. /\ UNCHANGED <<viewVars, historyVars, running, flushers, tool, channel>>
      /\ task[t].state = "streaming"
  BY DEF EndStream, Streaming
<1> QED
  BY <1>2, <1>3, MovesOnMove

LEMMA NoticeMove ==
    ASSUME TurnInv, MoveInv, NEW t \in Turn, NoticeCancellation(t)
    PROVE  MoveInv'
<1>1. task' = [task EXCEPT ![t].state = "draining", ![t].noticed = TRUE]
  BY DEF NoticeCancellation
<1>2. /\ task' \in Tasks
      /\ task'[t].state = "draining" /\ task'[t].cancelled = task[t].cancelled
      /\ task'[t].uses = task[t].uses /\ \A u \in Turn \ {t} : task'[u] = task[u]
  BY <1>1, ZenonT(40) DEF TurnInv, AgentTypes, Tasks
<1>3. /\ UNCHANGED <<viewVars, historyVars, running, flushers, tool, channel>>
      /\ task[t].state = "streaming"
  BY DEF NoticeCancellation, Streaming
<1> QED
  BY <1>2, <1>3, MovesOnMove

\* Nothing that a waiting turn depends on changes.
LEMMA StaysMove ==
    MoveInv /\ UNCHANGED <<send, entries, call, running, task, tool, channel>> => MoveInv'
BY DEF MoveInv, RunningActive, TasksKept, Listens, EventsOwn, StopsTold, CallsKnown,
       WaitsAnswered, Active, OnView

\* A tool that is started is not on view yet.
LEMMA ToolUseMove ==
    ASSUME TurnInv, MoveInv, NEW t \in Turn, NEW x \in Tool,
           NEW state \in {"asking", "running", "finished"}, StreamToolUse(t, x, state)
    PROVE  MoveInv'
<1> DEFINE evs == IF state = "asking" THEN <<<<"call", x>>, <<"ask", x>>>>
                  ELSE <<<<"call", x>>>>
<1> USE DEF viewVars
<1>1. evs \in Seq(Event) /\ \A i \in DOMAIN evs : evs[i][1] # "stop" /\ evs[i][2] = x
  <2>1. <<"call", x>> \in Event /\ <<"ask", x>> \in Event
    BY DEF Event
  <2>2. \A i \in DOMAIN evs : evs[i][1] # "stop" /\ evs[i][2] = x
    BY DEF evs
  <2> HIDE DEF Event
  <2> QED
    BY <2>1, <2>2
<1>2. channel' = Report(channel, t, evs)
  BY DEF StreamToolUse
<1> HIDE DEF evs
<1>3. /\ task' \in Tasks /\ task'[t].uses = task[t].uses \cup {x}
      /\ task'[t].state = task[t].state /\ task'[t].cancelled = task[t].cancelled
      /\ \A u \in Turn \ {t} : task'[u] = task[u]
  BY DEF StreamToolUse, TurnInv, AgentTypes, Tasks
<1>4. /\ tool'[x].turn = t /\ tool'[x].state = state
      /\ tool[x].state = "none" /\ \A y \in Tool \ {x} : tool'[y] = tool[y]
  BY DEF StreamToolUse, TurnInv, AgentTypes, Tools, Turn
<1>5. task[t].state = "streaming" /\ UNCHANGED <<send, entries, call, running>>
  BY DEF StreamToolUse, Streaming
<1>6. \A u \in Turn : /\ task'[u].cancelled = task[u].cancelled /\ task[u].uses \subseteq Tool
                      /\ Active(u)' <=> Active(u)
  BY <1>3 DEF Active, TurnInv, AgentTypes, Tasks
<1>7. RunningActive'
  BY <1>5, <1>6 DEF MoveInv, RunningActive, TurnInv, AgentTypes, Turn
<1>8. TasksKept'
  BY <1>3, <1>4, <1>5, <1>6 DEF MoveInv, TasksKept
<1>9. \A u \in Turn : \A y \in task'[u].uses : tool'[y].state = "asking" =>
          call[y] = "none" \/ (y \in task[u].uses /\ tool[y].state = "asking")
  BY <1>3, <1>4, <1>6 DEF MoveInv, CallsKnown
<1>10. /\ channel' \in Channels
       /\ \A u \in Turn : channel'[u].open = channel[u].open
       /\ \A u \in Turn : (u # t \/ ~channel[t].open) => Said(channel', u) = Said(channel, u)
       /\ channel[t].open =>
             Said(channel', t) = Said(channel, t) \cup {evs[i] : i \in DOMAIN evs}
  BY <1>1, <1>2, ReportSays DEF TurnInv, AgentTypes
<1>11. ASSUME NEW u \in Turn
       PROVE  /\ channel'[u].open = channel[u].open
              /\ Said(channel, u) \subseteq Said(channel', u)
              /\ ~channel[u].open => Said(channel', u) = Said(channel, u)
              /\ \A e \in Said(channel', u) : e \notin Said(channel, u) =>
                   IF e[1] = "stop" THEN ~Active(u)' /\ ~task[u].cancelled
                   ELSE tool'[e[2]].turn = u /\ tool'[e[2]].state # "none"
  <2>1. CASE u = t /\ channel[t].open
    BY <1>1, <1>4, <1>10, <2>1
  <2>2. CASE u # t \/ ~channel[t].open
    BY <1>10, <2>2
  <2> QED
    BY <2>1, <2>2
<1>12. \A y \in Tool : tool[y].state # "none" =>
          tool'[y].turn = tool[y].turn /\ tool'[y].state # "none"
  BY <1>4
<1> QED
  BY <1>5, <1>6, <1>7, <1>8, <1>9, <1>10, <1>11, <1>12, AgentMoves

\* A tool's future ends.
LEMMA ToolStepMove ==
    ASSUME TurnInv, MoveInv, NEW x \in Tool, ToolStep(x) PROVE MoveInv'
<1>1. /\ tool'[x].state = "finished" /\ tool'[x].turn = tool[x].turn
      /\ tool[x].state \in {"running", "asking"}
      /\ \A y \in Tool \ {x} : tool'[y] = tool[y]
  <2>1. ASSUME NEW ok \in BOOLEAN, FinishTool(x, ok)
        PROVE /\ tool'[x].state = "finished" /\ tool'[x].turn = tool[x].turn
              /\ tool[x].state \in {"running", "asking"}
              /\ \A y \in Tool \ {x} : tool'[y] = tool[y]
    BY <2>1 DEF FinishTool, TurnInv, AgentTypes, Tools
  <2>2. CASE AskFails(x)
    BY <2>2 DEF AskFails, TurnInv, AgentTypes, Tools, AskLost
  <2> QED
    BY <2>1, <2>2 DEF ToolStep
<1>2. UNCHANGED <<send, entries, call, running, task, channel>>
  BY DEF ToolStep, FinishTool, AskFails, viewVars
<1>3. \A u \in Turn : task[u].uses \subseteq Tool
  BY DEF TurnInv, AgentTypes, Tasks
<1>4. \A u \in Turn : Active(u)' <=> Active(u)
  BY <1>2 DEF Active
<1>5. RunningActive' /\ TasksKept'
  BY <1>1, <1>2, <1>3, <1>4 DEF MoveInv, RunningActive, TasksKept, Active
<1>6. channel' \in Channels /\ \A u \in Turn : Said(channel', u) = Said(channel, u)
  BY <1>2 DEF TurnInv, AgentTypes
<1> QED
  BY <1>1, <1>2, <1>3, <1>4, <1>5, <1>6, AgentMoves

LEMMA ResultMove ==
    ASSUME TurnInv, MoveInv, NEW t \in Turn, NEW x \in Tool, ProcessToolResult(t, x)
    PROVE  MoveInv'
<1> DEFINE evs == <<<<"result", x>>>>
<1>1. /\ x \in task[t].uses /\ tool'[x].state = "taken" /\ tool'[x].turn = tool[x].turn
      /\ tool[x].state = "finished" /\ \A y \in Tool \ {x} : tool'[y] = tool[y]
      /\ tool[x].turn = t
  BY DEF ProcessToolResult, TurnInv, AgentTypes, Tools, ResultReady, UsesOwned
<1>2. UNCHANGED <<send, entries, call, running, task>> /\ channel' = Report(channel, t, evs)
  BY DEF ProcessToolResult, viewVars
<1>3. evs \in Seq(Event) /\ {evs[i] : i \in DOMAIN evs} = {<<"result", x>>}
  <2>1. <<"result", x>> \in Event
    BY DEF Event
  <2>2. {evs[i] : i \in DOMAIN evs} = {<<"result", x>>}
    OBVIOUS
  <2> HIDE DEF Event
  <2> QED
    BY <2>1, <2>2
<1> HIDE DEF evs
<1>4. \A u \in Turn : task[u].uses \subseteq Tool
  BY DEF TurnInv, AgentTypes, Tasks
<1>5. \A u \in Turn : Active(u)' <=> Active(u)
  BY <1>2 DEF Active
<1>6. RunningActive' /\ TasksKept'
  BY <1>1, <1>2, <1>4, <1>5 DEF MoveInv, RunningActive, TasksKept, Active
<1>7. /\ channel' \in Channels
      /\ \A u \in Turn : channel'[u].open = channel[u].open
      /\ \A u \in Turn : (u # t \/ ~channel[t].open) => Said(channel', u) = Said(channel, u)
      /\ channel[t].open =>
            Said(channel', t) = Said(channel, t) \cup {evs[i] : i \in DOMAIN evs}
  BY <1>2, <1>3, ReportSays DEF TurnInv, AgentTypes
<1>8. ASSUME NEW u \in Turn
      PROVE  /\ channel'[u].open = channel[u].open
             /\ Said(channel, u) \subseteq Said(channel', u)
             /\ ~channel[u].open => Said(channel', u) = Said(channel, u)
             /\ \A e \in Said(channel', u) : e \notin Said(channel, u) =>
                  IF e[1] = "stop" THEN ~Active(u)' /\ ~task[u].cancelled
                  ELSE tool'[e[2]].turn = u /\ tool'[e[2]].state # "none"
  <2>1. CASE u = t /\ channel[t].open
    BY <1>1, <1>3, <1>7, <2>1
  <2>2. CASE u # t \/ ~channel[t].open
    BY <1>7, <2>2
  <2> QED
    BY <2>1, <2>2
<1>9. \A y \in Tool : tool[y].state # "none" =>
          tool'[y].turn = tool[y].turn /\ tool'[y].state # "none"
  BY <1>1
<1>10. \A u \in Turn : \A y \in task'[u].uses : tool'[y].state = "asking" =>
          y \in task[u].uses /\ tool[y].state = "asking"
  BY <1>1, <1>2, <1>4
<1> QED
  BY <1>2, <1>5, <1>6, <1>7, <1>8, <1>9, <1>10, AgentMoves

\* The end of a task: it waits for no tool any more, and tells its view only
\* if it was not cancelled.
LEMMA EndsMove ==
    ASSUME TurnInv, MoveInv, NEW t \in Turn, task[t].state \notin {"none", "done"},
           NEW reason \in {"end", "error", "refusal"},
           task' = [task EXCEPT ![t].state = "done", ![t].uses = {}],
           IF task[t].cancelled THEN UNCHANGED <<running, channel>>
           ELSE running' = 0 /\ channel' = Report(channel, t, <<<<"stop", reason>>>>),
           UNCHANGED <<send, entries, call>>,
           \A x \in Tool : /\ tool'[x].turn = tool[x].turn
                           /\ x \notin task[t].uses => tool'[x] = tool[x]
                           /\ tool'[x].state \in {tool[x].state, "dropped"}
    PROVE  MoveInv'
<1>1. /\ task'[t].state = "done" /\ task'[t].uses = {}
      /\ task'[t].cancelled = task[t].cancelled
      /\ \A u \in Turn \ {t} : task'[u] = task[u]
  BY DEF TurnInv, AgentTypes, Tasks
<1>2. \A u \in Turn : /\ task'[u].cancelled = task[u].cancelled
                      /\ Active(u)' => u # t /\ Active(u)
                      /\ task[u].uses \subseteq Tool
  BY <1>1 DEF Active, TurnInv, AgentTypes, Tasks
<1>3. RunningActive'
  <2>1. CASE task[t].cancelled
    <3>1. running' = running
      BY <2>1
    <3>2. running # 0 => running \in Turn /\ Active(running) /\ running # t
      BY <2>1, AgentTurnAssumption
         DEF MoveInv, RunningActive, TurnInv, AgentTypes, Turn, Active
    <3> QED
      BY <1>1, <3>1, <3>2, ZenonT(40) DEF RunningActive, Active
  <2>2. CASE ~task[t].cancelled
    BY <2>2 DEF RunningActive
  <2> QED
    BY <2>1, <2>2
<1>4. \A u \in Turn \ {t} : \A x \in task[u].uses : x \in Tool /\ x \notin task[t].uses
  BY <1>2 DEF TurnInv, UsesOwned
<1>5. ASSUME NEW u \in Turn, NEW x \in task'[u].uses
      PROVE  u # t /\ task'[u] = task[u] /\ x \in task[u].uses /\ tool'[x] = tool[x]
  <2>1. u # t
    BY <1>1
  <2>2. task'[u] = task[u]
    BY <1>1, <2>1
  <2>3. x \in Tool /\ x \notin task[t].uses
    BY <1>4, <2>1, <2>2
  <2> QED
    BY <2>1, <2>2, <2>3
<1>6. \A u \in Turn : /\ task'[u].state \in {task[u].state, "done"}
                       /\ task'[u].state # task[u].state => u = t
  BY <1>1
<1>7. TasksKept'
  <2>1. \A u \in Turn : /\ task'[u].cancelled => task'[u].state # "none"
                        /\ task'[u].state \in {"none", "done"} => task'[u].uses = {}
    <3>1. ASSUME NEW u \in Turn
          PROVE  /\ task'[u].cancelled => task'[u].state # "none"
                 /\ task'[u].state \in {"none", "done"} => task'[u].uses = {}
      <4>1. CASE u = t
        BY <1>1, <4>1
      <4>2. CASE u # t
        <5>1. task'[u] = task[u]
          BY <1>1, <4>2
        <5> QED
          BY <5>1, ZenonT(40) DEF MoveInv, TasksKept
      <4> QED
        BY <4>1, <4>2
    <3> QED
      BY <3>1
  <2>2. \A u \in Turn : \A x \in task'[u].uses :
            tool'[x].state \in {"asking", "running", "finished", "taken"}
    BY <1>5 DEF MoveInv, TasksKept
  <2> QED
    BY <2>1, <2>2 DEF TasksKept
<1>8. \A u \in Turn : \A x \in task'[u].uses : tool'[x].state = "asking" =>
          x \in task[u].uses /\ tool[x].state = "asking"
  BY <1>5
<1>9. \A x \in Tool : tool[x].state # "none" =>
          tool'[x].turn = tool[x].turn /\ tool'[x].state # "none"
  OBVIOUS
<1>10. /\ channel' \in Channels
      /\ \A u \in Turn :
           /\ channel'[u].open = channel[u].open
           /\ Said(channel, u) \subseteq Said(channel', u)
           /\ ~channel[u].open => Said(channel', u) = Said(channel, u)
           /\ \A e \in Said(channel', u) : e \notin Said(channel, u) =>
                IF e[1] = "stop" THEN ~Active(u)' /\ ~task[u].cancelled
                ELSE tool'[e[2]].turn = u /\ tool'[e[2]].state # "none"
  <2>1. CASE task[t].cancelled
    BY <2>1 DEF TurnInv, AgentTypes
  <2>2. CASE ~task[t].cancelled
    <3>1. /\ channel' \in Channels
          /\ \A u \in Turn : channel'[u].open = channel[u].open
          /\ \A u \in Turn :
               (u # t \/ ~channel[t].open) => Said(channel', u) = Said(channel, u)
          /\ channel[t].open => Said(channel', t) = Said(channel, t) \cup {StopOf(reason)}
      <4>1. channel \in Channels /\ reason \in Response
        BY DEF TurnInv, AgentTypes, Response
      <4>2. channel' = Report(channel, t, <<<<"stop", reason>>>>)
        BY <2>2
      <4> QED
        BY <4>1, <4>2, StopSays
    <3>2. ~Active(t)'
      BY <1>2
    <3>3. ASSUME NEW u \in Turn
          PROVE  /\ channel'[u].open = channel[u].open
                 /\ Said(channel, u) \subseteq Said(channel', u)
                 /\ ~channel[u].open => Said(channel', u) = Said(channel, u)
                 /\ \A e \in Said(channel', u) : e \notin Said(channel, u) =>
                      IF e[1] = "stop" THEN ~Active(u)' /\ ~task[u].cancelled
                      ELSE tool'[e[2]].turn = u /\ tool'[e[2]].state # "none"
      <4>1. CASE u = t /\ channel[t].open
        BY <2>2, <3>1, <3>2, <4>1 DEF StopOf
      <4>2. CASE u # t \/ ~channel[t].open
        BY <3>1, <4>2
      <4> QED
        BY <4>1, <4>2
    <3> QED
      BY <3>1, <3>3
  <2> QED
    BY <2>1, <2>2
<1> QED
  BY <1>2, <1>3, <1>7, <1>8, <1>9, <1>10, AgentMoves

LEMMA RefuseMove ==
    ASSUME TurnInv, MoveInv, NEW t \in Turn, NEW reason \in {"error", "refusal"},
           Refuse(t, reason)
    PROVE  MoveInv'
<1>1. /\ task[t].state \notin {"none", "done"}
      /\ UNCHANGED <<send, entries, call>>
      /\ task' = [task EXCEPT ![t].state = "done", ![t].uses = {}]
      /\ IF task[t].cancelled THEN UNCHANGED <<running, channel>>
         ELSE running' = 0 /\ channel' = Report(channel, t, <<<<"stop", reason>>>>)
  BY DEF Refuse, Streaming, FinishTask, viewVars
<1>2. \A x \in Tool : /\ tool'[x].turn = tool[x].turn
                      /\ x \notin task[t].uses => tool'[x] = tool[x]
                      /\ tool'[x].state \in {tool[x].state, "dropped"}
  BY DEF Refuse, TurnInv, AgentTypes, Tools
<1> QED
  BY <1>1, <1>2, EndsMove

LEMMA DrainedMove ==
    ASSUME TurnInv, MoveInv, NEW t \in Turn, Drained(t) PROVE MoveInv'
<1>1. /\ task[t].state \in {"draining", "failing"}
      /\ UNCHANGED <<send, entries, call, tool>>
  BY DEF Drained, Draining, AllTaken, viewVars
<1>2. ASSUME NEW reason \in {"end", "error", "refusal"},
             FinishTask(t, reason, Flushed(messages, pending))
      PROVE  MoveInv'
  <2>1. /\ task' = [task EXCEPT ![t].state = "done", ![t].uses = {}]
        /\ IF task[t].cancelled THEN UNCHANGED <<running, channel>>
           ELSE running' = 0 /\ channel' = Report(channel, t, <<<<"stop", reason>>>>)
    BY <1>2 DEF FinishTask
  <2> QED
    BY <1>1, <2>1, EndsMove
<1>3. CASE /\ task' = [task EXCEPT ![t].state = "streaming", ![t].uses = {}]
           /\ UNCHANGED <<running, channel>>
  <2>1. /\ task'[t].state = "streaming" /\ task'[t].uses = {}
        /\ task'[t].cancelled = task[t].cancelled
        /\ \A u \in Turn \ {t} : task'[u] = task[u]
    BY <1>3 DEF TurnInv, AgentTypes, Tasks
  <2>2. \A u \in Turn : task'[u].cancelled = task[u].cancelled /\ (Active(u)' <=> Active(u))
    BY <1>1, <2>1 DEF Active
  <2>3. RunningActive'
    BY <1>3, <2>2, AgentTurnAssumption
       DEF MoveInv, RunningActive, TurnInv, AgentTypes, Turn
  <2>4. TasksKept'
    BY <1>1, <2>1 DEF MoveInv, TasksKept
  <2>5. \A u \in Turn : \A x \in task'[u].uses : x \in task[u].uses
    BY <2>1
  <2>6. channel' \in Channels /\ \A u \in Turn : Said(channel', u) = Said(channel, u)
    BY <1>3 DEF TurnInv, AgentTypes
  <2> QED
    BY <1>1, <1>3, <2>2, <2>3, <2>4, <2>5, <2>6, AgentMoves
<1> QED
  BY <1>2, <1>3 DEF Drained

\* The view's calls are never left waiting once they are marked.
LEMMA MarkedMove ==
    ASSUME TurnInv, MarkPendingToolsAsCanceled
    PROVE  /\ \A x \in OnView : x \in Tool => call'[x] # "waiting"
           /\ \A x \in Tool : call'[x] = "none" <=> call[x] = "none"
BY DEF MarkPendingToolsAsCanceled, PendingCalls, TurnInv, ViewTypes, Calls

\* An entry that is added or cut away.
LEMMA ViewShows ==
    ASSUME entries \in ViewEntries
    PROVE  /\ OnView \subseteq Tool
           /\ \A t \in Turn : entries' = Append(entries, <<"user", t>>) =>
                entries' \in ViewEntries /\ OnView' = OnView
           /\ \A x \in Tool : entries' = Append(entries, <<"tool", x>>) =>
                entries' \in ViewEntries /\ OnView' = OnView \cup {x}
           /\ \A n \in 1 .. Len(entries) : entries' = SubSeq(entries, 1, n - 1) =>
                entries' \in ViewEntries /\ OnView' \subseteq OnView
<1> DEFINE E == ({"user"} \X Turn) \cup ({"tool"} \X Tool)
<1>1. entries \in Seq(E) /\ DOMAIN entries = 1 .. Len(entries) /\ Len(entries) \in Nat
  BY DEF ViewEntries
<1>2. \A i \in DOMAIN entries : entries[i] \in E
  BY <1>1
<1>3. OnView \subseteq Tool
  BY <1>2 DEF OnView
<1>4. ASSUME NEW t \in Turn, entries' = Append(entries, <<"user", t>>)
      PROVE  entries' \in ViewEntries /\ OnView' = OnView
  <2>1. <<"user", t>> \in E
    OBVIOUS
  <2> HIDE DEF E
  <2>2. /\ entries' \in Seq(E) /\ DOMAIN entries' = 1 .. Len(entries) + 1
        /\ \A i \in 1 .. Len(entries) : entries'[i] = entries[i]
        /\ entries'[Len(entries) + 1] = <<"user", t>>
        /\ \A i \in 1 .. Len(entries) + 1 : i \in 1 .. Len(entries) \/ i = Len(entries) + 1
        /\ \A i \in 1 .. Len(entries) : i \in 1 .. Len(entries) + 1
    BY <1>1, <1>4, <2>1
  <2>3. <<"user", t>>[1] # "tool"
    OBVIOUS
  <2> QED
    BY <1>1, <2>2, <2>3 DEF OnView, ViewEntries, E
<1>5. ASSUME NEW x \in Tool, entries' = Append(entries, <<"tool", x>>)
      PROVE  entries' \in ViewEntries /\ OnView' = OnView \cup {x}
  <2>1. <<"tool", x>> \in E
    OBVIOUS
  <2> HIDE DEF E
  <2>2. /\ entries' \in Seq(E) /\ DOMAIN entries' = 1 .. Len(entries) + 1
        /\ \A i \in 1 .. Len(entries) : entries'[i] = entries[i]
        /\ entries'[Len(entries) + 1] = <<"tool", x>>
        /\ \A i \in 1 .. Len(entries) + 1 : i \in 1 .. Len(entries) \/ i = Len(entries) + 1
        /\ \A i \in 1 .. Len(entries) : i \in 1 .. Len(entries) + 1
        /\ Len(entries) + 1 \in 1 .. Len(entries) + 1
    BY <1>1, <1>5, <2>1
  <2>3. <<"tool", x>>[1] = "tool" /\ <<"tool", x>>[2] = x
    OBVIOUS
  <2>4. \A y \in OnView' : y \in OnView \/ y = x
    BY <1>1, <2>2, <2>3 DEF OnView
  <2>5. \A y \in OnView : y \in OnView'
    BY <1>1, <2>2 DEF OnView
  <2>6. x \in OnView'
    BY <2>2, <2>3 DEF OnView
  <2> QED
    BY <2>2, <2>4, <2>5, <2>6 DEF ViewEntries, E
<1>6. ASSUME NEW n \in 1 .. Len(entries), entries' = SubSeq(entries, 1, n - 1)
      PROVE  entries' \in ViewEntries /\ OnView' \subseteq OnView
  <2> HIDE DEF E
  <2>1. /\ entries' \in Seq(E) /\ DOMAIN entries' = 1 .. n - 1
        /\ \A i \in 1 .. n - 1 : entries'[i] = entries[i] /\ i \in 1 .. Len(entries)
    BY <1>1, <1>6
  <2> QED
    BY <1>1, <2>1 DEF OnView, ViewEntries, E
<1> QED
  BY <1>3, <1>4, <1>5, <1>6

\* What a cancellation tells: the running turn hears of it, if the view
\* listens to it, and no turn goes on.
CancelsRunning ==
    \/ running = 0 /\ UNCHANGED <<running, task>>
    \/ running # 0 /\ running' = 0 /\ task' = CancelledTask(running)

LEMMA CancelTold ==
    ASSUME TurnInv, MoveInv, CancelsRunning,
           UNCHANGED tool,
           NEW told, told = IF running = 0 THEN channel
                            ELSE Report(channel, running, <<<<"stop", "cancelled">>>>)
    PROVE  /\ told \in Channels
           /\ RunningActive' /\ TasksKept'
           /\ \A u \in Turn :
                /\ task'[u].uses = task[u].uses
                /\ ~Active(u)'
                /\ told[u].open = channel[u].open
                /\ ~channel[u].open => Said(told, u) = {}
                /\ \A e \in Said(told, u) : e[1] # "stop" => e \in Said(channel, u)
                /\ task'[u].cancelled =>
                     \A e \in Said(told, u) : e[1] = "stop" => e[2] = "cancelled"
                /\ task'[u].cancelled /\ told[u].open => StopOf("cancelled") \in Said(told, u)
<1>1. CASE running = 0
  <2>1. UNCHANGED <<running, task>> /\ told = channel
    BY <1>1 DEF CancelsRunning
  <2>2. told \in Channels
    BY <2>1 DEF TurnInv, AgentTypes
  <2>3. \A u \in Turn : ~Active(u)
    BY <1>1 DEF TurnInv, OneTurn, Active, Turn
  <2>4. RunningActive' /\ TasksKept'
    BY <1>1, <2>1 DEF MoveInv, RunningActive, TasksKept
  <2>5. \A u \in Turn : ~Active(u)'
    BY <2>1, <2>3 DEF Active
  <2> QED
    BY <2>1, <2>2, <2>4, <2>5 DEF MoveInv, Listens, StopsTold
<1>2. CASE running # 0
  <2>1. running' = 0 /\ task' = CancelledTask(running)
    BY <1>2 DEF CancelsRunning
  <2>2. /\ running \in Turn /\ task'[running].cancelled
        /\ \A u \in Turn : /\ task'[u].state = task[u].state /\ task'[u].uses = task[u].uses
                           /\ u # running => task'[u].cancelled = task[u].cancelled
    BY <1>2, <2>1, CancelledParts
  <2>3. Active(running) /\ \A u \in Turn : Active(u) => u = running
    BY <1>2 DEF MoveInv, RunningActive, TurnInv, OneTurn, Active
  <2>4. \A u \in Turn : ~Active(u)'
    BY <2>2, <2>3 DEF Active
  <2>5. RunningActive' /\ TasksKept'
    BY <2>1, <2>2, <2>3 DEF MoveInv, RunningActive, TasksKept, Active
  <2>6. /\ told \in Channels
        /\ \A u \in Turn : told[u].open = channel[u].open
        /\ \A u \in Turn :
             (u # running \/ ~channel[running].open) => Said(told, u) = Said(channel, u)
        /\ channel[running].open =>
             Said(told, running) = Said(channel, running) \cup {StopOf("cancelled")}
    <3>1. channel \in Channels /\ "cancelled" \in Response
      BY DEF TurnInv, AgentTypes, Response
    <3>2. told = Report(channel, running, <<<<"stop", "cancelled">>>>)
      BY <1>2
    <3> QED
      BY <2>2, <3>1, <3>2, StopSays
  <2>7. StopOf("cancelled")[1] = "stop" /\ StopOf("cancelled")[2] = "cancelled"
    BY DEF StopOf
  <2>8. \A e \in Said(channel, running) : e[1] # "stop"
    BY <2>2, <2>3 DEF MoveInv, StopsTold
  <2>9. ASSUME NEW u \in Turn
        PROVE  /\ ~channel[u].open => Said(told, u) = {}
               /\ \A e \in Said(told, u) : e[1] # "stop" => e \in Said(channel, u)
               /\ task'[u].cancelled =>
                     \A e \in Said(told, u) : e[1] = "stop" => e[2] = "cancelled"
               /\ task'[u].cancelled /\ told[u].open => StopOf("cancelled") \in Said(told, u)
    <3>1. ~channel[u].open => Said(channel, u) = {}
      BY DEF MoveInv, Listens
    <3>2. CASE u = running /\ channel[running].open
      BY <2>6, <2>7, <2>8, <3>2
    <3>3. CASE u = running /\ ~channel[running].open
      BY <2>6, <3>1, <3>3
    <3>4. CASE u # running
      <4>1. Said(told, u) = Said(channel, u) /\ task'[u].cancelled = task[u].cancelled
        BY <2>2, <2>6, <3>4
      <4> QED
        BY <2>6, <3>1, <4>1 DEF MoveInv, StopsTold
    <3> QED
      BY <3>2, <3>3, <3>4
  <2> HIDE DEF StopOf
  <2> QED
    BY <2>2, <2>4, <2>5, <2>6, <2>9
<1> QED
  BY <1>1, <1>2

LEMMA SaidOwn ==
    ASSUME TurnInv, MoveInv, NEW ch, UNCHANGED tool,
           \A u \in Turn : \A e \in Said(ch, u) : e[1] # "stop" => e \in Said(channel, u),
           channel' = ch
    PROVE  EventsOwn'
BY DEF MoveInv, EventsOwn

LEMMA SendMove == TurnInv /\ MoveInv /\ Send => MoveInv'
<1> SUFFICES ASSUME TurnInv, MoveInv, Send PROVE MoveInv'
  OBVIOUS
<1> DEFINE t == acp.turn_id + 1
<1>1. /\ t \in Turn
      /\ send' = [send EXCEPT ![t].state = "waiting", ![t].after = acp.running,
                              ![t].answered = "waiting"]
      /\ UNCHANGED <<entries, tool>>
  BY AgentTurnAssumption DEF Send, TurnInv, ViewTypes, Turn
<1>2. acp.turn_id \in 0 .. MaxTurns
  BY DEF TurnInv, ViewTypes
<1>3. send[t].state = "none" /\ task[t].state = "none"
  BY <1>1, <1>2 DEF TurnInv, FreshTurns, Prompted, Turn
<1> HIDE DEF t
<1>4. /\ send'[t].state = "waiting" /\ send'[t].answered = "waiting"
      /\ \A u \in Turn \ {t} : send'[u] = send[u]
  BY <1>1 DEF TurnInv, ViewTypes, Sends
<1>5. /\ ~channel[t].open /\ task[t].uses = {} /\ Said(channel, t) = {}
      /\ \A u \in Turn : ~channel[u].open => Said(channel, u) = {}
  BY <1>1, <1>3 DEF MoveInv, Listens, TasksKept
<1>6. CASE acp.running = 0
  <2>1. UNCHANGED <<call, running, task, channel>>
    BY <1>6 DEF Send
  <2>2. RunningActive' /\ TasksKept' /\ EventsOwn' /\ StopsTold' /\ CallsKnown'
    BY <1>1, <2>1 DEF MoveInv, RunningActive, TasksKept, EventsOwn, StopsTold,
                      CallsKnown, Active
  <2>3. Listens'
    <3>1. \A u \in Turn : Said(channel', u) = Said(channel, u) /\ channel'[u] = channel[u]
      BY <2>1
    <3> QED
      BY <1>3, <1>4, <1>5, <3>1 DEF MoveInv, Listens
  <2>4. WaitsAnswered'
    <3> SUFFICES ASSUME NEW u \in Turn, NEW x \in task[u].uses,
                        tool[x].state = "asking", x \in OnView, call[x] = "waiting"
                 PROVE  \/ channel[u].open
                        \/ /\ send'[u].state = "sent" /\ send'[u].response = "cancelled"
                           /\ send'[u].answered \in {"waiting", "checkpoint"}
      <4>1. OnView' = OnView
        BY <1>1 DEF OnView
      <4> QED
        BY <1>1, <2>1, <4>1 DEF WaitsAnswered
    <3>1. send'[u] = send[u]
      BY <1>4, <1>5
    <3> QED
      BY <3>1 DEF MoveInv, WaitsAnswered
  <2> QED
    BY <1>1, <2>2, <2>3, <2>4 DEF MoveInv
<1>7. CASE acp.running # 0
  <2>1. MarkPendingToolsAsCanceled /\ CancelThread
    BY <1>7 DEF Send
  <2>2. /\ CancelsRunning
        /\ channel' = IF running = 0 THEN channel
                      ELSE Report(channel, running, <<<<"stop", "cancelled">>>>)
    BY <2>1 DEF CancelThread, CancelsRunning
  <2>3. /\ RunningActive' /\ TasksKept'
        /\ \A u \in Turn :
             /\ ~Active(u)'
             /\ channel'[u].open = channel[u].open
             /\ ~channel[u].open => Said(channel', u) = {}
             /\ \A e \in Said(channel', u) : e[1] # "stop" => e \in Said(channel, u)
             /\ task'[u].cancelled =>
                  \A e \in Said(channel', u) : e[1] = "stop" => e[2] = "cancelled"
             /\ task'[u].cancelled /\ channel'[u].open =>
                  StopOf("cancelled") \in Said(channel', u)
    BY <1>1, <2>2, CancelTold
  <2>4. EventsOwn' /\ StopsTold'
    BY <1>1, <2>3, SaidOwn DEF StopsTold
  <2>5. Listens'
    <3> SUFFICES ASSUME NEW u \in Turn
                 PROVE  /\ channel'[u].open <=> send'[u].state = "prompting"
                        /\ Said(channel', u) # {} => channel'[u].open
                        /\ send'[u].state \in {"waiting", "checkpoint", "prompting"} =>
                              send'[u].answered = "waiting"
      BY DEF Listens
    <3>1. /\ channel'[u].open = channel[u].open
          /\ Said(channel', u) # {} => channel[u].open
      BY <2>3
    <3>2. CASE u = t
      BY <1>1, <1>3, <1>4, <1>5, <3>1, <3>2
    <3>3. CASE u # t
      <4>1. send'[u] = send[u]
        BY <1>4, <3>3
      <4> QED
        BY <3>1, <4>1 DEF MoveInv, Listens
    <3> QED
      BY <3>2, <3>3
  <2>6. CallsKnown' /\ WaitsAnswered'
    <3>1. OnView' = OnView /\ OnView \subseteq Tool
      BY <1>1, ViewShows DEF MoveInv, OnView
    <3> QED
      BY <1>1, <2>1, <3>1, MarkedMove DEF MoveInv, CallsKnown, WaitsAnswered
  <2> QED
    BY <1>1, <2>3, <2>4, <2>5, <2>6 DEF MoveInv
<1> QED
  BY <1>6, <1>7

LEMMA StopMove == TurnInv /\ MoveInv /\ Stop => MoveInv'
<1> SUFFICES ASSUME TurnInv, MoveInv, Stop PROVE MoveInv'
  OBVIOUS
<1> DEFINE dropped == IF acp.kept = 0 THEN {} ELSE Unsent(Chain(acp.kept))
           told == IF running = 0 THEN channel
                   ELSE Report(channel, running, <<<<"stop", "cancelled">>>>)
<1>1. /\ send' = [u \in Turn |-> IF u \in dropped
                      THEN [send[u] EXCEPT !.state = "dropped"] ELSE send[u]]
      /\ channel' = [u \in Turn |-> IF u \in dropped
                         THEN [queue |-> <<>>, open |-> FALSE] ELSE told[u]]
  BY DEF Stop
<1> HIDE DEF dropped
<1>2. /\ CancelsRunning /\ MarkPendingToolsAsCanceled /\ UNCHANGED <<entries, tool>>
  BY DEF Stop, CancelsRunning
<1>3. /\ told \in Channels /\ RunningActive' /\ TasksKept'
      /\ \A u \in Turn :
             /\ ~Active(u)'
             /\ told[u].open = channel[u].open
             /\ ~channel[u].open => Said(told, u) = {}
             /\ \A e \in Said(told, u) : e[1] # "stop" => e \in Said(channel, u)
             /\ task'[u].cancelled =>
                  \A e \in Said(told, u) : e[1] = "stop" => e[2] = "cancelled"
             /\ task'[u].cancelled /\ told[u].open =>
                  StopOf("cancelled") \in Said(told, u)
  BY <1>2, CancelTold
<1> HIDE DEF told
<1>4. ASSUME NEW u \in Turn
      PROVE  IF u \in dropped
             THEN ~channel'[u].open /\ Said(channel', u) = {} /\ send'[u].state = "dropped"
             ELSE /\ channel'[u] = told[u] /\ Said(channel', u) = Said(told, u)
                  /\ send'[u] = send[u]
  <2>1. CASE u \in dropped
    BY <1>1, <2>1 DEF TurnInv, ViewTypes, Sends, Said
  <2>2. CASE u \notin dropped
    BY <1>1, <2>2 DEF Said
  <2> QED
    BY <2>1, <2>2
<1>5. EventsOwn'
  BY <1>2, <1>3, <1>4 DEF MoveInv, EventsOwn
<1>6. StopsTold'
  BY <1>3, <1>4 DEF StopsTold
<1>7. Listens'
  BY <1>3, <1>4 DEF MoveInv, Listens
<1>8. CallsKnown' /\ WaitsAnswered'
  <2>1. OnView' = OnView /\ OnView \subseteq Tool
    BY <1>2, ViewShows DEF MoveInv, OnView
  <2> QED
    BY <1>2, <2>1, MarkedMove DEF MoveInv, CallsKnown, WaitsAnswered
<1> QED
  BY <1>2, <1>3, <1>5, <1>6, <1>7, <1>8 DEF MoveInv

\* An answer leaves no call waiting.
LEMMA AuthorizeMove ==
    ASSUME TurnInv, MoveInv, NEW x \in Tool, NEW allowed \in BOOLEAN, Authorize(x, allowed)
    PROVE  MoveInv'
<1>1. /\ UNCHANGED <<send, entries, running, task, channel>>
      /\ call[x] = "waiting" /\ call'[x] \notin {"waiting", "none"}
      /\ \A y \in Tool \ {x} : call'[y] = call[y]
      /\ tool'[x].state \in {tool[x].state, "running", "finished"}
      /\ \A y \in Tool : tool'[y].turn = tool[y].turn
      /\ \A y \in Tool \ {x} : tool'[y] = tool[y]
  BY DEF Authorize, TurnInv, ViewTypes, AgentTypes, Calls, Tools
<1>2. tool[x].state # "none" /\ tool'[x].state # "none"
  BY <1>1 DEF MoveInv, CallsKnown
<1>3. \A u \in Turn : task[u].uses \subseteq Tool
  BY DEF TurnInv, AgentTypes, Tasks
<1>4. entries' \in ViewEntries /\ RunningActive' /\ Listens' /\ StopsTold'
  BY <1>1 DEF MoveInv, RunningActive, Listens, StopsTold, Active
<1>5. TasksKept'
  BY <1>1, <1>3 DEF MoveInv, TasksKept
<1>6. EventsOwn'
  <2>1. \A u \in Turn : \A e \in Said(channel, u) : e[1] # "stop" => e[2] \in Tool
    <3>1. \A u \in Turn : channel[u].queue \in Seq(Event)
      BY DEF TurnInv, AgentTypes, Channels
    <3>2. \A u \in Turn : \A e \in Said(channel, u) : e \in Event
      <4> HIDE DEF Event
      <4> QED
        BY <3>1 DEF Said
    <3> QED
      BY <3>2 DEF Event
  <2> QED
    BY <1>1, <1>2, <2>1 DEF MoveInv, EventsOwn
<1>7. CallsKnown'
  BY <1>1, <1>2 DEF MoveInv, CallsKnown
<1>8. WaitsAnswered'
  BY <1>1, <1>3 DEF MoveInv, WaitsAnswered, OnView
<1> QED
  BY <1>4, <1>5, <1>6, <1>7, <1>8 DEF MoveInv

LEMMA StartSendMove ==
    ASSUME TurnInv, MoveInv, NEW t \in Turn, StartSend(t) PROVE MoveInv'
<1>1. /\ send[t].state = "waiting" /\ send' = [send EXCEPT ![t].state = "checkpoint"]
      /\ entries' = Append(entries, <<"user", t>>)
      /\ UNCHANGED <<call, running, task, tool, channel>>
  BY DEF StartSend
<1>2. /\ send'[t].state = "checkpoint" /\ send'[t].answered = send[t].answered
      /\ \A u \in Turn \ {t} : send'[u] = send[u]
  BY <1>1 DEF TurnInv, ViewTypes, Sends
<1>3. entries' \in ViewEntries /\ OnView' = OnView
  BY <1>1, ViewShows DEF MoveInv
<1>4. RunningActive' /\ TasksKept' /\ EventsOwn' /\ StopsTold' /\ CallsKnown'
  BY <1>1 DEF MoveInv, RunningActive, TasksKept, EventsOwn, StopsTold, CallsKnown, Active
<1>5. Listens'
  <2>1. \A u \in Turn : Said(channel', u) = Said(channel, u) /\ channel'[u] = channel[u]
    BY <1>1
  <2> QED
    BY <1>1, <1>2, <2>1 DEF MoveInv, Listens
<1>6. WaitsAnswered'
  <2>1. task[t].state = "none"
    BY <1>1 DEF TurnInv, Prompted
  <2>2. task[t].uses = {}
    BY <2>1 DEF MoveInv, TasksKept
  <2>3. \A u \in Turn : \A x \in task[u].uses : send'[u] = send[u]
    BY <1>2, <2>2
  <2> QED
    BY <1>1, <1>3, <2>3 DEF MoveInv, WaitsAnswered
<1> QED
  BY <1>3, <1>4, <1>5, <1>6 DEF MoveInv

LEMMA ReceiveMove ==
    ASSUME TurnInv, MoveInv, NEW t \in Turn, ReceiveResponse(t) PROVE MoveInv'
<1>1. /\ send[t].answered = "waiting" /\ send[t].state \in {"sent", "dropped"}
      /\ send' = [send EXCEPT ![t].answered = "checkpoint"]
      /\ UNCHANGED <<entries, call, running, task, tool, channel>>
  BY DEF ReceiveResponse, ResponseWaits, Over
<1>2. /\ send'[t].state = send[t].state /\ send'[t].response = send[t].response
      /\ send'[t].answered = "checkpoint"
      /\ \A u \in Turn \ {t} : send'[u] = send[u]
  BY <1>1 DEF TurnInv, ViewTypes, Sends
<1>3. /\ entries' \in ViewEntries
      /\ RunningActive' /\ TasksKept' /\ EventsOwn' /\ StopsTold' /\ CallsKnown'
  BY <1>1 DEF MoveInv, RunningActive, TasksKept, EventsOwn, StopsTold, CallsKnown, Active
<1>4. Listens'
  <2>1. \A u \in Turn : Said(channel', u) = Said(channel, u) /\ channel'[u] = channel[u]
    BY <1>1
  <2> QED
    BY <1>1, <1>2, <2>1 DEF MoveInv, Listens
<1>5. WaitsAnswered'
  <2>1. \A u \in Turn : /\ send'[u].state = send[u].state
                        /\ send'[u].response = send[u].response
                        /\ send[u].answered = "waiting" =>
                             send'[u].answered \in {"waiting", "checkpoint"}
                        /\ send[u].answered = "checkpoint" => send'[u].answered = "checkpoint"
    BY <1>1, <1>2
  <2>2. OnView' = OnView
    BY <1>1 DEF OnView
  <2> QED
    BY <1>1, <2>1, <2>2 DEF MoveInv, WaitsAnswered
<1> QED
  BY <1>3, <1>4, <1>5 DEF MoveInv

\* The last of some of the numbers up to n.
LEMMA LastOf ==
    ASSUME NEW n \in Nat, NEW T \in SUBSET (1 .. n), T # {}
    PROVE  \E k \in T : \A m \in T : m <= k
<1> DEFINE D == {d \in Nat : n - d \in T}
<1>1. D # {} /\ D \subseteq Nat
  <2>1. PICK m \in T : TRUE
    OBVIOUS
  <2>2. n - m \in D
    BY <2>1
  <2> QED
    BY <2>2
<1>2. IsWellFoundedOn(OpToRel(<, Nat), Nat)
  BY NatLessThanWellFounded, Zenon
<1> HIDE DEF D
<1>3. PICK d \in D : \A e \in D : <<e, d>> \notin OpToRel(<, Nat)
  BY <1>1, <1>2, WFMin, Zenon
<1>4. \A e \in D : ~(e < d)
  BY <1>1, <1>3 DEF OpToRel
<1>5. \A m \in T : n - m \in D
  BY DEF D
<1> QED
  BY <1>4, <1>5 DEF D

\* A cancelled response leaves no call waiting, so that the turn need not be
\* heard of again.
LEMMA FinishTurnMove ==
    ASSUME TurnInv, MoveInv, NEW t \in Turn, FinishTurn(t) PROVE MoveInv'
<1>1. /\ send[t].answered = "checkpoint"
      /\ send' = [send EXCEPT ![t].answered = "done"]
      /\ send[t].response = "cancelled" => MarkPendingToolsAsCanceled
      /\ MarkPendingToolsAsCanceled \/ call' = call
      /\ UNCHANGED <<running, task, tool, channel>>
  BY DEF FinishTurn
<1>2. /\ send'[t].state = send[t].state
      /\ \A u \in Turn \ {t} : send'[u] = send[u]
  BY <1>1 DEF TurnInv, ViewTypes, Sends
<1>3. entries' \in ViewEntries /\ OnView' \subseteq OnView /\ OnView \subseteq Tool
  <2>1. entries \in ViewEntries
    BY DEF MoveInv
  <2>2. CASE entries' = entries
    BY <2>1, <2>2, ViewShows DEF OnView
  <2>3. CASE entries' # entries
    <3>1. entries' = SubSeq(entries, 1, LastUserMessage - 1) /\ LastUserMessage # 0
      BY <2>3 DEF FinishTurn
    <3>2. LastUserMessage \in 1 .. Len(entries)
      <4> DEFINE is == {i \in DOMAIN entries : entries[i][1] = "user"}
      <4>1. is # {} /\ LastUserMessage = CHOOSE i \in is : \A j \in is : j <= i
        BY <3>1 DEF LastUserMessage
      <4>2. is \subseteq 1 .. Len(entries) /\ Len(entries) \in Nat
        BY <2>1 DEF ViewEntries
      <4>3. \E i \in is : \A j \in is : j <= i
        BY <4>1, <4>2, LastOf
      <4> HIDE DEF is
      <4> QED
        BY <4>1, <4>2, <4>3
    <3> QED
      BY <2>1, <3>1, <3>2, ViewShows
  <2> QED
    BY <2>2, <2>3
<1>4. RunningActive' /\ TasksKept' /\ EventsOwn' /\ StopsTold'
  BY <1>1 DEF MoveInv, RunningActive, TasksKept, EventsOwn, StopsTold, Active
<1>5. CallsKnown'
  BY <1>1, MarkedMove DEF MoveInv, CallsKnown
<1>6. Listens'
  <2>1. \A u \in Turn : Said(channel', u) = Said(channel, u) /\ channel'[u] = channel[u]
    BY <1>1
  <2> QED
    BY <1>1, <1>2, <2>1 DEF MoveInv, Listens
<1>7. WaitsAnswered'
  <2> SUFFICES ASSUME NEW u \in Turn, NEW x \in task[u].uses,
                      tool[x].state = "asking", x \in OnView', call'[x] = "waiting"
               PROVE  \/ channel[u].open
                      \/ /\ send'[u].state = "sent" /\ send'[u].response = "cancelled"
                         /\ send'[u].answered \in {"waiting", "checkpoint"}
    BY <1>1 DEF WaitsAnswered
  <2>1. ~MarkPendingToolsAsCanceled
    BY <1>3, MarkedMove
  <2>2. call[x] = "waiting" /\ x \in OnView /\ send[t].response # "cancelled"
    BY <1>1, <1>3, <2>1
  <2>3. \/ channel[u].open
        \/ /\ send[u].state = "sent" /\ send[u].response = "cancelled"
           /\ send[u].answered \in {"waiting", "checkpoint"}
    BY <2>2 DEF MoveInv, WaitsAnswered
  <2> QED
    BY <1>2, <2>2, <2>3
<1> QED
  BY <1>3, <1>4, <1>5, <1>6, <1>7 DEF MoveInv

\* The first event of a turn is one it has said, and the rest were said, too.
LEMMA HeadSaid ==
    ASSUME channel \in Channels, NEW t \in Turn, channel[t].queue # <<>>
    PROVE  /\ Head(channel[t].queue) \in Said(channel, t) /\ Head(channel[t].queue) \in Event
           /\ Tail(channel[t].queue) \in Seq(Event)
           /\ LET rest == [channel EXCEPT ![t].queue = Tail(@)] IN
              /\ Said(rest, t) \subseteq Said(channel, t)
              /\ \A e \in Said(channel, t) : e = Head(channel[t].queue) \/ e \in Said(rest, t)
              /\ \A u \in Turn : rest[u].open = channel[u].open
              /\ \A u \in Turn \ {t} : Said(rest, u) = Said(channel, u)
<1> DEFINE q == channel[t].queue
           rest == [channel EXCEPT ![t].queue = Tail(q)]
<1>1. q \in Seq(Event) /\ q # <<>>
  BY DEF Channels
<1> HIDE DEF Event
<1>2. /\ DOMAIN q = 1 .. Len(q) /\ Len(q) \in Nat /\ Len(q) >= 1
      /\ Head(q) = q[1] /\ Head(q) \in Event
      /\ Tail(q) \in Seq(Event) /\ DOMAIN Tail(q) = 1 .. Len(q) - 1
      /\ \A i \in 1 .. Len(q) - 1 : Tail(q)[i] = q[i + 1]
  BY <1>1
<1>3. /\ \A i \in 1 .. Len(q) - 1 : i + 1 \in 1 .. Len(q)
      /\ \A i \in 1 .. Len(q) : i = 1 \/ (i - 1 \in 1 .. Len(q) - 1 /\ q[i] = Tail(q)[i - 1])
      /\ 1 \in 1 .. Len(q)
  BY <1>2
<1>4. /\ rest[t].queue = Tail(q)
      /\ \A u \in Turn : rest[u].open = channel[u].open
      /\ \A u \in Turn \ {t} : rest[u] = channel[u]
  BY DEF Channels
<1>5. Said(channel, t) = {q[i] : i \in 1 .. Len(q)}
  BY <1>2 DEF Said
<1> HIDE DEF q, rest
<1>6. Said(rest, t) = {Tail(q)[i] : i \in 1 .. Len(q) - 1}
  <2>1. Said(rest, t) = {rest[t].queue[i] : i \in DOMAIN rest[t].queue}
    BY DEF Said
  <2>2. Said(rest, t) = {Tail(q)[i] : i \in DOMAIN Tail(q)}
    BY <1>4, <2>1
  <2> QED
    BY <1>2, <2>2
<1>7. \A u \in Turn \ {t} : Said(rest, u) = Said(channel, u)
  BY <1>4 DEF Said
<1>8. Head(q) \in Said(channel, t)
  BY <1>2, <1>3, <1>5
<1>9. Said(rest, t) \subseteq Said(channel, t)
  BY <1>2, <1>3, <1>5, <1>6
<1>10. ASSUME NEW e \in Said(channel, t) PROVE e = Head(q) \/ e \in Said(rest, t)
  <2>1. PICK i \in 1 .. Len(q) : e = q[i]
    BY <1>5
  <2>2. i = 1 \/ (i - 1 \in 1 .. Len(q) - 1 /\ e = Tail(q)[i - 1])
    BY <1>3, <2>1
  <2> QED
    BY <1>2, <1>6, <2>1, <2>2
<1> QED
  BY <1>2, <1>4, <1>7, <1>8, <1>9, <1>10 DEF q, rest

\* The view asks the user only for a tool of a turn it listens to, and a turn
\* whose response it takes, and which waits for a tool, was cancelled.
LEMMA HandleEventMove ==
    ASSUME TurnInv, MoveInv, NEW t \in Turn, HandleEvent(t) PROVE MoveInv'
<1> DEFINE kind == Head(channel[t].queue)[1]
           x == Head(channel[t].queue)[2]
           rest == [channel EXCEPT ![t].queue = Tail(@)]
<1>1. /\ send[t].state = "prompting" /\ channel[t].queue # <<>>
      /\ UNCHANGED <<running, task, tool>>
  BY DEF HandleEvent, EventWaits
<1>2. /\ Head(channel[t].queue) \in Said(channel, t) /\ Head(channel[t].queue) \in Event
      /\ Said(rest, t) \subseteq Said(channel, t)
      /\ \A e \in Said(channel, t) : e = Head(channel[t].queue) \/ e \in Said(rest, t)
      /\ \A u \in Turn : rest[u].open = channel[u].open
      /\ \A u \in Turn \ {t} : Said(rest, u) = Said(channel, u)
  BY <1>1, HeadSaid DEF TurnInv, AgentTypes
<1>3. (kind = "stop" /\ x \in Response) \/ (kind # "stop" /\ x \in Tool)
  BY <1>2 DEF Event
<1>4. channel[t].open /\ send[t].answered = "waiting"
  BY <1>1 DEF MoveInv, Listens
<1>5. RunningActive' /\ TasksKept' /\ \A u \in Turn : Active(u)' <=> Active(u)
  BY <1>1 DEF MoveInv, RunningActive, TasksKept, Active
<1>6. CASE kind = "stop"
  <2>1. /\ send' = [send EXCEPT ![t].state = "sent", ![t].response = x]
        /\ channel' = [channel EXCEPT ![t] = [queue |-> <<>>, open |-> FALSE]]
        /\ UNCHANGED <<entries, call>>
    BY <1>6 DEF HandleEvent
  <2>2. task[t].cancelled => x = "cancelled"
    BY <1>2, <1>6 DEF MoveInv, StopsTold
  <2>3. ~Active(t)
    BY <1>2, <1>6 DEF MoveInv, StopsTold
  <2>4. task[t].uses # {} => x = "cancelled"
    BY <2>2, <2>3 DEF MoveInv, TasksKept, Active
  <2> HIDE DEF x, kind, rest
  <2>5. /\ send'[t].state = "sent" /\ send'[t].response = x /\ send'[t].answered = "waiting"
        /\ \A u \in Turn \ {t} : send'[u] = send[u]
    BY <1>4, <2>1 DEF TurnInv, ViewTypes, Sends
  <2>6. /\ ~channel'[t].open /\ Said(channel', t) = {}
        /\ \A u \in Turn \ {t} : channel'[u] = channel[u] /\ Said(channel', u) = Said(channel, u)
    BY <2>1 DEF TurnInv, AgentTypes, Channels, Said
  <2>7. Listens'
    BY <2>5, <2>6 DEF MoveInv, Listens
  <2>8. EventsOwn' /\ StopsTold'
    BY <1>1, <1>5, <2>6 DEF MoveInv, EventsOwn, StopsTold
  <2>9. CallsKnown'
    BY <1>1, <2>1 DEF MoveInv, CallsKnown
  <2>10. WaitsAnswered'
    <3>1. OnView' = OnView
      BY <2>1 DEF OnView
    <3>2. \A u \in Turn \ {t} : send'[u] = send[u] /\ channel'[u] = channel[u]
      BY <2>5, <2>6
    <3>3. task[t].uses # {} => send'[t].state = "sent" /\ send'[t].response = "cancelled"
                                 /\ send'[t].answered = "waiting"
      BY <2>4, <2>5
    <3> SUFFICES ASSUME NEW u \in Turn, NEW y \in task[u].uses,
                        tool[y].state = "asking", y \in OnView, call[y] = "waiting"
                 PROVE  \/ channel'[u].open
                        \/ /\ send'[u].state = "sent" /\ send'[u].response = "cancelled"
                           /\ send'[u].answered \in {"waiting", "checkpoint"}
      BY <1>1, <2>1, <3>1 DEF WaitsAnswered
    <3>4. CASE u = t
      BY <3>3, <3>4
    <3>5. CASE u # t
      <4>1. send'[u] = send[u] /\ channel'[u] = channel[u]
        BY <3>2, <3>5
      <4> QED
        BY <4>1 DEF MoveInv, WaitsAnswered
    <3> QED
      BY <3>4, <3>5
  <2> QED
    BY <1>5, <2>1, <2>7, <2>8, <2>9, <2>10 DEF MoveInv
<1>7. CASE kind # "stop"
  <2>1. /\ channel' = rest /\ send' = send /\ entries' = EntriesWith(x)
        /\ \E status \in {"in_progress", "waiting", "completed", "failed"} :
              call' = [call EXCEPT ![x] = status]
    BY <1>7 DEF HandleEvent
  <2>2. x \in Tool /\ tool[x].turn = t /\ tool[x].state # "none"
    BY <1>2, <1>3, <1>7 DEF MoveInv, EventsOwn
  <2>3. StopOf("cancelled") # Head(channel[t].queue)
    <3>1. StopOf("cancelled")[1] = "stop"
      BY DEF StopOf
    <3> QED
      BY <1>7, <3>1
  <2> HIDE DEF x, kind, rest
  <2>4. /\ \A y \in Tool \ {x} : call'[y] = call[y]
        /\ \A u \in Turn : channel'[u].open = channel[u].open
        /\ \A u \in Turn : Said(channel', u) \subseteq Said(channel, u)
        /\ \A u \in Turn : StopOf("cancelled") \in Said(channel, u) =>
                             StopOf("cancelled") \in Said(channel', u)
    <3>1. \A y \in Tool \ {x} : call'[y] = call[y]
      BY <2>1, <2>2 DEF TurnInv, ViewTypes, Calls
    <3>2. \A u \in Turn \ {t} : Said(channel', u) = Said(channel, u)
      BY <1>2, <2>1
    <3>3. /\ Said(channel', t) \subseteq Said(channel, t)
          /\ StopOf("cancelled") \in Said(channel, t) =>
                StopOf("cancelled") \in Said(channel', t)
      BY <1>2, <2>1, <2>3
    <3>4. \A u \in Turn : channel'[u].open = channel[u].open
      BY <1>2, <2>1
    <3> QED
      BY <3>1, <3>2, <3>3, <3>4
  <2>5. entries' \in ViewEntries /\ OnView' \subseteq OnView \cup {x} /\ OnView \subseteq Tool
    <3>1. entries \in ViewEntries
      BY DEF MoveInv
    <3>2. CASE x \in OnView
      <4>1. entries' = entries
        BY <2>1, <3>2 DEF EntriesWith
      <4> QED
        BY <3>1, <4>1, ViewShows DEF OnView
    <3>3. CASE x \notin OnView
      <4>1. entries' = Append(entries, <<"tool", x>>)
        BY <2>1, <3>3 DEF EntriesWith
      <4> QED
        BY <2>2, <3>1, <4>1, ViewShows
    <3> QED
      BY <3>2, <3>3
  <2>6. Listens'
    BY <2>1, <2>4 DEF MoveInv, Listens
  <2>7. EventsOwn'
    BY <1>1, <2>4 DEF MoveInv, EventsOwn
  <2>8. StopsTold'
    BY <1>1, <1>5, <2>4 DEF MoveInv, StopsTold
  <2>9. CallsKnown'
    BY <1>1, <2>2, <2>4 DEF MoveInv, CallsKnown
  <2>10. WaitsAnswered'
    <3> SUFFICES ASSUME NEW u \in Turn, NEW y \in task[u].uses,
                        tool[y].state = "asking", y \in OnView', call'[y] = "waiting"
                 PROVE  \/ channel'[u].open
                        \/ /\ send[u].state = "sent" /\ send[u].response = "cancelled"
                           /\ send[u].answered \in {"waiting", "checkpoint"}
      BY <1>1, <2>1 DEF WaitsAnswered
    <3>1. CASE y = x
      <4>1. u = t
        BY <2>2, <3>1 DEF TurnInv, UsesOwned
      <4> QED
        BY <1>4, <2>4, <4>1
    <3>2. CASE y # x
      <4>1. y \in OnView /\ call[y] = "waiting"
        BY <2>4, <2>5, <3>2
      <4> QED
        BY <2>4, <4>1 DEF MoveInv, WaitsAnswered
    <3> QED
      BY <3>1, <3>2
  <2> QED
    BY <1>5, <2>5, <2>6, <2>7, <2>8, <2>9, <2>10 DEF MoveInv
<1> QED
  BY <1>6, <1>7

\* The prompt tells the turn that runs, and begins one that waits for nothing.
LEMMA PromptMove ==
    ASSUME TurnInv, MoveInv, NEW t \in Turn, Prompt(t) PROVE MoveInv'
<1> DEFINE others == IF running = 0 THEN task ELSE CancelledTask(running)
           told == IF running = 0 THEN channel
                   ELSE Report(channel, running, <<<<"stop", "cancelled">>>>)
<1>1. /\ send[t].state = "checkpoint" /\ send' = [send EXCEPT ![t].state = "prompting"]
      /\ UNCHANGED <<entries, call, tool>> /\ running' = t
      /\ task' = [others EXCEPT ![t].state = "streaming", ![t].message_ix = Len(messages') - 1]
      /\ channel' = [told EXCEPT ![t] = [queue |-> <<>>, open |-> TRUE]]
  BY DEF Prompt, SendToThread
<1>2. /\ send'[t].state = "prompting" /\ send'[t].answered = send[t].answered
      /\ \A u \in Turn \ {t} : send'[u] = send[u]
  BY <1>1 DEF TurnInv, ViewTypes, Sends
<1>3. /\ task[t].state = "none" /\ task[t].uses = {} /\ ~task[t].cancelled
      /\ send[t].answered = "waiting"
  BY <1>1 DEF TurnInv, Prompted, MoveInv, TasksKept, AgentTypes, Tasks, Listens
<1>4. /\ others \in Tasks /\ told \in Channels
      /\ \A u \in Turn : /\ others[u].state = task[u].state /\ others[u].uses = task[u].uses
                         /\ u # running => others[u].cancelled = task[u].cancelled
                         /\ others[u].state \in {"none", "done"} \/ others[u].cancelled
                         /\ others[u].cancelled =>
                              task[u].cancelled \/ (u = running /\ Active(running))
  <2>1. CASE running = 0
    <3>1. \A u \in Turn : u # 0
      BY DEF Turn
    <3> QED
      BY <2>1, <3>1 DEF TurnInv, AgentTypes, OneTurn
  <2>2. CASE running # 0
    <3>1. Active(running)
      BY <2>2 DEF MoveInv, RunningActive
    <3>2. told \in Channels
      BY <2>2, CancelledParts, StopReported DEF TurnInv, AgentTypes, Response
    <3> QED
      BY <2>2, <3>1, <3>2, CancelledParts DEF TurnInv, OneTurn
  <2> QED
    BY <2>1, <2>2
<1>5. \A u \in Turn :
        /\ told[u].open = channel[u].open
        /\ ~channel[u].open => Said(told, u) = {}
        /\ \A e \in Said(told, u) : e[1] # "stop" => e \in Said(channel, u)
        /\ others[u].cancelled => \A e \in Said(told, u) : e[1] = "stop" => e[2] = "cancelled"
        /\ others[u].cancelled /\ told[u].open => StopOf("cancelled") \in Said(told, u)
  <2>1. CASE running = 0
    BY <2>1 DEF MoveInv, Listens, StopsTold
  <2>2. CASE running # 0
    <3>1. /\ running \in Turn /\ Active(running) /\ others = CancelledTask(running)
          /\ others[running].cancelled
      BY <2>2, CancelledParts DEF MoveInv, RunningActive
    <3>2. /\ \A u \in Turn : told[u].open = channel[u].open
          /\ \A u \in Turn :
               (u # running \/ ~channel[running].open) => Said(told, u) = Said(channel, u)
          /\ channel[running].open =>
               Said(told, running) = Said(channel, running) \cup {StopOf("cancelled")}
      <4>1. channel \in Channels /\ "cancelled" \in Response
        BY DEF TurnInv, AgentTypes, Response
      <4>2. told = Report(channel, running, <<<<"stop", "cancelled">>>>)
        BY <2>2
      <4> HIDE DEF told
      <4> QED
        BY <3>1, <4>1, <4>2, StopSays
    <3>3. StopOf("cancelled")[1] = "stop" /\ StopOf("cancelled")[2] = "cancelled"
      BY DEF StopOf
    <3>4. \A e \in Said(channel, running) : e[1] # "stop"
      BY <3>1 DEF MoveInv, StopsTold
    <3> HIDE DEF told, others
    <3>5. ASSUME NEW u \in Turn
          PROVE  /\ ~channel[u].open => Said(told, u) = {}
                 /\ \A e \in Said(told, u) : e[1] # "stop" => e \in Said(channel, u)
                 /\ others[u].cancelled =>
                      \A e \in Said(told, u) : e[1] = "stop" => e[2] = "cancelled"
                 /\ others[u].cancelled /\ told[u].open =>
                      StopOf("cancelled") \in Said(told, u)
      <4>1. ~channel[u].open => Said(channel, u) = {}
        BY DEF MoveInv, Listens
      <4>2. CASE u = running /\ channel[running].open
        BY <3>2, <3>3, <3>4, <4>2
      <4>3. CASE u = running /\ ~channel[running].open
        BY <3>2, <4>1, <4>3
      <4>4. CASE u # running
        <5>1. Said(told, u) = Said(channel, u) /\ others[u].cancelled = task[u].cancelled
          BY <1>4, <3>2, <4>4
        <5> QED
          BY <3>2, <4>1, <5>1 DEF MoveInv, StopsTold
      <4> QED
        BY <4>2, <4>3, <4>4
    <3> QED
      BY <3>2, <3>5
  <2> QED
    BY <2>1, <2>2
<1>6. t # running
  BY <1>3 DEF MoveInv, RunningActive, Active, Turn
<1> HIDE DEF others, told
<1>7. /\ task'[t].state = "streaming" /\ task'[t].uses = {} /\ ~task'[t].cancelled
      /\ \A u \in Turn \ {t} : task'[u] = others[u]
  <2> DEFINE n == Len(messages') - 1
  <2>1. task' = [others EXCEPT ![t].state = "streaming", ![t].message_ix = n]
    BY <1>1
  <2> HIDE DEF n
  <2>2. others[t].uses = {} /\ ~others[t].cancelled
    BY <1>3, <1>4, <1>6
  <2> QED
    BY <1>4, <2>1, <2>2 DEF Tasks
<1>8. /\ channel'[t].open /\ Said(channel', t) = {}
      /\ \A u \in Turn \ {t} : channel'[u] = told[u] /\ Said(channel', u) = Said(told, u)
  BY <1>1, <1>4 DEF Channels, Said
<1>9. Active(t)' /\ \A u \in Turn : Active(u)' => u = t
  BY <1>4, <1>7 DEF Active
<1>10. RunningActive'
  BY <1>1, <1>9 DEF RunningActive
<1>11. TasksKept'
  <2>1. \A u \in Turn \ {t} : task'[u].cancelled => task'[u].state # "none"
    BY <1>4, <1>7 DEF MoveInv, TasksKept, Active
  <2>2. \A u \in Turn \ {t} : task'[u].state = task[u].state /\ task'[u].uses = task[u].uses
    BY <1>4, <1>7
  <2> QED
    BY <1>1, <1>7, <2>1, <2>2, ZenonT(40) DEF MoveInv, TasksKept
<1>12. Listens'
  BY <1>2, <1>3, <1>5, <1>8 DEF MoveInv, Listens
<1>13. EventsOwn'
  <2> SUFFICES ASSUME NEW u \in Turn, NEW e \in Said(channel', u), e[1] # "stop"
               PROVE  tool[e[2]].turn = u /\ tool[e[2]].state # "none"
    BY <1>1 DEF EventsOwn
  <2>1. e \in Said(channel, u)
    BY <1>5, <1>8
  <2> QED
    BY <2>1 DEF MoveInv, EventsOwn
<1>14. StopsTold'
  BY <1>5, <1>7, <1>8, <1>9 DEF StopsTold
<1>15. CallsKnown'
  BY <1>1 DEF MoveInv, CallsKnown
<1>16. WaitsAnswered'
  <2>1. OnView' = OnView
    BY <1>1 DEF OnView
  <2>2. \A u \in Turn \ {t} : /\ task'[u].uses = task[u].uses /\ send'[u] = send[u]
                              /\ channel'[u].open = channel[u].open
    BY <1>2, <1>4, <1>5, <1>7, <1>8
  <2> SUFFICES ASSUME NEW u \in Turn, NEW x \in task'[u].uses,
                      tool[x].state = "asking", x \in OnView, call[x] = "waiting"
               PROVE  \/ channel'[u].open
                      \/ /\ send'[u].state = "sent" /\ send'[u].response = "cancelled"
                         /\ send'[u].answered \in {"waiting", "checkpoint"}
    BY <1>1, <2>1 DEF WaitsAnswered
  <2>3. u # t
    BY <1>7
  <2>4. x \in task[u].uses /\ send'[u] = send[u] /\ channel'[u].open = channel[u].open
    BY <2>2, <2>3
  <2> QED
    BY <2>4 DEF MoveInv, WaitsAnswered
<1> QED
  BY <1>1, <1>10, <1>11, <1>12, <1>13, <1>14, <1>15, <1>16 DEF MoveInv

LEMMA InitMove == Init => MoveInv
<1> SUFFICES ASSUME Init PROVE MoveInv
  OBVIOUS
<1> USE DEF Init
<1>1. entries \in ViewEntries /\ RunningActive /\ TasksKept /\ CallsKnown /\ WaitsAnswered
  BY DEF ViewEntries, RunningActive, TasksKept, CallsKnown, WaitsAnswered
<1>2. \A t \in Turn : Said(channel, t) = {} /\ ~channel[t].open /\ ~task[t].cancelled
  BY DEF Said
<1>3. Listens /\ EventsOwn /\ StopsTold
  BY <1>2 DEF Listens, EventsOwn, StopsTold
<1> QED
  BY <1>1, <1>3 DEF MoveInv

LEMMA NextMove == TurnInv /\ MoveInv /\ [Next]_vars => MoveInv'
<1> SUFFICES ASSUME TurnInv, MoveInv, [Next]_vars PROVE MoveInv'
  OBVIOUS
<1>1. CASE User
  BY <1>1, SendMove, StopMove, AuthorizeMove DEF User
<1>2. ASSUME NEW t \in Turn, TaskStep(t) PROVE MoveInv'
  <2>1. CASE FlushAfterCancel(t)
    BY <2>1, StaysMove DEF FlushAfterCancel, viewVars
  <2> QED
    BY <1>2, <2>1, EndStreamMove, NoticeMove, RefuseMove, DrainedMove, ResultMove DEF TaskStep
<1>3. ASSUME NEW t \in Turn, StreamStep(t) PROVE MoveInv'
  <2>1. CASE StreamText(t)
    BY <2>1, StaysMove DEF StreamText, viewVars
  <2> QED
    BY <1>3, <2>1, ToolUseMove DEF StreamStep
<1>4. ASSUME NEW t \in Turn, ViewStep(t) PROVE MoveInv'
  BY <1>4, StartSendMove, PromptMove, HandleEventMove, ReceiveMove, FinishTurnMove DEF ViewStep
<1>5. ASSUME NEW x \in Tool, ToolStep(x) PROVE MoveInv'
  BY <1>5, ToolStepMove
<1>6. CASE UNCHANGED vars
  BY <1>6, StaysMove DEF vars, viewVars
<1> QED
  BY <1>1, <1>2, <1>3, <1>4, <1>5, <1>6 DEF Next

\* No deadlock, for any number of turns, tools and stops: a cancelled turn
\* that has not ended has a stream that ends, a tool that runs, has ended or
\* has lost the user's answer, or the view has its events or its response
\* still to handle (AcpThread::cancel and run_turn, which mark the calls that
\* wait as canceled, and Thread::cancel, which tells the turn's channel).
THEOREM CancelledTurnsGoOn == Spec => []CancelledTurnsMove
<1>1. TurnInv /\ MoveInv => CancelledTurnsMove
  <2> SUFFICES ASSUME TurnInv, MoveInv, NEW t \in Turn,
                      task[t].cancelled, task[t].state # "done"
               PROVE  \/ Streaming(t) \/ AllTaken(t)
                      \/ \E x \in task[t].uses :
                            ResultReady(t, x) \/ tool[x].state = "running" \/ AskLost(x)
                      \/ EventWaits(t) \/ ResponseWaits(t)
                      \/ send[t].answered = "checkpoint"
    BY DEF CancelledTurnsMove
  <2>1. task[t].state \in {"streaming", "draining", "failing"}
    BY DEF TurnInv, AgentTypes, Tasks, MoveInv, TasksKept
  <2>2. CASE Streaming(t)
    BY <2>2
  <2>3. CASE ~Streaming(t) /\ ~AllTaken(t)
    <3>1. Draining(t)
      BY <2>1, <2>3 DEF Streaming, Draining
    <3>2. PICK x \in task[t].uses : tool[x].state # "taken"
      BY <2>3, <3>1 DEF AllTaken
    <3>3. x \in Tool /\ tool[x].turn = t /\ tool[x].state \in {"asking", "running", "finished"}
      BY <3>2 DEF TurnInv, UsesOwned, AgentTypes, Tasks, MoveInv, TasksKept
    <3>4. channel[t].open => EventWaits(t)
      <4>1. channel[t].open => Said(channel, t) # {} /\ send[t].state = "prompting"
        BY DEF MoveInv, StopsTold, Listens
      <4>2. Said(channel, t) # {} => channel[t].queue # <<>>
        BY DEF Said
      <4> QED
        BY <4>1, <4>2 DEF EventWaits
    <3>5. CASE tool[x].state = "finished"
      BY <3>1, <3>5 DEF ResultReady
    <3>6. CASE tool[x].state = "asking" /\ Asked(x)
      <4>1. CASE x \in OnView /\ call[x] = "waiting"
        <5>1. \/ channel[t].open
              \/ send[t].state = "sent" /\ send[t].answered \in {"waiting", "checkpoint"}
          BY <3>6, <4>1 DEF MoveInv, WaitsAnswered
        <5> QED
          BY <3>4, <5>1 DEF ResponseWaits, Over
      <4>2. CASE ~(x \in OnView /\ call[x] = "waiting")
        <5>1. \E i \in DOMAIN channel[t].queue : channel[t].queue[i] = <<"ask", x>>
          BY <3>3, <3>6, <4>2 DEF Asked
        <5>2. Said(channel, t) # {}
          BY <5>1 DEF Said
        <5>3. channel[t].open
          BY <5>2 DEF MoveInv, Listens
        <5> QED
          BY <3>4, <5>3
      <4> QED
        BY <4>1, <4>2
    <3> QED
      BY <3>2, <3>3, <3>5, <3>6 DEF AskLost
  <2> QED
    BY <2>2, <2>3
<1>2. Init => TurnInv /\ MoveInv
  BY InitTurns, InitMove
<1>3. TurnInv /\ MoveInv /\ [Next]_vars => TurnInv' /\ MoveInv'
  BY NextTurns, NextMove
<1> QED
  BY <1>1, <1>2, <1>3, PTL DEF Spec
=============================================================================
