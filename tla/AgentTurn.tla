------------------------------ MODULE AgentTurn ------------------------------
(***************************************************************************)
(* A conversation with Zed's own agent: the view's thread (AcpThread in     *)
(* crates/acp_thread), which shows messages and tool calls and can stop or  *)
(* replace the turn that runs, and the agent's thread (Thread in            *)
(* crates/agent), which asks the model, runs its tools and keeps the        *)
(* history that the next request is made of.                                *)
(*                                                                         *)
(* A turn is five tasks that wait for one another: the view's send task     *)
(* (which takes a git checkpoint before it prompts), its continuation       *)
(* (which takes another one before it looks at the answer), the agent's     *)
(* turn task, its tools, and the task a cancellation leaves behind.  The    *)
(* tasks of a stopped turn go on beside those of the next one.              *)
(*                                                                         *)
(* A turn is its number, a tool call a member of Tool, text is not told     *)
(* apart.  Retries, compaction, subagents, and rewinding are left out.      *)
(***************************************************************************)
EXTENDS Integers, FiniteSets, Sequences

CONSTANTS
    MaxTurns,  \* messages the user sends
    Tool,      \* tool calls the model makes
    MayRefuse, \* whether the model may refuse to answer, or run out of tokens
    MaxStops   \* times the user stops a turn

ASSUME AgentTurnAssumption ==
    /\ MaxTurns \in Nat \ {0} /\ MaxStops \in Nat
    /\ IsFiniteSet(Tool)
    /\ MayRefuse \in BOOLEAN

VARIABLES
    \* of the view's thread
    acp,       \* running turn (or 0), turn_id, the turn whose task is kept
    send,      \* of each turn: how far its send task is, and its response
    entries,   \* messages and tool calls on view
    call,      \* status of each tool call on view
    stopped,   \* turns the user stopped or replaced (history)
    \* of the agent's thread
    messages,
    pending,   \* pending_message; blank stands for None, too
    running,   \* running_turn, or 0
    task,      \* of each turn: the task that runs it
    flushers,  \* turns whose cancellation waits to flush the pending message
    tool,      \* the tool calls' futures
    channel    \* of each turn: events on their way to the view

viewVars == <<acp, send, entries, call, stopped>>
historyVars == <<messages, pending>>
vars == <<viewVars, historyVars, running, task, flushers, tool, channel>>

Turn == 1 .. MaxTurns
Blank == [turns |-> {}, uses |-> {}, results |-> {}]

Init ==
    /\ acp = [running |-> 0, turn_id |-> 0, kept |-> 0, stops |-> 0]
    /\ send = [t \in Turn |-> [state |-> "none", after |-> 0,
                               response |-> "none", answered |-> "no"]]
    /\ entries = <<>>
    /\ call = [x \in Tool |-> "none"]
    /\ stopped = {}
    /\ messages = <<>> /\ pending = Blank
    /\ running = 0
    /\ task = [t \in Turn |-> [state |-> "none", cancelled |-> FALSE,
                               noticed |-> FALSE, message_ix |-> 0, uses |-> {}]]
    /\ flushers = {}
    /\ tool = [x \in Tool |-> [state |-> "none", turn |-> 0, ok |-> FALSE]]
    /\ channel = [t \in Turn |-> [queue |-> <<>>, open |-> FALSE]]

-----------------------------------------------------------------------------
(* The agent's thread                                                       *)

UserMessage(t) == [by |-> "user", turns |-> {t}, uses |-> {}, results |-> {}]

\* Mutant: only the results that are there.
AgentMessageAsIs(p) ==
    [by |-> "agent", turns |-> p.turns, uses |-> p.uses, results |-> p.results]

\* Every tool use gets a result: that it was canceled, if it has none yet.
AgentMessage(p) ==
    [by |-> "agent", turns |-> p.turns, uses |-> p.uses,
     results |-> p.results \cup
        {<<x, "canceled">> : x \in p.uses \ {r[1] : r \in p.results}}]

\* flush_pending_message; a message without content is dropped.
Flushed(ms, p) == IF p.turns = {} THEN ms ELSE Append(ms, AgentMessage(p))

Flush == messages' = Flushed(messages, pending) /\ pending' = Blank

\* Events reach the view as long as it listens.
Report(ch, t, evs) ==
    IF ch[t].open THEN [ch EXCEPT ![t].queue = @ \o evs] ELSE ch

CancelledTask(t) == [task EXCEPT ![t].cancelled = TRUE]

\* Thread::cancel: the turn is told, and its pending message is flushed when
\* its task has ended.
CancelThread ==
    IF running = 0
    THEN Flush /\ UNCHANGED <<running, task, flushers, channel>>
    ELSE /\ running' = 0
         /\ task' = CancelledTask(running)
         /\ channel' = Report(channel, running, <<<<"stop", "cancelled">>>>)
         /\ flushers' = flushers \cup {running}
         /\ UNCHANGED historyVars

FlushAfterCancel(t) ==
    /\ t \in flushers /\ task[t].state = "done"
    /\ flushers' = flushers \ {t}
    /\ Flush
    /\ UNCHANGED <<viewVars, running, task, tool, channel>>

\* Mutant: the running turn goes on.
SendToThreadBeside(t) ==
    /\ messages' = Flushed(Append(messages, UserMessage(t)), pending)
    /\ pending' = Blank
    /\ running' = t
    /\ task' = [task EXCEPT ![t].state = "streaming", ![t].message_ix = Len(messages') - 1]
    /\ channel' = [channel EXCEPT ![t] = [queue |-> <<>>, open |-> TRUE]]
    /\ UNCHANGED flushers

\* Thread::send and run_turn.
SendToThread(t) ==
    /\ messages' = Flushed(Append(messages, UserMessage(t)), pending)
    /\ pending' = Blank
    /\ running' = t
    /\ task' = [(IF running = 0 THEN task ELSE CancelledTask(running)) EXCEPT
                  ![t].state = "streaming", ![t].message_ix = Len(messages') - 1]
    /\ flushers' = IF running = 0 THEN flushers ELSE flushers \cup {running}
    /\ channel' =
         [(IF running = 0 THEN channel
           ELSE Report(channel, running, <<<<"stop", "cancelled">>>>))
          EXCEPT ![t] = [queue |-> <<>>, open |-> TRUE]]

-----------------------------------------------------------------------------
(* The turn's task: run_turn_internal                                       *)

Streaming(t) == task[t].state = "streaming"

\* The loop takes whichever is ready, so events may come after a cancellation.
StreamText(t) ==
    /\ Streaming(t) /\ t \notin pending.turns
    /\ pending' = [pending EXCEPT !.turns = @ \cup {t}]
    /\ UNCHANGED <<viewVars, messages, running, task, flushers, tool, channel>>

\* A tool that asks the user for permission first, one that runs at once, or
\* one that does not exist, as none does while no turn runs.
StreamToolUse(t, x, state) ==
    /\ Streaming(t) /\ tool[x].state = "none"
    /\ (running = 0) <=> (state = "finished")
    /\ tool' = [tool EXCEPT ![x] = [state |-> state, turn |-> t, ok |-> FALSE]]
    /\ task' = [task EXCEPT ![t].uses = @ \cup {x}]
    /\ pending' = [pending EXCEPT !.turns = @ \cup {t}, !.uses = @ \cup {x}]
    /\ channel' = Report(channel, t, IF state = "asking" THEN <<<<"call", x>>, <<"ask", x>>>>
                                     ELSE <<<<"call", x>>>>)
    /\ UNCHANGED <<viewVars, messages, running, flushers>>

EndStream(t, outcome) ==
    /\ Streaming(t)
    /\ task' = [task EXCEPT ![t].state = outcome]
    /\ UNCHANGED <<viewVars, historyVars, running, flushers, tool, channel>>

NoticeCancellation(t) ==
    /\ Streaming(t) /\ task[t].cancelled
    /\ task' = [task EXCEPT ![t].state = "draining", ![t].noticed = TRUE]
    /\ UNCHANGED <<viewVars, historyVars, running, flushers, tool, channel>>

\* The end of the task; after a cancellation it leaves the thread alone.
FinishTask(t, reason, ms) ==
    /\ pending' = Blank
    /\ IF task[t].cancelled
       THEN messages' = ms /\ UNCHANGED <<running, channel>>
       ELSE /\ messages' = IF reason = "refusal"
                           THEN SubSeq(ms, 1, task[t].message_ix) ELSE ms
            /\ running' = 0
            /\ channel' = Report(channel, t, <<<<"stop", reason>>>>)
    /\ task' = [task EXCEPT ![t].state = "done", ![t].uses = {}]

\* The model refuses, or runs out of tokens, which the view takes for an error:
\* the tools are skipped and their futures dropped.
Refuse(t, reason) ==
    /\ MayRefuse /\ Streaming(t)
    /\ IF task[t].cancelled
       THEN /\ task' = [task EXCEPT ![t].state = "done", ![t].uses = {}]
            /\ UNCHANGED <<historyVars, running, channel>>
       ELSE FinishTask(t, reason, Flushed(messages, pending))
    /\ tool' = [x \in Tool |-> IF x \in task[t].uses
                               THEN [tool[x] EXCEPT !.state = "dropped"] ELSE tool[x]]
    /\ UNCHANGED <<viewVars, flushers>>

Draining(t) == task[t].state \in {"draining", "failing"}

ResultReady(t, x) == Draining(t) /\ x \in task[t].uses /\ tool[x].state = "finished"

ProcessToolResult(t, x) ==
    /\ ResultReady(t, x)
    /\ tool' = [tool EXCEPT ![x].state = "taken"]
    /\ channel' = Report(channel, t, <<<<"result", x>>>>)
    /\ pending' = [pending EXCEPT
                     !.results = @ \cup {<<x, IF tool[x].ok THEN "ok" ELSE "error">>}]
    /\ UNCHANGED <<viewVars, messages, running, task, flushers>>

AllTaken(t) == Draining(t) /\ \A x \in task[t].uses : tool[x].state = "taken"

\* All results are in: the turn ends, or the model is asked again with them
\* unless the user has queued a message.
Drained(t) ==
    /\ AllTaken(t)
    /\ LET ms == Flushed(messages, pending)
           continues == task[t].state = "draining" /\ ~task[t].noticed
                           /\ task[t].uses # {}
       IN \/ /\ continues
             /\ task' = [task EXCEPT ![t].state = "streaming", ![t].uses = {}]
             /\ messages' = ms /\ pending' = Blank
             /\ UNCHANGED <<running, channel>>
          \/ FinishTask(t, IF task[t].state = "failing" THEN "error" ELSE "end", ms)
    /\ UNCHANGED <<viewVars, flushers, tool>>

FinishTool(x, ok) ==
    /\ tool[x].state = "running"
    /\ tool' = [tool EXCEPT ![x].state = "finished", ![x].ok = ok]
    /\ UNCHANGED <<viewVars, historyVars, running, task, flushers, channel>>

OnView == {entries[i][2] : i \in {j \in DOMAIN entries : entries[j][1] = "tool"}}

\* The sender of the answer is with the event or with the entry on view, and
\* goes with it when the entry is removed.
Asked(x) ==
    \/ x \in OnView /\ call[x] = "waiting"
    \/ \E t \in Turn, i \in DOMAIN channel[tool[x].turn].queue :
          channel[tool[x].turn].queue[i] = <<"ask", x>>

AskLost(x) == tool[x].state = "asking" /\ ~Asked(x)

AskFails(x) ==
    /\ AskLost(x)
    /\ tool' = [tool EXCEPT ![x].state = "finished"]
    /\ UNCHANGED <<viewVars, historyVars, running, task, flushers, channel>>

TaskStep(t) ==
    \/ EndStream(t, "draining") \/ EndStream(t, "failing")
    \/ NoticeCancellation(t) \/ Refuse(t, "refusal") \/ Refuse(t, "error")
    \/ Drained(t) \/ FlushAfterCancel(t)
    \/ \E x \in Tool : ProcessToolResult(t, x)

StreamStep(t) ==
    \/ StreamText(t)
    \/ \E x \in Tool, state \in {"asking", "running", "finished"} :
          StreamToolUse(t, x, state)

ToolStep(x) == FinishTool(x, TRUE) \/ FinishTool(x, FALSE) \/ AskFails(x)

-----------------------------------------------------------------------------
(* The view's thread                                                        *)

PendingCalls == {x \in OnView : call[x] \in {"waiting", "in_progress"}}
MarkPendingToolsAsCanceled ==
    call' = [x \in Tool |-> IF x \in PendingCalls THEN "canceled" ELSE call[x]]

\* AcpThread::run_turn of the next message; the send task first waits for the
\* one it replaces.
Send ==
    /\ acp.turn_id < MaxTurns
    /\ LET t == acp.turn_id + 1 IN
       /\ acp' = [acp EXCEPT !.turn_id = t, !.running = t]
       /\ send' = [send EXCEPT ![t].state = "waiting", ![t].after = acp.running,
                               ![t].answered = "waiting"]
    /\ IF acp.running = 0
       THEN UNCHANGED <<call, stopped, historyVars, running, task, flushers, channel>>
       ELSE /\ stopped' = stopped \cup {acp.running}
            /\ MarkPendingToolsAsCanceled /\ CancelThread
    /\ UNCHANGED <<entries, tool>>

\* A send task dropped with the ones it waits for.
Chain(k) ==
    {j \in Turn : j <= k /\ \A i \in j + 1 .. k :
        send[i].state = "waiting" /\ send[i].after = i - 1}
Unsent(ts) == {t \in ts : send[t].state \in {"waiting", "checkpoint", "prompting"}}

\* The stop button; the view keeps the task of the last turn it stopped, and
\* drops the one before.
Stop ==
    /\ acp.running # 0 /\ acp.stops < MaxStops
    /\ LET dropped == IF acp.kept = 0 THEN {} ELSE Unsent(Chain(acp.kept))
           cancelled == IF running = 0 THEN channel
                        ELSE Report(channel, running, <<<<"stop", "cancelled">>>>)
       IN /\ send' = [t \in Turn |-> IF t \in dropped
                         THEN [send[t] EXCEPT !.state = "dropped"] ELSE send[t]]
          /\ channel' = [t \in Turn |-> IF t \in dropped
                            THEN [queue |-> <<>>, open |-> FALSE] ELSE cancelled[t]]
    /\ IF running = 0 THEN Flush /\ UNCHANGED <<running, task, flushers>>
       ELSE /\ running' = 0 /\ task' = CancelledTask(running)
            /\ flushers' = flushers \cup {running}
            /\ UNCHANGED historyVars
    /\ acp' = [acp EXCEPT !.running = 0, !.kept = acp.running, !.stops = @ + 1]
    /\ stopped' = stopped \cup {acp.running}
    /\ MarkPendingToolsAsCanceled
    /\ UNCHANGED <<entries, tool>>

Authorize(x, allowed) ==
    /\ call[x] = "waiting"
    /\ call' = [call EXCEPT ![x] = IF allowed THEN "in_progress" ELSE "rejected"]
    /\ tool' = [tool EXCEPT ![x].state =
                  IF @ # "asking" THEN @ ELSE IF allowed THEN "running" ELSE "finished"]
    /\ UNCHANGED <<acp, send, entries, stopped, historyVars, running, task,
                   flushers, channel>>

User == Send \/ Stop \/ \E x \in Tool, allowed \in BOOLEAN : Authorize(x, allowed)

Over(t) == send[t].state \in {"sent", "dropped"}

StartSend(t) ==
    /\ send[t].state = "waiting"
    /\ send[t].after # 0 => Over(send[t].after)
    /\ send' = [send EXCEPT ![t].state = "checkpoint"]
    /\ entries' = Append(entries, <<"user", t>>)
    /\ UNCHANGED <<acp, call, stopped, historyVars, running, task, flushers, tool, channel>>

\* The checkpoint is there: the connection is prompted.
Prompt(t) ==
    /\ send[t].state = "checkpoint"
    /\ send' = [send EXCEPT ![t].state = "prompting"]
    /\ SendToThread(t)
    /\ UNCHANGED <<acp, entries, call, stopped, tool>>

EntriesWith(x) == IF x \in OnView THEN entries ELSE Append(entries, <<"tool", x>>)

EventWaits(t) == send[t].state = "prompting" /\ channel[t].queue # <<>>

\* handle_thread_events: one event of the turn.
HandleEvent(t) ==
    /\ EventWaits(t)
    /\ LET kind == Head(channel[t].queue)[1]
           x == Head(channel[t].queue)[2]
       IN IF kind = "stop"
          THEN /\ send' = [send EXCEPT ![t].state = "sent", ![t].response = x]
               /\ channel' = [channel EXCEPT ![t] = [queue |-> <<>>, open |-> FALSE]]
               /\ UNCHANGED <<entries, call>>
          ELSE /\ channel' = [channel EXCEPT ![t].queue = Tail(@)]
               /\ entries' = EntriesWith(x)
               /\ call' = [call EXCEPT ![x] =
                     CASE kind = "call" -> "in_progress"
                       [] kind = "ask" -> "waiting"
                       [] OTHER -> IF x \in OnView /\ tool[x].ok THEN "completed"
                                   ELSE "failed"]
               /\ UNCHANGED send
    /\ UNCHANGED <<acp, stopped, historyVars, running, task, flushers, tool>>

ResponseWaits(t) == send[t].answered = "waiting" /\ Over(t)

\* The continuation has the response, and takes a checkpoint.
ReceiveResponse(t) ==
    /\ ResponseWaits(t)
    /\ send' = [send EXCEPT ![t].answered = "checkpoint"]
    /\ UNCHANGED <<acp, entries, call, stopped, historyVars, running, task,
                   flushers, tool, channel>>

LastUserMessage ==
    LET is == {i \in DOMAIN entries : entries[i][1] = "user"}
    IN IF is = {} THEN 0 ELSE CHOOSE i \in is : \A j \in is : j <= i

CompletedAfter(i) ==
    \E j \in i + 1 .. Len(entries) :
        entries[j][1] = "tool" /\ call[entries[j][2]] = "completed"

\* Mutant: whichever turn runs is taken for this one.
FinishAnyTurn(t) ==
    /\ send[t].answered = "checkpoint"
    /\ send' = [send EXCEPT ![t].answered = "done"]
    /\ acp' = [acp EXCEPT !.running = 0]
    /\ IF send[t].response = "cancelled" THEN MarkPendingToolsAsCanceled
       ELSE UNCHANGED call
    /\ UNCHANGED <<entries, stopped, historyVars, running, task, flushers, tool, channel>>

\* Mutant: a cancelled response leaves the tool calls as they are.
FinishTurnUnmarked(t) ==
    /\ send[t].answered = "checkpoint"
    /\ send' = [send EXCEPT ![t].answered = "done"]
    /\ acp' = [acp EXCEPT !.running = IF @ = t THEN 0 ELSE @]
    /\ UNCHANGED <<entries, call, stopped, historyVars, running, task, flushers, tool, channel>>

\* And looks at it: only the turn that still runs is ended, but the entries
\* are those of whatever turn runs now.
FinishTurn(t) ==
    /\ send[t].answered = "checkpoint"
    /\ send' = [send EXCEPT ![t].answered = "done"]
    /\ acp' = [acp EXCEPT !.running = IF @ = t THEN 0 ELSE @]
    /\ IF send[t].response = "cancelled" THEN MarkPendingToolsAsCanceled
       ELSE UNCHANGED call
    /\ entries' = IF send[t].response = "refusal" /\ LastUserMessage # 0
                     /\ ~CompletedAfter(LastUserMessage)
                  THEN SubSeq(entries, 1, LastUserMessage - 1) ELSE entries
    /\ UNCHANGED <<stopped, historyVars, running, task, flushers, tool, channel>>

ViewStep(t) ==
    \/ StartSend(t) \/ Prompt(t) \/ HandleEvent(t)
    \/ ReceiveResponse(t) \/ FinishTurn(t)

-----------------------------------------------------------------------------
Next ==
    \/ User
    \/ \E t \in Turn : TaskStep(t) \/ StreamStep(t) \/ ViewStep(t)
    \/ \E x \in Tool : ToolStep(x)

Spec == Init /\ [][Next]_vars

\* The tasks are polled, a stream ends and a tool that may run comes to an
\* end.  The user need not answer.
FairSpec ==
    /\ Spec
    /\ \A t \in Turn : WF_vars(TaskStep(t)) /\ WF_vars(ViewStep(t))
    /\ \A x \in Tool : WF_vars(ToolStep(x))

-----------------------------------------------------------------------------
(* Properties                                                               *)

\* Type correctness, and that each turn's tasks are where the others expect
\* them: an agent's task exists only once the view has prompted for it.
TypeOK ==
    /\ acp \in [running : 0 .. MaxTurns, turn_id : 0 .. MaxTurns,
                kept : 0 .. MaxTurns, stops : 0 .. MaxStops]
    /\ running \in 0 .. MaxTurns
    /\ stopped \subseteq Turn /\ flushers \subseteq Turn
    /\ \A t \in Turn :
         /\ send[t].state \in {"none", "waiting", "checkpoint", "prompting", "sent", "dropped"}
         /\ send[t].response \in {"none", "end", "cancelled", "refusal", "error"}
         /\ send[t].answered \in {"no", "waiting", "checkpoint", "done"}
         /\ task[t].state \in {"none", "streaming", "draining", "failing", "done"}
         /\ send[t].state \in {"none", "waiting", "checkpoint"} => task[t].state = "none"
         /\ task[t].uses = {x \in Tool : tool[x].turn = t /\ x \in task[t].uses}
    /\ \A x \in Tool :
         /\ tool[x].state \in {"none", "asking", "running", "finished", "taken", "dropped"}
         /\ call[x] \in {"none", "waiting", "in_progress", "completed", "failed",
                         "rejected", "canceled"}

\* Every tool use in the history has exactly one result in the same message;
\* the model's provider refuses a request where one is missing.
UsesHaveResults ==
    \A i \in DOMAIN messages : \A x \in messages[i].uses :
        Cardinality({r \in messages[i].results : r[1] = x}) = 1

\* At most one turn goes on that nobody has cancelled, and a cancellation
\* would reach it.
OneTurn ==
    \A t \in Turn :
        task[t].state \notin {"none", "done"} /\ ~task[t].cancelled => running = t

\* Types, tasks where the others expect them, and one turn at a time.
TurnsSound == TypeOK /\ OneTurn

\* The view says that it is generating exactly as long as the last turn is
\* neither answered nor stopped, however late the turns before it end.
StatusHonest ==
    \A t \in Turn : acp.running = t <=>
        t = acp.turn_id /\ t \notin stopped /\ send[t].answered # "done"

\* A cancelled turn comes to an end, also when one of its tools was waiting
\* for the user, who need not answer any more.
CancelledTurnsEnd ==
    \A t \in Turn : task[t].cancelled ~> task[t].state = "done"

\* No deadlock: as long as a cancelled turn has not ended, its stream ends, or a
\* tool it waits for does or has its result taken, or the view has its events
\* or its response to handle: the user need not answer any more.
CancelledTurnsMove ==
    \A t \in Turn : task[t].cancelled /\ task[t].state # "done" =>
        \/ Streaming(t) \/ AllTaken(t)
        \/ \E x \in task[t].uses :
              ResultReady(t, x) \/ tool[x].state = "running" \/ AskLost(x)
        \/ EventWaits(t) \/ ResponseWaits(t) \/ send[t].answered = "checkpoint"

\* "Flush the old pending message synchronously before cancelling, to avoid a
\* race where the detached cancel task might flush the NEW turn's pending
\* message instead of the old one."
FlushesOwnTurn ==
    [][\A t \in Turn : FlushAfterCancel(t) => pending.turns \subseteq {t}]_vars

\* A turn the user has stopped does not start afterwards.
StopStops == [][\A t \in Turn : Prompt(t) => t \notin stopped]_vars

\* A call is shown as canceled only if the user has stopped its turn, or one
\* before it whose answer comes late, or if its stream has dropped it.
CancelNeedsStop ==
    \A x \in Tool : call[x] = "canceled" =>
        tool[x].state = "dropped" \/ \E t \in stopped : t <= tool[x].turn

\* "The user canceled generation so the tool call was canceled."
CanceledByUser ==
    \A x \in Tool : call[x] = "canceled" => tool[x].turn \in stopped

\* "The tool call is currently running."
InProgressRuns ==
    (\A t \in Turn : send[t].answered \in {"no", "done"}) =>
        \A x \in OnView : call[x] = "in_progress" => tool[x].state # "dropped"
=============================================================================
