--------------------------- MODULE LanguageServer ---------------------------
(***************************************************************************)
(* Zed's end of a language server process (crates/lsp) and the document the *)
(* two share (lsp_store's on_buffer_edited).                                *)
(*                                                                         *)
(* Requests are written to the outbound channel at once.  Notifications,    *)
(* the edits of the document among them, first pass through a task that     *)
(* turns them into text.  One task writes the outbound channel to the       *)
(* server's stdin, another reads its stdout and hands each response to the  *)
(* handler kept for its id.  A request ends with its response, with its     *)
(* timer, when its handler goes away, or when its caller drops it.          *)
(*                                                                         *)
(* The document is the number of edits made to it; a change notification    *)
(* carries the edit that leads to that number.                              *)
(***************************************************************************)
EXTENDS Integers, FiniteSets, Sequences

CONSTANTS
    Request,      \* requests the program makes, one call of `request` each
    Timed,        \* the ones with a timeout
    MaxEdits,     \* edits made to the document
    MayHang,      \* whether the server may stop reading its stdin
    MayExit,      \* whether the server may exit by itself
    Shutdown      \* the request `shutdown` makes

ASSUME LanguageServerAssumption ==
    /\ Timed \subseteq Request /\ Shutdown \notin Request
    /\ MaxEdits \in Nat
    /\ MayHang \in BOOLEAN /\ MayExit \in BOOLEAN

VARIABLES
    next_id,
    response_handlers, \* {[id, request]}: who waits for the response to an id
    handlers_open,     \* FALSE once the Option around the map is taken
    notifications,     \* queue of the serializer task
    notifying,         \* whether that channel is open
    outbound,          \* queue of the task that writes stdin
    outbound_open,
    output_task,       \* "running" or "ended"
    input_task,
    requests,          \* what has become of each request
    document,          \* edits made here
    server,            \* the process: its state, text, stdin, work and stdout
    shutdown           \* "no", "asking", "flushing" or "done"

channelVars == <<notifications, notifying, outbound, outbound_open>>
taskVars == <<output_task, input_task>>
handlerVars == <<response_handlers, handlers_open>>
vars == <<next_id, handlerVars, channelVars, taskVars, requests, document,
          server, shutdown>>

All == Request \cup {Shutdown}

Init ==
    /\ next_id = 0
    /\ response_handlers = {} /\ handlers_open = TRUE
    /\ notifications = <<>> /\ notifying = TRUE
    /\ outbound = <<>> /\ outbound_open = TRUE
    /\ output_task = "running" /\ input_task = "running"
    /\ requests = [q \in All |-> [state |-> "new", id |-> -1]]
    /\ document = 0
    /\ server = [state |-> "reading", document |-> 0, stdin |-> <<>>,
                 work |-> {}, stdout |-> <<>>]
    /\ shutdown = "no"

-----------------------------------------------------------------------------
(* Requests                                                                 *)

Waiting(q) == requests[q].state = "waiting"
Pending(q) == requests[q].state \in {"waiting", "answered"}

\* A request whose handler is dropped sees its channel cancelled.
Reset(reqs, lost) ==
    [q \in All |-> IF q \in lost /\ reqs[q].state = "waiting"
                   THEN [reqs[q] EXCEPT !.state = "reset"] ELSE reqs[q]]

Owners(handlers) == {h.request : h \in handlers}
HandlersOf(id) == {h \in response_handlers : h.id = id}

\* request_internal_with_timer: an entry already at this id is replaced.
AskAs(q, id) ==
    LET accepted == handlers_open /\ outbound_open
        message  == [kind |-> "request", id |-> id, request |-> q]
        asked    == [state |-> IF accepted THEN "waiting" ELSE "failed",
                     id |-> id]
    IN  /\ response_handlers' =
             IF handlers_open
             THEN (response_handlers \ HandlersOf(id))
                     \cup {[id |-> id, request |-> q]}
             ELSE response_handlers
        /\ requests' = [Reset(requests, Owners(HandlersOf(id)))
                           EXCEPT ![q] = asked]
        /\ outbound' = IF outbound_open THEN Append(outbound, message)
                       ELSE outbound
        /\ UNCHANGED <<handlers_open, notifications, notifying, outbound_open,
                       taskVars, document, server>>

Ask(q) ==
    /\ requests[q].state = "new"
    /\ AskAs(q, next_id)
    /\ next_id' = next_id + 1
    /\ UNCHANGED shutdown

Notify(message) ==
    notifications' = IF notifying THEN Append(notifications, message)
                     ELSE notifications

\* The future of the request is polled and finds the response.
Finish(q) ==
    /\ requests[q].state = "answered"
    /\ requests' = [requests EXCEPT ![q].state = "done"]
    /\ UNCHANGED <<next_id, handlerVars, channelVars, taskVars, document,
                   server, shutdown>>

\* A mistake the properties must notice: the handler stays.
TimeoutKeeping(q) ==
    /\ q \in Timed \cup {Shutdown} /\ Pending(q)
    /\ requests' = [requests EXCEPT ![q].state =
                        IF handlers_open THEN "timeout" ELSE "failed"]
    /\ Notify([kind |-> "cancel", id |-> requests[q].id])
    /\ UNCHANGED <<next_id, handlerVars, notifying, outbound, outbound_open,
                   taskVars, document, server, shutdown>>

\* The timer may win against a response that has just come.
Timeout(q) ==
    LET gone == HandlersOf(requests[q].id)
    IN  /\ q \in Timed \cup {Shutdown} /\ Pending(q)
        /\ response_handlers' = response_handlers \ gone
        /\ requests' = [Reset(requests, Owners(gone)) EXCEPT ![q].state =
                           IF handlers_open THEN "timeout" ELSE "failed"]
        /\ Notify([kind |-> "cancel", id |-> requests[q].id])
        /\ UNCHANGED <<next_id, handlers_open, notifying, outbound,
                       outbound_open, taskVars, document, server, shutdown>>

\* The caller drops the future: the server is told, the handler stays.
Abandon(q) ==
    /\ q \in Request /\ Pending(q)
    /\ requests' = [requests EXCEPT ![q].state = "dropped"]
    /\ Notify([kind |-> "cancel", id |-> requests[q].id])
    /\ UNCHANGED <<next_id, handlerVars, notifying, outbound, outbound_open,
                   taskVars, document, server, shutdown>>

\* on_buffer_edited
Edit ==
    /\ document < MaxEdits
    /\ document' = document + 1
    /\ Notify([kind |-> "change", document |-> document + 1])
    /\ UNCHANGED <<next_id, handlerVars, notifying, outbound, outbound_open,
                   taskVars, requests, server, shutdown>>

-----------------------------------------------------------------------------
(* The tasks between the program and the process                            *)

TakeHandlers ==
    /\ handlers_open' = FALSE
    /\ response_handlers' = {}
    /\ requests' = Reset(requests, Owners(response_handlers))

\* A mistake the properties must notice: each notification serialized alone.
SerializeLatest ==
    /\ notifications # <<>>
    /\ \E i \in DOMAIN notifications :
        /\ outbound' = IF outbound_open THEN Append(outbound, notifications[i])
                       ELSE outbound
        /\ notifications' = SubSeq(notifications, 1, i - 1)
                              \o SubSeq(notifications, i + 1, Len(notifications))
    /\ UNCHANGED <<next_id, handlerVars, notifying, outbound_open, taskVars,
                   requests, document, server, shutdown>>

Serialize ==
    /\ notifications # <<>>
    /\ outbound' = IF outbound_open THEN Append(outbound, Head(notifications))
                   ELSE outbound
    /\ notifications' = Tail(notifications)
    /\ UNCHANGED <<next_id, handlerVars, notifying, outbound_open, taskVars,
                   requests, document, server, shutdown>>

SerializerEnds ==
    /\ ~notifying /\ notifications = <<>> /\ outbound_open
    /\ outbound_open' = FALSE
    /\ UNCHANGED <<next_id, handlerVars, notifications, notifying, outbound,
                   taskVars, requests, document, server, shutdown>>

Write ==
    /\ output_task = "running" /\ outbound # <<>> /\ server.state = "reading"
    /\ outbound' = Tail(outbound)
    /\ server' = [server EXCEPT !.stdin = Append(@, Head(outbound))]
    /\ UNCHANGED <<next_id, handlerVars, notifications, notifying,
                   outbound_open, taskVars, requests, document, shutdown>>

\* The channel is closed and empty, or a write fails: the task ends and clears
\* the handlers, and nothing can be sent any more.
OutputEnds ==
    /\ output_task = "running"
    /\ \/ ~outbound_open /\ outbound = <<>>
       \/ outbound # <<>> /\ server.state = "exited"
    /\ output_task' = "ended"
    /\ outbound' = <<>> /\ outbound_open' = FALSE
    /\ TakeHandlers
    /\ UNCHANGED <<next_id, notifications, notifying, input_task, document,
                   server, shutdown>>

\* A mistake the properties must notice: the end of stdout goes unnoticed.
InputEndsQuietly ==
    /\ input_task = "running"
    /\ server.state = "exited" /\ server.stdout = <<>>
    /\ input_task' = "ended"
    /\ UNCHANGED <<next_id, handlerVars, requests, channelVars, output_task,
                   document, server, shutdown>>

InputEnds ==
    /\ input_task = "running"
    /\ server.state = "exited" /\ server.stdout = <<>>
    /\ input_task' = "ended"
    /\ TakeHandlers
    /\ UNCHANGED <<next_id, channelVars, output_task, document, server,
                   shutdown>>

\* A response goes to the handler at its id; without one it is dropped.
ReadResponse ==
    /\ input_task = "running" /\ server.stdout # <<>>
    /\ LET response == Head(server.stdout)
           handlers == HandlersOf(response.id)
       IN  /\ response_handlers' = response_handlers \ handlers
           /\ requests' = [q \in All |->
                IF q \in Owners(handlers) /\ Waiting(q)
                THEN [state |-> "answered", id |-> requests[q].id,
                      by |-> response.request]
                ELSE requests[q]]
    /\ server' = [server EXCEPT !.stdout = Tail(@)]
    /\ UNCHANGED <<next_id, handlers_open, channelVars, taskVars, document,
                   shutdown>>

-----------------------------------------------------------------------------
(* Shutting down.  The request takes its id from a copy of the counter.     *)

\* A mistake the properties must notice: the counter of its own starts at 0.
StartShutdownFromZero ==
    /\ shutdown = "no"
    /\ shutdown' = "asking"
    /\ AskAs(Shutdown, 0)
    /\ UNCHANGED next_id

StartShutdown ==
    /\ shutdown = "no"
    /\ shutdown' = "asking"
    /\ AskAs(Shutdown, next_id)
    /\ UNCHANGED next_id

\* A mistake the properties must notice: the channel is left open.
FlushAndExitOpen ==
    /\ shutdown = "asking" /\ ~Waiting(Shutdown)
    /\ shutdown' = "flushing"
    /\ TakeHandlers
    /\ Notify([kind |-> "exit"])
    /\ UNCHANGED <<next_id, notifying, outbound, outbound_open, taskVars,
                   document, server>>

FlushAndExit ==
    /\ shutdown = "asking" /\ ~Waiting(Shutdown)
    /\ shutdown' = "flushing"
    /\ TakeHandlers
    /\ Notify([kind |-> "exit"])
    /\ notifying' = FALSE
    /\ UNCHANGED <<next_id, outbound, outbound_open, taskVars, document,
                   server>>

Kill ==
    /\ shutdown = "flushing" /\ output_task = "ended"
    /\ shutdown' = "done"
    /\ server' = [server EXCEPT !.state = "exited", !.stdin = <<>>,
                                !.work = {}, !.stdout = <<>>]
    /\ input_task' = "ended"
    /\ UNCHANGED <<next_id, handlerVars, channelVars, output_task, requests,
                   document>>

-----------------------------------------------------------------------------
(* The server process, which is not ours.                                   *)

Handle ==
    /\ server.state = "reading" /\ server.stdin # <<>>
    /\ LET m == Head(server.stdin)
       IN  server' = CASE m.kind = "change" ->
                            [server EXCEPT !.stdin = Tail(@),
                                           !.document = m.document]
                       [] m.kind = "request" ->
                            [server EXCEPT !.stdin = Tail(@),
                               !.work = @ \cup
                                  {[id |-> m.id, request |-> m.request]}]
                       [] m.kind = "cancel" ->
                            [server EXCEPT !.stdin = Tail(@)]
                       [] m.kind = "exit" ->
                            [server EXCEPT !.stdin = <<>>, !.work = {},
                                           !.state = "exited"]
    /\ UNCHANGED <<next_id, handlerVars, channelVars, taskVars, requests,
                   document, shutdown>>

Answer ==
    /\ server.state = "reading"
    /\ \E w \in server.work :
        server' = [server EXCEPT !.work = @ \ {w}, !.stdout = Append(@, w)]
    /\ UNCHANGED <<next_id, handlerVars, channelVars, taskVars, requests,
                   document, shutdown>>

Hang ==
    /\ MayHang /\ server.state = "reading"
    /\ server' = [server EXCEPT !.state = "hung"]
    /\ UNCHANGED <<next_id, handlerVars, channelVars, taskVars, requests,
                   document, shutdown>>

Exit ==
    /\ MayExit /\ server.state = "reading"
    /\ server' = [server EXCEPT !.state = "exited", !.stdin = <<>>,
                                !.work = {}]
    /\ UNCHANGED <<next_id, handlerVars, channelVars, taskVars, requests,
                   document, shutdown>>

-----------------------------------------------------------------------------
Next ==
    \/ \E q \in Request : Ask(q) \/ Abandon(q)
    \/ \E q \in All : Finish(q) \/ Timeout(q)
    \/ Edit
    \/ Serialize \/ SerializerEnds \/ Write \/ OutputEnds
    \/ InputEnds \/ ReadResponse
    \/ StartShutdown \/ FlushAndExit \/ Kill
    \/ Handle \/ Answer \/ Hang \/ Exit

Spec == Init /\ [][Next]_vars

\* The executor runs every task that can go on and fires every timer.  Nothing
\* is assumed of the server.
FairSpec ==
    /\ Spec
    /\ WF_vars(Serialize) /\ WF_vars(SerializerEnds)
    /\ WF_vars(Write) /\ WF_vars(OutputEnds)
    /\ WF_vars(InputEnds) /\ WF_vars(ReadResponse)
    /\ WF_vars(FlushAndExit) /\ WF_vars(Kill)
    /\ \A q \in All : WF_vars(Finish(q)) /\ WF_vars(Timeout(q))

-----------------------------------------------------------------------------
(* Properties                                                               *)

\* Type invariant: who waits has an id below the counter, one handler per id.
TypeOK ==
    /\ \A h \in response_handlers :
        h.id \in 0..next_id /\ h.request \in All
        /\ requests[h.request].id = h.id
    /\ \A h, g \in response_handlers : h.id = g.id => h = g
    /\ ~handlers_open => response_handlers = {}
    /\ document \in 0..MaxEdits /\ server.document \in 0..document
    /\ output_task = "ended" => outbound = <<>> /\ ~outbound_open

\* Whoever waits for a response, and no one whose timer has fired, has the
\* handler that will get it (lsp.rs, response_handlers).
WaitersHaveHandlers ==
    /\ \A q \in All : Waiting(q) =>
          [id |-> requests[q].id, request |-> q] \in response_handlers
    /\ \A h \in response_handlers :
          requests[h.request].state \in {"waiting", "dropped"}

\* Ids, handlers and waiting requests match, and no handler is left behind.
HandlersSound == TypeOK /\ WaitersHaveHandlers

\* A response is handed to the request it answers, and no other request has
\* its id.  Only one made during the shutdown, whose id is the one that
\* `shutdown` has taken from its copy of the counter, may get the answer to that.
AnsweredByOwn ==
    \A q \in All : requests[q].state \in {"answered", "done"} =>
        \/ requests[q].by = q
        \/ requests[q].by = Shutdown /\ requests[q].id = requests[Shutdown].id

\* Every edit reaches the server on the text it was computed from: the one
\* with all the edits before it and no later one.
EditsFit ==
    [][server'.document # server.document =>
            server'.document = server.document + 1]_vars

\* No request waits for a server that has exited, even one with no timeout.
ExitSettles ==
    \A q \in Request :
        (Waiting(q) /\ server.state = "exited") ~> ~Waiting(q)

\* A shutdown that was begun ends, with the process killed, unless the server
\* has stopped reading its stdin: the timer ends the request but not the wait
\* for the task that writes to it.
ShutdownEnds ==
    (shutdown = "asking") ~> (shutdown = "done" \/ server.state = "hung")

\* "The shutdown timeout for LSP servers": no server holds a shutdown up.
ShutdownTimesOut == (shutdown = "asking") ~> (shutdown = "done")

\* A request is sent after the edits made before it.
RequestsFollowEdits ==
    [][\A q \in Request :
          requests[q].state = "new" /\ requests'[q].state = "waiting" =>
              \A i \in DOMAIN notifications :
                  notifications[i].kind # "change"]_vars

\* "Server reset connection": a request is reported as reset when the server
\* has exited or is being shut down.
ResetMeansClosed ==
    \A q \in All : requests[q].state = "reset" =>
        server.state = "exited" \/ shutdown \in {"flushing", "done"}
=============================================================================
