--------------------------- MODULE RemoteChannel ---------------------------
(***************************************************************************)
(* The message channel between Zed and its server on a remote host         *)
(* (ChannelClient in remote_client.rs) over connections that drop and are  *)
(* replaced: numbering, acknowledgement, the buffer of unacknowledged      *)
(* messages and the resync that follows a reconnect.  Zed opens every      *)
(* connection; start_server in server.rs accepts them, and its outgoing    *)
(* channel outlives them, while Zed's is replaced with the connection.     *)
(*                                                                         *)
(* A message carries what the channel reads of it; its payload is left out.*)
(***************************************************************************)
EXTENDS Integers, FiniteSets, SequencesExt

CONSTANTS
    Client, Server,
    MaxId,          \* bound: the largest message id (a u32 in the code)
    MaxSends,       \* bound: side -> messages and requests its code sends
    MaxDrops,       \* bound: connections that drop
    Kinds           \* what the code sends: some of {"notice", "request"}

ASSUME ChannelAssumption ==
    /\ Client # Server
    /\ MaxId \in Nat /\ MaxDrops \in Nat
    /\ MaxSends \in [{Client, Server} -> Nat]
    /\ Kinds \subseteq {"notice", "request"}

Sides   == {Client, Server}
Peer(s) == IF s = Client THEN Server ELSE Client
Ids     == 0..MaxId
NoId    == -1
Message == [id : Ids, ack : Ids \cup {NoId}, re : Ids \cup {NoId},
            kind : {"started", "flush", "ack", "notice", "request", "response"}]

VARIABLES
    nextId,         \* next_message_id
    maxReceived,    \* max_received: what the next message acknowledges
    buffer,         \* messages kept until they are acknowledged
    waiting,        \* response_channels: requests without an answer
    started,        \* remote_started has been signalled
    outbox,         \* the server's messages waiting for a connection
    wire,           \* side -> messages on their way from that side
    up,             \* the connection is up
    resync,         \* Zed's flush request under way, else NoId
    drops,
    sends,          \* side -> messages and requests its code has sent
    handling,       \* side -> requests whose handlers are running
    sent,           \* history: side -> messages it sent through its buffer
    received        \* history: side -> ids of the other side's it got

linkVars    == <<outbox, wire, up, resync, drops>>
vars == <<nextId, maxReceived, buffer, waiting, started, linkVars, sends,
          handling, sent, received>>

Envelope(kind, id, ack, re) == [id |-> id, ack |-> ack, re |-> re, kind |-> kind]

\* What each side's first poll of start_handling_messages puts on its way.
Init ==
    /\ nextId      = [s \in Sides |-> 0]
    /\ maxReceived = [s \in Sides |-> 0]
    /\ buffer      = [s \in Sides |-> <<>>]
    /\ waiting     = [s \in Sides |-> {}]
    /\ started     = [s \in Sides |-> FALSE]
    /\ outbox      = <<Envelope("started", 0, NoId, NoId)>>
    /\ wire        = [s \in Sides |->
                        IF s = Client THEN <<Envelope("started", 0, NoId, NoId)>> ELSE <<>>]
    /\ up          = TRUE
    /\ resync      = NoId
    /\ drops       = 0
    /\ sends       = [s \in Sides |-> 0]
    /\ handling    = [s \in Sides |-> <<>>]
    /\ sent        = [s \in Sides |-> {}]
    /\ received    = [s \in Sides |-> {}]

-----------------------------------------------------------------------------
(* Sending *)

\* outgoing_tx.unbounded_send: errors are ignored while reconnecting.
Post(s, messages) ==
    IF s = Server
    THEN outbox' = outbox \o messages /\ UNCHANGED wire
    ELSE /\ wire' = IF up THEN [wire EXCEPT ![Client] = @ \o messages] ELSE wire
         /\ UNCHANGED outbox

SendBuffered(s, kind, re) ==
    LET m == Envelope(kind, nextId[s], maxReceived[s], re) IN
    /\ nextId[s] \in Ids
    /\ nextId' = [nextId EXCEPT ![s] = @ + 1]
    /\ buffer' = [buffer EXCEPT ![s] = Append(@, m)]
    /\ sent' = [sent EXCEPT ![s] = @ \cup {m}]
    /\ Post(s, <<m>>)

\* Zed's code has a client only once the remote side has started.  The
\* server's stores send notices unprompted, and its code makes requests only
\* on behalf of Zed's.
CanSend(s, kind) == started[s] \/ (s = Server /\ kind = "notice")

Send(s, kind) ==
    /\ CanSend(s, kind)
    /\ sends[s] < MaxSends[s]
    /\ SendBuffered(s, kind, NoId)
    /\ sends' = [sends EXCEPT ![s] = @ + 1]
    /\ waiting' = [waiting EXCEPT ![s] = IF kind = "request" THEN @ \cup {nextId[s]} ELSE @]
    /\ UNCHANGED <<maxReceived, started, up, resync, drops, handling, received>>

\* A handler finishes; handlers may finish in any order.
Respond(s) ==
    \E i \in DOMAIN handling[s] :
        /\ SendBuffered(s, "response", handling[s][i])
        /\ handling' = [handling EXCEPT ![s] = RemoveAt(@, i)]
        /\ UNCHANGED <<maxReceived, waiting, started, up, resync, drops, sends, received>>

-----------------------------------------------------------------------------
(* Receiving: one turn of the loop of start_handling_messages *)

\* Mutant: the message after the acknowledged one goes too.
UnackedOneMore(messages, ack) ==
    LET front == {i \in DOMAIN messages : \A j \in 1..i : messages[j].id <= ack + 1}
    IN SubSeq(messages, Cardinality(front) + 1, Len(messages))

\* while buffer.front().is_some_and(|msg| msg.id <= ack_id) pop_front()
Unacked(messages, ack) ==
    LET front == {i \in DOMAIN messages : \A j \in 1..i : messages[j].id <= ack}
    IN SubSeq(messages, Cardinality(front) + 1, Len(messages))

Acknowledged(s, m) ==
    IF m.ack = NoId THEN buffer[s] ELSE Unacked(buffer[s], m.ack)

\* The message is taken off the wire; answers go out in the same turn.
Take(s, answers) ==
    LET rest == [wire EXCEPT ![Peer(s)] = Tail(@)] IN
    IF s = Server
    THEN wire' = rest /\ outbox' = outbox \o answers
    ELSE /\ wire' = IF up THEN [rest EXCEPT ![Client] = @ \o answers] ELSE rest
         /\ UNCHANGED outbox

ReceiveControl(s, m) ==
    LET ack == Envelope("ack", nextId[s], NoId, m.id) IN
    /\ m.kind \in {"flush", "started"}
    /\ nextId[s] \in Ids
    /\ nextId' = [nextId EXCEPT ![s] = @ + 1]
    /\ started' = [started EXCEPT ![s] = @ \/ m.kind = "started"]
    /\ Take(s, IF m.kind = "flush" THEN Append(Acknowledged(s, m), ack) ELSE <<ack>>)
    /\ UNCHANGED <<maxReceived, waiting, handling, received>>

ReceiveAnswer(s, m) ==
    /\ m.re # NoId
    /\ maxReceived' = [maxReceived EXCEPT ![s] = m.id]
    /\ waiting' = [waiting EXCEPT ![s] = @ \ {m.re}]
    /\ received' = [received EXCEPT ![s] = @ \cup {m.id}]
    /\ Take(s, <<>>)
    /\ UNCHANGED <<nextId, started, handling>>

ReceivePayload(s, m) ==
    /\ m.kind \in {"notice", "request"}
    /\ maxReceived' = [maxReceived EXCEPT ![s] = m.id]
    /\ handling' = [handling EXCEPT ![s] = IF m.kind = "request" THEN Append(@, m.id) ELSE @]
    /\ received' = [received EXCEPT ![s] = @ \cup {m.id}]
    /\ Take(s, <<>>)
    /\ UNCHANGED <<nextId, waiting, started>>

\* Mutant: the loop does not wait for the future that asked.
NoBarrier(s) == TRUE

\* rx.await: the loop goes on once the future that asked has seen its answer.
Barrier(s) == s = Client => resync = NoId \/ resync \in waiting[Client]

Receive(s) ==
    /\ wire[Peer(s)] # <<>> /\ Barrier(s)
    /\ LET m == Head(wire[Peer(s)]) IN
        /\ buffer' = [buffer EXCEPT ![s] = Acknowledged(s, m)]
        /\ ReceiveControl(s, m) \/ ReceiveAnswer(s, m) \/ ReceivePayload(s, m)
    /\ UNCHANGED <<up, resync, drops, sends, sent>>

-----------------------------------------------------------------------------
(* Connections *)

\* The server's loop writes to the connection it has accepted.
Transmit ==
    /\ up /\ outbox # <<>>
    /\ outbox' = Tail(outbox)
    /\ wire' = [wire EXCEPT ![Server] = Append(@, Head(outbox))]
    /\ UNCHANGED <<nextId, maxReceived, buffer, waiting, started, up, resync, drops,
                   sends, handling, sent, received>>

\* The connection drops: of what was on its way, only a beginning arrived.
Drop ==
    /\ up /\ started[Client] /\ drops < MaxDrops
    /\ up' = FALSE
    /\ drops' = drops + 1
    /\ \E kept \in [Sides -> 0..(Len(wire[Client]) + Len(wire[Server]))] :
        /\ \A s \in Sides : kept[s] <= Len(wire[s])
        /\ wire' = [s \in Sides |-> SubSeq(wire[s], 1, kept[s])]
    /\ UNCHANGED <<nextId, maxReceived, buffer, waiting, started, outbox, resync,
                   sends, handling, sent, received>>

\* Mutant: a new connection numbers its messages from the start.
ReconnectRenumbering ==
    /\ ~up /\ Barrier(Client)
    /\ up' = TRUE
    /\ nextId' = [nextId EXCEPT ![Client] = 1]
    /\ waiting' = [waiting EXCEPT ![Client] = @ \cup {0}]
    /\ resync' = 0
    /\ wire' = [wire EXCEPT ![Server] = <<>>,
           ![Client] = @ \o <<Envelope("flush", 0, maxReceived[Client], NoId),
                              Envelope("started", 0, NoId, NoId)>>]
    /\ UNCHANGED <<maxReceived, buffer, started, outbox, drops, sends, handling, sent, received>>

\* reconnect: new channels, and resync sends its flush at once; the new task
\* says that it has started when it is first polled.  What the old connection
\* delivered and Zed has not handled is dropped with its channel.
Reconnect ==
    LET flush   == Envelope("flush", nextId[Client], maxReceived[Client], NoId)
        hello   == Envelope("started", 0, NoId, NoId) IN
    /\ ~up
    /\ Barrier(Client)
    /\ nextId[Client] \in Ids
    /\ up' = TRUE
    /\ nextId' = [nextId EXCEPT ![Client] = @ + 1]
    /\ waiting' = [waiting EXCEPT ![Client] = @ \cup {nextId[Client]}]
    /\ resync' = nextId[Client]
    /\ wire' = [wire EXCEPT ![Server] = <<>>, ![Client] = @ \o <<flush, hello>>]
    /\ UNCHANGED <<maxReceived, buffer, started, outbox, drops, sends, handling, sent, received>>

\* The flush was answered: resync sends the whole buffer again.
Resync ==
    /\ resync # NoId /\ resync \notin waiting[Client]
    /\ Post(Client, buffer[Client])
    /\ resync' = NoId
    /\ UNCHANGED <<nextId, maxReceived, buffer, waiting, started, up, drops, sends,
                   handling, sent, received>>

Next ==
    \/ \E s \in Sides : (\E kind \in Kinds : Send(s, kind)) \/ Respond(s) \/ Receive(s)
    \/ Transmit \/ Drop \/ Reconnect \/ Resync

\* The executors run what is ready, and a dropped connection is replaced.
Fairness ==
    /\ \A s \in Sides : WF_vars(Respond(s)) /\ WF_vars(Receive(s))
    /\ WF_vars(Transmit) /\ WF_vars(Reconnect) /\ WF_vars(Resync)

-----------------------------------------------------------------------------
IdsIn(messages) == {messages[i].id : i \in DOMAIN messages}

\* A "started" has number 0 in any case.
UnderWay(s) ==
    LET carried == ToSet(wire[s]) \cup (IF s = Server THEN ToSet(outbox) ELSE {})
    IN {m.id : m \in {c \in carried : c.kind # "started"}}

Lost(s) == {m \in sent[s] : /\ m.id \notin received[Peer(s)] \cup UnderWay(s)
                            /\ m.id \notin IdsIn(buffer[s])}

\* What the server sends first if it does so before it has heard from Zed.
Early(s, m) == s = Server /\ m.id = 0

TypeOK ==
    /\ nextId \in [Sides -> 0..(MaxId + 1)]
    /\ maxReceived \in [Sides -> Ids]
    /\ buffer \in [Sides -> Seq(Message)]
    /\ waiting \in [Sides -> SUBSET Ids]
    /\ started \in [Sides -> BOOLEAN]
    /\ outbox \in Seq(Message)
    /\ wire \in [Sides -> Seq(Message)]
    /\ up \in BOOLEAN
    /\ resync \in Ids \cup {NoId}
    /\ drops \in 0..MaxDrops
    /\ sends \in [Sides -> Nat]
    /\ handling \in [Sides -> Seq(Ids)]
    /\ sent \in [Sides -> SUBSET Message]
    /\ received \in [Sides -> SUBSET Ids]

\* A dropped connection loses nothing for good: every message sent through
\* the buffer is received, on its way, or still there to be sent again.
NothingLost == \A s \in Sides : Lost(s) = {}

\* What the code does ensure: without a drop nothing is lost, and one drop
\* loses at most the server's early message, whose number those who have
\* received nothing acknowledge.
OneDropLosesOnlyEarly ==
    drops < 2 => \A s \in Sides : \A m \in Lost(s) : drops = 1 /\ Early(s, m)

\* Types, and both buffers hold what has not arrived.
ChannelSound == TypeOK /\ OneDropLosesOnlyEarly

\* The session refines RemoteCalls: answers only to requests that were asked
\* and handled, whatever is sent again, overtaken or answered twice.
Of(s, kind) == {m.id : m \in {m \in sent[s] : m.kind = kind}}
Calls == INSTANCE RemoteCalls WITH
    notified <- [s \in Sides |-> Of(s, "notice")],
    asked    <- [s \in Sides |-> Of(s, "request")],
    handled  <- [s \in Sides |-> received[s] \cap (Of(Peer(s), "notice") \cup Of(Peer(s), "request"))],
    answered <- [s \in Sides |-> Of(s, "request") \ waiting[s]]
KeepsPromises == Calls!Calls

\* In the end every request is answered and everything sent is received, but
\* for an early message that a drop has cut off.
Settles == <>[](\A s \in Sides :
    /\ \A m \in sent[s] : m.id \in received[Peer(s)] \/ (drops > 0 /\ Early(s, m))
    /\ waiting[s] = {})

Spec     == Init /\ [][Next]_vars
FairSpec == Spec /\ Fairness
=============================================================================
