-------------------------- MODULE RemoteChannelProofs --------------------------
(***************************************************************************)
(* A session over connections that drop keeps the promises of RemoteCalls, *)
(* and what one drop may lose is known, for any number of messages, ids    *)
(* and connections.                                                        *)
(***************************************************************************)
EXTENDS RemoteChannel, FiniteSetTheorems, TLAPS

\* A number that was given to a message which is not kept in the buffer.
Spare(s, id) == id < nextId[s] /\ \A m \in sent[s] : m.id # id

\* What may be on its way from a side: a message of its code, the greeting
\* of a connection, a flush, or the answer to one of these two.
Legit(s) ==
    sent[s] \cup
    {m \in Message :
        \/ m.kind = "started" /\ m.id = 0 /\ m.re = NoId
        \/ m.kind = "flush" /\ m.re = NoId /\ Spare(s, m.id)
        \/ /\ m.kind = "ack" /\ Spare(s, m.id)
           /\ m.re # NoId /\ (m.re = 0 \/ Spare(Peer(s), m.re))}

Types ==
    /\ nextId \in [Sides -> Nat] /\ maxReceived \in [Sides -> Ids]
    /\ waiting \in [Sides -> SUBSET Ids] /\ started \in [Sides -> BOOLEAN]
    /\ up \in BOOLEAN /\ resync \in Ids \cup {NoId}
    /\ handling \in [Sides -> Seq(Ids)]
    /\ sent \in [Sides -> SUBSET Message] /\ received \in [Sides -> SUBSET Ids]

Queues ==
    /\ outbox \in Seq(Legit(Server))
    /\ buffer \in [Sides -> Seq(Message)] /\ wire \in [Sides -> Seq(Message)]
    /\ \A s \in Sides : buffer[s] \in Seq(sent[s]) /\ wire[s] \in Seq(Legit(s))

\* Numbers are given once.  Number 0 is no request's: it answers a greeting,
\* which is also what an answer to 0 means.
Numbered ==
    /\ \A s \in Sides : \A m \in sent[s] :
         /\ m.id < nextId[s] /\ m.kind \in {"notice", "request", "response"}
         /\ m.kind = "response" <=> m.re # NoId
         /\ m.kind = "request" => m.id # 0
         /\ \A n \in sent[s] : m.id = n.id => m = n
    /\ \A s \in Sides : started[s] => nextId[s] # 0
    /\ \A s \in Sides : \A id \in received[s] : id < nextId[Peer(s)]

\* The requests a side has received.
Debts(s) == received[s] \cap Of(Peer(s), "request")

\* A side answers only requests it has received.
AnswersOwed ==
    \A s \in Sides :
        /\ \A m \in sent[s] : m.kind = "response" => m.re \in Debts(s)
        /\ handling[s] \in Seq(Debts(s))

ChannelInv == Types /\ Queues /\ Numbered /\ AnswersOwed

LEMMA PeerFacts ==
    /\ \A s \in Sides : Peer(s) \in Sides /\ Peer(s) # s /\ Peer(Peer(s)) = s
    /\ Client \in Sides /\ Server \in Sides /\ Client # Server
    /\ \A s, u \in Sides : u # s => u = Peer(s)
BY ChannelAssumption DEF Sides, Peer

LEMMA SeqGrows == ASSUME NEW S, NEW T, S \subseteq T, NEW q \in Seq(S) PROVE q \in Seq(T)
OBVIOUS

LEMMA OfFact ==
    \A s, kind, id : id \in Of(s, kind) <=> \E m \in sent[s] : m.kind = kind /\ m.id = id
BY DEF Of

LEMMA EnvelopeFact ==
    ASSUME NEW kind \in {"started", "flush", "ack", "notice", "request", "response"},
           NEW id \in Ids, NEW ack \in Ids \cup {NoId}, NEW re \in Ids \cup {NoId}
    PROVE  LET m == Envelope(kind, id, ack, re) IN
           m \in Message /\ m.kind = kind /\ m.id = id /\ m.ack = ack /\ m.re = re
BY DEF Envelope, Message

LEMMA IdsFact == \A id \in Ids : id \in Nat /\ id # NoId
BY ChannelAssumption DEF Ids, NoId

\* Numbers only grow, and what is sent gets a fresh one: what was on its way
\* is still a message of its side.
LEMMA LegitGrows ==
    ASSUME ChannelInv, nextId' \in [Sides -> Nat],
           \A s \in Sides : /\ nextId[s] <= nextId'[s] /\ sent[s] \subseteq sent'[s]
                            /\ \A m \in sent'[s] \ sent[s] : m.id = nextId[s]
    PROVE  \A s \in Sides : Legit(s) \subseteq Legit(s)'
<1>1. ASSUME NEW s \in Sides, NEW id \in Ids, Spare(s, id) PROVE Spare(s, id)'
  <2>1. id \in Nat /\ nextId[s] \in Nat /\ nextId'[s] \in Nat
    BY IdsFact DEF ChannelInv, Types
  <2> QED
    BY <1>1, <2>1 DEF Spare
<1>2. ASSUME NEW s \in Sides, NEW m \in Legit(s) PROVE m \in Legit(s)'
  <2>1. CASE m \in sent[s]
    BY <2>1 DEF Legit
  <2>2. CASE m \in Message /\ m.kind = "started" /\ m.id = 0 /\ m.re = NoId
    BY <2>2 DEF Legit
  <2>3. CASE m \in Message /\ m.kind = "flush" /\ m.re = NoId /\ Spare(s, m.id)
    <3>1. m.id \in Ids
      BY <2>3 DEF Message
    <3>2. Spare(s, m.id)'
      BY <1>1, <2>3, <3>1
    <3> QED
      BY <2>3, <3>2 DEF Legit
  <2>4. CASE m \in Message /\ m.kind = "ack" /\ Spare(s, m.id)
             /\ m.re # NoId /\ (m.re = 0 \/ Spare(Peer(s), m.re))
    <3>1. m.id \in Ids /\ m.re \in Ids \cup {NoId}
      BY <2>4 DEF Message
    <3>2. Spare(s, m.id)'
      BY <1>1, <2>4, <3>1
    <3>3. CASE m.re = 0
      BY <2>4, <3>2, <3>3 DEF Legit
    <3>4. CASE Spare(Peer(s), m.re) /\ m.re \in Ids
      <4>1. Spare(Peer(s), m.re)'
        BY <1>1, <3>4, PeerFacts
      <4> QED
        BY <2>4, <3>2, <4>1 DEF Legit
    <3> QED
      BY <2>4, <3>1, <3>3, <3>4
  <2> QED
    BY <1>2, <2>1, <2>2, <2>3, <2>4 DEF Legit
<1> QED
  BY <1>2

LEMMA InitChannel == Init => ChannelInv
<1> SUFFICES ASSUME Init PROVE ChannelInv
  OBVIOUS
<1> USE DEF Init
<1>1. Types
  <2>1. 0 \in Ids /\ NoId \in Ids \cup {NoId}
    BY ChannelAssumption DEF Ids
  <2> QED
    BY <2>1 DEF Types
<1>2. Queues
  <2> DEFINE hello == Envelope("started", 0, NoId, NoId)
  <2>1. 0 \in Ids
    BY ChannelAssumption DEF Ids
  <2>2. \A s \in Sides : hello \in Legit(s) /\ hello \in Message
    BY <2>1, EnvelopeFact DEF Legit
  <2>3. outbox = <<hello>>
        /\ wire = [s \in Sides |-> IF s = Client THEN <<hello>> ELSE <<>>]
        /\ buffer = [s \in Sides |-> <<>>]
    OBVIOUS
  <2> HIDE DEF hello, Init
  <2> QED
    BY <2>2, <2>3, PeerFacts DEF Queues
<1>3. Numbered /\ AnswersOwed
  BY DEF Numbered, AnswersOwed
<1> QED
  BY <1>1, <1>2, <1>3 DEF ChannelInv

\* What is posted joins the messages on their way from its side.
LEMMA PostGood ==
    ASSUME Queues, NEW s \in Sides, NEW ms, Post(s, ms), ms \in Seq(Legit(s)'),
           \A u \in Sides : Legit(u) \subseteq Legit(u)' /\ Legit(u)' \subseteq Message,
           buffer' \in [Sides -> Seq(Message)], \A u \in Sides : buffer'[u] \in Seq(sent'[u])
    PROVE  Queues'
<1>1. outbox \in Seq(Legit(Server)') /\ \A u \in Sides : wire[u] \in Seq(Legit(u)')
  BY SeqGrows, PeerFacts DEF Queues
<1>2. ms \in Seq(Message)
  BY SeqGrows
<1>3. outbox' \in Seq(Legit(Server)')
  <2>1. CASE s = Server /\ outbox' = outbox \o ms
    BY <1>1, <2>1
  <2>2. CASE outbox' = outbox
    BY <1>1, <2>2
  <2> QED
    BY <2>1, <2>2 DEF Post
<1>4. wire' \in [Sides -> Seq(Message)] /\ \A u \in Sides : wire'[u] \in Seq(Legit(u)')
  <2>1. CASE wire' = wire
    BY <1>1, <2>1 DEF Queues
  <2>2. CASE s # Server /\ wire' = [wire EXCEPT ![Client] = wire[Client] \o ms]
    <3>1. s = Client
      BY <2>2 DEF Sides
    <3>2. wire[Client] \o ms \in Seq(Legit(Client)')
      BY <1>1, <3>1, PeerFacts
    <3>3. wire[Client] \o ms \in Seq(Message)
      BY <1>2, PeerFacts DEF Queues
    <3> QED
      BY <1>1, <2>2, <3>2, <3>3 DEF Queues
  <2> QED
    BY <2>1, <2>2 DEF Post
<1> QED
  BY <1>3, <1>4 DEF Queues

\* A message of the side's code gets a fresh number and goes to its buffer
\* and on its way.
LEMMA SendsBuffered ==
    ASSUME ChannelInv, NEW s \in Sides, NEW kind \in {"notice", "request", "response"},
           NEW re \in Ids \cup {NoId}, kind = "response" <=> re # NoId,
           kind = "request" => nextId[s] # 0, kind = "response" => re \in Debts(s),
           SendBuffered(s, kind, re), UNCHANGED <<maxReceived, started, up, resync, received>>,
           waiting' \in [Sides -> SUBSET Ids], handling' \in [Sides -> Seq(Ids)],
           \A u \in Sides : handling'[u] \in Seq(Debts(u))
    PROVE  /\ ChannelInv'
           /\ \E m \in Message : /\ m.kind = kind /\ m.id = nextId[s] /\ m.id \in Ids
                                 /\ sent' = [sent EXCEPT ![s] = sent[s] \cup {m}]
<1> DEFINE m == Envelope(kind, nextId[s], maxReceived[s], re)
<1>1. /\ nextId[s] \in Ids /\ nextId' = [nextId EXCEPT ![s] = nextId[s] + 1]
      /\ buffer' = [buffer EXCEPT ![s] = Append(buffer[s], m)]
      /\ sent' = [sent EXCEPT ![s] = sent[s] \cup {m}] /\ Post(s, <<m>>)
  BY DEF SendBuffered
<1>2. m \in Message /\ m.kind = kind /\ m.id = nextId[s] /\ m.re = re
  <2>1. maxReceived[s] \in Ids \cup {NoId}
    BY DEF ChannelInv, Types
  <2> QED
    BY <1>1, <2>1, EnvelopeFact
<1> HIDE DEF m
<1>3. nextId' \in [Sides -> Nat] /\ nextId'[s] = nextId[s] + 1
      /\ \A u \in Sides : nextId[u] \in Nat /\ nextId[u] <= nextId'[u]
  BY <1>1 DEF ChannelInv, Types
<1>4. /\ sent' \in [Sides -> SUBSET Message] /\ sent'[s] = sent[s] \cup {m}
      /\ \A u \in Sides : u # s => sent'[u] = sent[u]
  BY <1>1, <1>2 DEF ChannelInv, Types
<1>5. Types'
  BY <1>3, <1>4 DEF ChannelInv, Types
<1>6. \A u \in Sides : Legit(u) \subseteq Legit(u)'
  BY <1>2, <1>3, <1>4, LegitGrows
<1>7. Queues'
  <2>1. m \in Legit(s)'
    BY <1>4 DEF Legit
  <2>2. <<m>> \in Seq(Legit(s)')
    BY <2>1
  <2>3. \A u \in Sides : Legit(u)' \subseteq Message
    BY <1>5 DEF Types, Legit
  <2>4. \A u \in Sides : buffer'[u] \in Seq(sent'[u])
    <3>1. ASSUME NEW u \in Sides PROVE buffer[u] \in Seq(sent'[u])
      BY <1>4, SeqGrows DEF ChannelInv, Queues
    <3>2. \A u \in Sides : u # s => buffer'[u] = buffer[u]
      BY <1>1 DEF ChannelInv, Queues
    <3>3. buffer'[s] = Append(buffer[s], m)
      BY <1>1 DEF ChannelInv, Queues
    <3>4. Append(buffer[s], m) \in Seq(sent'[s])
      BY <1>4, <3>1
    <3> QED
      BY <3>1, <3>2, <3>3, <3>4
  <2>5. buffer' \in [Sides -> Seq(Message)]
    BY <1>1, <1>2 DEF ChannelInv, Queues
  <2> QED
    BY <1>1, <1>6, <2>2, <2>3, <2>4, <2>5, PostGood DEF ChannelInv
<1>8. Numbered'
  <2>1. ASSUME NEW u \in Sides, NEW n \in sent'[u]
        PROVE  /\ n.id < nextId'[u] /\ n.kind \in {"notice", "request", "response"}
               /\ n.kind = "response" <=> n.re # NoId
               /\ n.kind = "request" => n.id # 0
               /\ \A k \in sent'[u] : n.id = k.id => n = k
    <3>1. CASE n \in sent[u] /\ u # s
      BY <1>3, <1>4, <3>1, <1>1 DEF ChannelInv, Numbered
    <3>2. CASE n \in sent[u] /\ u = s
      <4>1. n.id < nextId[s]
        BY <3>2 DEF ChannelInv, Numbered
      <4>2. n.id \in Nat
        BY <3>2, IdsFact DEF ChannelInv, Types, Message
      <4> QED
        BY <1>2, <1>3, <1>4, <3>2, <4>1, <4>2 DEF ChannelInv, Numbered
    <3>3. CASE n = m /\ u = s
      <4>1. \A k \in sent[s] : k.id # nextId[s]
        <5>1. \A k \in sent[s] : k.id \in Nat /\ k.id < nextId[s]
          BY IdsFact DEF ChannelInv, Types, Message, Numbered
        <5> QED
          BY <1>3, <5>1
      <4> QED
        BY <1>2, <1>3, <1>4, <3>3, <4>1
    <3> QED
      BY <1>4, <2>1, <3>1, <3>2, <3>3
  <2>2. ASSUME NEW u \in Sides PROVE started'[u] => nextId'[u] # 0
    BY <1>1, <1>3 DEF ChannelInv, Numbered, Types
  <2>3. ASSUME NEW u \in Sides, NEW id \in received'[u] PROVE id < nextId'[Peer(u)]
    <3>1. id \in Nat /\ id < nextId[Peer(u)] /\ Peer(u) \in Sides
      BY <2>3, IdsFact, PeerFacts DEF ChannelInv, Numbered, Types
    <3> QED
      BY <1>3, <3>1
  <2> QED
    BY <2>1, <2>2, <2>3 DEF Numbered
<1>9. AnswersOwed'
  <2>1. \A u \in Sides : Debts(u) \subseteq Debts(u)'
    <3>1. \A u \in Sides : sent[Peer(u)] \subseteq sent'[Peer(u)]
      BY <1>4, PeerFacts
    <3> QED
      BY <3>1 DEF Debts, Of
  <2>2. \A u \in Sides : \A n \in sent'[u] : n.kind = "response" => n.re \in Debts(u)'
    BY <1>2, <1>4, <2>1 DEF ChannelInv, AnswersOwed
  <2>3. \A u \in Sides : handling'[u] \in Seq(Debts(u)')
    BY <2>1, SeqGrows
  <2> QED
    BY <2>2, <2>3 DEF AnswersOwed
<1> QED
  BY <1>1, <1>2, <1>5, <1>7, <1>8, <1>9 DEF ChannelInv

LEMMA SendKeeps ==
    ASSUME ChannelInv, NEW s \in Sides, NEW kind \in Kinds, Send(s, kind)
    PROVE  /\ ChannelInv'
           /\ \E m \in Message : /\ m.kind = kind /\ m.id = nextId[s] /\ m.id \in Ids
                                 /\ sent' = [sent EXCEPT ![s] = sent[s] \cup {m}]
<1>1. kind \in {"notice", "request"}
  BY ChannelAssumption
<1>2. kind = "request" => nextId[s] # 0
  BY DEF Send, CanSend, ChannelInv, Numbered
<1>3. /\ SendBuffered(s, kind, NoId)
      /\ waiting' = [waiting EXCEPT ![s] =
                        IF kind = "request" THEN waiting[s] \cup {nextId[s]} ELSE waiting[s]]
      /\ UNCHANGED <<maxReceived, started, up, resync, drops, handling, received>>
  BY DEF Send
<1>4. nextId[s] \in Ids
  BY <1>3 DEF SendBuffered
<1>5. waiting' \in [Sides -> SUBSET Ids]
  BY <1>3, <1>4 DEF ChannelInv, Types
<1>6. /\ handling' \in [Sides -> Seq(Ids)]
      /\ \A u \in Sides : handling'[u] \in Seq(Debts(u))
  BY <1>3 DEF ChannelInv, Types, AnswersOwed
<1>7. /\ kind \in {"notice", "request", "response"} /\ NoId \in Ids \cup {NoId}
      /\ kind = "response" <=> NoId # NoId
      /\ kind = "response" => NoId \in Debts(s)
  BY <1>1
<1>8. UNCHANGED <<maxReceived, started, up, resync, received>>
  BY <1>3
<1> QED
  BY <1>2, <1>3, <1>5, <1>6, <1>7, <1>8, SendsBuffered, Zenon

LEMMA RespondKeeps ==
    ASSUME ChannelInv, NEW s \in Sides, Respond(s)
    PROVE  /\ ChannelInv'
           /\ \E m \in Message : /\ m.kind = "response" /\ m.id = nextId[s] /\ m.id \in Ids
                                 /\ sent' = [sent EXCEPT ![s] = sent[s] \cup {m}]
<1>1. PICK i \in DOMAIN handling[s] :
        /\ SendBuffered(s, "response", handling[s][i])
        /\ handling' = [handling EXCEPT ![s] = RemoveAt(handling[s], i)]
        /\ UNCHANGED <<maxReceived, waiting, started, up, resync, drops, sends, received>>
  BY DEF Respond
<1>2. handling[s] \in Seq(Ids) /\ i \in 1 .. Len(handling[s])
  BY <1>1 DEF ChannelInv, Types
<1>3. handling[s] \in Seq(Debts(s)) /\ handling[s][i] \in Debts(s) /\ Debts(s) \subseteq Ids
  <2>1. handling[s] \in Seq(Debts(s)) /\ Debts(s) \subseteq Ids
    BY DEF ChannelInv, Types, AnswersOwed, Debts
  <2> QED
    BY <1>2, <2>1
<1>4. RemoveAt(handling[s], i) \in Seq(Debts(s))
  <2> DEFINE q == handling[s]
             owed == Debts(s)
  <2>1. q \in Seq(owed) /\ i \in 1 .. Len(q)
    BY <1>2, <1>3
  <2> HIDE DEF q, owed
  <2>2. SubSeq(q, 1, i - 1) \in Seq(owed) /\ SubSeq(q, i + 1, Len(q)) \in Seq(owed)
    BY <2>1
  <2>3. RemoveAt(q, i) \in Seq(owed)
    BY <2>2 DEF RemoveAt
  <2> QED
    BY <2>3 DEF q, owed
<1>5. RemoveAt(handling[s], i) \in Seq(Ids)
  BY <1>3, <1>4, SeqGrows
<1>6. handling' \in [Sides -> Seq(Ids)]
  BY <1>1, <1>5 DEF ChannelInv, Types
<1>7. \A u \in Sides : handling'[u] \in Seq(Debts(u))
  BY <1>1, <1>4 DEF ChannelInv, Types, AnswersOwed
<1>8. handling[s][i] \in Ids \cup {NoId} /\ handling[s][i] # NoId
  BY <1>3, IdsFact
<1>9. waiting' \in [Sides -> SUBSET Ids]
  BY <1>1 DEF ChannelInv, Types
<1> QED
  BY <1>1, <1>3, <1>6, <1>7, <1>8, <1>9, SendsBuffered

-----------------------------------------------------------------------------
(* Receiving                                                               *)

LEMMA UnackedGood ==
    ASSUME NEW S, NEW ms \in Seq(S), NEW ack PROVE Unacked(ms, ack) \in Seq(S)
<1> DEFINE front == {i \in DOMAIN ms : \A j \in 1 .. i : ms[j].id <= ack}
<1>1. front \subseteq 1 .. Len(ms)
  OBVIOUS
<1>2. Cardinality(front) \in Nat
  <2>1. IsFiniteSet(1 .. Len(ms))
    BY FS_Interval
  <2> HIDE DEF front
  <2> QED
    BY <1>1, <2>1, FS_Subset, FS_CardinalityType
<1> HIDE DEF front
<1>3. SubSeq(ms, Cardinality(front) + 1, Len(ms)) \in Seq(S)
  BY <1>2
<1> QED
  BY <1>3 DEF Unacked, front

\* A side takes a message off the wire and answers at once.
LEMMA TakeGood ==
    ASSUME Queues, NEW s \in Sides, wire[Peer(s)] # <<>>, NEW answers \in Seq(Legit(s)'),
           Take(s, answers), sent' = sent,
           buffer' = [buffer EXCEPT ![s] = Acknowledged(s, Head(wire[Peer(s)]))],
           \A u \in Sides : Legit(u) \subseteq Legit(u)' /\ Legit(u)' \subseteq Message
    PROVE  Queues'
<1> DEFINE rest == [wire EXCEPT ![Peer(s)] = Tail(wire[Peer(s)])]
<1>1. outbox \in Seq(Legit(Server)') /\ \A u \in Sides : wire[u] \in Seq(Legit(u)')
  BY SeqGrows, PeerFacts DEF Queues
<1>2. Tail(wire[Peer(s)]) \in Seq(Legit(Peer(s))') /\ Tail(wire[Peer(s)]) \in Seq(Message)
  BY <1>1, PeerFacts DEF Queues
<1>3. rest \in [Sides -> Seq(Message)] /\ \A u \in Sides : rest[u] \in Seq(Legit(u)')
  BY <1>1, <1>2 DEF Queues
<1>4. \A u \in Sides : buffer'[u] \in Seq(sent'[u])
  <2>1. Acknowledged(s, Head(wire[Peer(s)])) \in Seq(sent[s])
    BY UnackedGood DEF Acknowledged, Queues
  <2> QED
    BY <2>1 DEF Queues
<1>5. buffer' \in [Sides -> Seq(Message)]
  <2>1. Acknowledged(s, Head(wire[Peer(s)])) \in Seq(Message)
    BY UnackedGood DEF Acknowledged, Queues
  <2> QED
    BY <2>1 DEF Queues
<1>6. CASE s = Server
  <2>1. wire' = rest /\ outbox' = outbox \o answers
    BY <1>6 DEF Take
  <2>2. outbox' \in Seq(Legit(Server)')
    BY <1>1, <1>6, <2>1
  <2>3. wire' \in [Sides -> Seq(Message)] /\ \A u \in Sides : wire'[u] \in Seq(Legit(u)')
    BY <1>3, <2>1
  <2> QED
    BY <1>4, <1>5, <2>2, <2>3 DEF Queues
<1>7. CASE s # Server
  <2>1. s = Client /\ outbox' = outbox
    BY <1>7 DEF Take, Sides
  <2>2. wire' = rest \/ wire' = [rest EXCEPT ![Client] = rest[Client] \o answers]
    BY <1>7 DEF Take
  <2> HIDE DEF rest
  <2>3. rest[Client] \o answers \in Seq(Legit(Client)') /\ answers \in Seq(Message)
    BY <1>3, <2>1, PeerFacts, SeqGrows
  <2>4. rest[Client] \o answers \in Seq(Message)
    BY <1>3, <2>3, PeerFacts
  <2>5. wire' \in [Sides -> Seq(Message)] /\ \A u \in Sides : wire'[u] \in Seq(Legit(u)')
    BY <1>3, <2>2, <2>3, <2>4
  <2> QED
    BY <1>1, <1>4, <1>5, <2>1, <2>5, PeerFacts DEF Queues
<1> QED
  BY <1>6, <1>7

LEMMA HeadLegit ==
    ASSUME ChannelInv, NEW s \in Sides, wire[Peer(s)] # <<>>
    PROVE  LET m == Head(wire[Peer(s)]) IN m \in Legit(Peer(s)) /\ m \in Message
BY PeerFacts DEF ChannelInv, Queues

LEMMA DebtsStay ==
    ASSUME sent' = sent, \A u \in Sides : received[u] \subseteq received'[u]
    PROVE  \A u \in Sides : Debts(u) \subseteq Debts(u)'
BY DEF Debts, Of

LEMMA ControlKeeps ==
    ASSUME ChannelInv, NEW s \in Sides, wire[Peer(s)] # <<>>,
           NEW m, m = Head(wire[Peer(s)]), NEW id, id = nextId[s], ReceiveControl(s, m),
           buffer' = [buffer EXCEPT ![s] = Acknowledged(s, Head(wire[Peer(s)]))],
           UNCHANGED <<up, resync, drops, sends, sent>>
    PROVE  ChannelInv'
<1> DEFINE ack == Envelope("ack", id, NoId, m.id)
           answers == IF m.kind = "flush" THEN Append(Acknowledged(s, m), ack) ELSE <<ack>>
<1>1. /\ m.kind \in {"flush", "started"} /\ id \in Ids
      /\ nextId' = [nextId EXCEPT ![s] = nextId[s] + 1]
      /\ started' = [started EXCEPT ![s] = started[s] \/ m.kind = "started"]
      /\ Take(s, answers) /\ UNCHANGED <<maxReceived, waiting, handling, received>>
  BY DEF ReceiveControl
<1>2. m \in Legit(Peer(s)) /\ m.id \in Ids /\ m \in Message
  BY HeadLegit DEF Message
<1>3. ack \in Message /\ ack.kind = "ack" /\ ack.id = id /\ ack.re = m.id
  <2>1. NoId \in Ids \cup {NoId} /\ m.id \in Ids \cup {NoId} /\ id \in Ids
    BY <1>1, <1>2
  <2> QED
    BY <2>1 DEF Envelope, Message
<1>4. m.id = 0 \/ Spare(Peer(s), m.id)
  BY <1>1, <1>2, PeerFacts DEF Legit, ChannelInv, Numbered
<1>5. Acknowledged(s, m) \in Seq(sent[s])
  BY UnackedGood DEF Acknowledged, ChannelInv, Queues
<1> HIDE DEF ack
<1>6. /\ nextId' \in [Sides -> Nat]
      /\ nextId'[s] = nextId[s] + 1
      /\ \A u \in Sides : nextId[u] \in Nat /\ nextId[u] <= nextId'[u]
      /\ \A u \in Sides : u # s => nextId'[u] = nextId[u]
  BY <1>1 DEF ChannelInv, Types
<1>7. \A u \in Sides : Legit(u) \subseteq Legit(u)'
  BY <1>6, LegitGrows
<1>8. Types'
  BY <1>1, <1>6 DEF ChannelInv, Types
<1>9. ack \in Legit(s)'
  <2>1. Spare(s, id)'
    <3>1. \A n \in sent[s] : n.id < id /\ n.id \in Nat
      BY IdsFact DEF ChannelInv, Types, Message, Numbered
    <3> QED
      BY <1>6, <3>1 DEF Spare
  <2>2. m.id = 0 \/ Spare(Peer(s), m.id)'
    BY <1>4, <1>6, PeerFacts DEF Spare
  <2> QED
    BY <1>2, <1>3, <2>1, <2>2, IdsFact DEF Legit
<1>10. answers \in Seq(Legit(s)')
  <2>1. sent[s] \subseteq Legit(s)'
    BY DEF Legit
  <2>2. Acknowledged(s, m) \in Seq(Legit(s)')
    BY <1>5, <2>1, SeqGrows
  <2> QED
    BY <1>9, <2>2
<1>11. Queues'
  <2>1. \A u \in Sides : Legit(u)' \subseteq Message
    BY <1>8 DEF Types, Legit
  <2> QED
    BY <1>1, <1>7, <1>10, <2>1, TakeGood DEF ChannelInv
<1>12. Numbered'
  <2>1. ASSUME NEW u \in Sides, NEW n \in sent[u] PROVE n.id < nextId'[u]
    <3>1. n.id \in Nat /\ n.id < nextId[u]
      BY IdsFact DEF ChannelInv, Types, Message, Numbered
    <3> QED
      BY <1>6, <3>1
  <2>2. ASSUME NEW u \in Sides PROVE started'[u] => nextId'[u] # 0
    <3>1. CASE u = s
      BY <1>6, <3>1
    <3>2. CASE u # s
      BY <1>1, <1>6, <3>2 DEF ChannelInv, Types, Numbered
    <3> QED
      BY <3>1, <3>2
  <2>3. ASSUME NEW u \in Sides, NEW n \in received'[u] PROVE n < nextId'[Peer(u)]
    <3>1. n \in Nat /\ n < nextId[Peer(u)] /\ Peer(u) \in Sides
      BY <1>1, <2>3, IdsFact, PeerFacts DEF ChannelInv, Numbered, Types
    <3> QED
      BY <1>6, <3>1
  <2> QED
    BY <2>1, <2>2, <2>3 DEF ChannelInv, Numbered
<1>13. AnswersOwed'
  BY <1>1 DEF ChannelInv, AnswersOwed, Debts, Of
<1> QED
  BY <1>8, <1>11, <1>12, <1>13 DEF ChannelInv

\* An answer or a message of the peer's code is received: the rest of the
\* channel's promises follow from where it came from.
LEMMA ReceivedKeeps ==
    ASSUME ChannelInv, NEW s \in Sides, wire[Peer(s)] # <<>>,
           NEW m, m = Head(wire[Peer(s)]), m.kind \notin {"flush", "started"},
           Take(s, <<>>), UNCHANGED <<nextId, started, up, resync, drops, sends, sent>>,
           buffer' = [buffer EXCEPT ![s] = Acknowledged(s, Head(wire[Peer(s)]))],
           maxReceived' = [maxReceived EXCEPT ![s] = m.id],
           received' = [received EXCEPT ![s] = received[s] \cup {m.id}],
           waiting' \in [Sides -> SUBSET Ids], handling' \in [Sides -> Seq(Ids)],
           \A u \in Sides : handling'[u] \in Seq(Debts(u)')
    PROVE  ChannelInv'
<1>1. m \in Legit(Peer(s)) /\ m \in Message /\ m.id \in Ids
  BY HeadLegit DEF Message
<1>2. m.id < nextId[Peer(s)]
  BY <1>1, PeerFacts DEF Legit, Spare, ChannelInv, Numbered
<1>3. /\ received' \in [Sides -> SUBSET Ids]
      /\ received'[s] = received[s] \cup {m.id}
      /\ \A u \in Sides : received[u] \subseteq received'[u]
      /\ \A u \in Sides : u # s => received'[u] = received[u]
  BY <1>1 DEF ChannelInv, Types
<1>4. Types'
  BY <1>1, <1>3 DEF ChannelInv, Types
<1>5. Queues'
  <2>1. \A u \in Sides : Legit(u)' = Legit(u)
    BY DEF Legit, Spare
  <2>2. \A u \in Sides : Legit(u) \subseteq Message
    BY DEF ChannelInv, Types, Legit
  <2>3. <<>> \in Seq(Legit(s)')
    OBVIOUS
  <2> QED
    BY <2>1, <2>2, <2>3, TakeGood DEF ChannelInv
<1>6. Numbered'
  BY <1>2, <1>3 DEF ChannelInv, Numbered
<1>7. AnswersOwed'
  BY <1>3, DebtsStay DEF ChannelInv, AnswersOwed
<1> QED
  BY <1>4, <1>5, <1>6, <1>7 DEF ChannelInv

LEMMA AnswerKeeps ==
    ASSUME ChannelInv, NEW s \in Sides, wire[Peer(s)] # <<>>,
           ReceiveAnswer(s, Head(wire[Peer(s)])),
           buffer' = [buffer EXCEPT ![s] = Acknowledged(s, Head(wire[Peer(s)]))],
           UNCHANGED <<up, resync, drops, sends, sent>>
    PROVE  ChannelInv'
<1> DEFINE m == Head(wire[Peer(s)])
<1>1. /\ m.re # NoId /\ maxReceived' = [maxReceived EXCEPT ![s] = m.id]
      /\ waiting' = [waiting EXCEPT ![s] = waiting[s] \ {m.re}]
      /\ received' = [received EXCEPT ![s] = received[s] \cup {m.id}]
      /\ Take(s, <<>>) /\ UNCHANGED <<nextId, started, handling>>
  BY DEF ReceiveAnswer
<1>2. m \in Legit(Peer(s)) /\ m.id \in Ids
  BY HeadLegit DEF Message
<1>3. m.kind \notin {"flush", "started"}
  BY <1>1, <1>2, PeerFacts DEF Legit, ChannelInv, Numbered
<1>4. \A u \in Sides : received[u] \subseteq received'[u]
  BY <1>1 DEF ChannelInv, Types
<1>5. \A u \in Sides : handling'[u] \in Seq(Debts(u)')
  BY <1>1, <1>4, DebtsStay, SeqGrows DEF ChannelInv, AnswersOwed
<1>6. waiting' \in [Sides -> SUBSET Ids] /\ handling' \in [Sides -> Seq(Ids)]
  BY <1>1 DEF ChannelInv, Types
<1> QED
  BY <1>1, <1>3, <1>5, <1>6, ReceivedKeeps

LEMMA PayloadKeeps ==
    ASSUME ChannelInv, NEW s \in Sides, wire[Peer(s)] # <<>>,
           NEW m, m = Head(wire[Peer(s)]), ReceivePayload(s, m),
           buffer' = [buffer EXCEPT ![s] = Acknowledged(s, Head(wire[Peer(s)]))],
           UNCHANGED <<up, resync, drops, sends, sent>>
    PROVE  ChannelInv'
<1>1. /\ m.kind \in {"notice", "request"} /\ maxReceived' = [maxReceived EXCEPT ![s] = m.id]
      /\ handling' = [handling EXCEPT ![s] =
                         IF m.kind = "request" THEN Append(handling[s], m.id) ELSE handling[s]]
      /\ received' = [received EXCEPT ![s] = received[s] \cup {m.id}]
      /\ Take(s, <<>>) /\ UNCHANGED <<nextId, waiting, started>>
  BY DEF ReceivePayload
<1>2. m \in Legit(Peer(s)) /\ m.id \in Ids
  BY HeadLegit DEF Message
<1>3. m \in sent[Peer(s)]
  BY <1>1, <1>2 DEF Legit
<1>4. (\A u \in Sides : received[u] \subseteq received'[u]) /\ m.id \in received'[s]
  BY <1>1 DEF ChannelInv, Types
<1>5. m.kind = "request" => m.id \in Debts(s)'
  BY <1>3, <1>4, PeerFacts DEF Debts, Of
<1>6. handling' \in [Sides -> Seq(Ids)] /\ waiting' \in [Sides -> SUBSET Ids]
  BY <1>1, <1>2 DEF ChannelInv, Types
<1>7. ASSUME NEW u \in Sides PROVE handling'[u] \in Seq(Debts(u)')
  <2>1. handling[u] \in Seq(Debts(u)')
    BY <1>4, DebtsStay, SeqGrows DEF ChannelInv, AnswersOwed
  <2>2. \/ handling'[u] = handling[u]
        \/ u = s /\ m.kind = "request" /\ handling'[u] = Append(handling[u], m.id)
    BY <1>1 DEF ChannelInv, Types
  <2>3. CASE handling'[u] = handling[u]
    BY <2>1, <2>3
  <2>4. CASE u = s /\ m.kind = "request" /\ handling'[u] = Append(handling[u], m.id)
    <3> DEFINE debts == Debts(u)'
    <3>1. handling[u] \in Seq(debts) /\ m.id \in debts
      BY <1>5, <2>1, <2>4
    <3> HIDE DEF debts
    <3>2. Append(handling[u], m.id) \in Seq(debts)
      BY <3>1
    <3> QED
      BY <2>4, <3>2 DEF debts
  <2> QED
    BY <2>2, <2>3, <2>4
<1> QED
  BY <1>1, <1>6, <1>7, ReceivedKeeps

LEMMA ReceiveKeeps == ASSUME ChannelInv, NEW s \in Sides, Receive(s) PROVE ChannelInv'
<1>1. PICK m : m = Head(wire[Peer(s)])
  OBVIOUS
<1>2. PICK id : id = nextId[s]
  OBVIOUS
<1>3. /\ wire[Peer(s)] # <<>>
      /\ buffer' = [buffer EXCEPT ![s] = Acknowledged(s, Head(wire[Peer(s)]))]
      /\ ReceiveControl(s, m) \/ ReceiveAnswer(s, m) \/ ReceivePayload(s, m)
      /\ UNCHANGED <<up, resync, drops, sends, sent>>
  BY <1>1 DEF Receive
<1> QED
  BY <1>1, <1>2, <1>3, ControlKeeps, AnswerKeeps, PayloadKeeps

-----------------------------------------------------------------------------
(* Connections                                                             *)

\* Steps that send and receive nothing at the ends leave what the ends know.
LEMMA EndsKept ==
    ASSUME ChannelInv, UNCHANGED <<nextId, maxReceived, waiting, started, handling, sent, received>>,
           up' \in BOOLEAN, resync' \in Ids \cup {NoId}
    PROVE  /\ Types' /\ Numbered' /\ AnswersOwed'
           /\ \A s \in Sides : Legit(s)' = Legit(s) /\ Legit(s) \subseteq Message
<1>1. Types'
  BY DEF ChannelInv, Types
<1>2. Numbered' /\ AnswersOwed'
  BY DEF ChannelInv, Numbered, AnswersOwed, Debts, Of
<1>3. \A s \in Sides : Legit(s)' = Legit(s)
  BY DEF Legit, Spare
<1>4. \A s \in Sides : Legit(s) \subseteq Message
  BY DEF ChannelInv, Types, Legit
<1> QED
  BY <1>1, <1>2, <1>3, <1>4

LEMMA TransmitKeeps == ChannelInv /\ Transmit => ChannelInv'
<1> SUFFICES ASSUME ChannelInv, Transmit PROVE ChannelInv'
  OBVIOUS
<1>1. /\ outbox # <<>> /\ outbox' = Tail(outbox)
      /\ wire' = [wire EXCEPT ![Server] = Append(wire[Server], Head(outbox))]
      /\ UNCHANGED <<nextId, maxReceived, buffer, waiting, started, up, resync,
                     handling, sent, received>>
  BY DEF Transmit
<1>2. /\ Types' /\ Numbered' /\ AnswersOwed'
      /\ \A s \in Sides : Legit(s)' = Legit(s) /\ Legit(s) \subseteq Message
  BY <1>1, EndsKept DEF ChannelInv, Types
<1>3. Tail(outbox) \in Seq(Legit(Server)) /\ Head(outbox) \in Legit(Server)
  BY <1>1 DEF ChannelInv, Queues
<1>4. wire' \in [Sides -> Seq(Message)] /\ \A s \in Sides : wire'[s] \in Seq(Legit(s))
  BY <1>1, <1>2, <1>3, PeerFacts DEF ChannelInv, Queues
<1>5. Queues'
  BY <1>1, <1>2, <1>3, <1>4, PeerFacts DEF ChannelInv, Queues
<1> QED
  BY <1>2, <1>5 DEF ChannelInv

LEMMA DropKeeps == ChannelInv /\ Drop => ChannelInv'
<1> SUFFICES ASSUME ChannelInv, Drop PROVE ChannelInv'
  OBVIOUS
<1>1. /\ up' = FALSE
      /\ UNCHANGED <<nextId, maxReceived, buffer, waiting, started, outbox, resync,
                     handling, sent, received>>
  BY DEF Drop
<1>2. PICK kept \in [Sides -> 0 .. (Len(wire[Client]) + Len(wire[Server]))] :
        /\ \A s \in Sides : kept[s] <= Len(wire[s])
        /\ wire' = [s \in Sides |-> SubSeq(wire[s], 1, kept[s])]
  BY DEF Drop
<1>3. /\ Types' /\ Numbered' /\ AnswersOwed'
      /\ \A s \in Sides : Legit(s)' = Legit(s) /\ Legit(s) \subseteq Message
  BY <1>1, EndsKept DEF ChannelInv, Types
<1>4. ASSUME NEW s \in Sides
      PROVE  SubSeq(wire[s], 1, kept[s]) \in Seq(Legit(s))
             /\ SubSeq(wire[s], 1, kept[s]) \in Seq(Message)
  <2>1. kept[s] \in 0 .. Len(wire[s]) /\ wire[s] \in Seq(Legit(s)) /\ wire[s] \in Seq(Message)
    <3>1. wire[s] \in Seq(Legit(s)) /\ wire[s] \in Seq(Message) /\ Len(wire[s]) \in Nat
      BY <1>4 DEF ChannelInv, Queues
    <3>2. Len(wire[Client]) \in Nat /\ Len(wire[Server]) \in Nat
      BY PeerFacts DEF ChannelInv, Queues
    <3>3. kept[s] \in Nat /\ kept[s] <= Len(wire[s])
      <4> DEFINE most == Len(wire[Client]) + Len(wire[Server])
      <4>1. most \in Nat
        <5>1. \A a, b \in Nat : a + b \in Nat
          OBVIOUS
        <5> QED
          BY <3>2, <5>1, Zenon
      <4>2. kept \in [Sides -> 0 .. most]
        BY <1>2
      <4> HIDE DEF most
      <4>3. kept[s] \in Nat
        BY <4>1, <4>2
      <4> QED
        BY <1>2, <4>3
    <3> QED
      BY <3>1, <3>3
  <2>2. ASSUME NEW S, wire[s] \in Seq(S) PROVE SubSeq(wire[s], 1, kept[s]) \in Seq(S)
    BY <2>1, <2>2
  <2> QED
    BY <2>1, <2>2
<1>5. Queues'
  BY <1>1, <1>2, <1>3, <1>4, PeerFacts DEF ChannelInv, Queues
<1> QED
  BY <1>3, <1>5 DEF ChannelInv

LEMMA ResyncKeeps == ChannelInv /\ Resync => ChannelInv'
<1> SUFFICES ASSUME ChannelInv, Resync PROVE ChannelInv'
  OBVIOUS
<1>1. /\ Post(Client, buffer[Client]) /\ resync' = NoId
      /\ UNCHANGED <<nextId, maxReceived, buffer, waiting, started, up,
                     handling, sent, received>>
  BY DEF Resync
<1>2. /\ Types' /\ Numbered' /\ AnswersOwed'
      /\ \A s \in Sides : Legit(s)' = Legit(s) /\ Legit(s) \subseteq Message
  BY <1>1, EndsKept DEF ChannelInv, Types
<1>3. buffer[Client] \in Seq(Legit(Client)')
  <2>1. sent[Client] \subseteq Legit(Client)'
    BY <1>1 DEF Legit
  <2> QED
    BY <2>1, SeqGrows, PeerFacts, SMTT(30) DEF ChannelInv, Queues
<1>4. buffer' \in [Sides -> Seq(Message)] /\ \A s \in Sides : buffer'[s] \in Seq(sent'[s])
  BY <1>1 DEF ChannelInv, Queues
<1>5. Queues'
  BY <1>1, <1>2, <1>3, <1>4, PostGood, PeerFacts DEF ChannelInv
<1> QED
  BY <1>2, <1>5 DEF ChannelInv

LEMMA ReconnectKeeps == ChannelInv /\ Reconnect => ChannelInv'
<1> SUFFICES ASSUME ChannelInv, Reconnect, NEW id, id = nextId[Client] PROVE ChannelInv'
  OBVIOUS
<1> DEFINE flush == Envelope("flush", id, maxReceived[Client], NoId)
           hello == Envelope("started", 0, NoId, NoId)
<1>1. /\ id \in Ids /\ up' = TRUE /\ nextId' = [nextId EXCEPT ![Client] = id + 1]
      /\ waiting' = [waiting EXCEPT ![Client] = waiting[Client] \cup {id}]
      /\ resync' = id
      /\ wire' = [wire EXCEPT ![Server] = <<>>, ![Client] = wire[Client] \o <<flush, hello>>]
      /\ UNCHANGED <<maxReceived, buffer, started, outbox, handling, sent, received>>
  BY DEF Reconnect
<1>2. /\ flush \in Message /\ flush.kind = "flush" /\ flush.id = id /\ flush.re = NoId
      /\ hello \in Message /\ hello.kind = "started" /\ hello.id = 0 /\ hello.re = NoId
  <2>1. maxReceived[Client] \in Ids /\ 0 \in Ids
    BY PeerFacts, ChannelAssumption DEF ChannelInv, Types, Ids
  <2> QED
    BY <1>1, <2>1 DEF Envelope, Message
<1> HIDE DEF flush, hello
<1>3. /\ nextId' \in [Sides -> Nat] /\ nextId'[Client] = id + 1 /\ id \in Nat
      /\ \A u \in Sides : nextId[u] \in Nat /\ nextId[u] <= nextId'[u]
      /\ \A u \in Sides : u # Client => nextId'[u] = nextId[u]
  BY <1>1, PeerFacts DEF ChannelInv, Types
<1>4. \A u \in Sides : Legit(u) \subseteq Legit(u)'
  BY <1>1, <1>3, LegitGrows
<1>5. Types'
  BY <1>1, <1>3, PeerFacts DEF ChannelInv, Types
<1>6. flush \in Legit(Client)' /\ hello \in Legit(Client)'
  <2>1. Spare(Client, id)'
    <3>1. \A n \in sent[Client] : n.id < id /\ n.id \in Nat
      BY IdsFact, PeerFacts DEF ChannelInv, Types, Message, Numbered
    <3> QED
      BY <1>1, <1>3, <3>1 DEF Spare
  <2> QED
    BY <1>2, <2>1 DEF Legit
<1>7. Queues'
  <2>1. wire[Client] \in Seq(Legit(Client)') /\ wire[Client] \in Seq(Message)
    BY <1>4, SeqGrows, PeerFacts DEF ChannelInv, Queues
  <2>2. <<flush, hello>> \in Seq(Legit(Client)') /\ <<flush, hello>> \in Seq(Message)
    BY <1>2, <1>6
  <2>3. wire[Client] \o <<flush, hello>> \in Seq(Legit(Client)')
        /\ wire[Client] \o <<flush, hello>> \in Seq(Message)
    BY <2>1, <2>2
  <2>4. /\ wire'[Client] = wire[Client] \o <<flush, hello>> /\ wire'[Server] = <<>>
        /\ wire' \in [Sides -> Seq(Message)]
    <3> DEFINE q == wire[Client] \o <<flush, hello>>
    <3>1. wire' = [wire EXCEPT ![Server] = <<>>, ![Client] = q] /\ wire \in [Sides -> Seq(Message)]
      BY <1>1 DEF ChannelInv, Queues
    <3>2. q \in Seq(Message) /\ <<>> \in Seq(Message)
      BY <2>3
    <3> HIDE DEF q
    <3>3. [wire EXCEPT ![Server] = <<>>] \in [Sides -> Seq(Message)]
      BY <3>1, <3>2
    <3>4. wire'[Client] = q /\ wire'[Server] = <<>> /\ wire' \in [Sides -> Seq(Message)]
      BY <3>1, <3>2, <3>3, PeerFacts
    <3> QED
      BY <3>4 DEF q
  <2>5. ASSUME NEW u \in Sides PROVE wire'[u] \in Seq(Legit(u)')
    <3>1. CASE u = Client
      BY <2>3, <2>4, <3>1
    <3>2. CASE u = Server
      BY <2>4, <3>2
    <3> QED
      BY <3>1, <3>2 DEF Sides
  <2>6. outbox' \in Seq(Legit(Server)')
    BY <1>1, <1>4, SeqGrows, PeerFacts DEF ChannelInv, Queues
  <2> QED
    BY <1>1, <2>4, <2>5, <2>6 DEF ChannelInv, Queues
<1>8. Numbered'
  <2>1. ASSUME NEW u \in Sides, NEW n \in sent[u] PROVE n.id < nextId'[u]
    <3>1. n.id \in Nat /\ n.id < nextId[u]
      BY IdsFact DEF ChannelInv, Types, Message, Numbered
    <3> QED
      BY <1>3, <3>1
  <2>2. ASSUME NEW u \in Sides PROVE started'[u] => nextId'[u] # 0
    BY <1>1, <1>3 DEF ChannelInv, Numbered
  <2>3. ASSUME NEW u \in Sides, NEW n \in received'[u] PROVE n < nextId'[Peer(u)]
    <3>1. n \in Nat /\ n < nextId[Peer(u)] /\ Peer(u) \in Sides
      BY <1>1, <2>3, IdsFact, PeerFacts DEF ChannelInv, Numbered, Types
    <3> QED
      BY <1>3, <3>1
  <2> QED
    BY <1>1, <2>1, <2>2, <2>3 DEF ChannelInv, Numbered
<1>9. AnswersOwed'
  BY <1>1 DEF ChannelInv, AnswersOwed, Debts, Of
<1> QED
  BY <1>5, <1>7, <1>8, <1>9 DEF ChannelInv

LEMMA NextChannel == ChannelInv /\ [Next]_vars => ChannelInv'
<1> SUFFICES ASSUME ChannelInv, [Next]_vars PROVE ChannelInv'
  OBVIOUS
<1>1. CASE UNCHANGED vars
  <2>1. /\ Types' /\ Numbered' /\ AnswersOwed'
        /\ \A s \in Sides : Legit(s)' = Legit(s) /\ Legit(s) \subseteq Message
    BY <1>1, EndsKept DEF vars, linkVars, ChannelInv, Types
  <2>2. Queues'
    BY <1>1, <2>1, PeerFacts DEF vars, linkVars, ChannelInv, Queues
  <2> QED
    BY <2>1, <2>2 DEF ChannelInv
<1> QED
  BY <1>1, SendKeeps, RespondKeeps, ReceiveKeeps, TransmitKeeps, DropKeeps, ReconnectKeeps,
     ResyncKeeps DEF Next

-----------------------------------------------------------------------------
(* What each step means to those who use the session.                      *)

Payload(s) == Of(s, "notice") \cup Of(s, "request")

\* The abstract steps, said of the channel's own state.
LEMMA AsNotify ==
    ASSUME NEW s \in Sides, NEW id \in Ids, id \notin Payload(s),
           \A u \in Sides : /\ Of(u, "request")' = Of(u, "request")
                            /\ Of(u, "notice")' = IF u = s THEN Of(u, "notice") \cup {id}
                                                  ELSE Of(u, "notice")
                            /\ (received[u] \cap Payload(Peer(u)))' = received[u] \cap Payload(Peer(u))
                            /\ (Of(u, "request") \ waiting[u])' = Of(u, "request") \ waiting[u]
    PROVE  Calls!Next
<1>1. Calls!Notify(s, id)
  BY DEF Calls!Notify, Payload
<1> QED
  BY <1>1 DEF Calls!Next, Calls!Sides, Sides

LEMMA AsAsk ==
    ASSUME NEW s \in Sides, NEW id \in Ids, id \notin Payload(s),
           \A u \in Sides : /\ Of(u, "notice")' = Of(u, "notice")
                            /\ Of(u, "request")' = IF u = s THEN Of(u, "request") \cup {id}
                                                   ELSE Of(u, "request")
                            /\ (received[u] \cap Payload(Peer(u)))' = received[u] \cap Payload(Peer(u))
                            /\ (Of(u, "request") \ waiting[u])' = Of(u, "request") \ waiting[u]
    PROVE  Calls!Next
<1>1. Calls!Ask(s, id)
  BY DEF Calls!Ask, Payload
<1> QED
  BY <1>1 DEF Calls!Next, Calls!Sides, Sides

LEMMA AsHandle ==
    ASSUME NEW s \in Sides, NEW id \in Ids, id \in Payload(Peer(s)) \ received[s],
           \A u \in Sides : /\ Of(u, "notice")' = Of(u, "notice")
                            /\ Of(u, "request")' = Of(u, "request")
                            /\ (received[u] \cap Payload(Peer(u)))' =
                                  (received[u] \cap Payload(Peer(u)))
                                      \cup (IF u = s THEN {id} ELSE {})
                            /\ (Of(u, "request") \ waiting[u])' = Of(u, "request") \ waiting[u]
    PROVE  Calls!Next
<1>1. Calls!Handle(s, id)
  <2>1. Calls!Peer(s) = Peer(s) /\ Peer(s) \in Sides
    BY PeerFacts DEF Calls!Peer, Peer
  <2> QED
    BY <2>1 DEF Calls!Handle, Payload
<1> QED
  BY <1>1 DEF Calls!Next, Calls!Sides, Sides

LEMMA AsAnswer ==
    ASSUME NEW s \in Sides, NEW id \in Ids, id \in Of(s, "request") \cap waiting[s],
           id \in received[Peer(s)],
           \A u \in Sides : /\ Of(u, "notice")' = Of(u, "notice")
                            /\ Of(u, "request")' = Of(u, "request")
                            /\ (received[u] \cap Payload(Peer(u)))' = received[u] \cap Payload(Peer(u))
                            /\ (Of(u, "request") \ waiting[u])' =
                                  (Of(u, "request") \ waiting[u])
                                      \cup (IF u = s THEN {id} ELSE {})
    PROVE  Calls!Next
<1>1. Calls!Answer(s, id)
  <2>1. Calls!Peer(s) = Peer(s) /\ Peer(s) \in Sides /\ Peer(Peer(s)) = s
    BY PeerFacts DEF Calls!Peer, Peer
  <2> QED
    BY <2>1 DEF Calls!Answer, Payload
<1> QED
  BY <1>1 DEF Calls!Next, Calls!Sides, Sides

LEMMA AsNothing ==
    ASSUME \A u \in Sides : /\ Of(u, "notice")' = Of(u, "notice")
                            /\ Of(u, "request")' = Of(u, "request")
                            /\ (received[u] \cap Payload(Peer(u)))' = received[u] \cap Payload(Peer(u))
                            /\ (Of(u, "request") \ waiting[u])' = Of(u, "request") \ waiting[u]
    PROVE  UNCHANGED Calls!callVars
BY DEF Calls!callVars, Payload

\* A step that sends nothing through a buffer leaves the messages' kinds.
LEMMA KindsKept ==
    ASSUME sent' = sent PROVE \A u, kind : Of(u, kind)' = Of(u, kind)
BY DEF Of

\* A number that is not given yet is nobody's.
LEMMA FreshId ==
    ASSUME ChannelInv, NEW s \in Sides, NEW id, id = nextId[s]
    PROVE  id \notin Payload(s) /\ id \notin received[Peer(s)]
<1>1. id \in Nat
  BY DEF ChannelInv, Types
<1>2. \A m \in sent[s] : m.id \in Nat /\ m.id < id
  BY IdsFact DEF ChannelInv, Types, Message, Numbered
<1>3. \A n \in received[Peer(s)] : n \in Nat /\ n < id
  BY IdsFact, PeerFacts DEF ChannelInv, Types, Numbered
<1>4. id \notin Payload(s)
  BY <1>1, <1>2, OfFact DEF Payload
<1> QED
  BY <1>1, <1>3, <1>4

LEMMA SentKinds ==
    ASSUME Types, NEW s \in Sides, NEW m, sent' = [sent EXCEPT ![s] = sent[s] \cup {m}]
    PROVE  \A u \in Sides : \A kind : Of(u, kind)' =
               IF u = s /\ m.kind = kind THEN Of(u, kind) \cup {m.id} ELSE Of(u, kind)
<1>1. sent'[s] = sent[s] \cup {m} /\ \A u \in Sides : u # s => sent'[u] = sent[u]
  BY DEF Types
<1> QED
  BY <1>1 DEF Of

LEMMA SendMaps ==
    ASSUME ChannelInv, NEW s \in Sides, NEW kind \in Kinds, Send(s, kind) PROVE Calls!Next
<1>1. PICK m \in Message : /\ m.kind = kind /\ m.id = nextId[s] /\ m.id \in Ids
                           /\ sent' = [sent EXCEPT ![s] = sent[s] \cup {m}]
  BY SendKeeps
<1>2. PICK id \in Ids : id = nextId[s]
  BY <1>1
<1>3. /\ waiting' = [waiting EXCEPT ![s] =
                        IF kind = "request" THEN waiting[s] \cup {id} ELSE waiting[s]]
      /\ received' = received
  BY <1>2 DEF Send
<1>4. id \notin Payload(s) /\ id \notin received[Peer(s)]
  BY <1>2, FreshId
<1>5. \A u \in Sides : \A k : Of(u, k)' = IF u = s /\ kind = k THEN Of(u, k) \cup {id} ELSE Of(u, k)
  <2>1. \A u \in Sides : \A k : Of(u, k)' =
            IF u = s /\ m.kind = k THEN Of(u, k) \cup {m.id} ELSE Of(u, k)
    <3>1. Types
      BY DEF ChannelInv
    <3>2. sent' = [sent EXCEPT ![s] = sent[s] \cup {m}]
      BY <1>1
    <3> QED
      BY <3>1, <3>2, SentKinds, ZenonT(40)
  <2>2. m.kind = kind /\ m.id = id
    BY <1>1, <1>2
  <2> QED
    BY <2>1, <2>2
<1>6. kind \in {"notice", "request"}
  BY ChannelAssumption
<1>7. \A u \in Sides : (received[u] \cap Payload(Peer(u)))' = received[u] \cap Payload(Peer(u))
  <2>1. ASSUME NEW u \in Sides, Peer(u) = s
        PROVE (received[u] \cap Payload(Peer(u)))' = received[u] \cap Payload(Peer(u))
    <3>1. id \notin received[u]
      BY <1>4, <2>1, PeerFacts
    <3> QED
      BY <1>3, <1>5, <2>1, <3>1 DEF Payload
  <2>2. ASSUME NEW u \in Sides, Peer(u) # s
        PROVE (received[u] \cap Payload(Peer(u)))' = received[u] \cap Payload(Peer(u))
    BY <1>3, <1>5, <2>2, PeerFacts DEF Payload
  <2> QED
    BY <2>1, <2>2
<1>8. \A u \in Sides : (Of(u, "request") \ waiting[u])' = Of(u, "request") \ waiting[u]
  <2>1. id \notin Of(s, "request")
    BY <1>4 DEF Payload
  <2>2. \A u \in Sides : waiting'[u] = IF u = s /\ kind = "request" THEN waiting[u] \cup {id}
                                       ELSE waiting[u]
    BY <1>3 DEF ChannelInv, Types
  <2> QED
    BY <1>5, <2>1, <2>2
<1>9. CASE kind = "notice"
  BY <1>4, <1>5, <1>7, <1>8, <1>9, AsNotify
<1>10. CASE kind = "request"
  BY <1>4, <1>5, <1>7, <1>8, <1>10, AsAsk
<1> QED
  BY <1>6, <1>9, <1>10

LEMMA RespondMaps ==
    ASSUME ChannelInv, NEW s \in Sides, Respond(s) PROVE UNCHANGED Calls!callVars
<1>1. PICK m \in Message : /\ m.kind = "response"
                           /\ sent' = [sent EXCEPT ![s] = sent[s] \cup {m}]
  BY RespondKeeps
<1>2. UNCHANGED <<waiting, received>>
  BY DEF Respond
<1>3. \A u \in Sides : Of(u, "notice")' = Of(u, "notice") /\ Of(u, "request")' = Of(u, "request")
  <2>1. \A u \in Sides : \A kind : Of(u, kind)' =
            IF u = s /\ m.kind = kind THEN Of(u, kind) \cup {m.id} ELSE Of(u, kind)
    BY <1>1, SentKinds DEF ChannelInv
  <2> QED
    BY <1>1, <2>1
<1>4. \A u \in Sides : (received[u] \cap Payload(Peer(u)))' = received[u] \cap Payload(Peer(u))
  BY <1>2, <1>3, PeerFacts DEF Payload
<1>5. \A u \in Sides : (Of(u, "request") \ waiting[u])' = Of(u, "request") \ waiting[u]
  BY <1>2, <1>3
<1> QED
  BY <1>3, <1>4, <1>5, AsNothing

\* Steps that touch neither what was sent nor who waits for what.
LEMMA QuietMaps == ASSUME UNCHANGED <<sent, received, waiting>> PROVE UNCHANGED Calls!callVars
<1>1. \A u, kind : Of(u, kind)' = Of(u, kind)
  BY KindsKept
<1>2. \A u : (received[u] \cap Payload(Peer(u)))' = received[u] \cap Payload(Peer(u))
  BY <1>1 DEF Payload
<1> QED
  BY <1>1, <1>2, AsNothing

\* An answer to a request was given by who had received it; any other answer
\* is to a number no request has.
LEMMA AnswerFacts ==
    ASSUME ChannelInv, NEW s \in Sides, NEW m \in Legit(Peer(s)), m.re # NoId
    PROVE  /\ m.id \notin Payload(Peer(s))
           /\ m.re \in Of(s, "request") => m.re \in received[Peer(s)]
<1>1. CASE m \in sent[Peer(s)]
  <2>1. m.kind = "response"
    BY <1>1, PeerFacts DEF ChannelInv, Numbered
  <2>2. m.re \in received[Peer(s)]
    BY <1>1, <2>1, PeerFacts DEF ChannelInv, AnswersOwed, Debts
  <2>3. \A n \in sent[Peer(s)] : n.kind \in {"notice", "request"} => n.id # m.id
    BY <1>1, <2>1, PeerFacts DEF ChannelInv, Numbered
  <2>4. m.id \notin Payload(Peer(s))
    BY <2>3, OfFact DEF Payload
  <2> QED
    BY <2>2, <2>4
<1>2. CASE m \notin sent[Peer(s)]
  <2>1. Spare(Peer(s), m.id) /\ (m.re = 0 \/ Spare(s, m.re))
    BY <1>2, PeerFacts DEF Legit
  <2>2. m.id \notin Payload(Peer(s))
    BY <2>1, OfFact DEF Payload, Spare
  <2>3. \A n \in sent[s] : n.kind = "request" => n.id # m.re
    BY <2>1 DEF Spare, ChannelInv, Numbered
  <2>4. m.re \notin Of(s, "request")
    BY <2>3, OfFact
  <2> QED
    BY <2>2, <2>4
<1> QED
  BY <1>1, <1>2

LEMMA AnswerMaps ==
    ASSUME ChannelInv, NEW s \in Sides, wire[Peer(s)] # <<>>,
           NEW m, m = Head(wire[Peer(s)]), ReceiveAnswer(s, m), sent' = sent
    PROVE  Calls!Next \/ UNCHANGED Calls!callVars
<1>1. /\ m.re # NoId
      /\ waiting' = [waiting EXCEPT ![s] = waiting[s] \ {m.re}]
      /\ received' = [received EXCEPT ![s] = received[s] \cup {m.id}]
  BY DEF ReceiveAnswer
<1>2. m \in Legit(Peer(s)) /\ m.re \in Ids
  BY <1>1, HeadLegit DEF Message
<1>3. /\ m.id \notin Payload(Peer(s))
      /\ m.re \in Of(s, "request") => m.re \in received[Peer(s)]
  BY <1>1, <1>2, AnswerFacts
<1>4. \A u, kind : Of(u, kind)' = Of(u, kind)
  BY KindsKept
<1>5. \A u \in Sides : (received[u] \cap Payload(Peer(u)))' = received[u] \cap Payload(Peer(u))
  <2>1. \A u \in Sides : received'[u] = IF u = s THEN received[u] \cup {m.id} ELSE received[u]
    BY <1>1 DEF ChannelInv, Types
  <2>2. \A u \in Sides : Payload(Peer(u))' = Payload(Peer(u))
    BY <1>4 DEF Payload
  <2> QED
    BY <1>3, <2>1, <2>2
<1>6. \A u \in Sides : waiting'[u] = IF u = s THEN waiting[u] \ {m.re} ELSE waiting[u]
  BY <1>1 DEF ChannelInv, Types
<1>7. CASE m.re \in Of(s, "request") \cap waiting[s]
  <2>1. \A u \in Sides : (Of(u, "request") \ waiting[u])' =
            (Of(u, "request") \ waiting[u]) \cup (IF u = s THEN {m.re} ELSE {})
    BY <1>4, <1>6, <1>7
  <2> QED
    BY <1>2, <1>3, <1>4, <1>5, <1>7, <2>1, AsAnswer
<1>8. CASE m.re \notin Of(s, "request") \cap waiting[s]
  <2>1. \A u \in Sides : (Of(u, "request") \ waiting[u])' = Of(u, "request") \ waiting[u]
    BY <1>4, <1>6, <1>8
  <2> QED
    BY <1>4, <1>5, <2>1, AsNothing
<1> QED
  BY <1>7, <1>8

LEMMA PayloadMaps ==
    ASSUME ChannelInv, NEW s \in Sides, wire[Peer(s)] # <<>>,
           NEW m, m = Head(wire[Peer(s)]), ReceivePayload(s, m), sent' = sent
    PROVE  Calls!Next \/ UNCHANGED Calls!callVars
<1>1. /\ m.kind \in {"notice", "request"} /\ waiting' = waiting
      /\ received' = [received EXCEPT ![s] = received[s] \cup {m.id}]
  BY DEF ReceivePayload
<1>2. m \in Legit(Peer(s)) /\ m.id \in Ids
  BY HeadLegit DEF Message
<1>3. m.id \in Payload(Peer(s))
  <2>1. m \in sent[Peer(s)]
    BY <1>1, <1>2 DEF Legit
  <2> QED
    BY <1>1, <2>1, OfFact DEF Payload
<1>4. \A u, kind : Of(u, kind)' = Of(u, kind)
  BY KindsKept
<1>5. \A u \in Sides : (Of(u, "request") \ waiting[u])' = Of(u, "request") \ waiting[u]
  BY <1>1, <1>4
<1>6. \A u \in Sides : received'[u] = IF u = s THEN received[u] \cup {m.id} ELSE received[u]
  BY <1>1 DEF ChannelInv, Types
<1>7. \A u \in Sides : Payload(Peer(u))' = Payload(Peer(u))
  BY <1>4 DEF Payload
<1>8. CASE m.id \in received[s]
  <2>1. \A u \in Sides : (received[u] \cap Payload(Peer(u)))' = received[u] \cap Payload(Peer(u))
    BY <1>6, <1>7, <1>8
  <2> QED
    BY <1>4, <1>5, <2>1, AsNothing
<1>9. CASE m.id \notin received[s]
  <2>1. \A u \in Sides : (received[u] \cap Payload(Peer(u)))' =
            (received[u] \cap Payload(Peer(u))) \cup (IF u = s THEN {m.id} ELSE {})
    BY <1>3, <1>6, <1>7
  <2> QED
    BY <1>2, <1>3, <1>4, <1>5, <1>9, <2>1, AsHandle
<1> QED
  BY <1>8, <1>9

LEMMA ReceiveMaps ==
    ASSUME ChannelInv, NEW s \in Sides, Receive(s)
    PROVE  Calls!Next \/ UNCHANGED Calls!callVars
<1>1. PICK m : m = Head(wire[Peer(s)])
  OBVIOUS
<1>2. /\ wire[Peer(s)] # <<>> /\ sent' = sent
      /\ ReceiveControl(s, m) \/ ReceiveAnswer(s, m) \/ ReceivePayload(s, m)
  BY <1>1 DEF Receive
<1>3. CASE ReceiveControl(s, m)
  BY <1>2, <1>3, QuietMaps DEF ReceiveControl
<1> QED
  BY <1>1, <1>2, <1>3, AnswerMaps, PayloadMaps

LEMMA ReconnectMaps == ASSUME ChannelInv, Reconnect PROVE UNCHANGED Calls!callVars
<1>1. PICK id : id = nextId[Client]
  OBVIOUS
<1>2. /\ waiting' = [waiting EXCEPT ![Client] = waiting[Client] \cup {id}]
      /\ UNCHANGED <<sent, received>>
  BY <1>1 DEF Reconnect
<1>3. \A u, kind : Of(u, kind)' = Of(u, kind)
  BY <1>2, KindsKept
<1>4. \A u \in Sides : (received[u] \cap Payload(Peer(u)))' = received[u] \cap Payload(Peer(u))
  BY <1>2, <1>3 DEF Payload
<1>5. \A u \in Sides : (Of(u, "request") \ waiting[u])' = Of(u, "request") \ waiting[u]
  <2>1. id \notin Of(Client, "request")
    BY <1>1, FreshId, PeerFacts DEF Payload
  <2>2. \A u \in Sides : waiting'[u] = IF u = Client THEN waiting[u] \cup {id} ELSE waiting[u]
    BY <1>2 DEF ChannelInv, Types
  <2> QED
    BY <1>3, <2>1, <2>2
<1> QED
  BY <1>3, <1>4, <1>5, AsNothing

LEMMA InitMaps == Init => Calls!Init
<1> SUFFICES ASSUME Init PROVE Calls!Init
  OBVIOUS
<1>1. \A s \in Sides : sent[s] = {} /\ received[s] = {}
  BY DEF Init
<1>2. \A s \in Sides : \A kind : Of(s, kind) = {}
  BY <1>1 DEF Of
<1> QED
  BY <1>1, <1>2 DEF Calls!Init, Calls!Sides, Sides

LEMMA NextMaps == ChannelInv /\ [Next]_vars => [Calls!Next]_Calls!callVars
<1> SUFFICES ASSUME ChannelInv, [Next]_vars PROVE Calls!Next \/ UNCHANGED Calls!callVars
  OBVIOUS
<1>1. CASE Transmit \/ Drop \/ Resync \/ UNCHANGED vars
  BY <1>1, QuietMaps DEF Transmit, Drop, Resync, vars
<1> QED
  BY <1>1, SendMaps, RespondMaps, ReceiveMaps, ReconnectMaps DEF Next

-----------------------------------------------------------------------------
\* A session keeps the promises of RemoteCalls for any number of messages and
\* drops: whatever is flushed again, overtaken, handled twice or answered twice
\* after a reconnect, a request is answered only once it was asked and the
\* other side had it, and only messages that were sent are handled
\* (ChannelClient in remote_client.rs: ids, acknowledgements and resync).
THEOREM SessionKeepsPromises == Spec => KeepsPromises
<1>1. Spec => []ChannelInv
  BY InitChannel, NextChannel, PTL DEF Spec
<1> QED
  BY <1>1, InitMaps, NextMaps, PTL DEF Spec, KeepsPromises, Calls!Calls
-----------------------------------------------------------------------------
(* What one drop of the connection may cost (ChannelSound), for any number *)
(* of messages and ids: the acknowledgements by which either side drops    *)
(* messages from its buffer tell the truth until what the drop cut off has *)
(* been sent again, but for an acknowledgement of 0, which those who have  *)
(* received nothing send as well.                                          *)

Control == {"started", "flush"}

-----------------------------------------------------------------------------
(* One direction of the channel: S are the messages sent through the       *)
(* buffer, G the ids the other side got, n the next id.                    *)

\* Who acknowledges a has got everything up to it.
Honest(S, G, n, a) == a <= 0 \/ (a < n /\ \A m \in S : m.id <= a => m.id \in G)

\* In the first n of q nothing overtakes: what was sent before a message is
\* received, or on its way in front of it.
Ordered(S, G, q, n) ==
    \A k \in 1 .. n : q[k].kind \notin Control =>
        \A m \in S : m.id <= q[k].id => m.id \in G \cup {q[j].id : j \in 1 .. k}

LEMMA HonestGrows ==
    ASSUME NEW S, NEW T, NEW G, NEW H, NEW n \in Nat, NEW k \in Nat, NEW a \in Int,
           Honest(S, G, n, a), G \subseteq H, n <= k,
           \A m \in T : m \in S \/ (m.id \in Nat /\ m.id >= n)
    PROVE  Honest(T, H, k, a)
BY DEF Honest

LEMMA OrderedGrows ==
    ASSUME NEW S, NEW T, NEW G, NEW H, NEW n \in Nat, NEW q, NEW k \in Nat,
           Ordered(S, G, q, k), G \subseteq H,
           \A m \in T : m \in S \/ (m.id \in Nat /\ m.id >= n),
           \A j \in 1 .. k : q[j].kind \notin Control => q[j].id \in Nat /\ q[j].id < n
    PROVE  Ordered(T, H, q, k)
<1> SUFFICES ASSUME NEW j \in 1 .. k, q[j].kind \notin Control, NEW m \in T, m.id <= q[j].id
             PROVE  m.id \in H \cup {q[i].id : i \in 1 .. j}
  BY DEF Ordered
<1>1. m \in S
  OBVIOUS
<1> QED
  BY <1>1 DEF Ordered

LEMMA OrderedBefore ==
    ASSUME NEW S, NEW G, NEW M, NEW q \in Seq(M), NEW r \in Seq(M), NEW k \in Nat,
           k <= Len(q), k <= Len(r), \A j \in 1 .. k : r[j] = q[j], Ordered(S, G, q, k)
    PROVE  Ordered(S, G, r, k)
<1> SUFFICES ASSUME NEW j \in 1 .. k, r[j].kind \notin Control, NEW m \in S, m.id <= r[j].id
             PROVE  m.id \in G \cup {r[i].id : i \in 1 .. j}
  BY DEF Ordered
<1>1. m.id \in G \cup {q[i].id : i \in 1 .. j}
  BY DEF Ordered
<1>2. \A i \in 1 .. j : i \in 1 .. k
  OBVIOUS
<1> QED
  BY <1>1, <1>2

\* With everything received or on its way, what is posted is in order.
LEMMA OrderedPosts ==
    ASSUME NEW S, NEW G, NEW M, NEW q \in Seq(M), NEW m \in M,
           Ordered(S, G, q, Len(q)), \A x \in S : x.id \in G \cup IdsIn(Append(q, m))
    PROVE  Ordered(S, G, Append(q, m), Len(Append(q, m)))
<1> DEFINE r == Append(q, m)
<1>1. r \in Seq(M) /\ Len(r) = Len(q) + 1 /\ (\A j \in 1 .. Len(q) : r[j] = q[j])
      /\ DOMAIN r = 1 .. Len(r) /\ Len(q) \in Nat
  OBVIOUS
<1> HIDE DEF r
<1>2. Ordered(S, G, r, Len(q))
  BY <1>1, OrderedBefore
<1>3. Ordered(S, G, r, Len(r))
  <2>1. ASSUME NEW k \in 1 .. Len(r), r[k].kind \notin Control, NEW x \in S, x.id <= r[k].id
        PROVE  x.id \in G \cup {r[j].id : j \in 1 .. k}
    <3>1. CASE k \in 1 .. Len(q)
      BY <1>2, <2>1, <3>1 DEF Ordered
    <3>2. CASE k = Len(r)
      BY <1>1, <3>2 DEF IdsIn, r
    <3> QED
      BY <1>1, <3>1, <3>2
  <2> QED
    BY <2>1 DEF Ordered
<1> QED
  BY <1>3 DEF r

LEMMA OrderedTail ==
    ASSUME NEW S, NEW G, NEW H, NEW M, NEW q \in Seq(M), q # <<>>, NEW k \in Nat,
           k <= Len(q), Ordered(S, G, q, k), G \subseteq H,
           q[1].id \in H \/ \A m \in S : m.id # q[1].id
    PROVE  k > 0 => Ordered(S, H, Tail(q), k - 1)
<1> SUFFICES ASSUME k > 0, NEW j \in 1 .. (k - 1), Tail(q)[j].kind \notin Control,
                    NEW m \in S, m.id <= Tail(q)[j].id
             PROVE  m.id \in H \cup {Tail(q)[i].id : i \in 1 .. j}
  BY DEF Ordered
<1>1. \A i \in 1 .. j : Tail(q)[i] = q[i + 1]
  OBVIOUS
<1>2. m.id \in G \cup {q[i].id : i \in 1 .. (j + 1)}
  BY <1>1 DEF Ordered
<1>3. ASSUME NEW i \in 1 .. (j + 1), m.id = q[i].id
      PROVE  m.id \in H \cup {Tail(q)[l].id : l \in 1 .. j}
  <2>1. CASE i = 1
    BY <1>3, <2>1
  <2>2. CASE i > 1
    <3>1. i - 1 \in 1 .. j /\ Tail(q)[i - 1] = q[i]
      BY <1>1, <1>3, <2>2
    <3> QED
      BY <1>3, <3>1
  <2> QED
    BY <1>3, <2>1, <2>2
<1> QED
  BY <1>2, <1>3

LEMMA HeadHonest ==
    ASSUME NEW S, NEW G, NEW q, NEW n, NEW k \in Nat, k > 0, Ordered(S, G, q, k),
           q[1].kind \notin Control, q[1].id < n
    PROVE  Honest(S, G \cup {q[1].id}, n, q[1].id)
<1>1. \A m \in S : m.id <= q[1].id => m.id \in G \cup {q[j].id : j \in 1 .. 1}
  BY DEF Ordered
<1> QED
  BY <1>1 DEF Honest

LEMMA IdsInFacts ==
    ASSUME NEW M, NEW q \in Seq(M)
    PROVE  /\ \A r \in Seq(M) : IdsIn(q \o r) = IdsIn(q) \cup IdsIn(r)
           /\ \A m \in M : IdsIn(Append(q, m)) = IdsIn(q) \cup {m.id}
           /\ q # <<>> => IdsIn(q) = {Head(q).id} \cup IdsIn(Tail(q))
<1>1. ASSUME NEW r \in Seq(M) PROVE IdsIn(q \o r) = IdsIn(q) \cup IdsIn(r)
  <2>1. /\ DOMAIN (q \o r) = 1 .. (Len(q) + Len(r))
        /\ \A i \in 1 .. Len(q) : (q \o r)[i] = q[i]
        /\ \A i \in 1 .. Len(r) : (q \o r)[Len(q) + i] = r[i]
        /\ \A i \in 1 .. (Len(q) + Len(r)) :
              i \in 1 .. Len(q) \/ (i - Len(q) \in 1 .. Len(r) /\ (q \o r)[i] = r[i - Len(q)])
        /\ \A i \in 1 .. Len(r) : Len(q) + i \in 1 .. (Len(q) + Len(r))
        /\ \A i \in 1 .. Len(q) : i \in 1 .. (Len(q) + Len(r))
    OBVIOUS
  <2>2. DOMAIN q = 1 .. Len(q) /\ DOMAIN r = 1 .. Len(r)
    OBVIOUS
  <2>3. ASSUME NEW x \in IdsIn(q \o r) PROVE x \in IdsIn(q) \cup IdsIn(r)
    BY <2>1, <2>2 DEF IdsIn
  <2>4. ASSUME NEW x \in IdsIn(q) PROVE x \in IdsIn(q \o r)
    BY <2>1, <2>2 DEF IdsIn
  <2>5. ASSUME NEW x \in IdsIn(r) PROVE x \in IdsIn(q \o r)
    <3>1. PICK i \in 1 .. Len(r) : x = r[i].id
      BY <2>2 DEF IdsIn
    <3> QED
      BY <2>1, <3>1 DEF IdsIn
  <2> QED
    BY <2>3, <2>4, <2>5
<1>2. ASSUME NEW m \in M PROVE IdsIn(Append(q, m)) = IdsIn(q) \cup {m.id}
  <2>1. /\ DOMAIN Append(q, m) = 1 .. (Len(q) + 1) /\ DOMAIN q = 1 .. Len(q)
        /\ \A i \in 1 .. Len(q) : Append(q, m)[i] = q[i]
        /\ Append(q, m)[Len(q) + 1] = m
        /\ \A i \in 1 .. (Len(q) + 1) : i \in 1 .. Len(q) \/ i = Len(q) + 1
        /\ Len(q) + 1 \in 1 .. (Len(q) + 1)
        /\ \A i \in 1 .. Len(q) : i \in 1 .. (Len(q) + 1)
    OBVIOUS
  <2>2. ASSUME NEW x \in IdsIn(Append(q, m)) PROVE x \in IdsIn(q) \cup {m.id}
    BY <2>1 DEF IdsIn
  <2>3. ASSUME NEW x \in IdsIn(q) PROVE x \in IdsIn(Append(q, m))
    <3>1. PICK i \in 1 .. Len(q) : x = q[i].id
      BY <2>1 DEF IdsIn
    <3>2. i \in DOMAIN Append(q, m) /\ x = Append(q, m)[i].id
      BY <2>1, <3>1
    <3> QED
      BY <3>2 DEF IdsIn
  <2>4. m.id \in IdsIn(Append(q, m))
    BY <2>1 DEF IdsIn
  <2> QED
    BY <2>2, <2>3, <2>4
<1>3. ASSUME q # <<>> PROVE IdsIn(q) = {Head(q).id} \cup IdsIn(Tail(q))
  <2>1. /\ DOMAIN Tail(q) = 1 .. (Len(q) - 1) /\ DOMAIN q = 1 .. Len(q) /\ Head(q) = q[1]
        /\ \A i \in 1 .. (Len(q) - 1) : Tail(q)[i] = q[i + 1] /\ i + 1 \in 1 .. Len(q)
        /\ \A i \in 1 .. Len(q) : i = 1 \/ (i - 1 \in 1 .. (Len(q) - 1) /\ Tail(q)[i - 1] = q[i])
        /\ 1 \in 1 .. Len(q)
    BY <1>3
  <2>2. ASSUME NEW x \in IdsIn(q) PROVE x = Head(q).id \/ x \in IdsIn(Tail(q))
    <3>1. PICK i \in 1 .. Len(q) : x = q[i].id
      BY <2>1 DEF IdsIn
    <3> QED
      BY <2>1, <3>1 DEF IdsIn
  <2>3. ASSUME NEW x \in IdsIn(Tail(q)) PROVE x \in IdsIn(q)
    <3>1. PICK i \in 1 .. (Len(q) - 1) : x = q[i + 1].id
      BY <2>1 DEF IdsIn
    <3> QED
      BY <2>1, <3>1 DEF IdsIn
  <2>4. Head(q).id \in IdsIn(q)
    BY <2>1 DEF IdsIn
  <2> QED
    BY <2>2, <2>3, <2>4
<1> QED
  BY <1>1, <1>2, <1>3

\* Only what was acknowledged goes.
LEMMA UnackedKeeps ==
    ASSUME NEW ms \in Seq(Message), NEW ack, NEW i \in DOMAIN ms, ~(ms[i].id <= ack)
    PROVE  ms[i].id \in IdsIn(Unacked(ms, ack))
<1> DEFINE front == {k \in DOMAIN ms : \A j \in 1 .. k : ms[j].id <= ack}
           c == Cardinality(front)
<1>1. i \in 1 .. Len(ms) /\ Len(ms) \in Nat /\ DOMAIN ms = 1 .. Len(ms)
  OBVIOUS
<1>2. front \subseteq 1 .. (i - 1)
  <2>1. ASSUME NEW k \in front PROVE k \in 1 .. (i - 1)
    <3>1. k \in 1 .. Len(ms) /\ \A j \in 1 .. k : ms[j].id <= ack
      BY <1>1
    <3>2. i \notin 1 .. k
      BY <3>1
    <3> QED
      BY <1>1, <3>1, <3>2
  <2> QED
    BY <2>1
<1>3. c \in Nat /\ c <= i - 1
  <2>1. IsFiniteSet(1 .. (i - 1)) /\ Cardinality(1 .. (i - 1)) = i - 1
    <3>1. i - 1 \in Int /\ 1 \in Int
      BY <1>1
    <3>2. IsFiniteSet(1 .. (i - 1))
          /\ Cardinality(1 .. (i - 1)) = IF 1 > i - 1 THEN 0 ELSE (i - 1) - 1 + 1
      BY <3>1, FS_Interval
    <3> QED
      BY <1>1, <3>2
  <2> HIDE DEF front
  <2>2. IsFiniteSet(front) /\ Cardinality(front) <= Cardinality(1 .. (i - 1))
    BY <1>2, <2>1, FS_Subset
  <2> QED
    BY <2>1, <2>2, FS_CardinalityType
<1>4. Unacked(ms, ack) = SubSeq(ms, c + 1, Len(ms))
  BY DEF Unacked
<1> HIDE DEF c, front
<1>5. /\ i - c \in 1 .. (Len(ms) - c) /\ Len(SubSeq(ms, c + 1, Len(ms))) = Len(ms) - c
      /\ SubSeq(ms, c + 1, Len(ms))[i - c] = ms[i]
  <2>1. i - c \in 1 .. (Len(ms) - c)
    BY <1>1, <1>3
  <2>2. Len(SubSeq(ms, c + 1, Len(ms))) = Len(ms) - c
    BY <1>1, <1>3
  <2>3. SubSeq(ms, c + 1, Len(ms))[i - c] = ms[(c + 1) + (i - c) - 1]
    BY <1>1, <1>3, <2>1
  <2>4. (c + 1) + (i - c) - 1 = i
    BY <1>1, <1>3
  <2> QED
    BY <2>1, <2>2, <2>3, <2>4
<1>6. i - c \in DOMAIN SubSeq(ms, c + 1, Len(ms))
  <2>1. SubSeq(ms, c + 1, Len(ms)) \in Seq(Message)
    BY <1>1, <1>3
  <2> QED
    BY <1>5, <2>1
<1> QED
  BY <1>4, <1>5, <1>6 DEF IdsIn

\* What an acknowledgement takes out of a buffer has been received.
LEMMA PopKeeps ==
    ASSUME NEW S \in SUBSET Message, NEW G, NEW n, NEW ms \in Seq(Message), NEW ack \in Int,
           Honest(S, G, n, ack), \A m \in S : m.id # 0 /\ m.id \in G \cup IdsIn(ms)
    PROVE  \A m \in S : m.id \in G \cup IdsIn(Unacked(ms, ack))
<1> SUFFICES ASSUME NEW m \in S, m.id \notin G PROVE m.id \in IdsIn(Unacked(ms, ack))
  OBVIOUS
<1>1. m.id \in Nat /\ m.id # 0
  BY IdsFact DEF Message
<1>2. ~(m.id <= ack)
  BY <1>1 DEF Honest
<1>3. PICK i \in DOMAIN ms : ms[i].id = m.id
  BY DEF IdsIn
<1> QED
  BY <1>2, <1>3, UnackedKeeps

-----------------------------------------------------------------------------
(* The invariant.                                                          *)

\* What a side has put on its way: the server's part of it may wait for a
\* connection.
Pipe(s) == IF s = Client THEN wire[Client] ELSE wire[Server] \o outbox

\* The messages whose acknowledgement means that they were received.
Counted(s) == {m \in sent[s] : m.id # 0}

\* Each of them is received or still in the buffer; received or on its way.
Kept(s)    == \A m \in Counted(s) : m.id \in received[Peer(s)] \cup IdsIn(buffer[s])
Settled(s) == \A m \in Counted(s) : m.id \in received[Peer(s)] \cup IdsIn(Pipe(s))

\* What a side acknowledges, has acknowledged, or will when it sends again.
Acks(s) == {maxReceived[s]} \cup {m.ack : m \in sent[s]}
               \cup {Pipe(s)[k].ack : k \in DOMAIN Pipe(s)}
HonestAck(s, a) == Honest(Counted(s), received[Peer(s)], nextId[s], a)
AcksHonest(s)   == \A a \in Acks(Peer(s)) : HonestAck(s, a)

InOrder(s)      == Ordered(Counted(s), received[Peer(s)], Pipe(s), Len(Pipe(s)))
WireInOrder(s)  == Ordered(Counted(s), received[Peer(s)], wire[s], Len(wire[s]))

NoFlush == \A s \in Sides : \A k \in DOMAIN Pipe(s) : Pipe(s)[k].kind # "flush"

\* The server's early message is received or on its way.
EarlyComes ==
    \A m \in sent[Server] : m.id = 0 =>
        0 \in received[Client] \/ \E k \in DOMAIN Pipe(Server) : Pipe(Server)[k] = m

\* Before the first drop.
Undropped ==
    /\ up /\ resync = NoId /\ NoFlush /\ EarlyComes
    /\ \A s \in Sides : Settled(s) /\ Kept(s) /\ AcksHonest(s) /\ InOrder(s)

\* While the connection is down for the first time.
Down ==
    /\ ~up /\ NoFlush
    /\ \A s \in Sides : Kept(s) /\ AcksHonest(s) /\ WireInOrder(s)

\* Afterwards the server keeps its messages until it reads the flush, and
\* nothing before the flush acknowledges what was cut off.
FlushAt(i) ==
    /\ wire[Client][i].kind = "flush"
    /\ \A k \in 1 .. i : HonestAck(Server, wire[Client][k].ack)
ServerRestored ==
    \/ Settled(Server)
    \/ Kept(Server) /\ \E i \in DOMAIN wire[Client] : FlushAt(i)

\* Zed keeps its messages until resync sees the answer to its flush, and
\* nothing before the answer acknowledges what was cut off.
AskedAt(i) ==
    /\ wire[Client][i].kind = "flush" /\ wire[Client][i].id = resync
    /\ Ordered(Counted(Client), received[Server], wire[Client], i - 1)
AnswerAt(i) ==
    /\ Pipe(Server)[i].kind = "ack" /\ Pipe(Server)[i].re = resync
    /\ \A k \in 1 .. i : HonestAck(Client, Pipe(Server)[k].ack)
ResyncComes ==
    \/ AcksHonest(Client) /\ \E i \in DOMAIN wire[Client] : AskedAt(i)
    \/ \E i \in DOMAIN Pipe(Server) : AnswerAt(i)
ClientRestored ==
    \/ Settled(Client)
    \/ resync # NoId /\ Kept(Client) /\ (resync \in waiting[Client] => ResyncComes)

\* Zed gives number 0 to its answer to the greeting, the first thing it receives.
Greeted ==
    /\ ~up => nextId[Client] # 0
    /\ resync < nextId[Client]
    /\ \A m \in sent[Client] : m.id # 0
    /\ nextId[Client] = 0 =>
        /\ handling[Client] = <<>>
        /\ Pipe(Server) # <<>> /\ Head(Pipe(Server)).kind \in Control

OneDrop ==
    /\ drops = 0 => Undropped
    /\ drops = 1 /\ ~up => Down
    /\ drops = 1 /\ up => ServerRestored /\ ClientRestored

Bounds ==
    /\ nextId \in [Sides -> 0 .. (MaxId + 1)] /\ drops \in 0 .. MaxDrops
    /\ sends \in [Sides -> Nat]

DeliveryInv == ChannelInv /\ Bounds /\ Greeted /\ OneDrop

-----------------------------------------------------------------------------
(* What is on its way.                                                     *)

LEMMA SideCases ==
    /\ Peer(Client) = Server /\ Peer(Server) = Client /\ Sides = {Client, Server}
    /\ Client # Server
BY ChannelAssumption DEF Sides, Peer

LEMMA PipeFacts ==
    ASSUME ChannelInv
    PROVE  /\ Pipe(Client) = wire[Client] /\ Pipe(Server) = wire[Server] \o outbox
           /\ wire \in [Sides -> Seq(Message)] /\ outbox \in Seq(Message)
           /\ buffer \in [Sides -> Seq(Message)]
           /\ \A s \in Sides : /\ Pipe(s) \in Seq(Message) /\ Pipe(s) \in Seq(Legit(s))
                               /\ wire[s] \in Seq(Message) /\ wire[s] \in Seq(Legit(s))
<1>1. wire \in [Sides -> Seq(Message)] /\ buffer \in [Sides -> Seq(Message)]
      /\ \A s \in Sides : wire[s] \in Seq(Message) /\ wire[s] \in Seq(Legit(s))
  BY DEF ChannelInv, Queues
<1>2. outbox \in Seq(Message) /\ outbox \in Seq(Legit(Server))
  <2>1. Legit(Server) \subseteq Message
    BY SideCases DEF ChannelInv, Types, Legit
  <2> QED
    BY <2>1, SeqGrows DEF ChannelInv, Queues
<1>3. Pipe(Client) = wire[Client] /\ Pipe(Server) = wire[Server] \o outbox
  BY SideCases DEF Pipe
<1>4. wire[Server] \o outbox \in Seq(Message) /\ wire[Server] \o outbox \in Seq(Legit(Server))
  BY <1>1, <1>2, SideCases
<1> QED
  BY <1>1, <1>2, <1>3, <1>4, SideCases

LEMMA LegitIds ==
    ASSUME ChannelInv, Greeted, NEW s \in Sides, NEW m \in Legit(s)
    PROVE  /\ m \in Message /\ m.id \in Nat /\ m.ack \in Int
           /\ m.kind \notin Control => m.id < nextId[s]
           /\ m.kind \in Control => \A x \in Counted(s) : x.id # m.id
<1>1. m \in Message /\ sent[s] \subseteq Message /\ nextId[s] \in Nat
  BY DEF ChannelInv, Types, Legit
<1>2. m.id \in Nat /\ m.ack \in Int
  BY <1>1, IdsFact DEF Message, NoId
<1>3. m.kind \notin Control => m.id < nextId[s]
  BY DEF Control, Legit, Spare, ChannelInv, Numbered
<1>4. m.kind \in Control => \A x \in Counted(s) : x.id # m.id
  <2>1. CASE m \in sent[s]
    BY <2>1 DEF Control, ChannelInv, Numbered
  <2>2. CASE m \notin sent[s]
    BY <2>2 DEF Control, Legit, Spare, Counted
  <2> QED
    BY <2>1, <2>2
<1> QED
  BY <1>1, <1>2, <1>3, <1>4

\* What every step does to what was sent and received.
Grows ==
    \A s \in Sides :
        /\ nextId[s] \in Nat /\ nextId'[s] \in Nat /\ nextId[s] <= nextId'[s]
        /\ received[s] \subseteq received'[s] /\ Counted(s) \subseteq Counted(s)'
        /\ \A m \in Counted(s)' : m \in Counted(s) \/ m.id = nextId[s]

LEMMA HonestStays ==
    ASSUME Grows, NEW s \in Sides, NEW a \in Int, HonestAck(s, a) PROVE HonestAck(s, a)'
<1>1. /\ nextId[s] \in Nat /\ nextId'[s] \in Nat /\ nextId[s] <= nextId'[s]
      /\ received[Peer(s)] \subseteq received'[Peer(s)]
      /\ \A m \in Counted(s)' : m \in Counted(s) \/ (m.id \in Nat /\ m.id >= nextId[s])
  BY PeerFacts DEF Grows
<1>2. Honest(Counted(s), received[Peer(s)], nextId[s], a)
  BY DEF HonestAck
<1>3. Honest(Counted(s)', received'[Peer(s)], nextId'[s], a)
  BY <1>1, <1>2, HonestGrows
<1> QED
  BY <1>3 DEF HonestAck

LEMMA AcksFact ==
    ASSUME ChannelInv, Greeted, NEW s \in Sides, NEW a \in Acks(s) PROVE a \in Int
<1>1. maxReceived[s] \in Int
  BY IdsFact DEF ChannelInv, Types
<1>2. \A m \in sent[s] : m.ack \in Int
  BY LegitIds DEF Legit
<1>3. \A k \in DOMAIN Pipe(s) : Pipe(s)[k].ack \in Int
  BY PipeFacts, LegitIds
<1> QED
  BY <1>1, <1>2, <1>3 DEF Acks

LEMMA AcksStay ==
    ASSUME ChannelInv, Greeted, Grows, NEW s \in Sides, AcksHonest(s),
           \A a \in Acks(Peer(s))' : a \in Acks(Peer(s)) \/ (a \in Int /\ HonestAck(s, a)')
    PROVE  AcksHonest(s)'
<1>1. ASSUME NEW a \in Acks(Peer(s)) PROVE HonestAck(s, a)'
  <2>1. a \in Int /\ HonestAck(s, a)
    BY <1>1, AcksFact, PeerFacts DEF AcksHonest
  <2> QED
    BY <2>1, HonestStays
<1> QED
  BY <1>1 DEF AcksHonest

\* Messages that are on their way in order remain so while more is sent.
LEMMA OrderStays ==
    ASSUME ChannelInv, Greeted, Grows, NEW s \in Sides, NEW q \in Seq(Legit(s)), NEW k \in Nat,
           k <= Len(q), Ordered(Counted(s), received[Peer(s)], q, k)
    PROVE  Ordered(Counted(s)', received'[Peer(s)], q, k)
<1>1. /\ nextId[s] \in Nat
      /\ received[Peer(s)] \subseteq received'[Peer(s)]
      /\ \A m \in Counted(s)' : m \in Counted(s) \/ (m.id \in Nat /\ m.id >= nextId[s])
  BY PeerFacts DEF Grows
<1>2. ASSUME NEW j \in 1 .. k, q[j].kind \notin Control
      PROVE  q[j].id \in Nat /\ q[j].id < nextId[s]
  <2>1. q[j] \in Legit(s)
    OBVIOUS
  <2> QED
    BY <1>2, <2>1, LegitIds
<1> QED
  BY <1>1, <1>2, OrderedGrows

-----------------------------------------------------------------------------
(* The steps, said of what is on its way.                                  *)

\* A message of the side's code goes to its buffer and on its way.
Sends(s, m) ==
    /\ m \in Message /\ m.kind \in {"notice", "request", "response"}
    /\ m.id = nextId[s] /\ m.ack = maxReceived[s]
    /\ nextId' = [nextId EXCEPT ![s] = nextId[s] + 1]
    /\ sent'   = [sent EXCEPT ![s] = sent[s] \cup {m}]
    /\ buffer' = [buffer EXCEPT ![s] = Append(buffer[s], m)]
    /\ Post(s, <<m>>)
    /\ UNCHANGED <<maxReceived, received, up, resync, drops>>
    /\ resync \in waiting'[Client] => resync \in waiting[Client]

LEMMA BufferedSends ==
    ASSUME ChannelInv, NEW s \in Sides, NEW kind \in {"notice", "request", "response"},
           NEW re \in Ids \cup {NoId}, SendBuffered(s, kind, re),
           UNCHANGED <<maxReceived, received, up, resync, drops>>,
           resync \in waiting'[Client] => resync \in waiting[Client]
    PROVE  \E m : Sends(s, m)
<1> DEFINE m == Envelope(kind, nextId[s], maxReceived[s], re)
<1>1. /\ nextId[s] \in Ids /\ nextId' = [nextId EXCEPT ![s] = nextId[s] + 1]
      /\ buffer' = [buffer EXCEPT ![s] = Append(buffer[s], m)]
      /\ sent' = [sent EXCEPT ![s] = sent[s] \cup {m}] /\ Post(s, <<m>>)
  BY DEF SendBuffered
<1>2. m \in Message /\ m.kind = kind /\ m.id = nextId[s] /\ m.ack = maxReceived[s]
  <2>1. maxReceived[s] \in Ids \cup {NoId} /\ nextId[s] \in Ids
    BY <1>1 DEF ChannelInv, Types
  <2> QED
    BY <2>1 DEF Envelope, Message
<1> HIDE DEF m
<1>3. Sends(s, m)
  BY <1>1, <1>2 DEF Sends
<1> QED
  BY <1>3

LEMMA SendSends ==
    ASSUME ChannelInv, Greeted, NEW s \in Sides, NEW kind \in Kinds, Send(s, kind)
    PROVE  \E m : Sends(s, m)
<1>1. /\ SendBuffered(s, kind, NoId)
      /\ waiting' = [waiting EXCEPT ![s] =
                        IF kind = "request" THEN waiting[s] \cup {nextId[s]} ELSE waiting[s]]
      /\ UNCHANGED <<maxReceived, received, up, resync, drops>>
  BY DEF Send
<1>2. kind \in {"notice", "request", "response"}
  BY ChannelAssumption
<1>3. resync \in waiting'[Client] => resync \in waiting[Client]
  <2>1. resync # nextId[Client]
    <3>1. resync \in Int /\ nextId[Client] \in Int
      BY SideCases, IdsFact DEF ChannelInv, Types, NoId
    <3> QED
      BY <3>1 DEF Greeted
  <2>2. waiting'[Client] \subseteq waiting[Client] \cup {nextId[Client]}
    BY <1>1, SideCases DEF ChannelInv, Types
  <2> QED
    BY <2>1, <2>2
<1> QED
  BY <1>1, <1>2, <1>3, BufferedSends

LEMMA RespondSends ==
    ASSUME ChannelInv, NEW s \in Sides, Respond(s) PROVE \E m : Sends(s, m)
<1>1. PICK i \in DOMAIN handling[s] :
        /\ SendBuffered(s, "response", handling[s][i])
        /\ UNCHANGED <<maxReceived, waiting, up, resync, drops, received>>
  BY DEF Respond
<1>2. handling[s][i] \in Ids
  BY <1>1 DEF ChannelInv, Types
<1> QED
  BY <1>1, <1>2, BufferedSends

LEMMA ConcatAssoc ==
    ASSUME NEW a \in Seq(Message), NEW b \in Seq(Message), NEW c \in Seq(Message)
    PROVE  a \o (b \o c) = (a \o b) \o c
BY SMTT(60)

LEMMA ConcatTail ==
    ASSUME NEW a \in Seq(Message), NEW b \in Seq(Message), a # <<>>
    PROVE  Tail(a) \o b = Tail(a \o b) /\ Head(a \o b) = Head(a) /\ a \o b # <<>>
BY SMTT(60)

LEMMA PostPipe ==
    ASSUME ChannelInv, NEW s \in Sides, NEW ms \in Seq(Message), Post(s, ms)
    PROVE  /\ Pipe(Peer(s))' = Pipe(Peer(s)) /\ wire'[Server] = wire[Server]
           /\ Pipe(s)' = IF s = Server \/ up THEN Pipe(s) \o ms ELSE Pipe(s)
<1>1. CASE s = Server
  <2>1. outbox' = outbox \o ms /\ wire' = wire
    BY <1>1 DEF Post
  <2>2. wire[Server] \o (outbox \o ms) = (wire[Server] \o outbox) \o ms
    <3>1. wire[Server] \in Seq(Message) /\ outbox \in Seq(Message)
      BY PipeFacts, SideCases
    <3> QED
      BY <3>1, ConcatAssoc
  <2> QED
    BY <1>1, <2>1, <2>2, SideCases DEF Pipe
<1>2. CASE s = Client /\ up
  <2>1. outbox' = outbox /\ wire' = [wire EXCEPT ![Client] = wire[Client] \o ms]
    BY <1>2, SideCases DEF Post
  <2>2. wire'[Client] = wire[Client] \o ms /\ wire'[Server] = wire[Server]
    BY <2>1, PipeFacts, SideCases
  <2> QED
    BY <1>2, <2>1, <2>2, SideCases DEF Pipe
<1>3. CASE s = Client /\ ~up
  <2>1. outbox' = outbox /\ wire' = wire
    BY <1>3, SideCases DEF Post
  <2> QED
    BY <1>3, <2>1, SideCases DEF Pipe
<1> QED
  BY <1>1, <1>2, <1>3, SideCases

LEMMA SendFacts ==
    ASSUME ChannelInv, NEW s \in Sides, NEW m, Sends(s, m)
    PROVE  /\ Grows
           /\ sent'[s] = sent[s] \cup {m} /\ buffer'[s] = Append(buffer[s], m)
           /\ \A u \in Sides : u # s => sent'[u] = sent[u] /\ buffer'[u] = buffer[u]
           /\ Counted(s)' \subseteq Counted(s) \cup {m}
           /\ \A u \in Sides : u # s => Counted(u)' = Counted(u)
           /\ Pipe(Peer(s))' = Pipe(Peer(s)) /\ wire'[Server] = wire[Server]
           /\ Pipe(s)' = IF s = Server \/ up THEN Append(Pipe(s), m) ELSE Pipe(s)
           /\ UNCHANGED <<maxReceived, received, up, resync, drops>>
           /\ m \in Message /\ m.id = nextId[s] /\ m.ack = maxReceived[s]
           /\ m.kind \notin Control
<1> USE DEF Sends
<1>1. /\ sent'[s] = sent[s] \cup {m} /\ buffer'[s] = Append(buffer[s], m)
      /\ \A u \in Sides : u # s => sent'[u] = sent[u] /\ buffer'[u] = buffer[u]
  BY PipeFacts DEF ChannelInv, Types
<1>2. /\ Counted(s) \subseteq Counted(s)' /\ Counted(s)' \subseteq Counted(s) \cup {m}
      /\ \A u \in Sides : u # s => Counted(u)' = Counted(u)
      /\ Grows
  <2>1. /\ Counted(s) \subseteq Counted(s)' /\ Counted(s)' \subseteq Counted(s) \cup {m}
        /\ \A u \in Sides : u # s => Counted(u)' = Counted(u)
    BY <1>1 DEF Counted
  <2>2. /\ \A u \in Sides : nextId[u] \in Nat /\ nextId'[u] \in Nat /\ nextId[u] <= nextId'[u]
        /\ \A u \in Sides : received[u] \subseteq received'[u]
    BY DEF ChannelInv, Types
  <2> QED
    BY <2>1, <2>2 DEF Grows
<1>3. /\ Pipe(Peer(s))' = Pipe(Peer(s)) /\ wire'[Server] = wire[Server]
      /\ Pipe(s)' = IF s = Server \/ up THEN Pipe(s) \o <<m>> ELSE Pipe(s)
  <2>1. <<m>> \in Seq(Message) /\ Post(s, <<m>>)
    OBVIOUS
  <2> QED
    BY <2>1, PostPipe
<1>4. Pipe(s) \o <<m>> = Append(Pipe(s), m)
  BY PipeFacts
<1> QED
  BY <1>1, <1>2, <1>3, <1>4 DEF Control

\* A side takes the next message in and answers it if it is a control message.
Gets(s, h, answers) ==
    /\ wire[Peer(s)] # <<>> /\ h = Head(wire[Peer(s)]) /\ Barrier(s)
    /\ buffer' = [buffer EXCEPT ![s] = Acknowledged(s, h)]
    /\ Take(s, answers)
    /\ nextId'[s] \in {nextId[s], nextId[s] + 1}
    /\ h.kind \in Control => nextId'[s] = nextId[s] + 1
    /\ \A u \in Sides : u # s => nextId'[u] = nextId[u] /\ handling'[u] = handling[u]
    /\ received' = [received EXCEPT ![s] =
                       IF h.kind \in Control THEN received[s] ELSE received[s] \cup {h.id}]
    /\ maxReceived' = [maxReceived EXCEPT ![s] = IF h.kind \in Control THEN maxReceived[s] ELSE h.id]
    /\ h.kind \notin Control => answers = <<>>
    /\ h.kind = "started" => \E a \in Message : /\ answers = <<a>>
                                                /\ a.kind = "ack" /\ a.ack = NoId
    /\ h.kind = "flush" => \E a \in Message :
           /\ answers = Append(Acknowledged(s, h), a)
           /\ a.kind = "ack" /\ a.ack = NoId /\ a.re = h.id
    /\ UNCHANGED <<up, resync, drops, sent>>
    /\ waiting'[Client] \subseteq waiting[Client]
    /\ s = Client /\ h.kind = "ack" => h.re \notin waiting'[Client]

LEMMA ReceiveGets ==
    ASSUME ChannelInv, NEW s \in Sides, Receive(s)
    PROVE  \E h, answers : Gets(s, h, answers)
<1>1. PICK h : h = Head(wire[Peer(s)])
  OBVIOUS
<1>2. /\ wire[Peer(s)] # <<>> /\ Barrier(s)
      /\ buffer' = [buffer EXCEPT ![s] = Acknowledged(s, h)]
      /\ ReceiveControl(s, h) \/ ReceiveAnswer(s, h) \/ ReceivePayload(s, h)
      /\ UNCHANGED <<up, resync, drops, sent>>
  BY <1>1 DEF Receive
<1>3. h \in Legit(Peer(s)) /\ h \in Message /\ h.id \in Ids
  BY <1>1, <1>2, HeadLegit DEF Message
<1>4. CASE ReceiveControl(s, h)
  <2> DEFINE a == Envelope("ack", nextId[s], NoId, h.id)
             answers == IF h.kind = "flush" THEN Append(Acknowledged(s, h), a) ELSE <<a>>
  <2>1. /\ h.kind \in Control /\ nextId[s] \in Ids
        /\ nextId' = [nextId EXCEPT ![s] = nextId[s] + 1]
        /\ Take(s, answers) /\ UNCHANGED <<maxReceived, waiting, handling, received>>
    BY <1>4 DEF ReceiveControl, Control
  <2>2. a \in Message /\ a.kind = "ack" /\ a.ack = NoId /\ a.re = h.id
    BY <1>3, <2>1 DEF Envelope, Message
  <2> HIDE DEF a
  <2>3. /\ h.kind = "flush" => answers = Append(Acknowledged(s, h), a)
        /\ h.kind # "flush" => answers = <<a>>
    OBVIOUS
  <2> HIDE DEF answers
  <2>4. /\ received' = [received EXCEPT ![s] = received[s]]
        /\ maxReceived' = [maxReceived EXCEPT ![s] = maxReceived[s]]
    BY <2>1 DEF ChannelInv, Types
  <2>5. nextId'[s] = nextId[s] + 1 /\ \A u \in Sides : u # s => nextId'[u] = nextId[u]
    BY <2>1 DEF ChannelInv, Types
  <2>6. Gets(s, h, answers)
    BY <1>1, <1>2, <2>1, <2>2, <2>3, <2>4, <2>5 DEF Gets, Control
  <2> QED
    BY <2>6
<1>5. CASE ReceiveAnswer(s, h)
  <2>1. /\ h.re # NoId
        /\ maxReceived' = [maxReceived EXCEPT ![s] = h.id]
        /\ waiting' = [waiting EXCEPT ![s] = waiting[s] \ {h.re}]
        /\ received' = [received EXCEPT ![s] = received[s] \cup {h.id}]
        /\ Take(s, <<>>) /\ UNCHANGED <<nextId, handling>>
    BY <1>5 DEF ReceiveAnswer
  <2>2. h.kind \notin Control
    BY <1>3, <2>1, PeerFacts DEF Control, Legit, ChannelInv, Numbered
  <2>3. waiting'[Client] \subseteq waiting[Client] /\ (s = Client => h.re \notin waiting'[Client])
    BY <2>1, SideCases DEF ChannelInv, Types
  <2>4. Gets(s, h, <<>>)
    BY <1>1, <1>2, <2>1, <2>2, <2>3 DEF Gets, Control
  <2> QED
    BY <2>4
<1>6. CASE ReceivePayload(s, h)
  <2>1. /\ h.kind \in {"notice", "request"}
        /\ maxReceived' = [maxReceived EXCEPT ![s] = h.id]
        /\ received' = [received EXCEPT ![s] = received[s] \cup {h.id}]
        /\ Take(s, <<>>) /\ UNCHANGED <<nextId, waiting>>
        /\ \A u \in Sides : u # s => handling'[u] = handling[u]
    BY <1>6 DEF ReceivePayload, ChannelInv, Types
  <2>2. h.kind \notin Control /\ h.kind # "ack"
    BY <2>1 DEF Control
  <2>3. Gets(s, h, <<>>)
    BY <1>1, <1>2, <2>1, <2>2 DEF Gets, Control
  <2> QED
    BY <2>3
<1> QED
  BY <1>2, <1>4, <1>5, <1>6

LEMMA TakePipe ==
    ASSUME ChannelInv, NEW s \in Sides, wire[Peer(s)] # <<>>, NEW answers \in Seq(Message),
           Take(s, answers)
    PROVE  /\ Pipe(Peer(s)) # <<>> /\ Head(Pipe(Peer(s))) = Head(wire[Peer(s)])
           /\ Pipe(Peer(s))' = Tail(Pipe(Peer(s))) /\ wire'[Peer(s)] = Tail(wire[Peer(s)])
           /\ Pipe(s)' = IF s = Server \/ up THEN Pipe(s) \o answers ELSE Pipe(s)
           /\ s = Server => wire'[Server] = wire[Server]
<1>1. CASE s = Server
  <2>1. /\ wire' = [wire EXCEPT ![Client] = Tail(wire[Client])]
        /\ outbox' = outbox \o answers /\ wire[Client] # <<>>
    BY <1>1, SideCases DEF Take
  <2>2. wire'[Client] = Tail(wire[Client]) /\ wire'[Server] = wire[Server]
    BY <2>1, PipeFacts, SideCases
  <2>3. wire[Server] \o (outbox \o answers) = (wire[Server] \o outbox) \o answers
    <3>1. wire[Server] \in Seq(Message) /\ outbox \in Seq(Message)
      BY PipeFacts, SideCases
    <3> QED
      BY <3>1, ConcatAssoc
  <2> QED
    BY <1>1, <2>1, <2>2, <2>3, SideCases DEF Pipe
<1>2. CASE s = Client
  <2> DEFINE rest == [wire EXCEPT ![Server] = Tail(wire[Server])]
  <2>1. /\ wire' = IF up THEN [rest EXCEPT ![Client] = rest[Client] \o answers] ELSE rest
        /\ outbox' = outbox /\ wire[Server] # <<>>
    BY <1>2, SideCases DEF Take
  <2>2. rest[Server] = Tail(wire[Server]) /\ rest[Client] = wire[Client] /\ DOMAIN rest = Sides
    BY PipeFacts, SideCases
  <2> HIDE DEF rest
  <2>3. /\ wire'[Server] = Tail(wire[Server])
        /\ wire'[Client] = IF up THEN wire[Client] \o answers ELSE wire[Client]
    BY <2>1, <2>2, SideCases
  <2>4. /\ Tail(wire[Server]) \o outbox = Tail(wire[Server] \o outbox)
        /\ Head(wire[Server] \o outbox) = Head(wire[Server])
        /\ wire[Server] \o outbox # <<>>
    <3>1. wire[Server] \in Seq(Message) /\ outbox \in Seq(Message) /\ wire[Server] # <<>>
      BY <2>1, PipeFacts, SideCases
    <3> QED
      BY <3>1, ConcatTail
  <2> QED
    BY <1>2, <2>1, <2>3, <2>4, SideCases DEF Pipe
<1> QED
  BY <1>1, <1>2, SideCases

LEMMA GetsFacts ==
    ASSUME ChannelInv, NEW s \in Sides, NEW h, NEW answers, Gets(s, h, answers)
    PROVE  /\ Grows /\ answers \in Seq(Message)
           /\ Pipe(Peer(s)) # <<>> /\ h = Head(Pipe(Peer(s))) /\ h = Head(wire[Peer(s)])
           /\ h \in Legit(Peer(s)) /\ h \in Message
           /\ Pipe(Peer(s))' = Tail(Pipe(Peer(s))) /\ wire'[Peer(s)] = Tail(wire[Peer(s)])
           /\ Pipe(s)' = IF s = Server \/ up THEN Pipe(s) \o answers ELSE Pipe(s)
           /\ s = Server => wire'[Server] = wire[Server]
           /\ buffer'[s] = Acknowledged(s, h)
           /\ \A u \in Sides : u # s => /\ buffer'[u] = buffer[u] /\ received'[u] = received[u]
                                        /\ maxReceived'[u] = maxReceived[u]
           /\ h.kind \in Control => received'[s] = received[s] /\ maxReceived'[s] = maxReceived[s]
           /\ h.kind \notin Control => /\ received'[s] = received[s] \cup {h.id}
                                       /\ maxReceived'[s] = h.id /\ answers = <<>>
           /\ UNCHANGED <<up, resync, drops, sent>>
<1> USE DEF Gets
<1>1. h \in Legit(Peer(s)) /\ h \in Message /\ h = Head(wire[Peer(s)])
  BY HeadLegit
<1>2. Acknowledged(s, h) \in Seq(Message)
  BY UnackedGood, PipeFacts DEF Acknowledged
<1>3. answers \in Seq(Message)
  <2>1. /\ h.kind \notin Control => answers = <<>>
        /\ h.kind = "started" => \E a \in Message : answers = <<a>>
        /\ h.kind = "flush" => \E a \in Message : answers = Append(Acknowledged(s, h), a)
    OBVIOUS
  <2>2. h.kind \notin Control \/ h.kind = "started" \/ h.kind = "flush"
    BY DEF Control
  <2> HIDE DEF Gets
  <2>3. CASE answers = <<>>
    BY <2>3
  <2>4. ASSUME NEW a \in Message, answers = <<a>> PROVE answers \in Seq(Message)
    BY <2>4
  <2>5. ASSUME NEW a \in Message, answers = Append(Acknowledged(s, h), a)
        PROVE  answers \in Seq(Message)
    BY <1>2, <2>5
  <2> QED
    BY <2>1, <2>2, <2>3, <2>4, <2>5
<1>4. /\ buffer'[s] = Acknowledged(s, h)
      /\ \A u \in Sides : u # s => /\ buffer'[u] = buffer[u] /\ received'[u] = received[u]
                                   /\ maxReceived'[u] = maxReceived[u]
      /\ h.kind \in Control => received'[s] = received[s] /\ maxReceived'[s] = maxReceived[s]
      /\ h.kind \notin Control => received'[s] = received[s] \cup {h.id} /\ maxReceived'[s] = h.id
  BY PipeFacts DEF ChannelInv, Types
<1>5. Grows
  <2>1. \A u \in Sides : nextId[u] \in Nat /\ nextId'[u] \in Nat /\ nextId[u] <= nextId'[u]
    <3>1. \A u \in Sides : nextId[u] \in Nat
      BY DEF ChannelInv, Types
    <3> QED
      BY <3>1
  <2>2. \A u \in Sides : received[u] \subseteq received'[u]
    BY <1>4
  <2> QED
    BY <2>1, <2>2 DEF Grows, Counted
<1>6. /\ Pipe(Peer(s)) # <<>> /\ Head(Pipe(Peer(s))) = h
      /\ Pipe(Peer(s))' = Tail(Pipe(Peer(s))) /\ wire'[Peer(s)] = Tail(wire[Peer(s)])
      /\ Pipe(s)' = IF s = Server \/ up THEN Pipe(s) \o answers ELSE Pipe(s)
      /\ s = Server => wire'[Server] = wire[Server]
  BY <1>1, <1>3, TakePipe
<1> QED
  BY <1>1, <1>3, <1>4, <1>5, <1>6

\* A side's own buffer gives up only what the other side has got.
LEMMA KeptPops ==
    ASSUME ChannelInv, Greeted, NEW s \in Sides, NEW h, NEW answers, Gets(s, h, answers),
           Kept(s), HonestAck(s, h.ack)
    PROVE  Kept(s)' /\ \A m \in Counted(s) : m.id \in received[Peer(s)] \cup IdsIn(Acknowledged(s, h))
<1>1. h.ack \in Int
  BY GetsFacts, LegitIds, PeerFacts
<1>2. \A m \in Counted(s) : m.id \in received[Peer(s)] \cup IdsIn(Acknowledged(s, h))
  <2>1. CASE h.ack = NoId
    BY <2>1 DEF Kept, Acknowledged
  <2>2. CASE h.ack # NoId
    <3>1. /\ Counted(s) \in SUBSET Message /\ buffer[s] \in Seq(Message)
          /\ \A m \in Counted(s) : m.id # 0
      BY PipeFacts DEF ChannelInv, Types, Counted
    <3>2. \A m \in Counted(s) : m.id \in received[Peer(s)] \cup IdsIn(Unacked(buffer[s], h.ack))
      BY <1>1, <3>1, PopKeeps DEF Kept, HonestAck
    <3> QED
      BY <2>2, <3>2 DEF Acknowledged
  <2> QED
    BY <2>1, <2>2
<1>3. buffer'[s] = Acknowledged(s, h) /\ sent' = sent /\ received[Peer(s)] \subseteq received'[Peer(s)]
  BY GetsFacts, PeerFacts DEF Grows
<1> QED
  BY <1>2, <1>3 DEF Kept, Counted

LEMMA KeptStays ==
    ASSUME ChannelInv, Grows, NEW s \in Sides, Kept(s), sent'[s] = sent[s], buffer'[s] = buffer[s]
    PROVE  Kept(s)'
BY PeerFacts DEF Kept, Counted, Grows

LEMMA KeptSends ==
    ASSUME ChannelInv, NEW s \in Sides, NEW m, Sends(s, m), NEW u \in Sides, Kept(u)
    PROVE  Kept(u)'
<1>1. /\ Grows /\ Counted(s)' \subseteq Counted(s) \cup {m}
      /\ buffer'[s] = Append(buffer[s], m) /\ m \in Message
      /\ \A v \in Sides : v # s => sent'[v] = sent[v] /\ buffer'[v] = buffer[v]
  BY SendFacts
<1>2. CASE u # s
  BY <1>1, <1>2, KeptStays
<1>3. CASE u = s
  <2>1. IdsIn(Append(buffer[s], m)) = IdsIn(buffer[s]) \cup {m.id}
    BY <1>1, PipeFacts, IdsInFacts
  <2>2. received[Peer(s)] \subseteq received'[Peer(s)]
    BY <1>1, PeerFacts DEF Grows
  <2> QED
    BY <1>1, <1>3, <2>1, <2>2 DEF Kept
<1> QED
  BY <1>2, <1>3

\* Nothing that is on its way gets lost while the connection is up.
LEMMA SettledSends ==
    ASSUME ChannelInv, up, NEW s \in Sides, NEW m, Sends(s, m), NEW u \in Sides, Settled(u)
    PROVE  Settled(u)'
<1>1. /\ Grows /\ Counted(s)' \subseteq Counted(s) \cup {m} /\ m \in Message
      /\ Pipe(s)' = Append(Pipe(s), m) /\ Pipe(Peer(s))' = Pipe(Peer(s))
      /\ \A v \in Sides : v # s => Counted(v)' = Counted(v)
  BY SendFacts
<1>2. received[Peer(u)] \subseteq received'[Peer(u)]
  BY <1>1, PeerFacts DEF Grows
<1>3. CASE u # s
  <2>1. u = Peer(s)
    BY <1>3, PeerFacts
  <2>2. Pipe(u)' = Pipe(u) /\ Counted(u)' = Counted(u)
    BY <1>1, <1>3, <2>1
  <2> QED
    BY <1>2, <2>2 DEF Settled
<1>4. CASE u = s
  <2>1. IdsIn(Pipe(s))' = IdsIn(Append(Pipe(s), m))
    BY <1>1 DEF IdsIn
  <2>2. IdsIn(Append(Pipe(s), m)) = IdsIn(Pipe(s)) \cup {m.id}
    BY <1>1, PipeFacts, IdsInFacts
  <2> QED
    BY <1>1, <1>2, <1>4, <2>1, <2>2 DEF Settled
<1> QED
  BY <1>3, <1>4

LEMMA SettledGets ==
    ASSUME ChannelInv, Greeted, NEW s \in Sides, NEW h, NEW answers, Gets(s, h, answers),
           NEW u \in Sides, Settled(u)
    PROVE  Settled(u)'
<1>1. /\ Grows /\ answers \in Seq(Message)
      /\ Pipe(Peer(s)) # <<>> /\ h = Head(Pipe(Peer(s))) /\ h \in Legit(Peer(s))
      /\ Pipe(Peer(s))' = Tail(Pipe(Peer(s)))
      /\ Pipe(s)' = IF s = Server \/ up THEN Pipe(s) \o answers ELSE Pipe(s)
      /\ h.kind \notin Control => received'[s] = received[s] \cup {h.id}
  BY GetsFacts
<1>2. received[Peer(u)] \subseteq received'[Peer(u)] /\ Counted(u)' = Counted(u)
  BY <1>1, GetsFacts, PeerFacts DEF Grows, Counted
<1>3. CASE u = s
  <2>1. IdsIn(Pipe(s)) \subseteq IdsIn(Pipe(s) \o answers)
    <3>1. Pipe(s) \in Seq(Message)
      BY PipeFacts
    <3>2. IdsIn(Pipe(s) \o answers) = IdsIn(Pipe(s)) \cup IdsIn(answers)
      BY <1>1, <3>1, IdsInFacts
    <3> QED
      BY <3>2
  <2>2. IdsIn(Pipe(s))' = IdsIn(Pipe(s)) \/ IdsIn(Pipe(s))' = IdsIn(Pipe(s) \o answers)
    <3>1. Pipe(s)' = Pipe(s) \/ Pipe(s)' = Pipe(s) \o answers
      BY <1>1
    <3> QED
      BY <3>1 DEF IdsIn
  <2> QED
    BY <1>1, <1>2, <1>3, <2>1, <2>2 DEF Settled
<1>4. CASE u = Peer(s)
  <2>1. IdsIn(Pipe(u)) = {h.id} \cup IdsIn(Tail(Pipe(u)))
    BY <1>1, <1>4, PipeFacts, IdsInFacts
  <2>2. IdsIn(Pipe(u))' = IdsIn(Tail(Pipe(u)))
    BY <1>1, <1>4 DEF IdsIn
  <2>3. Peer(u) = s
    BY <1>4, PeerFacts
  <2>4. h.id \in received'[s] \/ \A x \in Counted(u) : x.id # h.id
    <3>1. h.kind \in Control => \A x \in Counted(u) : x.id # h.id
      BY <1>1, <1>4, LegitIds
    <3> QED
      BY <1>1, <3>1
  <2> QED
    BY <1>1, <1>2, <2>1, <2>2, <2>3, <2>4 DEF Settled
<1> QED
  BY <1>3, <1>4, PeerFacts

\* Everything a side posts carries what it acknowledges, or nothing.
LEMMA AcksSends ==
    ASSUME ChannelInv, Greeted, NEW s \in Sides, NEW m, Sends(s, m),
           NEW u \in Sides, AcksHonest(u)
    PROVE  AcksHonest(u)'
<1>1. /\ Grows /\ sent'[s] = sent[s] \cup {m} /\ m \in Message /\ m.ack = maxReceived[s]
      /\ \A v \in Sides : v # s => sent'[v] = sent[v]
      /\ Pipe(s)' = (IF s = Server \/ up THEN Append(Pipe(s), m) ELSE Pipe(s))
      /\ Pipe(Peer(s))' = Pipe(Peer(s)) /\ maxReceived' = maxReceived
  BY SendFacts
<1>2. ASSUME NEW v \in Sides, NEW k \in DOMAIN Pipe(v)'
      PROVE  Pipe(v)'[k].ack \in Acks(v)
  <2>1. CASE Pipe(v)' = Pipe(v)
    BY <1>2, <2>1 DEF Acks
  <2>2. CASE v = s /\ Pipe(s)' = Append(Pipe(s), m)
    <3>1. Pipe(s) \in Seq(Message)
      BY PipeFacts
    <3>2. k \in DOMAIN Append(Pipe(s), m)
      BY <1>2, <2>2
    <3>3. (k \in DOMAIN Pipe(s) /\ Pipe(s)'[k] = Pipe(s)[k]) \/ Pipe(s)'[k] = m
      BY <1>1, <2>2, <3>1, <3>2
    <3> QED
      BY <1>1, <2>2, <3>3 DEF Acks
  <2> QED
    BY <1>1, <2>1, <2>2, PeerFacts
<1>3. ASSUME NEW v \in Sides PROVE Acks(v)' \subseteq Acks(v)
  <2>1. \A n \in sent'[v] : n.ack \in Acks(v)
    BY <1>1 DEF Acks
  <2>2. maxReceived'[v] \in Acks(v)
    BY <1>1 DEF Acks
  <2> QED
    BY <1>2, <2>1, <2>2 DEF Acks
<1> QED
  BY <1>1, <1>3, PeerFacts, AcksStay

LEMMA AcksGets ==
    ASSUME ChannelInv, Greeted, NEW s \in Sides, NEW h, NEW answers, Gets(s, h, answers),
           NEW u \in Sides, AcksHonest(u),
           u = Peer(s) /\ h.kind \notin Control => HonestAck(u, h.id)'
    PROVE  AcksHonest(u)'
<1>1. /\ Grows /\ sent' = sent /\ answers \in Seq(Message) /\ h \in Legit(Peer(s))
      /\ Pipe(Peer(s)) # <<>> /\ Pipe(Peer(s))' = Tail(Pipe(Peer(s)))
      /\ Pipe(s)' = (IF s = Server \/ up THEN Pipe(s) \o answers ELSE Pipe(s))
      /\ \A v \in Sides : v # s => maxReceived'[v] = maxReceived[v]
      /\ h.kind \in Control => maxReceived'[s] = maxReceived[s]
      /\ h.kind \notin Control => maxReceived'[s] = h.id
  BY GetsFacts
<1>2. CASE u = s
  <2>1. Peer(s) \in Sides /\ Peer(s) # s /\ Pipe(Peer(s)) \in Seq(Message)
    BY PeerFacts, PipeFacts
  <2>2. ASSUME NEW k \in DOMAIN Pipe(Peer(s))' PROVE Pipe(Peer(s))'[k].ack \in Acks(Peer(s))
    <3>1. k \in DOMAIN Tail(Pipe(Peer(s)))
      BY <1>1, <2>2
    <3>2. k + 1 \in DOMAIN Pipe(Peer(s)) /\ Tail(Pipe(Peer(s)))[k] = Pipe(Peer(s))[k + 1]
      BY <1>1, <2>1, <3>1
    <3> QED
      BY <1>1, <3>2 DEF Acks
  <2>3. Acks(Peer(s))' \subseteq Acks(Peer(s))
    BY <1>1, <2>1, <2>2 DEF Acks
  <2> QED
    BY <1>1, <1>2, <2>3, AcksStay
<1>3. CASE u = Peer(s)
  <2>1. Peer(u) = s
    BY <1>3, PeerFacts
  <2>2. HonestAck(u, NoId)' /\ NoId \in Int
    BY DEF HonestAck, Honest, NoId
  <2>3. ASSUME NEW k \in DOMAIN answers PROVE answers[k].ack = NoId \/ answers[k].ack \in Acks(s)
    <3>1. /\ h.kind \notin Control => answers = <<>>
          /\ h.kind = "started" => \E a \in Message : answers = <<a>> /\ a.ack = NoId
          /\ h.kind = "flush" => \E a \in Message : /\ answers = Append(Acknowledged(s, h), a)
                                                    /\ a.ack = NoId
      BY DEF Gets
    <3>2. CASE h.kind = "started"
      <4>1. PICK a \in Message : answers = <<a>> /\ a.ack = NoId
        BY <3>1, <3>2
      <4>2. k = 1
        BY <2>3, <4>1
      <4> QED
        BY <4>1, <4>2
    <3>3. CASE h.kind = "flush"
      <4>1. PICK a \in Message : answers = Append(Acknowledged(s, h), a) /\ a.ack = NoId
        BY <3>1, <3>3
      <4>2. PICK q : q = Acknowledged(s, h)
        OBVIOUS
      <4>3. q \in Seq(sent[s])
        BY <4>2, UnackedGood DEF Acknowledged, ChannelInv, Queues
      <4>4. answers[k] = a \/ (k \in 1 .. Len(q) /\ answers[k] = q[k])
        <5>1. k \in DOMAIN Append(q, a) /\ answers = Append(q, a)
          BY <2>3, <4>1, <4>2
        <5> QED
          BY <4>3, <5>1
      <4>5. answers[k] = a \/ answers[k] \in sent[s]
        BY <4>3, <4>4
      <4> QED
        BY <4>1, <4>5 DEF Acks
    <3>4. h.kind \in Control
      BY <2>3, <3>1
    <3> QED
      BY <3>2, <3>3, <3>4 DEF Control
  <2>4. ASSUME NEW k \in DOMAIN Pipe(s)'
        PROVE  Pipe(s)'[k].ack = NoId \/ Pipe(s)'[k].ack \in Acks(s)
    <3>1. CASE Pipe(s)' = Pipe(s)
      BY <2>4, <3>1 DEF Acks
    <3>2. CASE Pipe(s)' = Pipe(s) \o answers
      <4>1. PICK q \in Seq(Message) : q = Pipe(s)
        BY PipeFacts
      <4>2. k \in DOMAIN (q \o answers)
        BY <2>4, <3>2, <4>1
      <4>3. \/ k \in DOMAIN q /\ (q \o answers)[k] = q[k]
            \/ k - Len(q) \in DOMAIN answers /\ (q \o answers)[k] = answers[k - Len(q)]
        BY <1>1, <4>1, <4>2
      <4>4. CASE k \in DOMAIN q /\ (q \o answers)[k] = q[k]
        BY <3>2, <4>1, <4>4 DEF Acks
      <4>5. CASE k - Len(q) \in DOMAIN answers /\ (q \o answers)[k] = answers[k - Len(q)]
        BY <2>3, <3>2, <4>1, <4>5
      <4> QED
        BY <4>3, <4>4, <4>5
    <3> QED
      BY <1>1, <3>1, <3>2
  <2>5. ASSUME NEW a \in Acks(s)' PROVE a \in Acks(s) \/ (a \in Int /\ HonestAck(u, a)')
    <3>1. a = maxReceived'[s] \/ (\E m \in sent[s] : a = m.ack)
          \/ \E k \in DOMAIN Pipe(s)' : a = Pipe(s)'[k].ack
      BY <1>1, <2>5 DEF Acks
    <3>2. maxReceived'[s] \in Acks(s) \/ (h.id \in Int /\ maxReceived'[s] = h.id /\ h.kind \notin Control)
      BY <1>1, LegitIds, PeerFacts DEF Acks
    <3> QED
      BY <1>3, <2>2, <2>4, <3>1, <3>2 DEF Acks
  <2> QED
    BY <1>1, <2>1, <2>5, AcksStay
<1> QED
  BY <1>2, <1>3, PeerFacts

\* The message that comes next in an orderly stream is honest to acknowledge.
LEMMA NextHonest ==
    ASSUME ChannelInv, Greeted, NEW s \in Sides, NEW h, NEW answers, Gets(s, h, answers),
           NEW q, NEW k \in Nat, k > 0, q[1] = h, h.kind \notin Control,
           Ordered(Counted(Peer(s)), received[s], q, k)
    PROVE  HonestAck(Peer(s), h.id)'
<1>1. h.id < nextId[Peer(s)] /\ Peer(Peer(s)) = s /\ Peer(s) \in Sides
  BY GetsFacts, LegitIds, PeerFacts
<1>2. /\ nextId'[Peer(s)] = nextId[Peer(s)] /\ sent' = sent
      /\ received'[s] = received[s] \cup {h.id}
  BY GetsFacts, PeerFacts DEF Gets
<1>3. Honest(Counted(Peer(s)), received[s] \cup {h.id}, nextId[Peer(s)], h.id)
  BY <1>1, HeadHonest
<1> QED
  BY <1>1, <1>2, <1>3 DEF HonestAck, Counted

\* What follows in it stays in order.
LEMMA OrderGets ==
    ASSUME ChannelInv, Greeted, NEW s \in Sides, NEW h, NEW answers, Gets(s, h, answers),
           NEW q \in Seq(Message), q # <<>>, NEW k \in Nat, k <= Len(q), k > 0, q[1] = h,
           Ordered(Counted(Peer(s)), received[s], q, k)
    PROVE  Ordered(Counted(Peer(s))', received'[s], Tail(q), k - 1)
<1>1. /\ Counted(Peer(s))' = Counted(Peer(s)) /\ received[s] \subseteq received'[s]
      /\ h.id \in received'[s] \/ \A x \in Counted(Peer(s)) : x.id # h.id
  <2>1. /\ Counted(Peer(s))' = Counted(Peer(s)) /\ received[s] \subseteq received'[s] /\ h \in Legit(Peer(s))
        /\ h.kind \notin Control => h.id \in received'[s]
    <3>1. Counted(Peer(s))' = Counted(Peer(s))
      BY DEF Gets, Counted
    <3>2. /\ Grows /\ h \in Legit(Peer(s))
          /\ h.kind \notin Control => received'[s] = received[s] \cup {h.id}
      BY GetsFacts
    <3> QED
      BY <3>1, <3>2 DEF Grows
  <2>2. h.kind \in Control => \A x \in Counted(Peer(s)) : x.id # h.id
    BY <2>1, LegitIds, PeerFacts
  <2> QED
    BY <2>1, <2>2
<1> QED
  BY <1>1, OrderedTail

-----------------------------------------------------------------------------
(* Before and during the first drop.                                       *)

LEMMA PipeOrderStays ==
    ASSUME ChannelInv, Greeted, Grows, NEW s \in Sides, InOrder(s), Pipe(s)' = Pipe(s)
    PROVE  InOrder(s)'
<1>1. PICK q \in Seq(Legit(s)) : q = Pipe(s)
  BY PipeFacts
<1>2. Ordered(Counted(s), received[Peer(s)], q, Len(q))
  BY <1>1 DEF InOrder
<1>3. Ordered(Counted(s)', received'[Peer(s)], q, Len(q))
  <2>1. Len(q) \in Nat /\ Len(q) <= Len(q)
    OBVIOUS
  <2> QED
    BY <1>2, <2>1, OrderStays
<1> QED
  BY <1>1, <1>3 DEF InOrder

LEMMA WireOrderStays ==
    ASSUME ChannelInv, Greeted, Grows, NEW s \in Sides, WireInOrder(s), wire'[s] = wire[s]
    PROVE  WireInOrder(s)'
<1>1. PICK q \in Seq(Legit(s)) : q = wire[s]
  BY PipeFacts
<1>2. Ordered(Counted(s), received[Peer(s)], q, Len(q))
  BY <1>1 DEF WireInOrder
<1>3. Ordered(Counted(s)', received'[Peer(s)], q, Len(q))
  <2>1. Len(q) \in Nat /\ Len(q) <= Len(q)
    OBVIOUS
  <2> QED
    BY <1>2, <2>1, OrderStays
<1> QED
  BY <1>1, <1>3 DEF WireInOrder

LEMMA PostedInOrder ==
    ASSUME ChannelInv, Greeted, Grows, NEW s \in Sides, InOrder(s), NEW m \in Message,
           Pipe(s)' = Append(Pipe(s), m), Settled(s)'
    PROVE  InOrder(s)'
<1>1. PICK q \in Seq(Legit(s)) : q = Pipe(s) /\ q \in Seq(Message)
  BY PipeFacts
<1>2. Ordered(Counted(s), received[Peer(s)], q, Len(q))
  BY <1>1 DEF InOrder
<1>3. Ordered(Counted(s)', received'[Peer(s)], q, Len(q))
  <2>1. Len(q) \in Nat /\ Len(q) <= Len(q)
    OBVIOUS
  <2> QED
    BY <1>2, <2>1, OrderStays
<1>4. \A x \in Counted(s)' : x.id \in received'[Peer(s)] \cup IdsIn(Append(q, m))
  <2>1. IdsIn(Pipe(s))' = IdsIn(Append(q, m))
    BY <1>1 DEF IdsIn
  <2> QED
    BY <2>1 DEF Settled
<1>5. Ordered(Counted(s)', received'[Peer(s)], Append(q, m), Len(Append(q, m)))
  BY <1>1, <1>3, <1>4, OrderedPosts
<1> QED
  BY <1>1, <1>5 DEF InOrder

LEMMA NoFlushSends ==
    ASSUME ChannelInv, NoFlush, NEW s \in Sides, NEW m, Sends(s, m) PROVE NoFlush'
<1>1. /\ Pipe(s)' = (IF s = Server \/ up THEN Append(Pipe(s), m) ELSE Pipe(s))
      /\ Pipe(Peer(s))' = Pipe(Peer(s)) /\ m \in Message /\ m.kind # "flush"
  BY SendFacts DEF Control
<1>2. Pipe(s) \in Seq(Message)
  BY PipeFacts
<1>3. ASSUME NEW k \in DOMAIN Pipe(s)' PROVE Pipe(s)'[k].kind # "flush"
  <2>1. CASE Pipe(s)' = Pipe(s)
    BY <1>3, <2>1 DEF NoFlush
  <2>2. CASE Pipe(s)' = Append(Pipe(s), m)
    <3>1. k \in DOMAIN Append(Pipe(s), m)
      BY <1>3, <2>2
    <3>2. Append(Pipe(s), m)[k] = m \/ (k \in DOMAIN Pipe(s) /\ Append(Pipe(s), m)[k] = Pipe(s)[k])
      BY <1>1, <1>2, <3>1
    <3> QED
      BY <1>1, <2>2, <3>2 DEF NoFlush
  <2> QED
    BY <1>1, <2>1, <2>2
<1> QED
  BY <1>1, <1>3, PeerFacts DEF NoFlush

LEMMA NoFlushGets ==
    ASSUME ChannelInv, NoFlush, NEW s \in Sides, NEW h, NEW answers, Gets(s, h, answers)
    PROVE  /\ NoFlush' /\ h.kind # "flush"
           /\ answers = <<>> \/ \E a \in Message : answers = <<a>>
<1>1. /\ Pipe(s)' = (IF s = Server \/ up THEN Pipe(s) \o answers ELSE Pipe(s))
      /\ Pipe(Peer(s))' = Tail(Pipe(Peer(s))) /\ Pipe(Peer(s)) # <<>>
      /\ h = Head(Pipe(Peer(s)))
  BY GetsFacts
<1>2. Pipe(s) \in Seq(Message) /\ Pipe(Peer(s)) \in Seq(Message) /\ Peer(s) \in Sides
  BY PipeFacts, PeerFacts
<1>3. h.kind # "flush"
  <2>1. 1 \in DOMAIN Pipe(Peer(s)) /\ Head(Pipe(Peer(s))) = Pipe(Peer(s))[1]
    BY <1>1, <1>2
  <2> QED
    BY <1>1, <1>2, <2>1 DEF NoFlush
<1>4. answers = <<>> \/ \E a \in Message : answers = <<a>> /\ a.kind = "ack"
  BY <1>3 DEF Gets, Control
<1>5. ASSUME NEW k \in DOMAIN Pipe(Peer(s))' PROVE Pipe(Peer(s))'[k].kind # "flush"
  <2>1. k \in DOMAIN Tail(Pipe(Peer(s)))
    BY <1>1, <1>5
  <2>2. k + 1 \in DOMAIN Pipe(Peer(s)) /\ Tail(Pipe(Peer(s)))[k] = Pipe(Peer(s))[k + 1]
    BY <1>1, <1>2, <2>1
  <2> QED
    BY <1>1, <1>2, <2>2 DEF NoFlush
<1>6. ASSUME NEW k \in DOMAIN Pipe(s)' PROVE Pipe(s)'[k].kind # "flush"
  <2>1. CASE Pipe(s)' = Pipe(s)
    BY <1>6, <2>1 DEF NoFlush
  <2>2. CASE Pipe(s)' = Pipe(s) \o answers
    <3>1. CASE answers = <<>>
      <4>1. Pipe(s) \o answers = Pipe(s)
        BY <1>2, <3>1
      <4> QED
        BY <2>1, <2>2, <4>1
    <3>2. ASSUME NEW a \in Message, answers = <<a>>, a.kind = "ack" PROVE Pipe(s)'[k].kind # "flush"
      <4>1. k \in DOMAIN (Pipe(s) \o <<a>>)
        BY <1>6, <2>2, <3>2
      <4>2. \/ (Pipe(s) \o <<a>>)[k] = a
            \/ k \in DOMAIN Pipe(s) /\ (Pipe(s) \o <<a>>)[k] = Pipe(s)[k]
        BY <1>2, <4>1
      <4> QED
        BY <2>2, <3>2, <4>2 DEF NoFlush
    <3> QED
      BY <1>4, <3>1, <3>2
  <2> QED
    BY <1>1, <2>1, <2>2
<1>7. NoFlush'
  BY <1>5, <1>6, PeerFacts DEF NoFlush
<1> QED
  BY <1>3, <1>4, <1>7

LEMMA EarlySends ==
    ASSUME ChannelInv, up, EarlyComes, NEW s \in Sides, NEW m, Sends(s, m) PROVE EarlyComes'
<1>1. /\ Pipe(s)' = Append(Pipe(s), m) /\ Pipe(Peer(s))' = Pipe(Peer(s)) /\ m \in Message
      /\ sent'[s] = sent[s] \cup {m} /\ received' = received
      /\ \A u \in Sides : u # s => sent'[u] = sent[u]
  BY SendFacts
<1>2. PICK q \in Seq(Message) : q = Pipe(Server)
  BY PipeFacts, SideCases
<1>3. Pipe(Server)' = q \/ (s = Server /\ Pipe(Server)' = Append(q, m))
  BY <1>1, <1>2, SideCases
<1>4. /\ Len(q) + 1 \in DOMAIN Append(q, m) /\ Append(q, m)[Len(q) + 1] = m
      /\ \A k \in DOMAIN q : k \in DOMAIN Append(q, m) /\ Append(q, m)[k] = q[k]
  BY <1>1, <1>2
<1>5. sent'[Server] = sent[Server] \/ (s = Server /\ sent'[Server] = sent[Server] \cup {m})
  BY <1>1, SideCases
<1>6. ASSUME NEW x \in sent[Server], x.id = 0, 0 \notin received[Client]
      PROVE  \E k \in DOMAIN Pipe(Server)' : Pipe(Server)'[k] = x
  <2>1. PICK k \in DOMAIN q : q[k] = x
    BY <1>2, <1>6 DEF EarlyComes
  <2> QED
    BY <1>3, <1>4, <2>1
<1>7. ASSUME s = Server PROVE \E k \in DOMAIN Pipe(Server)' : Pipe(Server)'[k] = m
  BY <1>1, <1>2, <1>4, <1>7
<1> QED
  BY <1>1, <1>5, <1>6, <1>7 DEF EarlyComes

LEMMA EarlyGets ==
    ASSUME ChannelInv, up, EarlyComes, NEW s \in Sides, NEW h, NEW answers, Gets(s, h, answers)
    PROVE  EarlyComes'
<1>1. /\ sent' = sent /\ answers \in Seq(Message)
      /\ \A u \in Sides : u # s => received'[u] = received[u]
      /\ Pipe(Peer(s)) # <<>> /\ h = Head(Pipe(Peer(s))) /\ Pipe(Peer(s))' = Tail(Pipe(Peer(s)))
      /\ Pipe(s)' = IF s = Server \/ up THEN Pipe(s) \o answers ELSE Pipe(s)
      /\ h.kind \notin Control => received'[s] = received[s] \cup {h.id}
      /\ received[Client] \subseteq received'[Client]
  BY GetsFacts, SideCases DEF Grows
<1>2. PICK q \in Seq(Message) : q = Pipe(Server)
  BY PipeFacts, SideCases
<1>3. ASSUME NEW x \in sent[Server], x.id = 0, 0 \notin received'[Client]
      PROVE  \E k \in DOMAIN Pipe(Server)' : Pipe(Server)'[k] = x
  <2>1. PICK k \in DOMAIN q : q[k] = x
    BY <1>1, <1>2, <1>3 DEF EarlyComes
  <2>2. CASE s = Server
    <3>1. k \in DOMAIN (q \o answers) /\ (q \o answers)[k] = q[k]
      BY <1>1, <1>2, <2>1
    <3> QED
      BY <1>1, <1>2, <2>1, <2>2, <3>1
  <2>3. CASE s = Client
    <3>1. q # <<>> /\ h = Head(q) /\ Pipe(Server)' = Tail(q)
      BY <1>1, <1>2, <2>3, SideCases
    <3>2. x.kind \notin Control
      BY SideCases DEF ChannelInv, Numbered, Control
    <3>3. k # 1
      <4>1. k = 1 => h = x
        BY <1>2, <2>1, <3>1
      <4> QED
        BY <1>1, <1>3, <2>3, <3>2, <4>1
    <3>4. k - 1 \in DOMAIN Tail(q) /\ Tail(q)[k - 1] = q[k]
      BY <1>2, <2>1, <3>1, <3>3
    <3> QED
      BY <2>1, <3>1, <3>4
  <2> QED
    BY <2>2, <2>3, SideCases
<1> QED
  BY <1>1, <1>3 DEF EarlyComes

LEMMA UndroppedSends ==
    ASSUME ChannelInv, Greeted, Undropped, NEW s \in Sides, NEW m, Sends(s, m) PROVE Undropped'
<1>1. /\ Grows /\ UNCHANGED <<up, resync>> /\ m \in Message
      /\ Pipe(s)' = Append(Pipe(s), m) /\ Pipe(Peer(s))' = Pipe(Peer(s))
  BY SendFacts DEF Undropped
<1>2. up' /\ resync' = NoId /\ NoFlush' /\ EarlyComes'
  BY <1>1, NoFlushSends, EarlySends DEF Undropped
<1>3. ASSUME NEW u \in Sides PROVE Settled(u)' /\ Kept(u)' /\ AcksHonest(u)'
  BY SettledSends, KeptSends, AcksSends DEF Undropped
<1>4. ASSUME NEW u \in Sides PROVE InOrder(u)'
  <2>1. CASE u = s
    BY <1>1, <1>3, <2>1, PostedInOrder DEF Undropped
  <2>2. CASE u # s
    <3>1. Pipe(u)' = Pipe(u)
      BY <1>1, <2>2, PeerFacts
    <3> QED
      BY <1>1, <3>1, PipeOrderStays DEF Undropped
  <2> QED
    BY <2>1, <2>2
<1> QED
  BY <1>2, <1>3, <1>4 DEF Undropped

LEMMA UndroppedGets ==
    ASSUME ChannelInv, Greeted, Undropped, NEW s \in Sides, NEW h, NEW answers,
           Gets(s, h, answers)
    PROVE  Undropped'
<1>1. /\ Grows /\ UNCHANGED <<up, resync, sent>> /\ answers \in Seq(Message)
      /\ Pipe(s)' = Pipe(s) \o answers
      /\ Pipe(Peer(s)) # <<>> /\ h = Head(Pipe(Peer(s))) /\ Pipe(Peer(s))' = Tail(Pipe(Peer(s)))
      /\ \A u \in Sides : u # s => buffer'[u] = buffer[u]
  <2>1. up
    BY DEF Undropped
  <2>2. Pipe(s)' = IF s = Server \/ up THEN Pipe(s) \o answers ELSE Pipe(s)
    BY GetsFacts
  <2>3. Pipe(s)' = Pipe(s) \o answers
    BY <2>1, <2>2
  <2> QED
    BY <2>3, GetsFacts
<1>2. up' /\ resync' = NoId /\ NoFlush' /\ EarlyComes'
  BY <1>1, NoFlushGets, EarlyGets DEF Undropped
<1>3. PICK q \in Seq(Message) : q = Pipe(Peer(s))
  BY PipeFacts, PeerFacts
<1>4. q # <<>> /\ q[1] = h /\ Len(q) \in Nat /\ Len(q) > 0 /\ 1 \in DOMAIN q
      /\ Tail(q) \in Seq(Message) /\ Len(Tail(q)) = Len(q) - 1
  BY <1>1, <1>3
<1>5. Ordered(Counted(Peer(s)), received[s], q, Len(q))
  BY <1>3, PeerFacts DEF Undropped, InOrder
<1>6. ASSUME NEW u \in Sides PROVE Settled(u)'
  BY SettledGets DEF Undropped
<1>7. ASSUME NEW u \in Sides PROVE Kept(u)'
  <2>1. CASE u = s
    <3>1. h.ack \in Acks(Peer(s))
      BY <1>3, <1>4 DEF Acks
    <3>2. HonestAck(s, h.ack)
      BY <3>1 DEF Undropped, AcksHonest
    <3> QED
      BY <2>1, <3>2, KeptPops DEF Undropped
  <2>2. CASE u # s
    BY <1>1, <2>2, KeptStays DEF Undropped
  <2> QED
    BY <2>1, <2>2
<1>8. ASSUME NEW u \in Sides PROVE AcksHonest(u)'
  <2>1. h.kind \notin Control => HonestAck(Peer(s), h.id)'
    BY <1>4, <1>5, NextHonest
  <2> QED
    BY <2>1, AcksGets DEF Undropped
<1>9. InOrder(Peer(s))'
  <2>1. Ordered(Counted(Peer(s))', received'[s], Tail(q), Len(Tail(q)))
    BY <1>4, <1>5, OrderGets
  <2> QED
    BY <1>1, <1>3, <2>1, PeerFacts DEF InOrder
<1>10. InOrder(s)'
  <2>1. CASE answers = <<>>
    <3>1. Pipe(s)' = Pipe(s)
      BY <1>1, <2>1, PipeFacts
    <3> QED
      BY <1>1, <3>1, PipeOrderStays DEF Undropped
  <2>2. ASSUME NEW a \in Message, answers = <<a>> PROVE InOrder(s)'
    <3>1. Pipe(s)' = Append(Pipe(s), a)
      BY <1>1, <2>2, PipeFacts
    <3> QED
      BY <1>1, <1>6, <3>1, PostedInOrder DEF Undropped
  <2> QED
    BY <2>1, <2>2, NoFlushGets DEF Undropped
<1> QED
  BY <1>2, <1>6, <1>7, <1>8, <1>9, <1>10, PeerFacts DEF Undropped

LEMMA DownSends ==
    ASSUME ChannelInv, Greeted, Down, NEW s \in Sides, NEW m, Sends(s, m) PROVE Down'
<1>1. /\ Grows /\ UNCHANGED up /\ wire'[Server] = wire[Server]
      /\ Pipe(s)' = (IF s = Server THEN Append(Pipe(s), m) ELSE Pipe(s))
      /\ Pipe(Peer(s))' = Pipe(Peer(s))
  BY SendFacts DEF Down
<1>2. wire'[Client] = wire[Client]
  BY <1>1, SideCases DEF Pipe
<1>3. ASSUME NEW u \in Sides PROVE Kept(u)' /\ AcksHonest(u)' /\ WireInOrder(u)'
  <2>1. wire'[u] = wire[u]
    BY <1>1, <1>2, SideCases
  <2> QED
    BY <1>1, <2>1, KeptSends, AcksSends, WireOrderStays DEF Down
<1> QED
  BY <1>1, <1>3, NoFlushSends DEF Down

LEMMA DownGets ==
    ASSUME ChannelInv, Greeted, Down, NEW s \in Sides, NEW h, NEW answers, Gets(s, h, answers)
    PROVE  Down'
<1>1. /\ Grows /\ UNCHANGED <<up, sent>>
      /\ Pipe(s)' = (IF s = Server THEN Pipe(s) \o answers ELSE Pipe(s))
      /\ Pipe(Peer(s)) # <<>> /\ h = Head(Pipe(Peer(s))) /\ h = Head(wire[Peer(s)])
      /\ wire'[Peer(s)] = Tail(wire[Peer(s)]) /\ wire[Peer(s)] # <<>>
      /\ s = Server => wire'[Server] = wire[Server]
      /\ \A u \in Sides : u # s => buffer'[u] = buffer[u]
  <2>1. ~up
    BY DEF Down
  <2>2. Pipe(s)' = IF s = Server \/ up THEN Pipe(s) \o answers ELSE Pipe(s)
    BY GetsFacts
  <2>3. Pipe(s)' = IF s = Server THEN Pipe(s) \o answers ELSE Pipe(s)
    BY <2>1, <2>2
  <2>4. wire[Peer(s)] # <<>>
    BY DEF Gets
  <2> QED
    BY <2>3, <2>4, GetsFacts
<1>2. PICK q \in Seq(Message) : q = wire[Peer(s)]
  BY PipeFacts, PeerFacts
<1>3. q # <<>> /\ q[1] = h /\ Len(q) \in Nat /\ Len(q) > 0
      /\ Tail(q) \in Seq(Message) /\ Len(Tail(q)) = Len(q) - 1
  BY <1>1, <1>2
<1>4. Ordered(Counted(Peer(s)), received[s], q, Len(q))
  BY <1>2, PeerFacts DEF Down, WireInOrder
<1>5. ASSUME NEW u \in Sides PROVE Kept(u)'
  <2>1. CASE u = s
    <3>1. h.ack \in Acks(Peer(s))
      <4>1. PICK p \in Seq(Message) : p = Pipe(Peer(s))
        BY PipeFacts, PeerFacts
      <4>2. 1 \in DOMAIN p /\ h = p[1]
        BY <1>1, <4>1
      <4> QED
        BY <4>1, <4>2 DEF Acks
    <3>2. HonestAck(s, h.ack)
      BY <3>1 DEF Down, AcksHonest
    <3> QED
      BY <2>1, <3>2, KeptPops DEF Down
  <2>2. CASE u # s
    BY <1>1, <2>2, KeptStays DEF Down
  <2> QED
    BY <2>1, <2>2
<1>6. ASSUME NEW u \in Sides PROVE AcksHonest(u)'
  <2>1. h.kind \notin Control => HonestAck(Peer(s), h.id)'
    BY <1>3, <1>4, NextHonest
  <2> QED
    BY <2>1, AcksGets DEF Down
<1>7. WireInOrder(Peer(s))'
  <2>1. Ordered(Counted(Peer(s))', received'[s], Tail(q), Len(Tail(q)))
    BY <1>3, <1>4, OrderGets
  <2> QED
    BY <1>1, <1>2, <2>1, PeerFacts DEF WireInOrder
<1>8. WireInOrder(s)'
  <2>1. wire'[s] = wire[s]
    BY <1>1, SideCases DEF Pipe
  <2> QED
    BY <1>1, <2>1, WireOrderStays DEF Down
<1> QED
  BY <1>1, <1>5, <1>6, <1>7, <1>8, NoFlushGets, PeerFacts DEF Down

-----------------------------------------------------------------------------
(* After the reconnect.                                                    *)

\* What joins the end of a stream changes nothing before it.
LEMMA FlushStays ==
    ASSUME ChannelInv, Greeted, Grows, NEW r \in Seq(Message), wire'[Client] = wire[Client] \o r,
           NEW i \in DOMAIN wire[Client], FlushAt(i)
    PROVE  i \in DOMAIN wire'[Client] /\ FlushAt(i)'
<1>1. PICK q \in Seq(Legit(Client)) : q = wire[Client] /\ q \in Seq(Message)
  BY PipeFacts, SideCases
<1>2. i \in 1 .. Len(q) /\ i \in DOMAIN (q \o r) /\ \A k \in 1 .. i : (q \o r)[k] = q[k]
  BY <1>1
<1>3. ASSUME NEW k \in 1 .. i PROVE HonestAck(Server, q[k].ack)'
  <2>1. q[k] \in Legit(Client)
    BY <1>1, <1>2
  <2>2. q[k].ack \in Int /\ HonestAck(Server, q[k].ack)
    BY <1>1, <2>1, LegitIds, SideCases DEF FlushAt
  <2> QED
    BY <2>2, HonestStays, SideCases
<1>4. wire'[Client][i] = q[i] /\ \A k \in 1 .. i : wire'[Client][k] = q[k]
  BY <1>1, <1>2
<1> QED
  BY <1>1, <1>2, <1>3, <1>4 DEF FlushAt

LEMMA AskedStays ==
    ASSUME ChannelInv, Greeted, Grows, NEW r \in Seq(Message), wire'[Client] = wire[Client] \o r,
           resync' = resync, NEW i \in DOMAIN wire[Client], AskedAt(i)
    PROVE  i \in DOMAIN wire'[Client] /\ AskedAt(i)'
<1>1. PICK q \in Seq(Legit(Client)) : q = wire[Client] /\ q \in Seq(Message)
  BY PipeFacts, SideCases
<1>2. i \in 1 .. Len(q) /\ i \in DOMAIN (q \o r) /\ \A k \in 1 .. i : (q \o r)[k] = q[k]
  BY <1>1
<1>3. /\ i - 1 \in Nat /\ i - 1 <= Len(q) /\ i - 1 <= Len(q \o r) /\ q \o r \in Seq(Message)
      /\ \A k \in 1 .. (i - 1) : k \in 1 .. i
  BY <1>1, <1>2
<1>4. Ordered(Counted(Client)', received'[Server], q, i - 1)
  <2>1. Ordered(Counted(Client), received[Server], q, i - 1)
    BY <1>1 DEF AskedAt
  <2> QED
    BY <1>3, <2>1, OrderStays, SideCases
<1>5. Ordered(Counted(Client)', received'[Server], q \o r, i - 1)
  BY <1>1, <1>2, <1>3, <1>4, OrderedBefore
<1> QED
  BY <1>1, <1>2, <1>5 DEF AskedAt

LEMMA AnswerStays ==
    ASSUME ChannelInv, Greeted, Grows, NEW r \in Seq(Message), Pipe(Server)' = Pipe(Server) \o r,
           resync' = resync, NEW i \in DOMAIN Pipe(Server), AnswerAt(i)
    PROVE  i \in DOMAIN Pipe(Server)' /\ AnswerAt(i)'
<1>1. PICK q \in Seq(Legit(Server)) : q = Pipe(Server) /\ q \in Seq(Message)
  BY PipeFacts, SideCases
<1>2. i \in 1 .. Len(q) /\ i \in DOMAIN (q \o r) /\ \A k \in 1 .. i : (q \o r)[k] = q[k]
  BY <1>1
<1>3. ASSUME NEW k \in 1 .. i PROVE HonestAck(Client, q[k].ack)'
  <2>1. q[k] \in Legit(Server)
    BY <1>1, <1>2
  <2>2. q[k].ack \in Int /\ HonestAck(Client, q[k].ack)
    BY <1>1, <2>1, LegitIds, SideCases DEF AnswerAt
  <2> QED
    BY <2>2, HonestStays, SideCases
<1>4. Pipe(Server)'[i] = q[i] /\ \A k \in 1 .. i : Pipe(Server)'[k] = q[k]
  BY <1>1, <1>2
<1> QED
  BY <1>1, <1>2, <1>3, <1>4 DEF AnswerAt

LEMMA SentWire ==
    ASSUME ChannelInv, up, NEW s \in Sides, NEW m, Sends(s, m)
    PROVE  \E r, p \in Seq(Message) : /\ wire'[Client] = wire[Client] \o r
                                      /\ Pipe(Server)' = Pipe(Server) \o p
<1>1. /\ Pipe(s)' = Append(Pipe(s), m) /\ m \in Message
      /\ Pipe(Peer(s))' = Pipe(Peer(s))
  BY SendFacts
<1>2. <<m>> \in Seq(Message) /\ <<>> \in Seq(Message)
  BY <1>1
<1>3. ASSUME NEW u \in Sides
      PROVE  Pipe(u) = Pipe(u) \o <<>> /\ Append(Pipe(u), m) = Pipe(u) \o <<m>>
  <2>1. Pipe(u) \in Seq(Message)
    BY PipeFacts
  <2> QED
    BY <2>1
<1>4. wire[Client] = Pipe(Client) /\ wire'[Client] = Pipe(Client)'
  BY SideCases DEF Pipe
<1>5. CASE s = Client
  <2>1. wire'[Client] = wire[Client] \o <<m>> /\ Pipe(Server)' = Pipe(Server) \o <<>>
    BY <1>1, <1>3, <1>4, <1>5, SideCases
  <2> QED
    BY <1>2, <2>1
<1>6. CASE s = Server
  <2>1. wire'[Client] = wire[Client] \o <<>> /\ Pipe(Server)' = Pipe(Server) \o <<m>>
    BY <1>1, <1>3, <1>4, <1>6, SideCases
  <2> QED
    BY <1>2, <2>1
<1> QED
  BY <1>5, <1>6, SideCases

LEMMA RestoredSends ==
    ASSUME ChannelInv, Greeted, up, ServerRestored, ClientRestored, NEW s \in Sides, NEW m,
           Sends(s, m)
    PROVE  ServerRestored' /\ ClientRestored'
<1>1. Grows /\ resync' = resync /\ (resync \in waiting'[Client] => resync \in waiting[Client])
  BY SendFacts DEF Sends
<1>2. PICK r, p \in Seq(Message) : /\ wire'[Client] = wire[Client] \o r
                                   /\ Pipe(Server)' = Pipe(Server) \o p
  BY SentWire
<1>3. ASSUME NEW u \in Sides
      PROVE  /\ Settled(u) => Settled(u)'
             /\ Kept(u) => Kept(u)'
             /\ AcksHonest(u) => AcksHonest(u)'
  <2>1. Settled(u) => Settled(u)'
    BY SettledSends
  <2>2. Kept(u) => Kept(u)'
    BY KeptSends
  <2>3. AcksHonest(u) => AcksHonest(u)'
    BY AcksSends
  <2> QED
    BY <2>1, <2>2, <2>3
<1>4. ServerRestored'
  <2>1. ASSUME NEW i \in DOMAIN wire[Client], FlushAt(i)
        PROVE  i \in DOMAIN wire'[Client] /\ FlushAt(i)'
    BY <1>1, <1>2, <2>1, FlushStays
  <2> QED
    BY <1>3, <2>1, SideCases DEF ServerRestored
<1>5. ASSUME ResyncComes PROVE ResyncComes'
  <2>1. ASSUME NEW i \in DOMAIN wire[Client], AskedAt(i)
        PROVE  i \in DOMAIN wire'[Client] /\ AskedAt(i)'
    BY <1>1, <1>2, <2>1, AskedStays
  <2>2. ASSUME NEW i \in DOMAIN Pipe(Server), AnswerAt(i)
        PROVE  i \in DOMAIN Pipe(Server)' /\ AnswerAt(i)'
    BY <1>1, <1>2, <2>2, AnswerStays
  <2>3. AcksHonest(Client) => AcksHonest(Client)'
    BY <1>3, SideCases
  <2> QED
    BY <1>5, <2>1, <2>2, <2>3 DEF ResyncComes
<1>6. ClientRestored'
  BY <1>1, <1>3, <1>5, SideCases DEF ClientRestored
<1> QED
  BY <1>4, <1>6

\* Zed's stream and the server's, as the step of one side changes them.
LEMMA ServerTakes ==
    ASSUME ChannelInv, NEW h, NEW answers, Gets(Server, h, answers)
    PROVE  /\ wire[Client] # <<>> /\ h = wire[Client][1] /\ wire'[Client] = Tail(wire[Client])
           /\ Pipe(Server)' = Pipe(Server) \o answers /\ answers \in Seq(Message)
<1>1. Peer(Server) = Client /\ Server \in Sides /\ wire[Client] \in Seq(Message)
  BY SideCases, PipeFacts
<1>2. /\ wire[Client] # <<>> /\ h = Head(wire[Client])
  BY <1>1 DEF Gets
<1>3. h = wire[Client][1]
  BY <1>1, <1>2
<1>4. Pipe(Server)' = IF Server = Server \/ up THEN Pipe(Server) \o answers ELSE Pipe(Server)
  BY <1>1, GetsFacts
<1>5. wire'[Client] = Tail(wire[Client]) /\ answers \in Seq(Message)
  BY <1>1, GetsFacts
<1> QED
  BY <1>2, <1>3, <1>4, <1>5

LEMMA ClientTakes ==
    ASSUME ChannelInv, NEW h, NEW answers, Gets(Client, h, answers)
    PROVE  /\ Pipe(Server) # <<>> /\ h = Pipe(Server)[1] /\ Pipe(Server)' = Tail(Pipe(Server))
           /\ up => wire'[Client] = wire[Client] \o answers
           /\ answers \in Seq(Message)
<1>1. Peer(Client) = Server /\ Client \in Sides /\ Pipe(Server) \in Seq(Message)
  BY SideCases, PipeFacts
<1>2. /\ Pipe(Server) # <<>> /\ h = Head(Pipe(Server)) /\ Pipe(Server)' = Tail(Pipe(Server))
      /\ answers \in Seq(Message)
  BY <1>1, GetsFacts
<1>3. h = Pipe(Server)[1]
  BY <1>1, <1>2
<1>4. Pipe(Client)' = IF Client = Server \/ up THEN Pipe(Client) \o answers ELSE Pipe(Client)
  BY <1>1, GetsFacts
<1>5. up => wire'[Client] = wire[Client] \o answers
  BY <1>4, SideCases DEF Pipe
<1> QED
  BY <1>2, <1>3, <1>5

\* The flush is answered with everything the server still keeps.
LEMMA FlushedSettles ==
    ASSUME ChannelInv, Greeted, NEW h, NEW answers, Gets(Server, h, answers),
           h.kind = "flush", Kept(Server), HonestAck(Server, h.ack)
    PROVE  Settled(Server)'
<1>1. PICK a \in Message : answers = Append(Acknowledged(Server, h), a)
  BY DEF Gets
<1>2. \A m \in Counted(Server) : m.id \in received[Client] \cup IdsIn(Acknowledged(Server, h))
  BY KeptPops, SideCases
<1>3. PICK q \in Seq(Message) : q = Acknowledged(Server, h)
  BY UnackedGood, PipeFacts, SideCases DEF Acknowledged
<1>4. PICK p \in Seq(Message) : p = Pipe(Server)
  BY PipeFacts, SideCases
<1>5. /\ Pipe(Server)' = p \o Append(q, a) /\ Append(q, a) \in Seq(Message)
      /\ sent' = sent /\ received[Client] \subseteq received'[Client]
  <2>1. Append(q, a) \in Seq(Message)
    BY <1>1, <1>3
  <2> QED
    BY <1>1, <1>3, <1>4, <2>1, ServerTakes, GetsFacts, SideCases DEF Grows
<1>6. IdsIn(q) \subseteq IdsIn(p \o Append(q, a))
  <2>1. IdsIn(Append(q, a)) = IdsIn(q) \cup {a.id}
    BY <1>1, <1>3, IdsInFacts
  <2>2. IdsIn(p \o Append(q, a)) = IdsIn(p) \cup IdsIn(Append(q, a))
    <3>1. PICK r \in Seq(Message) : r = Append(q, a)
      BY <1>5
    <3>2. IdsIn(p \o r) = IdsIn(p) \cup IdsIn(r)
      BY <1>4, IdsInFacts
    <3> QED
      BY <3>1, <3>2
  <2> QED
    BY <2>1, <2>2
<1>7. IdsIn(Pipe(Server))' = IdsIn(p \o Append(q, a))
  BY <1>5 DEF IdsIn
<1> QED
  BY <1>2, <1>3, <1>5, <1>6, <1>7, SideCases DEF Counted, Settled

LEMMA ServerGets ==
    ASSUME ChannelInv, Greeted, up, ServerRestored, NEW s \in Sides, NEW h, NEW answers,
           Gets(s, h, answers)
    PROVE  ServerRestored'
<1>1. CASE Settled(Server)
  BY <1>1, SettledGets, SideCases DEF ServerRestored
<1>2. ASSUME Kept(Server), NEW i \in DOMAIN wire[Client], FlushAt(i) PROVE ServerRestored'
  <2>1. CASE s = Server
    <3>1. PICK q \in Seq(Message) : q = wire[Client] /\ q \in Seq(Legit(Client))
      BY PipeFacts, SideCases
    <3>2. h = q[1] /\ q # <<>> /\ wire'[Client] = Tail(q) /\ i \in 1 .. Len(q) /\ Len(q) \in Nat
      <4>1. h = q[1] /\ q # <<>> /\ wire'[Client] = Tail(q)
        BY <2>1, <3>1, ServerTakes
      <4> QED
        BY <1>2, <3>1, <4>1
    <3>3. HonestAck(Server, h.ack)
      BY <1>2, <3>1, <3>2 DEF FlushAt
    <3>4. CASE i = 1
      <4>1. h.kind = "flush"
        BY <1>2, <3>1, <3>2, <3>4 DEF FlushAt
      <4> QED
        BY <1>2, <2>1, <3>3, <4>1, FlushedSettles DEF ServerRestored
    <3>5. CASE i > 1
      <4>1. Kept(Server)'
        BY <1>2, <2>1, <3>3, KeptPops
      <4>2. /\ i - 1 \in DOMAIN Tail(q) /\ Tail(q)[i - 1] = q[i]
            /\ \A k \in 1 .. (i - 1) : k + 1 \in 1 .. i /\ Tail(q)[k] = q[k + 1]
        BY <3>1, <3>2, <3>5
      <4>3. ASSUME NEW k \in 1 .. (i - 1) PROVE HonestAck(Server, Tail(q)[k].ack)'
        <5>1. q[k + 1] \in Legit(Client)
          BY <3>1, <3>2, <4>2
        <5>2. q[k + 1].ack \in Int /\ HonestAck(Server, q[k + 1].ack)
          BY <1>2, <3>1, <4>2, <5>1, LegitIds, SideCases DEF FlushAt
        <5>3. Grows
          BY GetsFacts
        <5> QED
          BY <4>2, <5>2, <5>3, HonestStays, SideCases
      <4>4. FlushAt(i - 1)'
        BY <1>2, <3>1, <3>2, <4>2, <4>3 DEF FlushAt
      <4> QED
        BY <3>2, <4>1, <4>2, <4>4 DEF ServerRestored
    <3> QED
      BY <3>2, <3>4, <3>5
  <2>2. CASE s = Client
    <3>1. Kept(Server)'
      BY <1>2, <2>2, KeptStays, GetsFacts, SideCases
    <3>2. wire'[Client] = wire[Client] \o answers /\ answers \in Seq(Message) /\ Grows
      BY <2>2, ClientTakes, GetsFacts
    <3>3. i \in DOMAIN wire'[Client] /\ FlushAt(i)'
      BY <1>2, <3>2, FlushStays
    <3> QED
      BY <3>1, <3>3 DEF ServerRestored
  <2> QED
    BY <2>1, <2>2, SideCases
<1> QED
  BY <1>1, <1>2 DEF ServerRestored

\* The server reads on towards Zed's flush, and answers it.
LEMMA AskedGets ==
    ASSUME ChannelInv, Greeted, up, AcksHonest(Client), NEW i \in DOMAIN wire[Client], AskedAt(i),
           NEW h, NEW answers, Gets(Server, h, answers)
    PROVE  ResyncComes'
<1>1. PICK q \in Seq(Message) : q = wire[Client] /\ q \in Seq(Legit(Client))
  BY PipeFacts, SideCases
<1>2. /\ h = q[1] /\ q # <<>> /\ wire'[Client] = Tail(q) /\ i \in 1 .. Len(q) /\ Len(q) \in Nat
      /\ resync' = resync
  <2>1. h = q[1] /\ q # <<>> /\ wire'[Client] = Tail(q)
    BY <1>1, ServerTakes
  <2>2. resync' = resync
    BY DEF Gets
  <2> QED
    BY <1>1, <2>1, <2>2
<1>3. CASE i = 1
  <2>1. h.kind = "flush" /\ h.id = resync
    BY <1>1, <1>2, <1>3 DEF AskedAt
  <2>2. PICK a \in Message : /\ answers = Append(Acknowledged(Server, h), a)
                             /\ a.kind = "ack" /\ a.re = h.id
    BY <2>1 DEF Gets
  <2>3. AcksHonest(Client)'
    BY <2>1, AcksGets, SideCases DEF Control
  <2>4. PICK p \in Seq(Message) : p = Pipe(Server)
    BY PipeFacts, SideCases
  <2>5. PICK b \in Seq(Message) : b = Acknowledged(Server, h)
    BY UnackedGood, PipeFacts, SideCases DEF Acknowledged
  <2>6. PICK r \in Seq(Message) : r = p \o Append(b, a)
    <3>1. Append(b, a) \in Seq(Message)
      BY <2>2, <2>5
    <3>2. p \o Append(b, a) \in Seq(Message)
      BY <2>4, <3>1
    <3> QED
      BY <3>2
  <2>7. Pipe(Server)' = r
    BY <2>2, <2>4, <2>5, <2>6, ServerTakes
  <2>8. Len(r) \in DOMAIN r /\ r[Len(r)] = a /\ DOMAIN r = 1 .. Len(r)
    <3>1. Append(b, a) \in Seq(Message) /\ Len(Append(b, a)) = Len(b) + 1
          /\ Append(b, a)[Len(b) + 1] = a
      BY <2>2, <2>5
    <3>2. Len(r) = Len(p) + (Len(b) + 1) /\ r[Len(p) + (Len(b) + 1)] = Append(b, a)[Len(b) + 1]
      BY <2>4, <2>5, <2>6, <3>1
    <3> QED
      BY <2>6, <3>1, <3>2
  <2>9. \A k \in 1 .. Len(r) : HonestAck(Client, r[k].ack)'
    <3>1. \A k \in 1 .. Len(r) : r[k].ack \in Acks(Server)'
      BY <2>7, <2>8 DEF Acks
    <3> QED
      BY <2>3, <3>1, SideCases DEF AcksHonest
  <2>10. AnswerAt(Len(r))'
    BY <1>2, <2>1, <2>2, <2>7, <2>8, <2>9 DEF AnswerAt
  <2> QED
    BY <2>7, <2>8, <2>10 DEF ResyncComes
<1>4. CASE i > 1
  <2>1. /\ i - 1 \in DOMAIN Tail(q) /\ Tail(q)[i - 1] = q[i]
        /\ i - 1 \in Nat /\ i - 1 > 0 /\ i - 1 <= Len(q)
    BY <1>1, <1>2, <1>4
  <2>2. Ordered(Counted(Client), received[Server], q, i - 1)
    BY <1>1 DEF AskedAt
  <2>3. h.kind \notin Control => HonestAck(Client, h.id)'
    BY <1>2, <2>1, <2>2, NextHonest, SideCases
  <2>4. AcksHonest(Client)'
    BY <2>3, AcksGets, SideCases
  <2>5. Ordered(Counted(Client)', received'[Server], Tail(q), (i - 1) - 1)
    BY <1>1, <1>2, <2>1, <2>2, OrderGets, SideCases
  <2>6. AskedAt(i - 1)'
    BY <1>1, <1>2, <2>1, <2>5 DEF AskedAt
  <2> QED
    BY <1>2, <2>1, <2>4, <2>6 DEF ResyncComes
<1> QED
  BY <1>2, <1>3, <1>4

\* Zed reads on towards the answer.
LEMMA AnswerGets ==
    ASSUME ChannelInv, Greeted, NEW i \in DOMAIN Pipe(Server), AnswerAt(i),
           NEW h, NEW answers, Gets(Client, h, answers), resync \in waiting'[Client]
    PROVE  ResyncComes'
<1>1. PICK q \in Seq(Message) : q = Pipe(Server) /\ q \in Seq(Legit(Server))
  BY PipeFacts, SideCases
<1>2. /\ h = q[1] /\ q # <<>> /\ Pipe(Server)' = Tail(q) /\ i \in 1 .. Len(q) /\ Len(q) \in Nat
      /\ resync' = resync /\ Grows
  <2>1. /\ Pipe(Server) # <<>> /\ h = Pipe(Server)[1] /\ Pipe(Server)' = Tail(Pipe(Server))
        /\ resync' = resync /\ Grows
    BY ClientTakes, GetsFacts, SideCases
  <2> QED
    BY <1>1, <2>1
<1>3. i # 1
  <2>1. h.kind = "ack" => h.re \notin waiting'[Client]
    BY DEF Gets
  <2> QED
    BY <1>1, <1>2, <2>1 DEF AnswerAt
<1>4. /\ i - 1 \in DOMAIN Tail(q) /\ Tail(q)[i - 1] = q[i]
      /\ \A k \in 1 .. (i - 1) : k + 1 \in 1 .. i /\ Tail(q)[k] = q[k + 1]
  BY <1>1, <1>2, <1>3
<1>5. ASSUME NEW k \in 1 .. (i - 1) PROVE HonestAck(Client, Tail(q)[k].ack)'
  <2>1. q[k + 1] \in Legit(Server)
    BY <1>1, <1>2, <1>4
  <2>2. q[k + 1].ack \in Int /\ HonestAck(Client, q[k + 1].ack)
    BY <1>1, <1>4, <2>1, LegitIds, SideCases DEF AnswerAt
  <2> QED
    BY <1>2, <1>4, <2>2, HonestStays, SideCases
<1>6. AnswerAt(i - 1)'
  BY <1>1, <1>2, <1>4, <1>5 DEF AnswerAt
<1> QED
  BY <1>2, <1>4, <1>6 DEF ResyncComes

LEMMA ClientGets ==
    ASSUME ChannelInv, Greeted, up, ClientRestored, NEW s \in Sides, NEW h, NEW answers,
           Gets(s, h, answers)
    PROVE  ClientRestored'
<1>1. CASE Settled(Client)
  BY <1>1, SettledGets, SideCases DEF ClientRestored
<1>2. ASSUME resync # NoId, Kept(Client), resync \in waiting[Client] => ResyncComes
      PROVE  ClientRestored'
  <2>1. /\ Grows /\ resync' = resync /\ waiting'[Client] \subseteq waiting[Client]
        /\ answers \in Seq(Message)
    <3>1. Grows /\ answers \in Seq(Message)
      BY GetsFacts
    <3> QED
      BY <3>1 DEF Gets
  <2>2. CASE s = Server
    <3>1. Kept(Client)'
      BY <1>2, <2>1, <2>2, KeptStays, GetsFacts, SideCases
    <3>2. ASSUME resync \in waiting[Client] PROVE ResyncComes'
      <4>1. Pipe(Server)' = Pipe(Server) \o answers
        BY <2>2, ServerTakes
      <4>2. ASSUME NEW i \in DOMAIN Pipe(Server), AnswerAt(i) PROVE ResyncComes'
        BY <2>1, <4>1, <4>2, AnswerStays DEF ResyncComes
      <4>3. ASSUME AcksHonest(Client), NEW i \in DOMAIN wire[Client], AskedAt(i)
            PROVE  ResyncComes'
        BY <2>2, <4>3, AskedGets
      <4> QED
        BY <1>2, <3>2, <4>2, <4>3 DEF ResyncComes
    <3> QED
      BY <1>2, <2>1, <3>1, <3>2 DEF ClientRestored
  <2>3. CASE s = Client
    <3>1. resync \in waiting[Client] /\ ResyncComes
      BY <1>2, <2>3 DEF Gets, Barrier
    <3>2. HonestAck(Client, h.ack)
      <4>1. PICK q \in Seq(Message) : q = Pipe(Server)
        BY PipeFacts, SideCases
      <4>2. q # <<>> /\ h = q[1] /\ 1 \in DOMAIN q
        <5>1. Pipe(Server) # <<>> /\ h = Pipe(Server)[1]
          BY <2>3, ClientTakes
        <5> QED
          BY <4>1, <5>1
      <4>3. CASE AcksHonest(Client)
        BY <4>1, <4>2, <4>3, SideCases DEF AcksHonest, Acks
      <4>4. ASSUME NEW i \in DOMAIN Pipe(Server), AnswerAt(i) PROVE HonestAck(Client, h.ack)
        <5>1. 1 \in 1 .. i
          BY <4>1, <4>4
        <5> QED
          BY <4>1, <4>2, <4>4, <5>1 DEF AnswerAt
      <4> QED
        BY <3>1, <4>3, <4>4 DEF ResyncComes
    <3>3. Kept(Client)'
      BY <1>2, <2>3, <3>2, KeptPops
    <3>4. ASSUME resync \in waiting'[Client] PROVE ResyncComes'
      <4>1. wire'[Client] = wire[Client] \o answers
        BY <2>3, ClientTakes
      <4>2. ASSUME AcksHonest(Client), NEW i \in DOMAIN wire[Client], AskedAt(i)
            PROVE  ResyncComes'
        <5>1. AcksHonest(Client)'
          BY <2>3, <4>2, AcksGets, SideCases
        <5>2. i \in DOMAIN wire'[Client] /\ AskedAt(i)'
          BY <2>1, <4>1, <4>2, AskedStays
        <5> QED
          BY <5>1, <5>2 DEF ResyncComes
      <4>3. ASSUME NEW i \in DOMAIN Pipe(Server), AnswerAt(i) PROVE ResyncComes'
        BY <2>3, <3>4, <4>3, AnswerGets
      <4> QED
        BY <3>1, <4>2, <4>3 DEF ResyncComes
    <3> QED
      BY <1>2, <2>1, <3>3, <3>4 DEF ClientRestored
  <2> QED
    BY <2>2, <2>3, SideCases
<1> QED
  BY <1>1, <1>2 DEF ClientRestored

-----------------------------------------------------------------------------
(* Connections.                                                            *)

LEMMA TransmitPipe ==
    ASSUME ChannelInv, Transmit
    PROVE  /\ \A s \in Sides : Pipe(s)' = Pipe(s)
           /\ wire'[Client] = wire[Client] /\ up
           /\ UNCHANGED <<nextId, maxReceived, buffer, waiting, up, resync, drops,
                          sends, handling, sent, received>>
<1>1. /\ outbox # <<>> /\ outbox' = Tail(outbox) /\ up
      /\ wire' = [wire EXCEPT ![Server] = Append(wire[Server], Head(outbox))]
      /\ UNCHANGED <<nextId, maxReceived, buffer, waiting, up, resync, drops,
                     sends, handling, sent, received>>
  BY DEF Transmit
<1>2. /\ wire'[Client] = wire[Client] /\ wire'[Server] = Append(wire[Server], Head(outbox))
  BY <1>1, PipeFacts, SideCases
<1>3. Append(wire[Server], Head(outbox)) \o Tail(outbox) = wire[Server] \o outbox
  <2>1. PICK q, r \in Seq(Message) : q = wire[Server] /\ r = outbox
    BY PipeFacts, SideCases
  <2>2. r # <<>>
    BY <1>1, <2>1
  <2>3. Append(q, Head(r)) \o Tail(r) = q \o r
    BY <2>1, <2>2
  <2> QED
    BY <2>1, <2>3
<1> QED
  BY <1>1, <1>2, <1>3, SideCases DEF Pipe

LEMMA TransmitDelivers ==
    ASSUME ChannelInv, OneDrop, Transmit PROVE OneDrop'
<1>1. /\ \A s \in Sides : Pipe(s)' = Pipe(s)
      /\ wire'[Client] = wire[Client] /\ up
      /\ UNCHANGED <<nextId, maxReceived, buffer, waiting, up, resync, drops, sent, received>>
  BY TransmitPipe
<1>2. ASSUME NEW s \in Sides
      PROVE  /\ Settled(s)' <=> Settled(s)
             /\ Kept(s)' <=> Kept(s)
             /\ InOrder(s)' <=> InOrder(s)
             /\ \A a : HonestAck(s, a)' <=> HonestAck(s, a)
             /\ Acks(s)' = Acks(s)
  BY <1>1 DEF Counted, Settled, Kept, InOrder, HonestAck, Acks, IdsIn
<1>3. ASSUME NEW s \in Sides PROVE AcksHonest(s)' <=> AcksHonest(s)
  BY <1>2, PeerFacts DEF AcksHonest
<1>4. Undropped => Undropped'
  <2>1. EarlyComes' <=> EarlyComes
    BY <1>1, SideCases DEF EarlyComes
  <2> QED
    BY <1>1, <1>2, <1>3, <2>1 DEF Undropped, NoFlush
<1>5. ServerRestored => ServerRestored'
  BY <1>1, <1>2, SideCases DEF ServerRestored, FlushAt
<1>6. ResyncComes => ResyncComes'
  <2>1. \A i : AskedAt(i) => AskedAt(i)'
    BY <1>1 DEF Counted, AskedAt
  <2>2. \A i : AnswerAt(i) => AnswerAt(i)'
    BY <1>1, <1>2, SideCases DEF AnswerAt
  <2> QED
    BY <1>1, <1>3, <2>1, <2>2, SideCases DEF ResyncComes
<1>7. ClientRestored => ClientRestored'
  BY <1>1, <1>2, <1>6, SideCases DEF ClientRestored
<1> QED
  BY <1>1, <1>4, <1>5, <1>7 DEF OneDrop

\* The drop leaves a beginning of what was on its way.
LEMMA DropPipe ==
    ASSUME ChannelInv, Drop
    PROVE  /\ \E kept : \A s \in Sides : /\ kept[s] \in 0 .. Len(wire[s])
                                         /\ wire'[s] = SubSeq(wire[s], 1, kept[s])
           /\ up /\ started[Client] /\ ~up' /\ drops' = drops + 1 /\ drops < MaxDrops
           /\ UNCHANGED <<nextId, maxReceived, buffer, waiting, started, outbox, resync,
                          sends, handling, sent, received>>
<1>1. /\ up /\ started[Client] /\ ~up' /\ drops' = drops + 1 /\ drops < MaxDrops
      /\ UNCHANGED <<nextId, maxReceived, buffer, waiting, started, outbox, resync,
                     sends, handling, sent, received>>
  BY DEF Drop
<1>2. PICK kept \in [Sides -> 0 .. (Len(wire[Client]) + Len(wire[Server]))] :
        /\ \A s \in Sides : kept[s] <= Len(wire[s])
        /\ wire' = [s \in Sides |-> SubSeq(wire[s], 1, kept[s])]
  BY DEF Drop
<1>3. ASSUME NEW s \in Sides
      PROVE  kept[s] \in 0 .. Len(wire[s]) /\ wire'[s] = SubSeq(wire[s], 1, kept[s])
  <2> DEFINE most == Len(wire[Client]) + Len(wire[Server])
  <2>1. Len(wire[s]) \in Nat /\ Len(wire[Client]) \in Nat /\ Len(wire[Server]) \in Nat
    BY PipeFacts, SideCases
  <2>2. most \in Nat
    <3>1. \A a, b \in Nat : a + b \in Nat
      OBVIOUS
    <3> QED
      BY <2>1, <3>1, Zenon
  <2>3. kept \in [Sides -> 0 .. most]
    BY <1>2
  <2> HIDE DEF most
  <2>4. kept[s] \in Nat
    BY <2>2, <2>3
  <2> QED
    BY <1>2, <2>1, <2>4
<1> QED
  BY <1>1, <1>3

LEMMA DropDelivers ==
    ASSUME ChannelInv, Greeted, Bounds, OneDrop, Drop PROVE OneDrop'
<1>1. PICK kept : \A s \in Sides : /\ kept[s] \in 0 .. Len(wire[s])
                                   /\ wire'[s] = SubSeq(wire[s], 1, kept[s])
  BY DropPipe
<1>2. /\ up /\ ~up' /\ drops' = drops + 1
      /\ UNCHANGED <<nextId, maxReceived, buffer, outbox, sent, received>>
  BY DropPipe
<1>3. drops \in Nat
  BY ChannelAssumption DEF Bounds
<1>4. CASE drops # 0
  BY <1>2, <1>3, <1>4 DEF OneDrop
<1>5. CASE drops = 0
  <2>1. Undropped
    BY <1>5 DEF OneDrop
  <2>2. ASSUME NEW s \in Sides, NEW k \in DOMAIN wire'[s]
        PROVE  k \in DOMAIN Pipe(s) /\ wire'[s][k] = Pipe(s)[k] /\ k \in 1 .. Len(wire'[s])
               /\ Len(wire'[s]) <= Len(Pipe(s))
    <3>1. PICK q \in Seq(Message) : q = wire[s]
      BY PipeFacts
    <3>2. PICK n \in 0 .. Len(q) : wire'[s] = SubSeq(q, 1, n)
      BY <1>1, <3>1
    <3>3. k \in 1 .. n /\ wire'[s][k] = q[k] /\ k \in 1 .. Len(q) /\ Len(wire'[s]) = n
      BY <2>2, <3>2
    <3>4. k \in DOMAIN Pipe(s) /\ Pipe(s)[k] = q[k] /\ Len(q) <= Len(Pipe(s)) /\ Len(Pipe(s)) \in Nat
      <4>1. CASE s = Client
        BY <3>1, <3>3, <4>1, PipeFacts
      <4>2. CASE s = Server
        <5>1. PICK r \in Seq(Message) : r = outbox
          BY PipeFacts
        <5>2. Pipe(s) = q \o r
          BY <3>1, <4>2, <5>1, PipeFacts
        <5> QED
          BY <3>3, <5>2
      <4> QED
        BY <4>1, <4>2, SideCases
    <3> QED
      BY <3>3, <3>4
  <2>3. ASSUME NEW s \in Sides, NEW k \in DOMAIN Pipe(s)'
        PROVE  \E j \in DOMAIN Pipe(s) : Pipe(s)'[k] = Pipe(s)[j]
    <3>1. CASE s = Client
      <4>1. Pipe(s)' = wire'[s]
        BY <3>1 DEF Pipe
      <4> QED
        BY <2>2, <2>3, <4>1
    <3>2. CASE s = Server
      <4>1. PICK p, q, r \in Seq(Message) : p = wire'[s] /\ q = wire[s] /\ r = outbox
        <5>1. \A q \in Seq(Message) : \A n \in 0 .. Len(q) : SubSeq(q, 1, n) \in Seq(Message)
          OBVIOUS
        <5> QED
          BY <1>1, <5>1, PipeFacts
      <4>2. Pipe(s)' = p \o r /\ Pipe(s) = q \o r
        BY <1>2, <3>2, <4>1, SideCases DEF Pipe
      <4>3. k \in DOMAIN (p \o r)
        BY <2>3, <4>2
      <4>4. \/ k \in DOMAIN p /\ (p \o r)[k] = p[k]
            \/ k - Len(p) \in DOMAIN r /\ (p \o r)[k] = r[k - Len(p)]
        BY <4>1, <4>3
      <4>5. CASE k \in DOMAIN p /\ (p \o r)[k] = p[k]
        <5>1. k \in DOMAIN Pipe(s) /\ p[k] = Pipe(s)[k]
          BY <2>2, <4>1, <4>5
        <5> QED
          BY <4>2, <4>5, <5>1
      <4>6. CASE k - Len(p) \in DOMAIN r /\ (p \o r)[k] = r[k - Len(p)]
        <5>1. PICK j \in DOMAIN r : j = k - Len(p)
          BY <4>6
        <5>2. Len(q) + j \in DOMAIN (q \o r) /\ (q \o r)[Len(q) + j] = r[j]
          BY <4>1, <5>1
        <5> QED
          BY <4>2, <4>6, <5>1, <5>2
      <4> QED
        BY <4>4, <4>5, <4>6
    <3> QED
      BY <3>1, <3>2, SideCases
  <2>4. NoFlush'
    BY <2>1, <2>3 DEF Undropped, NoFlush
  <2>5. ASSUME NEW s \in Sides PROVE Kept(s)' /\ AcksHonest(s)'
    <3>1. Kept(s)'
      BY <1>2, <2>1 DEF Counted, Undropped, Kept
    <3>2. Acks(Peer(s))' \subseteq Acks(Peer(s))
      BY <1>2, <2>3, PeerFacts DEF Acks
    <3>3. \A a : HonestAck(s, a)' <=> HonestAck(s, a)
      BY <1>2 DEF Counted, HonestAck
    <3> QED
      BY <2>1, <3>1, <3>2, <3>3 DEF Undropped, AcksHonest
  <2>6. ASSUME NEW s \in Sides PROVE WireInOrder(s)'
    <3> DEFINE r == wire'[s]
               q == Pipe(s)
    <3>1. r \in Seq(Message) /\ q \in Seq(Message) /\ DOMAIN r = 1 .. Len(r) /\ Len(r) \in Nat
      <4>1. \A p \in Seq(Message) : \A n \in 0 .. Len(p) : SubSeq(p, 1, n) \in Seq(Message)
        OBVIOUS
      <4>2. r \in Seq(Message)
        BY <1>1, <4>1, PipeFacts
      <4>3. q \in Seq(Message)
        BY PipeFacts
      <4> HIDE DEF r
      <4> QED
        BY <4>2, <4>3
    <3>2. /\ \A k \in 1 .. Len(r) : r[k] = q[k]
          /\ Len(r) = 0 \/ Len(r) <= Len(q)
      <4>1. \A k \in DOMAIN r : r[k] = q[k] /\ Len(r) <= Len(q)
        BY <2>2
      <4> HIDE DEF r, q
      <4> QED
        BY <3>1, <4>1
    <3>3. Len(r) <= Len(q)
      <4> HIDE DEF r, q
      <4> QED
        BY <3>1, <3>2
    <3>4. Ordered(Counted(s), received[Peer(s)], q, Len(q))
      BY <2>1 DEF Undropped, InOrder
    <3> HIDE DEF r, q
    <3>5. Ordered(Counted(s), received[Peer(s)], q, Len(r))
      BY <3>1, <3>3, <3>4 DEF Ordered
    <3>6. Ordered(Counted(s), received[Peer(s)], r, Len(r))
      BY <3>1, <3>2, <3>3, <3>5, OrderedBefore
    <3> QED
      BY <1>2, <3>6 DEF Counted, WireInOrder, r
  <2>7. Down'
    BY <1>2, <2>4, <2>5, <2>6 DEF Down
  <2> QED
    BY <1>2, <1>5, <2>7 DEF OneDrop
<1> QED
  BY <1>4, <1>5

LEMMA ReconnectFacts ==
    ASSUME ChannelInv, Reconnect
    PROVE  \E flush, hello \in Message :
        /\ flush.kind = "flush" /\ flush.id = nextId[Client] /\ flush.ack = maxReceived[Client]
        /\ hello.kind = "started"
        /\ wire'[Client] = wire[Client] \o <<flush, hello>>
        /\ wire'[Server] = <<>> /\ outbox' = outbox
        /\ resync' = nextId[Client] /\ nextId[Client] \in Nat
        /\ nextId' = [nextId EXCEPT ![Client] = nextId[Client] + 1]
        /\ ~up /\ up'
        /\ UNCHANGED <<maxReceived, buffer, drops, sends, handling, sent, received>>
<1> DEFINE flush == Envelope("flush", nextId[Client], maxReceived[Client], NoId)
           hello == Envelope("started", 0, NoId, NoId)
<1>1. /\ nextId[Client] \in Ids /\ up' = TRUE /\ ~up
      /\ nextId' = [nextId EXCEPT ![Client] = nextId[Client] + 1]
      /\ resync' = nextId[Client]
      /\ wire' = [wire EXCEPT ![Server] = <<>>, ![Client] = wire[Client] \o <<flush, hello>>]
      /\ UNCHANGED <<maxReceived, buffer, outbox, drops, sends, handling, sent, received>>
  BY DEF Reconnect
<1>2. /\ flush \in Message /\ flush.kind = "flush" /\ flush.id = nextId[Client]
      /\ flush.ack = maxReceived[Client]
      /\ hello \in Message /\ hello.kind = "started"
  <2>1. maxReceived[Client] \in Ids /\ 0 \in Ids
    BY PeerFacts, ChannelAssumption DEF ChannelInv, Types, Ids
  <2> QED
    BY <1>1, <2>1 DEF Envelope, Message
<1> HIDE DEF flush, hello
<1>3. wire'[Client] = wire[Client] \o <<flush, hello>> /\ wire'[Server] = <<>>
  BY <1>1, PipeFacts, SideCases
<1>4. nextId[Client] \in Nat
  BY <1>1, IdsFact
<1> QED
  BY <1>1, <1>2, <1>3, <1>4

LEMMA ReconnectGrows == ASSUME ChannelInv, Reconnect PROVE Grows
<1>1. /\ nextId' = [nextId EXCEPT ![Client] = nextId[Client] + 1]
      /\ UNCHANGED <<sent, received>> /\ nextId \in [Sides -> Nat]
  BY ReconnectFacts DEF ChannelInv, Types
<1>2. \A s \in Sides : nextId[s] \in Nat /\ nextId'[s] \in Nat /\ nextId[s] <= nextId'[s]
  BY <1>1
<1> QED
  BY <1>1, <1>2 DEF Counted, Grows

LEMMA ReconnectDelivers ==
    ASSUME ChannelInv, Greeted, OneDrop, Reconnect PROVE OneDrop'
<1>1. PICK flush, hello \in Message :
        /\ flush.kind = "flush" /\ flush.id = nextId[Client] /\ flush.ack = maxReceived[Client]
        /\ wire'[Client] = wire[Client] \o <<flush, hello>>
        /\ wire'[Server] = <<>> /\ outbox' = outbox
        /\ resync' = nextId[Client] /\ nextId[Client] \in Nat
        /\ ~up /\ up'
        /\ UNCHANGED <<maxReceived, buffer, drops, sent, received>>
  BY ReconnectFacts
<1>2. Grows
  BY ReconnectGrows
<1>3. drops # 0
  BY <1>1 DEF OneDrop, Undropped
<1>4. CASE drops = 1
  <2>1. Down
    BY <1>1, <1>4 DEF OneDrop
  <2>2. ASSUME NEW s \in Sides PROVE Kept(s)'
    BY <1>1, <1>2, <2>1, KeptStays DEF Down
  <2>3. PICK q \in Seq(Legit(Client)) : q = wire[Client] /\ q \in Seq(Message)
    BY PipeFacts, SideCases
  <2>4. PICK r \in Seq(Message) : r = q \o <<flush, hello>> /\ r = wire'[Client]
    <3>1. q \o <<flush, hello>> \in Seq(Message)
      BY <2>3
    <3> QED
      BY <1>1, <2>3, <3>1
  <2>5. PICK i : i = Len(q) + 1
    OBVIOUS
  <2>6. /\ i \in DOMAIN r /\ i \in Nat /\ i - 1 = Len(q) /\ i - 1 \in Nat /\ r[i] = flush
        /\ i - 1 <= Len(q) /\ i - 1 <= Len(r)
        /\ \A k \in 1 .. i : r[k] = flush \/ (k \in DOMAIN q /\ r[k] = q[k])
        /\ \A k \in 1 .. (i - 1) : r[k] = q[k]
    BY <2>3, <2>4, <2>5
  <2>7. FlushAt(i)'
    <3>1. ASSUME NEW k \in 1 .. i PROVE HonestAck(Server, r[k].ack)'
      <4>1. r[k].ack \in Acks(Client)
        <5>1. Pipe(Client) = q
          BY <2>3, PipeFacts
        <5> QED
          BY <1>1, <2>6, <3>1, <5>1 DEF Acks
      <4>2. HonestAck(Server, r[k].ack) /\ r[k].ack \in Int
        BY <2>1, <4>1, AcksFact, SideCases DEF Down, AcksHonest
      <4> QED
        BY <1>2, <4>2, HonestStays, SideCases
    <3> QED
      BY <1>1, <2>4, <2>6, <3>1 DEF FlushAt
  <2>8. AskedAt(i)'
    <3>1. Ordered(Counted(Client), received[Server], q, i - 1)
      BY <2>1, <2>3, <2>6, SideCases DEF Down, WireInOrder
    <3>2. Ordered(Counted(Client), received[Server], r, i - 1)
      BY <2>3, <2>4, <2>6, <3>1, OrderedBefore
    <3> QED
      BY <1>1, <2>4, <2>6, <3>2 DEF AskedAt, Counted
  <2>9. AcksHonest(Client)'
    <3>1. PICK p \in Seq(Message) : p = outbox
      BY PipeFacts
    <3>2. PICK w \in Seq(Message) : w = wire[Server]
      BY PipeFacts, SideCases
    <3>3. Pipe(Server)' = p /\ Pipe(Server) = w \o p
      <4>1. <<>> \o p = p
        BY <3>1
      <4> QED
        BY <1>1, <3>1, <3>2, <4>1, SideCases DEF Pipe
    <3>4. ASSUME NEW k \in DOMAIN p PROVE p[k].ack \in Acks(Server)
      <4>1. Len(w) + k \in DOMAIN (w \o p) /\ (w \o p)[Len(w) + k] = p[k]
        BY <3>1, <3>2, <3>4
      <4> QED
        BY <3>3, <4>1 DEF Acks
    <3>5. Acks(Server)' \subseteq Acks(Server)
      BY <1>1, <3>3, <3>4 DEF Acks
    <3> QED
      BY <1>2, <2>1, <3>5, AcksStay, SideCases DEF Down
  <2>10. ServerRestored'
    BY <2>2, <2>4, <2>6, <2>7, SideCases DEF ServerRestored
  <2>11. ResyncComes'
    BY <2>4, <2>6, <2>8, <2>9 DEF ResyncComes
  <2>12. resync' # NoId
    BY <1>1 DEF NoId
  <2>13. ClientRestored'
    BY <2>2, <2>11, <2>12, SideCases DEF ClientRestored
  <2> QED
    BY <1>1, <1>4, <2>10, <2>13 DEF OneDrop
<1> QED
  BY <1>1, <1>3, <1>4 DEF OneDrop

\* Zed sends its whole buffer again.
LEMMA ResyncDelivers ==
    ASSUME ChannelInv, Greeted, OneDrop, Resync PROVE OneDrop'
<1>1. /\ resync # NoId /\ Post(Client, buffer[Client]) /\ resync' = NoId
      /\ UNCHANGED <<nextId, maxReceived, buffer, waiting, up, drops, sent, received>>
  BY DEF Resync
<1>2. PICK b \in Seq(Message) : b = buffer[Client]
  BY PipeFacts, SideCases
<1>3. /\ Pipe(Server)' = Pipe(Server) /\ wire'[Server] = wire[Server]
      /\ Pipe(Client)' = IF Client = Server \/ up THEN Pipe(Client) \o b ELSE Pipe(Client)
  <2>1. Post(Client, b) /\ Client \in Sides /\ Peer(Client) = Server
    BY <1>1, <1>2, SideCases
  <2> QED
    BY <2>1, PostPipe
<1>4. Grows
  BY <1>1 DEF Counted, Grows, ChannelInv, Types
<1>5. drops # 0
  BY <1>1 DEF OneDrop, Undropped
<1>6. CASE ~up
  <2>1. \A s \in Sides : Pipe(s)' = Pipe(s) /\ wire'[s] = wire[s]
    <3>1. Pipe(Client)' = Pipe(Client)
      BY <1>3, <1>6, SideCases
    <3> QED
      BY <1>3, <3>1, SideCases DEF Pipe
  <2>2. ASSUME NEW s \in Sides
        PROVE  /\ Kept(s)' <=> Kept(s)
               /\ WireInOrder(s)' <=> WireInOrder(s)
               /\ \A a : HonestAck(s, a)' <=> HonestAck(s, a)
               /\ Acks(s)' = Acks(s)
    BY <1>1, <2>1 DEF Counted, Kept, WireInOrder, HonestAck, Acks
  <2>3. ASSUME NEW s \in Sides PROVE AcksHonest(s)' <=> AcksHonest(s)
    BY <2>2, PeerFacts DEF AcksHonest
  <2>4. Down => Down'
    BY <1>1, <2>1, <2>2, <2>3 DEF Down, NoFlush
  <2> QED
    BY <1>1, <1>5, <1>6, <2>4 DEF OneDrop
<1>7. CASE up
  <2>1. wire'[Client] = wire[Client] \o b /\ Pipe(Client)' = Pipe(Client) \o b
        /\ Pipe(Client) \in Seq(Message)
    <3>1. Pipe(Client)' = Pipe(Client) \o b
      BY <1>3, <1>7
    <3> QED
      BY <3>1, PipeFacts, SideCases DEF Pipe
  <2>2. ASSUME ServerRestored PROVE ServerRestored'
    <3>1. Settled(Server) => Settled(Server)'
      BY <1>1, <1>3 DEF Counted, Settled, IdsIn
    <3>2. Kept(Server) => Kept(Server)'
      BY <1>1 DEF Counted, Kept
    <3>3. ASSUME NEW i \in DOMAIN wire[Client], FlushAt(i)
          PROVE  i \in DOMAIN wire'[Client] /\ FlushAt(i)'
      BY <1>4, <2>1, <3>3, FlushStays
    <3> QED
      BY <2>2, <3>1, <3>2, <3>3 DEF ServerRestored
  <2>3. ASSUME ClientRestored PROVE Settled(Client)'
    <3>1. IdsIn(Pipe(Client) \o b) = IdsIn(Pipe(Client)) \cup IdsIn(b)
      BY <2>1, IdsInFacts
    <3>2. IdsIn(Pipe(Client))' = IdsIn(Pipe(Client) \o b)
      BY <2>1 DEF IdsIn
    <3> QED
      BY <1>1, <1>2, <2>3, <3>1, <3>2 DEF Counted, ClientRestored, Settled, Kept
  <2> QED
    BY <1>1, <1>5, <1>7, <2>2, <2>3 DEF OneDrop, ClientRestored
<1> QED
  BY <1>6, <1>7

-----------------------------------------------------------------------------
(* The theorem.                                                            *)

LEMMA SendDelivers ==
    ASSUME ChannelInv, Greeted, Bounds, OneDrop, NEW s \in Sides, NEW m, Sends(s, m)
    PROVE  OneDrop'
<1>1. UNCHANGED <<up, drops>>
  BY SendFacts
<1> QED
  BY <1>1, UndroppedSends, DownSends, RestoredSends DEF OneDrop

LEMMA GetDelivers ==
    ASSUME ChannelInv, Greeted, Bounds, OneDrop, NEW s \in Sides, NEW h, NEW answers,
           Gets(s, h, answers)
    PROVE  OneDrop'
<1>1. UNCHANGED <<up, drops>>
  BY GetsFacts
<1> QED
  BY <1>1, UndroppedGets, DownGets, ServerGets, ClientGets DEF OneDrop

\* More on its way does not change what comes first.
LEMMA PipeHead ==
    ASSUME NEW q \in Seq(Message), NEW r \in Seq(Message), q # <<>>
    PROVE  q \o r # <<>> /\ Head(q \o r) = Head(q)
OBVIOUS

\* Zed has answered the greeting, or what it will receive first is still there.
LEMMA PostGreeted ==
    ASSUME ChannelInv, Greeted, Grows, UNCHANGED <<up, resync>>, NEW s \in Sides,
           s = Client => nextId'[Client] # 0,
           nextId'[Peer(s)] = nextId[Peer(s)], handling'[Peer(s)] = handling[Peer(s)],
           \A m \in sent'[Client] : m.id # 0,
           NEW p \in Seq(Message), s = Server => Pipe(Server)' = Pipe(Server) \o p
    PROVE  Greeted'
<1>1. ~up' => nextId'[Client] # 0
  BY SideCases DEF Greeted, Grows
<1>2. resync' < nextId'[Client]
  <2>1. resync \in Int
    BY IdsFact DEF ChannelInv, Types, NoId
  <2> QED
    BY <2>1, SideCases DEF Greeted, Grows
<1>3. ASSUME nextId'[Client] = 0
      PROVE  /\ handling'[Client] = <<>>
             /\ Pipe(Server)' # <<>> /\ Head(Pipe(Server)').kind \in Control
  <2>1. s = Server /\ nextId[Client] = 0 /\ handling'[Client] = handling[Client]
    BY <1>3, SideCases
  <2>2. handling[Client] = <<>> /\ Pipe(Server) # <<>> /\ Head(Pipe(Server)).kind \in Control
    BY <2>1 DEF Greeted
  <2>3. Pipe(Server) \in Seq(Message)
    BY PipeFacts, SideCases
  <2>4. Pipe(Server)' # <<>> /\ Head(Pipe(Server)') = Head(Pipe(Server))
    BY <2>1, <2>2, <2>3, PipeHead
  <2> QED
    BY <2>1, <2>2, <2>4
<1> QED
  BY <1>1, <1>2, <1>3 DEF Greeted

LEMMA SendGreeted ==
    ASSUME ChannelInv, Greeted, NEW s \in Sides, NEW m, Sends(s, m),
           s = Client => nextId[Client] # 0, handling'[Peer(s)] = handling[Peer(s)]
    PROVE  Greeted'
<1>1. /\ Grows /\ UNCHANGED <<up, resync>> /\ m \in Message /\ m.id = nextId[s]
      /\ Pipe(s)' = (IF s = Server \/ up THEN Append(Pipe(s), m) ELSE Pipe(s))
      /\ sent'[s] = sent[s] \cup {m}
      /\ \A u \in Sides : u # s => sent'[u] = sent[u]
  BY SendFacts
<1>2. (s = Client => nextId'[Client] # 0) /\ nextId'[Peer(s)] = nextId[Peer(s)]
  <2>1. nextId' = [nextId EXCEPT ![s] = nextId[s] + 1] /\ nextId \in [Sides -> Nat]
    BY DEF Sends, ChannelInv, Types
  <2> QED
    BY <2>1, PeerFacts
<1>3. \A x \in sent'[Client] : x.id # 0
  BY <1>1, SideCases DEF Greeted
<1>4. Append(Pipe(s), m) = Pipe(s) \o <<m>> /\ <<m>> \in Seq(Message)
  BY <1>1, PipeFacts, SMTT(30)
<1>5. s = Server => Pipe(Server)' = Pipe(Server) \o <<m>>
  BY <1>1, <1>4
<1> QED
  BY <1>1, <1>2, <1>3, <1>4, <1>5, PostGreeted

\* What comes first is the server's greeting, which Zed answers.
LEMMA GetGreeted ==
    ASSUME ChannelInv, Greeted, NEW s \in Sides, NEW h, NEW answers, Gets(s, h, answers)
    PROVE  Greeted'
<1>1. /\ Grows /\ UNCHANGED <<up, resync, sent>> /\ answers \in Seq(Message)
      /\ Pipe(Peer(s)) # <<>> /\ h = Head(Pipe(Peer(s)))
      /\ Pipe(s)' = (IF s = Server \/ up THEN Pipe(s) \o answers ELSE Pipe(s))
  BY GetsFacts
<1>2. /\ nextId'[s] \in {nextId[s], nextId[s] + 1}
      /\ h.kind \in Control => nextId'[s] = nextId[s] + 1
      /\ nextId'[Peer(s)] = nextId[Peer(s)] /\ handling'[Peer(s)] = handling[Peer(s)]
  BY PeerFacts DEF Gets
<1>3. ASSUME s = Client PROVE nextId'[Client] # 0
  <2>1. nextId[Client] \in Nat
    BY SideCases DEF ChannelInv, Types
  <2>2. nextId[Client] = 0 => h.kind \in Control
    BY <1>1, <1>3, SideCases DEF Greeted
  <2> QED
    BY <1>2, <1>3, <2>1, <2>2
<1>4. \A x \in sent'[Client] : x.id # 0
  BY <1>1 DEF Greeted
<1>5. s = Server => Pipe(Server)' = Pipe(Server) \o answers
  BY <1>1
<1> QED
  BY <1>1, <1>2, <1>3, <1>4, <1>5, PostGreeted

LEMMA TransmitGreeted == ASSUME ChannelInv, Greeted, Transmit PROVE Greeted'
<1>1. /\ \A s \in Sides : Pipe(s)' = Pipe(s)
      /\ UNCHANGED <<nextId, up, resync, handling, sent>>
  BY TransmitPipe
<1> QED
  BY <1>1, PeerFacts DEF Greeted

LEMMA DropGreeted == ASSUME ChannelInv, Greeted, Drop PROVE Greeted'
<1>1. /\ nextId[Client] # 0 /\ UNCHANGED <<nextId, resync, sent>>
  BY DropPipe, SideCases DEF ChannelInv, Numbered
<1> QED
  BY <1>1 DEF Greeted

LEMMA ReconnectGreeted == ASSUME ChannelInv, Greeted, Reconnect PROVE Greeted'
<1>1. /\ resync' = nextId[Client] /\ nextId[Client] \in Nat
      /\ nextId' = [nextId EXCEPT ![Client] = nextId[Client] + 1] /\ sent' = sent
  BY ReconnectFacts
<1>2. nextId'[Client] # 0 /\ resync' < nextId'[Client]
  BY <1>1, SideCases DEF ChannelInv, Types
<1> QED
  BY <1>1, <1>2 DEF Greeted

LEMMA ResyncGreeted == ASSUME ChannelInv, Greeted, Resync PROVE Greeted'
<1>1. /\ Post(Client, buffer[Client]) /\ resync' = NoId
      /\ UNCHANGED <<nextId, up, sent, handling>>
  BY DEF Resync
<1>2. PICK b \in Seq(Message) : b = buffer[Client]
  BY PipeFacts, SideCases
<1>3. Pipe(Server)' = Pipe(Server)
  <2>1. Post(Client, b) /\ Client \in Sides /\ Peer(Client) = Server
    BY <1>1, <1>2, SideCases
  <2> QED
    BY <2>1, PostPipe, SideCases
<1>4. resync' < nextId'[Client] /\ (~up' => nextId'[Client] # 0)
  BY <1>1, SideCases DEF Greeted, NoId, ChannelInv, Types
<1> QED
  BY <1>1, <1>3, <1>4 DEF Greeted

LEMMA BoundsKept == ASSUME Bounds, [Next]_vars PROVE Bounds'
<1> USE DEF Bounds
<1>1. ASSUME NEW s \in Sides, nextId[s] \in Ids, nextId' = [nextId EXCEPT ![s] = nextId[s] + 1]
      PROVE  nextId' \in [Sides -> 0 .. (MaxId + 1)]
  <2>1. nextId[s] + 1 \in 0 .. (MaxId + 1)
    BY <1>1, ChannelAssumption DEF Ids
  <2> QED
    BY <1>1, <2>1
<1>2. ASSUME NEW s \in Sides, NEW kind \in Kinds, Send(s, kind) PROVE Bounds'
  <2>1. sends[s] + 1 \in Nat /\ drops' = drops
    BY <1>2 DEF Send
  <2>2. nextId' \in [Sides -> 0 .. (MaxId + 1)]
    BY <1>1, <1>2 DEF Send, SendBuffered
  <2> QED
    BY <1>2, <2>1, <2>2 DEF Send
<1>3. ASSUME NEW s \in Sides, Respond(s) PROVE Bounds'
  BY <1>1, <1>3 DEF Respond, SendBuffered
<1>4. ASSUME NEW s \in Sides, Receive(s) PROVE Bounds'
  <2>1. UNCHANGED <<drops, sends>>
    BY <1>4 DEF Receive
  <2>2. nextId' = nextId \/ (nextId[s] \in Ids /\ nextId' = [nextId EXCEPT ![s] = nextId[s] + 1])
    BY <1>4 DEF Receive, ReceiveControl, ReceiveAnswer, ReceivePayload
  <2> QED
    BY <1>1, <2>1, <2>2
<1>5. CASE Transmit \/ Resync \/ UNCHANGED vars
  BY <1>5 DEF Transmit, Resync, vars, linkVars
<1>6. CASE Drop
  BY <1>6, ChannelAssumption DEF Drop
<1>7. CASE Reconnect
  BY <1>1, <1>7, SideCases DEF Reconnect
<1> QED
  BY <1>2, <1>3, <1>4, <1>5, <1>6, <1>7 DEF Next

LEMMA InitDelivery == Init => DeliveryInv
<1> SUFFICES ASSUME Init PROVE DeliveryInv
  OBVIOUS
<1>1. ChannelInv
  BY InitChannel
<1>2. Bounds
  <2>1. 0 \in 0 .. (MaxId + 1) /\ 0 \in 0 .. MaxDrops
    BY ChannelAssumption
  <2> QED
    BY <2>1 DEF Init, Bounds
<1> DEFINE hello == Envelope("started", 0, NoId, NoId)
<1>3. /\ \A s \in Sides : Pipe(s) = <<hello>> /\ sent[s] = {} /\ maxReceived[s] = 0
                          /\ nextId[s] = 0 /\ handling[s] = <<>> /\ received[s] = {}
      /\ up /\ resync = NoId /\ drops = 0
  <2>1. wire[Client] = <<hello>> /\ wire[Server] = <<>> /\ outbox = <<hello>>
    BY SideCases DEF Init
  <2>2. <<>> \o <<hello>> = <<hello>>
    OBVIOUS
  <2>3. \A s \in Sides : Pipe(s) = <<hello>>
    BY <2>1, <2>2, SideCases DEF Pipe
  <2> QED
    BY <2>3 DEF Init
<1>4. hello.kind = "started" /\ hello.ack = NoId
  BY DEF Envelope
<1> HIDE DEF hello
<1>5. Len(<<hello>>) = 1 /\ <<hello>>[1] = hello /\ Head(<<hello>>) = hello
      /\ DOMAIN <<hello>> = {1} /\ <<hello>> # <<>>
  OBVIOUS
<1>6. Greeted
  <2>1. Pipe(Server) # <<>> /\ Head(Pipe(Server)).kind \in Control
    BY <1>3, <1>4, <1>5, SideCases DEF Control
  <2>2. NoId < 0
    BY DEF NoId
  <2> QED
    BY <1>3, <2>1, <2>2, SideCases DEF Greeted
<1>7. Undropped
  <2>1. NoFlush
    BY <1>3, <1>4, <1>5 DEF NoFlush
  <2>2. ASSUME NEW s \in Sides PROVE Settled(s) /\ Kept(s) /\ InOrder(s)
    BY <1>3, <1>4, <1>5 DEF Counted, Settled, Kept, InOrder, Ordered
  <2>3. ASSUME NEW s \in Sides PROVE AcksHonest(s)
    <3>1. \A a \in Acks(Peer(s)) : a = 0 \/ a = NoId
      BY <1>3, <1>4, <1>5, PeerFacts DEF Acks
    <3> QED
      BY <3>1 DEF AcksHonest, HonestAck, Honest, NoId
  <2>4. EarlyComes
    BY <1>3, SideCases DEF EarlyComes
  <2> QED
    BY <1>3, <2>1, <2>2, <2>3, <2>4 DEF Undropped
<1> QED
  BY <1>1, <1>2, <1>3, <1>6, <1>7 DEF DeliveryInv, OneDrop

LEMMA NextDelivery == ASSUME DeliveryInv, [Next]_vars PROVE DeliveryInv'
<1> USE DEF DeliveryInv
<1>1. ChannelInv' /\ Bounds'
  BY NextChannel, BoundsKept
<1>2. ASSUME NEW s \in Sides, NEW kind \in Kinds, Send(s, kind) PROVE Greeted' /\ OneDrop'
  <2>1. PICK m : Sends(s, m)
    BY <1>2, SendSends
  <2>2. (s = Client => nextId[Client] # 0) /\ UNCHANGED handling
    BY <1>2, SideCases DEF Send, CanSend, ChannelInv, Numbered
  <2> QED
    BY <2>1, <2>2, SendGreeted, SendDelivers
<1>3. ASSUME NEW s \in Sides, Respond(s) PROVE Greeted' /\ OneDrop'
  <2>1. PICK m : Sends(s, m)
    BY <1>3, RespondSends
  <2>2. (s = Client => nextId[Client] # 0) /\ handling'[Peer(s)] = handling[Peer(s)]
    <3>1. PICK i \in DOMAIN handling[s] : handling' = [handling EXCEPT ![s] = RemoveAt(handling[s], i)]
      BY <1>3 DEF Respond
    <3>2. handling[s] # <<>>
      BY <3>1
    <3> QED
      BY <3>1, <3>2, PeerFacts DEF Greeted, ChannelInv, Types
  <2> QED
    BY <2>1, <2>2, SendGreeted, SendDelivers
<1>4. ASSUME NEW s \in Sides, Receive(s) PROVE Greeted' /\ OneDrop'
  <2>1. PICK h, answers : Gets(s, h, answers)
    BY <1>4, ReceiveGets
  <2> QED
    BY <2>1, GetGreeted, GetDelivers
<1>5. CASE Transmit
  BY <1>1, <1>5, TransmitGreeted, TransmitDelivers
<1>6. CASE Drop
  BY <1>1, <1>6, DropGreeted, DropDelivers
<1>7. CASE Reconnect
  BY <1>1, <1>7, ReconnectGreeted, ReconnectDelivers
<1>8. CASE Resync
  BY <1>1, <1>8, ResyncGreeted, ResyncDelivers
<1>9. CASE UNCHANGED vars
  <2>1. Greeted'
    BY <1>9 DEF Greeted, Pipe, vars, linkVars
  <2>2. /\ Settled(Client)' = Settled(Client) /\ Settled(Server)' = Settled(Server)
        /\ Kept(Client)' = Kept(Client)
    BY <1>9 DEF Counted, vars, linkVars, Pipe, Kept, Settled
  <2>3. Undropped' = Undropped
    BY <1>9 DEF Counted, vars, linkVars, Pipe, Kept, Settled, Acks, HonestAck, AcksHonest, InOrder,
       EarlyComes, NoFlush, Undropped
  <2>4. Down' = Down
    BY <1>9 DEF Counted, vars, linkVars, Pipe, Kept, Acks, HonestAck, AcksHonest, WireInOrder,
       NoFlush, Down
  <2>5. ServerRestored' = ServerRestored
    BY <1>9 DEF Counted, vars, linkVars, Pipe, Kept, Settled, HonestAck, FlushAt, ServerRestored
  <2>6. ResyncComes' = ResyncComes
    BY <1>9 DEF Counted, vars, linkVars, Pipe, Acks, HonestAck, AcksHonest, AskedAt, AnswerAt, ResyncComes
  <2>7. OneDrop'
    BY <1>9, <2>2, <2>3, <2>4, <2>5, <2>6 DEF OneDrop, ClientRestored, vars, linkVars
  <2> QED
    BY <1>1, <2>1, <2>7
<1> QED
  BY <1>1, <1>2, <1>3, <1>4, <1>5, <1>6, <1>7, <1>8, <1>9 DEF Next

LEMMA SoundDelivery == DeliveryInv => ChannelSound
<1> SUFFICES ASSUME DeliveryInv PROVE ChannelSound
  OBVIOUS
<1> USE DEF DeliveryInv
<1>1. TypeOK
  <2>1. \A s \in Sides : nextId[s] \in 0 .. (MaxId + 1) /\ handling[s] \in Seq(Ids)
    BY DEF ChannelInv, Types, Bounds
  <2> QED
    BY PipeFacts DEF TypeOK, ChannelInv, Types, Bounds
<1>2. ASSUME drops < 2, NEW s \in Sides, NEW m \in Lost(s)
      PROVE  drops = 1 /\ Early(s, m)
  <2>1. drops \in {0, 1} /\ s \in {Client, Server}
    BY <1>2, ChannelAssumption, SideCases DEF Bounds
  <2>2. Settled(s) \/ Kept(s)
    BY <2>1, SideCases DEF OneDrop, Undropped, Down, ServerRestored, ClientRestored
  <2>3. ASSUME NEW k \in DOMAIN Pipe(s), Pipe(s)[k].kind # "started"
        PROVE  Pipe(s)[k].id \in UnderWay(s)
    <3>1. PICK q, r \in Seq(Message) : q = wire[s] /\ r = outbox
      BY PipeFacts
    <3>2. CASE s = Client
      BY <2>3, <3>2, SideCases DEF Pipe, UnderWay, ToSet
    <3>3. CASE s = Server
      <4>1. Pipe(s) = q \o r
        BY <3>1, <3>3, SideCases DEF Pipe
      <4>2. \/ k \in DOMAIN q /\ Pipe(s)[k] = q[k]
            \/ k - Len(q) \in DOMAIN r /\ Pipe(s)[k] = r[k - Len(q)]
        BY <2>3, <3>1, <4>1
      <4>3. Pipe(s)[k] \in ToSet(q) \cup ToSet(r)
        BY <4>2 DEF ToSet
      <4> QED
        BY <2>3, <3>1, <3>3, <4>3, SideCases DEF UnderWay
    <3> QED
      BY <2>1, <3>2, <3>3
  <2>4. m \in sent[s] /\ m.id \notin received[Peer(s)] \cup UnderWay(s) /\ m.id \notin IdsIn(buffer[s])
        /\ m.kind \notin Control
    BY <1>2 DEF Lost, ChannelInv, Numbered, Control
  <2>5. m.id = 0
    <3>1. SUFFICES ASSUME m.id # 0 PROVE FALSE
      OBVIOUS
    <3>2. m \in Counted(s)
      BY <2>4, <3>1 DEF Counted
    <3>3. m.id \in IdsIn(Pipe(s))
      BY <2>2, <2>4, <3>2 DEF Settled, Kept
    <3>4. PICK k \in DOMAIN Pipe(s) : Pipe(s)[k].id = m.id
      BY <3>3 DEF IdsIn
    <3>5. Pipe(s)[k] \in Legit(s)
      BY PipeFacts
    <3>6. Pipe(s)[k].kind # "started"
      BY <3>1, <3>4, <3>5 DEF Legit, ChannelInv, Numbered
    <3> QED
      BY <2>3, <2>4, <3>4, <3>6
  <2>6. s = Server
    BY <2>1, <2>4, <2>5 DEF Greeted
  <2>7. drops # 0
    <3>1. SUFFICES ASSUME drops = 0 PROVE FALSE
      OBVIOUS
    <3>2. PICK k \in DOMAIN Pipe(s) : Pipe(s)[k] = m
      BY <2>4, <2>5, <2>6, <3>1, SideCases DEF OneDrop, Undropped, EarlyComes
    <3> QED
      BY <2>3, <2>4, <3>2 DEF Control
  <2> QED
    BY <2>1, <2>5, <2>6, <2>7 DEF Early
<1> QED
  BY <1>1, <1>2 DEF ChannelSound, OneDropLosesOnlyEarly

-----------------------------------------------------------------------------
\* While nothing drops no message is lost, and one drop loses at most the
\* server's early message, for any number of messages, ids and drops that may
\* follow: each other message sent through the buffer is received, on its way,
\* or still in the buffer to be sent again (max_received, buffer, resync and
\* reconnect in remote_client.rs).  The early one has number 0, which a side
\* that has received nothing acknowledges.
THEOREM OneDropCostsOnlyEarly == Spec => []ChannelSound
<1>1. DeliveryInv /\ [Next]_vars => DeliveryInv'
  BY NextDelivery
<1>2. Spec => []DeliveryInv
  BY <1>1, InitDelivery, PTL DEF Spec
<1> QED
  BY <1>2, SoundDelivery, PTL
=============================================================================
