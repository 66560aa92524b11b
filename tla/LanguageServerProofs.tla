------------------------ MODULE LanguageServerProofs ------------------------
(***************************************************************************)
(* Proofs about LanguageServer: whoever waits for a response has its       *)
(* handler and the other way round, responses reach the request they       *)
(* answer, and edits reach the server one after the other, for any number  *)
(* of requests and edits.                                                  *)
(***************************************************************************)
EXTENDS LanguageServer, TLAPS

State == {"new", "waiting", "answered", "done", "timeout", "dropped", "reset", "failed"}

Entry == [state : State, id : Int] \cup [state : State, id : Int, by : All]

Message == [kind : {"change"}, document : Nat]
           \cup [kind : {"request"}, id : Nat, request : All]
           \cup [kind : {"cancel"}, id : Int] \cup [kind : {"exit"}]

Response == [id : Nat, request : All]

Types ==
    /\ next_id \in Nat /\ document \in Nat
    /\ response_handlers \subseteq [id : Nat, request : All]
    /\ handlers_open \in BOOLEAN /\ notifying \in BOOLEAN /\ outbound_open \in BOOLEAN
    /\ notifications \in Seq(Message) /\ outbound \in Seq(Message)
    /\ requests \in [All -> Entry]
    /\ server \in [state : {"reading", "hung", "exited"}, document : Nat,
                   stdin : Seq(Message), work : SUBSET Response, stdout : Seq(Response)]

\* The part of HandlersSound about ids and handlers, and what it needs: the
\* queues close only after the handlers have been taken.
Handlers ==
    /\ \A h \in response_handlers :
          h.id <= next_id /\ requests[h.request].id = h.id
    /\ \A h, g \in response_handlers : h.id = g.id => h = g
    /\ ~handlers_open => response_handlers = {}
    /\ ~notifying \/ ~outbound_open => ~handlers_open
    /\ output_task = "ended" => outbound = <<>> /\ ~outbound_open
    /\ shutdown = "no" => requests[Shutdown].state = "new"
    /\ WaitersHaveHandlers

\* The changes in a queue are those that lead from text d to text e, in order.
Links(q, d, e) ==
    /\ \A i \in DOMAIN q : q[i].kind = "change" => q[i].document \in (d + 1)..e
    /\ \A i, j \in DOMAIN q :
          i < j /\ q[i].kind = "change" /\ q[j].kind = "change" =>
              q[i].document < q[j].document
    /\ \A n \in (d + 1)..e : \E i \in DOMAIN q : q[i].kind = "change" /\ q[i].document = n

\* Every queue begins where the one in front of it ends, until it is closed.
Chain ==
    server.state = "reading" =>
        \E b, c, e \in Nat :
            /\ server.document <= b /\ b <= c /\ c <= e /\ e <= document
            /\ Links(server.stdin, server.document, b)
            /\ Links(outbound, b, c)
            /\ outbound_open => Links(notifications, c, e) /\ (notifying => e = document)

Asked(q) == requests[q].state # "new"

\* No two requests of the program share an id.  One made during the shutdown
\* may share that of the shutdown request, which does not wait any more then:
\* its handler has been replaced.
IdsDiffer ==
    /\ \A p, q \in Request : Asked(p) /\ Asked(q) /\ requests[p].id = requests[q].id => p = q
    /\ \A q \in Request : Asked(q) => requests[q].id < next_id
    /\ Asked(Shutdown) => requests[Shutdown].id <= next_id
    /\ \A q \in Request :
          Asked(q) /\ Waiting(Shutdown) => requests[q].id # requests[Shutdown].id

\* AnsweredByOwn, for good: an id that is shared has been taken.
AnswersOwned ==
    \A q \in All : requests[q].state \in {"answered", "done"} =>
        \/ requests[q].by = q
        \/ /\ requests[q].by = Shutdown /\ Asked(Shutdown)
           /\ requests[q].id = requests[Shutdown].id

\* What is on its way carries the id of the request it belongs to.
Own(m)    == Asked(m.request) /\ requests[m.request].id = m.id
Posted    == {m \in Message : m.kind = "request" => Own(m)}
Given     == {w \in Response : Own(w)}
Notices   == {m \in Message : m.kind # "request"}
MailOwned ==
    /\ notifications \in Seq(Notices)
    /\ outbound \in Seq(Posted) /\ server.stdin \in Seq(Posted)
    /\ server.work \subseteq Given /\ server.stdout \in Seq(Given)

ServerInv == Types /\ Handlers
IdsInv    == ServerInv /\ IdsDiffer /\ MailOwned /\ AnswersOwned
EditsInv  == ServerInv /\ document <= MaxEdits /\ server.document <= document /\ Chain

-----------------------------------------------------------------------------
(* Requests *)

LEMMA ShutdownIsOne == Shutdown \in All /\ Request \subseteq All
BY DEF All

LEMMA EntryFacts ==
    ASSUME NEW r \in Entry, NEW s \in State
    PROVE  LET t == [r EXCEPT !.state = s]
           IN  /\ t \in Entry /\ t.state = s /\ t.id = r.id /\ t.by = r.by
BY DEF Entry

LEMMA EntryTypes ==
    ASSUME NEW r \in Entry
    PROVE  r.state \in State /\ r.id \in Int
BY DEF Entry

LEMMA ResetFacts ==
    ASSUME NEW reqs \in [All -> Entry], NEW lost
    PROVE  /\ Reset(reqs, lost) \in [All -> Entry]
           /\ \A q \in All :
                 LET r == Reset(reqs, lost)[q]
                 IN  /\ r.id = reqs[q].id /\ r.by = reqs[q].by
                     /\ r.state = IF q \in lost /\ reqs[q].state = "waiting" THEN "reset"
                                  ELSE reqs[q].state
<1>1. ASSUME NEW q \in All
      PROVE LET r == Reset(reqs, lost)[q]
            IN  /\ r \in Entry /\ r.id = reqs[q].id /\ r.by = reqs[q].by
                /\ r.state = IF q \in lost /\ reqs[q].state = "waiting" THEN "reset"
                             ELSE reqs[q].state
  <2>1. reqs[q] \in Entry /\ "reset" \in State
    BY DEF State
  <2>2. Reset(reqs, lost)[q] = IF q \in lost /\ reqs[q].state = "waiting"
                               THEN [reqs[q] EXCEPT !.state = "reset"] ELSE reqs[q]
    BY DEF Reset
  <2> QED
    BY <2>1, <2>2, EntryFacts
<1> QED
  BY <1>1 DEF Reset

\* One request ends in the given way.
LEMMA EndFacts ==
    ASSUME NEW reqs \in [All -> Entry], NEW q \in All, NEW s \in State
    PROVE  LET r == [reqs EXCEPT ![q].state = s]
           IN  /\ r \in [All -> Entry]
               /\ \A p \in All : /\ r[p].id = reqs[p].id /\ r[p].by = reqs[p].by
                                 /\ r[p].state = IF p = q THEN s ELSE reqs[p].state
<1>1. [reqs[q] EXCEPT !.state = s] \in Entry
  BY EntryFacts
<1>2. [reqs EXCEPT ![q].state = s] = [reqs EXCEPT ![q] = [reqs[q] EXCEPT !.state = s]]
  OBVIOUS
<1> QED
  BY <1>1, <1>2, EntryFacts

-----------------------------------------------------------------------------
(* Types *)

LEMMA NotifyTypes ==
    ASSUME notifications \in Seq(Message), NEW m \in Message, Notify(m)
    PROVE  notifications' \in Seq(Message)
BY DEF Notify

LEMMA CancelType == ASSUME NEW id \in Int PROVE [kind |-> "cancel", id |-> id] \in Message
BY DEF Message

LEMMA TakeTypes ==
    ASSUME requests \in [All -> Entry], TakeHandlers
    PROVE  /\ response_handlers' = {} /\ handlers_open' = FALSE
           /\ requests' \in [All -> Entry]
BY ResetFacts DEF TakeHandlers

LEMMA TailTypes ==
    ASSUME NEW S, NEW q \in Seq(S), q # <<>>
    PROVE  Head(q) \in S /\ Tail(q) \in Seq(S)
OBVIOUS

LEMMA AskTypes ==
    ASSUME Types, NEW q \in All, NEW id \in Nat, AskAs(q, id)
    PROVE  /\ response_handlers' \subseteq [id : Nat, request : All]
           /\ outbound' \in Seq(Message) /\ requests' \in [All -> Entry]
           /\ requests'[q].id = id
           /\ requests'[q].state = IF handlers_open /\ outbound_open THEN "waiting" ELSE "failed"
           /\ UNCHANGED <<handlers_open, notifications, notifying, outbound_open,
                          taskVars, document, server>>
<1> DEFINE asked == [state |-> IF handlers_open /\ outbound_open THEN "waiting" ELSE "failed",
                     id |-> id]
<1>1. asked \in Entry
  BY DEF Types, Entry, State
<1>2. requests' = [Reset(requests, Owners(HandlersOf(id))) EXCEPT ![q] = asked]
  BY DEF AskAs
<1>3. requests' \in [All -> Entry] /\ requests'[q] = asked
  BY <1>1, <1>2, ResetFacts DEF Types
<1>4. [kind |-> "request", id |-> id, request |-> q] \in Message
  BY DEF Message
<1>5. outbound' \in Seq(Message)
  BY <1>4 DEF Types, AskAs
<1>6. response_handlers' \subseteq [id : Nat, request : All]
  BY DEF Types, AskAs
<1> QED
  BY <1>3, <1>5, <1>6 DEF AskAs

LEMMA HandleTypes == ASSUME Types, Handle PROVE Types'
<1> DEFINE m == Head(server.stdin)
<1>1. server.stdin \in Seq(Message) /\ server.stdin # <<>>
  BY DEF Types, Handle
<1>2. m \in Message /\ Tail(server.stdin) \in Seq(Message) /\ <<>> \in Seq(Message)
  BY <1>1, TailTypes
<1> HIDE DEF m
<1>3. \/ m.kind = "change" /\ m.document \in Nat
      \/ m.kind = "request" /\ m.id \in Nat /\ m.request \in All
      \/ m.kind = "cancel" \/ m.kind = "exit"
  BY <1>2 DEF Message
<1>4. server' \in [state : {"reading", "hung", "exited"}, document : Nat,
                   stdin : Seq(Message), work : SUBSET Response, stdout : Seq(Response)]
  <2>1. CASE m.kind = "change"
    <3>1. server' = [server EXCEPT !.stdin = Tail(server.stdin), !.document = m.document]
      BY <2>1 DEF Handle, m
    <3> QED
      BY <1>2, <1>3, <2>1, <3>1 DEF Types
  <2>2. CASE m.kind = "request"
    <3> DEFINE w == [id |-> m.id, request |-> m.request]
    <3>1. server' = [server EXCEPT !.stdin = Tail(server.stdin),
                                   !.work = server.work \cup {w}]
      BY <2>2 DEF Handle, m
    <3>2. w \in Response
      BY <1>3, <2>2 DEF Types, Response
    <3> QED
      BY <1>2, <3>1, <3>2 DEF Types
  <2>3. CASE m.kind = "cancel"
    <3>1. server' = [server EXCEPT !.stdin = Tail(server.stdin)]
      BY <2>3 DEF Handle, m
    <3> QED
      BY <1>2, <3>1 DEF Types
  <2>4. CASE m.kind = "exit"
    <3>1. server' = [server EXCEPT !.stdin = <<>>, !.work = {}, !.state = "exited"]
      BY <2>4 DEF Handle, m
    <3> QED
      BY <1>2, <3>1 DEF Types
  <2> QED
    BY <1>3, <2>1, <2>2, <2>3, <2>4
<1> QED
  BY <1>4 DEF Types, Handle, handlerVars, channelVars

LEMMA ReadTypes ==
    ASSUME Types, ReadResponse
    PROVE  LET m == Head(server.stdout)
               owners == Owners(HandlersOf(m.id))
           IN  /\ m \in Response /\ requests' \in [All -> Entry]
               /\ \A q \in All :
                    IF q \in owners /\ Waiting(q)
                    THEN /\ requests'[q].state = "answered" /\ requests'[q].id = requests[q].id
                         /\ requests'[q].by = m.request
                    ELSE requests'[q] = requests[q]
               /\ server' = [server EXCEPT !.stdout = Tail(server.stdout)]
               /\ server' \in [state : {"reading", "hung", "exited"}, document : Nat,
                     stdin : Seq(Message), work : SUBSET Response, stdout : Seq(Response)]
               /\ response_handlers' = response_handlers \ HandlersOf(m.id)
<1> DEFINE m == Head(server.stdout)
           owners == Owners(HandlersOf(m.id))
           got(q) == [state |-> "answered", id |-> requests[q].id, by |-> m.request]
<1>1. server.stdout \in Seq(Response) /\ server.stdout # <<>>
  BY DEF Types, ReadResponse
<1>2. m \in Response /\ Tail(server.stdout) \in Seq(Response)
  BY <1>1, TailTypes
<1>3. requests' = [q \in All |-> IF q \in owners /\ Waiting(q) THEN got(q) ELSE requests[q]]
  BY DEF ReadResponse
<1>4. server' = [server EXCEPT !.stdout = Tail(server.stdout)]
      /\ response_handlers' = response_handlers \ HandlersOf(m.id)
  BY DEF ReadResponse
<1> HIDE DEF m
<1>5. ASSUME NEW q \in All PROVE got(q) \in Entry
  BY <1>2, EntryTypes DEF Types, Entry, State, Response
<1> HIDE DEF owners
<1>6. requests' \in [All -> Entry]
  BY <1>3, <1>5 DEF Types
<1>7. server' \in [state : {"reading", "hung", "exited"}, document : Nat,
         stdin : Seq(Message), work : SUBSET Response, stdout : Seq(Response)]
  BY <1>2, <1>4 DEF Types
<1> QED
  BY <1>2, <1>3, <1>4, <1>6, <1>7 DEF m, owners

LEMMA AbandonTypes ==
    ASSUME Types, NEW q \in Request, Abandon(q)
    PROVE  /\ requests' \in [All -> Entry]
           /\ \A p \in All : /\ requests'[p].id = requests[p].id
                             /\ requests'[p].by = requests[p].by
                             /\ requests'[p].state = IF p = q THEN "dropped" ELSE requests[p].state
<1>1. requests' = [requests EXCEPT ![q].state = "dropped"] /\ q \in All
  BY ShutdownIsOne DEF Abandon
<1>2. "dropped" \in State /\ requests \in [All -> Entry]
  BY DEF State, Types
<1> QED
  BY <1>1, <1>2, EndFacts

LEMMA TimeoutTypes ==
    ASSUME Types, NEW q \in All, Timeout(q)
    PROVE  LET gone == HandlersOf(requests[q].id)
           IN  /\ requests' \in [All -> Entry]
               /\ \A p \in All :
                    /\ requests'[p].id = requests[p].id /\ requests'[p].by = requests[p].by
                    /\ IF p = q THEN requests'[p].state \in {"timeout", "failed"}
                       ELSE requests'[p].state =
                              IF p \in Owners(gone) /\ Waiting(p) THEN "reset"
                              ELSE requests[p].state
               /\ response_handlers' = response_handlers \ gone
<1> DEFINE gone == HandlersOf(requests[q].id)
           rest == Reset(requests, Owners(gone))
           s    == IF handlers_open THEN "timeout" ELSE "failed"
<1>1. requests' = [rest EXCEPT ![q].state = s] /\ response_handlers' = response_handlers \ gone
  BY DEF Timeout
<1> HIDE DEF gone
<1>2. /\ rest \in [All -> Entry]
      /\ \A p \in All : /\ rest[p].id = requests[p].id /\ rest[p].by = requests[p].by
                        /\ rest[p].state = IF p \in Owners(gone) /\ Waiting(p) THEN "reset"
                                           ELSE requests[p].state
  BY ResetFacts DEF Types, Waiting
<1> HIDE DEF rest
<1>3. s \in State /\ s \in {"timeout", "failed"}
  BY DEF State
<1> HIDE DEF s
<1>4. /\ requests' \in [All -> Entry]
      /\ \A p \in All : /\ requests'[p].id = rest[p].id /\ requests'[p].by = rest[p].by
                        /\ requests'[p].state = IF p = q THEN s ELSE rest[p].state
  BY <1>1, <1>2, <1>3, EndFacts
<1> QED
  BY <1>1, <1>2, <1>3, <1>4 DEF gone

LEMMA TypesStep == Types /\ [Next]_vars => Types'
<1> SUFFICES ASSUME Types, [Next]_vars PROVE Types'
  OBVIOUS
<1> USE ShutdownIsOne
<1>1. ASSUME NEW q \in Request, Ask(q) PROVE Types'
  <2>1. next_id \in Nat /\ AskAs(q, next_id) /\ next_id' = next_id + 1
    BY <1>1 DEF Ask, Types
  <2> QED
    BY <2>1, AskTypes DEF Types
<1>2. ASSUME NEW q \in Request, Abandon(q) PROVE Types'
  <2>1. requests' \in [All -> Entry]
    BY <1>2, AbandonTypes
  <2>2. requests[q].id \in Int
    BY EntryTypes DEF Types
  <2>3. notifications' \in Seq(Message)
    BY <1>2, <2>2, CancelType, NotifyTypes DEF Abandon, Types
  <2> QED
    BY <1>2, <2>1, <2>3 DEF Abandon, Types, handlerVars
<1>3. ASSUME NEW q \in All, Finish(q) PROVE Types'
  <2>1. requests \in [All -> Entry] /\ "done" \in State
        /\ requests' = [requests EXCEPT ![q].state = "done"]
    BY <1>3 DEF Finish, Types, State
  <2>2. requests' \in [All -> Entry]
    BY <2>1, EndFacts
  <2> QED
    BY <1>3, <2>2 DEF Finish, Types, handlerVars, channelVars
<1>4. ASSUME NEW q \in All, Timeout(q) PROVE Types'
  <2>2. requests' \in [All -> Entry]
    BY <1>4, TimeoutTypes
  <2>3. requests[q].id \in Int
    BY EntryTypes DEF Types
  <2>4. notifications' \in Seq(Message)
    BY <1>4, <2>3, CancelType, NotifyTypes DEF Timeout, Types
  <2>5. response_handlers' \subseteq response_handlers
    BY <1>4 DEF Timeout
  <2> QED
    BY <1>4, <2>2, <2>4, <2>5 DEF Timeout, Types
<1>5. ASSUME Edit PROVE Types'
  <2>1. [kind |-> "change", document |-> document + 1] \in Message /\ document + 1 \in Nat
    BY DEF Types, Message
  <2> QED
    BY <1>5, <2>1, NotifyTypes DEF Edit, Types, handlerVars
<1>6. ASSUME Serialize PROVE Types'
  <2>1. Head(notifications) \in Message /\ Tail(notifications) \in Seq(Message)
    BY <1>6, TailTypes DEF Serialize, Types
  <2> QED
    BY <1>6, <2>1 DEF Serialize, Types, handlerVars
<1>7. ASSUME SerializerEnds PROVE Types'
  BY <1>7 DEF SerializerEnds, Types, handlerVars
<1>8. ASSUME Write PROVE Types'
  <2>1. Head(outbound) \in Message /\ Tail(outbound) \in Seq(Message)
    BY <1>8, TailTypes DEF Write, Types
  <2>2. server' = [server EXCEPT !.stdin = Append(server.stdin, Head(outbound))]
    BY <1>8 DEF Write
  <2>3. server.stdin \in Seq(Message)
    BY DEF Types
  <2>4. Append(server.stdin, Head(outbound)) \in Seq(Message)
    BY <2>1, <2>3
  <2> QED
    BY <1>8, <2>1, <2>2, <2>4 DEF Write, Types, handlerVars
<1>9. ASSUME OutputEnds PROVE Types'
  <2>1. <<>> \in Seq(Message)
    OBVIOUS
  <2>2. TakeHandlers /\ outbound' = <<>> /\ outbound_open' = FALSE
        /\ UNCHANGED <<next_id, notifications, notifying, document, server>>
    BY <1>9 DEF OutputEnds
  <2> QED
    BY <2>1, <2>2, TakeTypes DEF Types
<1>10. ASSUME InputEnds PROVE Types'
  BY <1>10, TakeTypes DEF InputEnds, Types, channelVars
<1>11. ASSUME ReadResponse PROVE Types'
  BY <1>11, ReadTypes DEF ReadResponse, Types, channelVars
<1>12. ASSUME StartShutdown PROVE Types'
  <2>1. next_id \in Nat /\ AskAs(Shutdown, next_id) /\ next_id' = next_id
    BY <1>12 DEF StartShutdown, Types
  <2> QED
    BY <2>1, AskTypes DEF Types
<1>13. ASSUME FlushAndExit PROVE Types'
  <2>1. [kind |-> "exit"] \in Message
    BY DEF Message
  <2>2. TakeHandlers /\ Notify([kind |-> "exit"]) /\ notifying' = FALSE
        /\ UNCHANGED <<next_id, outbound, outbound_open, document, server>>
    BY <1>13 DEF FlushAndExit
  <2>3. notifications' \in Seq(Message)
    BY <2>1, <2>2, NotifyTypes DEF Types
  <2> QED
    BY <2>2, <2>3, TakeTypes DEF Types
<1>14. ASSUME Kill PROVE Types'
  <2>1. <<>> \in Seq(Message) /\ <<>> \in Seq(Response)
    OBVIOUS
  <2> QED
    BY <1>14, <2>1 DEF Kill, Types, handlerVars, channelVars
<1>15. ASSUME Handle PROVE Types'
  BY <1>15, HandleTypes
<1>16. ASSUME Answer PROVE Types'
  <2>1. PICK w \in server.work :
            server' = [server EXCEPT !.work = server.work \ {w},
                                     !.stdout = Append(server.stdout, w)]
    BY <1>16 DEF Answer
  <2>2. w \in Response /\ server.stdout \in Seq(Response)
    BY DEF Types
  <2>3. Append(server.stdout, w) \in Seq(Response) /\ server.work \ {w} \subseteq Response
    BY <2>2 DEF Types
  <2> QED
    BY <1>16, <2>1, <2>3 DEF Answer, Types, handlerVars, channelVars
<1>17. ASSUME Hang \/ Exit PROVE Types'
  <2>1. <<>> \in Seq(Message)
    OBVIOUS
  <2> QED
    BY <1>17, <2>1 DEF Hang, Exit, Types, handlerVars, channelVars
<1>18. ASSUME UNCHANGED vars PROVE Types'
  BY <1>18 DEF vars, Types, handlerVars, channelVars
<1> QED
  BY <1>1, <1>2, <1>3, <1>4, <1>5, <1>6, <1>7, <1>8, <1>9, <1>10, <1>11, <1>12,
     <1>13, <1>14, <1>15, <1>16, <1>17, <1>18 DEF Next

-----------------------------------------------------------------------------
(* Handlers *)

LEMMA OwnersFact ==
    ASSUME NEW handlers, NEW q
    PROVE  q \in Owners(handlers) <=> \E h \in handlers : h.request = q
BY DEF Owners

LEMMA HandlersOfFact ==
    ASSUME NEW id, NEW h PROVE h \in HandlersOf(id) <=> h \in response_handlers /\ h.id = id
BY DEF HandlersOf

LEMMA HandlerRecord ==
    ASSUME NEW h \in [id : Nat, request : All]
    PROVE  /\ h.id \in Nat /\ h.request \in All
           /\ h = [id |-> h.id, request |-> h.request]
OBVIOUS

\* Taking the handlers leaves nobody waiting.
LEMMA TakenGood ==
    ASSUME Types, Handlers, TakeHandlers
    PROVE  /\ response_handlers' = {} /\ handlers_open' = FALSE
           /\ \A q \in All : ~Waiting(q)' /\ requests'[q].id = requests[q].id
                             /\ requests'[q].by = requests[q].by
                             /\ \/ requests'[q].state = requests[q].state
                                \/ Waiting(q) /\ requests'[q].state = "reset"
<1>1. response_handlers' = {} /\ handlers_open' = FALSE
      /\ requests' = Reset(requests, Owners(response_handlers))
  BY DEF TakeHandlers
<1>2. ASSUME NEW q \in All
      PROVE /\ ~Waiting(q)' /\ requests'[q].id = requests[q].id
            /\ requests'[q].by = requests[q].by
            /\ \/ requests'[q].state = requests[q].state
               \/ Waiting(q) /\ requests'[q].state = "reset"
  <2>1. Waiting(q) => q \in Owners(response_handlers)
    BY OwnersFact DEF Handlers, WaitersHaveHandlers
  <2>2. /\ requests'[q].id = requests[q].id /\ requests'[q].by = requests[q].by
        /\ requests'[q].state = IF q \in Owners(response_handlers) /\ requests[q].state = "waiting"
                                THEN "reset" ELSE requests[q].state
    BY <1>1, ResetFacts DEF Types
  <2> QED
    BY <2>1, <2>2 DEF Waiting
<1> QED
  BY <1>1, <1>2

LEMMA TakenKeeps ==
    ASSUME Types, Handlers, TakeHandlers, next_id' = next_id,
           output_task' = "ended" => outbound' = <<>> /\ ~outbound_open',
           shutdown' = "no" => shutdown = "no"
    PROVE  Handlers'
<1>1. shutdown = "no" => requests'[Shutdown].state = "new"
  BY TakenGood, ShutdownIsOne DEF Handlers, Waiting
<1>2. WaitersHaveHandlers'
  BY TakenGood DEF WaitersHaveHandlers
<1> QED
  BY <1>1, <1>2, TakenGood DEF Handlers

LEMMA AskGood ==
    ASSUME Types, Handlers, NEW q \in All, requests[q].state = "new", AskAs(q, next_id),
           next_id' \in {next_id, next_id + 1}, shutdown' = "no" => shutdown = "no" /\ q # Shutdown
    PROVE  /\ Handlers' /\ requests'[q].id = next_id /\ requests'[q].state # "new"
           /\ \A p \in All \ {q} :
                /\ requests'[p].id = requests[p].id /\ requests'[p].by = requests[p].by
                /\ \/ requests'[p].state = requests[p].state
                   \/ Waiting(p) /\ requests'[p].state = "reset"
<1> DEFINE old  == HandlersOf(next_id)
           mine == [id |-> next_id, request |-> q]
           accepted == handlers_open /\ outbound_open
<1>1. /\ response_handlers' = IF handlers_open THEN (response_handlers \ old) \cup {mine}
                              ELSE response_handlers
      /\ UNCHANGED <<handlers_open, notifying, outbound_open, taskVars>>
  BY DEF AskAs
<1>2. /\ requests'[q].id = next_id
      /\ requests'[q].state = IF accepted THEN "waiting" ELSE "failed"
      /\ next_id \in Nat
  BY AskTypes DEF Types
<1>3. \A p \in All \ {q} :
         /\ requests'[p].id = requests[p].id /\ requests'[p].by = requests[p].by
         /\ requests'[p].state = IF p \in Owners(old) /\ requests[p].state = "waiting"
                                 THEN "reset" ELSE requests[p].state
  <2> DEFINE rest == Reset(requests, Owners(old))
             asked == [state |-> IF accepted THEN "waiting" ELSE "failed",
                       id |-> next_id]
  <2>1. requests' = [rest EXCEPT ![q] = asked]
    BY DEF AskAs
  <2>2. /\ rest \in [All -> Entry]
        /\ \A p \in All : /\ rest[p].id = requests[p].id /\ rest[p].by = requests[p].by
                          /\ rest[p].state = IF p \in Owners(old) /\ requests[p].state = "waiting"
                                             THEN "reset" ELSE requests[p].state
    BY ResetFacts DEF Types
  <2> HIDE DEF rest, asked, old
  <2>3. \A p \in All \ {q} : requests'[p] = rest[p]
    BY <2>1, <2>2
  <2> QED
    BY <2>2, <2>3
<1>4. \A p \in All : p \in Owners(old) <=> \E h \in response_handlers : h.id = next_id /\ h.request = p
  BY OwnersFact, HandlersOfFact
<1>5. \A h \in response_handlers :
        /\ h \in [id : Nat, request : All] /\ h.id \in Nat /\ h.request \in All
        /\ h.request # q /\ h.id <= next_id /\ requests[h.request].id = h.id
        /\ requests[h.request].state \in {"waiting", "dropped"}
  BY HandlerRecord DEF Types, Handlers, WaitersHaveHandlers
<1>6. handlers_open => outbound_open
  BY DEF Handlers
<1>7. \A h \in response_handlers' :
        \/ handlers_open /\ h = mine
        \/ h \in response_handlers /\ (handlers_open => h.id # next_id)
  BY <1>1, HandlersOfFact
<1>8. \A h \in response_handlers : ~(handlers_open /\ h.id = next_id) => h \in response_handlers'
  BY <1>1, HandlersOfFact
<1>9. handlers_open => mine \in response_handlers'
  BY <1>1
<1> HIDE DEF old
<1>10. \A h \in response_handlers' :
         /\ h.id <= next_id' /\ requests'[h.request].id = h.id
         /\ requests'[h.request].state \in {"waiting", "dropped"}
  <2> SUFFICES ASSUME NEW h \in response_handlers'
               PROVE  /\ h.id <= next_id' /\ requests'[h.request].id = h.id
                      /\ requests'[h.request].state \in {"waiting", "dropped"}
    OBVIOUS
  <2>1. CASE handlers_open /\ h = mine
    <3>1. h.id = next_id /\ h.request = q
      BY <2>1
    <3> QED
      BY <1>2, <1>6, <2>1, <3>1
  <2>2. CASE h \in response_handlers /\ (handlers_open => h.id # next_id)
    <3>1. handlers_open
      BY <2>2 DEF Handlers
    <3>2. h.request \notin Owners(old)
      BY <1>4, <1>5, <2>2, <3>1
    <3> QED
      BY <1>2, <1>3, <1>5, <2>2, <3>2
  <2> QED
    BY <1>7, <2>1, <2>2
<1>11. \A h, g \in response_handlers' : h.id = g.id => h = g
  BY <1>7, <1>5 DEF Handlers
<1>12. \A p \in All : Waiting(p)' => [id |-> requests'[p].id, request |-> p] \in response_handlers'
  <2> SUFFICES ASSUME NEW p \in All, Waiting(p)'
               PROVE  [id |-> requests'[p].id, request |-> p] \in response_handlers'
    OBVIOUS
  <2>1. CASE p = q
    BY <1>2, <1>9, <2>1 DEF Waiting
  <2>2. CASE p # q
    <3> DEFINE g == [id |-> requests[p].id, request |-> p]
    <3>1. Waiting(p) /\ p \notin Owners(old) /\ requests'[p].id = requests[p].id
      BY <1>3, <2>2 DEF Waiting
    <3>2. g \in response_handlers /\ g.request = p
      BY <3>1 DEF Handlers, WaitersHaveHandlers
    <3>3. g.id # next_id
      BY <1>4, <3>1, <3>2
    <3> QED
      BY <1>8, <3>1, <3>2, <3>3
  <2> QED
    BY <2>1, <2>2
<1>13. shutdown' = "no" => requests'[Shutdown].state = "new"
  BY <1>3, ShutdownIsOne DEF Handlers
<1>14. output_task' = "ended" => outbound' = <<>> /\ ~outbound_open'
  BY <1>1 DEF Handlers, AskAs, taskVars
<1>15. Handlers'
  BY <1>1, <1>10, <1>11, <1>12, <1>13, <1>14 DEF Handlers, WaitersHaveHandlers
<1> QED
  BY <1>2, <1>3, <1>15 DEF Waiting

\* Requests change only by one of them ending, and handlers only go away with
\* the requests they belong to.
LEMMA ShrinkGood ==
    ASSUME Types, Handlers, response_handlers' \subseteq response_handlers,
           \A p \in All : requests'[p].id = requests[p].id,
           \A p \in All : Waiting(p)' =>
               Waiting(p) /\ (\E h \in response_handlers' : h.request = p),
           \A h \in response_handlers' :
               requests'[h.request].state \in {"waiting", "dropped"},
           requests[Shutdown].state = "new" => requests'[Shutdown].state = "new",
           UNCHANGED <<next_id, handlers_open, notifying, outbound, outbound_open,
                       output_task, shutdown>>
    PROVE  Handlers'
<1>1. ASSUME NEW p \in All, Waiting(p)'
      PROVE  [id |-> requests'[p].id, request |-> p] \in response_handlers'
  <2>1. PICK h \in response_handlers' : h.request = p
    BY <1>1
  <2>2. h = [id |-> h.id, request |-> h.request] /\ requests[p].id = h.id
    BY <2>1, HandlerRecord DEF Types, Handlers
  <2> QED
    BY <2>1, <2>2
<1>2. \A h \in response_handlers' : h.request \in All
  BY HandlerRecord DEF Types
<1> QED
  BY <1>1, <1>2 DEF Handlers, WaitersHaveHandlers

LEMMA HandlersStep == Types /\ Handlers /\ [Next]_vars => Handlers'
<1> SUFFICES ASSUME Types, Handlers, [Next]_vars PROVE Handlers'
  OBVIOUS
<1> USE ShutdownIsOne
<1>0. \A h \in response_handlers :
        /\ h.id \in Nat /\ h.request \in All /\ requests[h.request].id = h.id
        /\ requests[h.request].state \in {"waiting", "dropped"}
        /\ \A g \in response_handlers : g.id = h.id => g = h
  BY HandlerRecord DEF Types, Handlers, WaitersHaveHandlers
<1>1. ASSUME NEW q \in Request, Ask(q) PROVE Handlers'
  <2>1. q # Shutdown
    BY LanguageServerAssumption
  <2> QED
    BY <1>1, <2>1, AskGood DEF Ask
<1>2. ASSUME NEW q \in Request, Abandon(q) PROVE Handlers'
  <2>1. q # Shutdown
    BY LanguageServerAssumption
  <2>2. UNCHANGED <<next_id, response_handlers, handlers_open, notifying, outbound,
                    outbound_open, output_task, shutdown>>
    BY <1>2 DEF Abandon, handlerVars, taskVars
  <2>3. \A p \in All : Waiting(p)' => Waiting(p) /\ (\E h \in response_handlers : h.request = p)
    BY <1>2, AbandonTypes DEF Waiting, Handlers, WaitersHaveHandlers
  <2> QED
    BY <1>0, <1>2, <2>1, <2>2, <2>3, AbandonTypes, ShrinkGood
<1>3. ASSUME NEW q \in All, Finish(q) PROVE Handlers'
  <2>1. UNCHANGED <<next_id, response_handlers, handlers_open, notifying, outbound,
                    outbound_open, output_task, shutdown>> /\ requests[q].state = "answered"
    BY <1>3 DEF Finish, handlerVars, channelVars, taskVars
  <2>2. \A p \in All : /\ requests'[p].id = requests[p].id
                       /\ requests'[p].state = IF p = q THEN "done" ELSE requests[p].state
    BY <1>3, EndFacts DEF Finish, Types, State
  <2>3. \A p \in All : Waiting(p)' => Waiting(p) /\ (\E h \in response_handlers : h.request = p)
    BY <2>2 DEF Waiting, Handlers, WaitersHaveHandlers
  <2> QED
    BY <1>0, <2>1, <2>2, <2>3, ShrinkGood
<1>4. ASSUME NEW q \in All, Timeout(q) PROVE Handlers'
  <2> DEFINE gone == HandlersOf(requests[q].id)
  <2>1. UNCHANGED <<next_id, handlers_open, notifying, outbound, outbound_open,
                    output_task, shutdown>> /\ requests[q].state \in {"waiting", "answered"}
    BY <1>4 DEF Timeout, taskVars, Pending
  <2>2. \A h : h \in response_handlers' <=>
               h \in response_handlers /\ h.id # requests[q].id
    BY <1>4, TimeoutTypes, HandlersOfFact
  <2>3. \A p : p \in Owners(gone) <=> \E h \in response_handlers : h.id = requests[q].id /\ h.request = p
    BY OwnersFact, HandlersOfFact
  <2>4. \A h \in response_handlers' : h.request \notin Owners(gone) /\ h.request # q
    BY <1>0, <2>2, <2>3
  <2>5. \A h \in response_handlers' : requests'[h.request].state \in {"waiting", "dropped"}
    BY <1>0, <1>4, <2>2, <2>4, TimeoutTypes
  <2>6. ASSUME NEW p \in All, Waiting(p)'
        PROVE Waiting(p) /\ (\E h \in response_handlers' : h.request = p)
    <3>1. p # q /\ Waiting(p) /\ p \notin Owners(gone)
      BY <1>4, <2>6, TimeoutTypes DEF Waiting
    <3>2. PICK h \in response_handlers : h.request = p
      BY <3>1 DEF Handlers, WaitersHaveHandlers
    <3> QED
      BY <2>2, <2>3, <3>1, <3>2
  <2>7. requests[Shutdown].state = "new" => requests'[Shutdown].state = "new"
    BY <1>4, <2>1, TimeoutTypes DEF Waiting
  <2> QED
    BY <1>4, <2>1, <2>2, <2>5, <2>6, <2>7, TimeoutTypes, ShrinkGood
<1>5. ASSUME UNCHANGED <<next_id, response_handlers, handlers_open, requests,
                        notifying, output_task>>,
             output_task = "ended" => outbound' = <<>>,
             ~outbound_open' => ~outbound_open \/ ~notifying,
             outbound_open' => outbound_open,
             shutdown' = "no" => shutdown = "no"
      PROVE  Handlers'
  BY <1>5 DEF Handlers, WaitersHaveHandlers, Waiting
<1>6. ASSUME Edit \/ Serialize \/ SerializerEnds \/ Write PROVE Handlers'
  <2>1. UNCHANGED <<next_id, response_handlers, handlers_open, requests, notifying,
                    output_task, shutdown>>
    BY <1>6 DEF Edit, Serialize, SerializerEnds, Write, taskVars, handlerVars
  <2>2. output_task = "ended" => outbound' = <<>>
    BY <1>6 DEF Edit, Serialize, SerializerEnds, Write, Handlers
  <2>3. /\ ~outbound_open' => ~outbound_open \/ ~notifying
        /\ outbound_open' => outbound_open
    BY <1>6 DEF Edit, Serialize, SerializerEnds, Write
  <2>4. shutdown' = "no" => shutdown = "no"
    BY <2>1
  <2> QED
    BY <1>5, <2>1, <2>2, <2>3, <2>4, Zenon
<1>7. ASSUME Kill \/ Handle \/ Answer \/ Hang \/ Exit \/ UNCHANGED vars PROVE Handlers'
  <2>1. UNCHANGED <<next_id, response_handlers, handlers_open, requests, notifying,
                    outbound, outbound_open, output_task>>
    BY <1>7 DEF Kill, Handle, Answer, Hang, Exit, vars, handlerVars, taskVars, channelVars
  <2>2. shutdown' = "no" => shutdown = "no"
    BY <1>7 DEF Kill, Handle, Answer, Hang, Exit, vars
  <2>3. output_task = "ended" => outbound' = <<>>
    BY <2>1 DEF Handlers
  <2>4. /\ ~outbound_open' => ~outbound_open \/ ~notifying
        /\ outbound_open' => outbound_open
    BY <2>1
  <2> QED
    BY <1>5, <2>1, <2>2, <2>3, <2>4, Zenon
<1>8. ASSUME OutputEnds PROVE Handlers'
  BY <1>8, TakenKeeps DEF OutputEnds
<1>9. ASSUME InputEnds PROVE Handlers'
  BY <1>9, TakenKeeps DEF InputEnds, channelVars, Handlers
<1>10. ASSUME FlushAndExit PROVE Handlers'
  BY <1>10, TakenKeeps DEF FlushAndExit, taskVars, Handlers
<1>11. ASSUME StartShutdown PROVE Handlers'
  <2>1. requests[Shutdown].state = "new" /\ AskAs(Shutdown, next_id) /\ next_id' = next_id
        /\ shutdown' # "no"
    BY <1>11 DEF StartShutdown, Handlers
  <2> QED
    BY <2>1, AskGood
<1>12. ASSUME ReadResponse PROVE Handlers'
  <2> DEFINE m == Head(server.stdout)
             owners == Owners(HandlersOf(m.id))
  <2>1. UNCHANGED <<next_id, handlers_open, notifying, outbound, outbound_open,
                    output_task, shutdown>>
    BY <1>12 DEF ReadResponse, channelVars, taskVars
  <2>2. \A h : h \in response_handlers' <=> h \in response_handlers /\ h.id # m.id
    BY <1>12, ReadTypes, HandlersOfFact
  <2>3. \A p : p \in owners <=> \E h \in response_handlers : h.id = m.id /\ h.request = p
    BY OwnersFact, HandlersOfFact
  <2>4. \A q \in All : IF q \in owners /\ Waiting(q)
                       THEN requests'[q].state = "answered" /\ requests'[q].id = requests[q].id
                       ELSE requests'[q] = requests[q]
    BY <1>12, ReadTypes
  <2> HIDE DEF owners, m
  <2>5. \A h \in response_handlers' : h.request \notin owners
    BY <1>0, <2>2, <2>3
  <2>6. ASSUME NEW p \in All, Waiting(p)'
        PROVE Waiting(p) /\ (\E h \in response_handlers' : h.request = p)
    <3>1. Waiting(p) /\ p \notin owners
      BY <2>4, <2>6 DEF Waiting
    <3>2. PICK h \in response_handlers : h.request = p
      BY <3>1 DEF Handlers, WaitersHaveHandlers
    <3> QED
      BY <2>2, <2>3, <3>1, <3>2
  <2>7. \A h \in response_handlers' : requests'[h.request].state \in {"waiting", "dropped"}
    BY <1>0, <2>2, <2>4, <2>5
  <2>8. requests[Shutdown].state = "new" => requests'[Shutdown].state = "new"
    BY <2>4 DEF Waiting
  <2>9. \A p \in All : requests'[p].id = requests[p].id
    BY <2>4
  <2> QED
    BY <2>1, <2>2, <2>6, <2>7, <2>8, <2>9, ShrinkGood
<1> QED
  BY <1>1, <1>2, <1>3, <1>4, <1>6, <1>7, <1>8, <1>9, <1>10, <1>11, <1>12 DEF Next

-----------------------------------------------------------------------------
(* Ids *)

LEMMA SeqGrows == ASSUME NEW S, NEW T, S \subseteq T, NEW q \in Seq(S) PROVE q \in Seq(T)
OBVIOUS

\* Everything but the making of a request: who has asked, and as what.
SameIds ==
    /\ \A p \in All : /\ requests'[p].id = requests[p].id /\ (Asked(p)' <=> Asked(p))
                      /\ Waiting(p)' => Waiting(p)
    /\ next_id' = next_id

\* A request is made, with an id that no one else waits for.
NewId(q) ==
    /\ ~Asked(q) /\ Asked(q)' /\ requests'[q].id = next_id
    /\ \A p \in All \ {q} : /\ requests'[p].id = requests[p].id /\ (Asked(p)' <=> Asked(p))
                            /\ Waiting(p)' => Waiting(p) /\ requests[p].id # next_id
    /\ next_id' = IF q = Shutdown THEN next_id ELSE next_id + 1

LEMMA RequestOrShutdown ==
    Shutdown \notin Request /\ \A p \in All : p \in Request \/ p = Shutdown
BY LanguageServerAssumption DEF All

LEMMA IdsStay ==
    ASSUME Types, IdsDiffer, SameIds \/ \E q \in All : NewId(q)
    PROVE  /\ IdsDiffer' /\ Posted \subseteq Posted' /\ Given \subseteq Given'
<1> USE ShutdownIsOne, RequestOrShutdown
<1>1. \A p \in All : Asked(p) => Asked(p)' /\ requests'[p].id = requests[p].id
  BY DEF SameIds, NewId
<1>2. \A m : m.request \in All /\ Own(m) => Own(m)'
  BY <1>1 DEF Own
<1>3. Posted \subseteq Posted'
  <2>1. \A m \in Message : m.kind = "request" => m.request \in All
    BY DEF Message
  <2> QED
    BY <1>2, <2>1 DEF Posted
<1>4. Given \subseteq Given'
  BY <1>2 DEF Given, Response
<1>5. CASE SameIds
  <2>1. /\ \A p \in All : /\ requests'[p].id = requests[p].id /\ (Asked(p)' <=> Asked(p))
                          /\ Waiting(p)' => Waiting(p)
        /\ next_id' = next_id
    BY <1>5 DEF SameIds
  <2> QED
    BY <1>3, <1>4, <2>1 DEF IdsDiffer
<1>6. ASSUME NEW q \in All, NewId(q) PROVE IdsDiffer'
  <2>1. next_id \in Nat /\ (\A p \in All : requests[p].id \in Int)
    BY EntryTypes DEF Types
  <2>2. /\ \A p \in All : Asked(p)' <=> p = q \/ Asked(p)
        /\ \A p \in All : requests'[p].id = IF p = q THEN next_id ELSE requests[p].id
        /\ \A p \in All \ {q} : Waiting(p)' => Waiting(p) /\ requests[p].id # next_id
        /\ ~Asked(q)
    BY <1>6 DEF NewId
  <2>3. next_id' = IF q = Shutdown THEN next_id ELSE next_id + 1
    BY <1>6 DEF NewId
  <2>4. \A p \in Request : Asked(p) => p # q /\ requests[p].id < next_id
    BY <2>2 DEF IdsDiffer
  <2>5. \A p \in Request : Asked(p)' => requests'[p].id < next_id'
    BY <2>1, <2>2, <2>3, <2>4
  <2>6. \A o, p \in Request : Asked(o)' /\ Asked(p)' /\ requests'[o].id = requests'[p].id => o = p
    BY <2>1, <2>2, <2>4 DEF IdsDiffer
  <2>7. Asked(Shutdown)' => requests'[Shutdown].id <= next_id'
    BY <2>1, <2>2, <2>3 DEF IdsDiffer
  <2>8. ASSUME NEW p \in Request, Asked(p)', Waiting(Shutdown)'
        PROVE  requests'[p].id # requests'[Shutdown].id
    <3>1. CASE q = Shutdown
      BY <2>1, <2>2, <2>4, <2>8, <3>1
    <3>2. CASE q # Shutdown
      <4>1. Waiting(Shutdown) /\ requests[Shutdown].id # next_id
            /\ requests'[Shutdown].id = requests[Shutdown].id
        BY <2>2, <2>8, <3>2
      <4> QED
        BY <2>2, <2>8, <4>1 DEF IdsDiffer
    <3> QED
      BY <3>1, <3>2
  <2> QED
    BY <2>5, <2>6, <2>7, <2>8 DEF IdsDiffer
<1> QED
  BY <1>3, <1>4, <1>5, <1>6

\* What holds of the answers already given stays so.
LEMMA AnswersStay ==
    ASSUME AnswersOwned, SameIds \/ (\E q \in All : NewId(q)),
           \A p \in All : requests'[p].state \in {"answered", "done"} =>
               requests[p].state \in {"answered", "done"} /\ requests'[p].by = requests[p].by
    PROVE  AnswersOwned'
<1> USE ShutdownIsOne
<1>1. \A p \in All : Asked(p) => Asked(p)' /\ requests'[p].id = requests[p].id
  BY DEF SameIds, NewId
<1>2. \A p \in All : requests[p].state \in {"answered", "done"} => Asked(p)
  BY DEF Asked
<1> QED
  BY <1>1, <1>2 DEF AnswersOwned

\* A request that is made takes over the handler at its id.
LEMMA AskTakesId ==
    ASSUME Types, Handlers, NEW q \in All, requests[q].state = "new", AskAs(q, next_id),
           next_id' = (IF q = Shutdown THEN next_id ELSE next_id + 1),
           shutdown' = "no" => shutdown = "no" /\ q # Shutdown
    PROVE  NewId(q)
<1>1. /\ requests'[q].id = next_id /\ requests'[q].state # "new"
      /\ Handlers'
      /\ \A p \in All \ {q} :
           /\ requests'[p].id = requests[p].id
           /\ \/ requests'[p].state = requests[p].state
              \/ Waiting(p) /\ requests'[p].state = "reset"
  <2>1. next_id' \in {next_id, next_id + 1}
    OBVIOUS
  <2> QED
    BY <2>1, AskGood
<1>2. \A p \in All \ {q} : Waiting(p)' => Waiting(p)
  BY <1>1 DEF Waiting
<1>3. ASSUME NEW p \in All \ {q}, Waiting(p)', requests[p].id = next_id PROVE FALSE
  <2>1. [id |-> next_id, request |-> p] \in response_handlers'
    BY <1>1, <1>3 DEF Handlers, WaitersHaveHandlers
  <2>2. handlers_open' /\ outbound_open'
    BY <1>1, <2>1 DEF Handlers
  <2>3. Waiting(q)'
    BY <2>2, AskTypes DEF Types, Waiting
  <2>4. [id |-> next_id, request |-> q] \in response_handlers'
    BY <1>1, <2>3 DEF Handlers, WaitersHaveHandlers
  <2>5. [id |-> next_id, request |-> p] = [id |-> next_id, request |-> q]
    BY <1>1, <2>1, <2>4 DEF Handlers
  <2> QED
    BY <2>5
<1>4. ~Asked(q) /\ Asked(q)' /\ requests'[q].id = next_id
  BY <1>1 DEF Asked
<1>5. \A p \in All \ {q} : requests'[p].id = requests[p].id /\ (Asked(p)' <=> Asked(p))
  BY <1>1 DEF Asked, Waiting
<1> QED
  BY <1>2, <1>3, <1>4, <1>5 DEF NewId

\* A step makes a request or leaves who has asked alone; a response goes to
\* the request it answers or to one that has taken over its id.
LEMMA RequestsStep ==
    ASSUME IdsInv, [Next]_vars
    PROVE  /\ SameIds \/ \E q \in All : NewId(q)
           /\ AnswersOwned'
<1> USE ShutdownIsOne, RequestOrShutdown DEF IdsInv, ServerInv
<1>1. ASSUME NEW q \in All, requests[q].state = "new", AskAs(q, next_id),
             next_id' = (IF q = Shutdown THEN next_id ELSE next_id + 1),
             shutdown' = "no" => shutdown = "no" /\ q # Shutdown
      PROVE  NewId(q) /\ AnswersOwned'
  <2>1. NewId(q)
    BY <1>1, AskTakesId
  <2>2. \A p \in All \ {q} :
           /\ requests'[p].by = requests[p].by
           /\ \/ requests'[p].state = requests[p].state
              \/ Waiting(p) /\ requests'[p].state = "reset"
    BY <1>1, AskGood
  <2>3. requests'[q].state \in {"waiting", "failed"}
    BY <1>1, AskTypes DEF Types
  <2> QED
    BY <2>1, <2>2, <2>3, AnswersStay
<1>2. ASSUME NEW q \in Request, Ask(q) PROVE NewId(q) /\ AnswersOwned'
  BY <1>1, <1>2 DEF Ask
<1>3. ASSUME StartShutdown PROVE NewId(Shutdown) /\ AnswersOwned'
  BY <1>1, <1>3 DEF StartShutdown, Handlers
<1>4. ASSUME NEW q \in Request, Abandon(q) PROVE SameIds /\ AnswersOwned'
  <2>1. SameIds
    BY <1>4, AbandonTypes DEF Abandon, SameIds, Asked, Pending, Waiting
  <2> QED
    BY <1>4, <2>1, AbandonTypes, AnswersStay
<1>5. ASSUME NEW q \in All, Finish(q) PROVE SameIds /\ AnswersOwned'
  <2>1. \A p \in All : /\ requests'[p].id = requests[p].id /\ requests'[p].by = requests[p].by
                       /\ requests'[p].state = IF p = q THEN "done" ELSE requests[p].state
    BY <1>5, EndFacts DEF Finish, Types, State
  <2>2. requests[q].state = "answered" /\ next_id' = next_id
    BY <1>5 DEF Finish
  <2>3. SameIds
    BY <2>1, <2>2 DEF SameIds, Asked, Waiting
  <2> QED
    BY <2>1, <2>2, <2>3, AnswersStay
<1>6. ASSUME NEW q \in All, Timeout(q) PROVE SameIds /\ AnswersOwned'
  <2>1. requests[q].state \in {"waiting", "answered"} /\ next_id' = next_id
    BY <1>6 DEF Timeout, Pending
  <2>2. SameIds
    BY <1>6, <2>1, TimeoutTypes DEF SameIds, Asked, Waiting
  <2> QED
    BY <1>6, <2>2, TimeoutTypes, AnswersStay
<1>7. ASSUME TakeHandlers, next_id' = next_id PROVE SameIds /\ AnswersOwned'
  <2>1. SameIds
    BY <1>7, TakenGood DEF SameIds, Asked, Waiting
  <2> QED
    BY <1>7, <2>1, TakenGood, AnswersStay
<1>8. ASSUME OutputEnds \/ InputEnds \/ FlushAndExit PROVE SameIds /\ AnswersOwned'
  BY <1>7, <1>8 DEF OutputEnds, InputEnds, FlushAndExit
<1>9. ASSUME UNCHANGED <<next_id, requests>> PROVE SameIds /\ AnswersOwned'
  <2>1. SameIds
    BY <1>9 DEF SameIds, Asked, Waiting
  <2> QED
    BY <1>9, <2>1, AnswersStay
<1>10. ASSUME \/ Edit \/ Serialize \/ SerializerEnds \/ Write
              \/ Kill \/ Handle \/ Answer \/ Hang \/ Exit \/ UNCHANGED vars
       PROVE  SameIds /\ AnswersOwned'
  BY <1>9, <1>10 DEF Edit, Serialize, SerializerEnds, Write, Kill, Handle, Answer, Hang,
     Exit, vars
<1>11. ASSUME ReadResponse PROVE SameIds /\ AnswersOwned'
  <2> DEFINE m == Head(server.stdout)
             owners == Owners(HandlersOf(m.id))
  <2>1. m \in Given
    BY <1>11, TailTypes DEF ReadResponse, MailOwned
  <2>2. m.request \in All /\ Asked(m.request) /\ requests[m.request].id = m.id
    BY <2>1 DEF Given, Own, Response
  <2>3. \A p : p \in owners <=> \E h \in response_handlers : h.id = m.id /\ h.request = p
    BY OwnersFact, HandlersOfFact
  <2>4. \A q \in All : IF q \in owners /\ Waiting(q)
                       THEN /\ requests'[q].state = "answered" /\ requests'[q].id = requests[q].id
                            /\ requests'[q].by = m.request
                       ELSE requests'[q] = requests[q]
    BY <1>11, ReadTypes
  <2>5. next_id' = next_id
    BY <1>11 DEF ReadResponse
  <2> HIDE DEF owners, m
  <2>6. SameIds
    BY <2>4, <2>5 DEF SameIds, Asked, Waiting
  <2>7. ASSUME NEW q \in All, q \in owners, Waiting(q)
        PROVE  \/ m.request = q
               \/ m.request = Shutdown /\ requests[q].id = requests[Shutdown].id
    <3>1. requests[q].id = m.id /\ Asked(q)
      BY <2>3, <2>7 DEF Handlers, Asked, Waiting
    <3>2. CASE m.request \in Request /\ q \in Request
      BY <2>2, <3>1, <3>2 DEF IdsDiffer
    <3>3. CASE m.request \in Request /\ q = Shutdown
      BY <2>2, <2>7, <3>1, <3>3 DEF IdsDiffer
    <3>4. CASE m.request = Shutdown
      BY <2>2, <3>1, <3>4
    <3> QED
      BY <2>2, <3>2, <3>3, <3>4
  <2>8. \A p \in All : Asked(p) => Asked(p)' /\ requests'[p].id = requests[p].id
    BY <2>6 DEF SameIds
  <2>9. ASSUME NEW q \in All, requests'[q].state \in {"answered", "done"}
        PROVE  \/ requests'[q].by = q
               \/ /\ requests'[q].by = Shutdown /\ Asked(Shutdown)'
                  /\ requests'[q].id = requests'[Shutdown].id
    <3>1. CASE q \in owners /\ Waiting(q)
      <4>1. requests'[q].by = m.request /\ requests'[q].id = requests[q].id
        BY <2>4, <3>1
      <4> QED
        BY <2>2, <2>7, <2>8, <3>1, <4>1
    <3>2. CASE ~(q \in owners /\ Waiting(q))
      <4>1. requests'[q] = requests[q]
        BY <2>4, <3>2
      <4> QED
        BY <2>8, <2>9, <4>1 DEF AnswersOwned
    <3> QED
      BY <3>1, <3>2
  <2> QED
    BY <2>6, <2>9 DEF AnswersOwned
<1> QED
  BY <1>2, <1>3, <1>4, <1>5, <1>6, <1>8, <1>10, <1>11 DEF Next

LEMMA NotifyOwned ==
    ASSUME MailOwned, NEW m \in Message, m.kind # "request", Notify(m)
    PROVE  notifications' \in Seq(Notices)
<1>1. m \in Notices
  BY DEF Notices
<1> QED
  BY <1>1 DEF Notify, MailOwned

LEMMA AskOwned ==
    ASSUME IdsInv, Posted \subseteq Posted', Given \subseteq Given',
           NEW q \in All, requests[q].state = "new", AskAs(q, next_id),
           requests'[q].id = next_id, Asked(q)'
    PROVE  MailOwned'
<1> DEFINE m == [kind |-> "request", id |-> next_id, request |-> q]
<1>1. m \in Posted'
  BY DEF IdsInv, ServerInv, Types, Message, Posted, Own, Asked
<1>2. outbound' \in {outbound, Append(outbound, m)}
      /\ UNCHANGED <<notifications, server>>
  BY DEF AskAs
<1> HIDE DEF m
<1>3. outbound \in Seq(Posted') /\ server.stdin \in Seq(Posted')
      /\ server.work \subseteq Given' /\ server.stdout \in Seq(Given')
      /\ notifications \in Seq(Notices)
  BY SeqGrows DEF IdsInv, MailOwned
<1>4. outbound' \in Seq(Posted')
  BY <1>1, <1>2, <1>3
<1> QED
  BY <1>2, <1>3, <1>4 DEF MailOwned, Notices

LEMMA HandleOwned ==
    ASSUME IdsInv, Posted \subseteq Posted', Given \subseteq Given', Handle
    PROVE  MailOwned'
<1> DEFINE m == Head(server.stdin)
<1>1. server.stdin \in Seq(Posted) /\ server.stdin # <<>>
  BY DEF IdsInv, MailOwned, Handle
<1>2. m \in Posted /\ Tail(server.stdin) \in Seq(Posted)
  BY <1>1, TailTypes
<1> HIDE DEF m
<1>3. m \in Message /\ Tail(server.stdin) \in Seq(Posted') /\ <<>> \in Seq(Posted')
  BY <1>2, SeqGrows DEF Posted
<1>4. /\ outbound \in Seq(Posted') /\ server.work \subseteq Given' /\ server.stdout \in Seq(Given')
      /\ notifications \in Seq(Notices) /\ UNCHANGED <<outbound, notifications>>
  BY SeqGrows DEF IdsInv, MailOwned, Handle, channelVars
<1>5. \/ m.kind = "change" \/ m.kind = "cancel" \/ m.kind = "exit"
      \/ m.kind = "request" /\ m.id \in Nat /\ m.request \in All
  BY <1>3 DEF Message
<1>6. DOMAIN server = {"state", "document", "stdin", "work", "stdout"}
  BY DEF IdsInv, ServerInv, Types
<1>7. server'.stdin \in Seq(Posted') /\ server'.work \subseteq Given' /\ server'.stdout = server.stdout
  <2>1. CASE m.kind = "change"
    <3>1. server' = [server EXCEPT !.stdin = Tail(server.stdin), !.document = m.document]
      BY <2>1 DEF Handle, m
    <3> QED
      BY <1>3, <1>4, <1>6, <3>1
  <2>2. CASE m.kind = "request"
    <3> DEFINE w == [id |-> m.id, request |-> m.request]
    <3>1. server' = [server EXCEPT !.stdin = Tail(server.stdin), !.work = server.work \cup {w}]
      BY <2>2 DEF Handle, m
    <3>2. w \in Given
      BY <1>2, <1>5, <2>2 DEF IdsInv, ServerInv, Types, Given, Posted, Own, Response
    <3> HIDE DEF w
    <3> QED
      BY <1>3, <1>4, <1>6, <3>1, <3>2
  <2>3. CASE m.kind = "cancel"
    <3>1. server' = [server EXCEPT !.stdin = Tail(server.stdin)]
      BY <2>3 DEF Handle, m
    <3> QED
      BY <1>3, <1>4, <1>6, <3>1
  <2>4. CASE m.kind = "exit"
    <3>1. server' = [server EXCEPT !.stdin = <<>>, !.work = {}, !.state = "exited"]
      BY <2>4 DEF Handle, m
    <3> QED
      BY <1>3, <1>4, <1>6, <3>1
  <2> QED
    BY <1>5, <2>1, <2>2, <2>3, <2>4
<1> QED
  BY <1>4, <1>7 DEF MailOwned, Notices

LEMMA MailStep ==
    ASSUME IdsInv, [Next]_vars
    PROVE  MailOwned'
<1> USE ShutdownIsOne DEF IdsInv, ServerInv
<1>0. /\ SameIds \/ \E q \in All : NewId(q)
      /\ Posted \subseteq Posted' /\ Given \subseteq Given'
  BY RequestsStep, IdsStay
<1>m. /\ outbound \in Seq(Posted') /\ server.stdin \in Seq(Posted')
      /\ server.work \subseteq Given' /\ server.stdout \in Seq(Given')
      /\ notifications \in Seq(Notices) /\ Notices' = Notices
  BY <1>0, SeqGrows DEF MailOwned, Notices
<1>d. DOMAIN server = {"state", "document", "stdin", "work", "stdout"}
  BY DEF Types
<1>1. ASSUME NEW q \in All, requests[q].state = "new", AskAs(q, next_id),
             next_id' \in {next_id, next_id + 1}, shutdown' = "no" => shutdown = "no" /\ q # Shutdown
      PROVE  MailOwned'
  <2>1. requests'[q].id = next_id /\ Asked(q)'
    BY <1>1, AskGood DEF Asked
  <2> QED
    BY <1>0, <1>1, <2>1, AskOwned
<1>2. ASSUME NEW q \in Request, Ask(q) PROVE MailOwned'
  <2>1. q # Shutdown
    BY LanguageServerAssumption
  <2> QED
    BY <1>1, <1>2, <2>1 DEF Ask
<1>3. ASSUME StartShutdown PROVE MailOwned'
  BY <1>1, <1>3 DEF StartShutdown, Handlers
<1>4. ASSUME NEW m \in Message, m.kind # "request", Notify(m), UNCHANGED <<outbound, server>>
      PROVE  MailOwned'
  BY <1>m, <1>4, NotifyOwned DEF MailOwned
<1>5. ASSUME NEW q \in All, Abandon(q) \/ Timeout(q) PROVE MailOwned'
  <2>1. [kind |-> "cancel", id |-> requests[q].id] \in Message
    BY EntryTypes, CancelType DEF Types
  <2>2. Notify([kind |-> "cancel", id |-> requests[q].id]) /\ UNCHANGED <<outbound, server>>
    BY <1>5 DEF Abandon, Timeout
  <2> QED
    BY <1>4, <2>1, <2>2
<1>6. ASSUME Edit PROVE MailOwned'
  <2>1. [kind |-> "change", document |-> document + 1] \in Message
    BY DEF Types, Message
  <2> QED
    BY <1>4, <1>6, <2>1 DEF Edit
<1>7. ASSUME FlushAndExit PROVE MailOwned'
  <2>1. [kind |-> "exit"] \in Message
    BY DEF Message
  <2> QED
    BY <1>4, <1>7, <2>1 DEF FlushAndExit
<1>8. ASSUME UNCHANGED <<notifications, outbound, server>> PROVE MailOwned'
  BY <1>m, <1>8 DEF MailOwned
<1>9. ASSUME (\E q \in All : Finish(q)) \/ SerializerEnds \/ InputEnds \/ UNCHANGED vars
      PROVE  MailOwned'
  BY <1>8, <1>9 DEF Finish, SerializerEnds, InputEnds, vars, channelVars
<1>10. ASSUME Serialize PROVE MailOwned'
  <2>1. Head(notifications) \in Notices /\ Tail(notifications) \in Seq(Notices)
    BY <1>10, <1>m, TailTypes DEF Serialize
  <2>2. Notices \subseteq Posted'
    BY DEF Notices, Posted
  <2>3. outbound' \in {outbound, Append(outbound, Head(notifications))}
        /\ notifications' = Tail(notifications) /\ server' = server
    BY <1>10 DEF Serialize
  <2>4. Head(notifications) \in Posted' /\ outbound \in Seq(Posted')
    BY <1>m, <2>1, <2>2
  <2>5. Append(outbound, Head(notifications)) \in Seq(Posted')
    BY <2>4
  <2>6. outbound' \in Seq(Posted')
    BY <2>3, <2>4, <2>5
  <2> QED
    BY <1>m, <2>1, <2>3, <2>6 DEF MailOwned
<1>11. ASSUME Write PROVE MailOwned'
  <2>1. Head(outbound) \in Posted' /\ Tail(outbound) \in Seq(Posted')
    BY <1>11, <1>m, TailTypes DEF Write
  <2>2. /\ server' = [server EXCEPT !.stdin = Append(server.stdin, Head(outbound))]
        /\ outbound' = Tail(outbound) /\ notifications' = notifications
    BY <1>11 DEF Write
  <2>3. Append(server.stdin, Head(outbound)) \in Seq(Posted')
    BY <1>m, <2>1
  <2>4. server'.stdin \in Seq(Posted') /\ server'.work = server.work /\ server'.stdout = server.stdout
    BY <1>d, <2>2, <2>3
  <2> QED
    BY <1>m, <2>1, <2>2, <2>4 DEF MailOwned
<1>12. ASSUME OutputEnds PROVE MailOwned'
  <2>1. <<>> \in Seq(Posted')
    OBVIOUS
  <2> QED
    BY <1>m, <1>12, <2>1 DEF OutputEnds, MailOwned
<1>13. ASSUME ReadResponse PROVE MailOwned'
  <2>1. Tail(server.stdout) \in Seq(Given')
    BY <1>13, <1>m, TailTypes DEF ReadResponse
  <2>2. server' = [server EXCEPT !.stdout = Tail(server.stdout)]
        /\ UNCHANGED <<notifications, outbound>>
    BY <1>13 DEF ReadResponse, channelVars
  <2>3. server'.stdout \in Seq(Given') /\ server'.stdin = server.stdin /\ server'.work = server.work
    BY <1>d, <2>1, <2>2
  <2> QED
    BY <1>m, <2>2, <2>3 DEF MailOwned
<1>14. ASSUME Answer PROVE MailOwned'
  <2>1. PICK w \in server.work :
            server' = [server EXCEPT !.work = server.work \ {w},
                                     !.stdout = Append(server.stdout, w)]
    BY <1>14 DEF Answer
  <2>2. Append(server.stdout, w) \in Seq(Given') /\ server.work \ {w} \subseteq Given'
    BY <1>m
  <2>3. server'.stdout \in Seq(Given') /\ server'.stdin = server.stdin /\ server'.work \subseteq Given'
    BY <1>d, <2>1, <2>2
  <2> QED
    BY <1>14, <1>m, <2>3 DEF Answer, MailOwned, channelVars
<1>15. ASSUME Kill \/ Hang \/ Exit PROVE MailOwned'
  <2>1. <<>> \in Seq(Posted') /\ <<>> \in Seq(Given')
    OBVIOUS
  <2>2. /\ server'.stdin \in {server.stdin, <<>>} /\ server'.work \in {server.work, {}}
        /\ server'.stdout \in {server.stdout, <<>>}
        /\ UNCHANGED <<notifications, outbound>>
    BY <1>d, <1>15 DEF Kill, Hang, Exit, channelVars
  <2> QED
    BY <1>m, <2>1, <2>2 DEF MailOwned
<1>16. ASSUME Handle PROVE MailOwned'
  BY <1>0, <1>16, HandleOwned
<1> QED
  BY <1>2, <1>3, <1>5, <1>6, <1>7, <1>9, <1>10, <1>11, <1>12, <1>13, <1>14, <1>15, <1>16 DEF Next

-----------------------------------------------------------------------------
(* Edits *)

LEMMA LinksEmpty == ASSUME NEW d \in Nat PROVE Links(<<>>, d, d)
BY DEF Links

LEMMA LinksAppend ==
    ASSUME NEW q \in Seq(Message), NEW d \in Nat, NEW e \in Nat, d <= e, Links(q, d, e),
           NEW m \in Message
    PROVE  /\ m.kind # "change" => Links(Append(q, m), d, e)
           /\ m.kind = "change" /\ m.document = e + 1 => Links(Append(q, m), d, e + 1)
<1> DEFINE r == Append(q, m)
<1>1. /\ r \in Seq(Message) /\ Len(r) = Len(q) + 1 /\ r[Len(q) + 1] = m
      /\ \A i \in 1..Len(q) : r[i] = q[i]
  OBVIOUS
<1> HIDE DEF r
<1>2. DOMAIN r = 1..(Len(q) + 1) /\ DOMAIN q = 1..Len(q) /\ Len(q) \in Nat
  BY <1>1
<1>3. \A i \in DOMAIN q : i \in DOMAIN r /\ r[i] = q[i] /\ i < Len(q) + 1
  BY <1>1, <1>2
<1>4. \A i \in DOMAIN r : i \in DOMAIN q \/ i = Len(q) + 1
  BY <1>2
<1>5. CASE m.kind # "change"
  BY <1>1, <1>2, <1>3, <1>4, <1>5, SMTT(30) DEF Links, r
<1>6. CASE m.kind = "change" /\ m.document = e + 1
  <2>1. \A i \in DOMAIN r : r[i].kind = "change" => r[i].document \in (d + 1)..(e + 1)
    BY <1>1, <1>3, <1>4, <1>6 DEF Links
  <2>2. ASSUME NEW i \in DOMAIN r, NEW j \in DOMAIN r, i < j, r[i].kind = "change",
               r[j].kind = "change"
        PROVE  r[i].document < r[j].document
    <3>1. i \in DOMAIN q /\ r[i] = q[i]
      BY <1>2, <1>3, <1>4, <2>2
    <3>2. CASE j \in DOMAIN q
      BY <1>3, <2>2, <3>1, <3>2 DEF Links
    <3>3. CASE j = Len(q) + 1
      <4>1. q[i].document \in (d + 1)..e
        BY <2>2, <3>1 DEF Links
      <4> QED
        BY <1>1, <1>6, <3>1, <3>3, <4>1
    <3> QED
      BY <1>4, <3>2, <3>3
  <2>3. ASSUME NEW n \in (d + 1)..(e + 1)
        PROVE  \E i \in DOMAIN r : r[i].kind = "change" /\ r[i].document = n
    <3>1. CASE n = e + 1
      <4>1. Len(q) + 1 \in DOMAIN r
        BY <1>2
      <4> QED
        BY <1>1, <1>6, <3>1, <4>1
    <3>2. CASE n \in (d + 1)..e
      <4>1. PICK i \in DOMAIN q : q[i].kind = "change" /\ q[i].document = n
        BY <3>2 DEF Links
      <4> QED
        BY <1>3, <4>1
    <3> QED
      BY <3>1, <3>2
  <2>4. Links(r, d, e + 1)
    BY <2>1, <2>2, <2>3 DEF Links
  <2> QED
    BY <1>6, <2>4 DEF r
<1> QED
  BY <1>5, <1>6

LEMMA LinksTail ==
    ASSUME NEW q \in Seq(Message), q # <<>>, NEW d \in Nat, NEW e \in Nat, Links(q, d, e)
    PROVE  /\ Head(q).kind # "change" => Links(Tail(q), d, e)
           /\ Head(q).kind = "change" =>
                 Head(q).document = d + 1 /\ d + 1 <= e /\ Links(Tail(q), d + 1, e)
<1> DEFINE r == Tail(q)
           m == Head(q)
<1>1. /\ r \in Seq(Message) /\ Len(r) = Len(q) - 1 /\ m = q[1] /\ m \in Message
      /\ \A i \in 1..(Len(q) - 1) : r[i] = q[i + 1]
      /\ Len(q) \in Nat /\ Len(q) # 0
  OBVIOUS
<1> HIDE DEF r, m
<1>2. DOMAIN r = 1..(Len(q) - 1) /\ DOMAIN q = 1..Len(q) /\ 1 \in DOMAIN q
  BY <1>1
<1>3. \A i \in DOMAIN r : i \in Int /\ i + 1 \in DOMAIN q /\ r[i] = q[i + 1] /\ 1 < i + 1
  BY <1>1, <1>2
<1>4. \A i \in DOMAIN q : i = 1 \/ (i - 1 \in DOMAIN r /\ r[i - 1] = q[i])
  BY <1>1, <1>2
<1>5. \A i, j \in DOMAIN r :
        i < j /\ r[i].kind = "change" /\ r[j].kind = "change" => r[i].document < r[j].document
  <2> SUFFICES ASSUME NEW i \in DOMAIN r, NEW j \in DOMAIN r, i < j, r[i].kind = "change",
                      r[j].kind = "change"
               PROVE  r[i].document < r[j].document
    OBVIOUS
  <2>1. i + 1 < j + 1
    BY <1>3
  <2> QED
    BY <1>3, <2>1 DEF Links
<1>6. CASE m.kind # "change"
  <2>1. \A i \in DOMAIN r : r[i].kind = "change" => r[i].document \in (d + 1)..e
    BY <1>3 DEF Links
  <2>2. ASSUME NEW n \in (d + 1)..e
        PROVE  \E i \in DOMAIN r : r[i].kind = "change" /\ r[i].document = n
    <3>1. PICK i \in DOMAIN q : q[i].kind = "change" /\ q[i].document = n
      BY DEF Links
    <3> QED
      BY <1>1, <1>4, <1>6, <3>1
  <2> QED
    BY <1>5, <1>6, <2>1, <2>2 DEF Links, r, m
<1>7. CASE m.kind = "change"
  <2>1. m.document \in (d + 1)..e
    BY <1>1, <1>2, <1>7 DEF Links
  <2>2. \A i \in DOMAIN r : r[i].kind = "change" =>
            r[i].document \in (d + 1)..e /\ m.document < r[i].document
    BY <1>1, <1>2, <1>3, <1>7 DEF Links
  <2>3. m.document = d + 1
    <3>1. PICK i \in DOMAIN q : q[i].kind = "change" /\ q[i].document = d + 1
      <4>1. d + 1 \in (d + 1)..e
        BY <2>1
      <4> QED
        BY <4>1 DEF Links
    <3>2. CASE i = 1
      BY <1>1, <3>1, <3>2
    <3>3. CASE i - 1 \in DOMAIN r /\ r[i - 1] = q[i]
      BY <2>1, <2>2, <3>1, <3>3
    <3> QED
      BY <1>4, <3>2, <3>3
  <2>4. \A i \in DOMAIN r : r[i].kind = "change" => r[i].document \in (d + 1 + 1)..e
    BY <2>2, <2>3
  <2>5. ASSUME NEW n \in (d + 1 + 1)..e
        PROVE  \E i \in DOMAIN r : r[i].kind = "change" /\ r[i].document = n
    <3>1. PICK i \in DOMAIN q : q[i].kind = "change" /\ q[i].document = n
      BY DEF Links
    <3>2. i # 1
      BY <1>1, <2>3, <3>1
    <3> QED
      BY <1>4, <3>1, <3>2
  <2>6. Links(r, d + 1, e)
    BY <1>5, <2>4, <2>5 DEF Links
  <2> QED
    BY <1>7, <2>1, <2>3, <2>6 DEF r, m
<1> QED
  BY <1>6, <1>7

\* The chain, with its joints named.
Joined(b, c, e) ==
    /\ b \in Nat /\ c \in Nat /\ e \in Nat
    /\ server.document <= b /\ b <= c /\ c <= e /\ e <= document
    /\ Links(server.stdin, server.document, b)
    /\ Links(outbound, b, c)
    /\ outbound_open => Links(notifications, c, e) /\ (notifying => e = document)

LEMMA ChainFact == Chain <=> (server.state = "reading" => \E b, c, e \in Nat : Joined(b, c, e))
BY DEF Chain, Joined

\* The chain stays whole if its joints move.
LEMMA ChainMoves ==
    ASSUME Chain, server'.state = "reading" => server.state = "reading",
           \A b, c, e \in Nat : Joined(b, c, e) => \E x, y, z \in Nat : Joined(x, y, z)'
    PROVE  Chain'
<1>1. server'.state = "reading" => \E x, y, z \in Nat : Joined(x, y, z)'
  BY ChainFact
<1> QED
  BY <1>1 DEF Chain, Joined

\* A message that carries no edit goes to the end of the notifications.
LEMMA NotifyKeepsChain ==
    ASSUME EditsInv, NEW m \in Message, m.kind # "change", Notify(m),
           notifying' => notifying, UNCHANGED <<outbound, outbound_open, document, server>>
    PROVE  Chain'
<1> SUFFICES ASSUME server.state = "reading" PROVE \E b, c, e \in Nat : Joined(b, c, e)'
  BY DEF Chain, Joined
<1> USE DEF EditsInv, ServerInv
<1>1. PICK b \in Nat, c \in Nat, e \in Nat : Joined(b, c, e)
  BY ChainFact
<1>2. outbound_open => Links(notifications', c, e)
  BY <1>1, LinksAppend DEF Joined, Notify, Types
<1> QED
  BY <1>1, <1>2 DEF Joined

\* The edits in the queues stay in order, and the server takes the next one.
LEMMA EditsStep ==
    ASSUME EditsInv, [Next]_vars
    PROVE  /\ document' <= MaxEdits /\ server'.document <= document' /\ Chain'
           /\ server'.document # server.document => server'.document = server.document + 1
<1> USE ShutdownIsOne DEF EditsInv, ServerInv
<1> DEFINE Good == /\ document' <= MaxEdits /\ server'.document <= document' /\ Chain'
                   /\ server'.document # server.document =>
                          server'.document = server.document + 1
<1>t. /\ document \in Nat /\ server.document \in Nat
      /\ server.stdin \in Seq(Message) /\ outbound \in Seq(Message)
      /\ notifications \in Seq(Message)
      /\ DOMAIN server = {"state", "document", "stdin", "work", "stdout"}
  BY DEF Types
<1>1. ASSUME NEW m \in Message, m.kind # "change", Notify(m), notifying' => notifying,
             UNCHANGED <<outbound, outbound_open, document, server>>
      PROVE  Good
  BY <1>1, NotifyKeepsChain
<1>2. ASSUME NEW q \in All, Abandon(q) \/ Timeout(q) PROVE Good
  <2>1. [kind |-> "cancel", id |-> requests[q].id] \in Message
    BY EntryTypes, CancelType DEF Types
  <2>2. /\ Notify([kind |-> "cancel", id |-> requests[q].id])
        /\ UNCHANGED <<notifying, outbound, outbound_open, document, server>>
    BY <1>2 DEF Abandon, Timeout
  <2> QED
    BY <1>1, <2>1, <2>2
<1>3. ASSUME FlushAndExit PROVE Good
  <2>1. [kind |-> "exit"] \in Message
    BY DEF Message
  <2>2. /\ Notify([kind |-> "exit"]) /\ notifying' = FALSE
        /\ UNCHANGED <<outbound, outbound_open, document, server>>
    BY <1>3 DEF FlushAndExit
  <2> QED
    BY <1>1, <2>1, <2>2
<1>4. ASSUME UNCHANGED <<notifications, notifying, outbound, outbound_open, document>>,
             UNCHANGED <<server.document, server.stdin>>,
             server'.state = "reading" => server.state = "reading"
      PROVE  Good
  <2>1. ASSUME NEW b \in Nat, NEW c \in Nat, NEW e \in Nat, Joined(b, c, e)
        PROVE  Joined(b, c, e)'
    BY <1>4, <2>1 DEF Joined
  <2>2. Chain'
    BY <1>4, <2>1, ChainMoves
  <2> QED
    BY <1>4, <2>2
<1>5. ASSUME \/ \E q \in All : Finish(q)
             \/ InputEnds \/ ReadResponse \/ Answer \/ UNCHANGED vars
      PROVE  Good
  <2>1. UNCHANGED <<notifications, notifying, outbound, outbound_open, document>>
    BY <1>5 DEF Finish, InputEnds, ReadResponse, Answer, vars, channelVars
  <2>2. UNCHANGED <<server.document, server.stdin, server.state>>
    BY <1>5, <1>t DEF Finish, InputEnds, ReadResponse, Answer, vars
  <2> QED
    BY <1>4, <2>1, <2>2
<1>6. ASSUME Kill \/ Hang \/ Exit PROVE Good
  <2>1. server'.state # "reading" /\ server'.document = server.document
        /\ document' = document
    BY <1>6, <1>t DEF Kill, Hang, Exit
  <2> QED
    BY <2>1 DEF Chain
<1>7. ASSUME Edit PROVE Good
  <2> DEFINE m == [kind |-> "change", document |-> document + 1]
  <2>1. m \in Message /\ m.kind = "change" /\ m.document = document + 1
    BY <1>t DEF Message
  <2>2. /\ document' = document + 1 /\ document < MaxEdits /\ Notify(m)
        /\ UNCHANGED <<outbound, outbound_open, notifying, server>>
    BY <1>7 DEF Edit
  <2> HIDE DEF m
  <2>3. ASSUME NEW b \in Nat, NEW c \in Nat, NEW e \in Nat, Joined(b, c, e)
        PROVE  \E n \in Nat : Joined(b, c, n)'
    <3>1. CASE notifying /\ outbound_open
      <4>1. e = document /\ Links(notifications, c, e) /\ c <= e
        BY <2>3, <3>1 DEF Joined
      <4>2. notifications' = Append(notifications, m)
        BY <2>2, <3>1 DEF Notify
      <4>3. Links(notifications', c, e + 1)
        BY <1>t, <2>1, <4>1, <4>2, LinksAppend
      <4>4. Joined(b, c, e + 1)'
        BY <1>t, <2>2, <2>3, <4>1, <4>3 DEF Joined
      <4> QED
        BY <4>4
    <3>2. CASE ~notifying \/ ~outbound_open
      <4>1. ~notifying => notifications' = notifications
        BY <2>2 DEF Notify
      <4>2. Joined(b, c, e)'
        BY <1>t, <2>2, <2>3, <3>2, <4>1 DEF Joined
      <4> QED
        BY <4>2
    <3> QED
      BY <3>1, <3>2
  <2>4. Chain'
    BY <2>2, <2>3, ChainMoves
  <2> QED
    BY <1>t, <2>2, <2>4, LanguageServerAssumption
<1>8. ASSUME NEW q \in All, AskAs(q, next_id) PROVE Good
  <2> DEFINE m == [kind |-> "request", id |-> next_id, request |-> q]
  <2>1. m \in Message /\ m.kind = "request"
    BY DEF Types, Message
  <2>2. /\ outbound' \in {outbound, Append(outbound, m)}
        /\ UNCHANGED <<notifications, notifying, outbound_open, document, server>>
    BY <1>8 DEF AskAs
  <2> HIDE DEF m
  <2>3. ASSUME NEW b \in Nat, NEW c \in Nat, NEW e \in Nat, Joined(b, c, e)
        PROVE  Joined(b, c, e)'
    <3>1. Links(outbound', b, c)
      BY <1>t, <2>1, <2>2, <2>3, LinksAppend DEF Joined
    <3> QED
      BY <2>2, <2>3, <3>1 DEF Joined
  <2>4. Chain'
    BY <2>2, <2>3, ChainMoves
  <2> QED
    BY <2>2, <2>4
<1>9. ASSUME (\E q \in Request : Ask(q)) \/ StartShutdown PROVE Good
  BY <1>8, <1>9 DEF Ask, StartShutdown
<1>10. ASSUME Serialize PROVE Good
  <2> DEFINE m == Head(notifications)
             rest == Tail(notifications)
  <2>1. m \in Message /\ notifications # <<>>
    BY <1>10, <1>t, TailTypes DEF Serialize
  <2>2. /\ outbound' = IF outbound_open THEN Append(outbound, m) ELSE outbound
        /\ notifications' = rest
        /\ UNCHANGED <<notifying, outbound_open, document, server>>
    BY <1>10 DEF Serialize
  <2>3. ASSUME NEW b \in Nat, NEW c \in Nat, NEW e \in Nat, Joined(b, c, e)
        PROVE  \E n \in Nat : Joined(b, n, e)'
    <3>1. CASE ~outbound_open
      <4>1. Joined(b, c, e)'
        BY <2>2, <2>3, <3>1 DEF Joined
      <4> QED
        BY <4>1
    <3>2. CASE outbound_open /\ m.kind # "change"
      <4>1. Links(Append(outbound, m), b, c) /\ Links(rest, c, e)
        BY <1>t, <2>1, <2>3, <3>2, LinksAppend, LinksTail DEF Joined
      <4>2. Joined(b, c, e)'
        BY <2>2, <2>3, <3>2, <4>1 DEF Joined
      <4> QED
        BY <4>2
    <3>3. CASE outbound_open /\ m.kind = "change"
      <4>1. m.document = c + 1 /\ c + 1 <= e /\ Links(rest, c + 1, e)
        BY <1>t, <2>1, <2>3, <3>3, LinksTail DEF Joined
      <4>2. Links(Append(outbound, m), b, c + 1)
        BY <1>t, <2>1, <2>3, <3>3, <4>1, LinksAppend DEF Joined
      <4> HIDE DEF m, rest
      <4>3. Joined(b, c + 1, e)'
        BY <2>2, <2>3, <3>3, <4>1, <4>2 DEF Joined
      <4> QED
        BY <4>3
    <3> QED
      BY <3>1, <3>2, <3>3
  <2>4. Chain'
    BY <2>2, <2>3, ChainMoves
  <2> QED
    BY <2>2, <2>4
<1>11. ASSUME SerializerEnds PROVE Good
  <2>1. outbound_open' = FALSE /\ UNCHANGED <<notifications, notifying, outbound, document, server>>
    BY <1>11 DEF SerializerEnds
  <2>2. ASSUME NEW b \in Nat, NEW c \in Nat, NEW e \in Nat, Joined(b, c, e)
        PROVE  Joined(b, c, e)'
    BY <2>1, <2>2 DEF Joined
  <2>3. Chain'
    BY <2>1, <2>2, ChainMoves
  <2> QED
    BY <2>1, <2>3
<1>12. ASSUME OutputEnds PROVE Good
  <2>1. /\ outbound' = <<>> /\ outbound_open' = FALSE
        /\ UNCHANGED <<notifications, notifying, document, server>>
    BY <1>12 DEF OutputEnds
  <2>2. ASSUME NEW b \in Nat, NEW c \in Nat, NEW e \in Nat, Joined(b, c, e)
        PROVE  Joined(b, b, b)'
    BY <1>t, <2>1, <2>2, LinksEmpty DEF Joined
  <2>3. Chain'
    BY <2>1, <2>2, ChainMoves
  <2> QED
    BY <2>1, <2>3
<1>13. ASSUME Write PROVE Good
  <2> DEFINE m == Head(outbound)
             rest == Tail(outbound)
             filled == Append(server.stdin, m)
  <2>1. m \in Message /\ outbound # <<>>
    BY <1>13, <1>t, TailTypes DEF Write
  <2>2. /\ outbound' = rest /\ server' = [server EXCEPT !.stdin = filled]
        /\ UNCHANGED <<notifications, notifying, outbound_open, document>>
    BY <1>13 DEF Write
  <2>3. server'.stdin = filled /\ server'.document = server.document
        /\ server'.state = server.state
    BY <1>t, <2>2
  <2>4. ASSUME NEW b \in Nat, NEW c \in Nat, NEW e \in Nat, Joined(b, c, e)
        PROVE  \E n \in Nat : Joined(n, c, e)'
    <3>1. CASE m.kind # "change"
      <4>1. Links(filled, server.document, b) /\ Links(rest, b, c)
        BY <1>t, <2>1, <2>4, <3>1, LinksAppend, LinksTail DEF Joined
      <4>2. Joined(b, c, e)'
        BY <2>2, <2>3, <2>4, <4>1 DEF Joined
      <4> QED
        BY <4>2
    <3>2. CASE m.kind = "change"
      <4>1. m.document = b + 1 /\ b + 1 <= c /\ Links(rest, b + 1, c)
        BY <1>t, <2>1, <2>4, <3>2, LinksTail DEF Joined
      <4>2. Links(filled, server.document, b + 1)
        BY <1>t, <2>1, <2>4, <3>2, <4>1, LinksAppend DEF Joined
      <4> HIDE DEF m, rest, filled
      <4>3. Joined(b + 1, c, e)'
        BY <1>t, <2>2, <2>3, <2>4, <4>1, <4>2 DEF Joined
      <4> QED
        BY <4>3
    <3> QED
      BY <3>1, <3>2
  <2>5. Chain'
    BY <2>3, <2>4, ChainMoves
  <2> QED
    BY <2>2, <2>3, <2>5
<1>14. ASSUME Handle PROVE Good
  <2> DEFINE m == Head(server.stdin)
             rest == Tail(server.stdin)
  <2>1. m \in Message /\ server.stdin # <<>> /\ server.state = "reading"
    BY <1>14, <1>t, TailTypes DEF Handle
  <2>2. PICK b \in Nat, c \in Nat, e \in Nat : Joined(b, c, e)
    BY <2>1, ChainFact
  <2>3. UNCHANGED <<notifications, notifying, outbound, outbound_open, document>>
    BY <1>14 DEF Handle, channelVars
  <2>4. CASE m.kind = "change"
    <3>1. server' = [server EXCEPT !.stdin = rest, !.document = m.document]
      BY <1>14, <2>4 DEF Handle
    <3>2. /\ m.document = server.document + 1 /\ server.document + 1 <= b
          /\ Links(rest, server.document + 1, b)
      BY <1>t, <2>1, <2>2, <2>4, LinksTail DEF Joined
    <3> HIDE DEF m, rest
    <3>3. server'.document = server.document + 1 /\ server'.stdin = rest
      BY <1>t, <3>1, <3>2
    <3>4. Joined(b, c, e)'
      BY <2>2, <2>3, <3>2, <3>3 DEF Joined
    <3>5. Chain'
      BY <2>1, <2>2, <3>4, ChainMoves
    <3>6. server.document + 1 <= document
      BY <1>t, <2>2, <3>2 DEF Joined
    <3> QED
      BY <2>3, <3>3, <3>5, <3>6
  <2>5. CASE m.kind = "request" \/ m.kind = "cancel"
    <3>1. server'.stdin = rest /\ server'.document = server.document
      <4>1. CASE m.kind = "request"
        <5> DEFINE w == [id |-> m.id, request |-> m.request]
        <5>1. server' = [server EXCEPT !.stdin = rest, !.work = server.work \cup {w}]
          BY <1>14, <4>1 DEF Handle
        <5> HIDE DEF w, m, rest
        <5> QED
          BY <1>t, <5>1
      <4>2. CASE m.kind = "cancel"
        <5>1. server' = [server EXCEPT !.stdin = rest]
          BY <1>14, <4>2 DEF Handle
        <5> QED
          BY <1>t, <5>1
      <4> QED
        BY <2>5, <4>1, <4>2
    <3>2. Links(rest, server.document, b)
      BY <1>t, <2>1, <2>2, <2>5, LinksTail DEF Joined
    <3> HIDE DEF m, rest
    <3>3. Joined(b, c, e)'
      BY <2>2, <2>3, <3>1, <3>2 DEF Joined
    <3>4. Chain'
      BY <2>1, <2>2, <3>3, ChainMoves
    <3> QED
      BY <2>3, <3>1, <3>4
  <2>6. CASE m.kind = "exit"
    <3>1. server' = [server EXCEPT !.stdin = <<>>, !.work = {}, !.state = "exited"]
      BY <1>14, <2>6 DEF Handle
    <3>2. server'.state = "exited" /\ server'.document = server.document
      BY <1>t, <3>1
    <3> QED
      BY <2>3, <3>2 DEF Chain
  <2>7. m.kind \in {"change", "request", "cancel", "exit"}
    BY <2>1 DEF Message
  <2> QED
    BY <2>4, <2>5, <2>6, <2>7
<1> QED
  BY <1>2, <1>3, <1>5, <1>6, <1>7, <1>9, <1>10, <1>11, <1>12, <1>13, <1>14 DEF Next

-----------------------------------------------------------------------------
(* The theorems *)

LEMMA ServerInit == Init => ServerInv
<1> SUFFICES ASSUME Init PROVE ServerInv
  OBVIOUS
<1>1. [state |-> "new", id |-> -1] \in Entry
  BY DEF Entry, State
<1>2. Types
  BY <1>1 DEF Init, Types
<1>3. \A q \in All : requests[q].state = "new"
  BY DEF Init
<1>4. Handlers
  BY <1>3, ShutdownIsOne DEF Init, Handlers, WaitersHaveHandlers, Waiting
<1> QED
  BY <1>2, <1>4 DEF ServerInv

LEMMA ServerStep == ServerInv /\ [Next]_vars => ServerInv'
BY TypesStep, HandlersStep DEF ServerInv

LEMMA IdsInit == Init => IdsInv
<1> SUFFICES ASSUME Init PROVE IdsInv
  OBVIOUS
<1>1. \A q \in All : requests[q].state = "new"
  BY DEF Init
<1>2. IdsDiffer /\ AnswersOwned
  BY <1>1, ShutdownIsOne DEF IdsDiffer, AnswersOwned, Asked, Waiting
<1>3. <<>> \in Seq(Notices) /\ <<>> \in Seq(Posted) /\ <<>> \in Seq(Given)
  OBVIOUS
<1>4. MailOwned
  BY <1>3 DEF Init, MailOwned
<1> QED
  BY <1>2, <1>4, ServerInit DEF IdsInv

LEMMA EditsInit == Init => EditsInv
<1> SUFFICES ASSUME Init PROVE EditsInv
  OBVIOUS
<1>1. document = 0 /\ server.document = 0 /\ server.stdin = <<>>
      /\ outbound = <<>> /\ notifications = <<>>
  BY DEF Init
<1>2. Joined(0, 0, 0)
  BY <1>1, LinksEmpty DEF Joined
<1>3. Chain
  BY <1>2, ChainFact
<1> QED
  BY <1>1, <1>3, ServerInit, LanguageServerAssumption DEF EditsInv

\* A response is handed to the request it answers, for any number of requests
\* and timeouts and whatever the server does.  Only a request that is made
\* during the shutdown may be handed the response to the shutdown request,
\* and only when it has that one's id, taken from a copy of the counter
\* (lsp.rs: `shutdown`, `request_internal_with_timer`).
THEOREM ResponsesReachTheirRequest == Spec => []AnsweredByOwn
<1>1. IdsInv /\ [Next]_vars => IdsInv'
  BY ServerStep, RequestsStep, IdsStay, MailStep DEF IdsInv, ServerInv
<1>2. IdsInv => AnsweredByOwn
  BY DEF IdsInv, AnswersOwned, AnsweredByOwn
<1> QED
  BY <1>1, <1>2, IdsInit, PTL DEF Spec

\* Ids, handlers and waiting requests match, and no handler is left behind, for
\* any number of requests, timeouts and cancellations, also when requests
\* are made during the shutdown (lsp.rs: response_handlers is shared by
\* request, the reader, the writer and the timers).
THEOREM HandlersStaySound == Spec => []HandlersSound
<1>1. EditsInv => HandlersSound
  <2> SUFFICES ASSUME EditsInv PROVE HandlersSound
    OBVIOUS
  <2>1. \A h \in response_handlers : h.id \in Nat /\ h.request \in All
    BY HandlerRecord DEF EditsInv, ServerInv, Types
  <2>2. next_id \in Nat /\ document \in 0..MaxEdits /\ server.document \in 0..document
    BY LanguageServerAssumption DEF EditsInv, ServerInv, Types
  <2> QED
    BY <2>1, <2>2 DEF EditsInv, ServerInv, Handlers, HandlersSound, TypeOK
<1>2. Init => EditsInv
  BY EditsInit
<1>3. EditsInv /\ [Next]_vars => EditsInv'
  BY ServerStep, EditsStep DEF EditsInv
<1> QED
  BY <1>1, <1>2, <1>3, PTL DEF Spec

\* Every edit reaches the server on the text it was computed from, for any
\* number of edits: none is lost, doubled or overtaken between the serializer,
\* the writer and the server while these live (lsp.rs: notification_serializers
\* and outbound_tx; lsp_store.rs: on_buffer_edited).
THEOREM EditsArriveInOrder == Spec => EditsFit
<1>1. Init => EditsInv
  BY EditsInit
<1>2. EditsInv /\ [Next]_vars => EditsInv'
  BY ServerStep, EditsStep DEF EditsInv
<1>3. EditsInv /\ [Next]_vars =>
        [server'.document # server.document => server'.document = server.document + 1]_vars
  BY EditsStep
<1> QED
  BY <1>1, <1>2, <1>3, PTL DEF Spec, EditsFit

=============================================================================
