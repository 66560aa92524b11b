---------------------------- MODULE RemoteCalls ----------------------------
(***************************************************************************)
(* What a remote session promises to the code that uses it (ProtoClient):  *)
(* a message that was sent is handled by the other side, and a request is  *)
(* answered, by an answer to that very request, which was given after the  *)
(* other side had handled it.  Nothing is said of order, and handling a    *)
(* message again is a step that changes nothing.                           *)
(***************************************************************************)
CONSTANTS
    Client, Server,
    Ids             \* names of messages; each side has its own

Sides   == {Client, Server}
Peer(s) == IF s = Client THEN Server ELSE Client

VARIABLES
    notified,   \* side -> messages it sent and expects no answer to
    asked,      \* side -> requests it sent
    handled,    \* side -> messages of the other side it has handled
    answered    \* side -> requests of its own that have been answered

callVars == <<notified, asked, handled, answered>>

Init ==
    /\ notified = [s \in Sides |-> {}]
    /\ asked    = [s \in Sides |-> {}]
    /\ handled  = [s \in Sides |-> {}]
    /\ answered = [s \in Sides |-> {}]

Notify(s, m) ==
    /\ m \notin notified[s] \cup asked[s]
    /\ notified' = [notified EXCEPT ![s] = @ \cup {m}]
    /\ UNCHANGED <<asked, handled, answered>>

Ask(s, m) ==
    /\ m \notin notified[s] \cup asked[s]
    /\ asked' = [asked EXCEPT ![s] = @ \cup {m}]
    /\ UNCHANGED <<notified, handled, answered>>

Handle(s, m) ==
    /\ m \in (notified[Peer(s)] \cup asked[Peer(s)]) \ handled[s]
    /\ handled' = [handled EXCEPT ![s] = @ \cup {m}]
    /\ UNCHANGED <<notified, asked, answered>>

Answer(s, m) ==
    /\ m \in (asked[s] \cap handled[Peer(s)]) \ answered[s]
    /\ answered' = [answered EXCEPT ![s] = @ \cup {m}]
    /\ UNCHANGED <<notified, asked, handled>>

Next == \E s \in Sides, m \in Ids : Notify(s, m) \/ Ask(s, m) \/ Handle(s, m) \/ Answer(s, m)

Calls == Init /\ [][Next]_callVars
=============================================================================
