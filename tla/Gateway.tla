-------------------------------- MODULE Gateway --------------------------------
(* The realtime service as its connections see it: the rooms of Socket.IO       *)
(* (packages/realtime/src/adapters/socket-io-gateway.ts) and the packets on     *)
(* their way.  One campaign; only its room matters, since every broadcast goes  *)
(* there whatever scene it is about.                                            *)
EXTENDS Integers, Sequences

CONSTANTS
    Conns,          \* connections of browsers to the service
    MaxInbox        \* a bound: packets on their way to one connection at a time

VARIABLES
    joined,         \* connections in the campaign's room
    inbox           \* inbox[c]: packets on their way to c, oldest first

gatewayVars == <<joined, inbox>>

GatewayInit ==
    /\ joined = {}
    /\ inbox = [c \in Conns |-> << >>]

\* sendToConnection: one connection.
SendTo(c, m) ==
    /\ Len(inbox[c]) < MaxInbox
    /\ inbox' = [inbox EXCEPT ![c] = Append(@, m)]

\* broadcast: every connection in the campaign's room.
Broadcast(m) ==
    /\ \A c \in joined : Len(inbox[c]) < MaxInbox
    /\ inbox' = [c \in Conns |-> IF c \in joined THEN Append(inbox[c], m) ELSE inbox[c]]

\* presence:join enters the campaign's room before it awaits anything.  A lookup of
\* the scene that fails (PRESENCE_JOIN_FAILED) leaves the connection in the room.
Join(c) == joined' = joined \cup {c}

\* The connection is gone, its rooms and its packets with it.
Forget(c) ==
    /\ joined' = joined \ {c}
    /\ inbox' = [inbox EXCEPT ![c] = << >>]
================================================================================
