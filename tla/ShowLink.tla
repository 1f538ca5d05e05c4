------------------------------ MODULE ShowLink ------------------------------
(***************************************************************************)
(* The TCP connections between the server and its clients, as the server   *)
(* and the client code see them: one FIFO each way, no loss within a       *)
(* connection, data sent before a close still readable after it.           *)
(***************************************************************************)
EXTENDS Naturals, Sequences

CONSTANTS
    Clients,    \* the ShowClients
    Songs,      \* the (music, light) pairs a load can name
    None,       \* no song; no packet
    Keys,       \* values of IdentPacket::key
    MaxQueue    \* bound: nothing new is sent while a client is this far behind

ASSUME NoneAssumption == None \notin Songs
ASSUME QueueAssumption == MaxQueue \in Nat

Packets ==
    [type : {"SHOW", "PLAY"}, state : BOOLEAN]
    \cup [type : {"LOAD"}, song : Songs \cup {None}]
    \cup [type : {"SYNC"}]

Show(state) == [type |-> "SHOW", state |-> state]
Load(song)  == [type |-> "LOAD", song |-> song]
Play(state) == [type |-> "PLAY", state |-> state]
Sync        == [type |-> "SYNC"]

VARIABLES
    conn,       \* the server's end: none, backlog (not accepted yet), accepted
                \* (type UNKNOWN), client (identified, type CLIENT)
    sock,       \* the client's end: closed, open, stale (its read has ended,
                \* is_open is still true), gone (the client has given up)
    toClient,   \* packets on their way to each client
    toServer    \* IDENT packets on their way to the server

link == <<conn, sock, toClient, toServer>>

LinkType ==
    /\ conn \in [Clients -> {"none", "backlog", "accepted", "client"}]
    /\ sock \in [Clients -> {"closed", "open", "stale", "gone"}]
    /\ toClient \in [Clients -> Seq(Packets)]
    /\ toServer \in [Clients -> Seq(Keys)]

LinkInit ==
    /\ conn = [c \in Clients |-> "none"]
    /\ sock = [c \in Clients |-> "closed"]
    /\ toClient = [c \in Clients |-> <<>>]
    /\ toServer = [c \in Clients |-> <<>>]

RoomToSend == \A c \in Clients : Len(toClient[c]) < MaxQueue

\* A packet for one identified client; lost if that connection is gone, even
\* when another one of the same client has come.
SendTo(c, packet) ==
    toClient' = IF conn[c] # "client" THEN toClient
                ELSE [toClient EXCEPT ![c] = Append(@, packet)]

\* ShowServer::sendAll: every open connection whose client has identified.
SendAll(packet) ==
    toClient' = [c \in Clients |->
                    IF conn[c] = "client" THEN Append(toClient[c], packet)
                    ELSE toClient[c]]

\* The server closes its end of some connections: of what it has sent, the
\* packets still queued in it are lost.
CloseOf(ends) ==
    /\ conn' = [c \in Clients |-> IF c \in ends THEN "none" ELSE conn[c]]
    /\ \E kept \in [Clients -> UNION {0 .. Len(toClient[c]) : c \in Clients}] :
        /\ \A c \in Clients : kept[c] <= Len(toClient[c])
        /\ \A c \in Clients \ ends : kept[c] = Len(toClient[c])
        /\ toClient' = [c \in Clients |-> SubSeq(toClient[c], 1, kept[c])]
CloseAll == CloseOf(Clients)

\* The network loses a connection; the server's socket stays in its list and
\* its writes go nowhere, the client's read ends.
Drop(c) ==
    /\ sock[c] = "open"
    /\ conn' = [conn EXCEPT ![c] = "none"]
    /\ sock' = [sock EXCEPT ![c] = "stale"]
    /\ toClient' = [toClient EXCEPT ![c] = <<>>]
    /\ toServer' = [toServer EXCEPT ![c] = <<>>]

\* The client has read all the server sent before it closed: packetRead gets
\* eof and leaves the socket open.
ReadEnds(c) ==
    /\ sock[c] = "open" /\ conn[c] = "none" /\ toClient[c] = <<>>
    /\ sock' = [sock EXCEPT ![c] = "stale"]
    /\ toServer' = [toServer EXCEPT ![c] = <<>>]
    /\ UNCHANGED <<conn, toClient>>
=============================================================================
