----------------------------- MODULE BlinkyShow -----------------------------
(***************************************************************************)
(* The show: one ShowServer, its ShowClients and the network between them. *)
(* A client reaches the server only while its acceptor is open.            *)
(***************************************************************************)
EXTENDS ShowServer, ShowClient

CONSTANT MaxDrops   \* bound: connections the network loses
ASSUME DropsAssumption == MaxDrops \in Nat

VARIABLE drops
vars == <<serverVars, link, cl, drops>>

Init == ServerInit /\ ClientInit /\ LinkInit /\ drops = 0

NetworkDrops(c) == drops < MaxDrops /\ drops' = drops + 1 /\ Drop(c) /\ UNCHANGED <<serverVars, cl>>
LinkEnds(c) == ReadEnds(c) /\ UNCHANGED <<serverVars, cl, drops>>

ServerStep == (Caller \/ ClockThread \/ ClientThread \/ AcceptFails) /\ UNCHANGED <<cl, drops>>
ClientSteps(c) == ClientStep(c, listening) /\ UNCHANGED <<serverVars, drops>>

Next ==
    \/ ServerStep
    \/ \E c \in Clients : ClientSteps(c) \/ NetworkDrops(c) \/ LinkEnds(c)

Spec == Init /\ [][Next]_vars

\* Every thread of the program that has something to do does it in the end; a
\* song ends.  What the operator calls and what the network loses is free.
Fairness ==
    /\ WF_vars((PlayRun \/ PlaySend \/ ShowSet \/ StopSend \/ StopClear) /\ UNCHANGED <<cl, drops>>)
    /\ WF_vars((ClockEnd \/ ClockClear) /\ UNCHANGED <<cl, drops>>)
    /\ WF_vars(ClientThread /\ UNCHANGED <<cl, drops>>)
    /\ \A c \in Clients :
        /\ WF_vars(ClientReads(c) /\ UNCHANGED <<serverVars, drops>>)
        /\ WF_vars(ClientEnds(c) /\ UNCHANGED <<serverVars, drops>>)
        /\ WF_vars(ClientReturns(c, listening) /\ UNCHANGED <<serverVars, drops>>)
        /\ WF_vars(LinkEnds(c))
FairSpec == Spec /\ Fairness

-----------------------------------------------------------------------------
ServerIdle == callPc = "idle" /\ clockPc = "idle" /\ idPc = "idle"

\* An identified client with nothing on its way to it and nobody at work.
Quiet(c) ==
    /\ ServerIdle
    /\ conn[c] = "client" /\ sock[c] = "open" /\ toClient[c] = <<>>
    /\ cl[c].pc = "idle" /\ cl[c].endPc = "idle"

\* Every variable of the server, the clients and the links has its type:
\* framecount and the queues in particular stay within what the code can hold.
TypeOK == ServerType /\ ClientType /\ LinkType /\ drops \in 0..MaxDrops

\* Whenever things settle, a client is in a show exactly when the server is,
\* however it came, went and came back: show, identify and the reset at the top
\* of ShowClient::run together keep inShow the same on both sides.
ShowAgreement == \A c \in Clients : Quiet(c) => cl[c].inShow = inShow

\* A client that plays a file while the server has a song loaded plays the
\* server's song: identify repeats the last load to a client that comes back.
SameSong ==
    \A c \in Clients :
        Quiet(c) /\ framecount # 0 /\ cl[c].stream = "running"
            => cl[c].music \in {None, music}

\* No sound outside a show: clientPlay refuses, clientShow(false) closes the
\* stream, and run forgets the show only after clockStop stopped the stream.
AudioOnlyInShow == \A c \in Clients : cl[c].stream = "running" => cl[c].inShow

\* Whatever key the server is configured with, a client without the key built
\* into ServerClient is never told of a show and never sounds: clientIdent closes
\* its connection before identify runs.
OnlyBuiltInKey ==
    \A c \in Clients : ClientKey[c] # DefaultKey =>
        conn[c] # "client" /\ ~cl[c].inShow /\ cl[c].stream = "closed"

\* A client that plays on after the server has stopped stops too, unless the
\* server plays again or its connection goes: clockStop of the server sends
\* the stop, and clientPlay(false) stops a clock that has ended as well.
StopReachesClients ==
    \A c \in Clients :
        [](ServerIdle /\ ~isPlaying /\ conn[c] = "client" /\ cl[c].isPlaying
            => <>(~cl[c].isPlaying \/ isPlaying \/ conn[c] # "client"))

-----------------------------------------------------------------------------
(* What a document says and the code does not do. *)

\* examples/server.cfg: a playing server sends a sync every so many frames;
\* clockUpdate needs a clock that play(true) could start.
SyncsWhilePlaying == ServerIdle /\ isPlaying => clock = "running"
=============================================================================
