------------------------ MODULE ShowAgreementProofs ------------------------
(***************************************************************************)
(* What the server and an identified client agree on once things settle,   *)
(* for every set of clients and songs and every length of the queues: with *)
(* the threads of the server interleaved, but for one race that each       *)
(* theorem names, and so always when those threads take turns.  What a     *)
(* client will believe is read off its queue: the last packet of a kind    *)
(* decides, and only without one the client's own state.                   *)
(***************************************************************************)
EXTENDS BlinkyShowProofs

-----------------------------------------------------------------------------
(* The last packet of a kind in a queue *)

\* p is in the queue and no packet of its kind comes after it.
Latest(q, p) == \E i \in 1..Len(q) : q[i] = p /\ \A j \in i+1..Len(q) : q[j].type # p.type

\* No packet of the kind is in the queue.
Missing(q, kind) == \A i \in 1..Len(q) : q[i].type # kind

\* What is sent is the latest of its kind.
LEMMA LatestSent ==
    ASSUME NEW q \in Seq(Packets), NEW p \in Packets
    PROVE  Latest(Append(q, p), p)
<1> DEFINE n == Len(q) + 1
<1>1. Append(q, p)[n] = p /\ Len(Append(q, p)) = n /\ n \in 1..n
    OBVIOUS
<1>2. \A j \in n+1..n : FALSE
    BY Len(q) \in Nat
<1> QED BY <1>1, <1>2 DEF Latest

\* It leaves the latest of another kind.
LEMMA LatestKept ==
    ASSUME NEW q \in Seq(Packets), NEW p \in Packets, NEW r, p.type # r.type, Latest(q, r)
    PROVE  Latest(Append(q, p), r)
<1>1. PICK i \in 1..Len(q) : q[i] = r /\ \A j \in i+1..Len(q) : q[j].type # r.type
    BY DEF Latest
<1>2. Append(q, p)[i] = r /\ i \in 1..Len(Append(q, p))
    BY <1>1
<1>3. ASSUME NEW j \in i+1..Len(Append(q, p)) PROVE Append(q, p)[j].type # r.type
    <2>1. CASE j = Len(q) + 1
        <3>1. Append(q, p)[j] = p
            BY <2>1
        <3> QED BY <3>1
    <2>2. CASE j # Len(q) + 1
        <3>1. j \in i+1..Len(q) /\ Append(q, p)[j] = q[j]
            BY <1>1, <2>2, Len(Append(q, p)) = Len(q) + 1
        <3> QED BY <1>1, <3>1
    <2> QED BY <2>1, <2>2
<1> QED BY <1>2, <1>3 DEF Latest

\* And what is missing of another kind stays missing.
LEMMA MissingKept ==
    ASSUME NEW q \in Seq(Packets), NEW p \in Packets, NEW kind, p.type # kind, Missing(q, kind)
    PROVE  Missing(Append(q, p), kind)
<1> SUFFICES ASSUME NEW i \in 1..Len(Append(q, p)) PROVE Append(q, p)[i].type # kind
    BY DEF Missing
<1>1. CASE i = Len(q) + 1
    <2>1. Append(q, p)[i] = p
        BY <1>1
    <2> QED BY <2>1
<1>2. CASE i # Len(q) + 1
    <2>1. i \in 1..Len(q) /\ Append(q, p)[i] = q[i]
        BY <1>2, Len(Append(q, p)) = Len(q) + 1
    <2> QED BY <2>1 DEF Missing
<1> QED BY <1>1, <1>2

\* A packet that is read was the latest of its kind only if no other follows.
LEMMA LatestRead ==
    ASSUME NEW q \in Seq(Packets), q # <<>>, NEW r, Latest(q, r)
    PROVE  \/ Latest(Tail(q), r)
           \/ Head(q) = r /\ Missing(Tail(q), r.type)
<1>1. PICK i \in 1..Len(q) : q[i] = r /\ \A j \in i+1..Len(q) : q[j].type # r.type
    BY DEF Latest
<1>2. Len(Tail(q)) = Len(q) - 1 /\ Len(q) \in Nat \ {0} /\ Head(q) = q[1]
    OBVIOUS
<1>3. \A j \in 1..Len(q) - 1 : Tail(q)[j] = q[j + 1]
    OBVIOUS
<1>4. CASE i = 1
    <2>1. ASSUME NEW j \in 1..Len(Tail(q)) PROVE Tail(q)[j].type # r.type
        <3>1. j + 1 \in i+1..Len(q) /\ Tail(q)[j] = q[j + 1]
            BY <1>2, <1>3, <1>4
        <3> QED BY <1>1, <3>1
    <2> QED BY <1>1, <1>2, <1>4, <2>1 DEF Missing
<1>5. CASE i # 1
    <2>1. i - 1 \in 1..Len(Tail(q)) /\ Tail(q)[i - 1] = r
        BY <1>1, <1>2, <1>3, <1>5
    <2>2. ASSUME NEW j \in (i - 1)+1..Len(Tail(q)) PROVE Tail(q)[j].type # r.type
        <3>1. j + 1 \in i+1..Len(q) /\ Tail(q)[j] = q[j + 1]
            BY <1>2, <1>3, <1>5
        <3> QED BY <1>1, <3>1
    <2> QED BY <2>1, <2>2 DEF Latest
<1> QED BY <1>4, <1>5

\* Reading brings no packet.
LEMMA MissingRead ==
    ASSUME NEW q \in Seq(Packets), q # <<>>, NEW kind, Missing(q, kind)
    PROVE  Missing(Tail(q), kind) /\ Head(q).type # kind
<1>1. Len(Tail(q)) = Len(q) - 1 /\ Len(q) \in Nat \ {0} /\ Head(q) = q[1]
    OBVIOUS
<1>2. ASSUME NEW i \in 1..Len(Tail(q)) PROVE Tail(q)[i].type # kind
    <2>1. i + 1 \in 1..Len(q) /\ Tail(q)[i] = q[i + 1]
        BY <1>1
    <2> QED BY <2>1 DEF Missing
<1> QED BY <1>1, <1>2 DEF Missing

\* An empty queue.
LEMMA EmptyQueue == \A kind, r : Missing(<<>>, kind) /\ ~Latest(<<>>, r)
BY DEF Missing, Latest

-----------------------------------------------------------------------------
(* What identify has read *)

\* identify sends one packet of each kind.
OfItsKind ==
    idPacket # None =>
        /\ idPc = "show" => idPacket = Show(TRUE)
        /\ idPc = "load" => idPacket.type = "LOAD"
        /\ idPc = "play" => idPacket.type = "PLAY"

\* It has built none at the start.
LEMMA InitKinds == Init => OfItsKind
BY DEF Init, ServerInit, OfItsKind

\* It does so at every step, whatever the others do.
LEMMA NextKinds == Inv /\ OfItsKind /\ [Next]_vars => OfItsKind'
<1> SUFFICES ASSUME Inv, OfItsKind, [Next]_vars PROVE OfItsKind'
    OBVIOUS
<1>1. CASE UNCHANGED identity
    BY <1>1 DEF identity, OfItsKind, Show
<1>2. CASE IdentRead
    <2>1. idPacket' # None => idPacket' = Told[idPc] /\ idPc' = idPc
        BY <1>2 DEF IdentRead
    <2>2. Told["show"] = Show(TRUE) /\ Told["load"] = Load(music) /\ Told["play"] = Play(TRUE)
        BY DEF Told
    <2>3. Load(music).type = "LOAD" /\ Play(TRUE).type = "PLAY"
        BY DEF Load, Play
    <2> QED BY <2>1, <2>2, <2>3 DEF OfItsKind, Show
<1>3. ASSUME NEW d \in Clients, IdentBegin(d) PROVE OfItsKind'
    BY <1>3 DEF IdentBegin, Inv, ServerInv, OfItsKind
<1>4. CASE IdentSend
    BY <1>4 DEF IdentSend, OfItsKind
<1>5. CASE Caller \/ ClockThread \/ AcceptFails
    BY <1>1, <1>5 DEF Caller, Listen, Stop, ShowSend, ShowSet, LoadSong, PlayBegin, PlayRun, PlaySend,
           PlayStop, StopSend, StopClear, AcceptFails, ClockThread, ClockUpdate, ClockEnd, ClockClear, serverVars
<1>6. ASSUME NEW d \in Clients, HandleConnect(d) \/ IdentRefuse(d) PROVE OfItsKind'
    BY <1>1, <1>6 DEF HandleConnect, IdentRefuse, serverVars
<1>7. CASE UNCHANGED serverVars
    BY <1>1, <1>7 DEF serverVars
<1> QED BY <1>2, <1>3, <1>4, <1>5, <1>6, <1>7
    DEF Next, ServerStep, ClientThread, ClientSteps, NetworkDrops, LinkEnds, vars

\* show is not between its packet and its assignment while identify is between
\* coming to its first packet and having sent it.
NoShowRace == ~(callPc = "show" /\ idPc = "show")

\* The load that identify has built is that of the song the server has loaded:
\* no load of the caller comes between its reading and its sending.
NoLoadRace == idPc = "load" => idPacket \in {None, Load(music)}

-----------------------------------------------------------------------------
(* The server's turns *)

\* Where threads take turns, one thread of the server is at work at a time.
OneTurn ==
    /\ callPc # "idle" => clockPc = "idle" /\ idPc = "idle"
    /\ clockPc # "idle" => idPc = "idle"
Turns == OneTurn /\ NoLoadRace

\* The caller begins only in its turn and changes no state while identify runs.
LEMMA CallerTurns == ASSUME Overlap = FALSE PROVE Inv /\ Turns /\ Caller => Turns'
<1> SUFFICES ASSUME Inv, Turns, Caller PROVE Turns'
    OBVIOUS
<1>1. callPc # "idle" \/ ThreadMayBegin
    BY DEF Caller, Listen, Stop, ShowSend, ShowSet, LoadSong, PlayBegin, PlayRun, PlaySend,
           PlayStop, StopSend, StopClear, CallerMayBegin
<1>2. idPc = "idle" /\ clockPc = "idle"
    BY <1>1 DEF ThreadMayBegin, Turns, OneTurn
<1>3. idPacket = None
    BY <1>2 DEF Inv, ServerInv
<1>4. idPc' = idPc /\ clockPc' = clockPc /\ idPacket' = idPacket
    BY DEF Caller, Listen, Stop, ShowSend, ShowSet, LoadSong, PlayBegin, PlayRun, PlaySend,
           PlayStop, StopSend, StopClear, identity
<1> QED BY <1>2, <1>3, <1>4 DEF Turns, OneTurn, NoLoadRace

\* So does the clock thread.
LEMMA ClockTurns == ASSUME Overlap = FALSE PROVE Inv /\ Turns /\ ClockThread => Turns'
<1> SUFFICES ASSUME Inv, Turns, ClockThread PROVE Turns'
    OBVIOUS
<1>1. CASE ClockUpdate
    BY <1>1 DEF ClockUpdate, serverVars, server, caller, identity, Turns, OneTurn, NoLoadRace
<1>2. CASE ClockEnd \/ ClockClear
    <2>1. idPc = "idle" /\ callPc = "idle"
        BY <1>2 DEF ClockEnd, ClockClear, ThreadMayBegin, Turns, OneTurn
    <2>2. idPacket = None
        BY <2>1 DEF Inv, ServerInv
    <2>3. idPc' = idPc /\ idPacket' = idPacket /\ callPc' = callPc
        BY <1>2 DEF ClockEnd, ClockClear, identity, caller
    <2> QED BY <2>1, <2>2, <2>3 DEF Turns, OneTurn, NoLoadRace
<1> QED BY <1>1, <1>2 DEF ClockThread

\* And the client thread.
LEMMA ClientTurns == ASSUME Overlap = FALSE PROVE Inv /\ Turns /\ ClientThread => Turns'
<1> SUFFICES ASSUME Inv, Turns, ClientThread PROVE Turns'
    OBVIOUS
<1> USE DEF Turns, OneTurn, NoLoadRace
<1>1. ASSUME NEW c \in Clients, HandleConnect(c) \/ IdentRefuse(c) PROVE Turns'
    BY <1>1 DEF HandleConnect, IdentRefuse, serverVars, server, caller, identity
<1>2. ASSUME NEW c \in Clients, IdentBegin(c) PROVE Turns'
    <2>1. callPc = "idle" /\ clockPc = "idle" /\ idPacket = None
        BY <1>2 DEF IdentBegin, ThreadMayBegin, Inv, ServerInv
    <2> QED BY <1>2, <2>1 DEF IdentBegin, caller
<1>3. CASE IdentRead
    <2>1. callPc = "idle" /\ clockPc = "idle" /\ idPc \in {"show", "load", "play"}
        BY <1>3 DEF IdentRead, Inv, ServerInv, ServerType
    <2>2. UNCHANGED <<music, callPc, clockPc>>
        BY <1>3 DEF IdentRead, server, caller
    <2>3. idPacket' # None => idPacket' = Told[idPc] /\ idPc' = idPc
        BY <1>3 DEF IdentRead
    <2>4. Told["load"] = Load(music)
        BY DEF Told
    <2> QED BY <2>1, <2>2, <2>3, <2>4 DEF Load
<1>4. CASE IdentSend
    <2>1. callPc = "idle" /\ clockPc = "idle"
        BY <1>4 DEF IdentSend, Inv, ServerInv
    <2>2. idPacket' = None /\ UNCHANGED <<callPc, clockPc>>
        BY <1>4 DEF IdentSend, caller
    <2> QED BY <2>1, <2>2
<1> QED BY <1>1, <1>2, <1>3, <1>4 DEF ClientThread

\* The turns are kept by every step.
LEMMA NextTurns == ASSUME Overlap = FALSE PROVE Inv /\ Turns /\ [Next]_vars => Turns'
<1> SUFFICES ASSUME Inv, Turns, [Next]_vars PROVE Turns'
    OBVIOUS
<1>1. CASE ServerStep
    <2>1. CASE AcceptFails
        BY <2>1 DEF AcceptFails, caller, identity, Turns, OneTurn, NoLoadRace
    <2> QED BY <1>1, <2>1, CallerTurns, ClockTurns, ClientTurns DEF ServerStep
<1>2. CASE UNCHANGED serverVars
    BY <1>2 DEF serverVars, server, caller, identity, Turns, OneTurn, NoLoadRace
<1> QED BY <1>1, <1>2 DEF Next, ClientSteps, NetworkDrops, LinkEnds, vars

\* No thread of the server has begun.
LEMMA InitTurns == Init => Turns
BY DEF Init, ServerInit, Turns, OneTurn, NoLoadRace

\* Threads that take turns never race.
LEMMA TurnsWithoutRace == ASSUME Overlap = FALSE PROVE Spec => []NoShowRace /\ []NoLoadRace
<1>1. Turns => NoShowRace /\ NoLoadRace
    BY DEF Turns, OneTurn, NoShowRace
<1>2. Inv /\ Turns /\ [Next]_vars => Inv' /\ Turns'
    BY NextInv, NextTurns
<1> QED BY InitInv, InitTurns, <1>1, <1>2, PTL DEF Spec

-----------------------------------------------------------------------------
(* The connections *)

\* A connection has its client's end; the only thing a client ever sends is
\* its key; and until the key has come the client is told nothing.
Linked(c) ==
    /\ conn[c] # "none" => sock[c] = "open"
    /\ toServer[c] \in {<<>>, <<ClientKey[c]>>}
    /\ conn[c] = "client" => toServer[c] = <<>>
    /\ conn[c] \in {"backlog", "accepted"} => toClient[c] = <<>> /\ ~cl[c].inShow

\* What sending does to the queue of one client.
LEMMA SentAll ==
    ASSUME NEW c \in Clients, NEW packet, SendAll(packet)
    PROVE  toClient'[c] = IF conn[c] = "client" THEN Append(toClient[c], packet) ELSE toClient[c]
BY DEF SendAll

\* The same for the sending of identify.
LEMMA SentTo ==
    ASSUME LinkType, NEW c \in Clients, NEW d \in Clients, NEW packet, SendTo(d, packet)
    PROVE  toClient'[c] = IF c = d /\ conn[c] = "client" THEN Append(toClient[c], packet)
                          ELSE toClient[c]
BY DEF SendTo, LinkType

\* Closing ends the connections that it closes and leaves the others as they are.
LEMMA Closed ==
    ASSUME LinkType, NEW ends, CloseOf(ends), NEW c \in Clients
    PROVE  /\ c \in ends => conn'[c] = "none"
           /\ c \notin ends => conn'[c] = conn[c] /\ toClient'[c] = toClient[c]
<1>1. PICK kept \in [Clients -> UNION {0 .. Len(toClient[d]) : d \in Clients}] :
          /\ \A d \in Clients \ ends : kept[d] = Len(toClient[d])
          /\ toClient' = [d \in Clients |-> SubSeq(toClient[d], 1, kept[d])]
    BY DEF CloseOf
<1>2. toClient[c] \in Seq(Packets)
    BY DEF LinkType
<1>3. SubSeq(toClient[c], 1, Len(toClient[c])) = toClient[c]
    BY <1>2
<1> QED BY <1>1, <1>3 DEF CloseOf

\* What a step of the server does to one connection: packets go to identified
\* clients only, and a client is identified once, by its key.
LEMMA ServerLink ==
    ASSUME Inv, NEW c \in Clients, ServerStep
    PROVE  /\ cl' = cl /\ sock' = sock
           /\ conn[c] \in {"backlog", "accepted"} /\ conn'[c] # "none" => toClient'[c] = toClient[c]
           /\ \/ conn'[c] = "none" /\ toServer'[c] \in {toServer[c], <<>>}
              \/ conn'[c] = conn[c] /\ toServer'[c] = toServer[c]
              \/ conn[c] = "backlog" /\ conn'[c] = "accepted" /\ toServer'[c] = toServer[c]
              \/ /\ conn[c] \in {"accepted", "client"} /\ conn'[c] = "client"
                 /\ toServer[c] # <<>> /\ toServer'[c] = Tail(toServer[c])
<1>1. cl' = cl
    BY DEF ServerStep
<1>2. conn \in [Clients -> {"none", "backlog", "accepted", "client"}] /\ LinkType
    BY DEF Inv, LinkType
<1>3. ASSUME NEW packet, SendAll(packet), conn[c] \in {"backlog", "accepted"} PROVE toClient'[c] = toClient[c]
    BY <1>3, SentAll
<1>4. CASE Stop \/ AcceptFails
    <2>1. PICK ends : CloseOf(ends)
        BY <1>4 DEF Stop, AcceptFails, CloseAll, CloseOf, link
    <2>2. sock' = sock /\ toServer' = toServer
        BY <1>4 DEF Stop, AcceptFails
    <2> QED BY <1>1, <1>2, <2>1, <2>2, Closed
<1>5. CASE (Caller /\ ~Stop) \/ ClockThread
    <2>1. conn' = conn /\ sock' = sock /\ toServer' = toServer
        BY <1>5 DEF Caller, Listen, ShowSend, ShowSet, LoadSong, PlayBegin, PlayRun, PlaySend, PlayStop,
               StopSend, StopClear, ClockThread, ClockUpdate, ClockEnd, ClockClear, link
    <2>2. toClient' = toClient \/ \E packet : SendAll(packet)
        BY <1>5 DEF Caller, Listen, ShowSend, ShowSet, LoadSong, PlayBegin, PlayRun, PlaySend, PlayStop,
               StopSend, StopClear, ClockThread, ClockUpdate, ClockEnd, ClockClear, link
    <2> QED BY <1>1, <1>3, <2>1, <2>2
<1>6. ASSUME NEW d \in Clients, HandleConnect(d)
      PROVE  /\ sock' = sock /\ toClient' = toClient /\ toServer' = toServer
             /\ \/ conn'[c] = conn[c]
                \/ conn[c] = "backlog" /\ conn'[c] = "accepted"
    BY <1>2, <1>6 DEF HandleConnect
<1>7. ASSUME NEW d \in Clients, IdentRefuse(d)
      PROVE  /\ sock' = sock /\ toClient' = toClient
             /\ \/ conn'[c] = "none" /\ toServer'[c] = <<>>
                \/ conn'[c] = conn[c] /\ toServer'[c] = toServer[c]
    BY <1>2, <1>7 DEF IdentRefuse, LinkType
<1>8. ASSUME NEW d \in Clients, IdentBegin(d)
      PROVE  /\ sock' = sock /\ toClient' = toClient
             /\ \/ conn'[c] = conn[c] /\ toServer'[c] = toServer[c]
                \/ /\ conn[c] \in {"accepted", "client"} /\ conn'[c] = "client"
                   /\ toServer[c] # <<>> /\ toServer'[c] = Tail(toServer[c])
    BY <1>2, <1>8 DEF IdentBegin, LinkType
<1>9. CASE IdentRead
    BY <1>1, <1>9 DEF IdentRead, link
<1>10. CASE IdentSend
    <2>1. idClient \in Clients
        BY DEF Inv, ServerInv, ServerType
    <2> QED BY <1>1, <1>2, <1>10, <2>1, SentTo DEF IdentSend
<1> QED BY <1>1, <1>4, <1>5, <1>6, <1>7, <1>8, <1>9, <1>10 DEF ServerStep, ClientThread

\* The steps of a client are its own.
LEMMA ClientAlone ==
    ASSUME Inv, NEW c \in Clients, NEW d \in Clients, ClientSteps(d)
    PROVE  /\ UNCHANGED <<serverVars, drops>>
           /\ c # d => /\ cl'[c] = cl[c] /\ conn'[c] = conn[c] /\ sock'[c] = sock[c]
                       /\ toClient'[c] = toClient[c] /\ toServer'[c] = toServer[c]
<1>1. cl \in [Clients -> Client] /\ LinkType
    BY DEF Inv, ClientsGood
<1> USE DEF LinkType
<1>2. CASE ClientReads(d)
    BY <1>1, <1>2 DEF ClientSteps, ClientReads, ClientShowOn, ClientShowOff, ClientLoad, ClientPlayRefused,
        ClientPlayClock, ClientPlayMedia, ClientStop, ClientSync, Receive, link
<1>3. CASE ClientEnds(d) \/ AudioDrains(d)
    BY <1>1, <1>3 DEF ClientSteps, ClientEnds, ClientClockEnd, ClientClockClear, AudioDrains, link
<1>4. CASE ClientReturns(d, listening)
    BY <1>1, <1>4 DEF ClientSteps, ClientReturns, ClientConnect, ClientConnectFails,
        ClientConnectThrows, ClientNotices, link
<1> QED BY <1>2, <1>3, <1>4 DEF ClientSteps, ClientStep

\* clientPlay makes one of its three calls.
LEMMA MediaCall ==
    ASSUME Inv, NEW c \in Clients, ClientPlayMedia(c)
    PROVE  cl'[c] \in {PlayAudio(cl[c]), PlayLight(cl[c]), SetPlaying(cl[c])} /\ UNCHANGED link
<1>1. cl \in [Clients -> Client] /\ cl[c] \in Client
    BY DEF Inv, ClientsGood
<1>2. cl[c].pc \in {"play", "light", "set"}
    BY <1>1 DEF ClientPlayMedia, Client
<1> QED BY <1>1, <1>2 DEF ClientPlayMedia

\* Which calls of a client change its inShow.
LEMMA InShowOf ==
    ASSUME NEW me \in Client, NEW c \in Clients
    PROVE  /\ Forget(me).inShow = FALSE /\ ShowOn(me, c).inShow = TRUE /\ ShowOff(me, c).inShow = FALSE
           /\ \A n \in {PlayAudio(me), PlayLight(me), SetPlaying(me)} : n.inShow = me.inShow
           /\ [ClearPlay(StopMedia(me)) EXCEPT !.clock = "stopped"].inShow = me.inShow
           /\ [StopMedia(me) EXCEPT !.clock = "ended", !.endPc = "clear"].inShow = me.inShow
           /\ [ClearPlay(me) EXCEPT !.endPc = "idle"].inShow = me.inShow
<1>1. Forget(me).inShow = FALSE /\ ShowOn(me, c).inShow = TRUE /\ ShowOff(me, c).inShow = FALSE
    BY DEF Forget, ShowOn, ShowOff, Client
<1>2. \A n \in {PlayAudio(me), PlayLight(me), SetPlaying(me)} : n.inShow = me.inShow
    BY DEF PlayAudio, PlayLight, SetPlaying, Client
<1>3. StopMedia(me).inShow = me.inShow
    BY DEF StopMedia, Client
<1>4. StopMedia(me) \in Client
    BY HandlerTypes
<1>5. \A m \in Client : ClearPlay(m) \in Client /\ ClearPlay(m).inShow = m.inShow
    BY ClearPlayFields
<1>6. \A m \in Client : [m EXCEPT !.clock = "stopped"].inShow = m.inShow
    BY DEF Client
<1>7. \A m \in Client : [m EXCEPT !.clock = "ended", !.endPc = "clear"].inShow = m.inShow
    BY DEF Client
<1>8. \A m \in Client : [m EXCEPT !.endPc = "idle"].inShow = m.inShow
    BY DEF Client
<1> QED BY <1>1, <1>2, <1>3, <1>4, <1>5, <1>6, <1>7, <1>8

\* A load is none of them.
LEMMA InShowOfLoad ==
    ASSUME NEW me \in Client, NEW c \in Clients, NEW song \in Songs \cup {None}
    PROVE  LoadLights(LoadMusic(me, c, song), c, song).inShow = me.inShow
<1> DEFINE m == LoadMusic(me, c, song)
<1>1. m \in Client
    BY HandlerTypes
<1>2. m.inShow = me.inShow
    BY DEF LoadMusic, Client
<1> HIDE DEF m
<1>3. LoadLights(m, c, song).inShow = m.inShow
    BY <1>1 DEF LoadLights, Client
<1> QED BY <1>2, <1>3 DEF m

\* What a handler does: it takes a packet, and only that of a show changes
\* inShow; every other step leaves the queue.
LEMMA ReadsShow ==
    ASSUME Inv, NEW c \in Clients, ClientReads(c)
    PROVE  /\ conn' = conn /\ sock' = sock /\ toServer' = toServer
           /\ \/ toClient'[c] = toClient[c] /\ cl'[c].inShow = cl[c].inShow
              \/ /\ toClient[c] # <<>> /\ toClient'[c] = Tail(toClient[c]) /\ sock[c] = "open"
                 /\ \/ Head(toClient[c]) = Show(TRUE) /\ cl'[c].inShow = TRUE
                    \/ Head(toClient[c]) = Show(FALSE) /\ cl'[c].inShow = FALSE
                    \/ Head(toClient[c]).type # "SHOW" /\ cl'[c].inShow = cl[c].inShow
<1>1. cl \in [Clients -> Client] /\ cl[c] \in Client /\ LinkType
    BY DEF Inv, ClientsGood
<1>2. ASSUME NEW packet, Receive(c, packet)
      PROVE  /\ conn' = conn /\ sock' = sock /\ toServer' = toServer /\ sock[c] = "open"
             /\ toClient[c] # <<>> /\ toClient'[c] = Tail(toClient[c]) /\ Head(toClient[c]) = packet
    BY <1>1, <1>2 DEF Receive, LinkType
<1>3. CASE ClientShowOn(c)
    <2>1. cl'[c] = ShowOn(cl[c], c)
        BY <1>1, <1>3 DEF ClientShowOn
    <2>2. ShowOn(cl[c], c).inShow = TRUE
        BY <1>1 DEF ShowOn, ShowOff, Client
    <2>3. cl'[c].inShow = TRUE
        BY <2>1, <2>2
    <2> QED BY <1>2, <1>3, <2>3 DEF ClientShowOn
<1>4. CASE ClientShowOff(c)
    <2>1. cl'[c] = ShowOff(cl[c], c)
        BY <1>1, <1>4 DEF ClientShowOff
    <2>2. ShowOff(cl[c], c).inShow = FALSE
        BY <1>1 DEF ShowOn, ShowOff, Client
    <2>3. cl'[c].inShow = FALSE
        BY <2>1, <2>2
    <2> QED BY <1>2, <1>4, <2>3 DEF ClientShowOff
<1>5. CASE ClientLoad(c)
    <2>1. PICK song \in Songs \cup {None} :
              /\ Receive(c, Load(song))
              /\ cl'[c] = LoadLights(LoadMusic(cl[c], c, song), c, song)
        BY <1>1, <1>5 DEF ClientLoad
    <2>2. cl'[c].inShow = cl[c].inShow /\ Load(song).type # "SHOW"
        BY <1>1, <2>1, InShowOfLoad DEF Load
    <2> QED BY <1>2, <2>1, <2>2
<1>6. CASE ClientPlayRefused(c) \/ ClientSync(c)
    <2>1. cl' = cl /\ \E packet : Receive(c, packet) /\ packet.type # "SHOW"
        BY <1>6 DEF ClientPlayRefused, ClientSync, Play, Sync
    <2> QED BY <1>2, <2>1
<1>7. CASE ClientPlayClock(c)
    <2>1. cl'[c].inShow = cl[c].inShow /\ Play(TRUE).type # "SHOW"
        BY <1>1, <1>7 DEF ClientPlayClock, Client, Play
    <2> QED BY <1>2, <1>7, <2>1 DEF ClientPlayClock
<1>8. CASE ClientPlayMedia(c)
    <2>1. cl'[c].inShow = cl[c].inShow /\ UNCHANGED link
        BY <1>1, <1>8, MediaCall, InShowOf
    <2> QED BY <2>1 DEF link
<1>9. CASE ClientStop(c)
    <2>1. cl'[c] = IF cl[c].clock = "stopped" THEN cl[c]
                   ELSE [ClearPlay(StopMedia(cl[c])) EXCEPT !.clock = "stopped"]
        BY <1>1, <1>9 DEF ClientStop
    <2>2. cl'[c].inShow = cl[c].inShow /\ Play(FALSE).type # "SHOW"
        BY <1>1, <2>1, InShowOf DEF Play
    <2> QED BY <1>2, <1>9, <2>2 DEF ClientStop
<1> QED BY <1>3, <1>4, <1>5, <1>6, <1>7, <1>8, <1>9 DEF ClientReads

-----------------------------------------------------------------------------
(* The show *)

\* A client whose inShow is b will have it at v once it has read its queue q.
Hears(q, b, v) == Latest(q, Show(v)) \/ (Missing(q, "SHOW") /\ b = v)

\* What an identified client has been told so far of the show: show sends
\* before it sets inShow, and identify has its first packet still to send.
ToldShow(c) ==
    IF callPc = "show" THEN showState
    ELSE IF idPc = "show" /\ idClient = c THEN FALSE
    ELSE inShow

\* While identify has a packet of a show to send, there is one, for as long as
\* the connection lasts that the packet is for.
Announced == idPacket # None /\ idPc = "show" /\ conn[idClient] = "client" => inShow

\* What makes ShowAgreement inductive.
Agreed == OfItsKind /\ Announced /\ \A c \in Clients :
    Linked(c) /\ (conn[c] = "client" => Hears(toClient[c], cl[c].inShow, ToldShow(c)))

\* What identify has built stays true: only the end of a show changes inShow,
\* and then no identify is about to tell it or no connection is left.
LEMMA NextAnnounced == Inv /\ Agreed /\ NoShowRace /\ [Next]_vars => Announced'
<1> SUFFICES ASSUME Inv, Agreed, NoShowRace, [Next]_vars,
                    idPacket' # None, idPc' = "show", conn'[idClient'] = "client"
             PROVE  inShow'
    BY DEF Announced
<1>1. /\ Announced /\ LinkType /\ idClient \in Clients
      /\ idPc \in {"idle", "show", "load", "play"} /\ (idPc = "idle" => idPacket = None)
    BY DEF Agreed, Inv, ServerInv, ServerType
<1>2. ASSUME UNCHANGED identity, conn'[idClient] = "client" => conn[idClient] = "client"
      PROVE  inShow
    BY <1>1, <1>2 DEF identity, Announced
<1>3. CASE Caller
    <2>1. UNCHANGED identity
        BY <1>3 DEF Caller, Listen, Stop, ShowSend, ShowSet, LoadSong, PlayBegin, PlayRun, PlaySend,
               PlayStop, StopSend, StopClear
    <2>2. conn'[idClient] = "client" => conn[idClient] = "client" /\ (inShow' = inShow \/ ShowSet)
        BY <1>1, <1>3 DEF Caller, Listen, Stop, CloseAll, CloseOf, ShowSend, LoadSong, PlayBegin, PlayRun, PlaySend,
               PlayStop, StopSend, StopClear, ShowSet, link, server
    <2>3. ~ShowSet
        BY <2>1 DEF ShowSet, NoShowRace, identity
    <2> QED BY <1>2, <2>1, <2>2, <2>3 DEF identity
<1>11. CASE AcceptFails
    <2>1. conn'[idClient] = "client" => conn[idClient] = "client"
        BY <1>1, <1>11, Closed DEF AcceptFails, CloseAll
    <2> QED BY <1>2, <1>11, <2>1 DEF AcceptFails, identity
<1>4. CASE ClockThread
    BY <1>2, <1>4 DEF ClockThread, ClockUpdate, ClockEnd, ClockClear, serverVars, server, link
<1>5. ASSUME NEW d \in Clients, HandleConnect(d) \/ IdentRefuse(d) PROVE inShow'
    <2>1. conn'[idClient] = "client" => conn[idClient] = "client"
        BY <1>1, <1>5 DEF HandleConnect, IdentRefuse, LinkType
    <2> QED BY <1>2, <1>5, <2>1 DEF HandleConnect, IdentRefuse, serverVars, server
<1>6. ASSUME NEW d \in Clients, IdentBegin(d) PROVE FALSE
    BY <1>1, <1>6 DEF IdentBegin
<1>7. CASE IdentRead
    <2>1. Wanted[idPc] /\ idPc' = idPc /\ inShow' = inShow
        BY <1>7 DEF IdentRead, server
    <2> QED BY <2>1 DEF Wanted
<1>8. CASE IdentSend
    BY <1>8 DEF IdentSend
<1>9. ASSUME NEW d \in Clients, ClientSteps(d) \/ NetworkDrops(d) \/ LinkEnds(d)
      PROVE  UNCHANGED serverVars /\ (conn'[idClient] = "client" => conn[idClient] = "client")
    <2>1. CASE ClientSteps(d)
        <3>1. UNCHANGED serverVars /\ (idClient # d => conn'[idClient] = conn[idClient])
            BY <1>1, <2>1, ClientAlone
        <3>2. idClient = d => (conn'[d] = "client" => conn[d] = "client")
            <4>1. CASE ClientReads(d)
                BY <1>1, <4>1, ReadsShow
            <4>2. CASE ClientEnds(d) \/ AudioDrains(d)
                BY <4>2 DEF ClientEnds, ClientClockEnd, ClientClockClear, AudioDrains, link
            <4>3. CASE ClientReturns(d, listening)
                BY <1>1, <4>3 DEF ClientReturns, ClientConnect, ClientConnectFails, ClientConnectThrows,
                    ClientNotices, LinkType, link
            <4> QED BY <2>1, <4>1, <4>2, <4>3 DEF ClientSteps, ClientStep
        <3> QED BY <3>1, <3>2
    <2>2. CASE NetworkDrops(d) \/ LinkEnds(d)
        BY <1>1, <2>2 DEF NetworkDrops, LinkEnds, Drop, ReadEnds, LinkType
    <2> QED BY <1>9, <2>1, <2>2
<1>10. CASE UNCHANGED vars
    BY <1>2, <1>10 DEF vars, serverVars, server, link
<1> QED BY <1>2, <1>3, <1>4, <1>5, <1>6, <1>7, <1>8, <1>9, <1>10, <1>11
    DEF Next, ServerStep, ClientThread, serverVars, server

\* Reading a packet of a show does what the packet says.
LEMMA HearsRead ==
    ASSUME NEW q \in Seq(Packets), q # <<>>, NEW b \in BOOLEAN, NEW n, NEW v \in BOOLEAN, Hears(q, b, v),
           \/ Head(q) = Show(TRUE) /\ n = TRUE
           \/ Head(q) = Show(FALSE) /\ n = FALSE
           \/ Head(q).type # "SHOW" /\ n = b
    PROVE  Hears(Tail(q), n, v)
<1>1. \A s : Show(s).type = "SHOW" /\ Show(s).state = s
    BY DEF Show
<1>2. CASE Latest(q, Show(v))
    <2>1. Latest(Tail(q), Show(v)) \/ (Head(q) = Show(v) /\ Missing(Tail(q), "SHOW"))
        BY <1>1, <1>2, LatestRead
    <2>2. ASSUME Head(q) = Show(v) PROVE n = v
        <3>1. Show(TRUE) # Show(FALSE)
            BY DEF Show
        <3>2. Head(q).type = "SHOW"
            BY <1>1, <2>2
        <3>3. CASE v = TRUE
            BY <2>2, <3>1, <3>2, <3>3
        <3>4. CASE v = FALSE
            BY <2>2, <3>1, <3>2, <3>4
        <3> QED BY <3>3, <3>4
    <2> QED BY <2>1, <2>2 DEF Hears
<1>3. CASE Missing(q, "SHOW") /\ b = v
    <2>1. Missing(Tail(q), "SHOW") /\ Head(q).type # "SHOW"
        BY <1>3, MissingRead
    <2>2. n = v
        BY <1>1, <1>3, <2>1
    <2> QED BY <2>1, <2>2 DEF Hears
<1> QED BY <1>2, <1>3 DEF Hears

\* Another packet leaves what is to be heard; that of a show decides it.
LEMMA HearsSent ==
    ASSUME NEW q \in Seq(Packets), NEW b, NEW p \in Packets
    PROVE  /\ p.type # "SHOW" => \A v : Hears(q, b, v) => Hears(Append(q, p), b, v)
           /\ \A v : p = Show(v) => Hears(Append(q, p), b, v)
<1>1. \A s : Show(s).type = "SHOW"
    BY DEF Show
<1>2. ASSUME p.type # "SHOW", NEW v, Hears(q, b, v) PROVE Hears(Append(q, p), b, v)
    <2>1. CASE Latest(q, Show(v))
        BY <1>1, <1>2, <2>1, LatestKept DEF Hears
    <2>2. CASE Missing(q, "SHOW") /\ b = v
        BY <1>2, <2>2, MissingKept DEF Hears
    <2> QED BY <1>2, <2>1, <2>2 DEF Hears
<1>3. ASSUME NEW v, p = Show(v) PROVE Hears(Append(q, p), b, v)
    BY <1>3, LatestSent DEF Hears
<1> QED BY <1>2, <1>3

\* A packet to all that is not of a show: nobody's view changes.
LEMMA AllHear ==
    ASSUME Inv, NEW c \in Clients, NEW packet \in Packets, SendAll(packet), packet.type # "SHOW",
           conn[c] = "client", NEW v, Hears(toClient[c], cl[c].inShow, v)
    PROVE  Hears(toClient'[c], cl[c].inShow, v)
<1>1. toClient[c] \in Seq(Packets)
    BY DEF Inv, LinkType
<1>2. toClient'[c] = Append(toClient[c], packet)
    BY SentAll
<1> QED BY <1>1, <1>2, HearsSent

\* The caller tells every identified client what it then sets.
LEMMA CallerAgrees ==
    ASSUME Inv, Agreed, NoShowRace, NEW c \in Clients, Caller, conn[c] = "client", conn'[c] = "client"
    PROVE  Hears(toClient'[c], cl[c].inShow, ToldShow(c)')
<1> DEFINE b == cl[c].inShow
<1>1. toClient[c] \in Seq(Packets) /\ Hears(toClient[c], b, ToldShow(c))
    BY DEF Inv, LinkType, Agreed
<1>2. ASSUME NEW state \in BOOLEAN, ShowSend(state) PROVE Hears(toClient'[c], b, ToldShow(c)')
    <2>1. toClient'[c] = Append(toClient[c], Show(state)) /\ ToldShow(c)' = state
        BY <1>2, SentAll DEF ShowSend, ToldShow
    <2>2. Show(state) \in Packets
        BY PacketTypes
    <2> QED BY <1>1, <2>1, <2>2, HearsSent
<1>3. CASE ShowSet
    <2>1. ToldShow(c) = showState /\ toClient' = toClient
        BY <1>3 DEF ShowSet, ToldShow, link
    <2>2. callPc' # "show" /\ idPc' # "show" /\ inShow' = showState
        BY <1>3 DEF ShowSet, StopClock, NoShowRace, identity
    <2>3. ToldShow(c)' = showState
        BY <2>2 DEF ToldShow
    <2> QED BY <1>1, <2>1, <2>3
<1>4. CASE Stop
    BY <1>4 DEF Stop, CloseAll, CloseOf
<1>5. CASE Listen \/ PlayBegin \/ PlayRun \/ PlayStop \/ StopClear
    <2>1. callPc # "show" /\ callPc' # "show" /\ UNCHANGED <<inShow, identity, toClient>>
        BY <1>5 DEF Listen, PlayBegin, PlayRun, PlayStop, StopClear, StopClock, CallerMayBegin, caller, link
    <2>2. ToldShow(c)' = ToldShow(c)
        BY <2>1 DEF ToldShow, identity
    <2> QED BY <1>1, <2>1, <2>2
<1>6. CASE PlaySend \/ StopSend \/ \E song \in Songs, frames \in 0..1 : LoadSong(song, frames)
    <2>1. callPc # "show" /\ callPc' # "show" /\ UNCHANGED <<inShow, identity>>
        BY <1>6 DEF PlaySend, StopSend, LoadSong, CallerMayBegin, caller, server
    <2>2. ToldShow(c)' = ToldShow(c)
        BY <2>1 DEF ToldShow, identity
    <2>3. \E packet \in Packets : packet.type # "SHOW" /\ SendAll(packet)
        <3>1. \A song : Load(song).type # "SHOW"
            BY DEF Load
        <3>2. \A state : Play(state).type # "SHOW"
            BY DEF Play
        <3> QED BY <1>6, <3>1, <3>2, PacketTypes DEF PlaySend, StopSend, LoadSong
    <2> QED BY <1>1, <2>2, <2>3, AllHear
<1> QED BY <1>2, <1>3, <1>4, <1>5, <1>6 DEF Caller

\* The clock thread tells nothing of a show.
LEMMA ClockAgrees ==
    ASSUME Inv, Agreed, NEW c \in Clients, ClockThread, conn[c] = "client"
    PROVE  Hears(toClient'[c], cl[c].inShow, ToldShow(c)')
<1>1. Hears(toClient[c], cl[c].inShow, ToldShow(c))
    BY DEF Agreed
<1>2. ToldShow(c)' = ToldShow(c)
    BY DEF ClockThread, ClockUpdate, ClockEnd, ClockClear, serverVars, server, caller, identity, ToldShow
<1>3. toClient' = toClient \/ \E packet \in Packets : packet.type # "SHOW" /\ SendAll(packet)
    <2>1. Sync.type # "SHOW" /\ Play(FALSE).type # "SHOW"
        BY DEF Sync, Play
    <2> QED BY <2>1, PacketTypes DEF ClockThread, ClockUpdate, ClockEnd, ClockClear, link
<1> QED BY <1>1, <1>2, <1>3, AllHear

\* Identify tells a client that has heard nothing whether there is a show.
LEMMA IdentifyAgrees ==
    ASSUME Inv, Agreed, NoShowRace, NoShowRace', NEW c \in Clients, ClientThread, conn'[c] = "client"
    PROVE  Hears(toClient'[c], cl[c].inShow, ToldShow(c)')
<1> DEFINE b == cl[c].inShow
<1>1. conn[c] = "client" => Hears(toClient[c], b, ToldShow(c))
    BY DEF Agreed
<1>2. /\ LinkType /\ toClient[c] \in Seq(Packets) /\ Linked(c) /\ Announced /\ OfItsKind
      /\ idClient \in Clients /\ idPacket \in Packets \cup {None}
      /\ idPc \in {"idle", "show", "load", "play"}
    BY DEF Inv, LinkType, Agreed, ServerInv, ServerType
<1>3. ASSUME NEW d \in Clients, HandleConnect(d) \/ IdentRefuse(d) PROVE Hears(toClient'[c], b, ToldShow(c)')
    <2>1. conn[c] = "client" /\ toClient' = toClient
        BY <1>2, <1>3 DEF HandleConnect, IdentRefuse, LinkType
    <2>2. ToldShow(c)' = ToldShow(c)
        BY <1>3 DEF HandleConnect, IdentRefuse, serverVars, server, caller, identity, ToldShow
    <2> QED BY <1>1, <2>1, <2>2
<1>4. ASSUME NEW d \in Clients, IdentBegin(d) PROVE Hears(toClient'[c], b, ToldShow(c)')
    <2>1. toClient' = toClient /\ callPc' = callPc /\ idPc = "idle" /\ idPc' = "show" /\ idClient' = d
          /\ UNCHANGED <<inShow, showState>> /\ callPc # "show"
        BY <1>4 DEF IdentBegin, caller, server, NoShowRace
    <2>2. CASE c = d
        <3>1. conn[c] = "accepted"
            BY <1>2, <1>4, <2>2 DEF IdentBegin, Linked
        <3>2. toClient[c] = <<>> /\ b = FALSE
            BY <1>2, <3>1 DEF Linked
        <3>3. ToldShow(c)' = FALSE
            BY <2>1, <2>2 DEF ToldShow
        <3> QED BY <2>1, <3>2, <3>3, EmptyQueue DEF Hears
    <2>3. CASE c # d
        <3>1. conn[c] = "client"
            BY <1>2, <1>4, <2>3 DEF IdentBegin, LinkType
        <3>2. ToldShow(c)' = ToldShow(c)
            BY <2>1, <2>3 DEF ToldShow
        <3> QED BY <1>1, <2>1, <3>1, <3>2
    <2> QED BY <2>2, <2>3
<1>5. CASE IdentRead
    <2>1. conn[c] = "client" /\ toClient' = toClient /\ UNCHANGED <<inShow, caller, idClient>> /\ idPc # "idle"
        BY <1>5 DEF IdentRead, link, server
    <2>2. idPc' = idPc \/ ((idPc = "show" => ~inShow) /\ idPc' = NextPacket[idPc])
        <3>1. ASSUME idPc = "show", ~Wanted[idPc] PROVE ~inShow
            BY <3>1 DEF Wanted
        <3> QED BY <1>5, <3>1 DEF IdentRead
    <2>4. idPc' = "show" => idPc = "show"
        BY <1>2, <2>1, <2>2 DEF NextPacket
    <2>5. ToldShow(c)' = ToldShow(c)
        <3>1. inShow \in BOOLEAN
            BY DEF Inv, ServerInv, ServerType
        <3>2. CASE idPc' = idPc
            BY <2>1, <3>2 DEF ToldShow, caller
        <3>3. CASE (idPc = "show" => ~inShow) /\ idPc' # idPc
            BY <2>1, <2>4, <3>1, <3>3 DEF ToldShow, caller
        <3> QED BY <2>2, <3>2, <3>3
    <2> QED BY <1>1, <2>1, <2>5
<1>6. CASE IdentSend
    <2>1. /\ conn[c] = "client" /\ UNCHANGED <<inShow, caller, idClient>> /\ idPacket \in Packets /\ idPacket # None /\ idPc # "idle"
          /\ SendTo(idClient, idPacket) /\ idPc' = NextPacket[idPc]
        BY <1>2, <1>6 DEF IdentSend, server, Inv, ServerInv
    <2>2. callPc' = callPc /\ showState' = showState /\ idPc' # "show"
        BY <1>2, <2>1 DEF caller, NextPacket
    <2>3. ToldShow(c)' = IF callPc = "show" THEN showState ELSE inShow
        BY <2>1, <2>2 DEF ToldShow
    <2>4. CASE c # idClient
        <3>1. toClient'[c] = toClient[c]
            BY <1>2, <2>1, <2>4, SentTo
        <3>2. ToldShow(c)' = ToldShow(c)
            BY <2>3, <2>4 DEF ToldShow
        <3> QED BY <1>1, <2>1, <3>1, <3>2
    <2>5. CASE c = idClient
        <3>1. toClient'[c] = Append(toClient[c], idPacket)
            BY <1>2, <2>1, <2>5, SentTo
        <3>2. CASE idPc = "show" /\ conn[c] = "client"
            <4>1. idPacket = Show(TRUE) /\ inShow /\ inShow \in BOOLEAN
                BY <1>2, <2>1, <2>5, <3>2 DEF Announced, OfItsKind, Inv, ServerInv, ServerType
            <4>2. ToldShow(c)' = TRUE
                BY <2>3, <3>2, <4>1 DEF NoShowRace
            <4> QED BY <1>2, <2>1, <3>1, <4>1, <4>2, HearsSent
        <3>3. CASE idPc # "show"
            <4>1. idPacket.type # "SHOW" /\ ToldShow(c)' = ToldShow(c)
                BY <1>2, <2>1, <2>3, <3>3 DEF OfItsKind, ToldShow
            <4> QED BY <1>1, <1>2, <2>1, <3>1, <4>1, HearsSent
        <3> QED BY <2>1, <3>2, <3>3
    <2> QED BY <2>4, <2>5
<1> QED BY <1>3, <1>4, <1>5, <1>6 DEF ClientThread

\* A client that reads goes where its queue leads it; the other steps of an
\* identified client leave the queue and inShow.
LEMMA ClientAgrees ==
    ASSUME Inv, Agreed, NEW c \in Clients, ClientSteps(c)
    PROVE  /\ Linked(c)'
           /\ conn'[c] = "client" => Hears(toClient'[c], cl'[c].inShow, ToldShow(c)')
<1>1. /\ cl \in [Clients -> Client] /\ cl[c] \in Client /\ LinkType /\ Linked(c)
      /\ conn[c] = "client" => Hears(toClient[c], cl[c].inShow, ToldShow(c))
    BY DEF Inv, ClientsGood, Agreed
<1>2. ToldShow(c)' = ToldShow(c)
    BY ClientAlone DEF ToldShow, serverVars, server, caller, identity
<1>3. CASE ClientReads(c)
    <2>1. /\ conn' = conn /\ sock' = sock /\ toServer' = toServer
          /\ \/ toClient'[c] = toClient[c] /\ cl'[c].inShow = cl[c].inShow
             \/ /\ toClient[c] # <<>> /\ toClient'[c] = Tail(toClient[c]) /\ sock[c] = "open"
                /\ \/ Head(toClient[c]) = Show(TRUE) /\ cl'[c].inShow = TRUE
                   \/ Head(toClient[c]) = Show(FALSE) /\ cl'[c].inShow = FALSE
                   \/ Head(toClient[c]).type # "SHOW" /\ cl'[c].inShow = cl[c].inShow
        BY <1>3, ReadsShow
    <2>2. Linked(c)'
        BY <1>1, <2>1 DEF Linked
    <2>3. ASSUME conn'[c] = "client" PROVE Hears(toClient'[c], cl'[c].inShow, ToldShow(c))
        <3>1. Hears(toClient[c], cl[c].inShow, ToldShow(c)) /\ toClient[c] \in Seq(Packets)
            BY <1>1, <2>1, <2>3 DEF LinkType
        <3>2. cl[c].inShow \in BOOLEAN /\ ToldShow(c) \in BOOLEAN
            BY <1>1 DEF Client, ToldShow, Inv, ServerInv, ServerType
        <3>3. CASE toClient'[c] = toClient[c] /\ cl'[c].inShow = cl[c].inShow
            BY <3>1, <3>3
        <3>4. CASE ~(toClient'[c] = toClient[c] /\ cl'[c].inShow = cl[c].inShow)
            BY <2>1, <3>1, <3>2, <3>4, HearsRead
        <3> QED BY <3>3, <3>4
    <2> QED BY <1>2, <2>2, <2>3
<1>4. CASE ClientEnds(c) \/ AudioDrains(c) \/ ClientNotices(c)
    <2>1. /\ conn' = conn /\ toServer' = toServer /\ toClient' = toClient
          /\ \/ sock' = sock
             \/ sock[c] = "stale"
        BY <1>4 DEF ClientEnds, ClientClockEnd, ClientClockClear, AudioDrains, ClientNotices, link
    <2>2. cl'[c].inShow = cl[c].inShow
        <3>1. CASE ClientClockEnd(c)
            <4>1. cl'[c] = [StopMedia(cl[c]) EXCEPT !.clock = "ended", !.endPc = "clear"]
                BY <1>1, <3>1 DEF ClientClockEnd
            <4> QED BY <1>1, <4>1, InShowOf
        <3>2. CASE ClientClockClear(c)
            <4>1. cl'[c] = [ClearPlay(cl[c]) EXCEPT !.endPc = "idle"]
                BY <1>1, <3>2 DEF ClientClockClear
            <4> QED BY <1>1, <4>1, InShowOf
        <3>3. CASE AudioDrains(c) \/ ClientNotices(c)
            BY <1>1, <3>3 DEF AudioDrains, ClientNotices, Client
        <3> QED BY <1>4, <3>1, <3>2, <3>3 DEF ClientEnds
    <2>3. Linked(c)'
        BY <1>1, <2>1, <2>2 DEF Linked
    <2> QED BY <1>1, <1>2, <2>1, <2>2, <2>3
<1>5. CASE ClientConnect(c, listening)
    <2>1. /\ conn'[c] = "backlog" /\ sock'[c] = "open"
          /\ toServer'[c] = <<ClientKey[c]>> /\ toClient'[c] = <<>>
        BY <1>1, <1>5 DEF ClientConnect, LinkType
    <2>2. cl'[c] = Forget(cl[c])
        BY <1>1, <1>5 DEF ClientConnect
    <2>3. ~cl'[c].inShow
        BY <1>1, <2>2 DEF Forget, Client
    <2> QED BY <2>1, <2>3 DEF Linked
<1>6. CASE ClientConnectFails(c, listening) \/ ClientConnectThrows(c)
    <2>1. UNCHANGED <<conn, toClient, toServer>> /\ conn[c] = "none"
        BY <1>1, <1>6 DEF ClientConnectFails, ClientConnectThrows, MayConnect, Linked, link
    <2> QED BY <1>1, <2>1 DEF Linked
<1> QED BY <1>3, <1>4, <1>5, <1>6 DEF ClientSteps, ClientStep, ClientReturns

\* Every step keeps what the two sides agree on.
LEMMA NextAgreed == Inv /\ Agreed /\ NoShowRace /\ NoShowRace' /\ [Next]_vars => Agreed'
<1> SUFFICES ASSUME Inv, Agreed, NoShowRace, NoShowRace', [Next]_vars, NEW c \in Clients
             PROVE  /\ Linked(c)'
                    /\ conn'[c] = "client" => Hears(toClient'[c], cl'[c].inShow, ToldShow(c)')
    <2> QED BY NextAnnounced, NextKinds DEF Agreed
<1>1. /\ Linked(c) /\ LinkType
      /\ conn[c] = "client" => Hears(toClient[c], cl[c].inShow, ToldShow(c))
    BY DEF Agreed, Inv
<1>2. CASE ServerStep
    <2>1. Linked(c)'
        <3> DEFINE key == ClientKey[c]
        <3>1. Tail(<<key>>) = <<>>
            OBVIOUS
        <3> HIDE DEF key
        <3>2. toServer[c] \in {<<>>, <<key>>}
            BY <1>1 DEF Linked, key
        <3> QED BY <1>1, <1>2, <3>1, <3>2, ServerLink DEF Linked, key
    <2>2. ASSUME conn'[c] = "client" PROVE Hears(toClient'[c], cl'[c].inShow, ToldShow(c)')
        <3>1. cl' = cl /\ (Caller \/ ClockThread \/ ClientThread \/ AcceptFails)
            BY <1>2 DEF ServerStep
        <3>2. CASE Caller
            <4>1. conn[c] = "client"
                BY <1>1, <2>2, <3>2 DEF Caller, Listen, Stop, CloseAll, CloseOf, ShowSend, ShowSet, LoadSong,
                    PlayBegin, PlayRun, PlaySend, PlayStop, StopSend, StopClear, link
            <4> QED BY <2>2, <3>1, <3>2, <4>1, CallerAgrees
        <3>3. CASE ClockThread
            <4>1. conn[c] = "client"
                BY <2>2, <3>3 DEF ClockThread, ClockUpdate, ClockEnd, ClockClear, link
            <4> QED BY <3>1, <3>3, <4>1, ClockAgrees
        <3>4. CASE ClientThread
            BY <2>2, <3>1, <3>4, IdentifyAgrees
        <3>5. CASE AcceptFails
            <4>1. \/ conn'[c] = conn[c] /\ toClient'[c] = toClient[c]
                  \/ conn'[c] = "none"
                BY <1>1, <3>5, Closed DEF AcceptFails, CloseAll
            <4>2. ToldShow(c)' = ToldShow(c)
                BY <3>5 DEF AcceptFails, ToldShow, caller, identity
            <4> QED BY <1>1, <2>2, <3>1, <4>1, <4>2
        <3> QED BY <3>1, <3>2, <3>3, <3>4, <3>5
    <2> QED BY <2>1, <2>2
<1>3. ASSUME UNCHANGED serverVars, cl'[c] = cl[c], conn'[c] = conn[c], sock'[c] = sock[c],
             toClient'[c] = toClient[c], toServer'[c] = toServer[c]
      PROVE  /\ Linked(c)'
             /\ conn'[c] = "client" => Hears(toClient'[c], cl'[c].inShow, ToldShow(c)')
    BY <1>1, <1>3 DEF Linked, ToldShow, serverVars, server, caller, identity
<1>4. ASSUME NEW d \in Clients, ClientSteps(d)
      PROVE  /\ Linked(c)'
             /\ conn'[c] = "client" => Hears(toClient'[c], cl'[c].inShow, ToldShow(c)')
    <2>1. CASE c = d
        BY <1>4, <2>1, ClientAgrees
    <2>2. CASE c # d
        BY <1>3, <1>4, <2>2, ClientAlone
    <2> QED BY <2>1, <2>2
<1>5. ASSUME NEW d \in Clients, NetworkDrops(d) \/ LinkEnds(d)
      PROVE  /\ Linked(c)'
             /\ conn'[c] = "client" => Hears(toClient'[c], cl'[c].inShow, ToldShow(c)')
    <2>1. CASE c = d
        <3>1. conn'[c] = "none" /\ toServer'[c] = <<>>
            BY <1>1, <1>5, <2>1 DEF NetworkDrops, LinkEnds, Drop, ReadEnds, LinkType
        <3> QED BY <3>1 DEF Linked
    <2>2. CASE c # d
        <3>1. /\ UNCHANGED serverVars /\ cl'[c] = cl[c] /\ conn'[c] = conn[c] /\ sock'[c] = sock[c]
              /\ toClient'[c] = toClient[c] /\ toServer'[c] = toServer[c]
            BY <1>1, <1>5, <2>2 DEF NetworkDrops, LinkEnds, Drop, ReadEnds, LinkType
        <3> QED BY <1>3, <3>1
    <2> QED BY <2>1, <2>2
<1>6. CASE UNCHANGED vars
    BY <1>3, <1>6 DEF vars, link
<1> QED BY <1>2, <1>4, <1>5, <1>6 DEF Next

\* It holds at the start: nobody is connected.
LEMMA InitAgreed == Init => Agreed
BY DEF Init, ServerInit, LinkInit, ClientInit, Agreed, OfItsKind, Announced, Linked

\* Agreed says what ShowAgreement says once things settle.
LEMMA AgreedShow == Inv /\ Agreed => ShowAgreement
<1> SUFFICES ASSUME Inv, Agreed, NEW c \in Clients, Quiet(c) PROVE cl[c].inShow = inShow
    BY DEF ShowAgreement
<1>1. Hears(<<>>, cl[c].inShow, ToldShow(c))
    BY DEF Quiet, Agreed
<1>2. ToldShow(c) = inShow
    BY DEF Quiet, ServerIdle, ToldShow
<1> QED BY <1>1, <1>2, EmptyQueue DEF Hears

\* Whenever things settle, a client is in a show exactly when the server is,
\* however many clients come, go and come back, whatever the network loses and
\* however the threads interleave, as long as no show of the caller is half
\* done while identify is half done with its first packet.  That one meeting of
\* showserver.cpp:294 and :200 is the only way the two sides part: load, play,
\* stop and the end of a song may overlap with identify at any step.
THEOREM ShowsAgreeUnlessRaced == Spec /\ []NoShowRace => []ShowAgreement
<1>1. Inv /\ Agreed /\ NoShowRace /\ NoShowRace' /\ [Next]_vars => Inv' /\ Agreed'
    BY NextInv, NextAgreed
<1>2. Init => Agreed
    BY InitAgreed
<1> QED BY InitInv, <1>1, <1>2, AgreedShow, PTL DEF Spec

\* In particular the two sides agree when the threads of the server take turns.
THEOREM ShowsAgree == ASSUME Overlap = FALSE PROVE Spec => []ShowAgreement
BY TurnsWithoutRace, ShowsAgreeUnlessRaced, PTL

-----------------------------------------------------------------------------
(* The song *)

Sounds(c) == c \in UseAudio \cap SoundReady

\* A client with sound holds no song before its first show; another never opens
\* a stream.
Tuned(c, me) == IF Sounds(c) THEN me.showAudio \/ me.music = None ELSE me.stream = "closed"

\* What the handlers of a client do to the song it holds.
LEMMA TunedHandlers ==
    ASSUME NEW c \in Clients, NEW me \in Client, Tuned(c, me)
    PROVE  /\ Tuned(c, Forget(me)) /\ Forget(me).music = me.music
           /\ Tuned(c, ShowOn(me, c)) /\ ShowOn(me, c).music = me.music
           /\ Tuned(c, ShowOff(me, c)) /\ ShowOff(me, c).music \in {None, me.music}
           /\ \A n \in {PlayAudio(me), PlayLight(me), SetPlaying(me)} : Tuned(c, n) /\ n.music = me.music
           /\ Tuned(c, StopMedia(me)) /\ StopMedia(me).music \in {None, me.music}
           /\ Tuned(c, ClearPlay(me)) /\ ClearPlay(me).music = me.music
<1>1. Tuned(c, Forget(me)) /\ Forget(me).music = me.music
    BY DEF Tuned, Forget, Client
<1>2. Tuned(c, ShowOn(me, c)) /\ ShowOn(me, c).music = me.music
    <2> DEFINE n == ShowOn(me, c)
    <2>1. n.music = me.music /\ n.showAudio = Sounds(c) /\ n.stream = IF Sounds(c) THEN "open" ELSE me.stream
        BY DEF ShowOn, Client, Sounds
    <2> HIDE DEF n
    <2> QED BY <2>1 DEF Tuned, n
<1>3. Tuned(c, ShowOff(me, c)) /\ ShowOff(me, c).music \in {None, me.music}
    <2> DEFINE n == ShowOff(me, c)
    <2>1. /\ n.showAudio = (c \in UseAudio) /\ n.stream = IF me.showAudio THEN "closed" ELSE me.stream
          /\ n.music = IF me.showAudio THEN None ELSE me.music
        BY DEF ShowOff, Client
    <2> HIDE DEF n
    <2> QED BY <2>1 DEF Tuned, Sounds, n
<1>4. ASSUME NEW n \in {PlayAudio(me), PlayLight(me), SetPlaying(me)} PROVE Tuned(c, n) /\ n.music = me.music
    <2>1. /\ n.showAudio = me.showAudio /\ n.music = me.music
          /\ me.stream = "closed" => n.stream = "closed"
        BY DEF PlayAudio, PlayLight, SetPlaying, CanPlay, Client
    <2> QED BY <2>1 DEF Tuned
<1>5. Tuned(c, StopMedia(me)) /\ StopMedia(me).music \in {None, me.music}
    <2> DEFINE n == StopMedia(me)
    <2>1. /\ n.showAudio = me.showAudio
          /\ n.stream = IF me.useAudio /\ me.stream = "running" THEN "open" ELSE me.stream
          /\ n.music = IF me.useAudio /\ me.stream = "running" THEN None ELSE me.music
        BY DEF StopMedia, Client
    <2> HIDE DEF n
    <2> QED BY <2>1 DEF Tuned, n
<1>6. Tuned(c, ClearPlay(me)) /\ ClearPlay(me).music = me.music
    <2> DEFINE n == ClearPlay(me)
    <2>1. n.showAudio = me.showAudio /\ n.music = me.music /\ n.stream = me.stream
        BY DEF ClearPlay, Client
    <2> HIDE DEF n
    <2> QED BY <2>1 DEF Tuned, n
<1> QED BY <1>1, <1>2, <1>3, <1>4, <1>5, <1>6

\* A load leaves the song of its name, or none.
LEMMA TunedLoad ==
    ASSUME NEW c \in Clients, NEW me \in Client, Tuned(c, me), NEW song \in Songs \cup {None}
    PROVE  LET n == LoadLights(LoadMusic(me, c, song), c, song) IN
           Tuned(c, n) /\ (Sounds(c) => n.music \in {None, song})
<1> DEFINE m == LoadMusic(me, c, song)
           n == LoadLights(m, c, song)
<1>1. m \in Client
    BY HandlerTypes
<1>2. /\ m.showAudio = me.showAudio
      /\ ~me.showAudio => m = me
      /\ me.showAudio => m.music \in {None, song} /\ (me.stream = "closed" => m.stream = "closed")
    BY DEF LoadMusic, Client
<1> HIDE DEF m
<1>3. n.showAudio = m.showAudio /\ n.music = m.music /\ n.stream = m.stream
    BY <1>1 DEF LoadLights, Client
<1> HIDE DEF n
<1>4. Tuned(c, n) /\ (Sounds(c) => n.music \in {None, song})
    BY <1>2, <1>3 DEF Tuned
<1> QED BY <1>4 DEF n, m

\* A client that holds the song held will hold song, or none, once it has read
\* its queue q.
Follows(q, held, song) ==
    Latest(q, Load(song)) \/ (Missing(q, "LOAD") /\ held \in {None, song})

\* Reading a load does what the load says.
LEMMA FollowsRead ==
    ASSUME NEW q \in Seq(Packets), q # <<>>, NEW held, NEW n, NEW song, Follows(q, held, song),
           \/ Head(q).type # "LOAD" /\ n \in {None, held}
           \/ \E s : Head(q) = Load(s) /\ n \in {None, s}
    PROVE  Follows(Tail(q), n, song)
<1>1. \A s : Load(s).type = "LOAD" /\ Load(s).song = s
    BY DEF Load
<1>2. CASE Latest(q, Load(song))
    <2>1. Latest(Tail(q), Load(song)) \/ (Head(q) = Load(song) /\ Missing(Tail(q), "LOAD"))
        BY <1>1, <1>2, LatestRead
    <2>2. Head(q) = Load(song) => n \in {None, song}
        BY <1>1
    <2> QED BY <2>1, <2>2 DEF Follows
<1>3. CASE Missing(q, "LOAD") /\ held \in {None, song}
    <2>1. Missing(Tail(q), "LOAD") /\ Head(q).type # "LOAD"
        BY <1>3, MissingRead
    <2>2. n \in {None, song}
        BY <1>1, <1>3, <2>1
    <2> QED BY <2>1, <2>2 DEF Follows
<1> QED BY <1>2, <1>3 DEF Follows

\* Another packet leaves what is to be loaded; a load decides it.
LEMMA FollowsSent ==
    ASSUME NEW q \in Seq(Packets), NEW held, NEW p \in Packets
    PROVE  /\ p.type # "LOAD" => \A song : Follows(q, held, song) => Follows(Append(q, p), held, song)
           /\ \A song : p = Load(song) => Follows(Append(q, p), held, song)
<1>1. \A s : Load(s).type = "LOAD"
    BY DEF Load
<1>2. ASSUME p.type # "LOAD", NEW song, Follows(q, held, song) PROVE Follows(Append(q, p), held, song)
    <2>1. CASE Latest(q, Load(song))
        BY <1>1, <1>2, <2>1, LatestKept DEF Follows
    <2>2. CASE Missing(q, "LOAD") /\ held \in {None, song}
        BY <1>2, <2>2, MissingKept DEF Follows
    <2> QED BY <1>2, <2>1, <2>2 DEF Follows
<1>3. ASSUME NEW song, p = Load(song) PROVE Follows(Append(q, p), held, song)
    BY <1>3, LatestSent DEF Follows
<1> QED BY <1>2, <1>3

\* What a handler does to the song: only a load changes it to another one.
LEMMA ReadsSong ==
    ASSUME Inv, NEW c \in Clients, Tuned(c, cl[c]), ClientReads(c)
    PROVE  /\ conn' = conn /\ Tuned(c, cl'[c])
           /\ \/ toClient'[c] = toClient[c] /\ cl'[c].music \in {None, cl[c].music}
              \/ /\ toClient[c] # <<>> /\ toClient'[c] = Tail(toClient[c])
                 /\ \/ Head(toClient[c]).type # "LOAD" /\ cl'[c].music \in {None, cl[c].music}
                    \/ \E s : Head(toClient[c]) = Load(s) /\ (Sounds(c) => cl'[c].music \in {None, s})
<1>1. cl \in [Clients -> Client] /\ cl[c] \in Client /\ LinkType
    BY DEF Inv, ClientsGood
<1>2. ASSUME NEW packet, Receive(c, packet)
      PROVE  /\ conn' = conn
             /\ toClient[c] # <<>> /\ toClient'[c] = Tail(toClient[c]) /\ Head(toClient[c]) = packet
    BY <1>1, <1>2 DEF Receive, LinkType
<1>3. /\ Show(TRUE).type # "LOAD" /\ Show(FALSE).type # "LOAD" /\ Sync.type # "LOAD"
      /\ Play(TRUE).type # "LOAD" /\ Play(FALSE).type # "LOAD"
    BY DEF Show, Play, Sync
<1>4. CASE ClientShowOn(c)
    <2>1. cl'[c] = ShowOn(cl[c], c)
        BY <1>1, <1>4 DEF ClientShowOn
    <2>2. Tuned(c, ShowOn(cl[c], c)) /\ ShowOn(cl[c], c).music = cl[c].music
        BY <1>1, TunedHandlers
    <2>3. Tuned(c, cl'[c]) /\ cl'[c].music = cl[c].music
        BY <2>1, <2>2
    <2> QED BY <1>2, <1>3, <1>4, <2>3 DEF ClientShowOn
<1>5. CASE ClientShowOff(c)
    <2>1. cl'[c] = ShowOff(cl[c], c)
        BY <1>1, <1>5 DEF ClientShowOff
    <2>2. Tuned(c, ShowOff(cl[c], c)) /\ ShowOff(cl[c], c).music \in {None, cl[c].music}
        BY <1>1, TunedHandlers
    <2>3. Tuned(c, cl'[c]) /\ cl'[c].music \in {None, cl[c].music}
        BY <2>1, <2>2
    <2> QED BY <1>2, <1>3, <1>5, <2>3 DEF ClientShowOff
<1>6. CASE ClientLoad(c)
    <2>1. PICK song \in Songs \cup {None} :
              /\ Receive(c, Load(song))
              /\ cl'[c] = LoadLights(LoadMusic(cl[c], c, song), c, song)
        BY <1>1, <1>6 DEF ClientLoad
    <2>2. Tuned(c, cl'[c]) /\ (Sounds(c) => cl'[c].music \in {None, song})
        BY <1>1, <2>1, TunedLoad
    <2> QED BY <1>2, <2>1, <2>2
<1>7. CASE ClientPlayRefused(c) \/ ClientSync(c)
    <2>1. cl' = cl /\ \E packet : Receive(c, packet) /\ packet.type # "LOAD"
        BY <1>3, <1>7 DEF ClientPlayRefused, ClientSync
    <2> QED BY <1>2, <2>1
<1>8. CASE ClientPlayClock(c)
    <2> DEFINE to == IF cl[c].clock = "stopped" THEN "running" ELSE cl[c].clock
    <2>1. cl'[c] = [cl[c] EXCEPT !.clock = to, !.pc = "play"]
        BY <1>1, <1>8 DEF ClientPlayClock, Client
    <2> HIDE DEF to
    <2>2. Tuned(c, cl'[c]) /\ cl'[c].music = cl[c].music
        BY <1>1, <2>1 DEF Client, Tuned
    <2> QED BY <1>2, <1>3, <1>8, <2>2 DEF ClientPlayClock
<1>9. CASE ClientPlayMedia(c)
    <2>1. Tuned(c, cl'[c]) /\ cl'[c].music = cl[c].music /\ UNCHANGED link
        BY <1>1, <1>9, MediaCall, TunedHandlers
    <2> QED BY <2>1 DEF link
<1>10. CASE ClientStop(c)
    <2> DEFINE m == StopMedia(cl[c])
               l == ClearPlay(m)
    <2>1. cl'[c] = IF cl[c].clock = "stopped" THEN cl[c] ELSE [l EXCEPT !.clock = "stopped"]
        BY <1>1, <1>10 DEF ClientStop
    <2>2. m \in Client /\ Tuned(c, m) /\ m.music \in {None, cl[c].music}
        <3>1. m \in Client
            BY <1>1, NoneAssumption, HandlerTypes
        <3> QED BY <1>1, <3>1, TunedHandlers
    <2> HIDE DEF m
    <2>3. l \in Client /\ Tuned(c, l) /\ l.music = m.music
        BY <2>2, ClearPlayFields, TunedHandlers
    <2> HIDE DEF l
    <2>4. Tuned(c, cl'[c]) /\ cl'[c].music \in {None, cl[c].music}
        <3>1. CASE cl[c].clock = "stopped"
            BY <2>1, <3>1
        <3>2. CASE cl[c].clock # "stopped"
            BY <2>1, <2>2, <2>3, <3>2 DEF Client, Tuned
        <3> QED BY <3>1, <3>2
    <2> QED BY <1>2, <1>3, <1>10, <2>4 DEF ClientStop
<1> QED BY <1>4, <1>5, <1>6, <1>7, <1>8, <1>9, <1>10 DEF ClientReads

\* No other step of a client brings it a song, and only connecting touches its
\* queue.
LEMMA OthersSong ==
    ASSUME Inv, NEW c \in Clients, Tuned(c, cl[c]), ClientEnds(c) \/ ClientReturns(c, listening) \/ AudioDrains(c)
    PROVE  /\ Tuned(c, cl'[c]) /\ cl'[c].music \in {None, cl[c].music}
           /\ \/ conn' = conn /\ toClient' = toClient
              \/ conn'[c] = "backlog"
<1>1. cl \in [Clients -> Client] /\ cl[c] \in Client /\ LinkType
    BY DEF Inv, ClientsGood
<1>2. CASE ClientClockEnd(c)
    <2> DEFINE m == StopMedia(cl[c])
    <2>1. cl'[c] = [m EXCEPT !.clock = "ended", !.endPc = "clear"] /\ UNCHANGED link
        BY <1>1, <1>2 DEF ClientClockEnd
    <2>2. m \in Client
        BY <1>1, HandlerTypes
    <2>3. Tuned(c, m) /\ m.music \in {None, cl[c].music}
        BY <1>1, TunedHandlers
    <2> HIDE DEF m
    <2>4. Tuned(c, cl'[c]) /\ cl'[c].music = m.music
        BY <2>1, <2>2, <2>3 DEF Client, Tuned
    <2> QED BY <2>1, <2>3, <2>4 DEF link
<1>3. CASE ClientClockClear(c)
    <2> DEFINE l == ClearPlay(cl[c])
    <2>1. cl'[c] = [l EXCEPT !.endPc = "idle"] /\ UNCHANGED link
        BY <1>1, <1>3 DEF ClientClockClear
    <2>2. l \in Client
        BY <1>1, HandlerTypes
    <2>3. Tuned(c, l) /\ l.music = cl[c].music
        BY <1>1, TunedHandlers
    <2> HIDE DEF l
    <2>4. Tuned(c, cl'[c]) /\ cl'[c].music = l.music
        BY <2>1, <2>2, <2>3 DEF Client, Tuned
    <2> QED BY <2>1, <2>3, <2>4 DEF link
<1>4. CASE ClientConnect(c, listening) \/ ClientConnectFails(c, listening) \/ ClientConnectThrows(c)
    <2>1. cl'[c] = Forget(cl[c])
        BY <1>1, <1>4 DEF ClientConnect, ClientConnectFails, ClientConnectThrows
    <2>2. Tuned(c, cl'[c]) /\ cl'[c].music = cl[c].music
        BY <1>1, <2>1, TunedHandlers
    <2> QED BY <1>1, <1>4, <2>2 DEF ClientConnect, ClientConnectFails, ClientConnectThrows, LinkType, link
<1>5. CASE ClientNotices(c)
    BY <1>5 DEF ClientNotices
<1>6. CASE AudioDrains(c)
    <2>1. cl'[c] = [cl[c] EXCEPT !.stream = "open"] /\ UNCHANGED link /\ cl[c].stream = "running"
        BY <1>1, <1>6 DEF AudioDrains
    <2>2. Tuned(c, cl'[c]) /\ cl'[c].music = cl[c].music
        BY <1>1, <2>1 DEF Tuned, Client
    <2> QED BY <2>1, <2>2 DEF link
<1> QED BY <1>2, <1>3, <1>4, <1>5, <1>6 DEF ClientEnds, ClientReturns

\* An identified client that identify has told the song the server has loaded.
Informed(c) ==
    /\ conn[c] = "client" /\ framecount # 0
    /\ ~(idClient = c /\ idPc \in {"show", "load"})

\* What makes SameSong inductive.
Song(c) ==
    /\ Tuned(c, cl[c])
    /\ Informed(c) /\ Sounds(c) => Follows(toClient[c], cl[c].music, music)
Songed == \A c \in Clients : Song(c)

\* What another packet than a load leaves alone.
LEMMA SongSent ==
    ASSUME Inv, NEW c \in Clients, Song(c), conn' = conn, cl' = cl, music' = music, Informed(c)' => Informed(c),
           \/ toClient'[c] = toClient[c]
           \/ \E packet \in Packets : packet.type # "LOAD" /\ toClient'[c] = Append(toClient[c], packet)
    PROVE  Song(c)'
<1>1. toClient[c] \in Seq(Packets)
    BY DEF Inv, LinkType
<1>2. ASSUME Informed(c)', Sounds(c) PROVE Follows(toClient'[c], cl'[c].music, music')
    <2>1. Follows(toClient[c], cl[c].music, music)
        BY <1>2 DEF Song
    <2> QED BY <1>1, <2>1, FollowsSent
<1>3. Tuned(c, cl'[c])
    BY DEF Song
<1> QED BY <1>2, <1>3 DEF Song, Tuned, Sounds

\* load tells every identified client; the rest of what the caller does is no
\* load, or leaves no song loaded.
LEMMA CallerSong ==
    ASSUME Inv, NEW c \in Clients, Song(c), Caller, cl' = cl
    PROVE  Song(c)'
<1>1. (\A state \in BOOLEAN : Show(state).type # "LOAD" /\ Play(state).type # "LOAD")
    BY DEF Show, Play
<1>2. toClient[c] \in Seq(Packets) /\ Tuned(c, cl'[c])
    BY DEF Inv, LinkType, Song
<1>3. CASE Stop
    <2>1. ~Informed(c)'
        BY <1>3 DEF Stop, CloseAll, CloseOf, Informed
    <2> QED BY <1>2, <2>1 DEF Song, Tuned, Sounds
<1>4. ASSUME NEW song \in Songs, NEW frames \in 0..1, LoadSong(song, frames) PROVE Song(c)'
    <2>1. ASSUME Informed(c)' PROVE Follows(toClient'[c], cl'[c].music, music')
        <3>1. conn[c] = "client" /\ music' = song
            BY <1>4, <2>1 DEF Informed, LoadSong
        <3>2. toClient'[c] = Append(toClient[c], Load(song)) /\ Load(song) \in Packets
            BY <1>4, <3>1, SentAll, PacketTypes DEF LoadSong
        <3> QED BY <1>2, <3>1, <3>2, FollowsSent
    <2> QED BY <1>2, <2>1 DEF Song, Tuned, Sounds
<1>5. ASSUME NEW packet \in Packets, SendAll(packet)
      PROVE  toClient'[c] \in {toClient[c], Append(toClient[c], packet)}
    BY <1>5, SentAll
<1>6. CASE PlaySend \/ StopSend \/ \E state \in BOOLEAN : ShowSend(state)
    <2>1. conn' = conn /\ music' = music /\ (Informed(c)' => Informed(c))
        BY <1>6 DEF PlaySend, StopSend, ShowSend, server, identity, Informed
    <2>2. PICK packet \in Packets : packet.type # "LOAD" /\ SendAll(packet)
        BY <1>1, <1>6, PacketTypes DEF PlaySend, StopSend, ShowSend
    <2> QED BY <1>5, <2>1, <2>2, SongSent
<1>7. CASE Listen \/ ShowSet \/ PlayBegin \/ PlayRun \/ PlayStop \/ StopClear
    <2>1. conn' = conn /\ toClient' = toClient /\ music' = music /\ framecount' \in {0, framecount} /\ UNCHANGED identity
        BY <1>7 DEF Listen, ShowSet, PlayBegin, PlayRun, PlayStop, StopClear, StopClock, link
    <2>2. Informed(c)' => Informed(c)
        BY <2>1 DEF Informed, identity
    <2> QED BY <2>1, <2>2, SongSent
<1> QED BY <1>3, <1>4, <1>6, <1>7 DEF Caller

\* The clock thread loads nothing.
LEMMA ClockSong ==
    ASSUME Inv, NEW c \in Clients, Song(c), ClockThread, cl' = cl
    PROVE  Song(c)'
<1>1. conn' = conn /\ music' = music /\ framecount' \in {0, framecount} /\ UNCHANGED identity
    BY DEF ClockThread, ClockUpdate, ClockEnd, ClockClear, link, serverVars, server
<1>2. Informed(c)' => Informed(c)
    BY <1>1 DEF Informed, identity
<1>3. toClient' = toClient \/ \E packet \in Packets : packet.type # "LOAD" /\ SendAll(packet)
    <2>1. Sync.type # "LOAD" /\ Play(FALSE).type # "LOAD"
        BY DEF Sync, Play
    <2> QED BY <2>1, PacketTypes DEF ClockThread, ClockUpdate, ClockEnd, ClockClear, link
<1>4. \/ toClient'[c] = toClient[c]
      \/ \E packet \in Packets : packet.type # "LOAD" /\ toClient'[c] = Append(toClient[c], packet)
    BY <1>3, SentAll
<1> QED BY <1>1, <1>2, <1>4, SongSent

\* Identify repeats the last load to a client that comes.
LEMMA IdentifySong ==
    ASSUME Inv, OfItsKind, NoLoadRace, NEW c \in Clients, Song(c), ClientThread, cl' = cl
    PROVE  Song(c)'
<1>1. /\ LinkType /\ toClient[c] \in Seq(Packets) /\ Tuned(c, cl'[c])
      /\ idClient \in Clients /\ idPacket \in Packets \cup {None} /\ framecount \in 0..1
      /\ idPc \in {"idle", "show", "load", "play"}
    BY DEF Inv, LinkType, ServerInv, ServerType, Song
<1>2. ASSUME NEW d \in Clients, HandleConnect(d) \/ IdentRefuse(d) PROVE Song(c)'
    <2>1. toClient' = toClient /\ UNCHANGED <<server, identity>> /\ (conn'[c] = "client" => conn[c] = "client")
        BY <1>1, <1>2 DEF HandleConnect, IdentRefuse, LinkType, serverVars
    <2>2. Informed(c)' => Informed(c)
        BY <2>1 DEF Informed, server, identity
    <2>3. music' = music
        BY <2>1 DEF server
    <2> QED BY <1>1, <2>1, <2>2, <2>3 DEF Song, Tuned, Sounds
<1>3. ASSUME NEW d \in Clients, IdentBegin(d) PROVE Song(c)'
    <2>1. /\ toClient' = toClient /\ UNCHANGED <<music, framecount>>
          /\ idPc = "idle" /\ idPc' = "show" /\ idClient' = d
        BY <1>3 DEF IdentBegin, server
    <2>2. c # d => conn'[c] = conn[c]
        BY <1>1, <1>3 DEF IdentBegin, LinkType
    <2>3. Informed(c)' => Informed(c)
        BY <2>1, <2>2 DEF Informed
    <2> QED BY <1>1, <2>1, <2>3 DEF Song, Tuned, Sounds
<1>4. CASE IdentRead
    <2>1. /\ UNCHANGED <<conn, toClient, music, framecount, idClient>>
          /\ idPc' = idPc \/ (~Wanted[idPc] /\ idPc' = NextPacket[idPc])
        BY <1>4 DEF IdentRead, link, server
    <2>2. ASSUME idPc = "load", idPc' # idPc PROVE framecount = 0
        BY <2>1, <2>2 DEF Wanted
    <2>3. ASSUME idPc = "show", idPc' # idPc PROVE idPc' = "load"
        BY <2>1, <2>3 DEF NextPacket
    <2>4. Informed(c)' => Informed(c)
        BY <2>1, <2>2, <2>3 DEF Informed
    <2> QED BY <2>1, <2>4, SongSent
<1>5. CASE IdentSend
    <2>1. /\ UNCHANGED <<conn, music, framecount, idClient>> /\ idPacket \in Packets /\ idPacket # None
          /\ SendTo(idClient, idPacket) /\ idPc' = NextPacket[idPc] /\ idPc # "idle"
        BY <1>1, <1>5 DEF IdentSend, server, Inv, ServerInv
    <2>2. CASE c # idClient
        <3>1. toClient'[c] = toClient[c]
            BY <1>1, <2>1, <2>2, SentTo
        <3>2. Informed(c)' => Informed(c)
            BY <2>1, <2>2 DEF Informed
        <3> QED BY <2>1, <3>1, <3>2, SongSent
    <2>3. CASE c = idClient
        <3>1. toClient'[c] = toClient[c] \/ toClient'[c] = Append(toClient[c], idPacket)
            BY <1>1, <2>1, <2>3, SentTo
        <3>2. CASE idPc = "load"
            <4>1. ASSUME Informed(c)' PROVE Follows(toClient'[c], cl'[c].music, music')
                <5>1. toClient'[c] = Append(toClient[c], idPacket)
                    BY <1>1, <2>1, <2>3, <4>1, SentTo DEF Informed
                <5>2. idPacket = Load(music)
                    BY <1>1, <2>1, <3>2 DEF NoLoadRace
                <5> QED BY <1>1, <2>1, <5>1, <5>2, FollowsSent
            <4> QED BY <1>1, <4>1 DEF Song, Tuned, Sounds
        <3>3. CASE idPc \in {"show", "play"}
            <4>1. idPacket.type # "LOAD"
                BY <1>1, <2>1, <3>3 DEF OfItsKind, Show
            <4>2. idPc = "show" => idPc' = "load"
                BY <2>1 DEF NextPacket
            <4>3. Informed(c)' => Informed(c)
                BY <2>1, <3>3, <4>2 DEF Informed
            <4> QED BY <2>1, <3>1, <4>1, <4>3, SongSent
        <3> QED BY <1>1, <2>1, <3>2, <3>3
    <2> QED BY <2>2, <2>3
<1> QED BY <1>2, <1>3, <1>4, <1>5 DEF ClientThread

\* What a client does to its own song.
LEMMA ClientSong ==
    ASSUME Inv, NEW c \in Clients, Song(c), ClientSteps(c)
    PROVE  Song(c)'
<1>1. Tuned(c, cl[c]) /\ LinkType /\ toClient[c] \in Seq(Packets)
    BY DEF Song, Inv, LinkType
<1>2. UNCHANGED <<framecount, idClient, idPc, music>>
    BY ClientAlone DEF serverVars, server, identity
<1>3. ASSUME NEW n, Tuned(c, n), n = cl'[c] PROVE Tuned(c, cl[c])'
    BY <1>3 DEF Tuned, Sounds
<1>4. CASE ClientReads(c)
    <2>1. /\ conn' = conn /\ Tuned(c, cl'[c])
          /\ \/ toClient'[c] = toClient[c] /\ cl'[c].music \in {None, cl[c].music}
             \/ /\ toClient[c] # <<>> /\ toClient'[c] = Tail(toClient[c])
                /\ \/ Head(toClient[c]).type # "LOAD" /\ cl'[c].music \in {None, cl[c].music}
                   \/ \E s : Head(toClient[c]) = Load(s) /\ (Sounds(c) => cl'[c].music \in {None, s})
        BY <1>1, <1>4, ReadsSong
    <2>2. ASSUME Informed(c), Sounds(c) PROVE Follows(toClient'[c], cl'[c].music, music)
        <3>1. Follows(toClient[c], cl[c].music, music)
            BY <2>2 DEF Song
        <3>2. CASE toClient'[c] = toClient[c] /\ cl'[c].music \in {None, cl[c].music}
            BY <3>1, <3>2 DEF Follows
        <3>3. CASE ~(toClient'[c] = toClient[c] /\ cl'[c].music \in {None, cl[c].music})
            BY <1>1, <2>1, <2>2, <3>1, <3>3, FollowsRead
        <3> QED BY <3>2, <3>3
    <2>3. Informed(c)' => Informed(c)
        BY <1>2, <2>1 DEF Informed
    <2> QED BY <1>2, <1>3, <2>1, <2>2, <2>3 DEF Song, Sounds
<1>5. CASE ClientEnds(c) \/ ClientReturns(c, listening) \/ AudioDrains(c)
    <2>1. /\ Tuned(c, cl'[c]) /\ cl'[c].music \in {None, cl[c].music}
          /\ \/ conn' = conn /\ toClient' = toClient
             \/ conn'[c] = "backlog"
        BY <1>1, <1>5, OthersSong
    <2>2. ASSUME Informed(c)', Sounds(c) PROVE Follows(toClient'[c], cl'[c].music, music)
        <3>1. Informed(c) /\ toClient' = toClient
            BY <1>2, <2>1, <2>2 DEF Informed
        <3>2. Follows(toClient[c], cl[c].music, music)
            BY <2>2, <3>1 DEF Song
        <3> QED BY <2>1, <3>1, <3>2 DEF Follows
    <2> QED BY <1>2, <1>3, <2>1, <2>2 DEF Song, Sounds
<1> QED BY <1>4, <1>5 DEF ClientSteps, ClientStep

\* Every step keeps the songs.
LEMMA NextSong == Inv /\ OfItsKind /\ NoLoadRace /\ Songed /\ [Next]_vars => Songed'
<1> SUFFICES ASSUME Inv, OfItsKind, NoLoadRace, Songed, [Next]_vars, NEW c \in Clients PROVE Song(c)'
    BY DEF Songed
<1>1. Song(c) /\ LinkType
    BY DEF Songed, Inv
<1>2. CASE ServerStep
    <2>1. CASE AcceptFails
        <3>1. \/ conn'[c] = conn[c] /\ toClient'[c] = toClient[c]
              \/ conn'[c] = "none"
            BY <1>1, <2>1, Closed DEF AcceptFails, CloseAll
        <3>2. UNCHANGED <<framecount, music, idClient, idPc>> /\ cl' = cl
            BY <1>2, <2>1 DEF AcceptFails, identity, ServerStep
        <3> QED BY <1>1, <3>1, <3>2 DEF Song, Tuned, Sounds, Informed
    <2> QED BY <1>1, <1>2, <2>1, CallerSong, ClockSong, IdentifySong DEF ServerStep
<1>3. ASSUME UNCHANGED serverVars, cl'[c] = cl[c],
             \/ conn'[c] = conn[c] /\ toClient'[c] = toClient[c]
             \/ conn'[c] = "none"
      PROVE  Song(c)'
    <2>1. UNCHANGED <<framecount, idClient, idPc, music>>
        BY <1>3 DEF serverVars, server, identity
    <2> QED BY <1>1, <1>3, <2>1 DEF Song, Tuned, Sounds, Informed
<1>4. ASSUME NEW d \in Clients, ClientSteps(d) PROVE Song(c)'
    <2>1. CASE c = d
        BY <1>1, <1>4, <2>1, ClientSong
    <2>2. CASE c # d
        BY <1>3, <1>4, <2>2, ClientAlone
    <2> QED BY <2>1, <2>2
<1>5. ASSUME NEW d \in Clients, NetworkDrops(d) \/ LinkEnds(d) PROVE Song(c)'
    <2>1. UNCHANGED serverVars /\ cl'[c] = cl[c]
        BY <1>5 DEF NetworkDrops, LinkEnds
    <2>2. \/ conn'[c] = conn[c] /\ toClient'[c] = toClient[c]
          \/ conn'[c] = "none"
        BY <1>1, <1>5 DEF NetworkDrops, LinkEnds, Drop, ReadEnds, LinkType
    <2> QED BY <1>3, <2>1, <2>2
<1>6. CASE UNCHANGED vars
    BY <1>3, <1>6 DEF vars, link
<1> QED BY <1>2, <1>4, <1>5, <1>6 DEF Next

\* Whenever things settle, a client that plays a file while the server has a
\* song loaded plays the server's song, whatever came and went before: identify
\* repeats the last load to whoever comes back.  It takes only that no load of
\* the caller comes while identify has the load before it in hand
\* (showserver.cpp:200): the end of a song, play, stop and show may overlap
\* with identify and with each other at any step.
THEOREM SongsAgreeUnlessRaced == Spec /\ []NoLoadRace => []SameSong
<1>1. Init => Songed
    <2>1. ASSUME Init, NEW c \in Clients
          PROVE  cl[c].music = None /\ cl[c].stream = "closed" /\ conn[c] = "none"
        BY <2>1 DEF Init, LinkInit, ClientInit
    <2> QED BY <2>1 DEF Songed, Song, Tuned, Informed
<1>2. Inv /\ Songed => SameSong
    <2> SUFFICES ASSUME Songed, NEW c \in Clients, Quiet(c), framecount # 0, cl[c].stream = "running"
                 PROVE  cl[c].music \in {None, music}
        BY DEF SameSong
    <2>1. Sounds(c)
        BY DEF Songed, Song, Tuned
    <2>2. Informed(c)
        BY DEF Quiet, ServerIdle, Informed
    <2>3. Follows(<<>>, cl[c].music, music)
        BY <2>1, <2>2 DEF Quiet, Songed, Song
    <2> QED BY <2>3, EmptyQueue DEF Follows
<1>3. Inv /\ OfItsKind /\ NoLoadRace /\ Songed /\ [Next]_vars => Inv' /\ OfItsKind' /\ Songed'
    BY NextInv, NextKinds, NextSong
<1> QED BY InitInv, InitKinds, <1>1, <1>2, <1>3, PTL DEF Spec

\* In particular when the threads of the server take turns.
THEOREM SongsAgree == ASSUME Overlap = FALSE PROVE Spec => []SameSong
BY TurnsWithoutRace, SongsAgreeUnlessRaced, PTL
=============================================================================
