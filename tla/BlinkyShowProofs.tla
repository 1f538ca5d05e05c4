-------------------------- MODULE BlinkyShowProofs --------------------------
(***************************************************************************)
(* Theorems about BlinkyShow for every set of clients, songs and keys, and *)
(* every length of the queues.                                             *)
(***************************************************************************)
EXTENDS BlinkyShow, SequenceTheorems, TLAPS

-----------------------------------------------------------------------------
(* ShowLink *)

\* The packets that the server sends.
LEMMA PacketTypes ==
    /\ \A state \in BOOLEAN : Show(state) \in Packets /\ Play(state) \in Packets
    /\ \A song \in Songs \cup {None} : Load(song) \in Packets
    /\ Sync \in Packets
BY DEF Show, Play, Load, Sync, Packets

\* Sending keeps the queues.
LEMMA SendAllType ==
    ASSUME LinkType, NEW packet \in Packets, SendAll(packet)
    PROVE  toClient' \in [Clients -> Seq(Packets)]
BY DEF LinkType, SendAll

\* Sending to one client keeps them too.
LEMMA SendToType ==
    ASSUME LinkType, NEW c \in Clients, NEW packet \in Packets, SendTo(c, packet)
    PROVE  toClient' \in [Clients -> Seq(Packets)]
BY DEF LinkType, SendTo

\* So does closing, which cuts them.
LEMMA CloseType ==
    ASSUME LinkType, NEW ends, CloseOf(ends)
    PROVE  /\ toClient' \in [Clients -> Seq(Packets)]
           /\ conn' \in [Clients -> {"none", "backlog", "accepted", "client"}]
<1>1. PICK kept \in [Clients -> UNION {0 .. Len(toClient[c]) : c \in Clients}] :
          /\ \A c \in Clients : kept[c] <= Len(toClient[c])
          /\ toClient' = [c \in Clients |-> SubSeq(toClient[c], 1, kept[c])]
    BY DEF CloseOf
<1>2. ASSUME NEW c \in Clients PROVE SubSeq(toClient[c], 1, kept[c]) \in Seq(Packets)
    <2>1. toClient[c] \in Seq(Packets)
        BY DEF LinkType
    <2>2. kept[c] \in 0 .. Len(toClient[c])
        <3>1. PICK d \in Clients : kept[c] \in 0 .. Len(toClient[d])
            BY <1>1
        <3>2. toClient[d] \in Seq(Packets)
            BY DEF LinkType
        <3>3. Len(toClient[c]) \in Nat /\ Len(toClient[d]) \in Nat
            BY <2>1, <3>2, SMTT(30)
        <3> QED BY <1>1, <3>1, <3>3
    <2> QED BY <2>1, <2>2
<1>3. conn' \in [Clients -> {"none", "backlog", "accepted", "client"}]
    BY DEF CloseOf, LinkType
<1> QED BY <1>1, <1>2, <1>3

-----------------------------------------------------------------------------
(* The server *)

\* Its types, and that a packet of identify belongs to an identify in progress.
ServerInv == ServerType /\ (idPacket # None => idPc # "idle")

\* The caller's steps keep the types.
LEMMA CallerType == ServerInv /\ LinkType /\ Caller => ServerInv' /\ LinkType'
<1> SUFFICES ASSUME ServerInv, LinkType, Caller PROVE ServerInv' /\ LinkType'
    OBVIOUS
<1> USE DEF server, caller, identity, acceptor, link, ServerInv
<1>1. CASE Listen
    BY <1>1, KeyAssumption DEF Listen, ServerType, LinkType
<1>2. CASE Stop
    <2>1. /\ toClient' \in [Clients -> Seq(Packets)]
          /\ conn' \in [Clients -> {"none", "backlog", "accepted", "client"}]
        BY <1>2, CloseType DEF Stop, CloseAll
    <2> QED BY <1>2, <2>1 DEF Stop, ServerType, LinkType
<1>3. ASSUME NEW state \in BOOLEAN, ShowSend(state) PROVE ServerInv' /\ LinkType'
    <2>1. toClient' \in [Clients -> Seq(Packets)]
        BY <1>3, PacketTypes, SendAllType DEF ShowSend
    <2> QED BY <1>3, <2>1 DEF ShowSend, ServerType, LinkType
<1>4. CASE ShowSet
    BY <1>4 DEF ShowSet, StopClock, ServerType, LinkType
<1>5. ASSUME NEW song \in Songs, NEW frames \in 0..1, LoadSong(song, frames) PROVE ServerInv' /\ LinkType'
    <2>1. toClient' \in [Clients -> Seq(Packets)]
        BY <1>5, PacketTypes, SendAllType DEF LoadSong
    <2> QED BY <1>5, <2>1 DEF LoadSong, ServerType, LinkType
<1>6. CASE PlayBegin
    BY <1>6 DEF PlayBegin, ServerType, LinkType
<1>7. CASE PlayRun
    BY <1>7 DEF PlayRun, ServerType, LinkType
<1>8. CASE PlaySend
    <2>1. toClient' \in [Clients -> Seq(Packets)]
        BY <1>8, PacketTypes, SendAllType DEF PlaySend
    <2> QED BY <1>8, <2>1 DEF PlaySend, ServerType, LinkType
<1>9. CASE PlayStop
    BY <1>9 DEF PlayStop, StopClock, ServerType, LinkType
<1>10. CASE StopSend
    <2>1. toClient' \in [Clients -> Seq(Packets)]
        BY <1>10, PacketTypes, SendAllType DEF StopSend
    <2> QED BY <1>10, <2>1 DEF StopSend, ServerType, LinkType
<1>11. CASE StopClear
    <2>1. framecount' \in 0..1
        BY <1>11 DEF StopClear
    <2> QED BY <1>11, <2>1 DEF StopClear, ServerType, LinkType
<1> QED BY <1>1, <1>2, <1>3, <1>4, <1>5, <1>6, <1>7, <1>8, <1>9, <1>10, <1>11 DEF Caller

\* So do those of the clock thread.
LEMMA ClockThreadType == ServerInv /\ LinkType /\ ClockThread => ServerInv' /\ LinkType'
<1> SUFFICES ASSUME ServerInv, LinkType, ClockThread PROVE ServerInv' /\ LinkType'
    OBVIOUS
<1> USE DEF server, caller, identity, acceptor, link, ServerInv
<1>1. CASE ClockUpdate
    <2>1. toClient' \in [Clients -> Seq(Packets)]
        BY <1>1, PacketTypes, SendAllType DEF ClockUpdate
    <2> QED BY <1>1, <2>1 DEF ClockUpdate, serverVars, ServerType, LinkType
<1>2. CASE ClockEnd
    <2>1. toClient' \in [Clients -> Seq(Packets)]
        BY <1>2, PacketTypes, SendAllType DEF ClockEnd
    <2> QED BY <1>2, <2>1 DEF ClockEnd, ServerType, LinkType
<1>3. CASE ClockClear
    <2>1. framecount' \in 0..1
        BY <1>3 DEF ClockClear
    <2> QED BY <1>3, <2>1, ZenonT(40) DEF ClockClear, ServerType, LinkType
<1> QED BY <1>1, <1>2, <1>3 DEF ClockThread

\* And that of the acceptor that fails.
LEMMA AcceptFailsType == ServerInv /\ LinkType /\ AcceptFails => ServerInv' /\ LinkType'
<1> SUFFICES ASSUME ServerInv, LinkType, AcceptFails PROVE ServerInv' /\ LinkType'
    OBVIOUS
<1> USE DEF server, caller, identity, link, ServerInv
<1>1. /\ toClient' \in [Clients -> Seq(Packets)]
      /\ conn' \in [Clients -> {"none", "backlog", "accepted", "client"}]
    BY CloseType DEF AcceptFails, CloseAll
<1>2. listening' \in BOOLEAN /\ accepting' = FALSE
    BY DEF AcceptFails, ServerType
<1>3. UNCHANGED <<inShow, isPlaying, framecount, music, clock, callPc, showState, clockPc,
                  idPc, idClient, idPacket, server_key, sock, toServer>>
    BY DEF AcceptFails
<1>4. LinkType'
    BY <1>1, <1>3 DEF LinkType
<1>5. ServerInv'
    BY <1>2, <1>3 DEF ServerType
<1> QED BY <1>4, <1>5

\* And those of the acceptor and of the client thread.
LEMMA ClientThreadType == ServerInv /\ LinkType /\ ClientThread => ServerInv' /\ LinkType'
<1> SUFFICES ASSUME ServerInv, LinkType, ClientThread PROVE ServerInv' /\ LinkType'
    OBVIOUS
<1> USE DEF server, caller, identity, acceptor, link, ServerInv
<1>1. ASSUME NEW c \in Clients, HandleConnect(c) PROVE ServerInv' /\ LinkType'
    BY <1>1 DEF HandleConnect, serverVars, ServerType, LinkType
<1>2. ASSUME NEW c \in Clients, IdentRefuse(c) PROVE ServerInv' /\ LinkType'
    BY <1>2 DEF IdentRefuse, serverVars, ServerType, LinkType
<1>3. ASSUME NEW c \in Clients, IdentBegin(c) PROVE ServerInv' /\ LinkType'
    <2>1. Tail(toServer[c]) \in Seq(Keys)
        BY <1>3 DEF IdentBegin, LinkType
    <2> QED BY <1>3, <2>1 DEF IdentBegin, ServerType, LinkType
<1>4. CASE IdentRead
    <2>1. idPc \in {"show", "load", "play"}
        BY <1>4 DEF IdentRead, ServerType
    <2>2. Told["show"] \in Packets /\ Told["load"] \in Packets /\ Told["play"] \in Packets
        BY PacketTypes DEF Told, ServerType
    <2>3. Told[idPc] \in Packets
        BY <2>1, <2>2
    <2>4. NextPacket[idPc] \in {"idle", "load", "play"}
        BY <2>1 DEF NextPacket
    <2> QED BY <1>4, <2>1, <2>3, <2>4 DEF IdentRead, ServerType, LinkType
<1>5. CASE IdentSend
    <2>1. idPacket \in Packets /\ idClient \in Clients /\ idPc \in {"show", "load", "play"}
        BY <1>5 DEF IdentSend, ServerType
    <2>2. toClient' \in [Clients -> Seq(Packets)]
        BY <1>5, <2>1, SendToType DEF IdentSend
    <2>3. NextPacket[idPc] \in {"idle", "load", "play"}
        BY <2>1 DEF NextPacket
    <2> QED BY <1>5, <2>2, <2>3 DEF IdentSend, ServerType, LinkType
<1> QED BY <1>1, <1>2, <1>3, <1>4, <1>5 DEF ClientThread

-----------------------------------------------------------------------------
(* The clients *)

\* What the calls of a handler make of a client is a client.
LEMMA HandlerTypes ==
    ASSUME NEW me \in Client, NEW c \in Clients, NEW song \in Songs \cup {None}
    PROVE  /\ Forget(me) \in Client
           /\ LoadMusic(me, c, song) \in Client
           /\ LoadLights(me, c, song) \in Client
           /\ PlayAudio(me) \in Client
           /\ PlayLight(me) \in Client
           /\ SetPlaying(me) \in Client
           /\ StopMedia(me) \in Client
           /\ ClearPlay(me) \in Client
<1>1. Forget(me) \in Client
    BY DEF Forget, Client
<1>2. LoadMusic(me, c, song) \in Client
    <2>1. (song \in HasMusic[c]) \in BOOLEAN
        OBVIOUS
    <2>2. song \in HasMusic[c] => song \in Songs
        BY ConfigAssumption
    <2> DEFINE found == song \in HasMusic[c]
               held == IF found THEN song ELSE None
               file == me.mapped \/ found
               to == IF me.stream = "running" THEN "open" ELSE me.stream
    <2>3. LoadMusic(me, c, song) = IF ~me.showAudio THEN me
             ELSE [me EXCEPT !.stream = to, !.music = held, !.mapped = file, !.useAudio = found]
        BY DEF LoadMusic, Client
    <2>4. held \in Songs \cup {None} /\ file \in BOOLEAN /\ to \in {"closed", "open", "running"}
        BY <2>1, <2>2 DEF Client
    <2>5. found \in BOOLEAN
        BY <2>1
    <2> HIDE DEF held, file, to, found
    <2>6. [me EXCEPT !.stream = to, !.music = held, !.mapped = file, !.useAudio = found] \in Client
        BY <2>4, <2>5 DEF Client
    <2> QED BY <2>3, <2>6
<1>3. LoadLights(me, c, song) \in Client
    <2> DEFINE unnamed == song = None \/ song \in Unlit
               found == ~unnamed /\ song \in HasLights[c]
               held == IF found THEN song ELSE IF unnamed THEN me.lights ELSE None
    <2>1. LoadLights(me, c, song) = IF ~me.showLight THEN me
             ELSE [me EXCEPT !.lights = held, !.useLight = found]
        BY DEF LoadLights, Client
    <2>2. found \in BOOLEAN /\ held \in Songs \cup {None}
        BY ConfigAssumption DEF Client
    <2> HIDE DEF held, found
    <2> QED BY <2>1, <2>2, ZenonT(40) DEF Client
<1>4. PlayAudio(me) \in Client /\ PlayLight(me) \in Client /\ SetPlaying(me) \in Client
    <2> DEFINE audio == me.useAudio /\ CanPlay(me)
               light == me.useLight /\ CanPlay(me)
               toAudio == IF audio THEN "running" ELSE me.stream
               toLight == IF light THEN "running" ELSE me.stream
    <2>1. /\ PlayAudio(me) = [me EXCEPT !.stream = toAudio, !.useAudio = audio, !.pc = "light"]
          /\ PlayLight(me) = [me EXCEPT !.stream = toLight, !.useLight = light, !.pc = "set"]
        BY DEF PlayAudio, PlayLight, Client
    <2>2. /\ audio \in BOOLEAN /\ light \in BOOLEAN
          /\ {toAudio, toLight} \subseteq {"closed", "open", "running"}
        BY DEF Client, CanPlay
    <2> HIDE DEF audio, light, toAudio, toLight
    <2>3. /\ [me EXCEPT !.stream = toAudio, !.useAudio = audio, !.pc = "light"] \in Client
          /\ [me EXCEPT !.stream = toLight, !.useLight = light, !.pc = "set"] \in Client
        BY <2>2 DEF Client
    <2>4. SetPlaying(me) \in Client
        BY DEF SetPlaying, Client
    <2> QED BY <2>1, <2>3, <2>4
<1>5. StopMedia(me) \in Client
    <2> DEFINE to == IF me.useAudio /\ me.stream = "running" THEN "open" ELSE me.stream
               song1 == IF me.useAudio /\ me.stream = "running" THEN None ELSE me.music
               song2 == IF me.useLight THEN None ELSE me.lights
    <2>1. StopMedia(me) = [me EXCEPT !.stream = to, !.music = song1, !.lights = song2]
        BY DEF StopMedia, Client
    <2>2. to \in {"closed", "open", "running"} /\ song1 \in Songs \cup {None} /\ song2 \in Songs \cup {None}
        BY DEF Client
    <2> HIDE DEF to, song1, song2
    <2> QED BY <2>1, <2>2 DEF Client
<1>6. ClearPlay(me) \in Client
    BY DEF ClearPlay, Client
<1> QED BY <1>1, <1>2, <1>3, <1>4, <1>5, <1>6


\* Whoever has the lights of a song has its music, and a client does one thing
\* at a time.
Tidy == ClientOverlap = FALSE /\ \A c \in Clients : HasLights[c] \subseteq HasMusic[c]

\* What makes AudioOnlyInShow inductive.  Only a client with sound has a stream;
\* what it plays, lights included, it plays with sound, so that clockStop will
\* stop the stream it has started, but for a call of clientPlay whose audio has
\* not played and whose lights will not; and that handler is in a show.
Sound(c, me) ==
    /\ c \notin UseAudio \cap SoundReady => me.stream = "closed"
    /\ c \in UseAudio \cap SoundReady =>
        /\ me.useLight => me.showLight /\ (me.useAudio \/ (me.pc = "light" /\ ~CanPlay(me)))
        /\ me.showLight => me.showAudio
        /\ me.stream # "closed" => me.showAudio
    /\ me.stream = "running" => me.inShow /\ me.useAudio /\ me.mapped /\ (me.isPlaying \/ me.pc # "idle")
    /\ me.pc # "idle" => me.inShow /\ me.endPc = "idle"
    /\ me.endPc = "clear" => me.stream # "running"

\* What holds of the record of a client.
Good(c, me) == me \in Client /\ (Tidy => Sound(c, me))

\* Where threads take turns, no other handler of the client is running.
Free(me) == ClientOverlap \/ (me.pc = "idle" /\ me.endPc = "idle")

\* run forgets the show of a client that is not playing.
LEMMA ForgetGood ==
    ASSUME NEW c \in Clients, NEW me, Good(c, me), ~me.isPlaying, Free(me)
    PROVE  Good(c, Forget(me))
<1>1. me \in Client
    BY DEF Good
<1>2. Forget(me) \in Client
    BY <1>1, HandlerTypes
<1> DEFINE n == Forget(me)
<1>3. /\ n.stream = me.stream /\ n.useAudio = me.useAudio /\ n.useLight = me.useLight
      /\ n.showAudio = me.showAudio /\ n.showLight = me.showLight /\ n.pc = me.pc /\ n.endPc = me.endPc
    BY <1>1 DEF Forget, Client
<1> HIDE DEF n
<1>4. ASSUME Tidy, Sound(c, me) PROVE Sound(c, n)
    BY <1>3, <1>4 DEF Sound, Tidy, Free
<1> QED BY <1>2, <1>4 DEF Good, n

\* What clientShow(true) sets has its type.
LEMMA ShownClient ==
    ASSUME NEW me \in Client, NEW audio \in BOOLEAN, NEW used \in BOOLEAN, NEW light \in BOOLEAN,
           NEW to \in {"closed", "open", "running"}
    PROVE  [me EXCEPT !.inShow = TRUE, !.showAudio = audio, !.useAudio = used,
                      !.showLight = light, !.useLight = light, !.stream = to] \in Client
BY DEF Client

\* clientShow(true)
LEMMA ShowOnGood ==
    ASSUME NEW c \in Clients, NEW me, Good(c, me), Free(me)
    PROVE  Good(c, ShowOn(me, c))
<1> DEFINE audio == c \in UseAudio \cap SoundReady
           used == c \in UseAudio
           light == c \in UseLights
           to == IF audio THEN "open" ELSE me.stream
           n == [me EXCEPT !.inShow = TRUE, !.showAudio = audio, !.useAudio = used,
                           !.showLight = light, !.useLight = light, !.stream = to]
<1>1. me \in Client
    BY DEF Good
<1>2. n = ShowOn(me, c)
    BY <1>1 DEF ShowOn, Client
<1>3. /\ to \in {"closed", "open", "running"} /\ used \in BOOLEAN /\ audio \in BOOLEAN /\ light \in BOOLEAN
      /\ to = (IF audio THEN "open" ELSE me.stream)
      /\ used = (c \in UseAudio) /\ audio = (c \in UseAudio \cap SoundReady)
    BY <1>1 DEF Client
<1> HIDE DEF to, used, audio, light
<1>4. n \in Client
    BY <1>1, <1>3, ShownClient, ZenonT(40)
<1>5. /\ n.stream = to /\ n.useAudio = used /\ n.useLight = light /\ n.inShow = TRUE
      /\ n.showAudio = audio /\ n.showLight = light /\ n.pc = me.pc /\ n.endPc = me.endPc
      /\ n.isPlaying = me.isPlaying /\ n.mapped = me.mapped
    BY <1>1 DEF Client
<1> HIDE DEF n
<1>6. ASSUME Tidy, Sound(c, me) PROVE Sound(c, n)
    BY <1>3, <1>5, <1>6 DEF Sound, Tidy, Free
<1> QED BY <1>2, <1>4, <1>6 DEF Good

\* clientShow(false)
LEMMA ShowOffGood ==
    ASSUME NEW c \in Clients, NEW me, Good(c, me), Free(me)
    PROVE  Good(c, ShowOff(me, c))
<1> DEFINE audio == c \in UseAudio
           light == c \in UseLights
           to == IF me.showAudio THEN "closed" ELSE me.stream
           song == IF me.showAudio THEN None ELSE me.music
           n == [me EXCEPT !.inShow = FALSE, !.stream = to, !.music = song,
                           !.showAudio = audio, !.useAudio = audio,
                           !.showLight = light, !.useLight = light]
<1>1. me \in Client
    BY DEF Good
<1>2. /\ n = ShowOff(me, c)
      /\ to = (IF me.showAudio THEN "closed" ELSE me.stream)
      /\ audio = (c \in UseAudio)
    BY <1>1 DEF ShowOff, Client
<1>3. /\ to \in {"closed", "open", "running"} /\ song \in Songs \cup {None}
      /\ audio \in BOOLEAN /\ light \in BOOLEAN
    BY <1>1 DEF Client
<1> HIDE DEF to, song, audio, light
<1>4. n \in Client
    BY <1>1, <1>3 DEF Client
<1>5. /\ n.stream = to /\ n.useAudio = audio /\ n.useLight = light
      /\ n.showAudio = audio /\ n.showLight = light /\ n.pc = me.pc /\ n.endPc = me.endPc
    BY <1>1 DEF Client
<1> HIDE DEF n
<1>6. ASSUME Tidy, Sound(c, me) PROVE Sound(c, n)
    BY <1>1, <1>2, <1>3, <1>5, <1>6 DEF Sound, Tidy, Free, Client
<1> QED BY <1>2, <1>4, <1>6 DEF Good

\* clientLoad
LEMMA LoadGood ==
    ASSUME NEW c \in Clients, NEW me, Good(c, me), Free(me), NEW song \in Songs \cup {None}
    PROVE  Good(c, LoadLights(LoadMusic(me, c, song), c, song))
<1> DEFINE m == LoadMusic(me, c, song)
           n == LoadLights(m, c, song)
           hasSound == song \in HasMusic[c]
           hasLight == song # None /\ song \notin Unlit /\ song \in HasLights[c]
<1>1. me \in Client /\ m \in Client
    BY HandlerTypes DEF Good
<1>2. n \in Client
    BY <1>1, HandlerTypes
<1>3. /\ m.showAudio = me.showAudio /\ m.showLight = me.showLight /\ m.useLight = me.useLight
      /\ m.pc = me.pc /\ m.endPc = me.endPc
    BY <1>1 DEF LoadMusic, Client
<1>4. /\ ~me.showAudio => m = me
      /\ me.showAudio => m.useAudio = hasSound /\ m.stream # "running" /\ (m.stream = "closed" <=> me.stream = "closed")
    BY <1>1 DEF LoadMusic, Client
<1> HIDE DEF m
<1>5. /\ n.showAudio = m.showAudio /\ n.showLight = m.showLight /\ n.useAudio = m.useAudio
      /\ n.pc = m.pc /\ n.endPc = m.endPc /\ n.stream = m.stream
      /\ n.inShow = m.inShow /\ n.isPlaying = m.isPlaying /\ n.mapped = m.mapped
    BY <1>1 DEF LoadLights, Client
<1>6. IF ~m.showLight THEN n = m ELSE n.useLight = hasLight
    BY <1>1 DEF LoadLights, Client
<1>7. Tidy /\ hasLight => hasSound
    BY DEF Tidy
<1> HIDE DEF n, hasSound, hasLight
<1>8. ASSUME Tidy, Sound(c, me) PROVE Sound(c, n)
    BY <1>3, <1>4, <1>5, <1>6, <1>7, <1>8 DEF Sound, Tidy, Free
<1> QED BY <1>2, <1>8 DEF Good, n, m

\* The first step of clientPlay(true), in a show
LEMMA PlayClockGood ==
    ASSUME NEW c \in Clients, NEW me, Good(c, me), Free(me), me.inShow
    PROVE  Good(c, [me EXCEPT !.clock = IF @ = "stopped" THEN "running" ELSE @, !.pc = "play"])
<1> DEFINE to == IF me.clock = "stopped" THEN "running" ELSE me.clock
           n == [me EXCEPT !.clock = to, !.pc = "play"]
<1>1. me \in Client
    BY DEF Good
<1>2. n = [me EXCEPT !.clock = IF @ = "stopped" THEN "running" ELSE @, !.pc = "play"]
    BY <1>1 DEF Client
<1>3. to \in {"stopped", "running", "ended"}
    BY <1>1 DEF Client
<1> HIDE DEF to
<1>4. n \in Client
    BY <1>1, <1>3 DEF Client
<1>5. /\ n.stream = me.stream /\ n.useAudio = me.useAudio /\ n.useLight = me.useLight
      /\ n.showAudio = me.showAudio /\ n.showLight = me.showLight /\ n.endPc = me.endPc
      /\ n.inShow = me.inShow /\ n.isPlaying = me.isPlaying /\ n.mapped = me.mapped
    BY <1>1 DEF Client
<1> HIDE DEF n
<1>6. ASSUME Tidy, Sound(c, me) PROVE Sound(c, n)
    BY <1>5, <1>6 DEF Sound, Tidy, Free
<1> QED BY <1>2, <1>4, <1>6 DEF Good

\* The call for the audio: the stream starts only in a show.
LEMMA PlayAudioGood ==
    ASSUME NEW c \in Clients, NEW me, Good(c, me), me.pc = "play"
    PROVE  Good(c, PlayAudio(me))
<1> DEFINE n == PlayAudio(me)
<1>1. me \in Client /\ n \in Client
    BY HandlerTypes DEF Good
<1>2. /\ n.showAudio = me.showAudio /\ n.showLight = me.showLight /\ n.endPc = me.endPc
      /\ n.inShow = me.inShow /\ n.mapped = me.mapped /\ n.pc = "light" /\ n.useLight = me.useLight
    BY <1>1 DEF PlayAudio, Client
<1>3. /\ n.stream = IF me.useAudio /\ CanPlay(me) THEN "running" ELSE me.stream
      /\ n.useAudio = (me.useAudio /\ CanPlay(me))
    BY <1>1 DEF PlayAudio, Client
<1> HIDE DEF n
<1>4. ASSUME Tidy, Sound(c, me) PROVE Sound(c, n)
    BY <1>2, <1>3, <1>4 DEF Sound, CanPlay
<1> QED BY <1>1, <1>4 DEF Good, n

\* The call for the lights starts no stream that the audio did not.
LEMMA PlayLightGood ==
    ASSUME NEW c \in Clients, NEW me, Good(c, me), me.pc = "light"
    PROVE  Good(c, PlayLight(me))
<1> DEFINE n == PlayLight(me)
<1>1. me \in Client /\ n \in Client
    BY HandlerTypes DEF Good
<1>2. /\ n.showAudio = me.showAudio /\ n.showLight = me.showLight /\ n.endPc = me.endPc
      /\ n.inShow = me.inShow /\ n.mapped = me.mapped /\ n.pc = "set" /\ n.useAudio = me.useAudio
    BY <1>1 DEF PlayLight, Client
<1>3. /\ n.stream = IF me.useLight /\ CanPlay(me) THEN "running" ELSE me.stream
      /\ n.useLight = (me.useLight /\ CanPlay(me))
    BY <1>1 DEF PlayLight, Client
<1> HIDE DEF n
<1>4. ASSUME Tidy, Sound(c, me) PROVE Sound(c, n)
    BY <1>2, <1>3, <1>4 DEF Sound, CanPlay
<1> QED BY <1>1, <1>4 DEF Good, n

\* isPlaying is set for a stream that runs already.
LEMMA SetPlayingGood ==
    ASSUME NEW c \in Clients, NEW me, Good(c, me), me.pc = "set"
    PROVE  Good(c, SetPlaying(me))
<1> DEFINE n == SetPlaying(me)
<1>1. me \in Client /\ n \in Client
    BY HandlerTypes DEF Good
<1>2. /\ n.showAudio = me.showAudio /\ n.showLight = me.showLight /\ n.endPc = me.endPc
      /\ n.inShow = me.inShow /\ n.mapped = me.mapped /\ n.pc = "idle" /\ n.isPlaying = TRUE
      /\ n.stream = me.stream /\ n.useAudio = me.useAudio /\ n.useLight = me.useLight
    BY <1>1 DEF SetPlaying, Client
<1> HIDE DEF n
<1>3. ASSUME Tidy, Sound(c, me) PROVE Sound(c, n)
    BY <1>2, <1>3 DEF Sound
<1> QED BY <1>1, <1>3 DEF Good, n

\* The media part of clockStop stops what plays.
LEMMA StopMediaFields ==
    ASSUME NEW c \in Clients, NEW me, Good(c, me)
    PROVE  LET n == StopMedia(me) IN
           /\ n \in Client
           /\ n.showAudio = me.showAudio /\ n.showLight = me.showLight /\ n.pc = me.pc /\ n.endPc = me.endPc
           /\ n.inShow = me.inShow /\ n.mapped = me.mapped /\ n.isPlaying = me.isPlaying
           /\ n.useAudio = me.useAudio /\ n.useLight = me.useLight
           /\ n.stream = IF me.useAudio /\ me.stream = "running" THEN "open" ELSE me.stream
<1>1. me \in Client
    BY DEF Good
<1> DEFINE n == StopMedia(me)
<1>2. n \in Client
    BY <1>1, HandlerTypes
<1>3. /\ n.showAudio = me.showAudio /\ n.showLight = me.showLight /\ n.pc = me.pc /\ n.endPc = me.endPc
      /\ n.inShow = me.inShow /\ n.mapped = me.mapped /\ n.isPlaying = me.isPlaying
    BY <1>1 DEF StopMedia, Client
<1>4. /\ n.useAudio = me.useAudio /\ n.useLight = me.useLight
      /\ n.stream = IF me.useAudio /\ me.stream = "running" THEN "open" ELSE me.stream
    BY <1>1 DEF StopMedia, Client
<1> QED BY <1>2, <1>3, <1>4

\* The rest of clockStop.
LEMMA ClearPlayFields ==
    ASSUME NEW me \in Client
    PROVE  LET n == ClearPlay(me) IN
           /\ n \in Client
           /\ n.showAudio = me.showAudio /\ n.showLight = me.showLight /\ n.pc = me.pc /\ n.endPc = me.endPc
           /\ n.stream = me.stream /\ n.mapped = me.mapped /\ n.inShow = me.inShow
           /\ n.useAudio = me.showAudio /\ n.useLight = me.showLight
<1> DEFINE n == ClearPlay(me)
<1>1. n \in Client
    BY DEF ClearPlay, Client
<1>2. /\ n.showAudio = me.showAudio /\ n.showLight = me.showLight /\ n.pc = me.pc /\ n.endPc = me.endPc
      /\ n.stream = me.stream /\ n.mapped = me.mapped /\ n.inShow = me.inShow
    BY DEF ClearPlay, Client
<1>3. n.useAudio = me.showAudio /\ n.useLight = me.showLight
    BY DEF ClearPlay, Client
<1> QED BY <1>1, <1>2, <1>3

\* clientPlay(false) with a clock in use
LEMMA StopGood ==
    ASSUME NEW c \in Clients, NEW me, Good(c, me), Free(me)
    PROVE  Good(c, [ClearPlay(StopMedia(me)) EXCEPT !.clock = "stopped"])
<1> DEFINE m == StopMedia(me)
           l == ClearPlay(m)
           n == [l EXCEPT !.clock = "stopped"]
<1>1. /\ m \in Client
      /\ m.showAudio = me.showAudio /\ m.showLight = me.showLight /\ m.pc = me.pc /\ m.endPc = me.endPc
      /\ m.stream = IF me.useAudio /\ me.stream = "running" THEN "open" ELSE me.stream
    BY StopMediaFields
<1> HIDE DEF m
<1>2. /\ l \in Client
      /\ l.showAudio = m.showAudio /\ l.showLight = m.showLight /\ l.pc = m.pc /\ l.endPc = m.endPc
      /\ l.stream = m.stream /\ l.useAudio = m.showAudio /\ l.useLight = m.showLight
    BY <1>1, ClearPlayFields
<1> HIDE DEF l
<1>3. n \in Client /\ n.showAudio = l.showAudio /\ n.showLight = l.showLight /\ n.pc = l.pc
    BY <1>2 DEF Client
<1>4. n.stream = l.stream /\ n.useAudio = l.useAudio /\ n.useLight = l.useLight /\ n.endPc = l.endPc
    BY <1>2 DEF Client
<1> HIDE DEF n
<1>5. ASSUME Tidy, Sound(c, me) PROVE Sound(c, n)
    BY <1>1, <1>2, <1>3, <1>4, <1>5 DEF Sound, Tidy, Free
<1> QED BY <1>3, <1>5 DEF Good, n, l, m

\* The tick that ends the song
LEMMA ClockEndGood ==
    ASSUME NEW c \in Clients, NEW me, Good(c, me), Free(me)
    PROVE  Good(c, [StopMedia(me) EXCEPT !.clock = "ended", !.endPc = "clear"])
<1> DEFINE m == StopMedia(me)
           n == [m EXCEPT !.clock = "ended", !.endPc = "clear"]
<1>1. /\ m \in Client
      /\ m.showAudio = me.showAudio /\ m.showLight = me.showLight /\ m.pc = me.pc
      /\ m.inShow = me.inShow /\ m.mapped = me.mapped /\ m.isPlaying = me.isPlaying
      /\ m.useAudio = me.useAudio /\ m.useLight = me.useLight
      /\ m.stream = IF me.useAudio /\ me.stream = "running" THEN "open" ELSE me.stream
    BY StopMediaFields
<1> HIDE DEF m
<1>2. n \in Client /\ n.showAudio = m.showAudio /\ n.showLight = m.showLight /\ n.pc = m.pc
    BY <1>1 DEF Client
<1>3. n.stream = m.stream /\ n.useAudio = m.useAudio /\ n.useLight = m.useLight /\ n.endPc = "clear"
    BY <1>1 DEF Client
<1> HIDE DEF n
<1>4. ASSUME Tidy, Sound(c, me) PROVE Sound(c, n)
    BY <1>1, <1>2, <1>3, <1>4 DEF Sound, Tidy, Free
<1> QED BY <1>2, <1>4 DEF Good, n, m

\* clockStop: what it sets once the stream is stopped
LEMMA ClockClearGood ==
    ASSUME NEW c \in Clients, NEW me, Good(c, me), me.endPc = "clear"
    PROVE  Good(c, [ClearPlay(me) EXCEPT !.endPc = "idle"])
<1> DEFINE l == ClearPlay(me)
           n == [l EXCEPT !.endPc = "idle"]
<1>1. /\ l \in Client
      /\ l.showAudio = me.showAudio /\ l.showLight = me.showLight /\ l.pc = me.pc
      /\ l.stream = me.stream /\ l.useAudio = me.showAudio /\ l.useLight = me.showLight
    BY ClearPlayFields DEF Good
<1> HIDE DEF l
<1>2. n \in Client /\ n.showAudio = l.showAudio /\ n.showLight = l.showLight /\ n.pc = l.pc
    BY <1>1 DEF Client
<1>3. n.stream = l.stream /\ n.useAudio = l.useAudio /\ n.useLight = l.useLight /\ n.endPc = "idle"
    BY <1>1 DEF Client
<1> HIDE DEF n
<1>4. ASSUME Tidy, Sound(c, me) PROVE Sound(c, n)
    BY <1>1, <1>2, <1>3, <1>4 DEF Sound
<1> QED BY <1>2, <1>4 DEF Good, n, l

\* The stream comes to the end of its file.
LEMMA DrainGood ==
    ASSUME NEW c \in Clients, NEW me, Good(c, me), me.stream = "running"
    PROVE  Good(c, [me EXCEPT !.stream = "open"])
<1> DEFINE n == [me EXCEPT !.stream = "open"]
<1>1. me \in Client
    BY DEF Good
<1>2. n \in Client /\ n.stream = "open" /\ n.pc = me.pc /\ n.endPc = me.endPc /\ n.inShow = me.inShow
    BY <1>1 DEF Client
<1>3. /\ n.useAudio = me.useAudio /\ n.useLight = me.useLight
      /\ n.showAudio = me.showAudio /\ n.showLight = me.showLight
    BY <1>1 DEF Client
<1> HIDE DEF n
<1>4. ASSUME Tidy, Sound(c, me) PROVE Sound(c, n)
    BY <1>2, <1>3, <1>4 DEF Sound
<1> QED BY <1>2, <1>4 DEF Good, n

-----------------------------------------------------------------------------
(* The steps of a client *)

ClientsGood == cl \in [Clients -> Client] /\ \A c \in Clients : Good(c, cl[c])

\* One client changes.
LEMMA OneClient ==
    ASSUME ClientsGood, NEW c \in Clients, NEW next, Good(c, next), cl' = [cl EXCEPT ![c] = next]
    PROVE  ClientsGood'
<1>1. next \in Client
    BY DEF Good
<1>2. ASSUME NEW d \in Clients PROVE cl'[d] = IF d = c THEN next ELSE cl[d]
    BY DEF ClientsGood
<1>3. cl' \in [Clients -> Client]
    BY <1>1 DEF ClientsGood
<1> QED BY <1>2, <1>3 DEF ClientsGood

\* A packet is taken from the queue.
LEMMA ReceiveType ==
    ASSUME LinkType, NEW c \in Clients, NEW packet, Receive(c, packet)
    PROVE  LinkType'
<1>1. Tail(toClient[c]) \in Seq(Packets)
    BY DEF Receive, LinkType
<1> QED BY <1>1 DEF Receive, LinkType

\* The packet handlers.
LEMMA ReadsGood ==
    ASSUME ClientsGood, LinkType, NEW c \in Clients, ClientReads(c)
    PROVE  ClientsGood' /\ LinkType'
<1>1. cl \in [Clients -> Client] /\ Good(c, cl[c]) /\ (Idle(c) <=> Free(cl[c]))
    BY DEF ClientsGood, Idle, Free
<1>2. CASE ClientShowOn(c)
    <2>1. Receive(c, Show(TRUE)) /\ cl' = [cl EXCEPT ![c] = ShowOn(cl[c], c)]
        BY <1>1, <1>2 DEF ClientShowOn
    <2>2. Good(c, ShowOn(cl[c], c))
        BY <1>1, <2>1, ShowOnGood DEF Receive
    <2> QED BY <2>1, <2>2, OneClient, ReceiveType
<1>3. CASE ClientShowOff(c)
    <2>1. Receive(c, Show(FALSE)) /\ cl' = [cl EXCEPT ![c] = ShowOff(cl[c], c)]
        BY <1>1, <1>3 DEF ClientShowOff
    <2>2. Good(c, ShowOff(cl[c], c))
        BY <1>1, <2>1, ShowOffGood DEF Receive
    <2> QED BY <2>1, <2>2, OneClient, ReceiveType
<1>4. CASE ClientLoad(c)
    <2>1. PICK song \in Songs \cup {None} :
              /\ Receive(c, Load(song))
              /\ cl' = [cl EXCEPT ![c] = LoadLights(LoadMusic(cl[c], c, song), c, song)]
        BY <1>1, <1>4 DEF ClientLoad
    <2>2. Good(c, LoadLights(LoadMusic(cl[c], c, song), c, song))
        BY <1>1, <2>1, LoadGood DEF Receive
    <2> QED BY <2>1, <2>2, OneClient, ReceiveType
<1>5. CASE ClientPlayRefused(c) \/ ClientSync(c)
    <2>1. LinkType' /\ cl' = cl
        BY <1>5, ReceiveType DEF ClientPlayRefused, ClientSync
    <2> QED BY <2>1 DEF ClientsGood
<1>6. CASE ClientPlayClock(c)
    <2>1. Receive(c, Play(TRUE)) /\ cl[c].inShow
          /\ cl' = [cl EXCEPT ![c] = [cl[c] EXCEPT !.clock = IF @ = "stopped" THEN "running" ELSE @, !.pc = "play"]]
        BY <1>1, <1>6 DEF ClientPlayClock
    <2>2. Good(c, [cl[c] EXCEPT !.clock = IF @ = "stopped" THEN "running" ELSE @, !.pc = "play"])
        BY <1>1, <2>1, PlayClockGood DEF Receive
    <2> QED BY <2>1, <2>2, OneClient, ReceiveType
<1>7. CASE ClientPlayMedia(c)
    <2> DEFINE next == CASE cl[c].pc = "play"  -> PlayAudio(cl[c])
                         [] cl[c].pc = "light" -> PlayLight(cl[c])
                         [] cl[c].pc = "set"   -> SetPlaying(cl[c])
    <2>1. cl[c].pc \in {"play", "light", "set"} /\ cl' = [cl EXCEPT ![c] = next]
        BY <1>1, <1>7 DEF ClientPlayMedia, Client
    <2>2. Good(c, next)
        BY <1>1, <2>1, PlayAudioGood, PlayLightGood, SetPlayingGood
    <2> HIDE DEF next
    <2>3. ClientsGood'
        BY <2>1, <2>2, OneClient
    <2> QED BY <1>7, <2>3 DEF ClientPlayMedia, link, LinkType
<1>8. CASE ClientStop(c)
    <2> DEFINE next == IF cl[c].clock = "stopped" THEN cl[c]
                       ELSE [ClearPlay(StopMedia(cl[c])) EXCEPT !.clock = "stopped"]
    <2>1. Receive(c, Play(FALSE)) /\ cl' = [cl EXCEPT ![c] = next]
        BY <1>1, <1>8 DEF ClientStop
    <2>2. Good(c, next)
        BY <1>1, <2>1, StopGood DEF Receive
    <2> HIDE DEF next
    <2> QED BY <2>1, <2>2, OneClient, ReceiveType
<1> QED BY <1>2, <1>3, <1>4, <1>5, <1>6, <1>7, <1>8 DEF ClientReads

\* The clock thread, the main thread and the stream.
LEMMA OthersGood ==
    ASSUME ClientsGood, LinkType, NEW c \in Clients,
           ClientEnds(c) \/ ClientReturns(c, listening) \/ AudioDrains(c)
    PROVE  ClientsGood' /\ LinkType'
<1>1. cl \in [Clients -> Client] /\ Good(c, cl[c]) /\ (Idle(c) <=> Free(cl[c]))
    BY DEF ClientsGood, Idle, Free
<1>2. CASE ClientClockEnd(c)
    <2>1. cl' = [cl EXCEPT ![c] = [StopMedia(cl[c]) EXCEPT !.clock = "ended", !.endPc = "clear"]]
        BY <1>1, <1>2 DEF ClientClockEnd
    <2>2. Good(c, [StopMedia(cl[c]) EXCEPT !.clock = "ended", !.endPc = "clear"])
        BY <1>1, <1>2, ClockEndGood DEF ClientClockEnd
    <2>3. ClientsGood'
        BY <2>1, <2>2, OneClient
    <2> QED BY <1>2, <2>3 DEF ClientClockEnd, link, LinkType
<1>3. CASE ClientClockClear(c)
    <2>1. cl' = [cl EXCEPT ![c] = [ClearPlay(cl[c]) EXCEPT !.endPc = "idle"]]
        BY <1>1, <1>3 DEF ClientClockClear
    <2>2. Good(c, [ClearPlay(cl[c]) EXCEPT !.endPc = "idle"])
        BY <1>1, <1>3, ClockClearGood DEF ClientClockClear
    <2>3. ClientsGood'
        BY <2>1, <2>2, OneClient
    <2> QED BY <1>3, <2>3 DEF ClientClockClear, link, LinkType
<1>4. CASE ClientConnect(c, listening)
    <2>1. cl' = [cl EXCEPT ![c] = Forget(cl[c])]
        BY <1>1, <1>4 DEF ClientConnect
    <2>2. Good(c, Forget(cl[c]))
        BY <1>1, <1>4, ForgetGood DEF ClientConnect, MayConnect
    <2>3. ClientsGood'
        BY <2>1, <2>2, OneClient
    <2>4. <<ClientKey[c]>> \in Seq(Keys)
        BY ConfigAssumption
    <2> QED BY <1>4, <2>3, <2>4 DEF ClientConnect, LinkType
<1>5. CASE ClientConnectFails(c, listening)
    <2>1. cl' = [cl EXCEPT ![c] = Forget(cl[c])]
        BY <1>1, <1>5 DEF ClientConnectFails
    <2>2. Good(c, Forget(cl[c]))
        BY <1>1, <1>5, ForgetGood DEF ClientConnectFails, MayConnect
    <2>3. ClientsGood'
        BY <2>1, <2>2, OneClient
    <2> QED BY <1>5, <2>3 DEF ClientConnectFails, link, LinkType
<1>6. CASE ClientNotices(c)
    BY <1>6 DEF ClientNotices, ClientsGood, LinkType
<1>7. CASE AudioDrains(c)
    <2>1. cl' = [cl EXCEPT ![c] = [cl[c] EXCEPT !.stream = "open"]]
        BY <1>1, <1>7 DEF AudioDrains
    <2>2. Good(c, [cl[c] EXCEPT !.stream = "open"])
        BY <1>1, <1>7, DrainGood DEF AudioDrains
    <2>3. ClientsGood'
        BY <2>1, <2>2, OneClient
    <2> QED BY <1>7, <2>3 DEF AudioDrains, link, LinkType
<1>8. CASE ClientConnectThrows(c)
    <2>1. cl' = [cl EXCEPT ![c] = Forget(cl[c])]
        BY <1>1, <1>8 DEF ClientConnectThrows
    <2>2. Good(c, Forget(cl[c]))
        BY <1>1, <1>8, ForgetGood DEF ClientConnectThrows, MayConnect
    <2>3. ClientsGood'
        BY <2>1, <2>2, OneClient
    <2> QED BY <1>8, <2>3 DEF ClientConnectThrows, LinkType
<1> QED BY <1>2, <1>3, <1>4, <1>5, <1>6, <1>7, <1>8 DEF ClientEnds, ClientReturns

-----------------------------------------------------------------------------
(* The types, and sound in a show only *)

Inv == ServerInv /\ LinkType /\ ClientsGood /\ drops \in 0..MaxDrops

\* The initial states.
LEMMA InitInv == Init => Inv
<1> SUFFICES ASSUME Init PROVE Inv
    OBVIOUS
<1> USE DEF Init
<1>1. ServerInv
    BY KeyAssumption DEF ServerInit, ServerInv, ServerType
<1>2. LinkType
    BY DEF LinkInit, LinkType
<1>3. ASSUME NEW c \in Clients PROVE cl[c] \in Client /\ Sound(c, cl[c])
    BY DEF ClientInit, Client, Sound
<1>4. cl \in [Clients -> Client]
    BY <1>3 DEF ClientInit
<1>5. drops \in 0..MaxDrops
    BY DropsAssumption
<1> QED BY <1>1, <1>2, <1>3, <1>4, <1>5 DEF Inv, ClientsGood, Good

\* Every step.
LEMMA NextInv == Inv /\ [Next]_vars => Inv'
<1> SUFFICES ASSUME Inv, [Next]_vars PROVE Inv'
    OBVIOUS
<1> USE DEF Inv
<1>1. CASE ServerStep
    <2>1. ServerInv' /\ LinkType' /\ UNCHANGED <<cl, drops>>
        BY <1>1, CallerType, ClockThreadType, ClientThreadType, AcceptFailsType DEF ServerStep
    <2> QED BY <2>1 DEF ClientsGood
<1>2. ASSUME NEW c \in Clients, ClientSteps(c) PROVE Inv'
    <2>1. ClientsGood' /\ LinkType' /\ UNCHANGED <<serverVars, drops>>
        BY <1>2, ReadsGood, OthersGood DEF ClientSteps, ClientStep
    <2> QED BY <2>1 DEF ServerInv, ServerType, serverVars, server, caller, identity, acceptor
<1>3. ASSUME NEW c \in Clients, NetworkDrops(c) PROVE Inv'
    <2>1. drops' \in 0..MaxDrops
        BY <1>3, DropsAssumption DEF NetworkDrops
    <2>2. LinkType'
        BY <1>3 DEF NetworkDrops, Drop, LinkType
    <2> QED BY <1>3, <2>1, <2>2
        DEF NetworkDrops, ClientsGood, ServerInv, ServerType, serverVars, server, caller, identity, acceptor
<1>4. ASSUME NEW c \in Clients, LinkEnds(c) PROVE Inv'
    <2>1. LinkType'
        BY <1>4 DEF LinkEnds, ReadEnds, LinkType
    <2> QED BY <1>4, <2>1
        DEF LinkEnds, ClientsGood, ServerInv, ServerType, serverVars, server, caller, identity, acceptor
<1>5. CASE UNCHANGED vars
    BY <1>5 DEF vars, link, LinkType, ClientsGood, ServerInv, ServerType, serverVars, server, caller, identity, acceptor
<1> QED BY <1>1, <1>2, <1>3, <1>4, <1>5 DEF Next

\* Every variable of the server, the clients and the links keeps its type, for
\* queues of any length and however the threads interleave.
THEOREM ShowTypes == Spec => []TypeOK
<1>1. Inv => TypeOK
    BY DEF Inv, TypeOK, ServerInv, ClientsGood, ClientType
<1> QED BY InitInv, NextInv, <1>1, PTL DEF Spec

\* A client whose threads take turns, and that has the music of every song it
\* has lights for, makes no sound outside a show, whatever the threads of the
\* server do.
THEOREM SoundOnlyInShows == ASSUME Tidy PROVE Spec => []AudioOnlyInShow
<1>1. Inv => AudioOnlyInShow
    BY DEF Inv, ClientsGood, Good, Sound, AudioOnlyInShow
<1> QED BY InitInv, NextInv, <1>1, PTL DEF Spec

-----------------------------------------------------------------------------
(* A client with another key *)

\* The server has not identified it: nothing has been sent to it, and all it
\* sends is its key.
Shut(c) ==
    /\ conn[c] # "client" /\ toClient[c] = <<>>
    /\ toServer[c] \in {<<>>, <<ClientKey[c]>>}
Silent(c) == ~cl[c].inShow /\ cl[c].stream = "closed"
Outside == \A c \in Clients : ClientKey[c] # DefaultKey => Shut(c) /\ Silent(c)

\* The server's steps keep it shut out.
LEMMA ServerShuts ==
    ASSUME Inv, NEW c \in Clients, ClientKey[c] # DefaultKey, Shut(c), ServerStep
    PROVE  Shut(c)'
<1> USE DEF Shut
<1>1. ASSUME NEW packet, SendAll(packet) PROVE toClient'[c] = <<>>
    BY <1>1 DEF SendAll
<1>2. ASSUME NEW packet, NEW d, SendTo(d, packet) PROVE toClient'[c] = <<>>
    <2>1. CASE d = c
        BY <1>2, <2>1 DEF SendTo
    <2>2. CASE d # c
        BY <1>2, <2>2 DEF SendTo, Inv, LinkType
    <2> QED BY <2>1, <2>2
<1>6. ASSUME NEW ends, CloseOf(ends) PROVE toClient'[c] = <<>> /\ conn'[c] # "client"
    <2>1. PICK kept \in [Clients -> UNION {0 .. Len(toClient[d]) : d \in Clients}] :
              /\ \A d \in Clients : kept[d] <= Len(toClient[d])
              /\ toClient' = [d \in Clients |-> SubSeq(toClient[d], 1, kept[d])]
        BY <1>6 DEF CloseOf
    <2>2. kept[c] <= 0
        BY <2>1
    <2>3. kept[c] \in Int
        BY <2>1 DEF Inv, LinkType
    <2>4. SubSeq(<<>>, 1, kept[c]) = <<>>
        BY <2>2, <2>3
    <2>5. conn'[c] # "client"
        BY <1>6 DEF CloseOf
    <2> QED BY <2>1, <2>4, <2>5
<1>3. CASE Caller
    <2>1. CASE Stop
        BY <1>6, <2>1 DEF Stop, CloseAll
    <2>2. CASE ~Stop
        BY <1>1, <1>3, <2>2
        DEF Caller, Listen, ShowSend, ShowSet, LoadSong, PlayBegin, PlayRun, PlaySend, PlayStop,
            StopSend, StopClear, link
    <2> QED BY <2>1, <2>2
<1>4. CASE ClockThread
    BY <1>1, <1>4 DEF ClockThread, ClockUpdate, ClockEnd, ClockClear, link
<1>5. CASE ClientThread
    <2>1. ASSUME NEW d \in Clients, HandleConnect(d) PROVE Shut(c)'
        BY <2>1 DEF HandleConnect, Inv, LinkType
    <2>2. ASSUME NEW d \in Clients, IdentRefuse(d) PROVE Shut(c)'
        BY <2>2 DEF IdentRefuse, Inv, LinkType
    <2>3. ASSUME NEW d \in Clients, IdentBegin(d) PROVE Shut(c)'
        <3>1. d # c
            BY <2>3 DEF IdentBegin
        <3> QED BY <2>3, <3>1 DEF IdentBegin, Inv, LinkType
    <2>4. CASE IdentRead
        BY <2>4 DEF IdentRead, link
    <2>5. CASE IdentSend
        BY <1>2, <2>5 DEF IdentSend
    <2> QED BY <1>5, <2>1, <2>2, <2>3, <2>4, <2>5 DEF ClientThread
<1>7. CASE AcceptFails
    BY <1>6, <1>7 DEF AcceptFails, CloseAll
<1> QED BY <1>3, <1>4, <1>5, <1>7 DEF ServerStep

\* So do the steps of the clients.
LEMMA ClientsShut ==
    ASSUME Inv, NEW c \in Clients, ClientKey[c] # DefaultKey, Shut(c), NEW d \in Clients, ClientSteps(d)
    PROVE  Shut(c)'
<1> USE DEF Shut
<1>1. CASE ClientConnect(d, listening)
    BY <1>1 DEF ClientConnect, Inv, LinkType
<1>2. ASSUME NEW packet, Receive(d, packet) PROVE Shut(c)'
    <2>1. d # c
        BY <1>2 DEF Receive
    <2> QED BY <1>2, <2>1 DEF Receive, Inv, LinkType
<1>3. CASE ClientReads(d)
    BY <1>2, <1>3
    DEF ClientReads, ClientShowOn, ClientShowOff, ClientLoad, ClientPlayRefused, ClientPlayClock,
        ClientPlayMedia, ClientStop, ClientSync, link
<1>4. CASE ClientEnds(d) \/ ClientConnectFails(d, listening) \/ ClientConnectThrows(d)
          \/ ClientNotices(d) \/ AudioDrains(d)
    BY <1>4 DEF ClientEnds, ClientClockEnd, ClientClockClear, ClientConnectFails, ClientConnectThrows,
                ClientNotices, AudioDrains, link
<1> QED BY <1>1, <1>3, <1>4 DEF ClientSteps, ClientStep, ClientReturns

\* No packet comes to it, and what it does by itself is silent.
LEMMA ClientsSilent ==
    ASSUME Inv, NEW c \in Clients, ClientKey[c] # DefaultKey, Shut(c), Silent(c),
           NEW d \in Clients, ClientSteps(d)
    PROVE  Silent(c)'
<1>1. cl \in [Clients -> Client] /\ cl[c] \in Client
    BY DEF Inv, ClientsGood
<1>2. ASSUME NEW next, cl' = [cl EXCEPT ![d] = next], d = c => ~next.inShow /\ next.stream = "closed"
      PROVE Silent(c)'
    BY <1>1, <1>2 DEF Silent
<1>3. ASSUME NEW packet, Receive(d, packet) PROVE d # c
    BY <1>3 DEF Receive, Shut
<1>4. d = c => ~cl[d].inShow /\ cl[d].stream = "closed"
    BY DEF Silent
<1>5. CASE ClientShowOn(d)
    <2>1. d # c /\ cl' = [cl EXCEPT ![d] = ShowOn(cl[d], d)]
        BY <1>1, <1>3, <1>5 DEF ClientShowOn
    <2> QED BY <1>2, <2>1
<1>6. CASE ClientShowOff(d)
    <2>1. d # c /\ cl' = [cl EXCEPT ![d] = ShowOff(cl[d], d)]
        BY <1>1, <1>3, <1>6 DEF ClientShowOff
    <2> QED BY <1>2, <2>1
<1>7. CASE ClientLoad(d)
    <2>1. PICK song : d # c /\ cl' = [cl EXCEPT ![d] = LoadLights(LoadMusic(cl[d], d, song), d, song)]
        BY <1>1, <1>3, <1>7 DEF ClientLoad
    <2> QED BY <1>2, <2>1
<1>8. CASE ClientPlayRefused(d) \/ ClientSync(d) \/ ClientNotices(d)
    BY <1>8 DEF ClientPlayRefused, ClientSync, ClientNotices, Silent
<1>9. CASE ClientPlayClock(d)
    <2>1. d # c
        BY <1>3, <1>9 DEF ClientPlayClock
    <2> QED BY <1>1, <1>9, <2>1 DEF ClientPlayClock, Silent
<1>10. CASE ClientPlayMedia(d)
    <2>1. PICK next \in {PlayAudio(cl[d]), PlayLight(cl[d]), SetPlaying(cl[d])} : cl' = [cl EXCEPT ![d] = next]
        BY <1>1, <1>10 DEF ClientPlayMedia, Client
    <2>2. d = c => ~next.inShow /\ next.stream = "closed"
        BY <1>1, <1>4 DEF PlayAudio, PlayLight, SetPlaying, CanPlay, Client
    <2> QED BY <1>2, <2>1, <2>2
<1>11. CASE ClientStop(d)
    <2>1. d # c
        BY <1>3, <1>11 DEF ClientStop
    <2> QED BY <1>1, <1>11, <2>1 DEF ClientStop, Silent
<1>12. CASE ClientClockEnd(d)
    <2> DEFINE next == [StopMedia(cl[d]) EXCEPT !.clock = "ended", !.endPc = "clear"]
    <2>1. cl' = [cl EXCEPT ![d] = next]
        BY <1>1, <1>12 DEF ClientClockEnd
    <2>2. StopMedia(cl[d]) \in Client
        BY <1>1, HandlerTypes DEF Inv, ClientsGood
    <2>3. d = c => ~StopMedia(cl[d]).inShow /\ StopMedia(cl[d]).stream = "closed"
        BY <1>1, <1>4 DEF StopMedia, Client
    <2>4. next.inShow = StopMedia(cl[d]).inShow /\ next.stream = StopMedia(cl[d]).stream
        BY <2>2 DEF Client
    <2> HIDE DEF next
    <2> QED BY <1>2, <2>1, <2>3, <2>4
<1>13. CASE ClientClockClear(d)
    <2> DEFINE next == [ClearPlay(cl[d]) EXCEPT !.endPc = "idle"]
    <2>1. cl' = [cl EXCEPT ![d] = next]
        BY <1>1, <1>13 DEF ClientClockClear
    <2>2. d = c => ~next.inShow /\ next.stream = "closed"
        BY <1>1, <1>4 DEF ClearPlay, Client
    <2> HIDE DEF next
    <2> QED BY <1>2, <2>1, <2>2
<1>14. CASE ClientConnect(d, listening) \/ ClientConnectFails(d, listening) \/ ClientConnectThrows(d)
    <2>1. cl' = [cl EXCEPT ![d] = Forget(cl[d])]
        BY <1>1, <1>14 DEF ClientConnect, ClientConnectFails, ClientConnectThrows
    <2>2. d = c => ~Forget(cl[d]).inShow /\ Forget(cl[d]).stream = "closed"
        BY <1>1, <1>4 DEF Forget, Client
    <2> QED BY <1>2, <2>1, <2>2
<1>15. CASE AudioDrains(d)
    <2>1. d # c
        BY <1>4, <1>15 DEF AudioDrains
    <2> QED BY <1>1, <1>15, <2>1 DEF AudioDrains, Silent
<1> QED BY <1>5, <1>6, <1>7, <1>8, <1>9, <1>10, <1>11, <1>12, <1>13, <1>14, <1>15
    DEF ClientSteps, ClientStep, ClientReads, ClientEnds, ClientReturns

\* Whatever key the server is configured with, a client without the key built
\* into ServerClient is never told of a show and never sounds, however all the
\* threads interleave.
THEOREM OnlyBuiltInKeyAlways == Spec => []OnlyBuiltInKey
<1>1. Init => Outside
    BY DEF Init, LinkInit, ClientInit, Outside, Shut, Silent
<1>2. Inv /\ Outside /\ [Next]_vars => Outside'
    <2> SUFFICES ASSUME Inv, Outside, [Next]_vars, NEW c \in Clients, ClientKey[c] # DefaultKey
                 PROVE  Shut(c)' /\ Silent(c)'
        BY DEF Outside
    <2>1. Shut(c) /\ Silent(c)
        BY DEF Outside
    <2>2. CASE ServerStep
        BY <2>1, <2>2, ServerShuts DEF ServerStep, Silent
    <2>3. ASSUME NEW d \in Clients, ClientSteps(d) PROVE Shut(c)' /\ Silent(c)'
        BY <2>1, <2>3, ClientsShut, ClientsSilent
    <2>4. ASSUME NEW d \in Clients, NetworkDrops(d) PROVE Shut(c)' /\ Silent(c)'
        BY <2>1, <2>4 DEF NetworkDrops, Drop, Shut, Silent, Inv, LinkType
    <2>5. ASSUME NEW d \in Clients, LinkEnds(d) PROVE Shut(c)' /\ Silent(c)'
        BY <2>1, <2>5 DEF LinkEnds, ReadEnds, Shut, Silent, Inv, LinkType
    <2>6. CASE UNCHANGED vars
        BY <2>1, <2>6 DEF vars, link, Shut, Silent
    <2> QED BY <2>2, <2>3, <2>4, <2>5, <2>6 DEF Next
<1>3. Outside => OnlyBuiltInKey
    BY DEF Outside, Shut, Silent, OnlyBuiltInKey
<1> QED BY InitInv, NextInv, <1>1, <1>2, <1>3, PTL DEF Spec
=============================================================================
