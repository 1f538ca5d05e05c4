----------------------------- MODULE ShowClient -----------------------------
(***************************************************************************)
(* ShowClient/showclient.cpp with what it calls of MediaController,        *)
(* LightController and MWAVFile, for every client of the show.  A client   *)
(* has three threads without a common lock: the main thread (run), the     *)
(* network thread (the packet handlers) and the clock thread (clockStop).  *)
(* The clock is the Playback that FrameClock implements: frame numbers are *)
(* abstracted, so a sync changes nothing here and a song may end any time. *)
(***************************************************************************)
EXTENDS ShowLink

CONSTANTS
    UseAudio,       \* the clients configured with "use audio" 1
    UseLights,      \* the clients configured with "use lights" 1
    SoundReady,     \* the clients with a sound device and a music directory
    HasMusic,       \* for each client the songs whose music file it has
    HasLights,      \* for each client the songs whose light file it has
    Unlit,          \* the songs that a load names no lights for
    ClientKey,      \* for each client the server key of its configuration
    ClientOverlap   \* TRUE: the threads of a client interleave step by step;
                    \* FALSE: one begins only when the others are idle

ASSUME ConfigAssumption ==
    /\ {UseAudio, UseLights, SoundReady} \subseteq SUBSET Clients
    /\ {HasMusic, HasLights} \subseteq [Clients -> SUBSET Songs]
    /\ Unlit \subseteq Songs
    /\ ClientKey \in [Clients -> Keys]
ASSUME ClientOverlapAssumption == ClientOverlap \in BOOLEAN

VARIABLE cl     \* the state of each ShowClient

Client == [
    inShow : BOOLEAN, isPlaying : BOOLEAN,
    showAudio : BOOLEAN, useAudio : BOOLEAN,
    showLight : BOOLEAN, useLight : BOOLEAN,
    stream : {"closed", "open", "running"},     \* MediaController::soundDac
    mapped : BOOLEAN,                           \* mediaFile.isLoaded()
    music : Songs \cup {None},                  \* what mediaFile holds
    lights : Songs \cup {None},                 \* what lightFile holds
    clock : {"stopped", "running", "ended"},
    pc : {"idle", "play", "light", "set"},      \* in clientPlay: the next call
    endPc : {"idle", "clear"} ]                 \* in clockStop, media stopped

ClientType == cl \in [Clients -> Client]

\* The constructor.
ClientInit ==
    cl = [c \in Clients |-> [
        inShow |-> FALSE, isPlaying |-> FALSE,
        showAudio |-> FALSE, useAudio |-> FALSE,
        showLight |-> FALSE, useLight |-> FALSE,
        stream |-> "closed", mapped |-> FALSE, music |-> None, lights |-> None,
        clock |-> "stopped", pc |-> "idle", endPc |-> "idle"]]

Idle(c) == ClientOverlap \/ (cl[c].pc = "idle" /\ cl[c].endPc = "idle")

-----------------------------------------------------------------------------
(* The main thread: run and connect. *)

\* Mutant: the show of the last connection is kept.
ForgetPlayOnly(me) == [me EXCEPT !.isPlaying = FALSE]

\* One turn of the loop of run: not connected and, so the client believes, not
\* playing.  The show is forgotten before the attempt.
Forget(me) == [me EXCEPT !.inShow = FALSE, !.isPlaying = FALSE]
MayConnect(c) == sock[c] = "closed" /\ ~cl[c].isPlaying /\ Idle(c)

ClientConnect(c, open) ==
    /\ MayConnect(c) /\ open
    /\ cl' = [cl EXCEPT ![c] = Forget(@)]
    /\ sock' = [sock EXCEPT ![c] = "open"]
    /\ conn' = [conn EXCEPT ![c] = "backlog"]
    /\ toServer' = [toServer EXCEPT ![c] = <<ClientKey[c]>>]
    /\ toClient' = [toClient EXCEPT ![c] = <<>>]

ClientConnectFails(c, open) ==
    /\ MayConnect(c) /\ ~open
    /\ cl' = [cl EXCEPT ![c] = Forget(@)]
    /\ UNCHANGED link

\* The server's name does not resolve, when it has to be asked for again: the
\* exception ends run, and the program with it.
ClientConnectThrows(c) ==
    /\ MayConnect(c)
    /\ cl' = [cl EXCEPT ![c] = Forget(@)]
    /\ sock' = [sock EXCEPT ![c] = "gone"]
    /\ UNCHANGED <<conn, toClient, toServer>>

\* A keep alive on a dead connection fails, and packetWrite closes the socket;
\* that is minutes later, when a handler that was running has returned.
ClientNotices(c) ==
    /\ sock[c] = "stale" /\ cl[c].pc = "idle" /\ cl[c].endPc = "idle"
    /\ sock' = [sock EXCEPT ![c] = "closed"]
    /\ UNCHANGED <<cl, conn, toClient, toServer>>

-----------------------------------------------------------------------------
(* What the media controller does. *)

\* mediaController.play(true): isLoaded asks a pointer no unmap ever resets.
CanPlay(me) == me.mapped /\ me.stream # "closed"

\* The media part of clockStop.
StopMedia(me) == [me EXCEPT
    !.stream = IF me.useAudio /\ @ = "running" THEN "open" ELSE @,
    !.music  = IF me.useAudio /\ me.stream = "running" THEN None ELSE @,
    !.lights = IF me.useLight THEN None ELSE @]

\* The rest of clockStop.
ClearPlay(me) == [me EXCEPT
    !.useAudio = me.showAudio, !.useLight = me.showLight, !.isPlaying = FALSE]

\* The stream plays its file to the end, before the clock does.
AudioDrains(c) ==
    /\ cl[c].stream = "running"
    /\ cl' = [cl EXCEPT ![c].stream = "open"]
    /\ UNCHANGED link

-----------------------------------------------------------------------------
(* The network thread: one handler per packet. *)

Receive(c, packet) ==
    /\ sock[c] = "open" /\ cl[c].pc = "idle" /\ Idle(c)
    /\ toClient[c] # <<>> /\ Head(toClient[c]) = packet
    /\ toClient' = [toClient EXCEPT ![c] = Tail(@)]
    /\ UNCHANGED <<conn, sock, toServer>>

\* clientShow(true).
ShowOn(me, c) ==
    LET audio == c \in UseAudio \cap SoundReady
        light == c \in UseLights
    IN [me EXCEPT !.inShow = TRUE,
                  !.showAudio = audio, !.useAudio = c \in UseAudio,
                  !.showLight = light, !.useLight = light,
                  !.stream = IF audio THEN "open" ELSE @]

ClientShowOn(c) == Receive(c, Show(TRUE)) /\ cl' = [cl EXCEPT ![c] = ShowOn(@, c)]

\* Mutant: the end of a show leaves the stream open.
ShowOffSilently(me, c) == [me EXCEPT !.inShow = FALSE]

\* clientShow(false).
ShowOff(me, c) ==
    [me EXCEPT !.inShow = FALSE,
               !.stream = IF me.showAudio THEN "closed" ELSE @,
               !.music = IF me.showAudio THEN None ELSE @,
               !.showAudio = c \in UseAudio, !.useAudio = c \in UseAudio,
               !.showLight = c \in UseLights, !.useLight = c \in UseLights]

ClientShowOff(c) == Receive(c, Show(FALSE)) /\ cl' = [cl EXCEPT ![c] = ShowOff(@, c)]

LoadMusic(me, c, song) ==
    IF ~me.showAudio THEN me
    ELSE LET found == song \in HasMusic[c]
         IN [me EXCEPT !.stream = IF @ = "running" THEN "open" ELSE @,
                       !.music = IF found THEN song ELSE None,
                       !.mapped = @ \/ found,
                       !.useAudio = found]

\* Without a name for the lights the light file of before stays loaded.
LoadLights(me, c, song) ==
    IF ~me.showLight THEN me
    ELSE LET unnamed == song = None \/ song \in Unlit
             found == ~unnamed /\ song \in HasLights[c]
         IN [me EXCEPT !.lights = IF found THEN song ELSE IF unnamed THEN @ ELSE None,
                       !.useLight = found]

ClientLoad(c) ==
    \E song \in Songs \cup {None} :
        /\ Receive(c, Load(song))
        /\ cl' = [cl EXCEPT ![c] = LoadLights(LoadMusic(@, c, song), c, song)]

\* clientPlay(true) outside a show changes an LED only.
ClientPlayRefused(c) ==
    /\ Receive(c, Play(TRUE)) /\ ~cl[c].inShow
    /\ UNCHANGED cl

\* clientPlay(true): clock.run(true), which does nothing to a clock in use ...
ClientPlayClock(c) ==
    /\ Receive(c, Play(TRUE)) /\ cl[c].inShow
    /\ cl' = [cl EXCEPT ![c].clock = IF @ = "stopped" THEN "running" ELSE @,
                        ![c].pc = "play"]

\* ... then the media controller, once for the audio ...
PlayAudio(me) ==
    LET plays == me.useAudio /\ CanPlay(me)
    IN [me EXCEPT !.stream = IF plays THEN "running" ELSE @, !.useAudio = plays, !.pc = "light"]

\* ... and once for the lights; isPlaying comes last.
PlayLight(me) ==
    LET plays == me.useLight /\ CanPlay(me)
    IN [me EXCEPT !.stream = IF plays THEN "running" ELSE @, !.useLight = plays, !.pc = "set"]

SetPlaying(me) == [me EXCEPT !.isPlaying = TRUE, !.pc = "idle"]

ClientPlayMedia(c) ==
    /\ cl[c].pc # "idle"
    /\ cl' = [cl EXCEPT ![c] = CASE @.pc = "play"  -> PlayAudio(@)
                                 [] @.pc = "light" -> PlayLight(@)
                                 [] @.pc = "set"   -> SetPlaying(@)]
    /\ UNCHANGED link

\* Mutant: only a clock that still runs is stopped.
ClientStopRunning(c) ==
    /\ Receive(c, Play(FALSE))
    /\ cl' = [cl EXCEPT ![c] = IF @.clock # "running" THEN @
                               ELSE [ClearPlay(StopMedia(@)) EXCEPT !.clock = "stopped"]]

\* clientPlay(false): clock.run(false), which calls clockStop on this thread.
ClientStop(c) ==
    /\ Receive(c, Play(FALSE))
    /\ cl' = [cl EXCEPT ![c] = IF @.clock = "stopped" THEN @
                               ELSE [ClearPlay(StopMedia(@)) EXCEPT !.clock = "stopped"]]

\* clientSync moves the frame of the clock, which is not modelled here.
ClientSync(c) == Receive(c, Sync) /\ UNCHANGED cl

-----------------------------------------------------------------------------
(* The clock thread: the tick that reaches stopFrame, and clockStop. *)

ClientClockEnd(c) ==
    /\ cl[c].clock = "running" /\ cl[c].endPc = "idle" /\ Idle(c)
    /\ cl' = [cl EXCEPT ![c] = [StopMedia(@) EXCEPT !.clock = "ended", !.endPc = "clear"]]
    /\ UNCHANGED link

ClientClockClear(c) ==
    /\ cl[c].endPc = "clear"
    /\ cl' = [cl EXCEPT ![c] = [ClearPlay(@) EXCEPT !.endPc = "idle"]]
    /\ UNCHANGED link

ClientReads(c) ==
    \/ ClientShowOn(c) \/ ClientShowOff(c) \/ ClientLoad(c)
    \/ ClientPlayRefused(c) \/ ClientPlayClock(c) \/ ClientPlayMedia(c)
    \/ ClientStop(c) \/ ClientSync(c)
ClientEnds(c) == ClientClockEnd(c) \/ ClientClockClear(c)
ClientReturns(c, open) ==
    \/ ClientConnect(c, open) \/ ClientConnectFails(c, open)
    \/ ClientConnectThrows(c) \/ ClientNotices(c)
ClientStep(c, open) ==
    ClientReads(c) \/ ClientEnds(c) \/ ClientReturns(c, open) \/ AudioDrains(c)
=============================================================================
