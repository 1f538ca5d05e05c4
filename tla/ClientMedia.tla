---------------------------- MODULE ClientMedia -----------------------------
(***************************************************************************)
(* What a ShowClient plays: the packet handlers and the clock callbacks of *)
(* ShowClient/showclient.cpp with all they call of MediaController and     *)
(* LightController, frame by frame, the callback of the sound device and   *)
(* the microcode of the PRUs.  Four threads and two processors: the        *)
(* network thread, the clock thread, the thread of RtAudio and the PRUs.   *)
(* Connections and the server are those of BlinkyShow, left out here: any  *)
(* packet may come at any time.  A call of a controller is one step; the   *)
(* threads interleave between them.  The frame a SYNC carries is the       *)
(* FrameClock's: here the clock counts.                                    *)
(***************************************************************************)
EXTENDS MediaFile, FiniteSets

CONSTANTS
    UseAudio, UseLights,    \* of the client's configuration
    Loads,                  \* the <<music, light>> names that a LOAD has
    Starts,                 \* the frames that a PLAY has
    Devices,                \* what the search for a sound device may find
    Pru                     \* for each PRU its configuration: [offset, length]

Prus == 0 .. 1
ASSUME ConfigAssumption ==
    /\ {UseAudio, UseLights} \cup Devices \subseteq BOOLEAN
    /\ Loads \subseteq (DOMAIN Music \cup {NoName}) \X (DOMAIN Lights \cup {NoName})
    /\ Starts \subseteq Nat
    /\ Pru \in [Prus -> [offset : Nat, length : Nat]]

VARIABLES
    me,         \* the files (MediaFile), the two controllers and ShowClient
    clock,      \* its FrameClock: [phase, frame, stop], the two numbers while it runs
    job,        \* the handler that the network thread is in
    clockJob,   \* whether the clock thread is in clockStop
    pru,        \* the memory of each PRU and its microcode
    fault,      \* how the process has ended
    sought,     \* history: the frame whose position was set last in this song
    astray      \* history: how the stream that runs was started, see StreamStarted

vars == <<me, clock, job, clockJob, pru, fault, sought, astray>>

MaxFrame(S) == CHOOSE n \in S : \A k \in S : k <= n
Sizes == {Music[name].size : name \in DOMAIN Music}
MostFrames == MaxFrame({Lights[name].frames : name \in DOMAIN Lights}
                        \cup {Length(n) : n \in Sizes} \cup Starts)

\* The position has not been set in this song.
NotSought == -1

\* The words of a PRU's header, in which the data comes after them.
Header == 0 .. 3
TypeWord == 0
ReadyWord == 2

Me == [
    mapped : SUBSET Addresses, wav : Addresses \cup {Null}, light : Addresses \cup {Null},
    shared : SUBSET {"wav", "light"},
    format : BOOLEAN, size : {0} \cup Sizes, offset : Nat, extent : Nat,
    frames : 0 .. MostFrames, length : Nat, lightExtent : Nat,
    stream : {"closed", "open", "running"},     \* MediaController
    current : 0 .. MostFrames + 2, sync : 0 .. MostFrames,
    inShow : BOOLEAN, isPlaying : BOOLEAN,      \* ShowClient
    showAudio : BOOLEAN, useAudio : BOOLEAN,
    showLight : BOOLEAN, useLight : BOOLEAN, endFrame : 0 .. MostFrames]

\* Every variable has its type: frame counts and what is loaded stay in range.
TypeOK ==
    /\ me \in Me
    /\ clock \in [phase : {"stopped", "running", "ended"}, frame : 0 .. MostFrames, stop : 0 .. MostFrames]
    /\ job \in {[at |-> "idle"], [at |-> "stop"]} \cup [at : {"load"}, light : DOMAIN Lights \cup {NoName}]
               \cup [at : {"play", "lights", "playing"}, frame : Starts]
    /\ clockJob \in BOOLEAN
    /\ pru \in [Prus -> [header : [Header -> {"initial", "pixels"}], ready : BOOLEAN,
                         state : {"start", "output"}]]
    /\ fault \in {"none", "overrun", "division", "unmapped", "lights"}
    /\ sought \in {NotSought} \cup 0 .. MostFrames
    /\ astray \in BOOLEAN

\* Mutant: the ready flag is left as it was found.
InitPRUFlag == pru \in [Prus -> [header : {[w \in Header |-> "initial"]}, ready : BOOLEAN, state : {"start"}]]

\* initPRU of both PRUs, in setConfiguration
InitPRU == pru = [p \in Prus |-> [header |-> [w \in Header |-> "initial"], ready |-> FALSE, state |-> "start"]]

\* run sets both numbers before they are read again.
NotRunning(phase) == [phase |-> phase, frame |-> 0, stop |-> 0]

Init ==
    /\ me = [mapped |-> {}, wav |-> Null, light |-> Null, shared |-> {},
             format |-> FALSE, size |-> 0, offset |-> 0, extent |-> 0,
             frames |-> 0, length |-> 0, lightExtent |-> 0,
             stream |-> "closed", current |-> 0, sync |-> 0,
             inShow |-> FALSE, isPlaying |-> FALSE,
             showAudio |-> FALSE, useAudio |-> FALSE,
             showLight |-> FALSE, useLight |-> FALSE, endFrame |-> 0]
    /\ clock = NotRunning("stopped")
    /\ job = [at |-> "idle"] /\ clockJob = FALSE
    /\ InitPRU
    /\ fault = "none" /\ sought = NotSought /\ astray = FALSE

\* The network thread is in no handler, the process has not ended.
MayBegin == fault = "none" /\ job = [at |-> "idle"]

\* For the steps that may stop the stream.
StillAstray == astray' = (astray /\ me'.stream = "running")

-----------------------------------------------------------------------------
(* MediaController and LightController *)

Halted(m, to) == [m EXCEPT !.stream = IF @ = "closed" THEN @ ELSE to]

\* load: the stream is aborted, the old file cleared and the frames start at 0.
MediaLoad(m, name) ==
    LET clear == [IF IsLoaded(m, "wav") THEN WavClear(Halted(m, "open")) ELSE Halted(m, "open")
                    EXCEPT !.sync = 0, !.current = 0]
    IN IF name = NoName THEN {clear} ELSE WavLoad(clear, name)

\* play(true): refused without a file or a stream; the position is not set.
CanPlay(m) == IsLoaded(m, "wav") /\ m.stream # "closed"
MediaPlay(m, frame) ==
    IF CanPlay(m) THEN [m EXCEPT !.current = frame, !.sync = frame, !.stream = "running"] ELSE m

\* play(false)
MediaStop(m) == IF m.stream = "running" THEN WavClear([m EXCEPT !.stream = "open"]) ELSE m

\* setShow(false)
MediaShowOff(m) ==
    IF IsLoaded(m, "wav") THEN WavClear([m EXCEPT !.stream = "closed"])
    ELSE [m EXCEPT !.stream = "closed"]

\* requestData: the position is set when the frames are too far apart.
Distance(a, b) == IF a > b THEN a - b ELSE b - a
MustSeek(m) == Distance(m.current, m.sync) >= 2

\* Mutant: the frame that is counted does not follow.
SoughtFileOnly(m) == IF MustSeek(m) THEN SetFrame(m, m.sync) ELSE m

Sought(m) == IF MustSeek(m) THEN [SetFrame(m, m.sync) EXCEPT !.current = m.sync] ELSE m

\* A buffer that is not full ends the stream.
StreamAfter(m, copied) == IF copied < Asked THEN "open" ELSE m.stream

\* What the code reads where nothing is mapped, or divides by a sample size of 0,
\* ends the process, or goes on where the page and the processor let it.
Callback ==
    LET m      == Sought(me)
        copied == Buffer(m)
        next   == [m EXCEPT !.offset = @ + copied, !.current = @ + 1,
                            !.stream = StreamAfter(m, copied)]
    IN /\ me.stream = "running" /\ fault = "none"
       /\ sought' = IF ~MustSeek(me) THEN sought ELSE IF InData(me, me.sync) THEN me.sync ELSE NotSought
       /\ \/ copied > Asked /\ fault' = "overrun" /\ me' = m
          \/ copied <= Asked /\ ~m.format /\ fault' = "division" /\ me' = m
          \/ copied <= Asked /\ BeyondWav(m, copied) /\ fault' = "unmapped" /\ me' = m
          \/ copied <= Asked /\ me' = next /\ UNCHANGED fault
       /\ StillAstray
       /\ UNCHANGED <<clock, job, clockJob, pru>>

\* LightController::sync: the frame goes to the beginning of each PRU's memory.
\* A negative length copies nothing or ends the process, as the library is built.
LightLength(p) == CopyLength(me, Pru[p].offset, SyncLength(me, Pru[p].offset, Pru[p].length))

Copied(p, ready) ==
    [pru[p] EXCEPT
        !.header = [w \in Header |-> IF w < LightLength(p) THEN "pixels" ELSE @[w]],
        !.ready = IF ReadyWord < LightLength(p) THEN ready ELSE @]

LightSync(frame) ==
    IF frame >= me.frames THEN UNCHANGED <<pru, fault>>
    ELSE /\ fault' \in {"none"} \cup {f \in {"lights"} : \E p \in Prus : LightLength(p) < 0}
                               \cup {f \in {"unmapped"} : BeyondLight(me, frame)}
         /\ \E ready \in [Prus -> BOOLEAN] : pru' = [p \in Prus |-> Copied(p, ready[p])]

-----------------------------------------------------------------------------
(* The network thread: the packet handlers. *)

Rest == <<clockJob, pru, fault>>

\* clientShow(true): the device is looked for.  The light directory exists.
ClientShowOn(device) ==
    /\ MayBegin
    /\ me' = [me EXCEPT
            !.inShow = TRUE, !.useAudio = UseAudio, !.useLight = UseLights,
            !.showAudio = UseAudio /\ device, !.showLight = UseLights,
            !.stream = IF UseAudio /\ device THEN "open" ELSE @]
    /\ UNCHANGED <<clock, job, Rest, sought, astray>>

\* clientShow(false): the light file stays loaded.
ClientShowOff ==
    /\ MayBegin
    /\ me' = [IF me.showAudio THEN MediaShowOff(me) ELSE me EXCEPT
            !.inShow = FALSE,
            !.showAudio = UseAudio, !.useAudio = UseAudio,
            !.showLight = UseLights, !.useLight = UseLights]
    /\ StillAstray
    /\ UNCHANGED <<clock, job, Rest, sought>>

\* clientLoad: the music ...
ClientLoadMusic(music, light) ==
    /\ MayBegin
    /\ \E m \in IF me.showAudio THEN MediaLoad(me, music) ELSE {me} :
        me' = [m EXCEPT !.useAudio = IF me.showAudio THEN WavFrames(m) # 0 ELSE @,
                        !.endFrame = IF me.showAudio THEN WavFrames(m) ELSE 0]
    /\ job' = [at |-> "load", light |-> light]
    /\ sought' = NotSought /\ StillAstray
    /\ UNCHANGED <<clock, Rest>>

\* ... and the lights.  No name leaves the light file of before.
ClientLoadLight ==
    /\ job.at = "load" /\ fault = "none"
    /\ \E m \in IF me.showLight /\ job.light # NoName THEN LightLoad(me, job.light) ELSE {me} :
        LET frames == IF job.light = NoName THEN 0 ELSE m.frames
        IN me' = IF ~me.showLight THEN me
                 ELSE [m EXCEPT !.useLight = frames # 0,
                                !.endFrame = IF frames > @ THEN frames ELSE @]
    /\ job' = [at |-> "idle"]
    /\ UNCHANGED <<clock, Rest, sought, astray>>

\* clientPlay(true) outside a show
ClientPlayRefused == MayBegin /\ ~me.inShow /\ UNCHANGED vars

\* clientPlay(true): the clock, which may be in use ...
ClientPlayClock(frame) ==
    /\ MayBegin /\ me.inShow
    /\ clock' = IF clock.phase # "stopped" THEN clock
                ELSE [phase |-> "running", frame |-> frame, stop |-> me.endFrame]
    /\ job' = [at |-> "play", frame |-> frame]
    /\ UNCHANGED <<me, Rest, sought, astray>>

\* What the histories say when the stream is started: no position is set, and
\* it is astray unless its clock runs and it is started for the show's audio.
StreamStarted(use) ==
    LET started == use /\ CanPlay(me)
    IN /\ sought' = IF started THEN NotSought ELSE sought
       /\ astray' = IF started THEN ~(clock.phase = "running" /\ me.useAudio /\ me.showAudio) ELSE astray
       /\ UNCHANGED <<clock, clockJob, pru, fault>>

\* ... the stream, for the audio ...
ClientPlayAudio ==
    /\ job.at = "play" /\ fault = "none"
    /\ me' = IF me.useAudio THEN [MediaPlay(me, job.frame) EXCEPT !.useAudio = CanPlay(me)] ELSE me
    /\ job' = [job EXCEPT !.at = "lights"]
    /\ StreamStarted(me.useAudio)

\* ... once more for the lights ...
ClientPlayLight ==
    /\ job.at = "lights" /\ fault = "none"
    /\ me' = IF me.useLight THEN [MediaPlay(me, job.frame) EXCEPT !.useLight = CanPlay(me)] ELSE me
    /\ job' = [job EXCEPT !.at = "playing"]
    /\ StreamStarted(me.useLight)

\* ... and the song counts as playing.
ClientPlaying ==
    /\ job.at = "playing" /\ fault = "none"
    /\ me' = [me EXCEPT !.isPlaying = TRUE]
    /\ job' = [at |-> "idle"]
    /\ UNCHANGED <<clock, Rest, sought, astray>>

\* Mutant: the flag of the lights is looked at, as clientPlay looks at it.
StopMusicForLights(m) == IF m.useLight THEN MediaStop(m) ELSE m

\* clockStop: the media controller ...
StopMusic(m) == IF m.useAudio THEN MediaStop(m) ELSE m

\* ... the lights, and what the next song starts from.
StopRest(m) ==
    [IF m.useLight THEN LightClear(m) ELSE m EXCEPT
        !.useAudio = m.showAudio, !.useLight = m.showLight,
        !.isPlaying = FALSE, !.endFrame = 0]

\* clientPlay(false): nothing when the clock is stopped, else clockStop.
ClientStop ==
    /\ MayBegin
    /\ clock.phase # "stopped"
    /\ clock' = NotRunning("stopped")
    /\ me' = StopMusic(me)
    /\ job' = [at |-> "stop"]
    /\ StillAstray
    /\ UNCHANGED <<Rest, sought>>

ClientStopRest ==
    /\ job.at = "stop" /\ fault = "none"
    /\ me' = StopRest(me)
    /\ job' = [at |-> "idle"]
    /\ UNCHANGED <<clock, Rest, sought, astray>>

\* The main thread: a connection is lost and found again between two songs.
Reconnect ==
    /\ MayBegin /\ ~me.isPlaying
    /\ me' = [me EXCEPT !.inShow = FALSE]
    /\ UNCHANGED <<clock, job, Rest, sought, astray>>

-----------------------------------------------------------------------------
(* The clock thread. *)

\* Mutant: a song without frames is overrun.
SongEndsExactly == clock.frame + 1 = clock.stop

\* The next frame is the end of the song.
SongEnds == clock.frame + 1 >= clock.stop

\* A tick before the end: clockUpdate.
ClockUpdate ==
    /\ clock.phase = "running" /\ ~clockJob /\ fault = "none"
    /\ ~SongEnds
    /\ clock' = [clock EXCEPT !.frame = @ + 1]
    /\ me' = IF me.useAudio THEN [me EXCEPT !.sync = clock.frame + 1] ELSE me
    /\ IF me.useLight THEN LightSync(clock.frame + 1) ELSE UNCHANGED <<pru, fault>>
    /\ UNCHANGED <<job, clockJob, sought, astray>>

\* The tick that ends the song: clockStop.
ClockEnd ==
    /\ clock.phase = "running" /\ ~clockJob /\ fault = "none"
    /\ SongEnds
    /\ clock' = NotRunning("ended")
    /\ me' = StopMusic(me)
    /\ clockJob' = TRUE
    /\ StillAstray
    /\ UNCHANGED <<job, pru, fault, sought>>

ClockEndRest ==
    /\ clockJob /\ fault = "none"
    /\ me' = StopRest(me)
    /\ clockJob' = FALSE
    /\ UNCHANGED <<clock, job, pru, fault, sought, astray>>

-----------------------------------------------------------------------------
(* The microcode of a PRU. *)

\* START: the flag is taken, the header read; a type it does not know leads
\* back to START.
PruStart(p) ==
    /\ pru[p].state = "start" /\ pru[p].ready
    /\ \E state \in IF pru[p].header[TypeWord] = "initial" THEN {"output"} ELSE {"start", "output"} :
        pru' = [pru EXCEPT ![p].ready = FALSE, ![p].state = state]
    /\ UNCHANGED <<me, clock, job, clockJob, fault, sought, astray>>

\* UWAIT and PIXEL: the flag is taken, the data shifted out.
PruOutput(p) ==
    /\ pru[p].state = "output" /\ pru[p].ready
    /\ pru' = [pru EXCEPT ![p].ready = FALSE]
    /\ UNCHANGED <<me, clock, job, clockJob, fault, sought, astray>>

Packet ==
    \/ \E device \in Devices : ClientShowOn(device)
    \/ ClientShowOff \/ ClientPlayRefused \/ ClientStop \/ Reconnect
    \/ \E names \in Loads : ClientLoadMusic(names[1], names[2])
    \/ \E frame \in Starts : ClientPlayClock(frame)
Network == ClientLoadLight \/ ClientPlayAudio \/ ClientPlayLight \/ ClientPlaying \/ ClientStopRest
Clock == ClockUpdate \/ ClockEnd \/ ClockEndRest
Next == Packet \/ Network \/ Clock \/ Callback \/ \E p \in Prus : PruStart(p) \/ PruOutput(p)

\* The threads and the sound device go on; packets come as they like.
Spec == Init /\ [][Next]_vars
FairSpec == Spec /\ WF_vars(Network) /\ WF_vars(Clock) /\ WF_vars(Callback)

-----------------------------------------------------------------------------
\* Sound that is loaded stays mapped, whatever load, clear and the stale
\* pointers do.  There is one way to lose it: the kernel mapped it where the
\* light file's pointer still pointed, and unmap of that pointer unmaps it.
AudioMapped == me.size > 0 => me.wav \in me.mapped \/ "wav" \in me.shared

\* And so do the light frames that copy and sync read: clear empties the header,
\* so that every frame of a file that did not load is refused.
LightsMapped == me.frames > 0 => me.light \in me.mapped \/ "light" \in me.shared

\* Once requestData has set the position in a song, the position goes with the
\* frame it counts, through every sync: it is off by half a sample for the
\* rounding, and by what the device's buffers differ from frames in all of them
\* since.  Only the counters are compared: the next seek comes when they are two apart.
InStep ==
    sought # NotSought /\ me.stream = "running" =>
        2 * Distance(Scale * me.offset, Rate * me.current)
            <= Scale + 2 * (me.current - sought) * Distance(Scale * Asked, Rate)

\* And then no buffer is overrun: what loadBuffer takes for the rest of the data
\* wraps only at a position that an earlier file has left.
SoughtFits == fault = "overrun" => sought = NotSought

\* The PRUs are dark until a frame of lights has been copied to them.
DarkUntilFrame ==
    \A p \in Prus : pru[p].ready \/ pru[p].state = "output" => pru[p].header[ReadyWord] = "pixels"

\* A stream that a play starts for the show's audio, with the clock running,
\* comes to its end, whether the music is shorter than the song, longer, or not
\* there at all, if the device stays plugged in.  One that is started on a clock
\* that has ended inside clientPlay, or that run did not start, is astray: it may
\* go on until a stop, a load or the end of the show.
StreamEnds == (me.stream = "running" /\ ~astray) ~> (me.stream # "running" \/ fault # "none")
=============================================================================
