----------------------------- MODULE ShowManager ----------------------------
(***************************************************************************)
(* ShowServer/showmanager.cpp and configfile.cpp: the evenings of a        *)
(* season, run by one thread that polls the time, with what it uses of     *)
(* ShowServer: the acceptor, inShow, isPlaying and the clock, whose thread *)
(* calls back eventStop.  A minute passes only while the manager sleeps or *)
(* polls in vain.                                                          *)
(***************************************************************************)
EXTENDS TimeUtil, PlayList

CONSTANTS
    Files,      \* what the configuration file may hold: functions on some Keys
    Runaway,    \* waitToStop gives a song up after so many minutes
    Failures    \* TRUE: listening, accepting or reading a file may fail

Keys == {"runTime", "listenTime", "showTime", "delay", "playlist"}
HourRange == [start : HourMinute, end : HourMinute]
MonthRange == [start : MonthDay, end : MonthDay]
Values == [runTime |-> MonthRange, listenTime |-> HourRange, showTime |-> HourRange,
           delay |-> Nat, playlist |-> Seq(Lines)]

\* A body without entries would be played in a loop that never sleeps.
ASSUME FilesAssumption == \A f \in Files :
    /\ DOMAIN f \subseteq Keys
    /\ \A key \in DOMAIN f : f[key] \in Values[key]
    /\ "playlist" \in DOMAIN f => PlayListLoad(f["playlist"])["body"] > 0
ASSUME RunawayAssumption == Runaway \in Nat
ASSUME FailuresAssumption == Failures \in BOOLEAN

VARIABLES
    now, today, \* HourMinute and MonthDay of the system's clock
    file,       \* what the configuration file holds
    edited,     \* it was written after it was last read
    config,     \* of the manager
    pc,         \* where the manager is: in the run or the listen loop, in the
                \* delay, in playPlaylist, in waitToStop, or returned
    event,      \* the playlist: for each list its number of songs
    list, song, \* the list and the entry it plays
    waited,     \* minutes spent in this delay or waitToStop
    inShow, isPlaying,                  \* of the manager
    open, srvShow, srvPlaying, clock,   \* of the server
    cut,        \* history: the acceptor has closed on an error
    late        \* history: minutes the server has been open past its hours

settings == <<file, edited, config>>
manager == <<pc, event, list, song, waited, inShow, isPlaying>>
server == <<open, srvShow, srvPlaying, clock>>
world == <<now, today, settings, cut, late>>
vars == <<world, manager, server>>

\* Every variable has its type, and no sleep lasts longer than its bound.
TypeOK ==
    /\ now \in HourMinute /\ today \in MonthDay
    /\ file \in Files /\ edited \in BOOLEAN
    /\ DOMAIN config = Keys /\ \A key \in Keys : config[key] \in Values[key]
    /\ pc \in {"run", "listen", "delay", "songs", "wait", "done"}
    /\ event \in [Lists -> Nat] /\ list \in Lists /\ song \in Nat \ {0}
    /\ waited \in 0 .. (IF pc = "delay" THEN config.delay ELSE Runaway)
    /\ {inShow, isPlaying, open, srvShow, srvPlaying} \subseteq BOOLEAN
    /\ clock \in {"stopped", "running", "ended"}
    /\ cut \in BOOLEAN /\ late \in Nat

Listening == InHours(config.listenTime.start, config.listenTime.end, now)
ShowOn    == InHours(config.showTime.start, config.showTime.end, now)
InSeason  == InMonths(config.runTime.start, config.runTime.end, today)

-----------------------------------------------------------------------------
(* ConfigFile *)

\* reset, which leaves the playlist: ranges of no hours, a season of one day.
Midnight == [hour |-> 0, minute |-> 0]
Reset(c) ==
    [c EXCEPT !.listenTime = [start |-> Midnight, end |-> Midnight],
              !.showTime = [start |-> Midnight, end |-> Midnight],
              !.runTime = [start |-> today, end |-> today],
              !.delay = 0]

\* load: what the file does not set keeps its default.
Load(c, f) == [key \in Keys |-> IF key \in DOMAIN f THEN f[key] ELSE Reset(c)[key]]

\* A path that cannot be read: the playlist of a new ConfigFile.
NoPlayList == <<>>
NewConfig == [key \in Keys |-> IF key = "playlist" THEN NoPlayList
                                ELSE Reset([k \in Keys |-> NoPlayList])[key]]

\* Mutant: the file is not looked at again.
ReloadNever == UNCHANGED <<config, edited>>

\* hasBeenUpdated and load, whose result is ignored: a file that cannot be
\* opened leaves the defaults.
Reload ==
    IF edited
    THEN /\ edited' = FALSE
         /\ \/ config' = Load(config, file)
            \/ Failures /\ config' = Load(config, <<>>)
    ELSE UNCHANGED <<config, edited>>

Init ==
    /\ now \in HourMinute /\ today \in MonthDay
    /\ file \in Files /\ edited = FALSE /\ config = Load(NewConfig, file)
    /\ pc = "run" /\ waited = 0
    /\ event = [l \in Lists |-> 0] /\ list = "prologue" /\ song = 1
    /\ inShow = FALSE /\ isPlaying = FALSE /\ cut = FALSE /\ late = 0
    /\ open = FALSE /\ srvShow = FALSE /\ srvPlaying = FALSE /\ clock = "stopped"

-----------------------------------------------------------------------------
(* What the manager asks of the server. *)

\* play(true): refused while playing; a clock that has ended does not start.
ServerPlay ==
    /\ srvPlaying' = TRUE
    /\ clock' = IF ~srvPlaying /\ clock = "stopped" THEN "running" ELSE clock

\* play(false): clockStop, and through it eventStop, unless the clock is stopped.
ServerPlayOff ==
    IF srvPlaying
    THEN clock' = "stopped" /\ srvPlaying' = (clock = "stopped")
    ELSE UNCHANGED <<clock, srvPlaying>>

-----------------------------------------------------------------------------
(* run *)

Return == pc' = "done" /\ UNCHANGED <<world, event, list, song, waited, inShow, isPlaying>>

Finish ==
    /\ pc = "run" /\ ~InSeason
    /\ Return /\ UNCHANGED server

EnterListen ==
    /\ pc = "run" /\ InSeason /\ Listening
    /\ pc' = "listen"
    /\ UNCHANGED <<world, event, list, song, waited, inShow, isPlaying, server>>

\* server.run fails, or the playlist does not load and the server stops again.
OpenFails ==
    /\ pc = "listen" /\ Listening /\ ~open
    /\ Return /\ UNCHANGED <<clock, open>>
    /\ \/ Failures /\ UNCHANGED <<srvShow, srvPlaying>>
       \/ /\ ShowOn /\ (Failures \/ config.playlist = NoPlayList)
          /\ srvShow' = FALSE /\ srvPlaying' = FALSE

\* The server opens; only then is the time of the show looked at.
OpenServer ==
    /\ pc = "listen" /\ Listening /\ ~open
    /\ open' = TRUE
    /\ IF ShowOn
       THEN /\ config.playlist # NoPlayList
            /\ inShow' = TRUE /\ srvShow' = TRUE
            /\ event' = PlayListLoad(config.playlist) /\ list' = "prologue" /\ song' = 1
            /\ pc' = IF config.delay > 0 THEN "delay" ELSE "songs"
            /\ UNCHANGED isPlaying
       ELSE UNCHANGED <<pc, event, list, song, inShow, isPlaying, srvShow>>
    /\ waited' = 0
    /\ UNCHANGED <<world, srvPlaying, clock>>

DelayEnds ==
    /\ pc = "delay" /\ waited = config.delay
    /\ pc' = "songs" /\ waited' = 0
    /\ UNCHANGED <<world, event, list, song, inShow, isPlaying, server>>

\* The turn of the run loop after its listen loop, which may have had no turn:
\* server.stop, which leaves the clock alone, and the configuration.
TurnEnds ==
    /\ pc = "listen" \/ (pc = "run" /\ InSeason)
    /\ ~Listening
    /\ pc' = "run" /\ Reload
    /\ IF open THEN open' = FALSE /\ srvShow' = FALSE /\ srvPlaying' = FALSE
       ELSE UNCHANGED <<open, srvShow, srvPlaying>>
    /\ late' = 0
    /\ UNCHANGED <<now, today, file, cut, event, list, song, waited, inShow, isPlaying, clock>>

-----------------------------------------------------------------------------
(* playPlaylist and waitToStop *)

\* Mutant: the time of the show is forgotten.
MayPlayLate == song <= event[list] /\ open

MayPlay == song <= event[list] /\ open /\ ShowOn

PlaySong ==
    /\ pc = "songs" /\ MayPlay
    /\ pc' = "wait" /\ waited' = 0
    /\ isPlaying' = TRUE /\ ServerPlay
    /\ UNCHANGED <<world, event, list, song, inShow, open, srvShow>>

SongOver ==
    /\ pc = "wait" /\ ~isPlaying
    /\ pc' = "songs" /\ song' = song + 1 /\ waited' = 0
    /\ UNCHANGED <<world, event, list, inShow, isPlaying, server>>

\* Mutant: the server is stopped, the manager waits on.
GiveUpServerOnly ==
    /\ pc = "wait" /\ isPlaying /\ waited = Runaway
    /\ ServerPlayOff
    /\ UNCHANGED <<world, pc, event, list, song, waited, inShow, isPlaying, open, srvShow>>

\* The song has run away: it is over for the manager, and the server stops it.
GiveUp ==
    /\ pc = "wait" /\ isPlaying /\ waited = Runaway
    /\ isPlaying' = FALSE
    /\ ServerPlayOff
    /\ UNCHANGED <<world, pc, event, list, song, waited, inShow, open, srvShow>>

\* After the prologue, and after each turn of the body: once more the body in
\* the time of the show, the epilogue after it.
NextList ==
    /\ pc = "songs" /\ ~MayPlay /\ list # "epilogue" /\ open
    /\ list' = IF ShowOn THEN "body" ELSE "epilogue"
    /\ song' = 1
    /\ UNCHANGED <<world, pc, event, waited, inShow, isPlaying, server>>

\* Mutant: the server is not told that the show is over.
EndShowSilently ==
    /\ pc = "songs" /\ ~MayPlay /\ (list = "epilogue" \/ ~open)
    /\ inShow' = FALSE
    /\ pc' = "listen"
    /\ UNCHANGED <<world, event, list, song, waited, isPlaying, server>>

\* The end of the show; the server is told only if it was open before the
\* epilogue.
EndShow ==
    /\ pc = "songs" /\ ~MayPlay /\ (list = "epilogue" \/ ~open)
    /\ inShow' = FALSE
    /\ pc' = "listen"
    /\ IF list = "epilogue" THEN srvShow' = FALSE /\ ServerPlayOff
       ELSE UNCHANGED <<srvShow, srvPlaying, clock>>
    /\ UNCHANGED <<world, event, list, song, waited, isPlaying, open>>

-----------------------------------------------------------------------------
(* The other threads, and time. *)

\* Mutant: the end of a song is not reported.
ClockEndSilent ==
    /\ clock = "running"
    /\ clock' = "ended" /\ srvPlaying' = FALSE
    /\ UNCHANGED <<world, manager, open, srvShow>>

\* The song ends: clockStop calls eventStop.
ClockEnd ==
    /\ clock = "running"
    /\ clock' = "ended" /\ srvPlaying' = FALSE /\ isPlaying' = FALSE
    /\ UNCHANGED <<world, pc, event, list, song, waited, inShow, open, srvShow>>

\* handleConnect gets an error: the acceptor closes.
AcceptFails ==
    /\ Failures /\ open
    /\ open' = FALSE /\ cut' = TRUE /\ late' = 0
    /\ UNCHANGED <<now, today, settings, manager, srvShow, srvPlaying, clock>>

\* Mutant: one minute too many.
SleepsOneMore ==
    \/ pc = "run" /\ InSeason /\ ~Listening /\ ~edited
    \/ pc = "listen" /\ Listening /\ open
    \/ pc = "delay" /\ waited < config.delay
    \/ pc = "wait" /\ isPlaying /\ waited <= Runaway

Sleeps ==
    \/ pc = "run" /\ InSeason /\ ~Listening /\ ~edited
    \/ pc = "listen" /\ Listening /\ open
    \/ pc = "delay" /\ waited < config.delay
    \/ pc = "wait" /\ isPlaying /\ waited < Runaway

NextMinute ==
    IF now.minute + 1 < MinutesInHour THEN [now EXCEPT !.minute = @ + 1]
    ELSE [hour |-> (now.hour + 1) % Hours, minute |-> 0]
NextDay ==
    IF today.day < DaysInMonth THEN [today EXCEPT !.day = @ + 1]
    ELSE [month |-> (today.month % Months) + 1, day |-> 1]

Tick ==
    /\ Sleeps
    /\ now' = NextMinute
    /\ today' = IF now' = Midnight THEN NextDay ELSE today
    /\ waited' = IF pc \in {"delay", "wait"} THEN waited + 1 ELSE 0
    /\ late' = IF open /\ ~Listening THEN late + 1 ELSE 0
    /\ UNCHANGED <<settings, cut, pc, event, list, song, inShow, isPlaying, server>>

\* Somebody writes the file, later than the second it was last read in.
Edit ==
    /\ file' \in Files /\ edited' = TRUE
    /\ UNCHANGED <<now, today, config, cut, late, manager, server>>

Step ==
    \/ Finish \/ EnterListen \/ OpenFails \/ OpenServer \/ DelayEnds \/ TurnEnds
    \/ PlaySong \/ SongOver \/ GiveUp \/ NextList \/ EndShow
Next == Step \/ ClockEnd \/ AcceptFails \/ Tick \/ Edit

\* The manager's thread runs and time passes; a running clock need not end in
\* time for anything.
Spec == Init /\ [][Next]_vars
FairSpec == Spec /\ WF_vars(Step) /\ WF_vars(Tick)

-----------------------------------------------------------------------------
\* While waitToStop waits, the server plays: no song is waited for that nobody
\* plays, so the wait ends with the song and not minutes later.
WaitsForServer == pc = "wait" /\ isPlaying => srvPlaying

\* Between shows the server is in no show and plays nothing, as long as its
\* acceptor has not closed on an error: a client that connects then is told
\* neither, outside the times of the show.
NoShowBetween == pc \in {"run", "listen"} /\ ~cut => ~srvShow /\ ~srvPlaying

\* As long as no listening goes on over midnight, and no delay or song of a show
\* either, the server opens only on days from the first to the last of the
\* season, both included, and over the new year too; and run returns only on
\* other days, or when it could not open the server.
SeasonKept == [][
    LET days == DayOf(config.runTime.end) - DayOf(config.runTime.start)
        season == (DayOf(today) - DayOf(config.runTime.start)) % YearLength <= days % YearLength
    IN /\ ~open /\ open' => season
       /\ pc = "run" /\ pc' = "done" => ~season]_vars

\* Where a show lies in the hours of listening, the server closes after them
\* within the song or the delay the manager is in when they end: no song is
\* begun any more, and none lasts longer than waitToStop lets it.
ShowInHours == \A t \in HourMinute :
    InHours(config.showTime.start, config.showTime.end, t)
        => InHours(config.listenTime.start, config.listenTime.end, t)
ServerCloses == open /\ ShowInHours => late = 0 \/ late < Runaway \/ late < config.delay

\* A song is never waited for without end, even on a clock that does not run.
WaitEnds == pc = "wait" ~> pc # "wait"

\* A configuration that was edited is read in the end, however long the evening
\* takes in which it was edited, as long as the acceptor does not fail.
Reloads == edited ~> (~edited \/ pc = "done" \/ cut)

-----------------------------------------------------------------------------
(* What a document says and the code does not do. *)

\* examples/server.cfg: the show is on in its times; run looks at them only in
\* the turn of its loop that opens the server.
ShowStarts == (open /\ ShowOn /\ Listening) ~> inShow
=============================================================================
