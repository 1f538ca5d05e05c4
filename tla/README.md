# A verification project for BlinkyShowSoftware

BlinkyShow drives a light show: one server on a PC tells clients (BeagleBones)
over TCP what to load and when to play; each client plays music through RtAudio
and pushes pixels to two PRUs. Several threads share state without a common
lock, connections come and go, and nothing in the repository tests that. This
directory holds TLA+ modules translated from the C++ code, TLC configurations
that check them on small instances, and TLAPS proofs about them.

Run, in this directory:

    tlc -workers 2 -config ShowSerial.cfg MCBlinkyShow
    tlapm FrameClockProofs.tla

## 1. The system

| Component | Source | State | Operations | Threads |
|---|---|---|---|---|
| FrameClock | `controllers/frameclock.*` | `internal_state`, `currentFrame`, `stopFrame`, a steady_timer | `run`, `sync`, `close`, `frame`; `tick` | any caller; its own io thread |
| ShowServer | `ShowServer/showserver.*`, `serverclient.*` | `inShow`, `isPlaying`, `framecount`, `music`, `lights`, acceptor, `connections` | `run`, `stop`, `show`, `load`, `play`; `handleConnect`, `identify`, `clockUpdate`, `clockStop`, `clientStatus` | caller; clock thread; acceptor thread; client thread |
| ShowManager | `ShowServer/showmanager.*` | `inShow`, `isPlaying`, configuration, playlist | `run`, `playPlaylist`, `waitToStop`, `eventStop` | main; clock thread (`eventStop`) |
| ServerEmu | `ServerEmu/main.cpp` | none | a console command for each call of ShowServer | main |
| ShowClient | `ShowClient/showclient.*` | `inShow`, `isPlaying`, `showAudio`, `useAudio`, `showLight`, `useLight`, `endFrame` | `run`, `connect`; one handler per packet; `clockUpdate`, `clockStop` | main; network; clock; RtAudio |
| Client (network) | `network/client.*`, packets | out queue, `outgoingPacket`, `bytesOut`, `sendInProgress`, `incomingPacket`, `inBytes` | `sendPacket`, `initialRead`, `packetRead`, `packetWrite`, `connect`, `close` | any sender; io thread |
| MediaController, MWAVFile, MapFile | `controllers/mediacontroller.*`, `containers/wavfile`, `utility/mapfile.*` | the stream, the mapped file, `syncFrame`, `currentFrame` | `setShow`, `load`, `play`, `sync`, `requestData` | network, clock, RtAudio |
| LightController, light files | `controllers/lightcontroller.*`, `containers/lightfile` | the light file, PRU memory | `initPRU`, `load`, `play`, `sync` | network, clock |
| PRU microcode | `beagle/microcode/microcode.asm` | the header and data in PRU memory | wait for DATAREADY, shift out | two PRUs |
| StatusLed | `controllers/statusled.*` | `ledstates` | `setLed` | any |
| Configuration | `ShowServer/configfile.*`, `ShowClient/clientconfig.*` | values, the time of the last read | `reset`, `load`, `hasBeenUpdated` | main |
| PlayList | `ShowServer/playlist.*` | three lists of songs | `load` | main |
| Time | `utility/timeutil.*` | | comparison, `+`, `-`, `inRange` | main |

How they interact. ShowManager (or the console) calls ShowServer. ShowServer
sends SHOW, LOAD, PLAY to every identified client (`sendAll`), starts its
FrameClock, sends SYNC from the clock's update callback and PLAY(false) from its
stop callback, which also calls back ShowManager. A client connects in its
hours, sends IDENT with a key, and is then told what is going on (`identify`).
Each packet runs a handler in the client's network thread; the handlers drive
the client's own FrameClock, MediaController and LightController.

What is hard: `identify`, the caller and the clock thread read and write
`inShow`, `framecount` and `isPlaying` in any order; a song may end while
something else is being called; the clock's timer is cancelled and re-armed by
two threads; a connection is lost in the middle of a show and the client must
come back to the same show; packets are cut anywhere, and the handlers of a dead
socket run on the next one; the sound callback, the clock and the network thread
share a memory-mapped file that is unmapped under them. `PROJECT.json` lists the
hazards, each at its line.

What makes each component correct:

- FrameClock: a running clock counts once per FRAMETIME, a stopped one not at
  all; each start is answered by a stop callback; a sync brings it nearer.
- ShowServer and ShowClient: when things settle both agree about the show and
  the song; no sound outside a show; a stop reaches the clients; a client without
  the server's key stays out (it is the key built in that decides, section 6).
- ShowManager: it never waits for a song nobody plays; between shows the server
  is in no show; the server closes within a song of the end of its hours and opens only in the season;
  an edited configuration is read.
- Client: packets arrive whole, in order, all of them; a broken connection is noticed.
- MediaController, LightController: nothing is read from a file that is not mapped;
  the frame the controller counts is the one the file is at, but for what buffers and
  frames differ in; a stream ends; the PRUs
  are dark until there is a frame for them.
- Time: arithmetic agrees with minutes and days as numbers.

## 2. The modules

| Module | Models | Remarks |
|---|---|---|
| `Playback` | what a FrameClock promises its owner | abstract |
| `FrameClock` | `controllers/frameclock.cpp` | one action per access to shared state |
| `FrameClockProofs` | theorems about FrameClock | TLAPS |
| `ShowLink` | the connections between server and clients | external, as the code sees TCP |
| `ShowServer` | `showserver.cpp`, `serverclient.cpp` | caller, clock thread, client thread |
| `ShowClient` | `showclient.cpp` with what it calls of the controllers | main, network, clock threads, one record per client |
| `BlinkyShow` | the composition | fairness and the properties of the show |
| `BlinkyShowProofs` | theorems about the show: types, sound, keys | TLAPS |
| `ShowAgreementProofs` | theorems about the show: what server and clients agree on | TLAPS, on top of BlinkyShowProofs |
| `TimeUtil` | `HourMinute`, `HourRange`, `MonthDay`, `MonthRange` | operators |
| `TimeUtilProofs` | theorems about times and days | TLAPS |
| `PlayList` | `playlist.cpp`, `load` | operators on the lines of a file |
| `ShowManager` | `showmanager.cpp`, `configfile.cpp` | the evenings of a season, with what they use of ShowServer |
| `ShowManagerProofs` | theorems about ShowManager | TLAPS |
| `PacketStream` | what a connection promises | abstract |
| `Connection` | `sendPacket`, `packetWrite`, `packetRead`, `connect` | one direction, byte by byte |
| `ConnectionProofs` | theorems about Connection | TLAPS |
| `MediaFile` | `mapfile.cpp`, `mwavfile.cpp`, `lightfile.cpp`, `lightheader.cpp` | operators on a client's files |
| `ClientMedia` | `mediacontroller.cpp`, `lightcontroller.cpp`, the handlers of `showclient.cpp`, the flag of the microcode | four threads and two PRUs |
| `ClientMediaProofs` | theorems about ClientMedia | TLAPS |
| `MC*` | values of the constants | |

`EXTENDS`: BlinkyShow extends ShowServer and ShowClient, which both extend
ShowLink; ShowManager extends TimeUtil and PlayList; ClientMedia extends MediaFile.
FrameClock implements Playback (checked, and its safety proved); Connection
implements PacketStream (checked and proved). ShowServer, ShowClient and ShowManager use a
clock whose `clock` variable is the phase of Playback (stopped, running, ended):
that is what makes it sound to leave frame numbers out of them. Closed belongs
to destructors and does not occur there. ShowClient and ClientMedia are two views
of the same handlers: the first has connections and every client of the show, and
of a file only its name; the second has one client, any packet at any time, and
the files frame by frame.

### FrameClock

`run` and `tick` are cut where another thread can see the difference: the count
(under `frameAccess`), the test of `stopFrame` (outside it), `expires_at`,
`async_wait`, the callbacks. The asio timer is a number of waits and a FIFO of
completed handlers; a handler already in the FIFO keeps its error code, which is
why a cancel may come too late. `sync` is one step, since it holds the lock.
`Backlog` is how many handlers may still be unrun when the owner calls `run` or
`close`: 0 is a clock thread that is prompt, which is what 37 ms between two
ticks normally means; larger values are the race of the two threads. OneChain and
StartIsAnswered hold for Backlog = 0 only. With a larger one, a tick that has
already passed its test re-arms the timer after `run(false)`, and the handler of
an aborted wait (frameclock.cpp:12) cancels the wait of a clock started in between.
What survives every race is checked by FrameClockRacing and proved: types,
SyncConverges, WaitsBounded.

`stops`, `reported` and `syncs` are history variables; only the guard of `Sync`
(the bound `MaxSyncs`) reads one.

### ShowServer, ShowClient, ShowLink, BlinkyShow

A step of the server is what one thread does up to its next access to state that
another thread writes: `show` is ShowSend then ShowSet, `play(true)` is
PlayBegin, PlayRun, PlaySend, and `identify` reads for a packet (IdentRead) and
sends it (IdentSend). `Overlap` and `ClientOverlap` say whether the threads
interleave between these steps (TRUE, what the code allows) or take turns
(FALSE). Properties that hold only when they take turns are checked that way, and
the difference is itself a result: ShowRace is ShowAgreement with overlap. Most
operations here are a few microseconds apart and commands minutes, so the serial
runs describe the usual evening: what they add over a test is the order of
operations, connections that are lost at any point and clients that return.

`framecount` is 0 or 1 (for any other count), and its first value is free: the
constructor does not initialise it. A load may have 0 frames, which the console can
send. `None` as a song is a load that nobody made; `Unlit` are the songs that name no
lights. `server_key` is what `setServerKey` was given: nothing reads it, since
`clientIdent` compares with the key built into ServerClient (`DefaultKey`).
`AcceptFails` is `handleConnect` with an error: every connection is closed, and none
accepted any more, while the show and the song stay; the acceptor is closed, or
left open with nothing accepting on it.
In the client, `mapped` is `isLoaded()` (true for ever after the first file that
was mapped, because `unmap` keeps the pointer) and `music` is what the file
really holds. `stale` is a socket whose read has ended while `is_open` is still
true: `packetRead` does not close it, a keep-alive of the main loop does, minutes
later (ClientNotices; handlers have returned by then). After `stop()` the packets
still queued in the server may be lost (CloseAll). A client whose stream drained
before its clock has ended is AudioDrains. ClientConnectThrows is a server's name that
does not resolve: the exception ends `run`, and the client is `gone`. `clientPlay` is
four steps (the clock, the stream for the audio, the stream once more for the lights,
`isPlaying`), and a stop of the clock thread may come between them.

Left out: LEDs; the back-off of `connect` and `setConfiguration`; the frame a
sync carries (FrameClock has it); a light directory that does not exist; STATUS
and NOP packets, which change nothing in a show; two clients of one name.

### ShowManager

One action per decision of `run`, `playPlaylist` and `waitToStop`. `now` is the
hour and minute, `today` the month and day, and time passes only where the manager
sleeps or polls in vain (`Sleeps`): each of its other steps takes no time. The end
of a song is a step of the clock thread and may come at any moment or never.

`file` is what the configuration file holds, as a function on the settings it
contains; `Edit` writes another one at any time, and `TurnEnds` is the turn of the
run loop in which `hasBeenUpdated` sees it. `Load` is `reset` and then the lines of
the file: a setting that is not in the file keeps its default, the playlist alone
keeps its old value (reset does not touch it). The result of the second load is
ignored in the code, so a file that cannot be opened leaves the defaults. `PlayList`
gives the number of songs of each list, from the lines of the playlist: an entry
counts only after the header of one of the three sections and before the closing
brace or the next header, and only with a number of frames.

`late` is a history variable: the minutes for which the server has been open past its
hours. ServerCloses bounds it by the song or the delay the manager is in when they end,
for configurations whose show lies in the hours of listening (`ShowInHours`); a show
that goes on past them is played to its end first. `cut` is one as well: an acceptor
that closes on an error in the middle of a show leaves the server in it (section 6),
and NoShowBetween speaks of the evenings without that. The body of a playlist is assumed not empty
(FilesAssumption): with an empty one (as in `examples/playlist.cfg`) the loop at
showmanager.cpp:96 spins without a sleep until the show is over, which a model
where only sleeps take time cannot express. SeasonKept says what the season means
with evenings that end before midnight, which is what `HourRange` can express:
the season is looked at once for an evening.

### TimeUtil

The operators are translated as they are written. `MinuteOf` and `DayOf` are the
reference: minutes of a day and days of a year as numbers; the theorems compare the
operators with arithmetic on them. `Hours`, `MinutesInHour`, `Months` and
`DaysInMonth` are parameters: the program has 24, 60, 12, 31, a run a smaller year,
a proof any.

### Connection

Both ends of one direction. `sendPacket` is two steps, as in the code: the write begins
(`Begin`, `Queue`), and `Started` sets `sendInProgress`. It holds `outAccess` between
them, so that another sendPacket and the handlers that take the lock wait (`~starting`
is their guard), and those that do not take it may run. A write moves 1..bytesOut bytes
and a read 1..inBytes bytes: every cut of every packet occurs. The handlers are
WriteRest, WriteNext, WriteDone and ReadSome, ReadExtend, ReadPacket. ReadError is a
failed read of the sender itself: it resets `sendInProgress` whatever is being written,
and closes nothing. A write that fails comes in the two steps the code has: WriteFails
clears `sendInProgress` without the lock, WriteFailed takes the lock, empties the queue
and shuts the socket down, or closes it when the shutdown throws. So the flag may be
cleared before Started sets it, for good (`Stuck`), and a packet may be queued, or a
write begun, between the two halves of the error path.

`Break` is the network; KeepAlive is the loop of the client, whose write then fails,
until the socket is closed and `Connect` makes another one. The handlers of the old
socket need not have run by then: `oldWrite` and `oldRead` are those that fail, and what
they do, they do to the state of the new connection. A new connection starts with an
empty history (`sent`, `received`); the receiver is a new object on the server.

Two things are not pursued (`NotPursued`). Once two writes have begun on the same
buffer, what they do is undefined. And a write of the old socket that was completed
with success, but whose handler runs after `Connect` (`stale`), takes its bytes from the
packet of the new connection: the model has that state, and says nothing of what comes
after it. The answer to a NOP, which the io thread sends, does not occur in the middle
of a `Connect`.

### ClientMedia and MediaFile

The threads are the network's (one handler at a time, `job` says where it is in), the
clock's (`clockJob` when it is inside clockStop), the sound device's (`Callback`) and
the two PRUs. Every call that a handler makes of a controller is one step, and the
threads interleave between the calls: `clientPlay` is ClientPlayClock, ClientPlayAudio,
ClientPlayLight and ClientPlaying. What two threads do to the same fields inside
one call (a clock's `clear` during a load's `map`, say) is a data race and is left
out. The frame of a SYNC is the clock's own count: what a server's sync does to that
is FrameClock. The numbers of a clock that does not run are left out (`NotRunning`).

MediaFile is the files. `mapped` is the set of addresses the kernel has mapped;
`wav` and `light` are the pointers, which an unmap leaves as they were, so that
`isLoaded()` stays true. `MapAt` maps at any address that is not mapped, the one where
the stale pointer of the other file points as well, or fails. `shared` is a history
variable: the files that are mapped at such an address, which the next unmap of the
other file takes away.

Sound is counted in samples. A video frame is `Rate / Scale` of them (44100 * 0.037 =
1631.7 in the code), rounded where the code rounds (`Place`, `Length`), and the device
asks for `Asked` (1632) at a time. `Word` stands for 2^32, and every difference that the code
takes of unsigned numbers is taken modulo `Word`. `extent` and `lightExtent` are what
is really in a file, which its header need not know. `Buffer` is how much loadBuffer
copies, and `fault` how the process may end: a copy beyond the buffer, a division by
the sample size 0, a read of what is not mapped, a negative length of lights. `sought`
is a history variable: the frame whose position requestData set last in this song, or
NotSought. `astray` is another: the stream that runs was started on a clock that does
not run, or not for the show's audio.

PRU memory is a header of four words and the data after it; only whether a word
holds pixels is kept. `initPRU` clears the flag at word 2. The microcode takes
the flag and, in START, reads the type; its output is not modelled.

`useSync` is TRUE (as `ShowClient::initialize` sets it), the light directory exists,
the search for a device finds one or not.

## 3. The runs

| Run | Question | States | Bounds |
|---|---|---|---|
| FrameClockPrompt | Does a prompt clock keep one chain of ticks, name each frame, answer each start, and implement Playback? | 1887 | songs 0..3, 1..5 and an empty one; 3 syncs to frames 2, 8, 14 |
| FrameClockRacing | What holds when `run` and `tick` race? | 17280 | Backlog 2; 1 sync |
| ShowSerial | Do server and client agree whatever is called and whatever connection is lost? Does a stop arrive? | 668324 | 1 client with sound, 2 songs, 1 lost connection, queue 1 |
| ShowKeys | What does the key of the configuration admit, in every interleaving? | 17176 | 1 client with that key, 1 song |
| ShowRace (violation) | Does ShowAgreement survive interleaving? | | 1 client, 1 song |
| ShowSecondSong (violation) | Does a playing server send syncs? | | 1 song, played twice |
| Evening | Is the evening run to its end whatever fails, in its season, the server closed in time, and an edited configuration read? | 25727 | days of 2 hours of 5 minutes in a year of 4 days, 1 + 2 + 1 songs, runaway after 2, two files |
| EveningLate (violation) | Does a show start that starts after the server? | | as Evening, one file |
| TimeHours (violation) | Is a time that `HourRange::inRange` accepts in the range? | | 3 hours of 4 minutes |
| ConnectionStream | Do packets arrive whole, in order, all? Is a broken connection noticed? | 546366 | 3 packets of 2 or 4 bytes, header 2, 1 broken connection |
| ConnectionWrites (violation) | Is there ever more than one write at a time? | | 2 packets |
| ClientMedia | What can unmap a file, do sound and frame count stay together, does the stream end, are the PRUs dark at first? | 728817 | 2 addresses; music of 7 samples (Rate 5, Scale 2, Asked 3, Word 256) of which the file has 6, and one of another format; lights of 3 frames of 4 and an unsupported file; PRUs at 0 and 6, 9 long |

Why the bounds are enough. The songs of FrameClock cover one that starts at 0,
one joined in the middle, and one whose first tick ends it; the sync frames lie
within TOLERANCE, within BAND and beyond it for some frame each. One client is
enough for the properties of the show, and lights do not take part in them (`UseLights`
= {}: ShowKeys and ShowRace have them), since the server treats each connection by
itself: `sendAll` sends to each what it would send if it were alone, and only
`identify`, for one client at a time, tells clients apart. `MaxQueue` = 1 only
delays new calls until a client has read what it was sent; several packets still
queue up (a stop and a sync, and what `identify` sends), in every order. Two songs
tell a stale song from the current one; one lost connection, with returning
clients after `stop()` as often as the operator likes, lets every handler meet a
client that came back. Of the packets one is a header only and one two bytes longer, so that each
branch of `packetRead` happens with and without a cut; three of them put one in
the write, one in the queue and one on the wire; with one broken connection every
handler of the old socket may run at every point of the new one. Winter lies over
the new year and Spring does not; the playlist has entries before its first
section, a section nobody knows and an entry without frames; a song may end before,
in and after its runaway limit, in a show that is on or over. A frame of 5/2 samples
and buffers of 3 make positions round both ways and part from the frames they are
counted by; the song ends in the middle of a frame, and its header promises more than
there is, so that every branch of load, setFrame, frameCount and loadBuffer that
properties can tell apart happens; the other file has a format but no data. One PRU takes a
whole frame, one starts beyond the end of it; two addresses are enough for two files
that are both mapped, or one at the other's stale address. The search for a sound device
succeeds (`Devices` = {TRUE}): StreamEnds is about a device that stays plugged in.

Fairness. FrameClock: an armed timer expires, the io thread runs its handlers, and
a call of `run` that was entered returns; calls themselves are free. BlinkyShow:
each thread that is inside an operation goes on, a song ends, the acceptor and the
client thread run, a client reads what was sent and looks for a server; commands,
losses of connections and failures of the acceptor have no fairness. ShowManager: its
thread runs and time passes; a running clock need not end, nobody need edit the file. Reloads excludes
`cut`, because an acceptor that fails again and again keeps the manager opening it
in no time. Connection: the io threads run, the network carries what it was given
until it breaks, the loop of the client gets to its keep-alive, sendPacket goes on to
its second half, and the read of a socket that is not open ends with an error. ClientMedia: a
handler that has begun ends, the clock ticks, the sound device asks; packets and
PRUs are free. Strong fairness is used nowhere.

`CHECK_DEADLOCK FALSE` is set where the system may stop: a closed clock, a server
that does not listen, a season that is over, a stream whose packets are through.

Each property has a mutant (the `Mutant` definitions beside the operators, listed
in PROJECT.json): a plausible mistake in that code which makes the run fail.

## 4. What is proved

Each theorem holds for every value of the constants that the ASSUMEs of its module
allow (TLC evaluates those), and for what is stated in addition in the theorem
itself, given here after "with".

`FrameClockProofs`:

- `TypeCorrect`: Spec => []TypeOK. The one step that needs arithmetic is `Sync`:
  `SyncedType` shows the nudge stays a natural number, because a frame that must
  go down lies more than TOLERANCE above another natural number.
- `WaitsAreBounded`: Spec => []WaitsBounded, for every `Backlog`. WaitsBounded is
  not inductive: RunWait and TickWait each add a wait. `WaitsInv` counts the
  threads that are about to, which `expires_at` and `expires_after` have just left
  with an empty timer.
- `SyncSettles`: Spec => SyncConverges, from `SyncedConverges` and the types.
- `PromptClockHasOneChain`: with Backlog = 0, Spec => []OneChain. OneChain counts
  what is in a queue and is not inductive; `PromptInv` says where the one chain
  is: at most one handler is in the queue, a tick or a call in progress excludes
  waits and handlers, and a stopped clock has neither.
- `PromptClockImplementsPlayback`: with Backlog = 0, Spec => P!Init /\ [][P!Next].
  `ChainsAlive` replaces the count of chains by a disjunction, and each action is
  a step of Playback or invisible to the owner.
- `PromptClockSkipsNoFrame`: with Backlog = 0, Spec => ConsecutiveUpdates. `InOrder`
  says that the chain which is alive counts on from the frame last reported, and that
  a tick in progress is one ahead of it; with two chains a tick of the other would
  come in between, which is why it rests on `PromptInv`.

`BlinkyShowProofs`:

- `ShowTypes`: Spec => []TypeOK, for any number of clients and songs, with threads
  interleaved or not. `Inv` is inductive: `ServerInv` (a packet that identify holds
  means that it is between its two steps), the types of the links, `ClientsGood`.
- `SoundOnlyInShows`: with ClientOverlap = FALSE and a client that has the music
  of each song it has the lights of, Spec => []AudioOnlyInShow. `Sound` (part of
  `Inv`) says what keeps a stream from outliving the show: a stream that runs has
  been started by a `clientPlay` in a show, `isPlaying` or the clock is still there
  to stop it, and run forgets the show only when neither is. Without the assumption
  on the files it is not inductive: `clientPlay` starts the stream for the lights
  too, and clockStop asks for `useAudio` only. The server's threads interleave freely.
- `OnlyBuiltInKeyAlways`: Spec => []OnlyBuiltInKey, in every interleaving and whatever key the
  server is configured with. `Outside` says what a client without the key built in cannot
  have: a packet on its way, an identify in progress, a connection that is identified
  (`Shut`), a show, a song or a stream (`Silent`). That the configured key admits nobody
  is the case ShowKeys shows: there the client has it.

`ShowAgreementProofs`, for every set of clients and songs, every MaxQueue and number of
drops, all threads interleaved or not. With Overlap = TRUE the properties are false as
they stand (ShowRace for the first), so the theorems name the race that each cannot
survive and no other: `NoShowRace`, no `show` of the caller is between its packet and
its assignment while identify is at its first packet; `NoLoadRace`, no `load` comes
while identify has the load before it in hand. Every other overlap is allowed. Before
the proofs TLC searched small instances with the condition as a CONSTRAINT and found
no error: NoShowRace with ShowRace's constants and one lost connection, NoLoadRace with
two songs and the client's threads in turn. Without the condition it found each of the
two false. That threads which take turns never race (`TurnsWithoutRace`) gives the two
properties of ShowSerial for Overlap = FALSE as corollaries (`ShowsAgree`, `SongsAgree`).

What server and client agree on is on its way through a queue, so the invariants
speak of the queue: of the packets of one kind the last decides (`Latest`), and only
without one (`Missing`) what the client has already. Lemmas say what sending and
reading a packet does to that. `OfItsKind` says which packet identify has in hand at
which of its steps, `Linked` that a connection is told nothing before its key has come.

- `ShowsAgreeUnlessRaced`: Spec /\ []NoShowRace => []ShowAgreement. `Agreed`: what a client
  will hear (`Hears`) is what it has been told (`ToldShow`), which differs from `inShow`
  between the two steps of show, and while identify has its first packet to send;
  `Announced` says that packet is still true when it is sent: a `stop()` in between
  forgets the show, but closes the connection the packet was for as well.
- `SongsAgreeUnlessRaced`: Spec /\ []NoLoadRace => []SameSong. `Songed`: a client with sound that has been informed
  will hold the server's song or none (`Follows`), and its stream is in order (`Tuned`);
  one without a sound device has no stream that could play.

`ShowManagerProofs`:

- `ManagerTypes`: Spec => []TypeOK, for every configuration that is edited at any
  time; no delay or wait goes on beyond its limit.
- `ManagerWaitsForServer`, `NoShowBetweenShows`: WaitsForServer and NoShowBetween, by
  `Attended`: a server that plays has a clock that is not stopped, so that
  play(false) gets through to it, and a manager inside a show has an open server.
- `ServerClosesInTime`: Spec => []ServerCloses, for every configuration and playlist. A song
  begins only in the time of the show, hence, where that lies in the hours of
  listening, with `late` = 0; after that `late` does not outrun what the manager waits for.
- `ServerOpensInSeason`: with `OneDay` for every file, Spec => SeasonKept. `OneDay` is
  what SeasonKept takes for granted: nobody listens over midnight, and neither a
  delay nor a song that begins in the time of the show lasts until midnight; or the
  season is the whole year. It is needed: the run Evening with a runaway limit of 4
  minutes in its days of 10 finds a show that goes on into the first day after the
  season, an acceptor that fails in it, and a server that opens again. `InTime` says that
  what the manager waits for ends on the day it began, so that the day it opens on is
  the one it looked at; `SeasonIsSpan` turns inRange into the days of SeasonKept.

`TimeUtilProofs`, for every length of the hour, the day, the month and the year:

- `SeasonIsSpan`: MonthRange::inRange holds on the days from the first to the last,
  and over the turn of the year.
- `PlusMovesOn` up to a day, `MinusMovesBack` up to an hour (beyond that the borrow
  is wrong, section 6), `SinceMeasures`.

`ConnectionProofs`, for every set of packets, any lengths, any number of packets
and broken connections:

- `NoPacketStranded`: Spec => []NoneStranded, with the two halves of sendPacket apart.
  `Attended` adds the converse half: while the connection lasts, a set `sendInProgress`
  has a write to clear it, or one that begins. Where the connection has ended that is
  false (`Stuck`), which is why NoneStranded speaks of connections that last.
- `ConnectionTypes`: Spec => []TypeOK; the part that is not a type is that a read asks
  for at least one byte and for no more than its packet has left.
- `ConnectionDelivers`: Spec => Delivers, that is: Connection implements PacketStream.
  Nothing in `sent` and `received` says what is on its way between them, so the proof
  keeps a `Ledger` of it: the bytes in the receiver's buffer followed by those on the
  wire (`Line`) are the packets sent after the ones processed (`OnLine`), one behind
  the other from the places `pos` (`Laid`), of which the last need not be there to its
  end; while the connection lasts, the line ends where the write in progress has got
  to, and what was sent after that is what is in the queue (`Pending`). A break cuts
  the line (`LaidCut`), a write that begins adds a packet to it (`LaidBegin`), a write
  that moves bytes lengthens it (`LaidGrow`), a packet that is read leaves its front
  (`LaidShift`, `EndsShift`). The packet processed is then the first on the line,
  which is the next of `sent`.
- `PacketsFramed`: Spec => []Framed, from the same ledger: what is in the buffer is the
  beginning of the first packet on the line.

`ClientMediaProofs`, for every file, rate, buffer of the device and configuration of the
PRUs, wherever the kernel maps a file and whether or not it does:

- `AudioStaysMapped`, `LightsStayMapped`: AudioMapped and LightsMapped. `FilesKept` adds
  that two files which are loaded are at different addresses, unless one is `shared`, and
  that data comes with a format.
- `SoundInStep`, `SoughtSongsFit`: InStep and SoughtFits. `Synced` says that the position
  is where the frame last sought begins and, for each frame counted since, a buffer
  further, and not beyond the end of the data. `PlaceRounds` bounds what rounding does, and
  `Drift` what buffers and frames differ in.
- `PrusDarkUntilFrame`: DarkUntilFrame, by `Woken` (the types of PRU memory).
- `ClientTypes`: with `Bounded` (there is a longest song and a last frame to start
  with), Spec => []TypeOK, wherever the kernel maps files. What is not a type in it is how
  far the counts go: a clock that runs is not past the longest song (`Ranged`), so the
  sync frame is not either, and requestData goes on only from a frame next to the
  sync frame, or from that itself.
- `CopyFits`: for a frame less than half the word long and an offset within it,
  LightController::sync and LightFile::copy together copy at least nothing and
  never past its end.

Only model-checked: all liveness (StartIsAnswered, StopReachesClients, WaitEnds, Reloads,
Arrives, Notices, StreamEnds, and the fairness of Playback), since the prover has
neither fairness nor ENABLED to reason with. Every invariant and every
action property of the passing runs is proved, under the conditions given above.

## 5. Not modelled

Parsing of the lines of configuration and playlist files (a line is what it means);
the byte layout of packets; LEDs (`setLed` writes to the kernel's files and nothing
reads them); pixel values, their order and the microcode that shifts them out (its
correctness is timing); `useSync` false; the search for a sound device; the STATUS
reply, `checkBroken` and the bookkeeping of names and times, which nothing but the
console shows; `bind`; two writes at once beyond their beginning; formatting and
logging. asio and RtAudio are third-party code and occur as external actions. They
are most of the lines of the repository.

## 6. Known differences

Findings with a run (PROJECT.json quotes the lines):

- ShowRace: `show` sends before it sets `inShow` (showserver.cpp:294).
- ShowSecondSong: a song that ran to its end keeps `internal_state` (frameclock.cpp:22),
  so the next one has no clock, no syncs and no end until somebody stops it; ShowManager
  gives it up after seven minutes (showmanager.cpp:24), and then the one after it has a
  clock again.
- EveningLate: the time of the show is looked at only when the server opens.
- TimeHours: `operator<` of HourMinute compares minutes of different hours
  (timeutil.cpp:75), so that 23:30 is in 18:00,22:30.
- ConnectionWrites: a read error clears `sendInProgress` during a write.

Met while modelling, in the behaviour of the modules and without a run of their own:

- `setServerKey` never reaches the ServerClient that compares the key
  (showserver.cpp:98-102, 167, serverclient.cpp:14, 31): a server that is configured with
  another key than the one built in lets the clients in that have the built-in one and
  refuses those that have its own (OnlyBuiltInKey, ShowKeys).
- The light branch of `clientPlay` asks the media controller (showclient.cpp:343): a
  client that has a song's lights and no sound, be it its configuration, its device or
  a missing file, plays the song dark (PlayLight; ClientPlayLight).
- sendPacket sets `sendInProgress` after it has begun the write (client.cpp:341-342). When
  that write fails at once, on the io thread, the flag has been cleared already (112, 114)
  and is then set for good: after a failed read, nothing writes to that socket
  any more and nothing closes it (`Stuck`, the exception in Notices).
- With Backlog > 0 OneChain and StartIsAnswered are false: a tick re-arms the timer after
  `run(false)` (frameclock.cpp:31), an aborted wait cancels the next one (12).
- `unmap` keeps the pointer (mapfile.cpp:177): a stream may run with `music = None`
  after a load that failed.
- `run` of the client stays in its loop while `isPlaying` (showclient.cpp:205): with
  a clock that did not start, a lost connection is for ever.
- `playPlaylist` of the epilogue needs the time of the show, which is over when it is
  called (showmanager.cpp:34, 96-104): no song of it is played.
- An acceptor that closed in the middle of a show leaves `server.inShow` true
  (showmanager.cpp:101-107): NoShowBetween is false without `~cut`.
- `HourMinute::operator-(int)` borrows one hour for any number of minutes
  (timeutil.cpp:115): MinusMovesBack is false beyond an hour.
- `packetRead` builds an empty queue where its comment clears the output
  (client.cpp:67-69).
- With ClientOverlap, a song that ends inside `clientPlay` leaves the stream running
  with `isPlaying` false (showclient.cpp:335-349): AudioOnlyInShow is false then.
- With Overlap, SameSong is false too: identify may send the load it has read after a
  newer one (the only race that breaks it, section 4). So is
  StopReachesClients: a play can reach a client after the stop that was meant to end it.
- A client with a song's lights but without its music may sound outside a show: the
  light branch starts the stream, clockStop stops it only for `useAudio`. The stream has
  no format either, and loadBuffer divides by a sample size of 0 (mwavfile.cpp:169;
  fault = "division").

The sound:

- `play(true)` does not set the position (only `requestData` does, when frame and
  sync are two apart): the second song starts at the `currentOffset` of the first, and
  when its file is shorter, the size minus the position wraps and a buffer is overrun
  (mwavfile.cpp:160; fault = "overrun", which SoughtFits excludes for a song that was sought).
- With a clock that does not tick, the sync frame stays, and requestData returns to
  the first frames again and again: the song does not end. StreamEnds is about a clock
  that runs.
- `return 2` of requestData cannot be reached (mediacontroller.cpp:62-67).
- clockStop on the clock thread may clear the file which clientLoad on the network
  thread has just mapped: the new song is then silent.
- An unmap by a stale pointer takes away whatever is mapped there by then
  (mapfile.cpp:177-188): the other file, where the kernel has used the address again
  (fault = "unmapped"), or anything else of the process, which is not modelled. AudioMapped
  and LightsMapped say that there is no other way to lose a file.
- A song that ends inside `clientPlay`, or a clock that run did not start, leaves a
  stream that goes round and round until a stop, a load or the end of the show (`astray`).
- Only counters are compared, never positions: a buffer is 1632 samples and a frame 1631.7,
  so the frame that is counted falls behind the position, and after some seven minutes is two
  behind the clock: requestData then seeks to where the position is already. A device that
  takes another buffer size does so every few frames (InStep has the rate).
- `play(true)` of a device that was unplugged is assumed to succeed; positions of 2^32
  bytes, a song of 6.8 hours, are not reached.
- The size in the `data` chunk is believed, whatever the size of the file
  (mwavfile.cpp:115), and so is a sample size other than the device's.

The lights:

- Pixels are copied to the beginning of PRU memory, over the header that the microcode
  reads (lightcontroller.cpp:170, microcode.asm:130), and nothing but those bytes ever sets
  DATAREADY: that is why a frame may or may not wake a PRU in the model.
- An offset of a PRU beyond the frame gives a negative length (lightfile.cpp:77-80;
  fault = "lights").
- A signature nobody knows is accepted with an empty header, since the exception is not
  thrown (lightheader.cpp:62); the old format is never accepted, since a float is compared
  with the double 0.037 (lightheader.cpp:41).
- An empty light name leaves the old light file loaded, and clientShow(false) too.

The configuration and the console:

- The local `key` shadows the member: KEY is never set (configfile.cpp:44-50).
- `frameupdate` reaches the server at the start of run only (showmanager.cpp:65), and
  reset keeps it and the playlist; 0 divides by zero in clockUpdate.
- A reload that fails leaves a season of one day, this one; an edit between the read and
  `last_write_time`, or within the same second, is never seen; a file that is gone ends
  the program with an exception (configfile.cpp:77-84).
- `play 0/1 framenumber` ignores the frame (ServerEmu/main.cpp:101, 175).

## 7. Plan

Written in this order, the most important behaviour first: FrameClock and its
proofs; the show (ShowLink, ShowServer, ShowClient, BlinkyShow); ShowManager;
TimeUtil; Connection with its failures; configuration and playlist; the client's
files, sound and lights; the proofs of the show, the manager, the times, the
connection and the media. What is left:

1. ShowManager shown to be a Caller of ShowServer (refinement), and ClientMedia shown
   to implement the client of BlinkyShow.
2. What two writes on one buffer may do to the stream.
