----------------------------- MODULE ShowServer -----------------------------
(***************************************************************************)
(* ShowServer/showserver.cpp and serverclient.cpp: the server's three      *)
(* threads that touch the state of a show and share no lock over it.       *)
(*   - the caller (the console of ServerEmu, or ShowManager) runs listen,  *)
(*     stop, show, load and play;                                          *)
(*   - the clock thread runs clockUpdate and clockStop;                    *)
(*   - the client thread handles IDENT, and in it runs identify.           *)
(* A step is what one thread does up to its next access to state another   *)
(* thread writes.  The clock is the Playback that FrameClock implements:   *)
(* frame numbers are abstracted, a song may end at any time.               *)
(***************************************************************************)
EXTENDS ShowLink

CONSTANTS
    DefaultKey,     \* 0xdeadbeef, built into ShowServer and ServerClient
    ServerKey,      \* the key that is set before run: that of server.cfg
    Overlap         \* TRUE: the threads interleave step by step; FALSE: one
                    \* begins an operation only when the others are idle

ASSUME KeyAssumption == {DefaultKey, ServerKey} \subseteq Keys
ASSUME OverlapAssumption == Overlap \in BOOLEAN

VARIABLES
    listening,      \* the acceptor is open
    inShow,
    isPlaying,
    framecount,     \* 0, or 1 for any other count
    music,          \* the song of the last load (music and lights)
    clock,          \* the phase of the FrameClock
    callPc,         \* the caller inside show, play(true) or play(false)
    showState,      \* the argument of the show in progress
    clockPc,        \* the clock thread inside clockStop
    idPc,           \* the client thread inside identify: which packet is next
    idClient,       \* for which client
    idPacket,       \* the packet identify has built and not sent
    accepting,      \* an async_accept waits for the next connection
    server_key      \* of ShowServer; no ServerClient is given it

server == <<listening, inShow, isPlaying, framecount, music, clock>>
caller == <<callPc, showState>>
identity == <<idPc, idClient, idPacket>>
acceptor == <<accepting, server_key>>
serverVars == <<server, caller, clockPc, identity, acceptor>>

ServerType ==
    /\ listening \in BOOLEAN /\ inShow \in BOOLEAN /\ isPlaying \in BOOLEAN
    /\ framecount \in 0..1
    /\ music \in Songs \cup {None}
    /\ clock \in {"stopped", "running", "ended"}
    /\ callPc \in {"idle", "show", "run", "send", "stopSend", "stopClear"}
    /\ showState \in BOOLEAN
    /\ clockPc \in {"idle", "clear"}
    /\ idPc \in {"idle", "show", "load", "play"}
    /\ idClient \in Clients
    /\ idPacket \in Packets \cup {None}
    /\ accepting \in BOOLEAN /\ server_key \in Keys

\* The constructor leaves framecount as it finds it.
ServerInit ==
    /\ listening = FALSE /\ inShow = FALSE /\ isPlaying = FALSE
    /\ framecount \in 0..1
    /\ music = None
    /\ clock = "stopped"
    /\ callPc = "idle" /\ showState = FALSE
    /\ clockPc = "idle"
    /\ idPc = "idle" /\ idClient \in Clients /\ idPacket = None
    /\ accepting = FALSE /\ server_key = DefaultKey

ThreadMayBegin == Overlap \/ (callPc = "idle" /\ clockPc = "idle" /\ idPc = "idle")
CallerMayBegin == callPc = "idle" /\ RoomToSend /\ ThreadMayBegin

-----------------------------------------------------------------------------
(* The caller. *)

\* setServerKey and run(port).
Listen ==
    /\ CallerMayBegin /\ ~listening
    /\ server_key' = ServerKey
    /\ listening' = TRUE /\ accepting' = TRUE
    /\ UNCHANGED <<inShow, isPlaying, framecount, music, clock, caller, clockPc, identity, link>>

\* stop(): the clients are told nothing and the clock runs on.
Stop ==
    /\ CallerMayBegin
    /\ listening' = FALSE /\ inShow' = FALSE /\ isPlaying' = FALSE
    /\ accepting' = FALSE
    /\ CloseAll
    /\ UNCHANGED <<framecount, music, clock, caller, clockPc, identity, server_key, sock, toServer>>

\* show(state): the packet first, inShow after it.
ShowSend(state) ==
    /\ CallerMayBegin
    /\ SendAll(Show(state))
    /\ callPc' = "show" /\ showState' = state
    /\ UNCHANGED <<server, clockPc, identity, acceptor, conn, sock, toServer>>

\* The stop that play(false) and the end of a show share.
StopClock ==
    /\ clock' = "stopped"
    /\ IF clock = "stopped"
       THEN callPc' = "idle" /\ framecount' = 0
       ELSE callPc' = "stopSend" /\ UNCHANGED framecount

ShowSet ==
    /\ callPc = "show"
    /\ inShow' = showState
    /\ IF ~showState /\ isPlaying THEN StopClock
       ELSE callPc' = "idle" /\ UNCHANGED <<clock, framecount>>
    /\ UNCHANGED <<listening, isPlaying, music, showState, clockPc, identity, acceptor, link>>

\* load(framecount, music, light); a count of 0 comes from the console only, as
\* a playlist has no such entry.
LoadSong(song, frames) ==
    /\ CallerMayBegin
    /\ framecount' = frames
    /\ music' = song
    /\ SendAll(Load(song))
    /\ UNCHANGED <<listening, inShow, isPlaying, clock, caller, clockPc, identity, acceptor, conn, sock, toServer>>

\* play(true), refused while isPlaying.
PlayBegin ==
    /\ CallerMayBegin /\ ~isPlaying
    /\ isPlaying' = TRUE
    /\ callPc' = "run"
    /\ UNCHANGED <<listening, inShow, framecount, music, clock, showState, clockPc, identity, acceptor, link>>

\* clock.run(true, 0, framecount): nothing when the clock is in use.
PlayRun ==
    /\ callPc = "run"
    /\ clock' = IF clock = "stopped" THEN "running" ELSE clock
    /\ callPc' = "send"
    /\ UNCHANGED <<listening, inShow, isPlaying, framecount, music, showState, clockPc, identity, acceptor, link>>

PlaySend ==
    /\ callPc = "send"
    /\ SendAll(Play(TRUE))
    /\ callPc' = "idle"
    /\ UNCHANGED <<server, showState, clockPc, identity, acceptor, conn, sock, toServer>>

\* play(false): clock.run(false, 0, 0), which calls clockStop on this thread.
PlayStop ==
    /\ CallerMayBegin /\ isPlaying
    /\ StopClock
    /\ UNCHANGED <<listening, inShow, isPlaying, music, showState, clockPc, identity, acceptor, link>>

StopSend ==
    /\ callPc = "stopSend"
    /\ SendAll(Play(FALSE))
    /\ callPc' = "stopClear"
    /\ UNCHANGED <<server, showState, clockPc, identity, acceptor, conn, sock, toServer>>

StopClear ==
    /\ callPc = "stopClear"
    /\ isPlaying' = FALSE /\ framecount' = 0
    /\ callPc' = "idle"
    /\ UNCHANGED <<listening, inShow, music, clock, showState, clockPc, identity, acceptor, link>>

Caller == \/ Listen \/ Stop
          \/ \E state \in BOOLEAN : ShowSend(state)
          \/ ShowSet
          \/ \E song \in Songs, frames \in 0..1 : LoadSong(song, frames)
          \/ PlayBegin \/ PlayRun \/ PlaySend
          \/ PlayStop \/ StopSend \/ StopClear

-----------------------------------------------------------------------------
(* The clock thread. *)

\* clockUpdate at a frame that is a multiple of frameUpdate, or frame 3.
ClockUpdate ==
    /\ clock = "running" /\ clockPc = "idle" /\ RoomToSend
    /\ SendAll(Sync)
    /\ UNCHANGED <<serverVars, conn, sock, toServer>>

\* The tick that reaches stopFrame; clockStop sends first.
ClockEnd ==
    /\ clock = "running" /\ clockPc = "idle" /\ ThreadMayBegin
    /\ clock' = "ended"
    /\ SendAll(Play(FALSE))
    /\ clockPc' = "clear"
    /\ UNCHANGED <<listening, inShow, isPlaying, framecount, music, caller, identity, acceptor, conn, sock, toServer>>

\* Mutant: the frames are counted down, not cleared.
ClockClearOne ==
    /\ clockPc = "clear"
    /\ isPlaying' = FALSE /\ framecount' = framecount - 1
    /\ clockPc' = "idle"
    /\ UNCHANGED <<listening, inShow, music, clock, caller, identity, acceptor, link>>

\* clockStop: what it clears, whatever the caller has set in between.
ClockClear ==
    /\ clockPc = "clear"
    /\ isPlaying' = FALSE /\ framecount' = 0
    /\ clockPc' = "idle"
    /\ UNCHANGED <<listening, inShow, music, clock, caller, identity, acceptor, link>>

ClockThread == ClockUpdate \/ ClockEnd \/ ClockClear

-----------------------------------------------------------------------------
(* The acceptor's thread. *)

\* handleConnect with an error: every connection is closed, and none is accepted
\* any more, be the acceptor closed or, after an aborted connection, open.  The
\* show and the song stay.
AcceptFails ==
    /\ accepting /\ ThreadMayBegin
    /\ accepting' = FALSE
    /\ \/ listening' = FALSE /\ CloseAll
       \/ UNCHANGED listening /\ CloseOf({c \in Clients : conn[c] # "backlog"})
    /\ UNCHANGED <<inShow, isPlaying, framecount, music, clock, caller, clockPc, identity, server_key, sock, toServer>>

(* The acceptor and the client thread. *)

\* handleConnect.
HandleConnect(c) ==
    /\ accepting /\ conn[c] = "backlog"
    /\ conn' = [conn EXCEPT ![c] = "accepted"]
    /\ UNCHANGED <<serverVars, sock, toClient, toServer>>

\* clientIdent with another key: the socket is closed, nothing is read again.
IdentRefuse(c) ==
    /\ idPc = "idle" /\ conn[c] \in {"accepted", "client"}
    /\ toServer[c] # <<>> /\ Head(toServer[c]) # DefaultKey
    /\ conn' = [conn EXCEPT ![c] = "none"]
    /\ toServer' = [toServer EXCEPT ![c] = <<>>]
    /\ UNCHANGED <<serverVars, sock, toClient>>

\* Mutant: the key is not looked at.
IdentBeginAnyKey(c) ==
    /\ idPc = "idle" /\ conn[c] \in {"accepted", "client"} /\ ThreadMayBegin
    /\ toServer[c] # <<>>
    /\ conn' = [conn EXCEPT ![c] = "client"]
    /\ toServer' = [toServer EXCEPT ![c] = Tail(@)]
    /\ idPc' = "show" /\ idClient' = c
    /\ UNCHANGED <<server, caller, clockPc, idPacket, acceptor, sock, toClient>>

\* clientIdent: the type is set, then identify is called.  The key is compared
\* with that of the ServerClient, which is always the one built in.
IdentBegin(c) ==
    /\ idPc = "idle" /\ conn[c] \in {"accepted", "client"} /\ ThreadMayBegin
    /\ toServer[c] # <<>> /\ Head(toServer[c]) = DefaultKey
    /\ conn' = [conn EXCEPT ![c] = "client"]
    /\ toServer' = [toServer EXCEPT ![c] = Tail(@)]
    /\ idPc' = "show" /\ idClient' = c
    /\ UNCHANGED <<server, caller, clockPc, idPacket, acceptor, sock, toClient>>

NextPacket == [show |-> "load", load |-> "play", play |-> "idle"]

\* Mutant: a client that comes back is not told the song.
WantedNoLoad == [show |-> inShow, load |-> FALSE, play |-> isPlaying]

\* What identify tells a client about the state it reads, packet by packet.
Wanted == [show |-> inShow, load |-> framecount # 0, play |-> isPlaying]
Told   == [show |-> Show(TRUE), load |-> Load(music), play |-> Play(TRUE)]

\* identify reads the state for its next packet: builds the packet or skips it.
IdentRead ==
    /\ idPc # "idle" /\ idPacket = None
    /\ IF Wanted[idPc] THEN idPacket' = Told[idPc] /\ UNCHANGED idPc
       ELSE idPc' = NextPacket[idPc] /\ UNCHANGED idPacket
    /\ UNCHANGED <<server, caller, clockPc, idClient, acceptor, link>>

IdentSend ==
    /\ idPacket # None
    /\ SendTo(idClient, idPacket)
    /\ idPacket' = None
    /\ idPc' = NextPacket[idPc]
    /\ UNCHANGED <<server, caller, clockPc, idClient, acceptor, conn, sock, toServer>>

ClientThread ==
    \/ \E c \in Clients : HandleConnect(c) \/ IdentRefuse(c) \/ IdentBegin(c)
    \/ IdentRead \/ IdentSend
=============================================================================
