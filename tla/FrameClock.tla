----------------------------- MODULE FrameClock -----------------------------
(***************************************************************************)
(* controllers/frameclock.cpp: the clock that drives a song, at the grain  *)
(* of its two threads.  The owner (a caller of run, sync, close) and the   *)
(* clock's own io thread (which runs tick) share currentFrame, stopFrame   *)
(* and an asio::steady_timer.  frameAccess guards the increment in tick    *)
(* and the whole of sync; run takes no lock at all.                        *)
(*                                                                         *)
(* The timer is external.  What is used of it: async_wait adds a wait;     *)
(* expiry completes every pending wait with success; cancel, expires_at    *)
(* and expires_after complete every pending wait with operation_aborted;   *)
(* a completed wait is a handler in the io thread's FIFO, and a handler    *)
(* already there keeps its error code whatever is cancelled later.         *)
(***************************************************************************)
EXTENDS Integers, Sequences, FiniteSets

CONSTANTS
    Spans,          \* the (first frame, end frame) pairs run(true) is given
    SyncFrames,     \* the frames sync is given
    MaxSyncs,       \* bound: calls of sync in a behaviour
    Backlog         \* bound: handlers the io thread may still have to run
                    \* when the owner calls run or close; 0 is a clock thread
                    \* that is prompt (see README)

TOLERANCE == 3
BAND == 9

ASSUME SpansAssumption == Spans \subseteq (Nat \X Nat)
ASSUME SyncAssumption == SyncFrames \subseteq Nat /\ MaxSyncs \in Nat
ASSUME BacklogAssumption == Backlog \in Nat

VARIABLES
    internal_state, \* run(true) has taken effect and run(false) has not
    currentFrame,
    stopFrame,
    waiting,        \* the timer: waits neither expired nor cancelled
    ready,          \* the io thread's FIFO of completed waits
    tickPc,         \* the io thread inside tick
    runPc,          \* the owner's thread inside run
    stops,          \* history: stop callbacks since the last start
    reported,       \* history: frame last given to updateCallback since the
                    \* last start or sync, or None
    syncs           \* history: calls of sync so far

timer == <<waiting, ready>>
history == <<stops, reported, syncs>>
vars == <<internal_state, currentFrame, stopFrame, timer, tickPc, runPc, history>>

None == -1
Codes == {"ok", "aborted"}

TypeOK ==
    /\ internal_state \in BOOLEAN
    /\ currentFrame \in Nat
    /\ stopFrame \in Nat
    /\ waiting \in Nat
    /\ ready \in Seq(Codes)
    /\ tickPc \in {"idle", "compare", "stop", "rearm", "wait", "update"}
    /\ runPc \in {"idle", "wait", "callback", "closed"}
    /\ stops \in Nat
    /\ reported \in Nat \cup {None}
    /\ syncs \in Nat

Init ==
    /\ internal_state = FALSE
    /\ currentFrame = 0
    /\ stopFrame = 0
    /\ waiting = 0
    /\ ready = <<>>
    /\ tickPc = "idle"
    /\ runPc = "idle"
    /\ stops = 0
    /\ reported = None
    /\ syncs = 0

-----------------------------------------------------------------------------
(* The timer. *)

CancelWaits(queue) ==
    /\ ready' = queue \o [i \in 1..waiting |-> "aborted"]
    /\ waiting' = 0

AsyncWait == waiting' = waiting + 1 /\ UNCHANGED ready

\* The expiry time passes.
Expire ==
    /\ waiting > 0
    /\ ready' = ready \o [i \in 1..waiting |-> "ok"]
    /\ waiting' = 0
    /\ UNCHANGED <<internal_state, currentFrame, stopFrame, tickPc, runPc, history>>

-----------------------------------------------------------------------------
(* The io thread: tick, one step for each access to what the threads share. *)

\* A wait was cancelled: tick cancels whatever the timer waits for now.
TickAborted ==
    /\ tickPc = "idle" /\ ready # <<>> /\ Head(ready) = "aborted"
    /\ CancelWaits(Tail(ready))
    /\ UNCHANGED <<internal_state, currentFrame, stopFrame, tickPc, runPc, history>>

\* Mutant of TickCount: a tick counts two frames.
TickCountTwo ==
    /\ tickPc = "idle" /\ ready # <<>> /\ Head(ready) = "ok"
    /\ ready' = Tail(ready)
    /\ currentFrame' = currentFrame + 2
    /\ tickPc' = "compare"
    /\ UNCHANGED <<internal_state, stopFrame, waiting, runPc, history>>

\* currentFrame += 1 under frameAccess.
TickCount ==
    /\ tickPc = "idle" /\ ready # <<>> /\ Head(ready) = "ok"
    /\ ready' = Tail(ready)
    /\ currentFrame' = currentFrame + 1
    /\ tickPc' = "compare"
    /\ UNCHANGED <<internal_state, stopFrame, waiting, runPc, history>>

\* currentFrame >= stopFrame, read outside the lock.
TickCompare ==
    /\ tickPc = "compare"
    /\ tickPc' = IF currentFrame >= stopFrame THEN "stop" ELSE "rearm"
    /\ UNCHANGED <<internal_state, currentFrame, stopFrame, timer, runPc, history>>

\* stopCallback; the timer is not armed again and internal_state is not reset.
TickStop ==
    /\ tickPc = "stop"
    /\ stops' = stops + 1
    /\ tickPc' = "idle"
    /\ UNCHANGED <<internal_state, currentFrame, stopFrame, timer, runPc, reported, syncs>>

\* Mutant of TickRearm: the next expiry is set and never waited for.
TickRearmForgotten ==
    /\ tickPc = "rearm"
    /\ CancelWaits(ready)
    /\ tickPc' = "update"
    /\ UNCHANGED <<internal_state, currentFrame, stopFrame, runPc, history>>

\* Mutant of TickRearm: each tick waits on a timer of its own.
TickRearmKeepsWaits ==
    /\ tickPc = "rearm"
    /\ tickPc' = "wait"
    /\ UNCHANGED <<internal_state, currentFrame, stopFrame, timer, runPc, history>>

\* timer.expires_at.
TickRearm ==
    /\ tickPc = "rearm"
    /\ CancelWaits(ready)
    /\ tickPc' = "wait"
    /\ UNCHANGED <<internal_state, currentFrame, stopFrame, runPc, history>>

\* timer.async_wait.
TickWait ==
    /\ tickPc = "wait"
    /\ AsyncWait
    /\ tickPc' = "update"
    /\ UNCHANGED <<internal_state, currentFrame, stopFrame, runPc, history>>

\* updateCallback(currentFrame).
TickUpdate ==
    /\ tickPc = "update"
    /\ reported' = currentFrame
    /\ tickPc' = "idle"
    /\ UNCHANGED <<internal_state, currentFrame, stopFrame, timer, runPc, stops, syncs>>

Tick == \/ TickAborted \/ TickCount \/ TickCompare \/ TickStop
        \/ TickRearm \/ TickWait \/ TickUpdate

-----------------------------------------------------------------------------
(* The owner's thread: run, sync, close. *)

OwnerMayRun ==
    /\ runPc = "idle"
    /\ Len(ready) + (IF tickPc = "idle" THEN 0 ELSE 1) <= Backlog

\* run(true, frame, endFrame) up to timer.expires_after; nothing when the
\* clock is in use.
RunStart(frame, endFrame) ==
    /\ OwnerMayRun
    /\ ~internal_state
    /\ internal_state' = TRUE
    /\ currentFrame' = frame
    /\ stopFrame' = endFrame
    /\ CancelWaits(ready)
    /\ runPc' = "wait"
    /\ stops' = 0
    /\ reported' = None
    /\ UNCHANGED <<tickPc, syncs>>

\* run(true, ...): timer.async_wait.
RunWait ==
    /\ runPc = "wait"
    /\ AsyncWait
    /\ runPc' = "idle"
    /\ UNCHANGED <<internal_state, currentFrame, stopFrame, tickPc, history>>

\* Mutant of RunStop: the wait in progress is left to expire.
RunStopKeepsWait ==
    /\ OwnerMayRun
    /\ internal_state
    /\ internal_state' = FALSE
    /\ runPc' = "callback"
    /\ UNCHANGED <<currentFrame, stopFrame, timer, tickPc, history>>

\* run(false, ...) up to timer.cancel; nothing when the clock is not in use.
RunStop ==
    /\ OwnerMayRun
    /\ internal_state
    /\ internal_state' = FALSE
    /\ CancelWaits(ready)
    /\ runPc' = "callback"
    /\ UNCHANGED <<currentFrame, stopFrame, tickPc, history>>

\* run(false, ...): stopCallback, on the owner's thread.
RunCallback ==
    /\ runPc = "callback"
    /\ stops' = stops + 1
    /\ runPc' = "idle"
    /\ UNCHANGED <<internal_state, currentFrame, stopFrame, timer, tickPc, reported, syncs>>

Abs(n) == IF n < 0 THEN -n ELSE n

\* Mutant of Synced: the nudge goes away from the frame.
SyncedAway(current, frame) ==
    LET delta == Abs(current - frame) IN
    IF delta <= TOLERANCE THEN current
    ELSE IF delta > BAND THEN frame
    ELSE IF current > frame THEN current + 1
    ELSE current - 1

\* Mutant of Synced: the nudge always goes down.
SyncedDownwards(current, frame) ==
    LET delta == Abs(current - frame) IN
    IF delta <= TOLERANCE THEN current
    ELSE IF delta > BAND THEN frame
    ELSE current - 1

\* The frame sync leaves in currentFrame.
Synced(current, frame) ==
    LET delta == Abs(current - frame) IN
    IF delta <= TOLERANCE THEN current
    ELSE IF delta > BAND THEN frame
    ELSE IF current > frame THEN current - 1
    ELSE current + 1

\* sync(frame), under frameAccess.
Sync(frame) ==
    /\ runPc = "idle"
    /\ syncs < MaxSyncs
    /\ currentFrame' = Synced(currentFrame, frame)
    /\ syncs' = syncs + 1 /\ reported' = None
    /\ UNCHANGED <<internal_state, stopFrame, timer, tickPc, runPc, stops>>

\* close(): the owner is being destroyed and calls nothing after it.
Close ==
    /\ OwnerMayRun
    /\ CancelWaits(ready)
    /\ runPc' = "closed"
    /\ UNCHANGED <<internal_state, currentFrame, stopFrame, tickPc, history>>

Run == \/ \E span \in Spans : RunStart(span[1], span[2])
       \/ RunWait \/ RunStop \/ RunCallback

Next == Expire \/ Tick \/ Run \/ Close \/ \E frame \in SyncFrames : Sync(frame)

\* An armed timer expires, the io thread runs its handlers, and a call of run
\* that was entered returns.
Fairness ==
    /\ WF_vars(Expire)
    /\ WF_vars(Tick)
    /\ WF_vars(RunWait \/ RunCallback)

Spec == Init /\ [][Next]_vars /\ Fairness

-----------------------------------------------------------------------------
(* Correctness. *)

\* Threads of ticks alive: waits, handlers that will count, a tick that will
\* arm the timer again, a run(true) that is about to.
Expired == {i \in DOMAIN ready : ready[i] = "ok"}
Chains ==
    waiting + Cardinality(Expired)
    + (IF tickPc \in {"compare", "rearm", "wait"} THEN 1 ELSE 0)
    + (IF runPc = "wait" THEN 1 ELSE 0)

\* At most one chain of ticks is alive, and none once run(false) was called:
\* the clock never counts twice in one FRAMETIME and never restarts itself.
OneChain == Chains <= (IF internal_state /\ runPc # "closed" THEN 1 ELSE 0)

\* Whatever the order of the two threads, the timer never holds more than two
\* waits: expires_at and expires_after cancel what they find, so a third chain
\* of ticks ends as soon as one of the others arms the timer.
WaitsBounded == waiting <= 2

\* From one sync to the next a song's updates name every frame once and in
\* order, so that the test frame % frameUpdate == 0 of the server, whose clock
\* is never synced, meets each multiple of its sync rate.
ConsecutiveUpdates ==
    [][ None \notin {reported, reported'} => reported' = reported + 1 ]_reported

\* Every start that takes effect is answered by a stop callback, unless the
\* owner closes the clock first.
StartIsAnswered == (runPc = "wait") ~> (stops > 0 \/ runPc = "closed")

\* A sync never takes the clock further from the server's frame, and a clock
\* outside TOLERANCE comes nearer, so repeated syncs settle it.
SyncConverges ==
    [][ \A frame \in SyncFrames : Sync(frame) =>
          LET before == Abs(currentFrame - frame)
              after  == Abs(currentFrame' - frame)
          IN  after <= before /\ (before > TOLERANCE => after < before) ]_vars

\* The owner sees a Playback.
Phase == IF runPc = "closed" THEN "closed"
         ELSE IF ~internal_state THEN "stopped"
         ELSE IF Chains > 0 THEN "running" ELSE "ended"
Calls == stops + (IF tickPc = "stop" THEN 1 ELSE 0)
               + (IF runPc = "callback" THEN 1 ELSE 0)
P == INSTANCE Playback WITH phase <- Phase, calls <- Calls
ImplementsPlayback == P!Spec
=============================================================================
