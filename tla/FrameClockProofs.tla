-------------------------- MODULE FrameClockProofs --------------------------
(***************************************************************************)
(* Theorems about FrameClock for every choice of its constants.            *)
(***************************************************************************)
EXTENDS FrameClock, FiniteSetTheorems, SequenceTheorems, TLAPS

\* Cancelling leaves a queue of handlers and an empty timer.
LEMMA CancelType ==
    ASSUME waiting \in Nat
    PROVE  \A queue \in Seq(Codes) :
               CancelWaits(queue) => ready' \in Seq(Codes) /\ waiting' = 0
BY DEF CancelWaits, Codes

\* The nudge and the jump of sync stay within the frames.
LEMMA SyncedType ==
    ASSUME NEW current \in Nat, NEW frame \in Nat
    PROVE  Synced(current, frame) \in Nat
BY DEF Synced, Abs, TOLERANCE, BAND

\* A step of any thread keeps the types (FrameClock's whole state).
LEMMA TypeStep == TypeOK /\ [Next]_vars => TypeOK'
<1> SUFFICES ASSUME TypeOK, [Next]_vars PROVE TypeOK'
    OBVIOUS
<1> USE DEF TypeOK
<1>1. CASE Expire
    BY <1>1 DEF Expire, history, Codes
<1>2. CASE TickAborted
    <2>1. Tail(ready) \in Seq(Codes)
        BY <1>2 DEF TickAborted
    <2>2. ready' \in Seq(Codes) /\ waiting' = 0
        BY <1>2, <2>1, CancelType DEF TickAborted
    <2> QED BY <1>2, <2>2 DEF TickAborted, history
<1>3. CASE TickCount
    BY <1>3 DEF TickCount, history
<1>4. CASE TickCompare
    BY <1>4 DEF TickCompare, history, timer
<1>5. CASE TickStop
    BY <1>5 DEF TickStop, timer
<1>6. CASE TickRearm
    <2>1. ready' \in Seq(Codes) /\ waiting' = 0
        BY <1>6, CancelType DEF TickRearm
    <2> QED BY <1>6, <2>1 DEF TickRearm, history
<1>7. CASE TickWait
    BY <1>7 DEF TickWait, AsyncWait, history
<1>8. CASE TickUpdate
    BY <1>8 DEF TickUpdate, timer
<1>9. ASSUME NEW span \in Spans, RunStart(span[1], span[2]) PROVE TypeOK'
    <2>1. span[1] \in Nat /\ span[2] \in Nat
        BY SpansAssumption
    <2>2. ready' \in Seq(Codes) /\ waiting' = 0
        BY <1>9, CancelType DEF RunStart
    <2> QED BY <1>9, <2>1, <2>2 DEF RunStart
<1>10. CASE RunWait
    BY <1>10 DEF RunWait, AsyncWait, history
<1>11. CASE RunStop
    <2>1. ready' \in Seq(Codes) /\ waiting' = 0
        BY <1>11, CancelType DEF RunStop
    <2> QED BY <1>11, <2>1 DEF RunStop, history
<1>12. CASE RunCallback
    BY <1>12 DEF RunCallback, timer
<1>13. CASE Close
    <2>1. ready' \in Seq(Codes) /\ waiting' = 0
        BY <1>13, CancelType DEF Close
    <2> QED BY <1>13, <2>1 DEF Close, history
<1>14. ASSUME NEW frame \in SyncFrames, Sync(frame) PROVE TypeOK'
    <2>1. currentFrame' \in Nat
        BY <1>14, SyncedType, SyncAssumption DEF Sync
    <2> QED BY <1>14, <2>1 DEF Sync, timer
<1>15. CASE UNCHANGED vars
    BY <1>15 DEF vars, timer, history
<1> QED
    BY <1>1, <1>2, <1>3, <1>4, <1>5, <1>6, <1>7, <1>8, <1>9, <1>10, <1>11,
       <1>12, <1>13, <1>14, <1>15 DEF Next, Tick, Run

\* The clock's variables keep their types, the frame counter among them: the
\* nudge of sync never takes currentFrame below zero.
THEOREM TypeCorrect == Spec => []TypeOK
<1>1. Init => TypeOK
    <2> SUFFICES ASSUME Init PROVE TypeOK
        OBVIOUS
    <2>1. ready \in Seq(Codes)
        BY DEF Init
    <2>2. /\ internal_state \in BOOLEAN
          /\ reported \in Nat \cup {None}
        BY DEF Init
    <2> QED BY <2>1, <2>2 DEF Init, TypeOK
<1> QED BY <1>1, TypeStep, PTL DEF Spec

-----------------------------------------------------------------------------

\* Where the two threads stand between their cancel and their async_wait
\* decides how many waits the timer may hold.
WaitsInv ==
    /\ waiting <= 2
    /\ tickPc = "wait" \/ runPc = "wait" => waiting <= 1
    /\ tickPc = "wait" /\ runPc = "wait" => waiting = 0

\* A step of any thread keeps WaitsInv.
LEMMA WaitsStep == TypeOK /\ WaitsInv /\ [Next]_vars => WaitsInv'
<1> SUFFICES ASSUME TypeOK, WaitsInv, [Next]_vars PROVE WaitsInv'
    OBVIOUS
<1> USE DEF TypeOK, WaitsInv
<1>1. ASSUME NEW queue, CancelWaits(queue) PROVE waiting' = 0
    BY <1>1 DEF CancelWaits
<1>2. CASE Expire
    BY <1>2 DEF Expire
<1>3. CASE TickAborted \/ TickRearm
    BY <1>1, <1>3 DEF TickAborted, TickRearm
<1>4. CASE TickCount \/ TickCompare \/ TickStop \/ TickUpdate
    BY <1>4 DEF TickCount, TickCompare, TickStop, TickUpdate, timer
<1>5. CASE TickWait
    BY <1>5 DEF TickWait, AsyncWait
<1>6. ASSUME NEW span \in Spans, RunStart(span[1], span[2]) PROVE WaitsInv'
    BY <1>1, <1>6 DEF RunStart
<1>7. CASE RunWait
    BY <1>7 DEF RunWait, AsyncWait
<1>8. CASE RunStop \/ Close
    BY <1>1, <1>8 DEF RunStop, Close
<1>9. CASE RunCallback
    BY <1>9 DEF RunCallback, timer
<1>10. ASSUME NEW frame \in SyncFrames, Sync(frame) PROVE WaitsInv'
    BY <1>10 DEF Sync, timer
<1>11. CASE UNCHANGED vars
    BY <1>11 DEF vars, timer
<1> QED
    BY <1>2, <1>3, <1>4, <1>5, <1>6, <1>7, <1>8, <1>9, <1>10, <1>11
    DEF Next, Tick, Run

\* However the owner's calls of run fall between the io thread's steps, and
\* whatever backlog of handlers that thread has, the timer holds at most two
\* waits: a race of run and tick can double a song's ticks, never triple them.
THEOREM WaitsAreBounded == Spec => []WaitsBounded
<1>1. Init => WaitsInv
    BY DEF Init, WaitsInv
<1>2. WaitsInv => WaitsBounded
    BY DEF WaitsInv, WaitsBounded
<1> QED BY <1>1, <1>2, WaitsStep, TypeCorrect, PTL DEF Spec

-----------------------------------------------------------------------------

\* Drift from the server's frame, before and after sync, for every frame: it
\* never grows, and shrinks while it is beyond TOLERANCE.
LEMMA SyncedConverges ==
    ASSUME NEW current \in Nat, NEW frame \in Nat
    PROVE  LET before == Abs(current - frame)
               after  == Abs(Synced(current, frame) - frame)
           IN  after <= before /\ (before > TOLERANCE => after < before)
BY DEF Synced, Abs, TOLERANCE, BAND

\* Every call of FrameClock::sync, in every state of the two threads, brings
\* the clock nearer to the frame it is given or leaves it where it is.
THEOREM SyncSettles == Spec => SyncConverges
<1> DEFINE Nearer == \A frame \in SyncFrames : Sync(frame) =>
          LET before == Abs(currentFrame - frame)
              after  == Abs(currentFrame' - frame)
          IN  after <= before /\ (before > TOLERANCE => after < before)
<1>1. TypeOK => Nearer
    <2> SUFFICES ASSUME TypeOK, NEW frame \in SyncFrames, Sync(frame)
                 PROVE  LET before == Abs(currentFrame - frame)
                            after  == Abs(currentFrame' - frame)
                        IN  after <= before /\ (before > TOLERANCE => after < before)
        OBVIOUS
    <2>1. currentFrame \in Nat /\ frame \in Nat
        BY SyncAssumption DEF TypeOK
    <2>2. currentFrame' = Synced(currentFrame, frame)
        BY DEF Sync
    <2> QED BY <2>1, <2>2, SyncedConverges
<1>2. TypeOK => [Nearer]_vars
    BY <1>1
<1> QED BY <1>2, TypeCorrect, PTL DEF SyncConverges

-----------------------------------------------------------------------------

\* With a prompt clock thread (Backlog = 0) there is never more than one of a
\* wait, a handler and a tick in progress, and none of them belongs to a clock
\* that was stopped or closed.
PromptInv ==
    /\ Len(ready) + waiting <= 1
    /\ tickPc \in {"compare", "stop", "rearm", "wait"} => waiting = 0 /\ ready = <<>>
    /\ runPc = "wait" =>
          internal_state /\ waiting = 0 /\ ready = <<>> /\ tickPc = "idle"
    /\ tickPc # "idle" \/ waiting > 0 \/ Expired # {} => internal_state /\ runPc = "idle"

\* PromptInv allows at most one chain.
LEMMA PromptOneChain == TypeOK /\ PromptInv => OneChain
<1> SUFFICES ASSUME TypeOK, PromptInv PROVE OneChain
    OBVIOUS
<1> USE DEF TypeOK, PromptInv
<1>1. Expired = {} \/ (Expired = {1} /\ Len(ready) = 1)
    BY DEF Expired
<1>2. CASE Expired = {}
    <2>1. Cardinality(Expired) = 0
        BY <1>2, FS_EmptySet
    <2> QED BY <2>1 DEF OneChain, Chains
<1>3. CASE Expired = {1} /\ Len(ready) = 1
    <2>1. Cardinality(Expired) = 1 /\ Expired # {}
        BY <1>3, FS_Singleton
    <2> QED BY <1>3, <2>1 DEF OneChain, Chains
<1> QED BY <1>1, <1>2, <1>3

\* A queue of one handler is empty once it is run.
LEMMA LastHandler ==
    ASSUME TypeOK, PromptInv, ready # <<>>
    PROVE  Len(ready) = 1 /\ waiting = 0 /\ Tail(ready) = <<>>
<1>1. ready \in Seq(Codes) /\ waiting \in Nat /\ Len(ready) + waiting <= 1
    BY DEF TypeOK, PromptInv
<1>2. \A queue \in Seq(Codes) : queue # <<>> => Len(queue) \in Nat \ {0}
    BY EmptySeq
<1>3. Len(ready) = 1 /\ waiting = 0
    <2>1. Len(ready) \in Nat \ {0}
        BY <1>1, <1>2
    <2>2. \A m, n \in Nat : m # 0 /\ m + n <= 1 => m = 1 /\ n = 0
        OBVIOUS
    <2> QED BY <1>1, <2>1, <2>2
<1>4. Tail(ready) \in Seq(Codes) /\ Len(Tail(ready)) = 0
    BY <1>1, <1>3, HeadTailProperties
<1> QED BY <1>2, <1>3, <1>4

\* A prompt clock thread keeps PromptInv.
LEMMA PromptStep == Backlog = 0 /\ TypeOK /\ PromptInv /\ [Next]_vars => PromptInv'
<1> SUFFICES ASSUME Backlog = 0, TypeOK, PromptInv, [Next]_vars PROVE PromptInv'
    OBVIOUS
<1> USE DEF TypeOK, PromptInv, Expired
<1>1. ASSUME OwnerMayRun PROVE ready = <<>> /\ tickPc = "idle" /\ runPc = "idle"
    BY <1>1 DEF OwnerMayRun
<1>2. CASE Expire
    BY <1>2 DEF Expire, history
<1>3. CASE TickAborted
    <2>1. Len(ready) = 1 /\ waiting = 0 /\ Tail(ready) = <<>>
        BY <1>3, LastHandler DEF TickAborted
    <2>2. ready' = <<>> /\ waiting' = 0
        BY <1>3, <2>1 DEF TickAborted, CancelWaits
    <2> QED BY <1>3, <2>2 DEF TickAborted, history
<1>4. CASE TickCount
    <2>1. Len(ready) = 1 /\ waiting = 0 /\ Tail(ready) = <<>>
        BY <1>4, LastHandler DEF TickCount
    <2>2. ready[1] = "ok" /\ Expired # {}
        BY <1>4, <2>1 DEF TickCount
    <2> QED BY <1>4, <2>1, <2>2 DEF TickCount, history
<1>5. CASE TickCompare
    BY <1>5 DEF TickCompare, timer, history
<1>6. CASE TickStop
    BY <1>6 DEF TickStop, timer
<1>7. CASE TickRearm
    <2>1. ready' = <<>> /\ waiting' = 0
        BY <1>7 DEF TickRearm, CancelWaits
    <2> QED BY <1>7, <2>1 DEF TickRearm, history
<1>8. CASE TickWait
    BY <1>8 DEF TickWait, AsyncWait, history
<1>9. CASE TickUpdate
    BY <1>9 DEF TickUpdate, timer
<1>10. ASSUME NEW span \in Spans, RunStart(span[1], span[2]) PROVE PromptInv'
    <2>1. ready = <<>> /\ tickPc = "idle" /\ waiting = 0
        BY <1>1, <1>10 DEF RunStart
    <2>2. ready' = <<>> /\ waiting' = 0
        BY <1>10, <2>1 DEF RunStart, CancelWaits
    <2> QED BY <1>10, <2>1, <2>2 DEF RunStart
<1>11. CASE RunWait
    BY <1>11 DEF RunWait, AsyncWait, history
<1>12. CASE RunStop \/ Close
    <2>1. ready = <<>> /\ tickPc = "idle"
        BY <1>1, <1>12 DEF RunStop, Close
    <2>2. /\ ready' \in Seq(Codes) /\ Len(ready') = waiting
          /\ \A i \in DOMAIN ready' : ready'[i] = "aborted"
          /\ waiting' = 0
        BY <1>12, <2>1 DEF RunStop, Close, CancelWaits, Codes
    <2>3. Expired' = {}
        BY <2>2
    <2> QED BY <1>12, <2>1, <2>2, <2>3 DEF RunStop, Close
<1>13. CASE RunCallback
    BY <1>13 DEF RunCallback, timer
<1>14. ASSUME NEW frame \in SyncFrames, Sync(frame) PROVE PromptInv'
    BY <1>14 DEF Sync, timer
<1>15. CASE UNCHANGED vars
    BY <1>15 DEF vars, timer
<1> QED
    BY <1>2, <1>3, <1>4, <1>5, <1>6, <1>7, <1>8, <1>9, <1>10, <1>11, <1>12,
       <1>13, <1>14, <1>15 DEF Next, Tick, Run

\* With a prompt clock thread a clock counts once in a FRAMETIME and never
\* ticks again after run(false) or close, whatever spans and syncs it is given.
THEOREM PromptClockHasOneChain == ASSUME Backlog = 0 PROVE Spec => []OneChain
<1>1. Init => PromptInv
    <2> SUFFICES ASSUME Init PROVE PromptInv
        OBVIOUS
    <2>1. Expired = {} /\ Len(ready) = 0
        BY DEF Init, Expired
    <2> QED BY <2>1 DEF Init, PromptInv
<1>2. TypeOK /\ PromptInv /\ [Next]_vars => PromptInv'
    BY PromptStep
<1> QED BY <1>1, <1>2, PromptOneChain, TypeCorrect, PTL DEF Spec

-----------------------------------------------------------------------------

\* A chain of ticks is alive, without counting.
Alive == \/ waiting > 0
         \/ Expired # {}
         \/ tickPc \in {"compare", "rearm", "wait"}
         \/ runPc = "wait"

\* With a prompt clock thread there is a chain of ticks exactly when Alive says.
LEMMA ChainsAlive == TypeOK /\ PromptInv => (Chains > 0 <=> Alive)
<1> SUFFICES ASSUME TypeOK, PromptInv PROVE Chains > 0 <=> Alive
    OBVIOUS
<1>1. Expired = {} \/ Expired = {1}
    BY DEF Expired, TypeOK, PromptInv
<1>2. Cardinality(Expired) = IF Expired = {} THEN 0 ELSE 1
    BY <1>1, FS_EmptySet, FS_Singleton
<1>3. waiting \in Nat
    BY DEF TypeOK
<1> QED BY <1>2, <1>3 DEF Chains, Alive

\* The phase of the playback the owner sees, in terms of Alive.
PhaseNow == IF runPc = "closed" THEN "closed"
            ELSE IF ~internal_state THEN "stopped"
            ELSE IF Alive THEN "running" ELSE "ended"

\* With a prompt clock thread the phase needs no counting of chains.
LEMMA PhaseAlive == TypeOK /\ PromptInv => Phase = PhaseNow
BY ChainsAlive DEF Phase, PhaseNow

\* With a prompt clock thread every step of the two threads is a step of
\* Playback or invisible to the owner.
LEMMA StepImplementsPlayback ==
    Backlog = 0 /\ TypeOK /\ PromptInv /\ [Next]_vars => [P!Next]_(P!vars)
<1> SUFFICES ASSUME Backlog = 0, TypeOK, PromptInv, [Next]_vars
             PROVE  [P!Next]_(P!vars)
    OBVIOUS
<1>1. TypeOK' /\ PromptInv'
    BY TypeStep, PromptStep
<1>2. Phase = PhaseNow
    BY PhaseAlive
<1>3. Phase' = PhaseNow'
    <2>1. (TypeOK /\ PromptInv => Phase = PhaseNow)'
        BY PhaseAlive, PTL
    <2> QED BY <1>1, <2>1
<1>4. ASSUME OwnerMayRun PROVE ready = <<>> /\ tickPc = "idle" /\ runPc = "idle"
    BY <1>4 DEF OwnerMayRun, TypeOK
<1>5. ASSUME Phase' = Phase, Calls' = Calls PROVE [P!Next]_(P!vars)
    BY <1>5 DEF P!vars
<1> USE DEF TypeOK, PromptInv, Expired, Alive, Calls, PhaseNow
<1>6. CASE Expire
    <2>1. waiting = 1 /\ ready = <<>> /\ ready' \in Seq(Codes) /\ waiting' = 0
        BY <1>1, <1>6 DEF Expire
    <2>2. Len(ready') = 1 /\ ready'[1] = "ok"
        BY <1>6, <2>1 DEF Expire
    <2> QED BY <1>2, <1>3, <1>5, <1>6, <2>1, <2>2 DEF Expire, history
<1>7. CASE TickAborted
    <2>1. Len(ready) = 1 /\ waiting = 0 /\ Tail(ready) = <<>>
        BY <1>7, LastHandler DEF TickAborted
    <2>2. ready[1] = "aborted" /\ ready' = <<>> /\ waiting' = 0
        BY <1>7, <2>1 DEF TickAborted, CancelWaits
    <2> QED BY <1>2, <1>3, <1>5, <1>7, <2>1, <2>2 DEF TickAborted, history
<1>8. CASE TickCount
    <2>1. Len(ready) = 1 /\ waiting = 0 /\ Tail(ready) = <<>>
        BY <1>8, LastHandler DEF TickCount
    <2>2. ready[1] = "ok" /\ Expired # {} /\ ready' = <<>>
        BY <1>8, <2>1 DEF TickCount
    <2> QED BY <1>2, <1>3, <1>5, <1>8, <2>1, <2>2 DEF TickCount, history
<1>9. CASE TickCompare
    <2>1. internal_state /\ runPc = "idle" /\ waiting = 0 /\ ready = <<>>
        BY <1>9 DEF TickCompare
    <2>2. CASE currentFrame >= stopFrame
        <3>1. Phase = "running" /\ Phase' = "ended" /\ Calls' = Calls + 1
            BY <1>2, <1>3, <1>9, <2>1, <2>2 DEF TickCompare, timer, history
        <3> QED BY <3>1 DEF P!Next, P!End
    <2>3. CASE ~(currentFrame >= stopFrame)
        BY <1>2, <1>3, <1>5, <1>9, <2>1, <2>3 DEF TickCompare, timer, history
    <2> QED BY <2>2, <2>3
<1>10. CASE TickStop
    <2>1. Calls' = Calls
        BY <1>10 DEF TickStop, timer
    <2>2. Phase' = Phase
        BY <1>2, <1>3, <1>10 DEF TickStop, timer
    <2> QED BY <1>5, <2>1, <2>2
<1>11. CASE TickRearm
    <2>1. ready' = <<>> /\ waiting' = 0
        BY <1>11 DEF TickRearm, CancelWaits
    <2> QED BY <1>2, <1>3, <1>5, <1>11, <2>1 DEF TickRearm, history
<1>12. CASE TickWait
    BY <1>2, <1>3, <1>5, <1>12 DEF TickWait, AsyncWait, history
<1>13. CASE TickUpdate
    BY <1>2, <1>3, <1>5, <1>13 DEF TickUpdate, timer
<1>14. ASSUME NEW span \in Spans, RunStart(span[1], span[2])
       PROVE  [P!Next]_(P!vars)
    <2>1. Phase = "stopped" /\ Phase' = "running" /\ Calls' = 0
        BY <1>2, <1>3, <1>4, <1>14 DEF RunStart
    <2> QED BY <2>1 DEF P!Next, P!Start
<1>15. CASE RunWait
    BY <1>2, <1>3, <1>5, <1>15 DEF RunWait, AsyncWait, history
<1>16. CASE RunStop
    <2>1. Phase \in {"running", "ended"} /\ Phase' = "stopped" /\ Calls' = Calls + 1
        BY <1>2, <1>3, <1>4, <1>16 DEF RunStop, history
    <2> QED BY <2>1 DEF P!Next, P!Halt
<1>17. CASE RunCallback
    <2>1. Calls' = Calls
        BY <1>17 DEF RunCallback, timer
    <2>2. Phase' = Phase
        BY <1>2, <1>3, <1>17 DEF RunCallback, timer
    <2> QED BY <1>5, <2>1, <2>2
<1>18. CASE Close
    <2>1. Phase # "closed" /\ Phase' = "closed" /\ Calls' = Calls
        BY <1>2, <1>3, <1>4, <1>18 DEF Close, history
    <2> QED BY <2>1 DEF P!Next, P!Close
<1>19. ASSUME NEW frame \in SyncFrames, Sync(frame) PROVE [P!Next]_(P!vars)
    BY <1>2, <1>3, <1>5, <1>19 DEF Sync, timer
<1>20. CASE UNCHANGED vars
    BY <1>2, <1>3, <1>5, <1>20 DEF vars, timer, history
<1> QED
    BY <1>6, <1>7, <1>8, <1>9, <1>10, <1>11, <1>12, <1>13, <1>14, <1>15,
       <1>16, <1>17, <1>18, <1>19, <1>20 DEF Next, Tick, Run

\* The clock's owner sees a Playback: one stop callback for a song that ran to
\* its end, one for a stop, and never a restart of its own.
THEOREM PromptClockImplementsPlayback ==
    ASSUME Backlog = 0 PROVE Spec => P!Init /\ [][P!Next]_(P!vars)
<1>1. Init => TypeOK /\ PromptInv
    <2> SUFFICES ASSUME Init PROVE TypeOK /\ PromptInv
        OBVIOUS
    <2>1. Expired = {} /\ Len(ready) = 0 /\ ready \in Seq(Codes)
        BY DEF Init, Expired
    <2>2. internal_state \in BOOLEAN /\ reported \in Nat \cup {None}
        BY DEF Init
    <2> QED BY <2>1, <2>2 DEF Init, PromptInv, TypeOK
<1>2. Init => P!Init
    BY DEF Init, P!Init, Phase, Calls
<1>3. TypeOK /\ PromptInv /\ [Next]_vars => PromptInv'
    BY PromptStep
<1>4. TypeOK /\ PromptInv /\ [Next]_vars => [P!Next]_(P!vars)
    BY StepImplementsPlayback
<1> QED BY <1>1, <1>2, <1>3, <1>4, TypeCorrect, PTL DEF Spec

-----------------------------------------------------------------------------

\* With a prompt clock thread, the frame that the next tick counts from is the
\* one last reported, unless the song is over or a sync came in between; a tick
\* in progress has counted one more.
InOrder ==
    /\ reported # None =>
          /\ tickPc \in {"compare", "rearm", "wait", "update"} => currentFrame = reported + 1
          /\ tickPc = "idle" /\ (waiting > 0 \/ Expired # {}) => currentFrame = reported
    /\ runPc = "wait" => reported = None

\* Every step keeps it, and reports the next frame if it reports any.
LEMMA InOrderStep ==
    /\ Backlog = 0 /\ TypeOK /\ PromptInv /\ InOrder /\ [Next]_vars
    => /\ InOrder'
       /\ reported' # reported /\ None \notin {reported, reported'} => reported' = reported + 1
<1> DEFINE Kept == /\ InOrder'
                   /\ reported' # reported /\ None \notin {reported, reported'} => reported' = reported + 1
<1> SUFFICES ASSUME Backlog = 0, TypeOK, PromptInv, InOrder, [Next]_vars PROVE Kept
    OBVIOUS
<1> USE DEF TypeOK, PromptInv, InOrder, Expired
<1>1. ASSUME OwnerMayRun PROVE ready = <<>> /\ tickPc = "idle" /\ runPc = "idle"
    BY <1>1 DEF OwnerMayRun
<1>2. CASE Expire
    BY <1>2 DEF Expire, history
<1>3. CASE TickAborted
    <2>1. Len(ready) = 1 /\ waiting = 0 /\ Tail(ready) = <<>>
        BY <1>3, LastHandler DEF TickAborted
    <2>2. ready' = <<>> /\ waiting' = 0
        BY <1>3, <2>1 DEF TickAborted, CancelWaits
    <2> QED BY <1>3, <2>2 DEF TickAborted, history
<1>4. CASE TickCount
    <2>1. Len(ready) = 1
        BY <1>4, LastHandler DEF TickCount
    <2>2. ready[1] = "ok" /\ Expired # {}
        BY <1>4, <2>1 DEF TickCount
    <2>3. runPc = "idle" /\ (reported # None => currentFrame = reported)
        BY <1>4, <2>2 DEF TickCount
    <2>4. reported' = reported /\ runPc' = runPc /\ currentFrame' = currentFrame + 1 /\ tickPc' = "compare"
        BY <1>4 DEF TickCount, history
    <2> QED BY <2>3, <2>4
<1>5. CASE TickCompare
    BY <1>5 DEF TickCompare, timer, history
<1>6. CASE TickStop
    <2>1. waiting = 0 /\ ready = <<>>
        BY <1>6 DEF TickStop
    <2> QED BY <1>6, <2>1 DEF TickStop, timer
<1>7. CASE TickRearm
    BY <1>7 DEF TickRearm, CancelWaits, history
<1>8. CASE TickWait
    BY <1>8 DEF TickWait, AsyncWait, history
<1>9. CASE TickUpdate
    <2>1. runPc = "idle" /\ reported' = currentFrame /\ currentFrame' = currentFrame
        BY <1>9 DEF TickUpdate
    <2>2. reported # None => reported' = reported + 1
        BY <1>9, <2>1 DEF TickUpdate
    <2> QED BY <1>9, <2>1, <2>2 DEF TickUpdate, timer
<1>10. ASSUME NEW span \in Spans, RunStart(span[1], span[2]) PROVE Kept
    BY <1>10 DEF RunStart
<1>11. CASE RunWait
    <2>1. reported = None /\ reported' = None /\ runPc' = "idle"
        BY <1>11 DEF RunWait, history
    <2> QED BY <2>1
<1>12. CASE RunStop \/ Close
    <2>1. ready = <<>> /\ tickPc = "idle"
        BY <1>1, <1>12 DEF RunStop, Close
    <2>2. /\ ready' \in Seq(Codes) /\ Len(ready') = waiting
          /\ \A i \in DOMAIN ready' : ready'[i] = "aborted"
          /\ waiting' = 0
        BY <1>12, <2>1 DEF RunStop, Close, CancelWaits, Codes
    <2>3. Expired' = {}
        BY <2>2
    <2>4. tickPc' = "idle" /\ reported' = reported /\ runPc' # "wait"
        BY <1>12, <2>1 DEF RunStop, Close, history
    <2> QED BY <2>2, <2>3, <2>4
<1>13. CASE RunCallback
    BY <1>13 DEF RunCallback, timer
<1>14. ASSUME NEW frame \in SyncFrames, Sync(frame) PROVE Kept
    BY <1>14 DEF Sync, timer
<1>15. CASE UNCHANGED vars
    BY <1>15 DEF vars, timer, history
<1> QED
    BY <1>2, <1>3, <1>4, <1>5, <1>6, <1>7, <1>8, <1>9, <1>10, <1>11, <1>12,
       <1>13, <1>14, <1>15 DEF Next, Tick, Run

\* With a prompt clock thread a song's updates name every frame once and in
\* order from one sync to the next, also those of a song that is started after
\* another was stopped.
THEOREM PromptClockSkipsNoFrame == ASSUME Backlog = 0 PROVE Spec => ConsecutiveUpdates
<1>1. Init => PromptInv /\ InOrder
    <2> SUFFICES ASSUME Init PROVE PromptInv /\ InOrder
        OBVIOUS
    <2>1. Expired = {} /\ Len(ready) = 0
        BY DEF Init, Expired
    <2> QED BY <2>1 DEF Init, PromptInv, InOrder
<1>2. TypeOK /\ PromptInv /\ [Next]_vars => PromptInv'
    BY PromptStep
<1>3. TypeOK /\ PromptInv /\ InOrder /\ [Next]_vars => InOrder'
    BY InOrderStep
<1>4. TypeOK /\ PromptInv /\ InOrder /\ [Next]_vars
      => [None \notin {reported, reported'} => reported' = reported + 1]_reported
    BY InOrderStep
<1> QED BY <1>1, <1>2, <1>3, <1>4, TypeCorrect, PTL DEF Spec, ConsecutiveUpdates
=============================================================================
