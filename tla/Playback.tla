------------------------------ MODULE Playback ------------------------------
(***************************************************************************)
(* What a frame clock promises to the code that owns it (ShowServer and    *)
(* ShowClient), with threads, timer and frame numbers left out: a started  *)
(* playback either runs to its end or is halted, the owner hears of each   *)
(* through its stop callback, and a playback that has run to its end holds *)
(* the clock until it is halted as well: Start is refused in "ended", and  *)
(* halting an ended playback calls the owner a second time.                *)
(***************************************************************************)
EXTENDS Naturals

VARIABLES
    phase,      \* where the playback is
    calls       \* stop callbacks the owner was given since the last start

vars == <<phase, calls>>

TypeOK ==
    /\ phase \in {"stopped", "running", "ended", "closed"}
    /\ calls \in 0..2

Init == phase = "stopped" /\ calls = 0

\* FrameClock::run(true, ...) on a clock that is not in use.
Start == phase = "stopped" /\ phase' = "running" /\ calls' = 0

\* The tick that reaches the stop frame.
End == phase = "running" /\ phase' = "ended" /\ calls' = calls + 1

\* FrameClock::run(false, ...) on a clock in use, ended or not.
Halt == /\ phase \in {"running", "ended"}
        /\ phase' = "stopped"
        /\ calls' = calls + 1

\* FrameClock::close: no callback, whatever the clock was doing.
Close == phase # "closed" /\ phase' = "closed" /\ UNCHANGED calls

Next == Start \/ End \/ Halt \/ Close

\* The clock thread keeps ticking, so a running playback does not run forever.
Spec == Init /\ [][Next]_vars /\ WF_vars(End)
=============================================================================
