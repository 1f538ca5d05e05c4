----------------------------- MODULE MCTimeUtil -----------------------------
(***************************************************************************)
(* Every span of a small day, and a time that passes.                      *)
(***************************************************************************)
EXTENDS TimeUtil

VARIABLES start, end, now
vars == <<start, end, now>>

Init == start \in HourMinute /\ end \in HourMinute /\ now \in HourMinute
Next == now' = Plus(now, 1) /\ UNCHANGED <<start, end>>
Spec == Init /\ [][Next]_vars

-----------------------------------------------------------------------------
(* What a document says and the code does not do. *)

\* examples/server.cfg:27: the server listens in a span of time, "18:00,22:30".
\* So the times of the span are in the range and the others are not.  In the
\* code operator< wants the hour not larger and the minute smaller: 23:30 is
\* not past 22:30, and so still in the range, as 1:01 is in 0:00,0:01 here.
\* (The other way about, 19:00 does not lie after 18:00.)
HoursAreSpan ==
    InHours(start, end, now) <=> MinuteOf(start) <= MinuteOf(now) /\ MinuteOf(now) < MinuteOf(end)
=============================================================================
