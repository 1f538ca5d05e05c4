------------------------------ MODULE TimeUtil ------------------------------
(***************************************************************************)
(* utility/timeutil.cpp: HourMinute and HourRange, which decide when the   *)
(* server listens, when the show is on and when a client connects, and     *)
(* MonthDay and MonthRange, which decide in what season.  Hours and        *)
(* MinutesInHour stand for 24 and 60.                                      *)
(***************************************************************************)
EXTENDS Integers

CONSTANTS Hours, MinutesInHour, Months, DaysInMonth
ASSUME UnitsAssumption == {Hours, MinutesInHour, Months, DaysInMonth} \subseteq Nat \ {0}

HourMinute == [hour : 0 .. Hours - 1, minute : 0 .. MinutesInHour - 1]

\* operator<
Before(a, b) == a.hour <= b.hour /\ a.minute < b.minute
\* operator<=, operator>
BeforeOrAt(a, b) == a = b \/ Before(a, b)
After(a, b) == ~BeforeOrAt(a, b)

\* HourRange::inRange
InHours(start, end, now) == BeforeOrAt(start, now) /\ After(end, now)

\* operator+(int), which takes off at most one day
Plus(a, minutes) ==
    LET sum  == a.minute + minutes
        hour == a.hour + sum \div MinutesInHour
    IN [hour |-> IF hour >= Hours THEN hour - Hours ELSE hour,
        minute |-> sum % MinutesInHour]

\* operator-(int), which borrows at most one hour
Minus(a, minutes) ==
    LET hour == IF a.minute < minutes THEN a.hour - 1 ELSE a.hour
        rest == a.minute - minutes
    IN [hour |-> IF hour < 0 THEN Hours - 1 ELSE hour,
        minute |-> IF rest < 0 THEN MinutesInHour + rest ELSE rest]

\* operator-(HourMinute)
Since(a, b) ==
    LET borrow  == a.minute < b.minute
        hours   == a.hour - b.hour - IF borrow THEN 1 ELSE 0
        minutes == a.minute - b.minute + IF borrow THEN MinutesInHour ELSE 0
    IN hours * MinutesInHour + minutes

-----------------------------------------------------------------------------
MonthDay == [month : 1 .. Months, day : 1 .. DaysInMonth]

\* operator<, and operator>= and operator<= made of it
Earlier(a, b) == a.month <= b.month /\ ~(a.month = b.month /\ a.day >= b.day)
EarlierOrOn(a, b) == Earlier(a, b) \/ a = b

\* Mutant: the turn of the year is forgotten.
InMonthsOfAYear(start, end, today) == ~Earlier(today, start) /\ EarlierOrOn(today, end)

\* MonthRange::inRange
InMonths(start, end, today) ==
    \/ ~Earlier(today, start) /\ EarlierOrOn(today, end)
    \/ /\ Earlier(end, start)
       /\ EarlierOrOn(today, end) \/ ~Earlier(today, start)

-----------------------------------------------------------------------------
(* The reference: times and days are numbers. *)
DayLength == Hours * MinutesInHour
MinuteOf(t) == t.hour * MinutesInHour + t.minute
DayOf(d) == (d.month - 1) * DaysInMonth + d.day - 1
YearLength == Months * DaysInMonth
=============================================================================
