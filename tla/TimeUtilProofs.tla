--------------------------- MODULE TimeUtilProofs ---------------------------
(***************************************************************************)
(* Theorems about the times and days of TimeUtil, for every length of the  *)
(* hour, the day, the month and the year.                                  *)
(***************************************************************************)
EXTENDS TimeUtil, TLAPS

\* What is left when a product is compared with a smaller number.
LEMMA Less ==
    ASSUME NEW a \in Nat, NEW b \in Nat, NEW n \in Nat \ {0}, a < b
    PROVE  a * n + n <= b * n
<1>1. PICK k \in Nat : b = a + 1 + k
    <2> WITNESS b - a - 1 \in Nat
    <2> QED OBVIOUS
<1>2. b * n = a * n + n + k * n
    BY <1>1
<1>3. k * n >= 0
    OBVIOUS
<1> QED BY <1>2, <1>3

\* operator< of MonthDay is the order of the days.
LEMMA EarlierIsOrder ==
    ASSUME NEW a \in MonthDay, NEW b \in MonthDay
    PROVE  /\ Earlier(a, b) <=> DayOf(a) < DayOf(b)
           /\ a = b <=> DayOf(a) = DayOf(b)
           /\ DayOf(a) \in 0 .. YearLength - 1
<1> DEFINE x == a.month - 1
           y == b.month - 1
           d == a.day - 1
           e == b.day - 1
           n == DaysInMonth
<1>1. n \in Nat \ {0} /\ Months \in Nat \ {0}
    BY UnitsAssumption
<1>2. x \in Nat /\ y \in Nat /\ x < Months /\ d \in 0 .. n - 1 /\ e \in 0 .. n - 1
    BY <1>1 DEF MonthDay
<1>3. DayOf(a) = x * n + d /\ DayOf(b) = y * n + e
    BY <1>1, <1>2 DEF DayOf, MonthDay
<1>4. x * n \in Nat /\ y * n \in Nat
    BY <1>1, <1>2
<1>5. x < y => DayOf(a) < DayOf(b)
    BY <1>1, <1>2, <1>3, <1>4, Less
<1>6. y < x => DayOf(b) < DayOf(a)
    BY <1>1, <1>2, <1>3, <1>4, Less
<1>7. x = y => (DayOf(a) < DayOf(b) <=> d < e) /\ (DayOf(a) = DayOf(b) <=> d = e)
    BY <1>1, <1>2, <1>3, <1>4
<1>8. Earlier(a, b) <=> x < y \/ (x = y /\ d < e)
    BY <1>1 DEF Earlier, MonthDay
<1>9. a = b <=> x = y /\ d = e
    BY <1>1 DEF MonthDay
<1>10. x * n + n <= YearLength
    BY <1>1, <1>2, Less DEF YearLength
<1>11. DayOf(a) \in 0 .. YearLength - 1
    BY <1>1, <1>2, <1>3, <1>4, <1>10 DEF YearLength
<1>12. DayOf(a) \in Int /\ DayOf(b) \in Int
    BY <1>1, <1>2, <1>3, <1>4
<1> HIDE DEF x, y, d, e, n
<1> QED BY <1>2, <1>5, <1>6, <1>7, <1>8, <1>9, <1>11, <1>12

\* There is one remainder.
LEMMA Remainder ==
    ASSUME NEW n \in Nat \ {0}, NEW x \in Int, NEW k \in Int, NEW r \in 0 .. n - 1, x = (k * n) + r
    PROVE  x % n = r /\ x \div n = k
<1>1. PICK q \in Int, z \in 0 .. n - 1 : x = (q * n) + z /\ z = x % n /\ q = x \div n
    <2>1. x = (n * (x \div n)) + (x % n)
        OBVIOUS
    <2>2. x \div n \in Int /\ x % n \in 0 .. n - 1
        OBVIOUS
    <2> QED BY <2>1, <2>2
<1>2. (q - k) * n = (q * n) - (k * n)
    OBVIOUS
<1>3. ASSUME q - k >= 1 PROVE FALSE
    <2>1. (q - k) * n >= n
        BY <1>3
    <2> QED BY <1>1, <1>2, <2>1
<1>4. ASSUME k - q >= 1 PROVE FALSE
    <2>1. (k - q) * n >= n
        BY <1>4
    <2>2. (k - q) * n = (k * n) - (q * n)
        OBVIOUS
    <2> QED BY <1>1, <2>1, <2>2
<1>5. q = k
    BY <1>3, <1>4
<1> QED BY <1>1, <1>5

\* A difference of two numbers below n, taken round n.
LEMMA Around ==
    ASSUME NEW n \in Nat \ {0}, NEW x \in 0 .. n - 1, NEW y \in 0 .. n - 1
    PROVE  (x - y) % n = IF y <= x THEN x - y ELSE x - y + n
<1>1. CASE y <= x
    <2>1. x - y = (0 * n) + (x - y) /\ x - y \in 0 .. n - 1
        BY <1>1
    <2> QED BY <1>1, <2>1, Remainder
<1>2. CASE x < y
    <2>1. x - y = (-1 * n) + (x - y + n) /\ x - y + n \in 0 .. n - 1
        BY <1>2
    <2> QED BY <1>2, <2>1, Remainder
<1> QED BY <1>1, <1>2

\* A span round n, as inRange tells it.
LEMMA SpanRound ==
    ASSUME NEW n \in Nat \ {0}, NEW s \in 0 .. n - 1, NEW e \in 0 .. n - 1, NEW t \in 0 .. n - 1
    PROVE  (t - s) % n <= (e - s) % n <=> (s <= t /\ t <= e) \/ (e < s /\ (t <= e \/ s <= t))
BY Around

\* MonthRange::inRange: today is in the season when it is no more days after
\* its first than its last is, counted round the year.
THEOREM SeasonIsSpan ==
    ASSUME NEW start \in MonthDay, NEW end \in MonthDay, NEW today \in MonthDay
    PROVE  InMonths(start, end, today) <=>
               (DayOf(today) - DayOf(start)) % YearLength <= (DayOf(end) - DayOf(start)) % YearLength
<1>1. YearLength \in Nat \ {0}
    BY UnitsAssumption DEF YearLength
<1>2. /\ DayOf(start) \in 0 .. YearLength - 1
      /\ DayOf(end) \in 0 .. YearLength - 1
      /\ DayOf(today) \in 0 .. YearLength - 1
    BY EarlierIsOrder
<1>3. /\ ~Earlier(today, start) <=> DayOf(start) <= DayOf(today)
      /\ Earlier(end, start) <=> DayOf(end) < DayOf(start)
      /\ EarlierOrOn(today, end) <=> DayOf(today) <= DayOf(end)
    BY <1>2, EarlierIsOrder DEF EarlierOrOn
<1> QED BY <1>1, <1>2, <1>3, SpanRound DEF InMonths

-----------------------------------------------------------------------------
\* A time is less than a day of minutes, and they tell its hour and its minute.
LEMMA MinutesOfTime ==
    ASSUME NEW a \in HourMinute, NEW b \in HourMinute
    PROVE  /\ MinuteOf(a) \in 0 .. DayLength - 1
           /\ a = b <=> MinuteOf(a) = MinuteOf(b)
<1> DEFINE n == MinutesInHour
<1>1. n \in Nat \ {0} /\ Hours \in Nat \ {0}
    BY UnitsAssumption
<1>2. a.hour \in 0 .. Hours - 1 /\ b.hour \in 0 .. Hours - 1 /\ a.minute \in 0 .. n - 1 /\ b.minute \in 0 .. n - 1
    BY DEF HourMinute
<1>3. a.hour * n + n <= DayLength
    BY <1>1, <1>2, Less DEF DayLength
<1>4. MinuteOf(a) \in 0 .. DayLength - 1
    BY <1>1, <1>2, <1>3 DEF MinuteOf, DayLength
<1>5. ASSUME a.hour < b.hour PROVE MinuteOf(a) < MinuteOf(b)
    <2>1. (a.hour * n) + n <= b.hour * n
        BY <1>1, <1>2, <1>5, Less
    <2> QED BY <1>1, <1>2, <2>1 DEF MinuteOf
<1>6. ASSUME b.hour < a.hour PROVE MinuteOf(b) < MinuteOf(a)
    <2>1. (b.hour * n) + n <= a.hour * n
        BY <1>1, <1>2, <1>6, Less
    <2> QED BY <1>1, <1>2, <2>1 DEF MinuteOf
<1>7. a.hour = b.hour => (MinuteOf(a) = MinuteOf(b) <=> a.minute = b.minute)
    BY <1>1, <1>2 DEF MinuteOf
<1>8. a = b <=> a.hour = b.hour /\ a.minute = b.minute
    BY DEF HourMinute
<1>9. MinuteOf(a) \in Int /\ MinuteOf(b) \in Int
    BY <1>1, <1>2 DEF MinuteOf
<1> QED BY <1>2, <1>4, <1>5, <1>6, <1>7, <1>8, <1>9

\* operator+(int) moves a time on, past the hour and past midnight, by any
\* number of minutes up to a day.
THEOREM PlusMovesOn ==
    ASSUME NEW a \in HourMinute, NEW m \in 0 .. DayLength
    PROVE  /\ Plus(a, m) \in HourMinute
           /\ MinuteOf(Plus(a, m)) = IF MinuteOf(a) + m < DayLength THEN MinuteOf(a) + m
                                     ELSE MinuteOf(a) + m - DayLength
<1>1. /\ MinutesInHour \in Nat \ {0} /\ Hours \in Nat \ {0}
      /\ DayLength = Hours * MinutesInHour /\ DayLength \in Nat /\ m \in Nat
    BY UnitsAssumption DEF DayLength
<1>2. a.hour \in 0 .. Hours - 1 /\ a.minute \in 0 .. MinutesInHour - 1
    BY DEF HourMinute
<1>3. PICK q \in Nat, r \in 0 .. MinutesInHour - 1 :
          /\ a.minute + m = (MinutesInHour * q) + r
          /\ q = (a.minute + m) \div MinutesInHour /\ r = (a.minute + m) % MinutesInHour
    <2>1. /\ (a.minute + m) \div MinutesInHour \in Nat
          /\ (a.minute + m) % MinutesInHour \in 0 .. MinutesInHour - 1
          /\ a.minute + m = (MinutesInHour * ((a.minute + m) \div MinutesInHour)) + ((a.minute + m) % MinutesInHour)
        BY <1>1, <1>2, SMTT(30)
    <2> QED BY <2>1
<1>4. PICK h \in Nat : h = a.hour + q
    BY <1>2
<1>5. MinuteOf(a) = (a.hour * MinutesInHour) + a.minute /\ MinuteOf(a) \in 0 .. DayLength - 1
    BY MinutesOfTime DEF MinuteOf
<1>6. h * MinutesInHour = (a.hour * MinutesInHour) + (MinutesInHour * q)
    BY <1>1, <1>2, <1>4
<1>7. h * MinutesInHour = MinuteOf(a) + m - r
    <2>1. a.hour * MinutesInHour \in Nat /\ MinutesInHour * q \in Nat
        BY <1>1, <1>2
    <2>2. ASSUME NEW x \in Nat, NEW y \in Nat, NEW z \in Nat,
                 a.minute + m = y + r, MinuteOf(a) = x + a.minute, z = x + y
          PROVE  z = MinuteOf(a) + m - r
        BY <1>1, <1>2, <2>2
    <2>3. h * MinutesInHour \in Nat
        BY <1>1
    <2> QED BY <1>3, <1>5, <1>6, <2>1, <2>2, <2>3
<1>8. PICK p \in Nat, d \in Nat : p = h * MinutesInHour /\ d = MinuteOf(a) + m /\ d = p + r
    <2>1. h * MinutesInHour \in Nat /\ MinuteOf(a) + m \in Nat
        BY <1>1, <1>5
    <2> QED BY <1>1, <1>5, <1>7, <2>1
<1>9. CASE h < Hours
    <2>1. Plus(a, m) = [hour |-> h, minute |-> r]
        BY <1>1, <1>3, <1>4, <1>9 DEF Plus
    <2>2. MinuteOf(Plus(a, m)) = d
        BY <1>8, <2>1 DEF MinuteOf
    <2>3. p + MinutesInHour <= DayLength
        BY <1>1, <1>8, <1>9, Less
    <2>4. d < DayLength
        <3>1. MinutesInHour \in Nat /\ DayLength \in Nat
            BY <1>1
        <3> QED BY <1>8, <2>3, <3>1
    <2>5. Plus(a, m) \in HourMinute
        BY <1>1, <1>3, <1>9, <2>1 DEF HourMinute
    <2> QED BY <1>8, <2>2, <2>4, <2>5
<1>10. CASE h >= Hours
    <2>1. Plus(a, m) = [hour |-> h - Hours, minute |-> r]
        BY <1>1, <1>3, <1>4, <1>10 DEF Plus
    <2>2. PICK g \in Nat : g = (h - Hours) * MinutesInHour
        BY <1>1, <1>10
    <2>3. MinuteOf(Plus(a, m)) = g + r
        BY <2>1, <2>2 DEF MinuteOf
    <2>4. g = p - DayLength
        BY <1>1, <1>8, <2>2
    <2>5. DayLength \in Nat
        BY <1>1
    <2>6. MinuteOf(Plus(a, m)) = d - DayLength /\ ~(d < DayLength)
        BY <1>8, <2>3, <2>4, <2>5
    <2>7. h - Hours < Hours
        <3>1. m <= DayLength /\ m \in Nat
            BY <1>1
        <3>2. d < DayLength + DayLength
            BY <1>5, <1>8, <2>5, <3>1
        <3>3. g < DayLength
            BY <1>8, <2>4, <2>5, <3>2
        <3>4. ASSUME h - Hours >= Hours PROVE g >= DayLength
            BY <1>1, <1>10, <2>2, <3>4, Less
        <3> QED BY <1>1, <2>5, <3>3, <3>4
    <2>8. Plus(a, m) \in HourMinute
        BY <1>1, <1>3, <1>10, <2>1, <2>7 DEF HourMinute
    <2>9. d = MinuteOf(a) + m /\ MinuteOf(a) \in Nat /\ m \in Nat
        BY <1>1, <1>5, <1>8
    <2> QED BY <2>5, <2>6, <2>8, <2>9
<1> QED BY <1>1, <1>4, <1>9, <1>10

\* operator-(int) takes up to an hour off, past midnight too; for more than an
\* hour the one hour that it borrows is too few.
THEOREM MinusMovesBack ==
    ASSUME NEW a \in HourMinute, NEW m \in 0 .. MinutesInHour
    PROVE  /\ Minus(a, m) \in HourMinute
           /\ MinuteOf(Minus(a, m)) = IF m <= MinuteOf(a) THEN MinuteOf(a) - m
                                      ELSE MinuteOf(a) - m + DayLength
<1> DEFINE n == MinutesInHour
<1>1. n \in Nat \ {0} /\ Hours \in Nat \ {0} /\ DayLength = Hours * n /\ m \in Nat
    BY UnitsAssumption DEF DayLength
<1>2. a.hour \in 0 .. Hours - 1 /\ a.minute \in 0 .. n - 1
    BY DEF HourMinute
<1>3. MinuteOf(a) = a.hour * n + a.minute /\ a.hour * n \in Nat
    BY <1>1, <1>2 DEF MinuteOf
<1>4. CASE m <= a.minute
    <2>1. Minus(a, m) = [hour |-> a.hour, minute |-> a.minute - m]
        BY <1>1, <1>2, <1>4 DEF Minus
    <2> QED BY <1>1, <1>2, <1>3, <1>4, <2>1 DEF HourMinute, MinuteOf
<1>5. CASE a.minute < m /\ a.hour > 0
    <2>1. Minus(a, m) = [hour |-> a.hour - 1, minute |-> a.minute - m + n]
        BY <1>1, <1>2, <1>5 DEF Minus
    <2>2. (a.hour - 1) * n = a.hour * n - n /\ (a.hour - 1) * n >= 0
        BY <1>1, <1>2, <1>5
    <2> QED BY <1>1, <1>2, <1>3, <1>5, <2>1, <2>2 DEF HourMinute, MinuteOf
<1>6. CASE a.minute < m /\ a.hour = 0
    <2>1. Minus(a, m) = [hour |-> Hours - 1, minute |-> a.minute - m + n]
        BY <1>1, <1>2, <1>6 DEF Minus
    <2>2. (Hours - 1) * n = DayLength - n
        BY <1>1
    <2> QED BY <1>1, <1>2, <1>3, <1>6, <2>1, <2>2 DEF HourMinute, MinuteOf
<1> QED BY <1>1, <1>2, <1>4, <1>5, <1>6

\* operator-(HourMinute) is the minutes between two times, and operator+ of
\* them gives the later time back.
THEOREM SinceMeasures ==
    ASSUME NEW a \in HourMinute, NEW b \in HourMinute
    PROVE  /\ Since(a, b) = MinuteOf(a) - MinuteOf(b)
           /\ Since(a, b) >= 0 => Plus(b, Since(a, b)) = a
<1> DEFINE n == MinutesInHour
<1>1. n \in Nat \ {0}
    BY UnitsAssumption
<1>2. /\ a.hour \in Int /\ a.minute \in Int /\ b.hour \in Int /\ b.minute \in Int
    BY UnitsAssumption DEF HourMinute
<1>3. (a.hour - b.hour) * n = a.hour * n - b.hour * n
    BY <1>1, <1>2
<1>4. (a.hour - b.hour - 1) * n = a.hour * n - b.hour * n - n
    BY <1>1, <1>2
<1>5. Since(a, b) = MinuteOf(a) - MinuteOf(b)
    BY <1>1, <1>2, <1>3, <1>4 DEF Since, MinuteOf
<1>6. MinuteOf(a) \in 0 .. DayLength - 1 /\ MinuteOf(b) \in 0 .. DayLength - 1 /\ DayLength \in Nat
    BY UnitsAssumption, MinutesOfTime DEF DayLength
<1>7. ASSUME Since(a, b) >= 0 PROVE Plus(b, Since(a, b)) = a
    <2>1. Since(a, b) \in 0 .. DayLength
        BY <1>5, <1>6, <1>7
    <2>2. Plus(b, Since(a, b)) \in HourMinute /\ MinuteOf(Plus(b, Since(a, b))) = MinuteOf(a)
        BY <1>5, <1>6, <2>1, PlusMovesOn
    <2> QED BY <2>2, MinutesOfTime
<1> QED BY <1>5, <1>7
=============================================================================
