-------------------------- MODULE ShowManagerProofs -------------------------
(***************************************************************************)
(* Theorems about ShowManager for every configuration, length of the day   *)
(* and of the year, and runaway limit.                                     *)
(***************************************************************************)
EXTENDS ShowManager, TimeUtilProofs, FiniteSetTheorems, TLAPS

\* PlayList::load counts songs in each of the three lists, whatever the lines.
LEMMA PlayListCounts ==
    ASSUME NEW lines \in Seq(Lines)
    PROVE  PlayListLoad(lines) \in [Lists -> Nat]
<1>1. ASSUME NEW l \in Lists
      PROVE  Cardinality({i \in 1 .. Len(lines) : lines[i] = "entry" /\ ListAt(lines, i) = l}) \in Nat
    <2> DEFINE S == {i \in 1 .. Len(lines) : lines[i] = "entry" /\ ListAt(lines, i) = l}
    <2>1. IsFiniteSet(1 .. Len(lines))
        BY FS_Interval
    <2>2. S \subseteq 1 .. Len(lines)
        OBVIOUS
    <2>3. IsFiniteSet(S)
        BY <2>1, <2>2, FS_Subset
    <2> QED BY <2>3, FS_CardinalityType
<1> QED BY <1>1 DEF PlayListLoad

\* The configuration has a value of its type for every key.
ConfigOK(c) == DOMAIN c = Keys /\ \A key \in Keys : c[key] \in Values[key]

\* The defaults that reset gives are values of their types.
LEMMA ResetType ==
    ASSUME NEW c, DOMAIN c = Keys, c["playlist"] \in Seq(Lines), today \in MonthDay
    PROVE  ConfigOK(Reset(c))
<1>1. Midnight \in HourMinute
    BY UnitsAssumption DEF Midnight, HourMinute
<1> QED BY <1>1 DEF ConfigOK, Reset, Keys, Values, HourRange, MonthRange

\* ConfigFile::load keeps the types, whether the file can be read or not.
LEMMA LoadType ==
    ASSUME NEW c, DOMAIN c = Keys, c["playlist"] \in Seq(Lines), today \in MonthDay,
           NEW f \in Files \cup {<<>>}
    PROVE  ConfigOK(Load(c, f))
<1>1. ConfigOK(Reset(c))
    BY ResetType
<1>2. ASSUME NEW key \in Keys, key \in DOMAIN f PROVE f[key] \in Values[key]
    <2>1. CASE f \in Files
        BY <1>2, <2>1, FilesAssumption
    <2>2. CASE f = <<>>
        BY <1>2, <2>2
    <2> QED BY <2>1, <2>2
<1> QED BY <1>1, <1>2 DEF ConfigOK, Load

\* A minute later it is a time of the day, and a day later a day of the year.
LEMMA TimeType ==
    ASSUME now \in HourMinute, today \in MonthDay
    PROVE  NextMinute \in HourMinute /\ NextDay \in MonthDay
<1>1. now.hour \in 0 .. Hours - 1 /\ now.minute \in 0 .. MinutesInHour - 1
    BY DEF HourMinute
<1>2. today.month \in 1 .. Months /\ today.day \in 1 .. DaysInMonth
    BY DEF MonthDay
<1>3. Hours \in Nat \ {0} /\ MinutesInHour \in Nat \ {0} /\ Months \in Nat \ {0} /\ DaysInMonth \in Nat \ {0}
    BY UnitsAssumption
<1>4. (now.hour + 1) % Hours \in 0 .. Hours - 1
    BY <1>1, <1>3
<1>5. (today.month % Months) + 1 \in 1 .. Months
    BY <1>2, <1>3
<1>6. NextMinute \in HourMinute
    BY <1>1, <1>3, <1>4 DEF NextMinute, HourMinute
<1>7. NextDay \in MonthDay
    BY <1>2, <1>3, <1>5 DEF NextDay, MonthDay
<1> QED BY <1>6, <1>7

\* What TypeOK says of the configuration is ConfigOK.
LEMMA ConfigTyped == TypeOK => ConfigOK(config)
BY DEF TypeOK, ConfigOK

\* Reload leaves the manager with a configuration.
LEMMA ReloadType ==
    TypeOK /\ Reload => ConfigOK(config') /\ edited' \in BOOLEAN
<1> SUFFICES ASSUME TypeOK, Reload PROVE ConfigOK(config') /\ edited' \in BOOLEAN
    OBVIOUS
<1>1. ConfigOK(config) /\ today \in MonthDay /\ file \in Files /\ edited \in BOOLEAN
    BY ConfigTyped DEF TypeOK
<1>2. config["playlist"] \in Seq(Lines) /\ DOMAIN config = Keys
    BY <1>1 DEF ConfigOK, Keys, Values
<1>3. ConfigOK(Load(config, file)) /\ ConfigOK(Load(config, <<>>))
    BY <1>1, <1>2, LoadType
<1> QED BY <1>1, <1>3 DEF Reload

\* The manager starts with the file's configuration.
LEMMA InitType == Init => TypeOK
<1> SUFFICES ASSUME Init PROVE TypeOK
    OBVIOUS
<1>1. DOMAIN NewConfig = Keys /\ NewConfig["playlist"] \in Seq(Lines)
    BY DEF NewConfig, Keys, NoPlayList
<1>2. ConfigOK(config)
    BY <1>1, LoadType DEF Init
<1>3. config.delay \in Nat
    BY <1>2 DEF ConfigOK, Keys, Values
<1>4. waited \in 0 .. (IF pc = "delay" THEN config.delay ELSE Runaway)
    BY RunawayAssumption DEF Init
<1>5. event \in [Lists -> Nat] /\ list \in Lists /\ song \in Nat \ {0}
    BY DEF Init, Lists
<1> QED BY <1>2, <1>4, <1>5 DEF Init, TypeOK, ConfigOK

\* Every step of the manager, of the other threads and of time keeps the types.
LEMMA TypeStep == TypeOK /\ [Next]_vars => TypeOK'
<1> SUFFICES ASSUME TypeOK, [Next]_vars PROVE TypeOK'
    OBVIOUS
<1> USE DEF world, settings, manager, server
<1>0. config.delay \in Nat
    BY ConfigTyped DEF ConfigOK, Keys, Values
<1>1. CASE Finish
    BY <1>1 DEF Finish, Return, TypeOK
<1>2. CASE EnterListen
    BY <1>2, <1>0, RunawayAssumption DEF EnterListen, TypeOK
<1>3. CASE OpenFails
    BY <1>3 DEF OpenFails, Return, TypeOK
<1>4. CASE OpenServer
    <2>1. config.playlist \in Seq(Lines)
        BY ConfigTyped DEF ConfigOK, Keys, Values
    <2>2. PlayListLoad(config.playlist) \in [Lists -> Nat]
        BY <2>1, PlayListCounts
    <2>3. event' \in [Lists -> Nat] /\ list' \in Lists /\ song' \in Nat \ {0}
        BY <1>4, <2>2 DEF OpenServer, TypeOK, Lists
    <2>4. waited' \in 0 .. (IF pc' = "delay" THEN config'.delay ELSE Runaway)
        BY <1>4, <1>0, RunawayAssumption DEF OpenServer
    <2> QED BY <1>4, <2>3, <2>4 DEF OpenServer, TypeOK
<1>5. CASE DelayEnds
    BY <1>5, RunawayAssumption DEF DelayEnds, TypeOK
<1>6. CASE TurnEnds
    <2>1. ConfigOK(config') /\ edited' \in BOOLEAN
        BY <1>6, ReloadType DEF TurnEnds
    <2>2. waited' \in 0 .. (IF pc' = "delay" THEN config'.delay ELSE Runaway)
        BY <1>6 DEF TurnEnds, TypeOK
    <2> QED BY <1>6, <2>1, <2>2 DEF TurnEnds, TypeOK, ConfigOK
<1>7. CASE PlaySong
    BY <1>7, RunawayAssumption DEF PlaySong, ServerPlay, TypeOK
<1>8. CASE SongOver
    BY <1>8, RunawayAssumption DEF SongOver, TypeOK
<1>9. CASE GiveUp
    BY <1>9 DEF GiveUp, ServerPlayOff, TypeOK
<1>10. CASE NextList
    BY <1>10 DEF NextList, TypeOK, Lists
<1>11. CASE EndShow
    BY <1>11 DEF EndShow, ServerPlayOff, TypeOK
<1>12. CASE ClockEnd
    BY <1>12 DEF ClockEnd, TypeOK
<1>13. CASE AcceptFails
    BY <1>13 DEF AcceptFails, TypeOK
<1>14. CASE Tick
    <2>1. now' \in HourMinute /\ today' \in MonthDay
        BY <1>14, TimeType DEF Tick, TypeOK
    <2>2. waited' \in 0 .. (IF pc' = "delay" THEN config'.delay ELSE Runaway)
        BY <1>14, <1>0, RunawayAssumption DEF Tick, Sleeps, TypeOK
    <2> QED BY <1>14, <2>1, <2>2 DEF Tick, TypeOK
<1>15. CASE Edit
    BY <1>15 DEF Edit, TypeOK
<1>16. CASE UNCHANGED vars
    BY <1>16 DEF vars, TypeOK
<1> QED
    BY <1>1, <1>2, <1>3, <1>4, <1>5, <1>6, <1>7, <1>8, <1>9, <1>10, <1>11, <1>12,
       <1>13, <1>14, <1>15, <1>16 DEF Next, Step

\* The types hold in every run of the manager, whatever the configuration.
THEOREM ManagerTypes == Spec => []TypeOK
BY InitType, TypeStep, PTL DEF Spec

-----------------------------------------------------------------------------
\* What makes WaitsForServer and NoShowBetween inductive: a server that plays
\* has a clock that is not stopped, so play(false) reaches its end; and a
\* show goes on only while the server is open, unless the acceptor failed.
Attended ==
    /\ WaitsForServer /\ NoShowBetween
    /\ srvPlaying => clock # "stopped"
    /\ pc \in {"delay", "songs", "wait"} /\ ~cut => open

\* Every step keeps it.
LEMMA AttendedStep == Attended /\ [Next]_vars => Attended'
<1> SUFFICES ASSUME Attended, [Next]_vars PROVE Attended'
    OBVIOUS
<1> USE DEF world, settings, manager, server, Attended, WaitsForServer, NoShowBetween
<1>1. CASE Finish
    BY <1>1 DEF Finish, Return
<1>2. CASE EnterListen
    BY <1>2 DEF EnterListen
<1>3. CASE OpenFails
    BY <1>3 DEF OpenFails, Return
<1>4. CASE OpenServer
    BY <1>4 DEF OpenServer
<1>5. CASE DelayEnds
    BY <1>5 DEF DelayEnds
<1>6. CASE TurnEnds
    BY <1>6 DEF TurnEnds
<1>7. CASE PlaySong
    BY <1>7 DEF PlaySong, ServerPlay
<1>8. CASE SongOver
    BY <1>8 DEF SongOver
<1>9. CASE GiveUp
    BY <1>9 DEF GiveUp, ServerPlayOff
<1>10. CASE NextList
    BY <1>10 DEF NextList
<1>11. CASE EndShow
    BY <1>11 DEF EndShow, ServerPlayOff
<1>12. CASE ClockEnd
    BY <1>12 DEF ClockEnd
<1>13. CASE AcceptFails
    BY <1>13 DEF AcceptFails
<1>14. CASE Tick
    BY <1>14 DEF Tick
<1>15. CASE Edit
    BY <1>15 DEF Edit
<1>16. CASE UNCHANGED vars
    BY <1>16 DEF vars
<1> QED
    BY <1>1, <1>2, <1>3, <1>4, <1>5, <1>6, <1>7, <1>8, <1>9, <1>10, <1>11, <1>12,
       <1>13, <1>14, <1>15, <1>16 DEF Next, Step

\* In waitToStop the manager waits only for a song that the server plays.
THEOREM ManagerWaitsForServer == Spec => []WaitsForServer
<1>1. Init => Attended
    BY DEF Init, Attended, WaitsForServer, NoShowBetween
<1>2. Attended => WaitsForServer
    BY DEF Attended
<1> QED BY <1>1, <1>2, AttendedStep, PTL DEF Spec

\* Between the shows the server tells a client of no show and of no song.
THEOREM NoShowBetweenShows == Spec => []NoShowBetween
<1>1. Init => Attended
    BY DEF Init, Attended, WaitsForServer, NoShowBetween
<1>2. Attended => NoShowBetween
    BY DEF Attended
<1> QED BY <1>1, <1>2, AttendedStep, PTL DEF Spec

-----------------------------------------------------------------------------
(* The end of the hours. *)

\* While the server is open past its hours the manager is in the delay or the
\* song it was in when they ended, and has been in it for longer.
Overtime ==
    /\ ServerCloses
    /\ pc = "run" => ~open
    /\ ~open => late = 0
    /\ open /\ ShowInHours /\ pc \in {"delay", "wait"} => Listening \/ late < waited

\* Every step keeps it: a song begins in the time of the show, and so in hours.
LEMMA OvertimeStep == TypeOK /\ Overtime /\ [Next]_vars => Overtime'
<1> SUFFICES ASSUME TypeOK, Overtime, [Next]_vars PROVE Overtime'
    OBVIOUS
<1> USE DEF world, settings, manager, server, Overtime, ServerCloses
<1> USE RunawayAssumption
<1>1. UNCHANGED <<now, config>> => /\ Listening' = Listening
                                   /\ ShowOn' = ShowOn
                                   /\ ShowInHours' = ShowInHours
    BY DEF Listening, ShowOn, ShowInHours
<1>2. ShowInHours /\ ShowOn => Listening
    BY DEF TypeOK, ShowInHours, ShowOn, Listening
<1>3. late \in Nat /\ waited \in Nat
    BY DEF TypeOK
<1>4. CASE Finish
    BY <1>1, <1>4 DEF Finish, Return
<1>5. CASE EnterListen
    BY <1>1, <1>5 DEF EnterListen
<1>6. CASE OpenFails
    BY <1>1, <1>6 DEF OpenFails, Return
<1>7. CASE OpenServer
    <2>1. Listening /\ now' = now /\ config' = config /\ late' = 0
        BY <1>7 DEF OpenServer
    <2>2. ServerCloses'
        BY <1>7, <2>1 DEF OpenServer
    <2>3. pc' # "run"
        BY <1>7 DEF OpenServer
    <2> QED BY <1>1, <2>1, <2>2, <2>3
<1>8. CASE DelayEnds
    BY <1>1, <1>8 DEF DelayEnds
<1>9. CASE TurnEnds
    BY <1>9 DEF TurnEnds
<1>10. CASE PlaySong
    BY <1>1, <1>2, <1>10 DEF PlaySong, MayPlay
<1>11. CASE SongOver
    BY <1>1, <1>11 DEF SongOver
<1>12. CASE GiveUp
    BY <1>1, <1>12 DEF GiveUp
<1>13. CASE NextList
    BY <1>1, <1>13 DEF NextList
<1>14. CASE EndShow
    BY <1>1, <1>14 DEF EndShow
<1>15. CASE ClockEnd
    BY <1>1, <1>15 DEF ClockEnd
<1>16. CASE AcceptFails
    BY <1>1, <1>16 DEF AcceptFails
<1>17. CASE Tick
    <2>1. /\ open' = open /\ pc' = pc /\ config' = config
          /\ ShowInHours' = ShowInHours
        BY <1>17 DEF Tick, ShowInHours
    <2>2. late' = IF open /\ ~Listening THEN late + 1 ELSE 0
        BY <1>17 DEF Tick
    <2>3. CASE pc = "delay"
        <3>1. config.delay \in Nat
            BY ConfigTyped DEF ConfigOK, Keys, Values
        <3>2. waited < config.delay /\ waited' = waited + 1
            BY <1>17, <2>3 DEF Tick, Sleeps
        <3>3. CASE open /\ ~Listening
            BY <1>3, <2>1, <2>2, <2>3, <3>1, <3>2, <3>3
        <3>4. CASE ~(open /\ ~Listening)
            BY <1>3, <2>1, <2>2, <2>3, <3>2, <3>4
        <3> QED BY <3>3, <3>4
    <2>4. CASE pc = "wait"
        BY <1>3, <1>17, <2>1, <2>2, <2>4 DEF Tick, Sleeps
    <2>5. CASE pc \in {"run", "listen"}
        BY <1>17, <2>1, <2>2, <2>5 DEF Tick, Sleeps
    <2> QED BY <1>17, <2>3, <2>4, <2>5 DEF Tick, Sleeps
<1>18. CASE Edit
    BY <1>1, <1>18 DEF Edit
<1>19. CASE UNCHANGED vars
    BY <1>1, <1>19 DEF vars
<1> QED
    BY <1>4, <1>5, <1>6, <1>7, <1>8, <1>9, <1>10, <1>11, <1>12, <1>13, <1>14, <1>15,
       <1>16, <1>17, <1>18, <1>19 DEF Next, Step

\* Whatever the hours and the lengths of the songs, the server closes after its
\* hours within the song or the delay they ended in.
THEOREM ServerClosesInTime == Spec => []ServerCloses
<1>1. Init => Overtime
    BY DEF Init, Overtime, ServerCloses
<1>2. Overtime => ServerCloses
    BY DEF Overtime
<1> QED BY <1>1, <1>2, InitType, TypeStep, OvertimeStep, PTL DEF Spec

-----------------------------------------------------------------------------
(* The season.  An evening is of one day, if nobody listens over midnight  *)
(* and neither a delay nor a song that starts in the time of the show is   *)
(* over only on the next day.                                              *)

LastMinute == [hour |-> Hours - 1, minute |-> MinutesInHour - 1]
YearRound(season) == \A day \in MonthDay : InMonths(season.start, season.end, day)
ClosedOverMidnight(listening) ==
    ~ (InHours(listening.start, listening.end, LastMinute) /\ InHours(listening.start, listening.end, Midnight))
OverByMidnight(show, minutes) ==
    \A t \in HourMinute : InHours(show.start, show.end, t) => MinuteOf(t) + minutes < DayLength

\* What a configuration file has to say for that, if it sets a season at all
\* that has an end.
OneDay(f) ==
    \/ "runTime" \in DOMAIN f /\ YearRound(f["runTime"])
    \/ /\ "listenTime" \in DOMAIN f => ClosedOverMidnight(f["listenTime"])
       /\ "showTime" \in DOMAIN f =>
              /\ OverByMidnight(f["showTime"], Runaway)
              /\ "delay" \in DOMAIN f => OverByMidnight(f["showTime"], f["delay"])

\* In its evening the manager is in the season, and what it waits for ends on
\* the same day.
InTime ==
    /\ OneDay(config)
    /\ YearRound(config.runTime)
       \/ /\ pc = "delay" => MinuteOf(now) + (config.delay - waited) < DayLength
          /\ pc = "wait" => MinuteOf(now) + (Runaway - waited) < DayLength
    /\ pc = "listen" /\ Listening => InSeason
    /\ pc \in {"delay", "songs", "wait"} => InSeason

\* A file that keeps evenings to one day gives the manager such a
\* configuration: what reset leaves is a time without an hour in it.
LEMMA LoadOneDay ==
    ASSUME NEW c, DOMAIN c = Keys, NEW f, OneDay(f)
    PROVE  OneDay(Load(c, f))
<1> DEFINE l == Load(c, f)
           none == [start |-> Midnight, end |-> Midnight]
<1>1. DOMAIN l = Keys
    BY DEF Load
<1>2. ASSUME NEW key \in Keys, key \in DOMAIN f PROVE l[key] = f[key]
    BY <1>2 DEF Load
<1>3. ASSUME NEW key \in {"listenTime", "showTime"}, key \notin DOMAIN f PROVE l[key] = none
    BY <1>3 DEF Load, Reset, Keys
<1>4. "delay" \notin DOMAIN f => l["delay"] = 0
    BY DEF Load, Reset, Keys
<1>5. \A t : ~InHours(none.start, none.end, t)
    BY DEF InHours, After
<1> SUFFICES OneDay(l)
    OBVIOUS
<1> HIDE DEF l, none
<1>6. CASE "runTime" \in DOMAIN f /\ YearRound(f["runTime"])
    BY <1>1, <1>2, <1>6 DEF OneDay, Keys
<1>7. CASE ~("runTime" \in DOMAIN f /\ YearRound(f["runTime"]))
    <2>1. ClosedOverMidnight(l["listenTime"])
        BY <1>2, <1>3, <1>5, <1>7 DEF OneDay, Keys, ClosedOverMidnight
    <2>2. CASE "showTime" \in DOMAIN f
        <3>1. l["showTime"] = f["showTime"] /\ OverByMidnight(l["showTime"], Runaway)
            BY <1>2, <1>7, <2>2 DEF OneDay, Keys
        <3>2. CASE "delay" \in DOMAIN f
            BY <1>2, <1>7, <2>1, <2>2, <3>1, <3>2 DEF OneDay, Keys
        <3>3. CASE "delay" \notin DOMAIN f
            <4>1. ASSUME NEW t \in HourMinute, InHours(l["showTime"].start, l["showTime"].end, t)
                  PROVE  MinuteOf(t) + 0 < DayLength
                <5>1. MinuteOf(t) + Runaway < DayLength
                    BY <3>1, <4>1 DEF OverByMidnight
                <5>2. MinuteOf(t) \in Nat /\ DayLength \in Nat
                    BY UnitsAssumption DEF MinuteOf, HourMinute, DayLength
                <5> QED BY <5>1, <5>2, RunawayAssumption
            <4>2. OverByMidnight(l["showTime"], l["delay"])
                BY <1>4, <3>3, <4>1 DEF OverByMidnight
            <4> QED BY <2>1, <3>1, <4>2 DEF OneDay
        <3> QED BY <3>2, <3>3
    <2>3. CASE "showTime" \notin DOMAIN f
        <3>1. \A minutes : OverByMidnight(l["showTime"], minutes)
            BY <1>3, <1>5, <2>3 DEF OverByMidnight
        <3> QED BY <2>1, <3>1 DEF OneDay
    <2> QED BY <2>2, <2>3
<1> QED BY <1>6, <1>7

\* A minute that is not the last of its day is followed by the next number.
LEMMA MinuteLater ==
    ASSUME now \in HourMinute
    PROVE  /\ MinuteOf(now) + 1 < DayLength =>
                  NextMinute # Midnight /\ MinuteOf(NextMinute) = MinuteOf(now) + 1
           /\ NextMinute = Midnight => now = LastMinute
<1> DEFINE h == now.hour
           m == now.minute
           n == MinutesInHour
<1>1. Hours \in Nat \ {0} /\ n \in Nat \ {0}
    BY UnitsAssumption
<1>2. h \in 0 .. Hours - 1 /\ m \in 0 .. n - 1
    BY DEF HourMinute
<1>3. MinuteOf(now) = h * n + m
    BY DEF MinuteOf
<1>4. CASE m + 1 < n
    <2>1. NextMinute.hour = h /\ NextMinute.minute = m + 1
        BY <1>4 DEF NextMinute, HourMinute
    <2>2. NextMinute # Midnight
        BY <1>2, <2>1 DEF Midnight
    <2>3. MinuteOf(NextMinute) = h * n + (m + 1)
        BY <2>1 DEF MinuteOf
    <2>4. h * n \in Nat
        BY <1>1, <1>2
    <2> HIDE DEF h, m, n
    <2> QED BY <1>2, <1>3, <2>2, <2>3, <2>4
<1>5. CASE ~(m + 1 < n)
    <2>1. m = n - 1
        BY <1>1, <1>2, <1>5
    <2>2. NextMinute = [hour |-> (h + 1) % Hours, minute |-> 0]
        BY <1>5 DEF NextMinute
    <2>3. CASE h = Hours - 1
        <3>1. MinuteOf(now) + 1 = (Hours - 1) * n + n
            BY <1>1, <1>3, <2>1, <2>3
        <3>2. MinuteOf(now) + 1 = DayLength
            BY <1>1, <3>1 DEF DayLength
        <3>3. now = LastMinute
            BY <2>1, <2>3 DEF LastMinute, HourMinute
        <3>4. DayLength \in Nat
            BY <1>1 DEF DayLength
        <3> QED BY <3>2, <3>3, <3>4
    <2>4. CASE h # Hours - 1
        <3>1. h + 1 < Hours /\ h + 1 \in 0 .. Hours - 1
            BY <1>1, <1>2, <2>4
        <3>2. h + 1 = 0 * Hours + (h + 1)
            BY <1>1, <1>2
        <3>3. (h + 1) % Hours = h + 1
            BY <1>1, <3>1, <3>2, Remainder
        <3>4. NextMinute # Midnight
            BY <1>2, <2>2, <3>3 DEF Midnight
        <3>5. MinuteOf(NextMinute) = (h + 1) * n
            BY <1>1, <1>2, <2>2, <3>3 DEF MinuteOf
        <3>6. (h + 1) * n = h * n + n /\ h * n \in Nat
            BY <1>1, <1>2
        <3> HIDE DEF h, m, n
        <3> QED BY <1>1, <1>3, <2>1, <3>4, <3>5, <3>6
    <2> QED BY <2>3, <2>4
<1> QED BY <1>4, <1>5

\* When neither the day nor the configuration changes, the season does not
\* either, nor, in the same minute, the hours of listening.
LEMMA SameDay ==
    ASSUME today' = today, config' = config
    PROVE  /\ InSeason' = InSeason
           /\ now' = now => Listening' = Listening
BY DEF InSeason, Listening

\* Every step keeps it: a minute that begins another day passes only in the
\* run loop, or in a season that has no end.
LEMMA InTimeStep ==
    ASSUME \A f \in Files : OneDay(f)
    PROVE  TypeOK /\ InTime /\ [Next]_vars => InTime'
<1> SUFFICES ASSUME TypeOK, InTime, [Next]_vars PROVE InTime'
    OBVIOUS
<1> USE DEF world, settings, manager, server
<1> DEFINE ends == /\ pc = "delay" => MinuteOf(now) + (config.delay - waited) < DayLength
                   /\ pc = "wait" => MinuteOf(now) + (Runaway - waited) < DayLength
<1>0. /\ now \in HourMinute /\ today \in MonthDay /\ config.delay \in Nat /\ Runaway \in Nat
      /\ "runTime" \in DOMAIN config /\ "showTime" \in DOMAIN config
      /\ "listenTime" \in DOMAIN config /\ "delay" \in DOMAIN config
      /\ waited \in 0 .. (IF pc = "delay" THEN config.delay ELSE Runaway)
    BY ConfigTyped, RunawayAssumption DEF ConfigOK, Keys, Values, TypeOK
<1>1. MinuteOf(now) \in Nat /\ DayLength \in Nat
    BY <1>0, UnitsAssumption DEF MinuteOf, HourMinute, DayLength
<1>2. ASSUME pc' = pc, waited' = waited, now' = now, config' = config, today' = today
      PROVE  InTime'
    BY <1>2, SameDay DEF InTime
<1>3. ASSUME pc' \in {"done", "run"}, OneDay(config')
      PROVE  InTime'
    BY <1>3 DEF InTime
<1>4. ASSUME pc' \in {"listen", "songs"}, now' = now, config' = config, today' = today, InSeason
      PROVE  InTime'
    BY <1>4, SameDay DEF InTime
<1>5. ASSUME InTime, ShowOn
      PROVE  \/ YearRound(config.runTime)
             \/ MinuteOf(now) + Runaway < DayLength /\ MinuteOf(now) + config.delay < DayLength
    BY <1>0, <1>5 DEF InTime, OneDay, OverByMidnight, ShowOn
<1>6. CASE Finish
    BY <1>6, <1>3 DEF Finish, Return, InTime
<1>7. CASE EnterListen
    BY <1>7, <1>4 DEF EnterListen
<1>8. CASE OpenFails
    BY <1>8, <1>3 DEF OpenFails, Return, InTime
<1>9. CASE OpenServer
    <2>1. InSeason
        BY <1>9 DEF OpenServer, InTime
    <2>2. CASE ~ShowOn
        BY <1>9, <1>4, <2>1, <2>2 DEF OpenServer
    <2>3. CASE ShowOn
        <3>1. waited' = 0 /\ pc' \in {"delay", "songs"} /\ now' = now /\ config' = config /\ today' = today
            BY <1>9, <2>3 DEF OpenServer
        <3>2. \/ YearRound(config.runTime)
              \/ MinuteOf(now) + (config.delay - 0) < DayLength
            BY <1>0, <1>1, <1>5, <2>3
        <3> QED BY <2>1, <3>1, <3>2, SameDay DEF InTime
    <2> QED BY <2>2, <2>3
<1>10. CASE DelayEnds
    BY <1>10, <1>4 DEF DelayEnds, InTime
<1>11. CASE TurnEnds
    <2>1. OneDay(<<>>)
        BY DEF OneDay
    <2>2. OneDay(config')
        BY <1>11, <2>1, LoadOneDay DEF TurnEnds, Reload, InTime, TypeOK
    <2> QED BY <1>11, <1>3, <2>2 DEF TurnEnds
<1>12. CASE PlaySong
    <2>1. waited' = 0 /\ pc' = "wait" /\ now' = now /\ config' = config /\ today' = today
        BY <1>12 DEF PlaySong
    <2>2. \/ YearRound(config.runTime)
          \/ MinuteOf(now) + (Runaway - 0) < DayLength
        BY <1>0, <1>1, <1>5, <1>12 DEF PlaySong, MayPlay
    <2>3. InSeason
        BY <1>12 DEF PlaySong, InTime
    <2> QED BY <2>1, <2>2, <2>3, SameDay DEF InTime
<1>13. CASE SongOver
    BY <1>13, <1>4 DEF SongOver, InTime
<1>14. CASE GiveUp
    BY <1>14, <1>2 DEF GiveUp
<1>15. CASE NextList
    BY <1>15, <1>2 DEF NextList
<1>16. CASE EndShow
    BY <1>16, <1>4 DEF EndShow, InTime
<1>17. CASE ClockEnd
    BY <1>17, <1>2 DEF ClockEnd
<1>18. CASE AcceptFails
    BY <1>18, <1>2 DEF AcceptFails
<1>19. CASE Tick
    <2>1. /\ pc' = pc /\ config' = config /\ now' = NextMinute
          /\ today' = IF now' = Midnight THEN NextDay ELSE today
          /\ waited' = IF pc \in {"delay", "wait"} THEN waited + 1 ELSE 0
        BY <1>19 DEF Tick
    <2>2. today' \in MonthDay
        BY <1>0, <2>1, TimeType
    <2>3. CASE YearRound(config.runTime)
        <3>1. InSeason'
            BY <2>1, <2>2, <2>3 DEF InSeason, YearRound
        <3> QED BY <2>1, <2>3, <3>1 DEF InTime
    <2>4. CASE ~YearRound(config.runTime) /\ pc = "delay"
        <3>1. waited < config.delay
            BY <1>19, <2>4 DEF Tick, Sleeps
        <3>2. MinuteOf(now) + 1 < DayLength /\ MinuteOf(now) + (config.delay - waited) < DayLength
            BY <1>0, <1>1, <2>4, <3>1 DEF InTime
        <3>3. now' # Midnight /\ MinuteOf(now') = MinuteOf(now) + 1
            BY <1>0, <2>1, <3>2, MinuteLater
        <3>4. MinuteOf(now') + (config.delay - waited') < DayLength
            BY <1>0, <1>1, <2>1, <2>4, <3>2, <3>3
        <3>5. InSeason'
            BY <2>1, <2>4, <3>3, SameDay DEF InTime
        <3> QED BY <2>1, <2>4, <3>4, <3>5 DEF InTime
    <2>5. CASE ~YearRound(config.runTime) /\ pc = "wait"
        <3>1. waited < Runaway
            BY <1>19, <2>5 DEF Tick, Sleeps
        <3>2. MinuteOf(now) + 1 < DayLength /\ MinuteOf(now) + (Runaway - waited) < DayLength
            BY <1>0, <1>1, <2>5, <3>1 DEF InTime
        <3>3. now' # Midnight /\ MinuteOf(now') = MinuteOf(now) + 1
            BY <1>0, <2>1, <3>2, MinuteLater
        <3>4. MinuteOf(now') + (Runaway - waited') < DayLength
            BY <1>0, <1>1, <2>1, <2>5, <3>2, <3>3
        <3>5. InSeason'
            BY <2>1, <2>5, <3>3, SameDay DEF InTime
        <3> QED BY <2>1, <2>5, <3>4, <3>5 DEF InTime
    <2>6. CASE ~YearRound(config.runTime) /\ pc = "listen"
        <3>1. Listening /\ InSeason
            BY <1>19, <2>6 DEF Tick, Sleeps, InTime
        <3>2. Listening' => now' # Midnight
            BY <1>0, <2>1, <2>6, <3>1, MinuteLater
            DEF InTime, OneDay, ClosedOverMidnight, Listening
        <3>3. Listening' => InSeason'
            BY <2>1, <3>1, <3>2, SameDay
        <3> QED BY <2>1, <2>6, <3>3 DEF InTime
    <2>7. CASE pc = "run"
        BY <1>3, <2>1, <2>7 DEF InTime
    <2> QED BY <1>19, <2>3, <2>4, <2>5, <2>6, <2>7 DEF Tick, Sleeps
<1>20. CASE Edit
    BY <1>20, <1>2 DEF Edit
<1>21. CASE UNCHANGED vars
    BY <1>21, <1>2 DEF vars
<1> QED
    BY <1>6, <1>7, <1>8, <1>9, <1>10, <1>11, <1>12, <1>13, <1>14, <1>15, <1>16, <1>17,
       <1>18, <1>19, <1>20, <1>21 DEF Next, Step

\* If no evening goes on over midnight, or the season has no end, the server
\* opens only in the season, over the new year too, even when it opens once more
\* after a show in which its acceptor failed; and run returns on no day of it
\* but because the server could not be opened.
THEOREM ServerOpensInSeason ==
    ASSUME \A f \in Files : OneDay(f)
    PROVE  Spec => SeasonKept
<1>1. Init => TypeOK /\ InTime
    <2> SUFFICES ASSUME Init PROVE TypeOK /\ InTime
        OBVIOUS
    <2>1. OneDay(config)
        BY LoadOneDay DEF Init, NewConfig
    <2> QED BY <2>1, InitType DEF Init, InTime
<1>2. TypeOK /\ InTime /\ [Next]_vars => (TypeOK /\ InTime)'
    BY TypeStep, InTimeStep
<1>3. TypeOK /\ InTime /\ [Next]_vars => [
          LET days == DayOf(config.runTime.end) - DayOf(config.runTime.start)
              season == (DayOf(today) - DayOf(config.runTime.start)) % YearLength <= days % YearLength
          IN /\ ~open /\ open' => season
             /\ pc = "run" /\ pc' = "done" => ~season]_vars
    <2> SUFFICES ASSUME TypeOK, InTime, Next
                 PROVE  LET days == DayOf(config.runTime.end) - DayOf(config.runTime.start)
                            season == (DayOf(today) - DayOf(config.runTime.start)) % YearLength
                                          <= days % YearLength
                        IN /\ ~open /\ open' => season
                           /\ pc = "run" /\ pc' = "done" => ~season
        OBVIOUS
    <2> USE DEF world, settings, manager, server
    <2>1. config.runTime.start \in MonthDay /\ config.runTime.end \in MonthDay /\ today \in MonthDay
        BY ConfigTyped DEF ConfigOK, Keys, Values, MonthRange, TypeOK
    <2>2. InSeason <=> (DayOf(today) - DayOf(config.runTime.start)) % YearLength
                           <= (DayOf(config.runTime.end) - DayOf(config.runTime.start)) % YearLength
        BY <2>1, SeasonIsSpan DEF InSeason
    <2>3. ~open /\ open' => OpenServer
        BY DEF Next, Step, Finish, Return, EnterListen, OpenFails, DelayEnds, TurnEnds, PlaySong,
               SongOver, GiveUp, NextList, EndShow, ClockEnd, AcceptFails, Tick, Edit
    <2>4. OpenServer => InSeason
        BY DEF OpenServer, InTime
    <2>5. pc = "run" /\ pc' = "done" => Finish
        BY DEF Next, Step, EnterListen, OpenFails, OpenServer, DelayEnds, TurnEnds, PlaySong,
               SongOver, GiveUp, NextList, EndShow, ClockEnd, AcceptFails, Tick, Edit
    <2>6. Finish => ~InSeason
        BY DEF Finish
    <2> QED BY <2>2, <2>3, <2>4, <2>5, <2>6
<1> QED BY <1>1, <1>2, <1>3, PTL DEF Spec, SeasonKept
=============================================================================
