\* Listening, accepting and reading files may fail; the configuration is edited.
SPECIFICATION FairSpec
CONSTANTS
    Hours = 2
    MinutesInHour = 5
    Months = 2
    DaysInMonth = 2
    Files <- WinterOrSpring
    Runaway = 2
    Failures = TRUE
INVARIANTS TypeOK WaitsForServer NoShowBetween ServerCloses
PROPERTIES WaitEnds SeasonKept Reloads
\* The manager returns at the end of the season.
CHECK_DEADLOCK FALSE
