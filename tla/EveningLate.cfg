\* The show starts after the server.
SPECIFICATION FairSpec
CONSTANTS
    Hours = 2
    MinutesInHour = 5
    Months = 2
    DaysInMonth = 2
    Files <- LateOnly
    Runaway = 2
    Failures = FALSE
PROPERTY ShowStarts
\* The manager returns at the end of the season.
CHECK_DEADLOCK FALSE
