\* A span of hours.
SPECIFICATION Spec
CONSTANTS
    Hours = 3
    MinutesInHour = 4
    Months = 3
    DaysInMonth = 3
INVARIANT HoursAreSpan
