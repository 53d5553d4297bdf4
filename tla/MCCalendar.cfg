CONSTANTS
    Years <- MCYears
    MaxDelay = 2
    Clock <- MCClock
    Behind = 30
    BadField = {0, 1, 12, 32}
SPECIFICATION CalendarSpec
INVARIANTS
    DateError
    StampError
    TimeIsNeverZero
\* the calendar ends
CHECK_DEADLOCK FALSE
