------------------------------ MODULE Calendar ------------------------------
(***************************************************************************)
(* Dates of messages: hhmmss2time, getMonthLen and ddmmyyyy2time of        *)
(* tools.cpp, extractUtc and the date fields of parseNxNrx of parsing.cpp, *)
(* against a calendar that counts days one by one.  A message is sent on   *)
(* one day and read the same day or a little later.                        *)
(*                                                                         *)
(* A time_t is a pair of days since 1970 and seconds, because it may need  *)
(* more than 32 bits.                                                      *)
(***************************************************************************)
EXTENDS Integers, Sequences, FiniteSets

CONSTANTS
    Years,      \* bound: the years looked at
    MaxDelay,   \* bound: days between sending and reading
    Clock,      \* the times of day a message may name, possible or not
    Behind,     \* what the build has in memory behind monSize
    BadField    \* numbers that the date fields of a sentence may hold

\* Clock readings are three pairs of digits.
ASSUME ClockAssumption ==
    Clock \subseteq [hr : 0..99, min : 0..99, sec : 0..99]

ASSUME BehindAssumption == Behind \in 0..255

\* ddmmyyyy2time takes no year before 1980, and a year has four digits.
ASSUME YearAssumption == Years \subseteq 1980..9999

\* A stamp in a text has no year: it can be one year off, if it is read within
\* one.
ASSUME DelayAssumption == MaxDelay \in 0..365

Midnight == [days |-> 0, secs |-> 0]

\* time_t -1, which stands for no time.
NoTime == [days |-> 0, secs |-> -1]

Plus(time, secs) == [time EXCEPT !.secs = @ + secs]

-----------------------------------------------------------------------------
Possible(c) == c.hr <= 23 /\ c.min <= 59 /\ c.sec <= 59

Seconds(c) == c.hr * 3600 + c.min * 60 + c.sec

\* Mutant: the seconds are left out.
hhmmss2timeMinutes(c) ==
    IF Possible(c) THEN c.hr * 3600 + c.min * 60 ELSE -1

hhmmss2time(c) == IF Possible(c) THEN Seconds(c) ELSE -1

monSize == <<31, 28, 31, 30, 31, 30, 31, 31, 30, 31, 30, 31>>

\* Called without a year: the month counts from 1 and the array from 0, so
\* that this is the length of the next month; December reads what is behind.
getMonthLen(mon) ==
    IF mon = 12 THEN Behind
    ELSE IF mon \in 1..11 THEN monSize[mon + 1] ELSE 0

\* The sum of getMonthLen over the months before mon.
MonthsBefore(mon) ==
    LET sum[m \in 1..12] ==
            IF m = 1 THEN 0 ELSE sum[m - 1] + getMonthLen(m - 1)
    IN sum[mon]

\* Mutant: the leap day counts from January.
ddmmyyyy2timeJanuary(day, month, year) ==
    IF day \notin 1..31 \/ month \notin 1..12 \/ year < 1980 THEN NoTime
    ELSE [days |-> (year - 1970) * 365 + (year - 1973) \div 4 + 1
                   + MonthsBefore(month)
                   + (IF year % 4 = 0 THEN 1 ELSE 0) + day - 1,
          secs |-> 0]

ddmmyyyy2time(day, month, year) ==
    IF day \notin 1..31 \/ month \notin 1..12 \/ year < 1980 THEN NoTime
    ELSE [days |-> (year - 1970) * 365 + (year - 1973) \div 4 + 1
                   + MonthsBefore(month)
                   + (IF month > 2 /\ year % 4 = 0 THEN 1 ELSE 0) + day - 1,
          secs |-> 0]

\* "hhmmss UTC MON dd" in a text; month is 0 for no known name.
NoStamp == [day |-> 0, month |-> 0, clock |-> CHOOSE c \in Clock : TRUE]

\* The year is that of the reader's clock.
extractUtc(stamp, year) ==
    IF stamp.month \in 1..12 /\ stamp.day \in 1..getMonthLen(stamp.month)
    THEN Plus(ddmmyyyy2time(stamp.day, stamp.month, year),
              hhmmss2time(stamp.clock))
    ELSE NoTime

\* Mutant: no second look when the fields give 0.
whenSentFields(f, stamp, year) ==
    Plus(ddmmyyyy2time(f.day, f.month, f.year), hhmmss2time(f.clock))

\* Line 1 of an NX sentence: its date fields, and if they give 0 its text.
whenSent(f, stamp, year) ==
    LET fields ==
            Plus(ddmmyyyy2time(f.day, f.month, f.year), hhmmss2time(f.clock))
    IN IF fields = Midnight THEN extractUtc(stamp, year) ELSE fields

-----------------------------------------------------------------------------
VARIABLES
    sent,   \* the day the message names
    now     \* the day it is read

calendarVars == <<sent, now>>

Leap(y) == y % 4 = 0 /\ (y % 100 # 0 \/ y % 400 = 0)

Length(m, y) ==
    IF m = 2 THEN (IF Leap(y) THEN 29 ELSE 28)
    ELSE IF m \in {4, 6, 9, 11} THEN 30 ELSE 31

NextDay(d) ==
    [days |-> d.days + 1,
     day |-> IF d.day < Length(d.month, d.year) THEN d.day + 1 ELSE 1,
     month |-> IF d.day < Length(d.month, d.year) THEN d.month
               ELSE (d.month % 12) + 1,
     year |-> IF d.day = 31 /\ d.month = 12 THEN d.year + 1 ELSE d.year]

NewYear(y) ==
    [days |-> 365 * (y - 1970) + Cardinality({x \in 1970..(y - 1) : Leap(x)}),
     day |-> 1, month |-> 1, year |-> y]

CalendarInit == \E y \in Years : sent = NewYear(y) /\ now = NewYear(y)

Send == sent # now /\ sent' = now /\ UNCHANGED now

Tomorrow ==
    /\ now.days - sent.days < MaxDelay
    /\ NextDay(now).year \in Years
    /\ now' = NextDay(now)
    /\ UNCHANGED sent

CalendarNext == Send \/ Tomorrow

CalendarSpec == CalendarInit /\ [][CalendarNext]_calendarVars

-----------------------------------------------------------------------------
\* A year whose 29th of February ddmmyyyy2time counts and the calendar has not.
Extra(y) == y % 100 = 0 /\ y % 400 # 0

\* How far ddmmyyyy2time is from the calendar: behind in months of less than
\* 31 days, because it adds the months after January up to this one; ahead by
\* the extra days it has counted, the first in 2100.
Off(d) ==
    Length(d.month, 2001) - 31
    + Cardinality({y \in 1970..(d.year - 1) : Extra(y)})
    + IF d.month > 2 /\ Extra(d.year) THEN 1 ELSE 0

\* The date fields of a sentence become the day they name, right to the day in
\* January and the months as long, for the whole range of dates; elsewhere up
\* to three days behind, always by the same number of days in a month.
DateError ==
    ddmmyyyy2time(sent.day, sent.month, sent.year) =
        [days |-> sent.days + Off(sent), secs |-> 0]

Stamp(c) == [day |-> sent.day, month |-> sent.month, clock |-> c]

YearLength(y) == IF y % 4 = 0 THEN 366 ELSE 365

\* How much the stamp gains by being read in the year of now.
Gained ==
    IF sent.year = now.year THEN 0
    ELSE YearLength(IF sent.month > 2 THEN now.year ELSE sent.year)

\* A stamp in a text that is not refused is understood as well as its date; read
\* in the same year it is never dated later than it was sent, read after New
\* Year it is dated a year ahead.  With an impossible time of day, for which
\* hhmmss2time gives -1, it is dated to the last second before the day it would
\* have without.  Of the days up to the 28th none is refused for its date, in
\* any month but December.
StampError ==
    \A c \in Clock :
        LET t == extractUtc(Stamp(c), now.year) IN
        \/ t = [days |-> sent.days + Off(sent) + Gained,
                secs |-> IF Possible(c) THEN Seconds(c) ELSE -1]
        \/ t = NoTime /\ (sent.day > 28 \/ sent.month = 12)

Fields == [day : BadField, month : BadField,
           year : BadField \union {sent.year}, clock : Clock]

\* Whatever the date fields hold, line 1 of an NX sentence gets a time other
\* than 0, for which checkMessage would take the time of a later line: an
\* invalid date and one second past midnight add up to 0, and the text is used.
TimeIsNeverZero ==
    \A f \in Fields : \A stamp \in {Stamp(f.clock), NoStamp} :
        whenSent(f, stamp, now.year) # Midnight
=============================================================================
