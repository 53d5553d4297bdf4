-------------------------------- MODULE Dates --------------------------------
(***************************************************************************)
(* skipDate and skipTime of parsing.cpp.  Before extractPos looks for a    *)
(* position at a digit of a text it steps over a date and a time that      *)
(* begin there, since both look like the beginning of a latitude.  Positions*)
(* puts the two calls in their place.                                      *)
(***************************************************************************)
EXTENDS Integers, Sequences, FiniteSetsExt

CONSTANT Char       \* the characters of the texts

Digit == Char \intersect {"0", "1", "2", "3", "4", "5", "6", "7", "8", "9"}

Blank == Char \intersect {" ", "\n"}

DateSep == Char \intersect {" ", "-", "/", "."}

TimeSep == Char \intersect {"-", "/", ":"}

-----------------------------------------------------------------------------
\* A form: the characters tested, the places of the separators that must be
\* the same, and how far the code steps on.
Form(chars, seps, skip) == [chars |-> chars, seps |-> seps, skip |-> skip]

Year == <<{"2"}, {"0"}, Digit, Digit>>

Two == <<Digit, Digit>>

One == <<Digit>>

Sep == <<DateSep>>

End == <<Blank>>

\* Mutant: the blank after yyyy-mm-dd is not asked for.
DateFormsAtEnd ==
    <<Form(Year \o Sep \o Two \o Sep \o Two, {5, 8}, 10),
      Form(Year \o Sep \o One \o Sep \o One, {5, 7}, 10),
      Form(Two \o Sep \o Two \o Sep \o Year, {3, 6}, 10),
      Form(Two \o Sep \o One \o Sep \o <<Char>> \o Year, {3, 5}, 10),
      Form(Two \o Sep \o Two \o Sep \o Two \o End, {3, 6}, 8)>>

\* The conditions of skipDate in their order.  In the fourth the year is
\* looked for one place too far.
DateForms ==
    <<Form(Year \o Sep \o Two \o Sep \o Two \o End, {5, 8}, 10),
      Form(Year \o Sep \o One \o Sep \o One, {5, 7}, 10),
      Form(Two \o Sep \o Two \o Sep \o Year, {3, 6}, 10),
      Form(Two \o Sep \o One \o Sep \o <<Char>> \o Year, {3, 5}, 10),
      Form(Two \o Sep \o Two \o Sep \o Two \o End, {3, 6}, 8)>>

\* The conditions of skipTime.
TimeForms ==
    <<Form(Two \o <<TimeSep>> \o Two \o <<TimeSep>> \o Two \o End, {3, 6}, 8),
      Form(Two \o <<TimeSep>> \o Two \o End, {3}, 5)>>

VARIABLES
    text,   \* the text; extractPos writes to it
    start,  \* the place extractPos is at
    at      \* what comes next: skipDate, skipTime, the matchers, ...

vars == <<text, start, at>>

\* A place behind the text holds a zero or is not the text's: no form matches.
Matches(f, p) ==
    /\ p + Len(f.chars) - 1 <= Len(text)
    /\ \A i \in DOMAIN f.chars : text[p + i - 1] \in f.chars[i]
    /\ \A i, j \in f.seps : text[p + i - 1] = text[p + j - 1]

\* The first form that matches is stepped over.
Skip(forms, p) ==
    LET found == {i \in DOMAIN forms : Matches(forms[i], p)} IN
    IF found = {} THEN p ELSE p + forms[Min(found)].skip

skipDate ==
    /\ at = "skipDate"
    /\ start' = Skip(DateForms, start)
    /\ at' = "skipTime"
    /\ UNCHANGED text

skipTime ==
    /\ at = "skipTime"
    /\ start' = Skip(TimeForms, start)
    /\ at' = "match"
    /\ UNCHANGED text

-----------------------------------------------------------------------------
\* A date of a form stands at p if its characters do, with a blank after it.
Stands(chars, seps, p) == Matches(Form(chars \o End, seps, 0), p)

Skipped(chars, seps) ==
    (at = "skipDate" /\ at' # at /\ Stands(chars, seps, start)) =>
        start' = start + Len(chars)

\* "Form yyyy-m-dd or yyyy-m-d", "Form dd-m-yyyy (months jan-sep only)": such
\* dates are stepped over, no further and no less.
ShortDatesSkipped ==
    [][/\ Skipped(Year \o Sep \o One \o Sep \o Two, {5, 7})
       /\ Skipped(Year \o Sep \o One \o Sep \o One, {5, 7})
       /\ Skipped(Two \o Sep \o One \o Sep \o Year, {3, 5})]_vars
=============================================================================
