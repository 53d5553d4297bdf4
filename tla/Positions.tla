------------------------------ MODULE Positions ------------------------------
(***************************************************************************)
(* extractPositions of parsing.cpp: extractPos with its matchers is called *)
(* again and again behind the last position found.  Angles are counted in  *)
(* 1/360000 degree, so that a thousandth of a minute is 6 and a second 100.*)
(***************************************************************************)
EXTENDS Dates, SequencesExt

CONSTANT Writings   \* texts, as sequences of pieces: positions and others

NUL == "\\0"
Comma == ","
Space == " "

Deg == 360000

\* A longitude that extractPos has not assigned.
Unset == -2000 * Deg

\* A piece of a text: its characters, and if it is a position, the way it is
\* written and the position meant.
Piece == [form : {"text", "dms", "minutes", "decimal", "spaced", "slash",
                  "short", "stub", "point", "lost", "invented", "half", "open"},
          chars : Seq(Char), lat : Int, lon : Int]

ASSUME WritingsAssumption == \A w \in Writings : w # <<>> /\ w \in Seq(Piece)

VARIABLES
    written,    \* the pieces the text was made of
    source,     \* the place the next extractPos begins at
    latPassed,  \* a latitude has been found, and no longitude yet
    lat,        \* the latitude and the place behind it
    found       \* the positions given to addPosition

posVars == <<text, start, at, written, source, latPassed, lat, found>>

Flat(w) == FlattenSeq([i \in DOMAIN w |-> w[i].chars])

-----------------------------------------------------------------------------
\* Places and numbers.  Behind the text stands a zero.

CharAt(t, p) == IF p \in DOMAIN t THEN t[p] ELSE NUL

At(p) == CharAt(text, p)

Fits(chars, p) == Matches(Form(chars, {}, 0), p)

Numerals == <<"0", "1", "2", "3", "4", "5", "6", "7", "8", "9">>

Worth == [c \in ToSet(Numerals) |-> CHOOSE n \in 0 .. 9 : Numerals[n + 1] = c]

Number(s) ==
    LET n[i \in 0 .. Len(s)] == IF i = 0 THEN 0 ELSE 10 * n[i - 1] + Worth[s[i]]
    IN n[Len(s)]

\* atoi: the digits of t from p on.
Run(t, p) ==
    SubSeq(t, p, Min({q \in p .. Len(t) + 1 :
                         CharAt(t, q) \notin DOMAIN Worth} \union {p + Len(t)}) - 1)

atoi(t, p) == Number(Run(t, p))

\* Minutes above this are wrong, however many they are.
Huge == 20000000

\* m * 10^e, cut to thousandths.
Scaled(m, e) ==
    IF e < 0 THEN m \div 10 ^ Min({-e, 9})
    ELSE IF m > Huge \div 10 ^ Min({e, 9}) THEN Huge ELSE m * 10 ^ e

\* atof in thousandths.  An E with digits behind it is an exponent to atof,
\* though here it is the hemisphere.
atof(t, p) ==
    LET whole == Run(t, p)
        dot == p + Len(whole)
        part == IF CharAt(t, dot) = "." THEN Run(t, dot + 1) ELSE <<>>
        e == IF CharAt(t, dot) = "." THEN dot + 1 + Len(part) ELSE dot
        m == 1000 * Number(whole)
             + Number(SubSeq(part \o <<"0", "0", "0">>, 1, 3))
    IN IF CharAt(t, e) # "E" THEN m
       ELSE Scaled(m, IF CharAt(t, e + 1) = "-" THEN -atoi(t, e + 2)
                      ELSE atoi(t, e + 1))

twoChars2int(p) == IF Fits(Two, p) THEN Number(SubSeq(text, p, p + 1)) ELSE 0

Signed(v, negative) == IF negative THEN -v ELSE v

-----------------------------------------------------------------------------
\* The matchers.  A matcher returns the coordinate, the characters it took
\* and the text it leaves; size 0 is a coordinate not found.
Reading(value, size, t) == [value |-> value, size |-> size, text |-> t]

NotFound(t) == Reading(0, 0, t)

Mark == {"*"}
D1 == <<Digit \union Mark>>
D2 == D1 \o D1
D3 == D2 \o D1
Dash == <<{"-", "*"}>>
Gap == <<{"-", Space, "*"}>>
NS == {"N", "S"}
EW == {"E", "W"}

\* The characters that the ways to write a position begin with, or all of them.
LatDms == D2 \o Dash \o D2 \o Dash \o D2 \o <<NS>>
LatDecimal == D3 \o D1 \o <<{"."}>> \o D1 \o <<NS>>
LatOpen == D2 \o Gap \o D1
LonDms == D3 \o Dash \o D2 \o Dash \o D2 \o <<EW>>
LonDecimal == D3 \o D2 \o <<{"."}>> \o D1 \o <<EW>>
LonOpen == D3 \o Gap \o D1
Spaced == <<NS, {Space}, Digit, Digit, {Space}, Digit, Digit, {"."}, Digit, Digit,
            EW, {Space}, Digit, Digit, Digit, {Space}, Digit, Digit, {"."}, Digit, Digit>>
Slash == Two \o Two \o <<{"."}>> \o Two \o <<NS, {"/"}>>
         \o Two \o One \o Two \o <<{"."}>> \o Two \o <<EW>>

\* Mutant: lost digits are looked for in the first two places only.
UnmarkedFront(p, n) == \A i \in p .. p + 1 : At(i) # "*"

Unmarked(p, n) == \A i \in p .. p + n - 1 : At(i) # "*"

\* n digits of degrees, then minutes and seconds.
dms(p, n) == Number(SubSeq(text, p, p + n - 1)) * Deg
             + atoi(text, p + n + 1) * 6000 + atoi(text, p + n + 4) * 100

IsLatDms(p) ==
    /\ Fits(LatDms, p)
    /\ Unmarked(p, 9)
    /\ dms(p, 2) < 90 * Deg

IsLonDms(p) ==
    /\ Fits(LonDms, p)
    /\ Unmarked(p, 10)
    /\ dms(p, 3) < 180 * Deg

\* dd-m..., up to N or S.  Any other character, a point too, ends the search.
LatMinutes(p) ==
    LET end == Min({q \in p + 4 .. Len(text) + 1 :
                      At(q) \notin Digit \union Mark \union {Comma, "\n"}})
        t == [i \in DOMAIN text |-> IF i \in p + 4 .. end /\ text[i] = Comma
                                    THEN "." ELSE text[i]]
    IN IF At(end) \in NS /\ Unmarked(p, end - p)
          /\ \A i \in p + 4 .. end : At(i) # "\n"
       THEN Reading(Signed(atoi(text, p) * Deg + atof(t, p + 3) * 6, At(end) = "S"),
                    end + 1 - p, t)
       ELSE NotFound(text)

queryLatValue(p) ==
    IF IsLatDms(p)
    THEN Reading(Signed(dms(p, 2), At(p + 8) = "S"), 9, text)
    ELSE IF Fits(LatDecimal, p)
    THEN Reading(Signed(twoChars2int(p) * Deg + atof(text, p + 2) * 6,
                        At(p + 6) = "S"), 7, text)
    ELSE IF Fits(LatOpen, p) THEN LatMinutes(p)
    ELSE NotFound(text)

\* ddd-m..., up to the next E or W.  A character that does not belong to a
\* number becomes a zero, and the search goes on.
LonMinutes(p) ==
    LET end == Min({q \in p + 5 .. Len(text) + 1 : At(q) \in EW \union {NUL}})
        t == [i \in DOMAIN text |->
                 IF i < p + 5 \/ i >= end \/ text[i] \in Digit \union Mark
                 THEN text[i] ELSE IF text[i] = Comma THEN "." ELSE NUL]
    IN IF At(end) \in EW /\ Unmarked(p, end - p)
       THEN Reading(Signed(atoi(text, p) * Deg + atof(t, p + 4) * 6, At(end) = "W"),
                    end + 1 - p, t)
       ELSE NotFound(t)

\* The hemisphere of the first two forms is looked for one place too early,
\* where a digit stands.
queryLonValue(p) ==
    IF IsLonDms(p)
    THEN Reading(Signed(dms(p, 3), At(p + 8) = "W"), 10, text)
    ELSE IF Fits(LonDecimal, p)
    THEN Reading(Signed(twoChars2int(p) * Deg + atof(text, p + 3) * 6,
                        At(p + 6) = "W"), 8, text)
    ELSE IF Fits(LonOpen, p) THEN LonMinutes(p)
    ELSE NotFound(text)

\* ddH dddH, without or with a blank between.  Its result: the longitude.
LonPos(p) == IF At(p + 3) = Space THEN p + 4 ELSE p + 3

IsDirty(p) ==
    LET q == LonPos(p) IN
    /\ Fits(Two \o <<NS>>, p)
    /\ atoi(text, p) <= 89
    /\ Fits(Two \o One \o <<EW>>, q) \/ Fits(Two \o <<EW>>, q)
    /\ atof(text, q) <= 180000

dirtyLon(p) ==
    LET q == LonPos(p) IN
    Signed(atof(text, q) * 360, "W" \in {At(q + 2), At(q + 3)} /\ At(q + 2) # "E")

\* N dd dd.ddE ddd dd.dd
IsSpaced(p) == Fits(Spaced, p)

\* ddmm.mmN/dddmm.mmE
IsSlash(p) == Fits(Slash, p)

\* Degrees of n digits at p and the minutes at q of t.
Angle(p, n, t, q) == Number(SubSeq(text, p, p + n - 1)) * Deg + 6 * atof(t, q)

\* Minutes that are copied before they are read.
Copied(q) == SubSeq(text, 1, q + 4)

-----------------------------------------------------------------------------
Init ==
    /\ written \in Writings
    /\ text = Flat(written)
    /\ source = 1 /\ start = 1 /\ at = "extract"
    /\ latPassed = FALSE /\ lat = [value |-> 0, to |-> 0]
    /\ found = <<>>

\* The end of the text, a line end or the like where the next position might
\* begin ends the extraction.
extractPos ==
    /\ at = "extract"
    /\ at' = IF At(source) \in {NUL, "\n"} THEN "done" ELSE "scan"
    /\ start' = source
    /\ latPassed' = FALSE
    /\ UNCHANGED <<text, written, source, lat, found>>

\* addPosition; the next search begins at p, which may be behind the text.
addPosition(la, lo, after, p) ==
    /\ found' = Append(found, [lat |-> la, lon |-> lo,
                               after |-> after, before |-> start])
    /\ source' = p
    /\ at' = IF p > Len(text) + 1 THEN "outside" ELSE "extract"
    /\ latPassed' = FALSE
    /\ UNCHANGED <<start, written, lat>>

\* while (*start), with start moved to p.
GoOn(p) ==
    /\ start' = p
    /\ at' = IF p > Len(text) + 1 THEN "outside"
             ELSE IF CharAt(text', p) = NUL THEN "done" ELSE "scan"
    /\ UNCHANGED <<written, source, found>>

\* Mutant: a latitude stays pending when its longitude fails.
WholeKeeps(p, data) == GoOn(p + 1) /\ UNCHANGED <<latPassed, lat>>

\* Mutant: the place is not moved on.
WholeStays(p, data) == GoOn(p) /\ latPassed' = FALSE /\ UNCHANGED lat

\* What is tried last where no latitude is pending.  data is what the turn
\* began with; a date may have been stepped over since.
Whole(p, data) ==
    IF data \in NS /\ IsSpaced(p)
    THEN addPosition(Signed(Angle(p + 2, 2, text, p + 5), data = "S"),
                     Angle(p + 12, 3, text, p + 16), start, p + 20)
    ELSE IF data \notin NS /\ IsSlash(p)
    THEN addPosition(Signed(Angle(p, 2, Copied(p + 2), p + 2), At(p + 7) = "S"),
                     Signed(Angle(p + 9, 3, Copied(p + 12), p + 12), At(p + 17) = "W"),
                     start, p + 18)
    ELSE GoOn(p + 1) /\ latPassed' = FALSE /\ UNCHANGED lat

\* One turn of the loop at a place without a digit.
Scan ==
    /\ at = "scan"
    /\ At(start) \notin Digit
    /\ UNCHANGED text
    /\ IF latPassed THEN GoOn(start + 1) /\ UNCHANGED <<latPassed, lat>>
       ELSE Whole(start, At(start))

\* At a digit: a date and a time are stepped over first.
ScanDigit ==
    /\ at = "scan"
    /\ At(start) \in Digit
    /\ at' = "skipDate"
    /\ UNCHANGED <<text, start, written, source, latPassed, lat, found>>

SkipDate == skipDate /\ UNCHANGED <<written, source, latPassed, lat, found>>

SkipTime == skipTime /\ UNCHANGED <<written, source, latPassed, lat, found>>

\* The longitude is stored as the latitude, and lon is never assigned.
queryDirtyPosition ==
    /\ at = "match" /\ ~latPassed /\ IsDirty(start)
    /\ addPosition(dirtyLon(start), Unset, start, start + 8)
    /\ UNCHANGED text

Absolute(v) == IF v < 0 THEN -v ELSE v

\* A latitude is taken, and the search goes on for its longitude.  If none is
\* found the text is as it was.
Latitude ==
    LET r == queryLatValue(start) IN
    /\ at = "match" /\ ~latPassed /\ ~IsDirty(start)
    /\ IF r.size > 0 /\ Absolute(r.value) < 90 * Deg
       THEN /\ text' = r.text
            /\ latPassed' = TRUE
            /\ lat' = [value |-> r.value, to |-> start + r.size]
            /\ GoOn(start + r.size)
       ELSE UNCHANGED text /\ Whole(start, "digit")

\* If the longitude fails the text keeps its zeros, one place is left out, and
\* a position written as a whole is looked for at the second.
Longitude ==
    LET r == queryLonValue(start) IN
    /\ at = "match" /\ latPassed
    /\ text' = r.text
    /\ IF r.size > 0 /\ Absolute(r.value) < 180 * Deg
       THEN addPosition(lat.value, r.value, lat.to, start + r.size)
       ELSE Whole(start + 1, "digit")

Next ==
    \/ extractPos \/ Scan \/ ScanDigit \/ SkipDate \/ SkipTime
    \/ queryDirtyPosition \/ Latitude \/ Longitude

Spec == Init /\ [][Next]_posVars

-----------------------------------------------------------------------------
\* What extractPos makes of a position by the way it is written: two forms
\* lose the hemisphere of the longitude, one the third digit of its degrees,
\* one the latitude; minutes with a point are not read, nor are lost digits.
Read(piece) ==
    CASE piece.form \in {"minutes", "slash"} -> << <<piece.lat, piece.lon>> >>
      [] piece.form \in {"dms", "spaced"} -> << <<piece.lat, Absolute(piece.lon)>> >>
      [] piece.form = "decimal" ->
            LET east == Absolute(piece.lon) IN
            << <<piece.lat, (east \div (10 * Deg)) * Deg + (east % Deg)>> >>
      [] piece.form = "short" -> << <<piece.lon, Unset>> >>
      [] OTHER -> <<>>

\* The pieces up to the first position with a line end right behind it.
Reached ==
    LET stops == {i \in 1 .. Len(written) - 1 :
                     /\ Read(written[i]) # <<>> /\ written[i].form # "spaced"
                     /\ Head(written[i + 1].chars) = "\n"}
    IN SubSeq(written, 1, Min(stops \union {Len(written)}))

Over == at \in {"done", "outside"}

\* An E with a digit or a dash behind it is read as an exponent.
Exponent ==
    \E i \in 1 .. Len(written) - 1 :
        /\ Last(written[i].chars) = "E"
        /\ Head(written[i + 1].chars) \in Digit \union {"-"}

\* Positions are found in the order they are written, each once and as Read
\* says, whatever dates, times and positions with lost digits stand between,
\* up to a position that ends its line.  Left out are texts where a coordinate
\* or a hemisphere is missing, or the E of a longitude looks like an exponent.
ReadAsWritten ==
    (/\ Over /\ ~Exponent
     /\ \A i \in DOMAIN written :
            written[i].form \notin {"stub", "invented", "half", "open"})
    => [i \in DOMAIN found |-> <<found[i].lat, found[i].lon>>]
       = FlattenSeq([i \in DOMAIN Reached |-> Read(Reached[i])])

Forms == ToSet(DateForms) \union ToSet(TimeForms)

\* A digit that belongs to a date or a time that begins at q or behind.
Dated(p, q) == \E i \in q .. p, f \in Forms : Matches(f, i) /\ p < i + f.skip

\* Latitude and longitude of a position are neighbours: no digit stands between
\* them, but those of a date or a time.
Neighbours ==
    \A i \in DOMAIN found : \A p \in found[i].after .. found[i].before - 1 :
        At(p) \in Digit => Dated(p, found[i].after)

\* The last place of the text holds a digit, or a date or a time leads there.
DigitAtEnd ==
    \/ Last(text) \in Digit
    \/ \E p \in DOMAIN text, f \in Forms : Matches(f, p) /\ p + f.skip = Len(text)

\* extractPos stays in the text, unless it ends with a short date, a date
\* without a blank, a short position, or a place where the longitude to a
\* latitude of this search fails, a digit or what a date or a time leads to.
StaysInText ==
    at = "outside" =>
        \/ \E i \in {2, 3, 4}, p \in DOMAIN text :
              p + 10 > Len(text) /\ Matches(DateForms[i], p)
        \/ \E p \in DOMAIN text : p + 7 > Len(text) /\ IsDirty(p)
        \/ DigitAtEnd /\ lat.to > source

\* The loops end: extractPos moves on in every turn, and a position found lies
\* before the place of the next search.
MovesOn ==
    [][/\ at = "extract" => start' = source
       /\ at \in {"scan", "match"} /\ found' = found /\ at' # "skipDate" => start' > start
       /\ at # "extract" => start' >= start
       /\ found' # found => source' > Max({source, start})]_posVars
=============================================================================
