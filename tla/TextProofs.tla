----------------------------- MODULE TextProofs -----------------------------
(***************************************************************************)
(* Theorems of Positions, for every set of texts of any length. The        *)
(* inductive invariant PosInv says where in the text the search may be and *)
(* that the places between a latitude and the search for its longitude are *)
(* no digits, but those of dates and times that were stepped over; that a  *)
(* matcher writes only behind the places already passed keeps it.          *)
(*                                                                         *)
(* For texts whose pieces can be read the invariant ReadInv says in which  *)
(* piece the search is and that what was found is what stands before it:   *)
(* each matcher sees the piece it is meant for and no other one, and the   *)
(* text is still as it was written from the place of the search on.        *)
(*                                                                         *)
(* Theorems of Calendar, for every year from 1980 on, every time of day    *)
(* and every byte behind monSize. The invariant CalendarInv gives the      *)
(* number of a day in closed form, in which the calendar that goes day by  *)
(* day and the sums of ddmmyyyy2time can be compared.                      *)
(***************************************************************************)
EXTENDS Positions, Calendar, TLAPS, WellFoundedInduction, FiniteSetTheorems

\* What a text may hold once extractPos has written to it.
TextChar == Char \union {NUL, "."}

-----------------------------------------------------------------------------
\* Numbers and sequences.

LEMMA LeastElement ==
    ASSUME NEW S \in SUBSET Nat, S # {}
    PROVE  \E x \in S : \A y \in S : x <= y
<1> DEFINE Less == {pair \in Nat \X Nat : pair[1] < pair[2]}
<1>1. IsWellFoundedOn(Less, Nat)
  BY NatLessThanWellFounded DEF OpToRel
<1>2. PICK x \in S : \A y \in S : <<y, x>> \notin Less
  BY <1>1, WFMin
<1>3. ASSUME NEW y \in S PROVE x <= y
  <2>1. x \in Nat /\ y \in Nat
    OBVIOUS
  <2>2. y < x => <<y, x>> \in Less
    BY <2>1
  <2>. QED  BY <1>2, <2>1, <2>2
<1>. QED  BY <1>3

LEMMA MinFacts ==
    ASSUME NEW S \in SUBSET Nat, S # {}
    PROVE  Min(S) \in S /\ \A y \in S : Min(S) <= y
BY LeastElement DEF Min

LEMMA MaxFacts ==
    ASSUME NEW a \in Nat, NEW b \in Nat, a <= b
    PROVE  Max({a, b}) = b
BY DEF Max

-----------------------------------------------------------------------------
\* The forms of dates and times: how far they lead and how far they look.

\* A form leads skip places on and looks at n, its separators are among them.
Shape(f, n, skip) ==
    /\ f.skip = skip /\ Len(f.chars) = n /\ DOMAIN f.chars = 1 .. n
    /\ f.seps \subseteq 1 .. n

LEMMA DateShapes ==
    /\ DOMAIN DateForms = {1, 2, 3, 4, 5}
    /\ Shape(DateForms[1], 11, 10) /\ Shape(DateForms[2], 8, 10)
    /\ Shape(DateForms[3], 10, 10) /\ Shape(DateForms[4], 10, 10)
    /\ Shape(DateForms[5], 9, 8)
<1>1. DOMAIN DateForms = {1, 2, 3, 4, 5}
  BY DEF DateForms
<1>2. Shape(DateForms[1], 11, 10)
  BY DEF DateForms, Shape, Form, Year, Sep, Two, End
<1>3. Shape(DateForms[2], 8, 10)
  BY DEF DateForms, Shape, Form, Year, Sep, One
<1>4. Shape(DateForms[3], 10, 10)
  BY DEF DateForms, Shape, Form, Year, Sep, Two
<1>5. Shape(DateForms[4], 10, 10)
  BY DEF DateForms, Shape, Form, Year, Sep, Two, One
<1>6. Shape(DateForms[5], 9, 8)
  BY DEF DateForms, Shape, Form, Sep, Two, End
<1>. QED  BY <1>1, <1>2, <1>3, <1>4, <1>5, <1>6

LEMMA TimeShapes ==
    /\ DOMAIN TimeForms = {1, 2}
    /\ Shape(TimeForms[1], 9, 8) /\ Shape(TimeForms[2], 6, 5)
<1>1. DOMAIN TimeForms = {1, 2}
  BY DEF TimeForms
<1>2. Shape(TimeForms[1], 9, 8)
  BY DEF TimeForms, Shape, Form, Two, End
<1>3. Shape(TimeForms[2], 6, 5)
  BY DEF TimeForms, Shape, Form, Two, End
<1>. QED  BY <1>1, <1>2, <1>3

\* The forms that end with a blank look at the place they lead to.
LEMMA BlankForms ==
    /\ \A i \in {1, 5} : /\ DateForms[i].skip \in Nat
                         /\ Len(DateForms[i].chars) = DateForms[i].skip + 1
    /\ \A i \in {1, 2} : /\ TimeForms[i].skip \in Nat
                         /\ Len(TimeForms[i].chars) = TimeForms[i].skip + 1
<1>1. /\ Len(DateForms[1].chars) = 11 /\ DateForms[1].skip = 10
      /\ Len(DateForms[5].chars) = 9 /\ DateForms[5].skip = 8
  BY DateShapes DEF Shape
<1>2. /\ Len(TimeForms[1].chars) = 9 /\ TimeForms[1].skip = 8
      /\ Len(TimeForms[2].chars) = 6 /\ TimeForms[2].skip = 5
  BY TimeShapes DEF Shape
<1>3. DateForms[1].skip \in Nat /\ DateForms[5].skip \in Nat
      /\ TimeForms[1].skip \in Nat /\ TimeForms[2].skip \in Nat
  BY <1>1, <1>2
<1>4. /\ Len(DateForms[1].chars) = DateForms[1].skip + 1
      /\ Len(DateForms[5].chars) = DateForms[5].skip + 1
      /\ Len(TimeForms[1].chars) = TimeForms[1].skip + 1
      /\ Len(TimeForms[2].chars) = TimeForms[2].skip + 1
  BY <1>1, <1>2
<1>. QED  BY <1>3, <1>4, Zenon

\* A form looks at no more than one place behind where it leads.
LEMMA FormFacts ==
    ASSUME NEW f \in Forms
    PROVE  /\ f.skip \in 5 .. 10
           /\ \E n \in 1 .. f.skip + 1 : Shape(f, n, f.skip)
<1>1. \/ \E i \in {1, 2, 3, 4, 5} : f = DateForms[i]
      \/ \E i \in {1, 2} : f = TimeForms[i]
  BY DateShapes, TimeShapes DEF Forms, ToSet
<1>2. \E n \in 1 .. 11, skip \in 5 .. 10 : n <= skip + 1 /\ Shape(f, n, skip)
  BY <1>1, DateShapes, TimeShapes
<1>. QED  BY <1>2 DEF Shape

-----------------------------------------------------------------------------
\* The text of pieces is a sequence of characters.  FlattenSeq takes the function
\* that a recursive equation chooses: there is one, and it gives sequences.

\* The equation of FlattenSeq, for the first n of the sequences.
Flattens(f, s, n) ==
    f = [i \in 1 .. n |-> IF i = 1 THEN s[i] ELSE f[i - 1] \o s[i]]

LEMMA FlattensExists ==
    ASSUME NEW s, NEW n \in Nat
    PROVE  \E f : Flattens(f, s, n)
<1> DEFINE Bad == {m \in Nat : ~\E f : Flattens(f, s, m)}
<1> SUFFICES ASSUME Bad # {} PROVE FALSE
  OBVIOUS
<1>1. PICK m \in Bad : \A x \in Bad : m <= x
  BY LeastElement
<1>2. CASE m = 0
  <2>1. Flattens([i \in {} |-> 0], s, 0)
    BY DEF Flattens
  <2>. QED  BY <1>1, <1>2, <2>1
<1>3. CASE m > 0
  <2>1. PICK f : Flattens(f, s, m - 1)
    BY <1>1, <1>3
  <2> DEFINE g == [i \in 1 .. m |-> IF i = 1 THEN s[i] ELSE f[i - 1] \o s[i]]
  <2>2. m \in Nat /\ \A i \in 1 .. m - 1 : i \in 1 .. m
    BY <1>1
  <2>3. \A i \in 1 .. m - 1 : f[i] = IF i = 1 THEN s[i] ELSE f[i - 1] \o s[i]
    BY <2>1, Zenon DEF Flattens
  <2>4. \A i \in 1 .. m - 1 : f[i] = g[i]
    BY <2>2, <2>3
  <2>5. \A i \in 1 .. m : i # 1 => i - 1 \in 1 .. m - 1
    BY <2>2
  <2>6. Flattens(g, s, m)
    <3>1. \A i \in 1 .. m : (IF i = 1 THEN s[i] ELSE f[i - 1] \o s[i]) =
                            (IF i = 1 THEN s[i] ELSE g[i - 1] \o s[i])
      BY <2>4, <2>5
    <3> HIDE DEF g
    <3>2. g = [i \in 1 .. m |-> IF i = 1 THEN s[i] ELSE f[i - 1] \o s[i]]
      BY DEF g
    <3>. QED  BY <3>1, <3>2 DEF Flattens
  <2>. QED  BY <1>1, <2>6
<1>. QED  BY <1>1, <1>2, <1>3

LEMMA FlattensType ==
    ASSUME NEW S, NEW s \in Seq(Seq(S)), NEW f, Flattens(f, s, Len(s)),
           NEW n \in 1 .. Len(s)
    PROVE  f[n] \in Seq(S)
<1> DEFINE Bad == {m \in 1 .. Len(s) : f[m] \notin Seq(S)}
<1> SUFFICES ASSUME Bad # {} PROVE FALSE
  OBVIOUS
<1>1. Bad \in SUBSET Nat
  OBVIOUS
<1>2. PICK m \in Bad : \A x \in Bad : m <= x
  BY <1>1, LeastElement
<1>3. m \in 1 .. Len(s) /\ f[m] \notin Seq(S)
  OBVIOUS
<1>4. f[m] = IF m = 1 THEN s[m] ELSE f[m - 1] \o s[m]
  BY <1>3, Zenon DEF Flattens
<1>5. s[m] \in Seq(S)
  BY <1>3
<1>6. m # 1 => f[m - 1] \in Seq(S)
  <2> SUFFICES ASSUME m # 1, f[m - 1] \notin Seq(S) PROVE FALSE
    OBVIOUS
  <2>1. m - 1 \in Bad
    BY <1>3
  <2>. QED  BY <1>2, <1>3, <2>1
<1>. QED  BY <1>3, <1>4, <1>5, <1>6

LEMMA FlattenType ==
    ASSUME NEW S, NEW s \in Seq(Seq(S))
    PROVE  FlattenSeq(s) \in Seq(S)
<1>1. CASE Len(s) = 0
  BY <1>1 DEF FlattenSeq
<1>2. CASE Len(s) # 0
  <2> DEFINE flat == CHOOSE f : Flattens(f, s, Len(s))
  <2>1. Len(s) \in Nat
    OBVIOUS
  <2>2. \E f : Flattens(f, s, Len(s))
    BY <2>1, FlattensExists
  <2>3. Flattens(flat, s, Len(s))
    BY <2>2, Zenon
  <2>4. FlattenSeq(s) = flat[Len(s)]
    BY <1>2 DEF FlattenSeq, Flattens
  <2> HIDE DEF flat
  <2>. QED  BY <1>2, <2>1, <2>3, <2>4, FlattensType
<1>. QED  BY <1>1, <1>2

LEMMA FlatType ==
    ASSUME NEW w \in Writings
    PROVE  Flat(w) \in Seq(Char)
<1>1. w \in Seq(Piece)
  BY WritingsAssumption
<1>2. \A i \in DOMAIN w : w[i].chars \in Seq(Char)
  <2>1. \A p \in Piece : p.chars \in Seq(Char)
    BY DEF Piece
  <2>. QED  BY <1>1, <2>1
<1>3. [i \in DOMAIN w |-> w[i].chars] \in Seq(Seq(Char))
  BY <1>1, <1>2
<1>. QED  BY <1>3, FlattenType DEF Flat

-----------------------------------------------------------------------------
\* Places.

LEMMA CharFacts ==
    /\ NUL \notin Digit /\ NUL \notin Mark /\ NUL \notin NS /\ NUL \notin EW
    /\ NUL # Comma /\ NUL # "\n"
BY Zenon DEF NUL, Comma, Digit, Mark, NS, EW

LEMMA AtFacts ==
    ASSUME NEW t \in Seq(TextChar), NEW p \in Int
    PROVE  /\ p \in 1 .. Len(t) => CharAt(t, p) = t[p]
           /\ p \notin 1 .. Len(t) => CharAt(t, p) = NUL
BY DEF CharAt

\* What fits lies in the text.
LEMMA FitsInText ==
    ASSUME NEW chars, NEW p, Fits(chars, p)
    PROVE  p + Len(chars) - 1 <= Len(text)
BY DEF Fits, Matches, Form

\* A form that lies in the places up to n does not care for the places behind.
LEMMA MatchKept ==
    ASSUME text \in Seq(TextChar), text' \in Seq(TextChar), Len(text') = Len(text),
           NEW f \in Forms, NEW p \in Nat \ {0}, Matches(f, p),
           \A q \in 1 .. Len(text) : q <= p + f.skip => text'[q] = text[q]
    PROVE  Matches(f, p)'
<1>1. PICK n \in 1 .. f.skip + 1 : Shape(f, n, f.skip)
  BY FormFacts
<1>2. f.skip \in 5 .. 10 /\ p + n - 1 <= Len(text)
  BY <1>1, FormFacts DEF Matches, Shape
<1>3. ASSUME NEW i \in 1 .. n
      PROVE  text'[p + i - 1] = text[p + i - 1]
  <2>1. PICK s \in Nat : s = f.skip
    BY <1>2
  <2>2. i \in Nat \ {0} /\ i <= n /\ n <= s + 1 /\ n \in Nat /\ Len(text) \in Nat
    BY <1>1, <1>3, <2>1
  <2>3. p + i - 1 \in 1 .. Len(text)
    BY <1>2, <2>2
  <2>4. p + i - 1 <= p + f.skip
    BY <2>1, <2>2
  <2>. QED  BY <2>3, <2>4
<1>4. \A i \in DOMAIN f.chars : text'[p + i - 1] \in f.chars[i]
  BY <1>1, <1>3 DEF Matches, Shape
<1>5. \A i, j \in f.seps : text'[p + i - 1] = text'[p + j - 1]
  BY <1>1, <1>3 DEF Matches, Shape
<1>. QED  BY <1>1, <1>2, <1>4, <1>5 DEF Matches, Shape

-----------------------------------------------------------------------------
\* The matchers.

LEMMA Lengths ==
    /\ Len(LatDms) = 9 /\ Len(LatDecimal) = 7 /\ Len(LatOpen) = 4
    /\ Len(LonDms) = 10 /\ Len(LonDecimal) = 8 /\ Len(LonOpen) = 5
    /\ Len(Spaced) = 21 /\ Len(Slash) = 18 /\ Len(Two \o <<NS>>) = 3
<1>1. Len(LatDms) = 9
  BY DEF LatDms, D1, D2, Dash
<1>2. Len(LatDecimal) = 7
  BY DEF LatDecimal, D1, D2, D3
<1>3. Len(LatOpen) = 4
  BY DEF LatOpen, D1, D2, Gap
<1>4. Len(LonDms) = 10
  BY DEF LonDms, D1, D2, D3, Dash
<1>5. Len(LonDecimal) = 8
  BY DEF LonDecimal, D1, D2, D3
<1>6. Len(LonOpen) = 5
  BY DEF LonOpen, D1, D2, D3, Gap
<1>7. Len(Spaced) = 21
  BY DEF Spaced
<1>8. Len(Slash) = 18
  BY DEF Slash, Two, One
<1>9. Len(Two \o <<NS>>) = 3
  BY DEF Two
<1>. QED  BY <1>1, <1>2, <1>3, <1>4, <1>5, <1>6, <1>7, <1>8, <1>9

\* What a matcher may do at p: it takes no more than there is, writes nothing
\* into the first four places, and does nothing at the last place or behind.
Sound(r, p) ==
    /\ r.text \in Seq(TextChar) /\ Len(r.text) = Len(text)
    /\ \A q \in 1 .. Len(text) : q < p + 4 => r.text[q] = text[q]
    /\ r.size \in Nat
    /\ r.size > 0 => p + r.size <= Len(text) + 1
    /\ p >= Len(text) => r.size = 0 /\ r.text = text

LEMMA NotFoundSound ==
    ASSUME text \in Seq(TextChar), NEW p \in Nat \ {0}
    PROVE  Sound(NotFound(text), p)
BY DEF Sound, NotFound, Reading

LEMMA PlainSound ==
    ASSUME text \in Seq(TextChar), NEW p \in Nat \ {0}, NEW v, NEW n \in Nat,
           n > 1, p + n - 1 <= Len(text)
    PROVE  Sound(Reading(v, n, text), p)
BY DEF Sound, Reading

LEMMA LatMinutesSound ==
    ASSUME text \in Seq(TextChar), NEW p \in Nat \ {0}, p + 3 <= Len(text)
    PROVE  Sound(LatMinutes(p), p)
<1> DEFINE S == {q \in p + 4 .. Len(text) + 1 :
                     At(q) \notin Digit \union Mark \union {Comma, "\n"}}
           end == Min(S)
           t == [i \in DOMAIN text |-> IF i \in p + 4 .. end /\ text[i] = Comma
                                     THEN "." ELSE text[i]]
<1>1. Len(text) + 1 \in S
  <2>1. Len(text) \in Nat
    OBVIOUS
  <2>2. At(Len(text) + 1) = NUL
    BY <2>1, AtFacts DEF At
  <2>. QED  BY <2>1, <2>2, CharFacts
<1>2. S \in SUBSET Nat
  OBVIOUS
<1>3. end \in p + 4 .. Len(text) + 1
  BY <1>1, <1>2, MinFacts
<1>4. At(end) \in NS => end <= Len(text)
  <2> HIDE DEF end
  <2>1. end \in Int /\ Len(text) \in Nat
    BY <1>3
  <2>. QED  BY <1>3, <2>1, AtFacts, CharFacts DEF At
<1> HIDE DEF end
<1>5. t \in Seq(TextChar) /\ Len(t) = Len(text)
  <2>1. DOMAIN text = 1 .. Len(text) /\ \A i \in 1 .. Len(text) : text[i] \in TextChar
    OBVIOUS
  <2>2. "." \in TextChar /\ NUL \in TextChar
    BY DEF TextChar
  <2>3. t \in [1 .. Len(text) -> TextChar] /\ Len(text) \in Nat
    BY <2>1, <2>2
  <2>. QED  BY <2>3
<1>6. \A q \in 1 .. Len(text) : q < p + 4 => t[q] = text[q]
  <2>1. DOMAIN text = 1 .. Len(text)
    OBVIOUS
  <2>. QED  BY <1>3, <2>1
<1> HIDE DEF t
<1>7. ASSUME NEW v, At(end) \in NS
      PROVE  Sound(Reading(v, end + 1 - p, t), p)
  BY <1>3, <1>4, <1>5, <1>6, <1>7 DEF Sound, Reading
<1>8. \/ LatMinutes(p) = NotFound(text)
      \/ At(end) \in NS /\ \E v : LatMinutes(p) = Reading(v, end + 1 - p, t)
  BY DEF LatMinutes, end, t
<1>. QED  BY <1>7, <1>8, NotFoundSound

LEMMA LonMinutesSound ==
    ASSUME text \in Seq(TextChar), NEW p \in Nat \ {0}, p + 4 <= Len(text)
    PROVE  Sound(LonMinutes(p), p)
<1> DEFINE S == {q \in p + 5 .. Len(text) + 1 : At(q) \in EW \union {NUL}}
           end == Min(S)
           t == [i \in DOMAIN text |->
                    IF i < p + 5 \/ i >= end \/ text[i] \in Digit \union Mark
                    THEN text[i] ELSE IF text[i] = Comma THEN "." ELSE NUL]
<1>1. Len(text) + 1 \in S
  <2>1. Len(text) \in Nat
    OBVIOUS
  <2>2. At(Len(text) + 1) = NUL
    BY <2>1, AtFacts DEF At
  <2>. QED  BY <2>1, <2>2
<1>2. S \in SUBSET Nat
  OBVIOUS
<1>3. end \in p + 5 .. Len(text) + 1
  BY <1>1, <1>2, MinFacts
<1>4. At(end) \in EW => end <= Len(text)
  <2> HIDE DEF end
  <2>1. end \in Int /\ Len(text) \in Nat
    BY <1>3
  <2>. QED  BY <1>3, <2>1, AtFacts, CharFacts DEF At
<1> HIDE DEF end
<1>5. t \in Seq(TextChar) /\ Len(t) = Len(text)
  <2>1. DOMAIN text = 1 .. Len(text) /\ \A i \in 1 .. Len(text) : text[i] \in TextChar
    OBVIOUS
  <2>2. "." \in TextChar /\ NUL \in TextChar
    BY DEF TextChar
  <2>3. t \in [1 .. Len(text) -> TextChar] /\ Len(text) \in Nat
    BY <2>1, <2>2
  <2>. QED  BY <2>3
<1>6. \A q \in 1 .. Len(text) : q < p + 4 => t[q] = text[q]
  <2>1. DOMAIN text = 1 .. Len(text)
    OBVIOUS
  <2>. QED  BY <2>1
<1> HIDE DEF t
<1>7. ASSUME NEW v, At(end) \in EW
      PROVE  Sound(Reading(v, end + 1 - p, t), p)
  BY <1>3, <1>4, <1>5, <1>6, <1>7 DEF Sound, Reading
<1>8. Sound(NotFound(t), p)
  BY <1>5, <1>6 DEF Sound, NotFound, Reading
<1>9. \/ LonMinutes(p) = NotFound(t)
      \/ At(end) \in EW /\ \E v : LonMinutes(p) = Reading(v, end + 1 - p, t)
  BY DEF LonMinutes, end, t
<1>. QED  BY <1>7, <1>8, <1>9

LEMMA LatSound ==
    ASSUME text \in Seq(TextChar), NEW p \in Nat \ {0}
    PROVE  Sound(queryLatValue(p), p)
<1>0. Len(text) \in Nat
  OBVIOUS
<1>1. IsLatDms(p) => p + 8 <= Len(text)
  <2>1. Fits(LatDms, p) => p + Len(LatDms) - 1 <= Len(text)
    BY FitsInText
  <2>. QED  BY <1>0, <2>1, Lengths DEF IsLatDms
<1>2. Fits(LatDecimal, p) => p + 6 <= Len(text)
  <2>1. Fits(LatDecimal, p) => p + Len(LatDecimal) - 1 <= Len(text)
    BY FitsInText
  <2>. QED  BY <1>0, <2>1, Lengths
<1>3. Fits(LatOpen, p) => p + 3 <= Len(text)
  <2>1. Fits(LatOpen, p) => p + Len(LatOpen) - 1 <= Len(text)
    BY FitsInText
  <2>. QED  BY <1>0, <2>1, Lengths
<1>4. \/ IsLatDms(p) /\ \E v : queryLatValue(p) = Reading(v, 9, text)
      \/ Fits(LatDecimal, p)
         /\ \E v : queryLatValue(p) = Reading(v, 7, text)
      \/ Fits(LatOpen, p) /\ queryLatValue(p) = LatMinutes(p)
      \/ queryLatValue(p) = NotFound(text)
  BY Zenon DEF queryLatValue
<1>. QED  BY <1>1, <1>2, <1>3, <1>4, PlainSound, NotFoundSound, LatMinutesSound

LEMMA LonSound ==
    ASSUME text \in Seq(TextChar), NEW p \in Nat \ {0}
    PROVE  Sound(queryLonValue(p), p)
<1>0. Len(text) \in Nat
  OBVIOUS
<1>1. IsLonDms(p) => p + 9 <= Len(text)
  <2>1. Fits(LonDms, p) => p + Len(LonDms) - 1 <= Len(text)
    BY FitsInText
  <2>. QED  BY <1>0, <2>1, Lengths DEF IsLonDms
<1>2. Fits(LonDecimal, p) => p + 7 <= Len(text)
  <2>1. Fits(LonDecimal, p) => p + Len(LonDecimal) - 1 <= Len(text)
    BY FitsInText
  <2>. QED  BY <1>0, <2>1, Lengths
<1>3. Fits(LonOpen, p) => p + 4 <= Len(text)
  <2>1. Fits(LonOpen, p) => p + Len(LonOpen) - 1 <= Len(text)
    BY FitsInText
  <2>. QED  BY <1>0, <2>1, Lengths
<1>4. \/ IsLonDms(p) /\ \E v : queryLonValue(p) = Reading(v, 10, text)
      \/ Fits(LonDecimal, p)
         /\ \E v : queryLonValue(p) = Reading(v, 8, text)
      \/ Fits(LonOpen, p) /\ queryLonValue(p) = LonMinutes(p)
      \/ queryLonValue(p) = NotFound(text)
  BY Zenon DEF queryLonValue
<1>. QED  BY <1>1, <1>2, <1>3, <1>4, PlainSound, NotFoundSound, LonMinutesSound

-----------------------------------------------------------------------------
\* skipDate and skipTime lead nowhere or to the end of a form; only three dates
\* lead behind the text.
LEMMA SkipDateFacts ==
    ASSUME text \in Seq(TextChar), NEW p \in Nat \ {0}
    PROVE  \/ Skip(DateForms, p) = p
           \/ \E i \in 1 .. 5 :
                 /\ Matches(DateForms[i], p) /\ DateForms[i] \in Forms
                 /\ Skip(DateForms, p) = p + DateForms[i].skip
                 /\ i \in {2, 3, 4} \/ p + DateForms[i].skip <= Len(text)
<1> DEFINE S == {i \in DOMAIN DateForms : Matches(DateForms[i], p)}
<1>1. CASE S = {}
  BY <1>1 DEF Skip
<1>2. CASE S # {}
  <2>1. S \in SUBSET Nat /\ S \subseteq 1 .. 5
    BY DateShapes
  <2>2. Min(S) \in S
    BY <1>2, <2>1, MinFacts
  <2>3. Skip(DateForms, p) = p + DateForms[Min(S)].skip
    BY <1>2 DEF Skip
  <2> DEFINE i == Min(S)
  <2>4. i \in 1 .. 5 /\ i \in DOMAIN DateForms /\ Matches(DateForms[i], p)
    BY <2>1, <2>2
  <2> HIDE DEF i
  <2>5. DateForms[i] \in Forms
    BY <2>4 DEF Forms, ToSet
  <2>6. i \in {1, 5} => p + DateForms[i].skip <= Len(text)
    <3>1. Matches(DateForms[i], p) => p + Len(DateForms[i].chars) - 1 <= Len(text)
      BY DEF Matches
    <3>2. i \in {1, 5} => Len(DateForms[i].chars) = DateForms[i].skip + 1
                         /\ DateForms[i].skip \in Nat
      BY BlankForms, Zenon
    <3>3. Len(text) \in Nat
      OBVIOUS
    <3>. QED  BY <2>4, <3>1, <3>2, <3>3
  <2>7. i \in {2, 3, 4} \/ i \in {1, 5}
    BY <2>4
  <2>8. Skip(DateForms, p) = p + DateForms[i].skip
    BY <2>3 DEF i
  <2>. QED  BY <2>4, <2>5, <2>6, <2>7, <2>8
<1>. QED  BY <1>1, <1>2

LEMMA SkipTimeFacts ==
    ASSUME text \in Seq(TextChar), NEW p \in Nat \ {0}
    PROVE  \/ Skip(TimeForms, p) = p
           \/ \E f \in Forms : /\ Matches(f, p) /\ Skip(TimeForms, p) = p + f.skip
                               /\ p + f.skip <= Len(text)
<1> DEFINE S == {i \in DOMAIN TimeForms : Matches(TimeForms[i], p)}
<1>1. CASE S = {}
  BY <1>1 DEF Skip
<1>2. CASE S # {}
  <2>1. S \in SUBSET Nat /\ S \subseteq {1, 2}
    BY TimeShapes
  <2>2. Min(S) \in S
    BY <1>2, <2>1, MinFacts
  <2> DEFINE i == Min(S)
  <2>3. Skip(TimeForms, p) = p + TimeForms[i].skip
    BY <1>2 DEF Skip
  <2>4. i \in {1, 2} /\ i \in DOMAIN TimeForms /\ Matches(TimeForms[i], p)
    BY <2>1, <2>2
  <2> HIDE DEF i
  <2>5. TimeForms[i] \in Forms
    BY <2>4 DEF Forms, ToSet
  <2>6. p + Len(TimeForms[i].chars) - 1 <= Len(text)
    BY <2>4 DEF Matches
  <2>7. Len(TimeForms[i].chars) = TimeForms[i].skip + 1 /\ TimeForms[i].skip \in Nat
    BY <2>4, BlankForms, Zenon
  <2>8. Len(text) \in Nat
    OBVIOUS
  <2>. QED  BY <2>3, <2>4, <2>5, <2>6, <2>7, <2>8
<1>. QED  BY <1>1, <1>2

-----------------------------------------------------------------------------
\* extractPos is at work.
Searching == at \in {"scan", "skipDate", "skipTime", "match"}

TypeOK ==
    /\ text \in Seq(TextChar)
    /\ start \in Nat \ {0} /\ source \in Nat \ {0}
    /\ Searching \/ at \in {"extract", "done", "outside"}
    /\ latPassed \in BOOLEAN
    /\ \E S : found \in Seq(S)

\* A date without a blank, or with one that the day leaves out, ends the text.
DateAtEnd ==
    \E i \in {2, 3, 4}, p \in DOMAIN text :
        p + 10 > Len(text) /\ Matches(DateForms[i], p)

\* Where the search may be, and a latitude that waits lies before it.
Place ==
    /\ Searching => source <= start
    /\ at = "scan" => start <= Len(text)
    /\ at = "skipDate" => start <= Len(text) /\ At(start) \in Digit
    /\ at \in {"skipTime", "match"} =>
          /\ start > Len(text) => DateAtEnd
          /\ start = Len(text) => DigitAtEnd
    /\ Searching /\ latPassed =>
          lat.to \in Nat /\ source < lat.to /\ lat.to <= start

\* No digit from a to b, but those of dates and times that lie there.
Clear(a, b) ==
    \A p \in a .. b - 1 : At(p) \in Digit =>
        \E i \in a .. p, f \in Forms :
            Matches(f, i) /\ p < i + f.skip /\ i + f.skip <= b

\* So between the latitude and the search for its longitude, and between those
\* of the positions found, which lie before the place of the next search.
Gaps ==
    /\ Searching /\ latPassed => Clear(lat.to, start)
    /\ \A k \in DOMAIN found :
          /\ found[k].after \in Nat \ {0} /\ found[k].before \in Nat
          /\ found[k].before <= source
          /\ Clear(found[k].after, found[k].before)

PosInv == TypeOK /\ Place /\ Gaps /\ StaysInText

-----------------------------------------------------------------------------
\* Writing behind a stretch leaves it clear.
LEMMA ClearKept ==
    ASSUME text \in Seq(TextChar), text' \in Seq(TextChar), Len(text') = Len(text),
           NEW a \in Nat \ {0}, NEW b \in Nat, Clear(a, b),
           \A q \in 1 .. Len(text) : q <= b => text'[q] = text[q]
    PROVE  Clear(a, b)'
<1> SUFFICES ASSUME NEW p \in a .. b - 1, At(p)' \in Digit
             PROVE  \E i \in a .. p, f \in Forms :
                        Matches(f, i)' /\ p < i + f.skip /\ i + f.skip <= b
  BY DEF Clear
<1>1. p \in Nat \ {0} /\ p < b
  OBVIOUS
<1>2. At(p)' = At(p)
  BY <1>1, AtFacts DEF At, CharAt
<1>3. PICK i \in a .. p, f \in Forms :
          Matches(f, i) /\ p < i + f.skip /\ i + f.skip <= b
  BY <1>2 DEF Clear
<1>4. f.skip \in Nat /\ i \in Nat \ {0}
  BY FormFacts
<1>5. \A q \in 1 .. Len(text) : q <= i + f.skip => text'[q] = text[q]
  BY <1>3, <1>4
<1>6. Matches(f, i)'
  BY <1>3, <1>4, <1>5, MatchKept
<1>. QED  BY <1>3, <1>6

\* A clear stretch may be made longer by a place without a digit, or by a date or
\* a time.
LEMMA ClearLonger ==
    ASSUME NEW a \in Nat \ {0}, NEW b \in Nat \ {0}, a <= b, Clear(a, b)
    PROVE  /\ At(b) \notin Digit => Clear(a, b + 1)
           /\ \A f \in Forms : Matches(f, b) => Clear(a, b + f.skip)
<1>1. ASSUME At(b) \notin Digit PROVE Clear(a, b + 1)
  <2> SUFFICES ASSUME NEW p \in a .. b, At(p) \in Digit
               PROVE  \E i \in a .. p, f \in Forms :
                          Matches(f, i) /\ p < i + f.skip /\ i + f.skip <= b + 1
    BY DEF Clear
  <2>1. p \in a .. b - 1
    BY <1>1
  <2>2. PICK i \in a .. p, f \in Forms :
            Matches(f, i) /\ p < i + f.skip /\ i + f.skip <= b
    BY <2>1 DEF Clear
  <2>3. f.skip \in Nat /\ i \in Nat
    BY FormFacts
  <2>. QED  BY <2>2, <2>3
<1>2. ASSUME NEW h \in Forms, Matches(h, b) PROVE Clear(a, b + h.skip)
  <2>1. h.skip \in Nat
    BY FormFacts
  <2> DEFINE c == b + h.skip
  <2>2. ASSUME NEW p \in a .. c - 1, At(p) \in Digit
        PROVE  \E i \in a .. p, f \in Forms :
                   Matches(f, i) /\ p < i + f.skip /\ i + f.skip <= c
    <3>1. CASE p < b
      <4>1. p \in a .. b - 1
        BY <2>1, <3>1
      <4>2. PICK i \in a .. p, f \in Forms :
                Matches(f, i) /\ p < i + f.skip /\ i + f.skip <= b
        BY <2>2, <4>1 DEF Clear
      <4>3. f.skip \in Nat /\ i \in Nat
        BY FormFacts, <2>1
      <4>. QED  BY <2>1, <4>2, <4>3
    <3>2. CASE p >= b
      <4>1. b \in a .. p /\ p < b + h.skip
        BY <2>1, <3>2
      <4>. QED  BY <1>2, <2>1, <4>1
    <3>. QED  BY <2>1, <3>1, <3>2
  <2> HIDE DEF c
  <2>3. Clear(a, c)
    BY <2>2 DEF Clear
  <2>. QED  BY <2>3 DEF c
<1>. QED  BY <1>1, <1>2

\* Positions found so far stay apart when the text is written to behind start.
LEMMA FoundKept ==
    ASSUME TypeOK, Place, Gaps, Searching,
           text' \in Seq(TextChar), Len(text') = Len(text),
           \A q \in 1 .. Len(text) : q < start + 4 => text'[q] = text[q],
           NEW k \in DOMAIN found, found'[k] = found[k]
    PROVE  /\ found'[k].after \in Nat \ {0} /\ found'[k].before \in Nat
           /\ found'[k].before <= source
           /\ Clear(found[k].after, found[k].before)'
<1>1. /\ found[k].after \in Nat \ {0} /\ found[k].before \in Nat
      /\ found[k].before <= source /\ Clear(found[k].after, found[k].before)
  BY DEF Gaps
<1>2. source <= start /\ start \in Nat /\ source \in Nat /\ text \in Seq(TextChar)
  BY DEF TypeOK, Place
<1>3. PICK a \in Nat \ {0}, b \in Nat : a = found[k].after /\ b = found[k].before
  BY <1>1
<1>4. Clear(a, b)
  BY <1>1, <1>3
<1>5. \A q \in 1 .. Len(text) : q <= b => text'[q] = text[q]
  BY <1>1, <1>2, <1>3
<1>6. Clear(a, b)'
  BY <1>2, <1>4, <1>5, ClearKept
<1>7. found'[k].after = a /\ found'[k].before = b
  BY <1>3
<1>8. Clear(found[k].after, found[k].before)'
  BY <1>6, <1>7 DEF Clear
<1>. QED  BY <1>1, <1>8

\* The text is written to behind the first four places of the search only.
Written4 ==
    /\ text' \in Seq(TextChar) /\ Len(text') = Len(text)
    /\ \A q \in 1 .. Len(text) : q < start + 4 => text'[q] = text[q]

LEMMA Appended ==
    ASSUME NEW s, \E S : s \in Seq(S), NEW x
    PROVE  /\ \E S : Append(s, x) \in Seq(S)
           /\ Append(s, x) # s
           /\ DOMAIN Append(s, x) = DOMAIN s \union {Len(s) + 1}
           /\ \A k \in DOMAIN s : Append(s, x)[k] = s[k]
           /\ Append(s, x)[Len(s) + 1] = x
<1>1. PICK S : s \in Seq(S)
  OBVIOUS
<1>2. s \in Seq(S \union {x}) /\ x \in S \union {x}
  BY <1>1
<1>3. Append(s, x) \in Seq(S \union {x}) /\ Len(Append(s, x)) = Len(s) + 1
  BY <1>2
<1>4. Len(s) \in Nat /\ DOMAIN s = 1 .. Len(s)
  BY <1>1
<1>5. DOMAIN Append(s, x) = 1 .. Len(s) + 1
  BY <1>3
<1>6. \A k \in DOMAIN s : Append(s, x)[k] = s[k]
  BY <1>2, <1>4
<1>7. Append(s, x)[Len(s) + 1] = x
  BY <1>2, <1>4
<1>8. Append(s, x) # s
  <2> DEFINE y == Append(s, x)
  <2>1. Len(y) = Len(s) + 1
    BY <1>3, Zenon
  <2> HIDE DEF y
  <2>2. PICK n \in Nat : n = Len(s)
    BY <1>4
  <2>3. Len(y) = n + 1
    BY <2>1, <2>2
  <2>4. n + 1 # n
    OBVIOUS
  <2>5. Len(y) # Len(s)
    BY <2>2, <2>3, <2>4, Zenon
  <2>. QED  BY <2>5, Zenon DEF y
<1>9. DOMAIN Append(s, x) = DOMAIN s \union {Len(s) + 1}
  BY <1>4, <1>5
<1>10. \E T : Append(s, x) \in Seq(T)
  BY <1>3, Zenon
<1>. QED  BY <1>6, <1>7, <1>8, <1>9, <1>10, Zenon

\* addPosition, with a clear stretch before the longitude.
LEMMA AddKeeps ==
    ASSUME PosInv, Searching, Written4, NEW la, NEW lo, NEW a \in Nat \ {0},
           NEW p \in Nat, start < p, addPosition(la, lo, a, p), Clear(a, start)
    PROVE  TypeOK' /\ Place' /\ Gaps' /\ found' # found
<1> DEFINE x == [lat |-> la, lon |-> lo, after |-> a, before |-> start]
<1>1. found' = Append(found, x) /\ source' = p /\ start' = start
      /\ latPassed' = FALSE /\ at' \in {"outside", "extract"}
  BY DEF addPosition
<1>2. x.after = a /\ x.before = start
  OBVIOUS
<1> HIDE DEF x
<1>3. /\ start \in Nat \ {0} /\ source \in Nat \ {0} /\ source <= start
      /\ text \in Seq(TextChar) /\ \E S : found \in Seq(S)
  BY DEF PosInv, TypeOK, Place
<1>4. /\ \E S : found' \in Seq(S)
      /\ found' # found
      /\ DOMAIN found' = DOMAIN found \union {Len(found) + 1}
      /\ \A k \in DOMAIN found : found'[k] = found[k]
      /\ found'[Len(found) + 1] = x
  <2>1. /\ \E S : Append(found, x) \in Seq(S)
        /\ Append(found, x) # found
        /\ DOMAIN Append(found, x) = DOMAIN found \union {Len(found) + 1}
        /\ \A k \in DOMAIN found : Append(found, x)[k] = found[k]
        /\ Append(found, x)[Len(found) + 1] = x
    BY <1>3, Appended, Zenon
  <2>. QED  BY <1>1, <2>1, Zenon
<1>5. ~Searching'
  BY <1>1 DEF Searching
<1>6. TypeOK'
  <2>1. Searching' \/ at' \in {"extract", "done", "outside"}
    BY <1>1
  <2>2. p \in Nat \ {0}
    BY <1>3
  <2>. QED  BY <1>1, <1>3, <1>4, <2>1, <2>2, Zenon DEF TypeOK, Written4
<1>7. Place'
  BY <1>1, <1>5 DEF Place
<1>8. Clear(a, start)'
  <2>1. \A q \in 1 .. Len(text) : q <= start => text'[q] = text[q]
    BY <1>3 DEF Written4
  <2>2. PICK b \in Nat : b = start
    BY <1>3
  <2>3. Clear(a, b) /\ \A q \in 1 .. Len(text) : q <= b => text'[q] = text[q]
    BY <2>1, <2>2
  <2>4. Clear(a, b)'
    BY <1>3, <2>3, ClearKept DEF Written4
  <2>. QED  BY <1>1, <2>2, <2>4 DEF Clear
<1>9. \A k \in DOMAIN found' :
          /\ found'[k].after \in Nat \ {0} /\ found'[k].before \in Nat
          /\ found'[k].before <= source'
          /\ Clear(found[k].after, found[k].before)'
  <2> TAKE k \in DOMAIN found'
  <2>1. CASE k \in DOMAIN found
    <3>1. /\ found'[k].after \in Nat \ {0} /\ found'[k].before \in Nat
          /\ found'[k].before <= source
          /\ Clear(found[k].after, found[k].before)'
      BY <1>4, <2>1, FoundKept DEF PosInv, Written4
    <3>. QED  BY <1>1, <1>3, <3>1
  <2>2. CASE k = Len(found) + 1
    <3>1. found'[k].after = a /\ found'[k].before = start'
      BY <1>1, <1>2, <1>4, <2>2
    <3>2. Clear(found[k].after, found[k].before)'
      BY <1>8, <3>1 DEF Clear
    <3>. QED  BY <1>1, <1>3, <3>1, <3>2
  <2>. QED  BY <1>4, <2>1, <2>2
<1>10. Gaps'
  BY <1>5, <1>9 DEF Gaps
<1>. QED  BY <1>4, <1>6, <1>7, <1>10

\* GoOn, with no latitude waiting or one before a clear stretch.
LEMMA GoKeeps ==
    ASSUME PosInv, Searching, Written4, NEW p \in Nat, start < p, GoOn(p),
           latPassed' \in BOOLEAN,
           latPassed' => /\ lat'.to \in Nat /\ source < lat'.to /\ lat'.to <= p
                         /\ Clear(lat.to, start)'
    PROVE  TypeOK' /\ Place' /\ Gaps'
<1>1. /\ start' = p /\ source' = source /\ found' = found
      /\ at' = IF p > Len(text) + 1 THEN "outside"
               ELSE IF CharAt(text', p) = NUL THEN "done" ELSE "scan"
  BY DEF GoOn
<1>2. at' = "scan" \/ (~Searching' /\ at' \in {"done", "outside"})
  BY <1>1 DEF Searching
<1>3. /\ start \in Nat \ {0} /\ source \in Nat \ {0} /\ source <= start
      /\ text \in Seq(TextChar) /\ \E S : found \in Seq(S)
  BY DEF PosInv, TypeOK, Place
<1>4. at' = "scan" => p <= Len(text)
  <2> SUFFICES ASSUME at' = "scan", p > Len(text) PROVE FALSE
    BY <1>3
  <2>1. CharAt(text', p) # NUL
    BY <1>1
  <2>2. p \in Int /\ p \notin 1 .. Len(text') /\ text' \in Seq(TextChar)
    BY <1>3 DEF Written4
  <2>. QED  BY <2>1, <2>2 DEF CharAt
<1>5. TypeOK'
  <2>1. Searching' \/ at' \in {"extract", "done", "outside"}
    BY <1>2 DEF Searching
  <2>. QED  BY <1>1, <1>3, <2>1 DEF TypeOK, Written4
<1>6. Place'
  BY <1>1, <1>2, <1>3, <1>4 DEF Place, Written4
<1>7. \A k \in DOMAIN found' :
          /\ found'[k].after \in Nat \ {0} /\ found'[k].before \in Nat
          /\ found'[k].before <= source'
          /\ Clear(found[k].after, found[k].before)'
  BY <1>1, FoundKept DEF PosInv, Written4
<1>8. Gaps'
  BY <1>7 DEF Gaps
<1>. QED  BY <1>5, <1>6, <1>8

\* Writing nothing at all leaves what is said of the text and the positions.
LEMMA TextSame ==
    ASSUME text' = text
    PROVE  /\ \A a, b : Clear(a, b) => Clear(a, b)'
           /\ DateAtEnd => DateAtEnd'
           /\ DigitAtEnd => DigitAtEnd'
<1>1. \A f, p : Matches(f, p) => Matches(f, p)'
  BY DEF Matches
<1>2. \A p : At(p)' = At(p)
  BY DEF At
<1>3. ASSUME NEW a, NEW b, Clear(a, b) PROVE Clear(a, b)'
  <2> SUFFICES ASSUME NEW p \in a .. b - 1, At(p)' \in Digit
               PROVE  \E i \in a .. p, f \in Forms :
                          Matches(f, i)' /\ p < i + f.skip /\ i + f.skip <= b
    BY DEF Clear
  <2>1. At(p) \in Digit
    BY <1>2
  <2>2. PICK i \in a .. p, f \in Forms :
            Matches(f, i) /\ p < i + f.skip /\ i + f.skip <= b
    BY <1>3, <2>1 DEF Clear
  <2>. QED  BY <1>1, <2>2
<1>4. DateAtEnd => DateAtEnd'
  BY <1>1 DEF DateAtEnd
<1>5. DigitAtEnd => DigitAtEnd'
  BY <1>1 DEF DigitAtEnd, Last
<1>. QED  BY <1>3, <1>4, <1>5

LEMMA FoundSame ==
    ASSUME Gaps, text' = text, found' = found, source' = source
    PROVE  \A k \in DOMAIN found' :
               /\ found'[k].after \in Nat \ {0} /\ found'[k].before \in Nat
               /\ found'[k].before <= source'
               /\ Clear(found[k].after, found[k].before)'
<1> SUFFICES ASSUME NEW k \in DOMAIN found
             PROVE  Clear(found[k].after, found[k].before)'
  BY DEF Gaps
<1>1. PICK a, b : a = found[k].after /\ b = found[k].before
  OBVIOUS
<1>2. Clear(a, b)
  BY <1>1 DEF Gaps
<1>3. Clear(a, b)'
  BY <1>2, TextSame
<1>. QED  BY <1>1, <1>3 DEF Clear

LEMMA DirtySame ==
    ASSUME text' = text, NEW p, IsDirty(p)
    PROVE  IsDirty(p)'
<1>1. ASSUME NEW chars, NEW q, Fits(chars, q) PROVE Fits(chars, q)'
  BY <1>1 DEF Fits, Matches
<1>2. LonPos(p)' = LonPos(p)
  BY DEF LonPos, At
<1>3. /\ Fits(Two \o <<NS>>, p) /\ atoi(text, p) <= 89
      /\ Fits(Two \o One \o <<EW>>, LonPos(p)) \/ Fits(Two \o <<EW>>, LonPos(p))
      /\ atof(text, LonPos(p)) <= 180000
  BY DEF IsDirty
<1>4. PICK q : q = LonPos(p)
  OBVIOUS
<1>5. Fits(Two \o <<NS>>, p)'
  BY <1>1, <1>3
<1>6. Fits(Two \o One \o <<EW>>, q)' \/ Fits(Two \o <<EW>>, q)'
  BY <1>1, <1>3, <1>4
<1>7. atoi(text', p) <= 89
  BY <1>3
<1>8. atof(text', q) <= 180000
  BY <1>3, <1>4
<1>9. LonPos(p)' = q
  BY <1>2, <1>4
<1>10. Fits(Two \o One \o <<EW>>, LonPos(p))' \/ Fits(Two \o <<EW>>, LonPos(p))'
  BY <1>6, <1>9 DEF Fits, Matches
<1>11. atof(text', LonPos(p)') <= 180000
  BY <1>8, <1>9
<1>. QED  BY <1>5, <1>7, <1>10, <1>11 DEF IsDirty

LEMMA SameWritten4 ==
    ASSUME text \in Seq(TextChar), text' = text
    PROVE  Written4
BY DEF Written4

-----------------------------------------------------------------------------
\* The steps.

\* What MovesOn says of a step.
Moves ==
    /\ at = "extract" => start' = source
    /\ at \in {"scan", "match"} /\ found' = found /\ at' # "skipDate" => start' > start
    /\ at # "extract" => start' >= start
    /\ found' # found => source' > Max({source, start})

LEMMA InitPosInv == Init => PosInv
<1> SUFFICES ASSUME Init PROVE PosInv
  OBVIOUS
<1>1. text \in Seq(Char)
  BY FlatType DEF Init
<1>2. text \in Seq(TextChar)
  BY <1>1 DEF TextChar
<1>3. found \in Seq({}) /\ DOMAIN found = {}
  BY DEF Init
<1>4. ~Searching /\ at = "extract"
  BY DEF Init, Searching
<1>5. TypeOK
  <2>1. \E S : found \in Seq(S)
    BY <1>3, Zenon
  <2>2. start = 1 /\ source = 1 /\ latPassed = FALSE
    BY Zenon DEF Init
  <2>3. start \in Nat \ {0} /\ source \in Nat \ {0}
    BY <2>2
  <2>4. latPassed \in BOOLEAN
    BY <2>2, Zenon
  <2>. QED  BY <1>2, <1>4, <2>1, <2>3, <2>4, Zenon DEF TypeOK
<1>6. Place /\ Gaps /\ StaysInText
  BY <1>3, <1>4 DEF Place, Gaps, StaysInText
<1>. QED  BY <1>5, <1>6 DEF PosInv

LEMMA ExtractKeeps ==
    ASSUME PosInv, extractPos
    PROVE  PosInv' /\ Moves
<1>1. /\ at = "extract" /\ start' = source /\ latPassed' = FALSE
      /\ text' = text /\ source' = source /\ lat' = lat /\ found' = found
      /\ at' = IF At(source) \in {NUL, "\n"} THEN "done" ELSE "scan"
  BY DEF extractPos
<1>2. /\ text \in Seq(TextChar) /\ source \in Nat \ {0}
      /\ \E S : found \in Seq(S)
  BY DEF PosInv, TypeOK
<1>3. at' = "scan" => source <= Len(text)
  <2>1. Len(text) \in Nat
    BY <1>2
  <2>2. source > Len(text) => At(source) = NUL
    BY <1>2, <2>1, AtFacts DEF At
  <2>. QED  BY <1>1, <1>2, <2>1, <2>2
<1>4. at' \in {"scan", "done"}
  BY <1>1
<1>5. TypeOK'
  BY <1>1, <1>2, <1>4 DEF TypeOK, Searching
<1>6. Place'
  BY <1>1, <1>2, <1>3, <1>4 DEF Place, Searching
<1>7. Gaps'
  BY <1>1, FoundSame DEF Gaps, PosInv
<1>8. StaysInText'
  BY <1>4 DEF StaysInText
<1>9. Moves
  BY <1>1 DEF Moves
<1>. QED  BY <1>5, <1>6, <1>7, <1>8, <1>9 DEF PosInv

\* Whole finds a position in the text, or goes on.
LEMMA WholeFacts ==
    ASSUME PosInv, Searching, Written4, NEW p \in Nat, start <= p,
           NEW d, Whole(p, d)
    PROVE  /\ TypeOK' /\ Place' /\ Gaps'
           /\ \/ /\ found' # found /\ source' > p
                 /\ start' = start /\ at' = "extract"
              \/ /\ found' = found /\ source' = source
                 /\ start' = p + 1 /\ lat' = lat
                 /\ at' = "outside" => p > Len(text)
<1>1. /\ start \in Nat \ {0} /\ source \in Nat \ {0} /\ text \in Seq(TextChar)
      /\ source <= start /\ Len(text) \in Nat
  BY DEF PosInv, TypeOK, Place
<1>2. Clear(start, start)
  BY <1>1 DEF Clear
<1>3. IsSpaced(p) => p + 20 <= Len(text)
  <2>1. IsSpaced(p) => p + Len(Spaced) - 1 <= Len(text)
    BY FitsInText DEF IsSpaced
  <2>. QED  BY <1>1, <2>1, Lengths
<1>4. IsSlash(p) => p + 17 <= Len(text)
  <2>1. IsSlash(p) => p + Len(Slash) - 1 <= Len(text)
    BY FitsInText DEF IsSlash
  <2>. QED  BY <1>1, <2>1, Lengths
<1>5. ASSUME NEW la, NEW lo, NEW q \in {p + 20, p + 18}, q <= Len(text) + 1,
             addPosition(la, lo, start, q)
      PROVE  /\ TypeOK' /\ Place' /\ Gaps' /\ found' # found
             /\ source' > p /\ start' = start /\ at' = "extract"
  <2>1. q \in Nat /\ start < q /\ p < q
    BY <1>1
  <2>2. TypeOK' /\ Place' /\ Gaps' /\ found' # found
    BY <1>1, <1>2, <1>5, <2>1, AddKeeps
  <2>3. source' = q /\ start' = start /\ at' = "extract"
    BY <1>1, <1>5, <2>1 DEF addPosition
  <2>. QED  BY <2>1, <2>2, <2>3
<1>6. ASSUME GoOn(p + 1), latPassed' = FALSE, lat' = lat
      PROVE  /\ TypeOK' /\ Place' /\ Gaps'
             /\ found' = found /\ source' = source /\ start' = p + 1
             /\ lat' = lat /\ (at' = "outside" => p > Len(text))
  <2>1. p + 1 \in Nat /\ start < p + 1
    BY <1>1
  <2>2. TypeOK' /\ Place' /\ Gaps'
    BY <1>6, <2>1, GoKeeps
  <2>3. /\ start' = p + 1 /\ source' = source /\ found' = found
        /\ at' = "outside" => p > Len(text)
    BY <1>1, <1>6 DEF GoOn
  <2>. QED  BY <1>6, <2>2, <2>3
<1>7. \/ IsSpaced(p) /\ \E la, lo : addPosition(la, lo, start, p + 20)
      \/ IsSlash(p) /\ \E la, lo : addPosition(la, lo, start, p + 18)
      \/ GoOn(p + 1) /\ latPassed' = FALSE /\ lat' = lat
  BY Zenon DEF Whole
<1>8. CASE IsSpaced(p) /\ \E la, lo : addPosition(la, lo, start, p + 20)
  <2>1. p + 20 <= Len(text) + 1
    BY <1>1, <1>3, <1>8
  <2>. QED  BY <1>5, <1>8, <2>1
<1>9. CASE IsSlash(p) /\ \E la, lo : addPosition(la, lo, start, p + 18)
  <2>1. p + 18 <= Len(text) + 1
    BY <1>1, <1>4, <1>9
  <2>. QED  BY <1>5, <1>9, <2>1
<1>10. CASE GoOn(p + 1) /\ latPassed' = FALSE /\ lat' = lat
  BY <1>6, <1>10
<1>. QED  BY <1>7, <1>8, <1>9, <1>10
LEMMA ScanKeeps ==
    ASSUME PosInv, Scan
    PROVE  PosInv' /\ Moves
<1>1. at = "scan" /\ At(start) \notin Digit /\ text' = text
  BY DEF Scan
<1>2. Searching
  BY <1>1 DEF Searching
<1>3. /\ start \in Nat \ {0} /\ source \in Nat \ {0} /\ text \in Seq(TextChar)
      /\ source <= start /\ start <= Len(text) /\ Len(text) \in Nat
  BY <1>1, <1>2 DEF PosInv, TypeOK, Place
<1>4. Written4
  BY <1>1, <1>3, SameWritten4
<1>5. CASE latPassed
  <2>1. GoOn(start + 1) /\ latPassed' = latPassed /\ lat' = lat
    BY <1>5 DEF Scan
  <2>2. PICK a \in Nat : a = lat.to /\ source < a /\ a <= start /\ Clear(a, start)
    BY <1>2, <1>5 DEF PosInv, Place, Gaps
  <2>3. Clear(a, start + 1)
    BY <1>1, <1>3, <2>2, ClearLonger
  <2>4. PICK b \in Nat : b = start + 1
    BY <1>3
  <2>5. Clear(a, b)'
    BY <1>1, <2>3, <2>4, TextSame
  <2>6. lat'.to = a /\ start' = b
    BY <2>1, <2>2, <2>4 DEF GoOn
  <2>7. Clear(lat.to, start)'
    BY <2>5, <2>6 DEF Clear
  <2>8. TypeOK' /\ Place' /\ Gaps'
    <3>1. b \in Nat /\ start < b /\ GoOn(b) /\ a <= b
      BY <1>3, <2>1, <2>2, <2>4
    <3>. QED  BY <1>2, <1>4, <1>5, <2>1, <2>2, <2>6, <2>7, <3>1, GoKeeps
  <2>9. at' # "outside" /\ start' = start + 1 /\ found' = found
    BY <1>3, <2>1 DEF GoOn
  <2>. QED  BY <1>1, <1>3, <2>8, <2>9 DEF PosInv, StaysInText, Moves
<1>6. CASE ~latPassed
  <2>1. Whole(start, At(start))
    BY <1>6 DEF Scan
  <2>2. /\ TypeOK' /\ Place' /\ Gaps'
        /\ \/ /\ found' # found /\ source' > start
              /\ start' = start /\ at' = "extract"
           \/ /\ found' = found /\ source' = source
              /\ start' = start + 1 /\ lat' = lat
              /\ at' = "outside" => start > Len(text)
    BY <1>2, <1>3, <1>4, <2>1, WholeFacts
  <2>3. at' # "outside"
    BY <1>3, <2>2
  <2>4. Moves
    BY <1>1, <1>3, <2>2, MaxFacts DEF Moves
  <2>. QED  BY <2>2, <2>3, <2>4 DEF PosInv, StaysInText
<1>. QED  BY <1>5, <1>6

LEMMA ScanDigitKeeps ==
    ASSUME PosInv, ScanDigit
    PROVE  PosInv' /\ Moves
<1>1. /\ at = "scan" /\ At(start) \in Digit /\ at' = "skipDate"
      /\ text' = text /\ start' = start /\ source' = source
      /\ latPassed' = latPassed /\ lat' = lat /\ found' = found
  BY DEF ScanDigit
<1>2. Searching /\ Searching'
  BY <1>1 DEF Searching
<1>3. TypeOK'
  BY <1>1, <1>2 DEF PosInv, TypeOK
<1>4. Place'
  BY <1>1, <1>2 DEF PosInv, Place, At
<1>5. Gaps'
  <2>1. latPassed => Clear(lat.to, start)'
    <3> SUFFICES ASSUME latPassed PROVE Clear(lat.to, start)'
      OBVIOUS
    <3>1. PICK a, b : a = lat.to /\ b = start
      OBVIOUS
    <3>2. Clear(a, b)
      BY <1>2, <3>1 DEF PosInv, Gaps
    <3>3. Clear(a, b)'
      BY <1>1, <3>2, TextSame
    <3>. QED  BY <1>1, <3>1, <3>3 DEF Clear
  <2>. QED  BY <1>1, <2>1, FoundSame DEF PosInv, Gaps
<1>6. StaysInText'
  BY <1>1 DEF StaysInText
<1>7. Moves
  <2>1. start \in Nat
    BY DEF PosInv, TypeOK
  <2>. QED  BY <1>1, <2>1 DEF Moves
<1>. QED  BY <1>3, <1>4, <1>5, <1>6, <1>7 DEF PosInv

\* A step over a date or a time: the place moves on to a place b, to which the
\* stretch behind the latitude stays clear.
LEMMA SkipKeeps ==
    ASSUME PosInv, Searching, at' \in {"skipTime", "match"},
           UNCHANGED <<text, written, source, latPassed, lat, found>>,
           NEW b \in Nat, start <= b, start' = b,
           \A a \in Nat \ {0} : a <= start /\ Clear(a, start) => Clear(a, b),
           b > Len(text) => DateAtEnd,
           b = Len(text) => DigitAtEnd
    PROVE  PosInv' /\ (at # "scan" /\ at # "match" => Moves)
<1>1. /\ text' = text /\ start' = b /\ source' = source
      /\ latPassed' = latPassed /\ lat' = lat /\ found' = found
  OBVIOUS
<1>2. /\ start \in Nat \ {0} /\ source \in Nat \ {0} /\ text \in Seq(TextChar)
      /\ source <= start /\ Searching'
  BY DEF PosInv, TypeOK, Place, Searching
<1>3. TypeOK'
  BY <1>1, <1>2 DEF PosInv, TypeOK
<1>4. latPassed => /\ lat.to \in Nat \ {0} /\ source < lat.to /\ lat.to <= start
                   /\ Clear(lat.to, start)
  BY <1>2 DEF PosInv, Place, Gaps
<1>5. Place'
  <2>1. start' > Len(text') => DateAtEnd'
    BY <1>1, TextSame
  <2>2. start' = Len(text') => DigitAtEnd'
    BY <1>1, TextSame
  <2>3. source' <= start'
    BY <1>1, <1>2
  <2>4. latPassed' => lat'.to \in Nat /\ source' < lat'.to /\ lat'.to <= start'
    BY <1>1, <1>2, <1>4
  <2>. QED  BY <2>1, <2>2, <2>3, <2>4 DEF Place
<1>6. Gaps'
  <2>1. latPassed => Clear(lat.to, start)'
    <3> SUFFICES ASSUME latPassed PROVE Clear(lat.to, start)'
      OBVIOUS
    <3>1. PICK a \in Nat \ {0} : a = lat.to /\ a <= start /\ Clear(a, start)
      BY <1>4
    <3>2. Clear(a, b)
      BY <3>1
    <3>3. Clear(a, b)'
      BY <1>1, <3>2, TextSame
    <3>. QED  BY <1>1, <3>1, <3>3 DEF Clear
  <2>. QED  BY <1>1, <2>1, FoundSame DEF PosInv, Gaps
<1>7. StaysInText'
  BY DEF StaysInText
<1>8. at # "scan" /\ at # "match" => Moves
  BY <1>1, <1>2 DEF Moves, Searching
<1>. QED  BY <1>3, <1>5, <1>6, <1>7, <1>8 DEF PosInv

LEMMA SkipDateKeeps ==
    ASSUME PosInv, SkipDate
    PROVE  PosInv' /\ Moves
<1>1. /\ at = "skipDate" /\ start' = Skip(DateForms, start) /\ at' = "skipTime"
      /\ UNCHANGED <<text, written, source, latPassed, lat, found>>
  BY DEF SkipDate, skipDate
<1>2. Searching
  BY <1>1 DEF Searching
<1>3. /\ start \in Nat \ {0} /\ text \in Seq(TextChar) /\ Len(text) \in Nat
      /\ start <= Len(text) /\ At(start) \in Digit
  BY <1>1 DEF PosInv, TypeOK, Place
<1>4. CASE start' = start
  <2>1. start = Len(text) => DigitAtEnd
    BY <1>3 DEF DigitAtEnd, Last, At, CharAt
  <2>2. PICK b \in Nat : b = start
    BY <1>3
  <2>. QED  BY <1>1, <1>2, <1>3, <1>4, <2>1, <2>2, SkipKeeps
<1>5. ASSUME NEW i \in 1 .. 5, Matches(DateForms[i], start), DateForms[i] \in Forms,
             start' = start + DateForms[i].skip,
             i \in {2, 3, 4} \/ start + DateForms[i].skip <= Len(text)
      PROVE  PosInv' /\ Moves
  <2>1. PICK f \in Forms : f = DateForms[i]
    BY <1>5
  <2>2. f.skip \in 5 .. 10 /\ (i \in {2, 3, 4} => f.skip = 10)
    BY <2>1, FormFacts, DateShapes DEF Shape
  <2>3. PICK b \in Nat : b = start + f.skip
    BY <1>3, <2>2
  <2>4. start <= b /\ start' = b
    BY <1>3, <1>5, <2>1, <2>2, <2>3
  <2>5. b > Len(text) => DateAtEnd
    <3>1. b > Len(text) => i \in {2, 3, 4} /\ start + 10 > Len(text)
      BY <1>3, <1>5, <2>1, <2>2, <2>3
    <3>. QED  BY <1>3, <1>5, <3>1 DEF DateAtEnd
  <2>6. b = Len(text) => DigitAtEnd
    BY <1>3, <1>5, <2>1, <2>3 DEF DigitAtEnd
  <2>7. \A a \in Nat \ {0} : a <= start /\ Clear(a, start) => Clear(a, b)
    BY <1>3, <1>5, <2>1, <2>3, ClearLonger
  <2>. QED  BY <1>1, <1>2, <2>4, <2>5, <2>6, <2>7, SkipKeeps
<1>. QED  BY <1>1, <1>3, <1>4, <1>5, SkipDateFacts

LEMMA SkipTimeKeeps ==
    ASSUME PosInv, SkipTime
    PROVE  PosInv' /\ Moves
<1>1. /\ at = "skipTime" /\ start' = Skip(TimeForms, start) /\ at' = "match"
      /\ UNCHANGED <<text, written, source, latPassed, lat, found>>
  BY DEF SkipTime, skipTime
<1>2. Searching
  BY <1>1 DEF Searching
<1>3. /\ start \in Nat \ {0} /\ text \in Seq(TextChar) /\ Len(text) \in Nat
      /\ start > Len(text) => DateAtEnd
      /\ start = Len(text) => DigitAtEnd
  BY <1>1 DEF PosInv, TypeOK, Place
<1>4. CASE start' = start
  <2>1. PICK b \in Nat : b = start
    BY <1>3
  <2>. QED  BY <1>1, <1>2, <1>3, <1>4, <2>1, SkipKeeps
<1>5. ASSUME NEW f \in Forms, Matches(f, start), start' = start + f.skip,
             start + f.skip <= Len(text)
      PROVE  PosInv' /\ Moves
  <2>1. f.skip \in 5 .. 10
    BY FormFacts
  <2>2. PICK b \in Nat : b = start + f.skip
    BY <1>3, <2>1
  <2>3. start <= b /\ start' = b /\ b <= Len(text)
    BY <1>3, <1>5, <2>1, <2>2
  <2>4. b = Len(text) => DigitAtEnd
    <3>1. start \in DOMAIN text
      BY <1>3, <1>5, <2>1
    <3>. QED  BY <1>5, <2>2, <3>1 DEF DigitAtEnd
  <2>5. \A a \in Nat \ {0} : a <= start /\ Clear(a, start) => Clear(a, b)
    BY <1>3, <1>5, <2>2, ClearLonger
  <2>6. b > Len(text) => DateAtEnd
    BY <1>3, <2>3
  <2>. QED  BY <1>1, <1>2, <2>3, <2>4, <2>5, <2>6, SkipKeeps
<1>. QED  BY <1>1, <1>3, <1>4, <1>5, SkipTimeFacts
LEMMA DirtyKeeps ==
    ASSUME PosInv, queryDirtyPosition
    PROVE  PosInv' /\ Moves
<1>1. /\ at = "match" /\ text' = text /\ IsDirty(start)
      /\ addPosition(dirtyLon(start), Unset, start, start + 8)
  BY DEF queryDirtyPosition
<1>2. Searching
  BY <1>1 DEF Searching
<1>3. /\ start \in Nat \ {0} /\ source \in Nat \ {0} /\ text \in Seq(TextChar)
      /\ source <= start /\ Len(text) \in Nat
  BY <1>2 DEF PosInv, TypeOK, Place
<1>4. Written4
  BY <1>1, <1>3, SameWritten4
<1>5. Clear(start, start)
  BY <1>3 DEF Clear
<1>6. TypeOK' /\ Place' /\ Gaps' /\ found' # found
  <2>1. start + 8 \in Nat /\ start < start + 8
    BY <1>3
  <2>2. PICK la : la = dirtyLon(start)
    OBVIOUS
  <2>. QED  BY <1>1, <1>2, <1>3, <1>4, <1>5, <2>1, <2>2, AddKeeps
<1>7. start \in DOMAIN text
  <2>1. Fits(Two \o <<NS>>, start)
    BY <1>1 DEF IsDirty
  <2>2. start + Len(Two \o <<NS>>) - 1 <= Len(text)
    BY <2>1, FitsInText
  <2>. QED  BY <1>3, <2>2, Lengths
<1>8. /\ source' = start + 8 /\ start' = start
      /\ at' = "outside" => start + 7 > Len(text)
  BY <1>1, <1>3 DEF addPosition
<1>9. StaysInText'
  <2>1. PICK p \in DOMAIN text : p = start
    BY <1>7
  <2>2. IsDirty(p)
    BY <1>1, <2>1
  <2>3. IsDirty(p)'
    BY <1>1, <2>2, DirtySame
  <2>4. at' = "outside" => p + 7 > Len(text')
    BY <1>1, <1>8, <2>1
  <2>5. p \in DOMAIN text'
    BY <1>1
  <2>. QED  BY <2>3, <2>4, <2>5 DEF StaysInText
<1>10. Moves
  BY <1>1, <1>3, <1>6, <1>8, MaxFacts DEF Moves
<1>. QED  BY <1>6, <1>9, <1>10 DEF PosInv

LEMMA LatitudeKeeps ==
    ASSUME PosInv, Latitude
    PROVE  PosInv' /\ Moves
<1> DEFINE r == queryLatValue(start)
<1>1. /\ at = "match"
      /\ IF r.size > 0 /\ Absolute(r.value) < 90 * Deg
         THEN /\ text' = r.text
              /\ latPassed' = TRUE
              /\ lat' = [value |-> r.value, to |-> start + r.size]
              /\ GoOn(start + r.size)
         ELSE text' = text /\ Whole(start, "digit")
  BY DEF Latitude
<1>2. Searching
  BY <1>1 DEF Searching
<1>3. /\ start \in Nat \ {0} /\ source \in Nat \ {0} /\ text \in Seq(TextChar)
      /\ source <= start /\ Len(text) \in Nat
      /\ start > Len(text) => DateAtEnd
  BY <1>1, <1>2 DEF PosInv, TypeOK, Place
<1>4. Sound(r, start)
  BY <1>3, LatSound
<1> HIDE DEF r
<1>5. CASE r.size > 0 /\ Absolute(r.value) < 90 * Deg
  <2>1. Written4
    BY <1>1, <1>4, <1>5 DEF Sound, Written4
  <2>2. r.size \in Nat /\ start + r.size <= Len(text) + 1
    BY <1>4, <1>5 DEF Sound
  <2>3. PICK b \in Nat : b = start + r.size
    BY <1>3, <2>2
  <2>4. /\ latPassed' = TRUE /\ GoOn(b) /\ lat'.to = b /\ start < b
        /\ b <= Len(text) + 1
    BY <1>1, <1>3, <1>5, <2>2, <2>3
  <2>5. start' = b /\ found' = found /\ at' # "outside"
    BY <1>3, <2>4 DEF GoOn
  <2>6. Clear(lat.to, start)'
    BY <2>4, <2>5 DEF Clear
  <2>7. TypeOK' /\ Place' /\ Gaps'
    BY <1>2, <1>3, <2>1, <2>4, <2>6, GoKeeps
  <2>. QED  BY <1>1, <1>3, <2>4, <2>5, <2>7 DEF PosInv, StaysInText, Moves
<1>6. CASE ~(r.size > 0 /\ Absolute(r.value) < 90 * Deg)
  <2>1. text' = text /\ Whole(start, "digit")
    BY <1>1, <1>6
  <2>2. Written4
    BY <1>3, <2>1, SameWritten4
  <2>3. /\ TypeOK' /\ Place' /\ Gaps'
        /\ \/ /\ found' # found /\ source' > start
              /\ start' = start /\ at' = "extract"
           \/ /\ found' = found /\ source' = source
              /\ start' = start + 1 /\ lat' = lat
              /\ at' = "outside" => start > Len(text)
    BY <1>2, <1>3, <2>1, <2>2, WholeFacts
  <2>4. at' = "outside" => DateAtEnd'
    BY <1>3, <2>1, <2>3, TextSame
  <2>5. StaysInText'
    BY <2>4 DEF StaysInText, DateAtEnd
  <2>6. Moves
    BY <1>1, <1>3, <2>3, MaxFacts DEF Moves
  <2>. QED  BY <2>3, <2>5, <2>6 DEF PosInv
<1>. QED  BY <1>5, <1>6

LEMMA LongitudeKeeps ==
    ASSUME PosInv, Longitude
    PROVE  PosInv' /\ Moves
<1> DEFINE r == queryLonValue(start)
<1>1. /\ at = "match" /\ latPassed /\ text' = r.text
      /\ IF r.size > 0 /\ Absolute(r.value) < 180 * Deg
         THEN addPosition(lat.value, r.value, lat.to, start + r.size)
         ELSE Whole(start + 1, "digit")
  BY DEF Longitude
<1>2. Searching
  BY <1>1 DEF Searching
<1>3. /\ start \in Nat \ {0} /\ source \in Nat \ {0} /\ text \in Seq(TextChar)
      /\ source <= start /\ Len(text) \in Nat
      /\ start > Len(text) => DateAtEnd
      /\ start = Len(text) => DigitAtEnd
  BY <1>1, <1>2 DEF PosInv, TypeOK, Place
<1>4. PICK a \in Nat \ {0} : /\ a = lat.to /\ source < a /\ a <= start
                             /\ Clear(a, start)
  BY <1>1, <1>2, <1>3 DEF PosInv, Place, Gaps
<1>5. Sound(r, start)
  BY <1>3, LonSound
<1> HIDE DEF r
<1>6. Written4
  BY <1>1, <1>5 DEF Sound, Written4
<1>7. CASE r.size > 0 /\ Absolute(r.value) < 180 * Deg
  <2>1. r.size \in Nat /\ start + r.size <= Len(text) + 1
    BY <1>5, <1>7 DEF Sound
  <2>2. PICK b \in Nat : b = start + r.size
    BY <1>3, <2>1
  <2>3. PICK la, lo : la = lat.value /\ lo = r.value
    OBVIOUS
  <2>4. addPosition(la, lo, a, b) /\ start < b /\ b <= Len(text) + 1
    BY <1>1, <1>3, <1>4, <1>7, <2>1, <2>2, <2>3
  <2>5. TypeOK' /\ Place' /\ Gaps' /\ found' # found
    BY <1>2, <1>4, <1>6, <2>4, AddKeeps
  <2>6. source' = b /\ start' = start /\ at' = "extract"
    BY <1>3, <2>4 DEF addPosition
  <2>. QED  BY <1>1, <1>3, <2>4, <2>5, <2>6, MaxFacts DEF PosInv, StaysInText, Moves
<1>8. CASE ~(r.size > 0 /\ Absolute(r.value) < 180 * Deg)
  <2>1. PICK p \in Nat : p = start + 1
    BY <1>3
  <2>2. Whole(p, "digit") /\ start <= p
    BY <1>1, <1>3, <1>8, <2>1
  <2>3. /\ TypeOK' /\ Place' /\ Gaps'
        /\ \/ /\ found' # found /\ source' > p
              /\ start' = start /\ at' = "extract"
           \/ /\ found' = found /\ source' = source
              /\ start' = p + 1 /\ lat' = lat
              /\ at' = "outside" => p > Len(text)
    BY <1>2, <1>6, <2>2, WholeFacts
  <2>4. ASSUME at' = "outside"
        PROVE  /\ text' = text /\ lat'.to > source'
               /\ DateAtEnd' \/ DigitAtEnd'
    <3>1. source' = source /\ lat' = lat /\ start >= Len(text)
      BY <1>3, <2>1, <2>3, <2>4
    <3>2. text' = text
      BY <1>1, <1>5, <3>1 DEF Sound
    <3>3. DateAtEnd \/ DigitAtEnd
      BY <1>3, <3>1
    <3>. QED  BY <1>3, <1>4, <3>1, <3>2, <3>3, TextSame
  <2>5. StaysInText'
    BY <2>4 DEF StaysInText, DateAtEnd
  <2>6. Moves
    <3>1. source' \in Nat
      BY <2>3 DEF TypeOK
    <3>. QED  BY <1>1, <1>3, <2>1, <2>3, <3>1, MaxFacts DEF Moves
  <2>. QED  BY <2>3, <2>5, <2>6 DEF PosInv
<1>. QED  BY <1>7, <1>8

-----------------------------------------------------------------------------
\* The theorems.

LEMMA PosStep ==
    ASSUME PosInv, Next
    PROVE  PosInv' /\ Moves
BY ExtractKeeps, ScanKeeps, ScanDigitKeeps, SkipDateKeeps, SkipTimeKeeps,
   DirtyKeeps, LatitudeKeeps, LongitudeKeeps, Zenon DEF Next

LEMMA PosStutter ==
    ASSUME PosInv, UNCHANGED posVars
    PROVE  PosInv'
<1>1. /\ text' = text /\ start' = start /\ at' = at /\ written' = written
      /\ source' = source /\ latPassed' = latPassed /\ lat' = lat
      /\ found' = found
  BY DEF posVars
<1>2. TypeOK'
  BY <1>1 DEF PosInv, TypeOK, Searching
<1>3. Place'
  BY <1>1, TextSame DEF PosInv, Place, Searching, At
<1>4. Searching /\ latPassed => Clear(lat.to, start)'
  <2> SUFFICES ASSUME Searching, latPassed PROVE Clear(lat.to, start)'
    OBVIOUS
  <2>1. PICK a, b : a = lat.to /\ b = start
    OBVIOUS
  <2>2. Clear(a, b)
    BY <2>1 DEF PosInv, Gaps
  <2>3. Clear(a, b)'
    BY <1>1, <2>2, TextSame
  <2>. QED  BY <1>1, <2>1, <2>3 DEF Clear
<1>5. Gaps'
  BY <1>1, <1>4, FoundSame DEF PosInv, Gaps, Searching
<1>6. StaysInText'
  <2>1. DateAtEnd => DateAtEnd'
    BY <1>1, TextSame
  <2>2. DigitAtEnd => DigitAtEnd'
    BY <1>1, TextSame
  <2>3. \A p \in DOMAIN text : IsDirty(p) => IsDirty(p)'
    BY <1>1, DirtySame
  <2>. QED  BY <1>1, <2>1, <2>2, <2>3 DEF PosInv, StaysInText, DateAtEnd
<1>. QED  BY <1>2, <1>3, <1>5, <1>6 DEF PosInv

\* The places stay natural numbers, the text keeps its characters, but for the
\* zeros and points that the matchers of minutes write into it, and so on: the
\* state of extractPos is of its types.
THEOREM PositionsTypeCorrect == Spec => []TypeOK
<1>1. Spec => []PosInv
  BY InitPosInv, PosStep, PosStutter, PTL DEF Spec
<1>2. PosInv => TypeOK
  BY DEF PosInv
<1>. QED  BY <1>1, <1>2, PTL

\* A latitude is only ever paired with the longitude next to it: between the
\* two stands no digit but those of dates and times, in any text.
THEOREM NeighboursOnly == Spec => []Neighbours
<1>1. Spec => []PosInv
  BY InitPosInv, PosStep, PosStutter, PTL DEF Spec
<1>2. ASSUME PosInv PROVE Neighbours
  <2> SUFFICES ASSUME NEW k \in DOMAIN found,
                      NEW p \in found[k].after .. found[k].before - 1,
                      At(p) \in Digit
               PROVE  Dated(p, found[k].after)
    BY DEF Neighbours
  <2>1. Clear(found[k].after, found[k].before)
    BY <1>2 DEF PosInv, Gaps
  <2>2. PICK i \in found[k].after .. p, f \in Forms :
            Matches(f, i) /\ p < i + f.skip
    BY <2>1 DEF Clear
  <2>. QED  BY <2>2 DEF Dated
<1>. QED  BY <1>1, <1>2, PTL

\* The search leaves the text only where a date, a short position, a digit or
\* what a date or a time leads to ends it.
THEOREM OutsideOnlyAtItsEnd == Spec => []StaysInText
<1>1. Spec => []PosInv
  BY InitPosInv, PosStep, PosStutter, PTL DEF Spec
<1>2. PosInv => StaysInText
  BY DEF PosInv
<1>. QED  BY <1>1, <1>2, PTL

\* The loops of extractPositions and extractPos end: every turn moves on, and a
\* position found lies before the place of the next search.
THEOREM SearchMovesOn == Spec => MovesOn
<1>1. Spec => []PosInv
  BY InitPosInv, PosStep, PosStutter, PTL DEF Spec
<1>2. ASSUME PosInv, Next PROVE Moves
  BY <1>2, PosStep
<1>. QED  BY <1>1, <1>2, PTL DEF Spec, MovesOn, Moves
-----------------------------------------------------------------------------
\* Texts with positions spelled out, for ReadAsWritten.

\* Characters of a text between positions.
Filler == Char \ (Digit \union {NUL})

Figures(c, p, r) == \A q \in p .. r : c[q] \in Digit

Pair(c, p) == 10 * Worth[c[p]] + Worth[c[p + 1]]

Degrees(c, p, n) == IF n = 2 THEN Pair(c, p) ELSE 100 * Worth[c[p]] + Pair(c, p + 1)

\* The digits p to r behind a decimal point, in thousandths.
Thousandths(c, p, r) ==
    LET d == SubSeq(c, p, r) \o <<"0", "0", "0">> IN
    100 * Worth[d[1]] + 10 * Worth[d[2]] + Worth[d[3]]

\* The characters p to r of c are a coordinate of n digits of degrees.
Coordinate(form, c, p, n, r, hemispheres) ==
    /\ Figures(c, p, p + n - 1) /\ c[r] \in hemispheres
    /\ \/ /\ form = "dms" /\ r = p + n + 6
          /\ c[p + n] = "-" /\ Figures(c, p + n + 1, p + n + 2)
          /\ c[p + n + 3] = "-" /\ Figures(c, p + n + 4, p + n + 5)
       \/ /\ form = "minutes"
          /\ c[p + n] = "-" /\ Figures(c, p + n + 1, p + n + 2)
          /\ \/ r = p + n + 3
             \/ /\ r > p + n + 4 /\ c[p + n + 3] = Comma
                /\ Figures(c, p + n + 4, r - 1)
       \/ /\ form \in {"decimal", "slash"}
          /\ r = p + n + (IF form = "decimal" THEN 4 ELSE 5)
          /\ Figures(c, p + n, p + n + 1) /\ Pair(c, p + n) < 60
          /\ c[p + n + 2] = "." /\ Figures(c, p + n + 3, r - 1)

\* Minutes of two digits at q with a fraction behind the point or the comma, up
\* to e, in thousandths.
Minutes(c, q, e) == 1000 * Pair(c, q) + Thousandths(c, q + 3, e)

\* What it means.
Meaning(form, c, p, n, r, negative) ==
    Signed(IF form = "dms"
           THEN Degrees(c, p, n) * Deg + Pair(c, p + n + 1) * 6000 + Pair(c, p + n + 4) * 100
           ELSE Degrees(c, p, n) * Deg
                + 6 * Minutes(c, IF form = "minutes" THEN p + n + 1 ELSE p + n, r - 1),
           c[r] = negative)

\* The latitude ends at i, and what is between it and the longitude at j.
Halves(piece, i, j) ==
    LET c == piece.chars  n == Len(c) IN
    /\ i \in 1 .. n /\ j \in i .. n - 4
    /\ Coordinate(piece.form, c, 1, 2, i, NS)
    /\ Coordinate(piece.form, c, j + 1, 3, n, EW)
    /\ piece.lat = Meaning(piece.form, c, 1, 2, i, "S")
    /\ piece.lon = Meaning(piece.form, c, j + 1, 3, n, "W")

\* A date or a time, as extractPos passes over it: 2021-03-04, 21-03-04,
\* 12:30:00 or 12:30, and the blank behind it.
IsStamp(c) ==
    LET n == Len(c) IN
    /\ n \in {6, 9, 11} /\ c[n] \in Blank
    /\ \/ /\ n = 11 /\ c[1] = "2" /\ c[2] = "0" /\ Figures(c, 3, 4) /\ c[5] \in DateSep
          /\ Figures(c, 6, 7) /\ c[8] = c[5] /\ Figures(c, 9, 10)
       \/ /\ n = 9 /\ Figures(c, 1, 2) /\ c[3] \in DateSep \union {":"}
          /\ Figures(c, 4, 5) /\ c[6] = c[3] /\ Figures(c, 7, 8)
       \/ /\ n = 6 /\ Figures(c, 1, 2) /\ c[3] = ":" /\ Figures(c, 4, 5)

\* A piece that can be read.
Legible(piece) ==
    LET c == piece.chars IN
    \/ piece.form = "text" /\ c # <<>> /\ \A q \in DOMAIN c : c[q] \in Filler
    \/ piece.form = "text" /\ IsStamp(c)
    \/ /\ piece.form \in {"dms", "minutes", "decimal"}
       /\ Absolute(piece.lat) < 90 * Deg /\ Absolute(piece.lon) < 180 * Deg
       /\ \E i, j \in DOMAIN c :
             Halves(piece, i, j) /\ \A q \in i + 1 .. j : c[q] \in Filler
    \/ /\ piece.form = "slash" /\ Halves(piece, 8, 9) /\ Len(c) = 18 /\ c[9] = "/"
    \/ /\ piece.form = "short" /\ Len(c) = 8
       /\ Figures(c, 1, 2) /\ c[3] \in NS /\ c[4] = Space
       /\ Figures(c, 5, 7) /\ c[8] \in EW
       /\ Degrees(c, 1, 2) < 90 /\ Degrees(c, 5, 3) <= 180
       /\ piece.lon = Signed(Degrees(c, 5, 3) * Deg, c[8] = "W")

\* Every piece can be read, and the text does not begin with a line's end.
LegibleText ==
    /\ \A k \in DOMAIN written : Legible(written[k])
    /\ Head(written[1].chars) # "\n"

-----------------------------------------------------------------------------
\* The characters of the pieces of a text, and what is read of them.
CharsOf(w) == [k \in DOMAIN w |-> w[k].chars]

ReadsOf(w) == [k \in DOMAIN w |-> Read(w[k])]

\* The first k of these, one behind the other.
Upto(s, k) == FlattenSeq(SubSeq(s, 1, k))

\* The places of the first k pieces.
Offset(w, k) == Len(Upto(CharsOf(w), k))

Results == [i \in DOMAIN found |-> <<found[i].lat, found[i].lon>>]

\* The search ends behind piece k.
Stop(w, k) ==
    /\ k \in 1 .. Len(w) - 1
    /\ Read(w[k]) # <<>> /\ w[k].form # "spaced"
    /\ Head(w[k + 1].chars) = "\n"

\* The text is as it was written from p on.
Kept(w, p) == \A q \in p .. Len(text) : text[q] = Flat(w)[q]

Turn == at \in {"skipDate", "skipTime", "match"}

\* extractPos begins behind a position.
AtStart(w, k) ==
    /\ at = "extract" /\ source = Offset(w, k - 1) + 1 /\ Kept(w, source)
    /\ k = 1 \/ w[k - 1].form # "text"

\* It passes over a piece without digits, one character at a time.
InFiller(w, k) ==
    /\ ~latPassed /\ w[k].form = "text" /\ ~IsStamp(w[k].chars)
    /\ at = "scan" /\ start \in Offset(w, k - 1) + 1 .. Offset(w, k)

\* It is at a date or time, or at the blank behind it.
InStamp(w, k) ==
    /\ ~latPassed /\ w[k].form = "text" /\ IsStamp(w[k].chars)
    /\ \/ at \in {"scan", "skipDate"} /\ start = Offset(w, k - 1) + 1
       \/ at = "skipTime" /\ start = Offset(w, k - 1) + 1 /\ w[k].chars[3] = ":"
       \/ at \in {"skipTime", "match"} /\ start = Offset(w, k)

\* It is at the first character of a position.
AtLat(w, k) ==
    /\ ~latPassed /\ w[k].form # "text"
    /\ at = "scan" \/ Turn
    /\ start = Offset(w, k - 1) + 1

\* It has the latitude and is between the two halves of the position.
AtLon(w, k) ==
    /\ latPassed /\ w[k].form \in {"dms", "minutes", "decimal"}
    /\ lat.value = w[k].lat
    /\ \E i, j \in DOMAIN w[k].chars :
          /\ Halves(w[k], i, j)
          /\ \A q \in i + 1 .. j : w[k].chars[q] \in Filler
          /\ \/ at = "scan" /\ start \in Offset(w, k - 1) + i + 1 .. Offset(w, k - 1) + j + 1
             \/ Turn /\ start = Offset(w, k - 1) + j + 1

\* The pieces before k have been read.
ReadSoFar(w, k) ==
    /\ Results = Upto(ReadsOf(w), k - 1)
    /\ \A i \in 1 .. k - 2 : ~Stop(w, i)

\* extractPos is in piece k.
InPiece(w, k) ==
    /\ k <= Len(w) /\ ~Stop(w, k - 1) /\ Kept(w, start)
    /\ InFiller(w, k) \/ InStamp(w, k) \/ AtLat(w, k) \/ AtLon(w, k)

\* No piece is left, or the line of the last one ends.
AtEnd(w, k) == at = "done" /\ (k = Len(w) + 1 \/ Stop(w, k - 1))

\* extractPos is at piece k, and what it has found is what the pieces before say.
ReadTo(w, k) == ReadSoFar(w, k) /\ (AtStart(w, k) \/ InPiece(w, k) \/ AtEnd(w, k))

\* The invariant of the search in a legible text.
ReadInv ==
    /\ written \in Writings
    /\ Len(text) = Len(Flat(written))
    /\ \E k \in 1 .. Len(written) + 1 : ReadTo(written, k)


\* Two functions with the equation agree where both are defined.
LEMMA FlattensUnique ==
    ASSUME NEW s, NEW u, NEW m \in Nat, NEW n \in Nat, m <= n,
           \A i \in 1 .. m : s[i] = u[i],
           NEW f, NEW g, Flattens(f, s, n), Flattens(g, u, m)
    PROVE  \A i \in 1 .. m : f[i] = g[i]
<1> DEFINE Bad == {i \in 1 .. m : f[i] # g[i]}
<1> SUFFICES ASSUME Bad # {} PROVE FALSE
  OBVIOUS
<1>1. PICK i \in Bad : \A x \in Bad : i <= x
  <2>1. Bad \in SUBSET Nat
    OBVIOUS
  <2>. QED  BY <2>1, LeastElement
<1>2. i \in 1 .. m /\ i \in 1 .. n /\ f[i] # g[i]
  OBVIOUS
<1>3. f[i] = IF i = 1 THEN s[i] ELSE f[i - 1] \o s[i]
  BY <1>2, Zenon DEF Flattens
<1>4. g[i] = IF i = 1 THEN u[i] ELSE g[i - 1] \o u[i]
  BY <1>2, Zenon DEF Flattens
<1>5. i # 1 => f[i - 1] = g[i - 1]
  <2> SUFFICES ASSUME i # 1, f[i - 1] # g[i - 1] PROVE FALSE
    OBVIOUS
  <2>1. i - 1 \in Bad
    BY <1>2
  <2>. QED  BY <1>1, <1>2, <2>1
<1>. QED  BY <1>2, <1>3, <1>4, <1>5

LEMMA FlattenIs ==
    ASSUME NEW S, NEW s \in Seq(Seq(S))
    PROVE  \E f : Flattens(f, s, Len(s)) /\ (Len(s) # 0 => FlattenSeq(s) = f[Len(s)])
<1> DEFINE flat == CHOOSE f : Flattens(f, s, Len(s))
<1>1. Len(s) \in Nat
  OBVIOUS
<1>2. Flattens(flat, s, Len(s))
  BY <1>1, FlattensExists, Zenon
<1>3. Len(s) # 0 => FlattenSeq(s) = flat[Len(s)]
  BY DEF FlattenSeq, Flattens
<1>. QED  BY <1>2, <1>3, Zenon

LEMMA UptoFacts ==
    ASSUME NEW S, NEW s \in Seq(Seq(S)), NEW k \in 0 .. Len(s)
    PROVE  /\ Upto(s, k) \in Seq(S)
           /\ k = 0 => Upto(s, k) = <<>>
           /\ k = Len(s) => Upto(s, k) = FlattenSeq(s)
<1>1. SubSeq(s, 1, k) \in Seq(Seq(S)) /\ Len(SubSeq(s, 1, k)) = k
  OBVIOUS
<1>2. k = 0 => SubSeq(s, 1, k) = <<>>
  OBVIOUS
<1>3. k = Len(s) => SubSeq(s, 1, k) = s
  OBVIOUS
<1>4. Upto(s, k) \in Seq(S)
  BY <1>1, FlattenType DEF Upto
<1>5. FlattenSeq(<<>>) = <<>>
  BY DEF FlattenSeq
<1>. QED  BY <1>2, <1>3, <1>4, <1>5 DEF Upto

\* The last step of the equation.
Joined(f, g, a, n, m) == f[m] = IF m = 1 THEN a[m] ELSE g[n] \o a[m]

Alike(a, b, n) == \A i \in 1 .. n : a[i] = b[i]

\* The equation, one step on.
LEMMA FlattensLast ==
    ASSUME NEW a, NEW b, NEW n \in Nat, NEW m \in Nat, m = n + 1,
           Alike(a, b, n),
           NEW f, NEW g, Flattens(f, a, m), Flattens(g, b, n)
    PROVE  Joined(f, g, a, n, m)
<1>1. m \in 1 .. m /\ (m # 1 => n \in 1 .. n) /\ m - 1 = n /\ n <= m
  OBVIOUS
<1>2. f[m] = IF m = 1 THEN a[m] ELSE f[m - 1] \o a[m]
  BY <1>1, Zenon DEF Flattens
<1>3. \A i \in 1 .. n : f[i] = g[i]
  BY <1>1, FlattensUnique DEF Alike
<1>4. m # 1 => f[m - 1] = g[n]
  BY <1>1, <1>3
<1>. QED  BY <1>2, <1>4, Zenon DEF Joined

LEMMA UptoStep ==
    ASSUME NEW S, NEW s \in Seq(Seq(S)), NEW k \in 1 .. Len(s)
    PROVE  Upto(s, k) = Upto(s, k - 1) \o s[k]
<1>0. PICK n \in Nat : n = k - 1
  OBVIOUS
<1>1. PICK a, b : a = SubSeq(s, 1, k) /\ b = SubSeq(s, 1, k - 1) /\ n = k - 1
  BY <1>0
<1>2. n \in Nat /\ k \in Nat /\ k = n + 1 /\ n < Len(s) /\ k # 0
  BY <1>1
<1>3. a \in Seq(Seq(S)) /\ Len(a) = k /\ \A i \in 1 .. k : a[i] = s[i]
  BY <1>1, <1>2
<1>4. b \in Seq(Seq(S)) /\ Len(b) = n /\ \A i \in 1 .. n : b[i] = s[i]
  BY <1>1, <1>2
<1>5. Alike(a, b, n) /\ a[k] = s[k] /\ s[k] \in Seq(S)
  <2>1. \A i \in 1 .. n : a[i] = b[i]
    <3>1. \A i \in 1 .. n : i \in 1 .. k
      BY <1>2
    <3>. QED  BY <1>3, <1>4, <3>1
  <2>2. a[k] = s[k]
    BY <1>2, <1>3
  <2>3. s[k] \in Seq(S)
    OBVIOUS
  <2>. QED  BY <2>1, <2>2, <2>3 DEF Alike
<1>6. PICK f : Flattens(f, a, k) /\ FlattenSeq(a) = f[k]
  BY <1>2, <1>3, FlattenIs
<1>7. PICK g : Flattens(g, b, n) /\ (n # 0 => FlattenSeq(b) = g[n])
  BY <1>4, FlattenIs
<1>8. Joined(f, g, a, n, k)
  BY <1>2, <1>5, <1>6, <1>7, FlattensLast
<1>9. CASE n = 0
  <2>1. k = 1
    BY <1>2, <1>9
  <2>2. f[k] = a[k]
    BY <1>8, <2>1, Zenon DEF Joined
  <2>3. b = <<>> /\ FlattenSeq(<<>>) = <<>>
    BY <1>4, <1>9 DEF FlattenSeq
  <2>4. <<>> \o a[k] = a[k]
    BY <1>5
  <2>. QED  BY <1>1, <1>5, <1>6, <2>2, <2>3, <2>4, Zenon DEF Upto
<1>10. CASE n # 0
  <2>1. k # 1
    BY <1>2, <1>10
  <2>. QED  BY <1>1, <1>5, <1>6, <1>7, <1>8, <1>10, <2>1, Zenon DEF Upto, Joined
<1>. QED  BY <1>9, <1>10

\* Pieces that follow leave those before them as they are.
Begins(a, b) == Len(a) <= Len(b) /\ \A i \in 1 .. Len(a) : b[i] = a[i]

LEMMA BeginsAppend ==
    ASSUME NEW S, NEW a \in Seq(S), NEW b \in Seq(S), NEW c \in Seq(S), Begins(a, b)
    PROVE  Begins(a, b \o c)
BY DEF Begins

LEMMA UptoBegins ==
    ASSUME NEW S, NEW s \in Seq(Seq(S)), NEW k \in 0 .. Len(s), NEW m \in k .. Len(s)
    PROVE  Begins(Upto(s, k), Upto(s, m))
<1> DEFINE Bad == {j \in k .. Len(s) : ~Begins(Upto(s, k), Upto(s, j))}
<1> SUFFICES ASSUME Bad # {} PROVE FALSE
  OBVIOUS
<1>1. PICK j \in Bad : \A x \in Bad : j <= x
  <2>1. Bad \in SUBSET Nat
    OBVIOUS
  <2>. QED  BY <2>1, LeastElement
<1>2. j \in k .. Len(s) /\ ~Begins(Upto(s, k), Upto(s, j)) /\ k \in Nat
  OBVIOUS
<1>3. j # k
  BY <1>2, UptoFacts DEF Begins
<1>4. j - 1 \in k .. Len(s) /\ j \in 1 .. Len(s) /\ j - 1 \in 0 .. Len(s)
  BY <1>2, <1>3
<1>5. j - 1 \notin Bad
  BY <1>1, <1>4
<1>6. Begins(Upto(s, k), Upto(s, j - 1))
  BY <1>4, <1>5
<1>7. Upto(s, j) = Upto(s, j - 1) \o s[j]
  BY <1>4, UptoStep
<1>8. Upto(s, k) \in Seq(S) /\ Upto(s, j - 1) \in Seq(S) /\ s[j] \in Seq(S)
  BY <1>2, <1>4, UptoFacts
<1>. QED  BY <1>2, <1>6, <1>7, <1>8, BeginsAppend

LEMMA CharsType ==
    ASSUME NEW w \in Writings
    PROVE  /\ Len(w) \in Nat \ {0} /\ DOMAIN w = 1 .. Len(w)
           /\ CharsOf(w) \in Seq(Seq(Char)) /\ Len(CharsOf(w)) = Len(w)
           /\ \A k \in 1 .. Len(w) : /\ w[k] \in Piece /\ w[k].chars \in Seq(Char)
                                     /\ w[k].lat \in Int /\ w[k].lon \in Int
                                     /\ CharsOf(w)[k] = w[k].chars
           /\ Flat(w) = FlattenSeq(CharsOf(w)) /\ Flat(w) \in Seq(Char)
<1>1. w \in Seq(Piece) /\ w # <<>>
  BY WritingsAssumption
<1>2. \A p \in Piece : p.chars \in Seq(Char) /\ p.lat \in Int /\ p.lon \in Int
  BY DEF Piece
<1>3. Len(w) \in Nat \ {0} /\ DOMAIN w = 1 .. Len(w) /\ \A k \in 1 .. Len(w) : w[k] \in Piece
  BY <1>1
<1>4. \A k \in 1 .. Len(w) : /\ w[k].chars \in Seq(Char)
                             /\ w[k].lat \in Int /\ w[k].lon \in Int
  BY <1>2, <1>3
<1>5. /\ CharsOf(w) \in Seq(Seq(Char)) /\ Len(CharsOf(w)) = Len(w)
      /\ \A k \in 1 .. Len(w) : CharsOf(w)[k] = w[k].chars
  BY <1>3, <1>4 DEF CharsOf
<1>6. Flat(w) = FlattenSeq(CharsOf(w))
  BY DEF Flat, CharsOf
<1>. QED  BY <1>3, <1>4, <1>5, <1>6, FlatType

\* Where the pieces of a text lie.
LEMMA Offsets ==
    ASSUME NEW w \in Writings
    PROVE  /\ Offset(w, 0) = 0 /\ Offset(w, Len(w)) = Len(Flat(w))
           /\ \A k \in 0 .. Len(w) : Offset(w, k) \in 0 .. Len(Flat(w))
           /\ \A k \in 1 .. Len(w) :
                 /\ Offset(w, k) = Offset(w, k - 1) + Len(w[k].chars)
                 /\ \A i \in 1 .. Len(w[k].chars) :
                       Flat(w)[Offset(w, k - 1) + i] = w[k].chars[i]
<1>1. PICK s : s = CharsOf(w)
  OBVIOUS
<1>2. /\ s \in Seq(Seq(Char)) /\ Len(s) = Len(w) /\ Len(s) \in Nat
      /\ \A k \in 1 .. Len(w) : s[k] = w[k].chars
      /\ Flat(w) = Upto(s, Len(s)) /\ Flat(w) \in Seq(Char)
  <2>1. /\ s \in Seq(Seq(Char)) /\ Len(s) = Len(w) /\ Len(w) \in Nat
        /\ \A k \in 1 .. Len(w) : s[k] = w[k].chars
        /\ Flat(w) = FlattenSeq(s) /\ Flat(w) \in Seq(Char)
    BY <1>1, CharsType
  <2>2. Len(s) \in 0 .. Len(s)
    BY <2>1
  <2>3. Upto(s, Len(s)) = FlattenSeq(s)
    BY <2>1, <2>2, UptoFacts
  <2>. QED  BY <2>1, <2>3, Zenon
<1>3. Offset(w, 0) = 0 /\ Offset(w, Len(w)) = Len(Flat(w))
  BY <1>1, <1>2, UptoFacts DEF Offset
<1>4. ASSUME NEW k \in 0 .. Len(w)
      PROVE  Offset(w, k) \in 0 .. Len(Flat(w)) /\ Begins(Upto(s, k), Flat(w))
  <2>1. k \in 0 .. Len(s) /\ Len(s) \in k .. Len(s)
    BY <1>2
  <2>2. Upto(s, k) \in Seq(Char) /\ Begins(Upto(s, k), Flat(w))
    BY <1>2, <2>1, UptoFacts, UptoBegins
  <2>3. Len(Upto(s, k)) \in 0 .. Len(Flat(w))
    BY <1>2, <2>2 DEF Begins
  <2>. QED  BY <1>1, <2>2, <2>3 DEF Offset
<1>5. ASSUME NEW k \in 1 .. Len(w)
      PROVE  /\ Offset(w, k) = Offset(w, k - 1) + Len(w[k].chars)
             /\ \A i \in 1 .. Len(w[k].chars) :
                   Flat(w)[Offset(w, k - 1) + i] = w[k].chars[i]
  <2>1. k \in 1 .. Len(s) /\ k - 1 \in 0 .. Len(s) /\ k \in 0 .. Len(s)
    BY <1>2
  <2>2. PICK a, b, c : a = Upto(s, k - 1) /\ b = Upto(s, k) /\ c = w[k].chars
    OBVIOUS
  <2>3. a \in Seq(Char) /\ b = a \o c /\ c \in Seq(Char)
    <3>1. a \in Seq(Char) /\ s[k] = c /\ c \in Seq(Char)
      BY <1>2, <2>1, <2>2, UptoFacts
    <3>2. Upto(s, k) = Upto(s, k - 1) \o s[k]
      BY <1>2, <2>1, UptoStep
    <3>. QED  BY <2>2, <3>1, <3>2, Zenon
  <2>4. Begins(b, Flat(w))
    BY <1>2, <1>4, <2>1, <2>2
  <2>5. Len(b) = Len(a) + Len(c)
    BY <2>3
  <2>6. \A i \in 1 .. Len(c) : b[Len(a) + i] = c[i] /\ Len(a) + i \in 1 .. Len(b)
    BY <2>3, <2>5
  <2>7. \A i \in 1 .. Len(c) : Flat(w)[Len(a) + i] = c[i]
    BY <2>4, <2>6 DEF Begins
  <2>. QED  BY <1>1, <2>2, <2>5, <2>7 DEF Offset
<1>. QED  BY <1>3, <1>4, <1>5

-----------------------------------------------------------------------------
\* Characters and numbers.

Figure == {"0", "1", "2", "3", "4", "5", "6", "7", "8", "9"}

LEMMA FigureFacts ==
    /\ DOMAIN Worth = Figure /\ Digit = Char \intersect Figure
    /\ \A c \in Figure : Worth[c] \in 0 .. 9
<1>1. ToSet(Numerals) = Figure
  <2>1. DOMAIN Numerals = 1 .. 10
    BY DEF Numerals
  <2>2. \A c \in Figure : \E i \in 1 .. 10 : Numerals[i] = c
    BY DEF Numerals, Figure
  <2>3. \A i \in 1 .. 10 : Numerals[i] \in Figure
    BY DEF Numerals, Figure
  <2>. QED  BY <2>1, <2>2, <2>3 DEF ToSet
<1>2. ASSUME NEW c \in Figure PROVE \E n \in 0 .. 9 : Numerals[n + 1] = c
  BY <1>2 DEF Numerals, Figure
<1>3. \A c \in Figure : Worth[c] \in 0 .. 9
  BY <1>1, <1>2 DEF Worth
<1>. QED  BY <1>1, <1>3, Zenon DEF Worth, Digit, Figure

\* Which characters are digits, blanks or separators.
LEMMA CharKinds ==
    /\ \A c \in Figure : /\ c \notin NS \union EW \union Mark \union DateSep \union TimeSep
                         /\ c \notin Blank /\ c \notin {NUL, "\n", "-", ".", Space, Comma, "/"}
    /\ \A c \in NS : /\ c \notin EW \union DateSep \union TimeSep \union Blank \union Mark
                     /\ c \notin {NUL, "\n", "-", ".", Space, Comma, "/"}
    /\ \A c \in EW : /\ c \notin DateSep \union TimeSep \union Blank \union Mark
                     /\ c \notin {NUL, "\n", "-", ".", Space, Comma, "/"}
    /\ NUL \notin {"\n", "-", ".", Space, Comma, "/"} /\ NUL \notin Mark
    /\ \A c \in {NUL, "\n", "-", ".", Space, Comma, "/", ":"} : c \notin Figure
    /\ Comma \notin {"-", ".", "\n", Space, "/"} /\ Comma \notin Mark \union EW
    /\ Comma \notin Blank \union DateSep \union TimeSep
    /\ "-" \notin Mark \union Blank /\ "." \notin Mark \union Blank \union TimeSep
    /\ ":" \notin DateSep /\ \A c \in Blank : c \notin TimeSep \union Figure
BY Zenon DEF Figure, NS, EW, Mark, DateSep, TimeSep, Blank, NUL, Space, Comma

\* A number of up to three digits.
LEMMA NumberFacts ==
    ASSUME NEW s \in Seq(Figure), Len(s) <= 3
    PROVE  /\ Len(s) = 0 => Number(s) = 0
           /\ Len(s) = 2 => Number(s) = 10 * Worth[s[1]] + Worth[s[2]]
           /\ Len(s) = 3 => Number(s) = 100 * Worth[s[1]] + 10 * Worth[s[2]] + Worth[s[3]]
<1> DEFINE Of(n) == n = [i \in 0 .. Len(s) |->
                           IF i = 0 THEN 0 ELSE 10 * n[i - 1] + Worth[s[i]]]
<1> DEFINE g == [i \in 0 .. Len(s) |->
                    IF i = 0 THEN 0 ELSE IF i = 1 THEN Worth[s[1]]
                    ELSE IF i = 2 THEN 10 * Worth[s[1]] + Worth[s[2]]
                    ELSE 10 * (10 * Worth[s[1]] + Worth[s[2]]) + Worth[s[3]]]
<1>1. \A i \in 1 .. Len(s) : s[i] \in Figure /\ Worth[s[i]] \in 0 .. 9
  BY FigureFacts
<1>2. Of(g)
  <2>1. ASSUME NEW i \in 0 .. Len(s)
        PROVE  g[i] = IF i = 0 THEN 0 ELSE 10 * g[i - 1] + Worth[s[i]]
    <3>1. i \in {0, 1, 2, 3}
      OBVIOUS
    <3>2. CASE i = 0
      BY <3>2
    <3>3. CASE i = 1
      BY <1>1, <3>3
    <3>4. CASE i = 2
      BY <1>1, <3>4
    <3>5. CASE i = 3
      BY <1>1, <3>5
    <3>. QED  BY <3>1, <3>2, <3>3, <3>4, <3>5
  <2>2. g = [i \in 0 .. Len(s) |-> g[i]]
    OBVIOUS
  <2> HIDE DEF g
  <2>. QED  BY <2>1, <2>2
<1>3. PICK n : Of(n) /\ Number(s) = n[Len(s)]
  <2> HIDE DEF g
  <2>1. Of(CHOOSE n : Of(n))
    BY <1>2
  <2>2. Number(s) = (CHOOSE n : Of(n))[Len(s)]
    BY DEF Number
  <2>. QED  BY <2>1, <2>2
<1> HIDE DEF g
<1>4. \A i \in 0 .. Len(s) : n[i] = IF i = 0 THEN 0 ELSE 10 * n[i - 1] + Worth[s[i]]
  BY <1>3, Zenon
<1> HIDE DEF Of
<1>5. n[0] = 0
  <2>1. 0 \in 0 .. Len(s)
    OBVIOUS
  <2>. QED  BY <1>4, <2>1
<1>6. Len(s) > 0 => n[1] = Worth[s[1]]
  BY <1>1, <1>4, <1>5
<1>7. Len(s) > 1 => n[2] = 10 * Worth[s[1]] + Worth[s[2]]
  BY <1>1, <1>4, <1>6
<1>8. Len(s) > 2 => n[3] = 10 * (10 * Worth[s[1]] + Worth[s[2]]) + Worth[s[3]]
  BY <1>1, <1>4, <1>7
<1>9. Len(s) > 2 => n[3] = 100 * Worth[s[1]] + 10 * Worth[s[2]] + Worth[s[3]]
  <2> SUFFICES ASSUME Len(s) > 2
               PROVE  n[3] = 100 * Worth[s[1]] + 10 * Worth[s[2]] + Worth[s[3]]
    OBVIOUS
  <2>1. 1 \in 1 .. Len(s) /\ 2 \in 1 .. Len(s) /\ 3 \in 1 .. Len(s)
    OBVIOUS
  <2>2. PICK a \in 0 .. 9, b \in 0 .. 9, c \in 0 .. 9 :
            a = Worth[s[1]] /\ b = Worth[s[2]] /\ c = Worth[s[3]]
    BY <1>1, <2>1
  <2>3. n[3] = 10 * (10 * a + b) + c
    BY <1>8, <2>2
  <2>4. 10 * (10 * a + b) + c = 100 * a + 10 * b + c
    OBVIOUS
  <2>. QED  BY <2>2, <2>3, <2>4, Zenon
<1>. QED  BY <1>3, <1>5, <1>7, <1>9

\* The digits from p on.
LEMMA RunFacts ==
    ASSUME NEW t \in Seq(TextChar), NEW p \in Nat \ {0}, NEW r \in Nat,
           p - 1 <= r, r <= Len(t),
           \A q \in p .. r : t[q] \in Figure, CharAt(t, r + 1) \notin Figure
    PROVE  Run(t, p) = SubSeq(t, p, r)
<1> DEFINE S == {q \in p .. Len(t) + 1 : CharAt(t, q) \notin DOMAIN Worth} \union {p + Len(t)}
<1>1. S \in SUBSET Nat /\ r + 1 \in S /\ Len(t) \in Nat
  BY FigureFacts
<1>2. \A q \in S : r + 1 <= q
  <2> SUFFICES ASSUME NEW q \in S, q < r + 1 PROVE FALSE
    BY <1>1
  <2>1. CASE q = p + Len(t)
    BY <2>1, <1>1
  <2>2. CASE q # p + Len(t)
    <3>1. q \in p .. r /\ CharAt(t, q) \notin DOMAIN Worth
      BY <2>2, <1>1
    <3>2. CharAt(t, q) = t[q]
      BY <3>1, AtFacts
    <3>. QED  BY <3>1, <3>2, FigureFacts
  <2>. QED  BY <2>1, <2>2
<1>3. Min(S) \in S /\ \A q \in S : Min(S) <= q
  BY <1>1, MinFacts
<1>4. Min(S) = r + 1
  <2>1. Min(S) <= r + 1 /\ r + 1 <= Min(S) /\ Min(S) \in Nat
    BY <1>1, <1>2, <1>3
  <2>. QED  BY <2>1
<1>5. Run(t, p) = SubSeq(t, p, Min(S) - 1)
  BY DEF Run
<1> HIDE DEF S
<1>6. Min(S) - 1 = r
  BY <1>4
<1>. QED  BY <1>5, <1>6, Zenon

-----------------------------------------------------------------------------
\* What the forms of dates and times ask of a text.

LEMMA FormChars ==
    /\ DateForms[1].chars = <<{"2"}, {"0"}, Digit, Digit, DateSep, Digit, Digit, DateSep,
                              Digit, Digit, Blank>> /\ DateForms[1].seps = {5, 8}
    /\ DateForms[2].chars = <<{"2"}, {"0"}, Digit, Digit, DateSep, Digit, DateSep, Digit>>
    /\ DateForms[3].chars = <<Digit, Digit, DateSep, Digit, Digit, DateSep,
                              {"2"}, {"0"}, Digit, Digit>>
    /\ DateForms[4].chars[3] = DateSep /\ DateForms[4].chars[5] = DateSep
    /\ DateForms[5].chars = <<Digit, Digit, DateSep, Digit, Digit, DateSep, Digit, Digit,
                              Blank>> /\ DateForms[5].seps = {3, 6}
    /\ TimeForms[1].chars = <<Digit, Digit, TimeSep, Digit, Digit, TimeSep, Digit, Digit,
                              Blank>> /\ TimeForms[1].seps = {3, 6}
    /\ TimeForms[2].chars = <<Digit, Digit, TimeSep, Digit, Digit, Blank>>
       /\ TimeForms[2].seps = {3}
<1>1. /\ DateForms[1].chars = <<{"2"}, {"0"}, Digit, Digit, DateSep, Digit, Digit, DateSep,
                                Digit, Digit, Blank>> /\ DateForms[1].seps = {5, 8}
  BY DEF DateForms, Form, Year, Sep, Two, End
<1>2. DateForms[2].chars = <<{"2"}, {"0"}, Digit, Digit, DateSep, Digit, DateSep, Digit>>
  BY DEF DateForms, Form, Year, Sep, One
<1>3. DateForms[3].chars = <<Digit, Digit, DateSep, Digit, Digit, DateSep,
                             {"2"}, {"0"}, Digit, Digit>>
  BY DEF DateForms, Form, Year, Sep, Two
<1>4. DateForms[4].chars[3] = DateSep /\ DateForms[4].chars[5] = DateSep
  BY DEF DateForms, Form, Year, Sep, Two, One
<1>5. /\ DateForms[5].chars = <<Digit, Digit, DateSep, Digit, Digit, DateSep, Digit, Digit,
                                Blank>> /\ DateForms[5].seps = {3, 6}
  BY DEF DateForms, Form, Sep, Two, End
<1>6. /\ TimeForms[1].chars = <<Digit, Digit, TimeSep, Digit, Digit, TimeSep, Digit, Digit,
                                Blank>> /\ TimeForms[1].seps = {3, 6}
  BY DEF TimeForms, Form, Two, End
<1>7. /\ TimeForms[2].chars = <<Digit, Digit, TimeSep, Digit, Digit, Blank>>
      /\ TimeForms[2].seps = {3}
  BY DEF TimeForms, Form, Two, End
<1>. QED  BY <1>1, <1>2, <1>3, <1>4, <1>5, <1>6, <1>7

\* The place that character i of a form is compared with.
LEMMA MatchedAt ==
    ASSUME text \in Seq(TextChar), NEW p \in Nat \ {0}, NEW f, Matches(f, p),
           NEW n \in Nat, Len(f.chars) = n, DOMAIN f.chars = 1 .. n, NEW i \in 1 .. n
    PROVE  p + i - 1 \in 1 .. Len(text) /\ At(p + i - 1) \in f.chars[i]
<1>1. p + n - 1 <= Len(text) /\ text[p + i - 1] \in f.chars[i]
  BY DEF Matches
<1>2. p + i - 1 \in 1 .. Len(text)
  BY <1>1
<1>. QED  BY <1>1, <1>2, AtFacts DEF At

LEMMA DateNeeds ==
    ASSUME text \in Seq(TextChar), NEW p \in Nat \ {0}
    PROVE  /\ Matches(DateForms[1], p) => /\ At(p + 2) \in Digit /\ At(p + 4) \in DateSep
                                          /\ At(p + 6) \in Digit /\ At(p + 7) \in DateSep
           /\ Matches(DateForms[2], p) => /\ At(p + 2) \in Digit /\ At(p + 4) \in DateSep
                                          /\ At(p + 6) \in DateSep
           /\ Matches(DateForms[3], p) => /\ At(p + 2) \in DateSep /\ At(p + 5) \in DateSep
                                          /\ At(p + 8) \in Digit
           /\ Matches(DateForms[4], p) => At(p + 2) \in DateSep /\ At(p + 4) \in DateSep
           /\ Matches(DateForms[5], p) => /\ At(p + 2) \in DateSep /\ At(p + 5) \in DateSep
                                          /\ At(p + 8) \in Blank
<1>1. ASSUME Matches(DateForms[1], p)
      PROVE  \A i \in 1 .. 11 : At(p + i - 1) \in DateForms[1].chars[i]
  BY <1>1, MatchedAt, DateShapes DEF Shape
<1>2. ASSUME Matches(DateForms[2], p)
      PROVE  \A i \in 1 .. 8 : At(p + i - 1) \in DateForms[2].chars[i]
  BY <1>2, MatchedAt, DateShapes DEF Shape
<1>3. ASSUME Matches(DateForms[3], p)
      PROVE  \A i \in 1 .. 10 : At(p + i - 1) \in DateForms[3].chars[i]
  BY <1>3, MatchedAt, DateShapes DEF Shape
<1>4. ASSUME Matches(DateForms[4], p)
      PROVE  \A i \in 1 .. 10 : At(p + i - 1) \in DateForms[4].chars[i]
  BY <1>4, MatchedAt, DateShapes DEF Shape
<1>5. ASSUME Matches(DateForms[5], p)
      PROVE  \A i \in 1 .. 9 : At(p + i - 1) \in DateForms[5].chars[i]
  BY <1>5, MatchedAt, DateShapes DEF Shape
<1>6. /\ p + 3 - 1 = p + 2 /\ p + 5 - 1 = p + 4 /\ p + 6 - 1 = p + 5 /\ p + 7 - 1 = p + 6
      /\ p + 8 - 1 = p + 7 /\ p + 9 - 1 = p + 8
  OBVIOUS
<1>7. ASSUME Matches(DateForms[1], p)
      PROVE  /\ At(p + 2) \in Digit /\ At(p + 4) \in DateSep
             /\ At(p + 6) \in Digit /\ At(p + 7) \in DateSep
  BY <1>1, <1>6, <1>7, FormChars
<1>8. ASSUME Matches(DateForms[2], p)
      PROVE  At(p + 2) \in Digit /\ At(p + 4) \in DateSep /\ At(p + 6) \in DateSep
  BY <1>2, <1>6, <1>8, FormChars
<1>9. ASSUME Matches(DateForms[3], p)
      PROVE  At(p + 2) \in DateSep /\ At(p + 5) \in DateSep /\ At(p + 8) \in Digit
  BY <1>3, <1>6, <1>9, FormChars
<1>10. ASSUME Matches(DateForms[4], p)
       PROVE  At(p + 2) \in DateSep /\ At(p + 4) \in DateSep
  <2>1. At(p + 3 - 1) \in DateForms[4].chars[3] /\ At(p + 5 - 1) \in DateForms[4].chars[5]
    BY <1>4, <1>10
  <2>2. DateForms[4].chars[3] = DateSep /\ DateForms[4].chars[5] = DateSep
    BY FormChars
  <2>. QED  BY <1>6, <2>1, <2>2
<1>11. ASSUME Matches(DateForms[5], p)
       PROVE  At(p + 2) \in DateSep /\ At(p + 5) \in DateSep /\ At(p + 8) \in Blank
  BY <1>5, <1>6, <1>11, FormChars
<1>. QED  BY <1>7, <1>8, <1>9, <1>10, <1>11

LEMMA TimeNeeds ==
    ASSUME text \in Seq(TextChar), NEW p \in Nat \ {0}
    PROVE  /\ Matches(TimeForms[1], p) => /\ At(p) \in Digit /\ At(p + 2) \in TimeSep
                                          /\ At(p + 5) \in TimeSep /\ At(p + 8) \in Blank
           /\ Matches(TimeForms[2], p) => /\ At(p) \in Digit /\ At(p + 2) \in TimeSep
                                          /\ At(p + 5) \in Blank
<1>1. ASSUME Matches(TimeForms[1], p)
      PROVE  \A i \in 1 .. 9 : At(p + i - 1) \in TimeForms[1].chars[i]
  BY <1>1, MatchedAt, TimeShapes DEF Shape
<1>2. ASSUME Matches(TimeForms[2], p)
      PROVE  \A i \in 1 .. 6 : At(p + i - 1) \in TimeForms[2].chars[i]
  BY <1>2, MatchedAt, TimeShapes DEF Shape
<1>3. /\ p + 1 - 1 = p /\ p + 3 - 1 = p + 2 /\ p + 6 - 1 = p + 5 /\ p + 9 - 1 = p + 8
  OBVIOUS
<1>4. ASSUME Matches(TimeForms[1], p)
      PROVE  /\ At(p) \in Digit /\ At(p + 2) \in TimeSep
             /\ At(p + 5) \in TimeSep /\ At(p + 8) \in Blank
  BY <1>1, <1>3, <1>4, FormChars
<1>5. ASSUME Matches(TimeForms[2], p)
      PROVE  At(p) \in Digit /\ At(p + 2) \in TimeSep /\ At(p + 5) \in Blank
  BY <1>2, <1>3, <1>5, FormChars
<1>. QED  BY <1>4, <1>5

\* No date and no time begins at p.
LEMMA NoDateAt ==
    ASSUME NEW p, \A i \in 1 .. 5 : ~Matches(DateForms[i], p)
    PROVE  Skip(DateForms, p) = p
<1>1. {i \in DOMAIN DateForms : Matches(DateForms[i], p)} = {}
  BY DateShapes
<1>. QED  BY <1>1 DEF Skip

LEMMA NoTimeAt ==
    ASSUME NEW p, \A i \in {1, 2} : ~Matches(TimeForms[i], p)
    PROVE  Skip(TimeForms, p) = p
<1>1. PICK S : S = {i \in DOMAIN TimeForms : Matches(TimeForms[i], p)}
  OBVIOUS
<1>2. S = {}
  BY <1>1, TimeShapes
<1>. QED  BY <1>1, <1>2 DEF Skip

\* One date begins at p, or one time.
LEMMA OneStamp ==
    ASSUME text \in Seq(TextChar), NEW p \in Nat \ {0}
    PROVE  /\ \A i \in 1 .. 5 :
                 (Matches(DateForms[i], p)
                  /\ \A j \in 1 .. 5 : j # i => ~Matches(DateForms[j], p))
                 => Skip(DateForms, p) = p + DateForms[i].skip
           /\ \A i \in 1 .. 2 :
                 (Matches(TimeForms[i], p)
                  /\ \A j \in 1 .. 2 : j # i => ~Matches(TimeForms[j], p))
                 => Skip(TimeForms, p) = p + TimeForms[i].skip
<1>1. ASSUME NEW i \in 1 .. 5, Matches(DateForms[i], p),
             \A j \in 1 .. 5 : j # i => ~Matches(DateForms[j], p)
      PROVE  Skip(DateForms, p) = p + DateForms[i].skip
  <2>1. PICK S : S = {j \in DOMAIN DateForms : Matches(DateForms[j], p)}
    OBVIOUS
  <2>2. S = {i} /\ S \in SUBSET Nat
    BY <1>1, <2>1, DateShapes
  <2>3. Min(S) = i
    BY <2>2, MinFacts
  <2>4. Skip(DateForms, p) = p + DateForms[Min(S)].skip
    BY <2>1, <2>2 DEF Skip
  <2>. QED  BY <2>3, <2>4
<1>2. ASSUME NEW i \in 1 .. 2, Matches(TimeForms[i], p),
             \A j \in 1 .. 2 : j # i => ~Matches(TimeForms[j], p)
      PROVE  Skip(TimeForms, p) = p + TimeForms[i].skip
  <2>1. PICK S : S = {j \in DOMAIN TimeForms : Matches(TimeForms[j], p)}
    OBVIOUS
  <2>2. S = {i} /\ S \in SUBSET Nat
    BY <1>2, <2>1, TimeShapes
  <2>3. Min(S) = i
    BY <2>2, MinFacts
  <2>4. Skip(TimeForms, p) = p + TimeForms[Min(S)].skip
    BY <2>1, <2>2 DEF Skip
  <2>. QED  BY <2>3, <2>4
<1>. QED  BY <1>1, <1>2

-----------------------------------------------------------------------------
\* Numbers in a text.

LEMMA FiguresAre ==
    ASSUME NEW t \in Seq(TextChar), NEW p \in Nat \ {0}, NEW r \in Nat,
           p - 1 <= r, r <= Len(t), Figures(t, p, r)
    PROVE  /\ SubSeq(t, p, r) \in Seq(Figure) /\ Len(SubSeq(t, p, r)) = r + 1 - p
           /\ \A i \in 1 .. r + 1 - p : SubSeq(t, p, r)[i] = t[p + i - 1]
<1>1. \A q \in p .. r : t[q] \in Figure
  BY FigureFacts DEF Figures
<1>2. PICK s : s = SubSeq(t, p, r)
  OBVIOUS
<1>3. s \in Seq(TextChar) /\ Len(s) = r + 1 - p /\ \A i \in 1 .. r + 1 - p : s[i] = t[p + i - 1]
  BY <1>2
<1>4. \A i \in 1 .. Len(s) : s[i] \in Figure
  <2> SUFFICES ASSUME NEW i \in 1 .. Len(s) PROVE s[i] \in Figure
    OBVIOUS
  <2>1. i \in 1 .. r + 1 - p /\ p + i - 1 \in p .. r
    BY <1>3
  <2>. QED  BY <1>1, <1>3, <2>1
<1>5. s \in Seq(Figure)
  BY <1>3, <1>4
<1>. QED  BY <1>2, <1>3, <1>5

Below1000 == {m \in Nat : m < 1000}

Below100 == {m \in Nat : m < 100}

\* A number of two or three digits, as Number and atoi read it.
LEMMA NumberAt ==
    ASSUME NEW t \in Seq(TextChar), NEW p \in Nat \ {0}, NEW n \in {2, 3},
           p + n - 1 <= Len(t), Figures(t, p, p + n - 1)
    PROVE  /\ Number(SubSeq(t, p, p + n - 1)) = Degrees(t, p, n)
           /\ Degrees(t, p, n) \in Below1000 /\ (n = 2 => Degrees(t, p, n) \in Below100)
           /\ CharAt(t, p + n) \notin Figure => atoi(t, p) = Degrees(t, p, n)
<1>1. PICK r \in Nat : r = p + n - 1
  OBVIOUS
<1>2. p - 1 <= r /\ r + 1 - p = n /\ r + 1 = p + n /\ r <= Len(t) /\ Figures(t, p, r)
  BY <1>1
<1>3. PICK s : s = SubSeq(t, p, r)
  OBVIOUS
<1>4. s \in Seq(Figure) /\ Len(s) = r + 1 - p /\ \A i \in 1 .. r + 1 - p : s[i] = t[p + i - 1]
  BY <1>2, <1>3, FiguresAre
<1>5. Len(s) = n /\ Len(s) <= 3 /\ \A i \in 1 .. n : s[i] = t[p + i - 1] /\ Worth[s[i]] \in 0 .. 9
  <2>1. \A i \in 1 .. Len(s) : s[i] \in Figure
    BY <1>4
  <2>. QED  BY <1>2, <1>4, <2>1, FigureFacts
<1>6. ASSUME n = 2
      PROVE  Number(s) = Degrees(t, p, n) /\ Degrees(t, p, n) \in Below100
  <2>1. 1 \in 1 .. n /\ 2 \in 1 .. n /\ p + 1 - 1 = p /\ p + 2 - 1 = p + 1
    BY <1>6
  <2>2. /\ s[1] = t[p] /\ s[2] = t[p + 1]
        /\ Worth[s[1]] \in 0 .. 9 /\ Worth[s[2]] \in 0 .. 9
    BY <1>5, <2>1
  <2>3. Len(s) = 2
    BY <1>5, <1>6
  <2>4. Number(s) = 10 * Worth[s[1]] + Worth[s[2]]
    BY <1>4, <1>5, <2>3, NumberFacts
  <2>5. Degrees(t, p, n) = 10 * Worth[s[1]] + Worth[s[2]]
    BY <1>6, <2>2 DEF Degrees, Pair
  <2>6. \A a, b \in 0 .. 9 : 10 * a + b \in Below100
    BY DEF Below100
  <2>. QED  BY <2>2, <2>4, <2>5, <2>6
<1>7. ASSUME n = 3
      PROVE  Number(s) = Degrees(t, p, n) /\ Degrees(t, p, n) \in Below1000
  <2>1. /\ 1 \in 1 .. n /\ 2 \in 1 .. n /\ 3 \in 1 .. n
        /\ p + 1 - 1 = p /\ p + 2 - 1 = p + 1 /\ p + 3 - 1 = p + 1 + 1
    BY <1>7
  <2>2. /\ s[1] = t[p] /\ s[2] = t[p + 1] /\ s[3] = t[p + 1 + 1]
        /\ Worth[s[1]] \in 0 .. 9 /\ Worth[s[2]] \in 0 .. 9 /\ Worth[s[3]] \in 0 .. 9
    BY <1>5, <2>1
  <2>3. Len(s) = 3
    BY <1>5, <1>7
  <2>4. Number(s) = 100 * Worth[s[1]] + 10 * Worth[s[2]] + Worth[s[3]]
    BY <1>4, <1>5, <2>3, NumberFacts, Zenon
  <2>5. Degrees(t, p, n) = 100 * Worth[s[1]] + (10 * Worth[s[2]] + Worth[s[3]])
    BY <1>7, <2>2 DEF Degrees, Pair
  <2>6. PICK a \in 0 .. 9, b \in 0 .. 9, c \in 0 .. 9 :
            a = Worth[s[1]] /\ b = Worth[s[2]] /\ c = Worth[s[3]]
    BY <2>2
  <2>7. /\ 100 * a + 10 * b + c = 100 * a + (10 * b + c)
        /\ 100 * a + 10 * b + c \in Below1000
    BY DEF Below1000
  <2>8. Number(s) = 100 * a + 10 * b + c /\ Degrees(t, p, n) = 100 * a + (10 * b + c)
    BY <2>4, <2>5, <2>6, Zenon
  <2>9. PICK d \in Below1000 : d = 100 * a + 10 * b + c
    BY <2>7
  <2>10. Number(s) = d /\ Degrees(t, p, n) = d
    BY <2>7, <2>8, <2>9
  <2>. QED  BY <2>10
<1>8. Number(s) = Degrees(t, p, n) /\ Degrees(t, p, n) \in Below1000
      /\ (n = 2 => Degrees(t, p, n) \in Below100)
  <2>1. Below100 \subseteq Below1000
    BY DEF Below100, Below1000
  <2>2. CASE n = 2
    BY <1>6, <2>1, <2>2
  <2>3. CASE n = 3
    BY <1>7, <2>3
  <2>. QED  BY <2>2, <2>3
<1>9. CharAt(t, p + n) \notin Figure => atoi(t, p) = Number(s)
  <2>1. \A q \in p .. r : t[q] \in Figure
    BY <1>2, FigureFacts DEF Figures
  <2>2. CharAt(t, r + 1) \notin Figure => Run(t, p) = s
    BY <1>2, <1>3, <2>1, RunFacts
  <2>. QED  BY <1>2, <2>2 DEF atoi
<1>. QED  BY <1>1, <1>3, <1>8, <1>9

\* What is behind the point, as atof cuts it to thousandths.
LEMMA ThousandthsAre ==
    ASSUME NEW t \in Seq(TextChar), NEW p \in Nat \ {0}, NEW r \in Nat,
           p - 1 <= r, r <= Len(t), Figures(t, p, r)
    PROVE  /\ Number(SubSeq(SubSeq(t, p, r) \o <<"0", "0", "0">>, 1, 3)) = Thousandths(t, p, r)
           /\ Thousandths(t, p, r) \in Below1000
<1>1. PICK u, d, s : /\ u = SubSeq(t, p, r) /\ d = u \o <<"0", "0", "0">>
                     /\ s = SubSeq(d, 1, 3)
  OBVIOUS
<1>2. u \in Seq(Figure)
  BY <1>1, FiguresAre
<1>3. <<"0", "0", "0">> \in Seq(Figure) /\ Len(<<"0", "0", "0">>) = 3
  BY DEF Figure
<1>4. d \in Seq(Figure) /\ Len(d) = Len(u) + 3 /\ Len(u) \in Nat
  BY <1>1, <1>2, <1>3
<1>5. s \in Seq(Figure) /\ Len(s) = 3 /\ s[1] = d[1] /\ s[2] = d[2] /\ s[3] = d[3]
  BY <1>1, <1>4
<1>6. Worth[s[1]] \in 0 .. 9 /\ Worth[s[2]] \in 0 .. 9 /\ Worth[s[3]] \in 0 .. 9
  <2>1. 1 \in 1 .. Len(s) /\ 2 \in 1 .. Len(s) /\ 3 \in 1 .. Len(s)
    BY <1>5
  <2>2. s \in Seq(Figure)
    BY <1>5
  <2>3. s[1] \in Figure /\ s[2] \in Figure /\ s[3] \in Figure
    BY <2>1, <2>2
  <2>. QED  BY <2>3, FigureFacts
<1>7. Number(s) = 100 * Worth[s[1]] + 10 * Worth[s[2]] + Worth[s[3]]
  <2>1. s \in Seq(Figure) /\ Len(s) <= 3 /\ Len(s) = 3
    BY <1>5
  <2>. QED  BY <2>1, NumberFacts
<1>8. Thousandths(t, p, r) = 100 * Worth[d[1]] + 10 * Worth[d[2]] + Worth[d[3]]
  BY <1>1, Zenon DEF Thousandths
<1>9. PICK a \in 0 .. 9, b \in 0 .. 9, c \in 0 .. 9 :
          a = Worth[s[1]] /\ b = Worth[s[2]] /\ c = Worth[s[3]]
  BY <1>6
<1>10. PICK m \in Below1000 : m = 100 * a + 10 * b + c
  BY DEF Below1000
<1>11. Number(s) = 100 * a + 10 * b + c /\ Thousandths(t, p, r) = 100 * a + 10 * b + c
  BY <1>5, <1>7, <1>8, <1>9, Zenon
<1>12. Number(s) = m /\ Thousandths(t, p, r) = m /\ m \in Below1000
  BY <1>10, <1>11
<1>. QED  BY <1>1, <1>12

\* An exponent of no digits is none.
Small == {m \in Nat : m < 1000000}

LEMMA ScaledByNone == ASSUME NEW m \in Small PROVE Scaled(m, 0) = m
<1>1. Min({0, 9}) = 0
  BY MinFacts
<1>2. 10 ^ 0 = 1
  OBVIOUS
<1>3. Huge \div 1 = Huge
  BY SMT DEF Huge
<1>4. ~(m > Huge)
  BY SMT DEF Huge, Small
<1>6. m * 1 = m
  BY SMT DEF Small
<1>5. ~(0 < 0)
  OBVIOUS
<1>. QED  BY <1>1, <1>2, <1>3, <1>4, <1>5, <1>6, Zenon DEF Scaled

\* atof of minutes with or without a point that end at e.
LEMMA AtofFacts ==
    ASSUME NEW t \in Seq(TextChar), NEW p \in Nat \ {0}, NEW n \in {2, 3}, NEW e \in Nat,
           p + n - 1 <= Len(t), Figures(t, p, p + n - 1), CharAt(t, e) \notin Figure,
           \/ e = p + n /\ CharAt(t, e) # "."
           \/ /\ p + n + 1 <= e /\ e <= Len(t) + 1 /\ CharAt(t, p + n) = "."
              /\ Figures(t, p + n + 1, e - 1),
           CharAt(t, e) = "E" => CharAt(t, e + 1) \notin Figure \union {"-"}
    PROVE  atof(t, p) = 1000 * Degrees(t, p, n) + Thousandths(t, p + n + 1, e - 1)
<1>0. Len(t) \in Nat
  OBVIOUS
<1> DEFINE whole == Run(t, p)
           dot == p + Len(whole)
           part == IF CharAt(t, dot) = "." THEN Run(t, dot + 1) ELSE <<>>
           x == IF CharAt(t, dot) = "." THEN dot + 1 + Len(part) ELSE dot
           m == 1000 * Number(whole)
                + Number(SubSeq(part \o <<"0", "0", "0">>, 1, 3))
           power == IF CharAt(t, x + 1) = "-" THEN -atoi(t, x + 2) ELSE atoi(t, x + 1)
<1>1. atof(t, p) = IF CharAt(t, x) # "E" THEN m ELSE Scaled(m, power)
  BY DEF atof
<1>2. whole = SubSeq(t, p, p + n - 1) /\ Len(whole) = n
  <2>1. PICK r \in Nat : r = p + n - 1
    OBVIOUS
  <2>2. p - 1 <= r /\ r <= Len(t) /\ r + 1 - p = n /\ r + 1 = p + n /\ Figures(t, p, r)
    BY <2>1
  <2>3. \A q \in p .. r : t[q] \in Figure
    BY <2>2, FigureFacts DEF Figures
  <2>4. CharAt(t, r + 1) \notin Figure
    BY <2>2, CharKinds
  <2>5. Run(t, p) = SubSeq(t, p, r)
    BY <2>2, <2>3, <2>4, RunFacts
  <2>6. Len(SubSeq(t, p, r)) = r + 1 - p
    BY <2>2, FiguresAre
  <2>. QED  BY <2>1, <2>2, <2>5, <2>6
<1>3. dot = p + n
  BY <1>2
<1> HIDE DEF whole, dot
<1>4. Number(whole) = Degrees(t, p, n) /\ Degrees(t, p, n) \in Below1000
  <2>1. Number(SubSeq(t, p, p + n - 1)) = Degrees(t, p, n)
    BY NumberAt
  <2>2. Degrees(t, p, n) \in Below1000
    BY NumberAt
  <2>. QED  BY <1>2, <2>1, <2>2
<1>5. x = e /\ part = SubSeq(t, p + n + 1, e - 1)
  <2>1. CASE e = p + n /\ CharAt(t, e) # "."
    <3>1. SubSeq(t, p + n + 1, e - 1) = <<>>
      BY <2>1
    <3>. QED  BY <1>3, <2>1, <3>1
  <2>2. CASE /\ p + n + 1 <= e /\ e <= Len(t) + 1 /\ CharAt(t, p + n) = "."
             /\ Figures(t, p + n + 1, e - 1)
    <3>1. PICK q \in Nat \ {0}, r \in Nat : q = p + n + 1 /\ r = e - 1
      BY <2>2
    <3>2. q - 1 <= r /\ r <= Len(t) /\ Figures(t, q, r) /\ r + 1 = e
      BY <1>0, <2>2, <3>1
    <3>3. \A i \in q .. r : t[i] \in Figure
      BY <3>2, FigureFacts DEF Figures
    <3>4. Run(t, q) = SubSeq(t, q, r) /\ Len(SubSeq(t, q, r)) = r + 1 - q
      BY <3>2, <3>3, RunFacts, FiguresAre
    <3>5. part = Run(t, q) /\ x = q + Len(Run(t, q))
      BY <1>3, <2>2, <3>1
    <3> HIDE DEF x, part
    <3>6. x = q + (r + 1 - q) /\ q + (r + 1 - q) = e
      <4>1. q + (r + 1 - q) = e
        BY <3>2
      <4>. QED  BY <3>4, <3>5, <4>1
    <3>7. part = SubSeq(t, p + n + 1, e - 1)
      BY <3>1, <3>4, <3>5
    <3>. QED  BY <3>6, <3>7
  <2>3. \/ e = p + n /\ CharAt(t, e) # "."
        \/ /\ p + n + 1 <= e /\ e <= Len(t) + 1 /\ CharAt(t, p + n) = "."
           /\ Figures(t, p + n + 1, e - 1)
    OBVIOUS
  <2> HIDE DEF x, part
  <2>. QED  BY <2>1, <2>2, <2>3, Zenon
<1> HIDE DEF x, part, power
<1>6. /\ Number(SubSeq(part \o <<"0", "0", "0">>, 1, 3)) = Thousandths(t, p + n + 1, e - 1)
      /\ Thousandths(t, p + n + 1, e - 1) \in Below1000
  <2>1. PICK q \in Nat \ {0}, r \in Nat : q = p + n + 1 /\ r = e - 1
    OBVIOUS
  <2>2. CASE e = p + n
    <3>1. SubSeq(t, q, r) = SubSeq(t, p, p - 1) /\ SubSeq(t, q, r) = <<>>
      BY <2>1, <2>2
    <3>2. Figures(t, p, p - 1) /\ p - 1 \in Nat /\ p - 1 <= Len(t)
      BY <1>0 DEF Figures
    <3>3. Thousandths(t, q, r) = Thousandths(t, p, p - 1)
      BY <3>1, Zenon DEF Thousandths
    <3>4. /\ Number(SubSeq(SubSeq(t, p, p - 1) \o <<"0", "0", "0">>, 1, 3))
             = Thousandths(t, p, p - 1)
          /\ Thousandths(t, p, p - 1) \in Below1000
      BY <3>2, ThousandthsAre
    <3>. QED  BY <1>5, <2>1, <3>1, <3>3, <3>4
  <2>3. CASE e # p + n
    <3>1. q - 1 <= r /\ r <= Len(t) /\ Figures(t, q, r)
      BY <1>0, <2>1, <2>3
    <3>. QED  BY <1>5, <2>1, <3>1, ThousandthsAre
  <2>. QED  BY <2>2, <2>3
<1>7. m = 1000 * Degrees(t, p, n) + Thousandths(t, p + n + 1, e - 1) /\ m \in Small
  <2>1. PICK a \in Below1000, b \in Below1000 :
            a = Degrees(t, p, n) /\ b = Thousandths(t, p + n + 1, e - 1)
    BY <1>4, <1>6
  <2>2. m = 1000 * Number(whole) + Number(SubSeq(part \o <<"0", "0", "0">>, 1, 3))
    OBVIOUS
  <2> HIDE DEF m
  <2>3. m = 1000 * a + b
    BY <1>4, <1>6, <2>1, <2>2
  <2>4. 1000 * a + b \in Small
    BY SMT DEF Small, Below1000
  <2>. QED  BY <2>1, <2>3, <2>4
<1> HIDE DEF m
<1>8. CharAt(t, e) = "E" => power = 0
  <2> SUFFICES ASSUME CharAt(t, e) = "E" PROVE atoi(t, e + 1) = 0
    BY <1>5 DEF power
  <2>1. e \in 1 .. Len(t)
    <3>1. "E" # NUL
      BY Zenon DEF NUL
    <3>. QED  BY <1>0, <3>1, AtFacts
  <2>2. Run(t, e + 1) = SubSeq(t, e + 1, e)
    <3>1. \A q \in e + 1 .. e : t[q] \in Figure
      OBVIOUS
    <3>2. e + 1 \in Nat \ {0} /\ e + 1 - 1 <= e /\ e <= Len(t)
      BY <2>1
    <3>. QED  BY <3>1, <3>2, RunFacts
  <2>3. PICK s : s = SubSeq(t, e + 1, e)
    OBVIOUS
  <2>4. s \in Seq(Figure) /\ Len(s) = 0 /\ Len(s) <= 3
    BY <2>1, <2>3
  <2>5. Number(s) = 0
    BY <2>4, NumberFacts
  <2>. QED  BY <2>2, <2>3, <2>5 DEF atoi
<1>. QED  BY <1>1, <1>5, <1>7, <1>8, ScaledByNone

-----------------------------------------------------------------------------
\* What is written of a coordinate in a piece stands in the text.

\* Behind place b of the text stands c, from its character p on.
Shows(b, p, c) ==
    /\ b + Len(c) <= Len(text)
    /\ \A q \in p .. Len(c) : text[b + q] = c[q]

LEMMA SameSeq ==
    ASSUME NEW S, NEW T, NEW u \in Seq(S), NEW v \in Seq(T), NEW n \in Nat,
           Len(u) = n, Len(v) = n, Alike(u, v, n)
    PROVE  u = v
<1>1. DOMAIN u = 1 .. n /\ DOMAIN v = 1 .. n /\ \A i \in 1 .. n : u[i] = v[i]
  BY DEF Alike
<1>2. u = [i \in 1 .. n |-> u[i]] /\ v = [i \in 1 .. n |-> v[i]]
  BY <1>1
<1>. QED  BY <1>1, <1>2

LEMMA FiguresMoved ==
    ASSUME NEW c \in Seq(Char), NEW b \in Nat, NEW p \in Nat \ {0}, Shows(b, p, c),
           NEW q \in Nat, p <= q, NEW s \in Int, s <= Len(c), Figures(c, q, s)
    PROVE  Figures(text, b + q, b + s)
<1> SUFFICES ASSUME NEW i \in b + q .. b + s PROVE text[i] \in Digit
  BY DEF Figures
<1>1. PICK j \in Int : j = i - b
  OBVIOUS
<1>2. j \in q .. s /\ j \in p .. Len(c) /\ b + j = i
  BY <1>1
<1>3. text[b + j] = c[j] /\ c[j] \in Digit
  BY <1>2 DEF Shows, Figures
<1>. QED  BY <1>2, <1>3

LEMMA PairMoved ==
    ASSUME NEW c \in Seq(Char), NEW b \in Nat, NEW p \in Nat \ {0}, Shows(b, p, c),
           NEW q \in Nat, p <= q, q + 1 <= Len(c)
    PROVE  Pair(text, b + q) = Pair(c, q)
<1>1. q \in p .. Len(c) /\ q + 1 \in p .. Len(c) /\ b + (q + 1) = b + q + 1
  OBVIOUS
<1>2. text[b + q] = c[q] /\ text[b + q + 1] = c[q + 1]
  BY <1>1 DEF Shows
<1>. QED  BY <1>2, Zenon DEF Pair

LEMMA DegreesMoved ==
    ASSUME NEW c \in Seq(Char), NEW b \in Nat, NEW p \in Nat \ {0}, Shows(b, p, c),
           NEW n \in {2, 3}, p + n - 1 <= Len(c)
    PROVE  Degrees(text, b + p, n) = Degrees(c, p, n)
<1>1. CASE n = 2
  <2>1. p + 1 <= Len(c)
    BY <1>1
  <2>2. Pair(text, b + p) = Pair(c, p)
    BY <2>1, PairMoved
  <2>. QED  BY <1>1, <2>2 DEF Degrees
<1>2. CASE n = 3
  <2>1. PICK q \in Nat : q = p + 1
    OBVIOUS
  <2>2. p <= q /\ q + 1 <= Len(c) /\ p \in p .. Len(c)
    BY <1>2, <2>1
  <2>3. Pair(text, b + q) = Pair(c, q) /\ b + q = b + p + 1
    BY <2>1, <2>2, PairMoved
  <2>4. text[b + p] = c[p]
    BY <2>2 DEF Shows
  <2>5. n # 2
    BY <1>2
  <2>. QED  BY <2>1, <2>3, <2>4, <2>5, Zenon DEF Degrees
<1>. QED  BY <1>1, <1>2

LEMMA MinutesMoved ==
    ASSUME NEW c \in Seq(Char), text \in Seq(TextChar),
           NEW b \in Nat, NEW p \in Nat \ {0}, Shows(b, p, c),
           NEW q \in Nat, p <= q, NEW e \in Int, q + 2 <= e + 1, e <= Len(c)
    PROVE  Minutes(text, b + q, b + e) = Minutes(c, q, e)
<1>0. Len(c) \in Nat /\ Len(text) \in Nat /\ b + Len(c) <= Len(text)
  BY DEF Shows
<1>1. Pair(text, b + q) = Pair(c, q)
  BY PairMoved
<1>2. SubSeq(text, b + q + 3, b + e) = SubSeq(c, q + 3, e)
  <2>1. ASSUME NEW i \in 1 .. (e - (q + 3) + 1)
        PROVE  text[b + q + 3 + i - 1] = c[q + 3 + i - 1]
    <3>1. PICK j \in Int : j = q + 3 + i - 1
      OBVIOUS
    <3>2. j \in p .. Len(c) /\ b + j = b + q + 3 + i - 1
      BY <3>1, <1>0
    <3>3. text[b + j] = c[j]
      BY <3>2 DEF Shows
    <3>. QED  BY <3>1, <3>2, <3>3
  <2>2. PICK n \in Int : n = e - (q + 3) + 1
    OBVIOUS
  <2>3. b + e - (b + q + 3) + 1 = n
    BY <2>2
  <2>4. CASE n <= 0
    <3>1. SubSeq(text, b + q + 3, b + e) = <<>> /\ SubSeq(c, q + 3, e) = <<>>
      BY <1>0, <2>2, <2>3, <2>4
    <3>. QED  BY <3>1
  <2>5. CASE n > 0
    <3>1. /\ SubSeq(c, q + 3, e) \in Seq(Char) /\ Len(SubSeq(c, q + 3, e)) = n
          /\ \A i \in 1 .. n : SubSeq(c, q + 3, e)[i] = c[q + 3 + i - 1]
      BY <1>0, <2>2, <2>5
    <3>2. /\ SubSeq(text, b + q + 3, b + e) \in Seq(TextChar)
          /\ Len(SubSeq(text, b + q + 3, b + e)) = n
          /\ \A i \in 1 .. n : SubSeq(text, b + q + 3, b + e)[i] = text[b + q + 3 + i - 1]
      BY <1>0, <2>3, <2>2, <2>5
    <3>3. PICK u, v : u = SubSeq(text, b + q + 3, b + e) /\ v = SubSeq(c, q + 3, e)
      OBVIOUS
    <3>4. u \in Seq(TextChar) /\ v \in Seq(Char) /\ Len(u) = n /\ Len(v) = n /\ n \in Nat
      <4>1. n \in Nat
        BY <2>2, <2>5
      <4>. QED  BY <3>1, <3>2, <3>3, <4>1, Zenon
    <3>5. Alike(u, v, n)
      BY <2>1, <2>2, <3>1, <3>2, <3>3 DEF Alike
    <3>6. u = v
      BY <3>4, <3>5, SameSeq
    <3>. QED  BY <3>3, <3>6
  <2>6. n <= 0 \/ n > 0
    OBVIOUS
  <2>. QED  BY <2>4, <2>5, <2>6, Zenon
<1>3. Thousandths(text, b + q + 3, b + e) = Thousandths(c, q + 3, e)
  BY <1>2, Zenon DEF Thousandths
<1>. QED  BY <1>1, <1>3 DEF Minutes

LEMMA DmsMoved ==
    ASSUME NEW c \in Seq(Char), text \in Seq(TextChar),
           NEW b \in Nat, NEW p \in Nat \ {0}, Shows(b, p, c), NEW n \in {2, 3},
           NEW r \in Nat, r <= Len(c), NEW H, NEW neg, Coordinate("dms", c, p, n, r, H)
    PROVE  /\ Coordinate("dms", text, b + p, n, b + r, H)
           /\ Meaning("dms", text, b + p, n, b + r, neg) = Meaning("dms", c, p, n, r, neg)
<1>1. /\ Figures(c, p, p + n - 1) /\ c[r] \in H /\ r = p + n + 6
      /\ c[p + n] = "-" /\ Figures(c, p + n + 1, p + n + 2)
      /\ c[p + n + 3] = "-" /\ Figures(c, p + n + 4, p + n + 5)
  BY DEF Coordinate
<1>2. PICK q \in Nat : q = p + n
  OBVIOUS
<1>3. /\ q + 6 = r /\ p <= q /\ q \in Nat /\ r \in p .. Len(c) /\ b + r = b + p + n + 6
      /\ q + 6 <= Len(c)
  BY <1>1, <1>2
<1>4. /\ b + q = b + p + n
      /\ b + (q + 1) = b + p + n + 1 /\ b + (q + 2) = b + p + n + 2
      /\ b + (q + 3) = b + p + n + 3 /\ b + (q + 4) = b + p + n + 4
      /\ b + (q + 5) = b + p + n + 5 /\ b + (p + n - 1) = b + p + n - 1
  BY <1>2
<1>5. text[b + r] = c[r] /\ text[b + q] = c[q] /\ text[b + (q + 3)] = c[q + 3]
  <2>1. q \in p .. Len(c) /\ q + 3 \in p .. Len(c)
    BY <1>3
  <2>. QED  BY <1>3, <2>1 DEF Shows
<1>6. Figures(text, b + p, b + (p + n - 1))
  <2>1. PICK s \in Int : s = p + n - 1
    OBVIOUS
  <2>2. p \in Nat /\ s <= Len(c) /\ Figures(c, p, s)
    BY <1>1, <1>2, <1>3, <2>1
  <2>. QED  BY <2>1, <2>2, FiguresMoved
<1>7. Figures(text, b + (q + 1), b + (q + 2))
  <2>1. PICK u \in Nat, s \in Int : u = q + 1 /\ s = q + 2
    BY <1>3
  <2>2. p <= u /\ s <= Len(c) /\ Figures(c, u, s)
    BY <1>1, <1>2, <1>3, <2>1
  <2>. QED  BY <2>1, <2>2, FiguresMoved
<1>8. Figures(text, b + (q + 4), b + (q + 5))
  <2>1. PICK u \in Nat, s \in Int : u = q + 4 /\ s = q + 5
    BY <1>3
  <2>2. p <= u /\ s <= Len(c) /\ Figures(c, u, s)
    BY <1>1, <1>2, <1>3, <2>1
  <2>. QED  BY <2>1, <2>2, FiguresMoved
<1>9. Degrees(text, b + p, n) = Degrees(c, p, n)
  <2>1. p + n - 1 <= Len(c)
    BY <1>2, <1>3
  <2>. QED  BY <2>1, DegreesMoved
<1>10. Pair(text, b + (q + 1)) = Pair(c, q + 1) /\ Pair(text, b + (q + 4)) = Pair(c, q + 4)
  <2>1. PICK u \in Nat, s \in Nat : u = q + 1 /\ s = q + 4
    BY <1>3
  <2>2. p <= u /\ p <= s /\ u + 1 <= Len(c) /\ s + 1 <= Len(c)
    BY <1>3, <2>1
  <2>3. Pair(text, b + u) = Pair(c, u) /\ Pair(text, b + s) = Pair(c, s)
    BY <2>2, PairMoved
  <2>. QED  BY <2>1, <2>3
<1>11. Coordinate("dms", text, b + p, n, b + r, H)
  <2>1. /\ Figures(text, b + p, b + p + n - 1) /\ text[b + r] \in H
        /\ text[b + p + n] = "-" /\ Figures(text, b + p + n + 1, b + p + n + 2)
        /\ text[b + p + n + 3] = "-" /\ Figures(text, b + p + n + 4, b + p + n + 5)
    BY <1>1, <1>2, <1>4, <1>5, <1>6, <1>7, <1>8
  <2>. QED  BY <1>3, <2>1, Zenon DEF Coordinate
<1>12. Meaning("dms", text, b + p, n, b + r, neg) = Meaning("dms", c, p, n, r, neg)
  <2>1. /\ Pair(text, b + p + n + 1) = Pair(c, p + n + 1)
        /\ Pair(text, b + p + n + 4) = Pair(c, p + n + 4)
    BY <1>2, <1>4, <1>10
  <2>. QED  BY <1>5, <1>9, <2>1 DEF Meaning
<1>. QED  BY <1>11, <1>12

\* The minutes at q, up to the hemisphere at r.
LEMMA MeaningMoved ==
    ASSUME NEW c \in Seq(Char), text \in Seq(TextChar),
           NEW b \in Nat, NEW p \in Nat \ {0}, Shows(b, p, c), NEW n \in {2, 3},
           NEW r \in Nat, r <= Len(c), NEW neg,
           NEW form, form # "dms",
           NEW q \in Nat, q = (IF form = "minutes" THEN p + n + 1 ELSE p + n), q + 2 <= r
    PROVE  Meaning(form, text, b + p, n, b + r, neg) = Meaning(form, c, p, n, r, neg)
<1>1. p <= q /\ p + n - 1 <= Len(c) /\ r \in p .. Len(c)
  OBVIOUS
<1>2. PICK e \in Int : e = r - 1
  OBVIOUS
<1>3. q + 2 <= e + 1 /\ e <= Len(c) /\ b + e = b + r - 1
  BY <1>2
<1>4. Minutes(text, b + q, b + e) = Minutes(c, q, e)
  BY <1>1, <1>3, MinutesMoved
<1>5. Degrees(text, b + p, n) = Degrees(c, p, n)
  BY <1>1, DegreesMoved
<1>6. text[b + r] = c[r]
  BY <1>1 DEF Shows
<1>7. /\ q = (IF form = "minutes" THEN p + n + 1 ELSE p + n)
      /\ b + q = (IF form = "minutes" THEN b + p + n + 1 ELSE b + p + n)
  OBVIOUS
<1>9. Minutes(text, IF form = "minutes" THEN b + p + n + 1 ELSE b + p + n, b + r - 1)
      = Minutes(c, IF form = "minutes" THEN p + n + 1 ELSE p + n, r - 1)
  <2>1. Minutes(text, b + q, b + r - 1) = Minutes(c, q, r - 1)
    BY <1>2, <1>3, <1>4
  <2>. QED  BY <1>7, <2>1, Zenon
<1>. QED  BY <1>5, <1>6, <1>9 DEF Meaning

LEMMA MinutesFormMoved ==
    ASSUME NEW c \in Seq(Char), text \in Seq(TextChar),
           NEW b \in Nat, NEW p \in Nat \ {0}, Shows(b, p, c), NEW n \in {2, 3},
           NEW r \in Nat, r <= Len(c), NEW H, NEW neg, Coordinate("minutes", c, p, n, r, H)
    PROVE  /\ Coordinate("minutes", text, b + p, n, b + r, H)
           /\ Meaning("minutes", text, b + p, n, b + r, neg) = Meaning("minutes", c, p, n, r, neg)
<1>1. /\ Figures(c, p, p + n - 1) /\ c[r] \in H
      /\ c[p + n] = "-" /\ Figures(c, p + n + 1, p + n + 2)
      /\ \/ r = p + n + 3
         \/ r > p + n + 4 /\ c[p + n + 3] = Comma /\ Figures(c, p + n + 4, r - 1)
  BY DEF Coordinate
<1>2. PICK q \in Nat : q = p + n
  OBVIOUS
<1>3. p <= q /\ r \in p .. Len(c) /\ q + 3 <= Len(c) /\ q + 3 <= r
  BY <1>1, <1>2
<1>4. /\ b + q = b + p + n /\ b + (q + 1) = b + p + n + 1 /\ b + (q + 2) = b + p + n + 2
      /\ b + (q + 3) = b + p + n + 3 /\ b + (q + 4) = b + p + n + 4
      /\ b + (p + n - 1) = b + p + n - 1 /\ b + (r - 1) = b + r - 1
  BY <1>2
<1>5. text[b + r] = c[r] /\ text[b + q] = c[q] /\ text[b + (q + 3)] = c[q + 3]
  <2>1. q \in p .. Len(c) /\ q + 3 \in p .. Len(c)
    BY <1>3
  <2>. QED  BY <1>3, <2>1 DEF Shows
<1>6. Figures(text, b + p, b + (p + n - 1))
  <2>1. PICK s \in Int : s = p + n - 1
    OBVIOUS
  <2>2. p \in Nat /\ s <= Len(c) /\ Figures(c, p, s)
    BY <1>1, <1>2, <1>3, <2>1
  <2>. QED  BY <2>1, <2>2, FiguresMoved
<1>7. Figures(text, b + (q + 1), b + (q + 2))
  <2>1. PICK u \in Nat, s \in Int : u = q + 1 /\ s = q + 2
    BY <1>3
  <2>2. p <= u /\ s <= Len(c) /\ Figures(c, u, s)
    BY <1>1, <1>2, <1>3, <2>1
  <2>. QED  BY <2>1, <2>2, FiguresMoved
<1>8. ASSUME Figures(c, p + n + 4, r - 1)
      PROVE  Figures(text, b + p + n + 4, b + r - 1)
  <2>1. PICK u \in Nat, s \in Int : u = q + 4 /\ s = r - 1
    BY <1>3
  <2>2. p <= u /\ s <= Len(c) /\ Figures(c, u, s)
    BY <1>2, <1>3, <1>8, <2>1
  <2>3. Figures(text, b + u, b + s)
    BY <2>2, FiguresMoved
  <2>. QED  BY <1>4, <2>1, <2>3
<1>9. Coordinate("minutes", text, b + p, n, b + r, H)
  <2>1. /\ Figures(text, b + p, b + p + n - 1) /\ text[b + r] \in H
        /\ text[b + p + n] = "-" /\ Figures(text, b + p + n + 1, b + p + n + 2)
    BY <1>1, <1>2, <1>4, <1>5, <1>6, <1>7
  <2>2. \/ b + r = b + p + n + 3
        \/ /\ b + r > b + p + n + 4 /\ text[b + p + n + 3] = Comma
           /\ Figures(text, b + p + n + 4, b + r - 1)
    <3>1. \/ r = q + 3
          \/ r > q + 4 /\ c[q + 3] = Comma /\ Figures(c, p + n + 4, r - 1)
      BY <1>1, <1>2
    <3>2. CASE r = q + 3
      BY <1>2, <3>2
    <3>3. CASE r > q + 4 /\ c[q + 3] = Comma /\ Figures(c, p + n + 4, r - 1)
      <4>1. Figures(text, b + p + n + 4, b + r - 1)
        BY <1>8, <3>3
      <4>2. b + r > b + p + n + 4
        BY <1>2, <3>3
      <4>3. text[b + p + n + 3] = Comma
        BY <1>4, <1>5, <3>3
      <4>. QED  BY <4>1, <4>2, <4>3
    <3>. QED  BY <3>1, <3>2, <3>3
  <2>. QED  BY <2>1, <2>2 DEF Coordinate
<1>10. Meaning("minutes", text, b + p, n, b + r, neg) = Meaning("minutes", c, p, n, r, neg)
  <2>0. PICK u \in Nat : u = q + 1
    OBVIOUS
  <2>1. PICK form : u = q + 1 /\ form = "minutes" /\ form # "dms"
    BY <2>0
  <2>2. u = (IF form = "minutes" THEN p + n + 1 ELSE p + n) /\ u + 2 <= r
    BY <1>2, <1>3, <2>1
  <2>3. Meaning(form, text, b + p, n, b + r, neg) = Meaning(form, c, p, n, r, neg)
    BY <2>1, <2>2, MeaningMoved
  <2>. QED  BY <2>1, <2>3
<1>. QED  BY <1>9, <1>10

LEMMA PlainMoved ==
    ASSUME NEW c \in Seq(Char), text \in Seq(TextChar),
           NEW b \in Nat, NEW p \in Nat \ {0}, Shows(b, p, c), NEW n \in {2, 3},
           NEW r \in Nat, r <= Len(c), NEW H, NEW neg,
           NEW form, form # "dms", form # "minutes", Coordinate(form, c, p, n, r, H)
    PROVE  /\ Coordinate(form, text, b + p, n, b + r, H)
           /\ Meaning(form, text, b + p, n, b + r, neg) = Meaning(form, c, p, n, r, neg)
<1>1. /\ Figures(c, p, p + n - 1) /\ c[r] \in H
      /\ r = p + n + (IF form = "decimal" THEN 4 ELSE 5)
      /\ Figures(c, p + n, p + n + 1) /\ Pair(c, p + n) < 60
      /\ c[p + n + 2] = "." /\ Figures(c, p + n + 3, r - 1)
  BY DEF Coordinate
<1>2. PICK q \in Nat : q = p + n
  OBVIOUS
<1>3. p <= q /\ r \in p .. Len(c) /\ q + 4 <= Len(c) /\ q + 4 <= r
  BY <1>1, <1>2
<1>4. /\ b + q = b + p + n /\ b + (q + 1) = b + p + n + 1 /\ b + (q + 2) = b + p + n + 2
      /\ b + (q + 3) = b + p + n + 3
      /\ b + (p + n - 1) = b + p + n - 1 /\ b + (r - 1) = b + r - 1
  BY <1>2
<1>5. text[b + r] = c[r] /\ text[b + (q + 2)] = c[q + 2]
  <2>1. q + 2 \in p .. Len(c)
    BY <1>3
  <2>. QED  BY <1>3, <2>1 DEF Shows
<1>6. Figures(text, b + p, b + (p + n - 1))
  <2>1. PICK s \in Int : s = p + n - 1
    OBVIOUS
  <2>2. p \in Nat /\ s <= Len(c) /\ Figures(c, p, s)
    BY <1>1, <1>2, <1>3, <2>1
  <2>. QED  BY <2>1, <2>2, FiguresMoved
<1>7. Figures(text, b + q, b + (q + 1)) /\ Pair(text, b + q) = Pair(c, q)
  <2>1. PICK s \in Int : s = q + 1
    BY <1>3
  <2>2. p <= q /\ s <= Len(c) /\ Figures(c, q, s) /\ q + 1 <= Len(c)
    BY <1>1, <1>2, <1>3, <2>1
  <2>. QED  BY <2>1, <2>2, FiguresMoved, PairMoved
<1>8. Figures(text, b + (q + 3), b + (r - 1))
  <2>1. PICK u \in Nat, s \in Int : u = q + 3 /\ s = r - 1
    BY <1>3
  <2>2. p <= u /\ s <= Len(c) /\ Figures(c, u, s)
    BY <1>1, <1>2, <1>3, <2>1
  <2>. QED  BY <2>1, <2>2, FiguresMoved
<1>9. Coordinate(form, text, b + p, n, b + r, H)
  <2>1. /\ Figures(text, b + p, b + p + n - 1) /\ text[b + r] \in H
        /\ Figures(text, b + p + n, b + p + n + 1) /\ Pair(text, b + p + n) < 60
        /\ text[b + p + n + 2] = "." /\ Figures(text, b + p + n + 3, b + r - 1)
    BY <1>1, <1>2, <1>4, <1>5, <1>6, <1>7, <1>8
  <2>2. b + r = b + p + n + (IF form = "decimal" THEN 4 ELSE 5) /\ form \in {"decimal", "slash"}
    BY <1>1 DEF Coordinate
  <2>. QED  BY <2>1, <2>2 DEF Coordinate
<1>10. Meaning(form, text, b + p, n, b + r, neg) = Meaning(form, c, p, n, r, neg)
  <2>1. q = (IF form = "minutes" THEN p + n + 1 ELSE p + n) /\ q + 2 <= r
    BY <1>2, <1>3
  <2>2. form # "dms"
    BY <1>1 DEF Coordinate
  <2>. QED  BY <2>1, <2>2, MeaningMoved
<1>. QED  BY <1>9, <1>10

LEMMA CoordinateMoved ==
    ASSUME NEW c \in Seq(Char), text \in Seq(TextChar),
           NEW b \in Nat, NEW p \in Nat \ {0}, Shows(b, p, c), NEW n \in {2, 3},
           NEW r \in Nat, r <= Len(c), NEW H, NEW neg,
           NEW form, Coordinate(form, c, p, n, r, H)
    PROVE  /\ Coordinate(form, text, b + p, n, b + r, H)
           /\ Meaning(form, text, b + p, n, b + r, neg) = Meaning(form, c, p, n, r, neg)
<1>1. CASE form = "dms"
  <2>1. Coordinate("dms", c, p, n, r, H)
    BY <1>1
  <2>2. /\ Coordinate("dms", text, b + p, n, b + r, H)
        /\ Meaning("dms", text, b + p, n, b + r, neg) = Meaning("dms", c, p, n, r, neg)
    BY <2>1, DmsMoved
  <2>. QED  BY <1>1, <2>2
<1>2. CASE form = "minutes"
  <2>1. Coordinate("minutes", c, p, n, r, H)
    BY <1>2
  <2>2. /\ Coordinate("minutes", text, b + p, n, b + r, H)
        /\ Meaning("minutes", text, b + p, n, b + r, neg) = Meaning("minutes", c, p, n, r, neg)
    BY <2>1, MinutesFormMoved
  <2>. QED  BY <1>2, <2>2
<1>3. CASE form # "dms" /\ form # "minutes"
  BY <1>3, PlainMoved
<1>. QED  BY <1>1, <1>2, <1>3

-----------------------------------------------------------------------------
\* The ways to write a position, character by character.

Shaped(chars, n) == Len(chars) = n /\ DOMAIN chars = 1 .. n

\* Each character of the text from p on is one of those asked for.
Matched(chars, n, p) ==
    p + n - 1 <= Len(text) /\ \A i \in 1 .. n : At(p + i - 1) \in chars[i]

LEMMA FitsChars ==
    ASSUME text \in Seq(TextChar), NEW chars, NEW n \in Nat, Shaped(chars, n),
           NEW p \in Nat \ {0}
    PROVE  Fits(chars, p) <=> Matched(chars, n, p)
<1>1. Fits(chars, p) <=> /\ p + n - 1 <= Len(text)
                         /\ \A i \in 1 .. n : text[p + i - 1] \in chars[i]
  BY DEF Fits, Matches, Form, Shaped
<1>2. ASSUME p + n - 1 <= Len(text), NEW i \in 1 .. n
      PROVE  At(p + i - 1) = text[p + i - 1]
  <2>1. p + i - 1 \in 1 .. Len(text) /\ p + i - 1 \in Int
    BY <1>2
  <2>. QED  BY <2>1, AtFacts DEF At
<1>. QED  BY <1>1, <1>2 DEF Matched

LEMMA Places ==
    ASSUME NEW p \in Nat
    PROVE  /\ p + 1 - 1 = p /\ p + 2 - 1 = p + 1 /\ p + 3 - 1 = p + 2
           /\ p + 4 - 1 = p + 3 /\ p + 5 - 1 = p + 4 /\ p + 6 - 1 = p + 5
           /\ p + 7 - 1 = p + 6 /\ p + 8 - 1 = p + 7 /\ p + 9 - 1 = p + 8
           /\ p + 10 - 1 = p + 9 /\ p + 11 - 1 = p + 10 /\ p + 12 - 1 = p + 11
           /\ p + 13 - 1 = p + 12 /\ p + 14 - 1 = p + 13 /\ p + 15 - 1 = p + 14
           /\ p + 16 - 1 = p + 15 /\ p + 17 - 1 = p + 16 /\ p + 18 - 1 = p + 17
OBVIOUS

LEMMA LatDmsFits ==
    ASSUME text \in Seq(TextChar), NEW p \in Nat \ {0}
    PROVE  Fits(LatDms, p)
           <=> /\ p + 8 <= Len(text)
               /\ At(p) \in Digit \union Mark /\ At(p + 1) \in Digit \union Mark
               /\ At(p + 2) \in {"-", "*"} /\ At(p + 3) \in Digit \union Mark
               /\ At(p + 4) \in Digit \union Mark /\ At(p + 5) \in {"-", "*"}
               /\ At(p + 6) \in Digit \union Mark
               /\ At(p + 7) \in Digit \union Mark /\ At(p + 8) \in NS
<1>1. /\ Len(LatDms) = 9 /\ DOMAIN (LatDms) = 1 .. 9
      /\ LatDms[1] = Digit \union Mark /\ LatDms[2] = Digit \union Mark
      /\ LatDms[3] = {"-", "*"} /\ LatDms[4] = Digit \union Mark
      /\ LatDms[5] = Digit \union Mark /\ LatDms[6] = {"-", "*"}
      /\ LatDms[7] = Digit \union Mark /\ LatDms[8] = Digit \union Mark
      /\ LatDms[9] = NS
  BY DEF LatDms, D1, D2, Dash
<1>2. PICK chars : chars = LatDms
  OBVIOUS
<1>3. /\ Shaped(chars, 9) /\ 9 \in Nat
      /\ chars[1] = Digit \union Mark /\ chars[2] = Digit \union Mark
      /\ chars[3] = {"-", "*"} /\ chars[4] = Digit \union Mark
      /\ chars[5] = Digit \union Mark /\ chars[6] = {"-", "*"}
      /\ chars[7] = Digit \union Mark /\ chars[8] = Digit \union Mark
      /\ chars[9] = NS
  BY <1>1, <1>2 DEF Shaped
<1>4. Fits(chars, p) <=> Matched(chars, 9, p)
  BY <1>3, FitsChars
<1>5. 1 .. 9 = {1, 2, 3, 4, 5, 6, 7, 8, 9}
  OBVIOUS
<1>6. ASSUME Matched(chars, 9, p)
      PROVE  /\ p + 8 <= Len(text)
             /\ At(p) \in Digit \union Mark /\ At(p + 1) \in Digit \union Mark
             /\ At(p + 2) \in {"-", "*"} /\ At(p + 3) \in Digit \union Mark
             /\ At(p + 4) \in Digit \union Mark /\ At(p + 5) \in {"-", "*"}
             /\ At(p + 6) \in Digit \union Mark
             /\ At(p + 7) \in Digit \union Mark /\ At(p + 8) \in NS
  BY <1>3, <1>5, <1>6, Places DEF Matched
<1>7. ASSUME /\ p + 8 <= Len(text)
             /\ At(p) \in Digit \union Mark /\ At(p + 1) \in Digit \union Mark
             /\ At(p + 2) \in {"-", "*"} /\ At(p + 3) \in Digit \union Mark
             /\ At(p + 4) \in Digit \union Mark /\ At(p + 5) \in {"-", "*"}
             /\ At(p + 6) \in Digit \union Mark
             /\ At(p + 7) \in Digit \union Mark /\ At(p + 8) \in NS
      PROVE  Matched(chars, 9, p)
  <2>1. /\ At(p + 1 - 1) \in chars[1] /\ At(p + 2 - 1) \in chars[2]
        /\ At(p + 3 - 1) \in chars[3] /\ At(p + 4 - 1) \in chars[4]
        /\ At(p + 5 - 1) \in chars[5] /\ At(p + 6 - 1) \in chars[6]
        /\ At(p + 7 - 1) \in chars[7] /\ At(p + 8 - 1) \in chars[8]
        /\ At(p + 9 - 1) \in chars[9]
    BY <1>3, <1>7, Places
  <2>2. \A i \in 1 .. 9 : At(p + i - 1) \in chars[i]
    BY <1>5, <2>1
  <2>3. p + 9 - 1 <= Len(text)
    BY <1>7
  <2>. QED  BY <2>2, <2>3 DEF Matched
<1>. QED  BY <1>2, <1>4, <1>6, <1>7

LEMMA LatDecimalFits ==
    ASSUME text \in Seq(TextChar), NEW p \in Nat \ {0}
    PROVE  Fits(LatDecimal, p)
           <=> /\ p + 6 <= Len(text)
               /\ At(p) \in Digit \union Mark /\ At(p + 1) \in Digit \union Mark
               /\ At(p + 2) \in Digit \union Mark
               /\ At(p + 3) \in Digit \union Mark /\ At(p + 4) \in {"."}
               /\ At(p + 5) \in Digit \union Mark /\ At(p + 6) \in NS
<1>1. /\ Len(LatDecimal) = 7 /\ DOMAIN (LatDecimal) = 1 .. 7
      /\ LatDecimal[1] = Digit \union Mark /\ LatDecimal[2] = Digit \union Mark
      /\ LatDecimal[3] = Digit \union Mark /\ LatDecimal[4] = Digit \union Mark
      /\ LatDecimal[5] = {"."} /\ LatDecimal[6] = Digit \union Mark /\ LatDecimal[7] = NS
  BY DEF LatDecimal, D1, D2, D3
<1>2. PICK chars : chars = LatDecimal
  OBVIOUS
<1>3. /\ Shaped(chars, 7) /\ 7 \in Nat
      /\ chars[1] = Digit \union Mark /\ chars[2] = Digit \union Mark
      /\ chars[3] = Digit \union Mark /\ chars[4] = Digit \union Mark
      /\ chars[5] = {"."} /\ chars[6] = Digit \union Mark /\ chars[7] = NS
  BY <1>1, <1>2 DEF Shaped
<1>4. Fits(chars, p) <=> Matched(chars, 7, p)
  BY <1>3, FitsChars
<1>5. 1 .. 7 = {1, 2, 3, 4, 5, 6, 7}
  OBVIOUS
<1>6. ASSUME Matched(chars, 7, p)
      PROVE  /\ p + 6 <= Len(text)
             /\ At(p) \in Digit \union Mark /\ At(p + 1) \in Digit \union Mark
             /\ At(p + 2) \in Digit \union Mark
             /\ At(p + 3) \in Digit \union Mark /\ At(p + 4) \in {"."}
             /\ At(p + 5) \in Digit \union Mark /\ At(p + 6) \in NS
  BY <1>3, <1>5, <1>6, Places DEF Matched
<1>7. ASSUME /\ p + 6 <= Len(text)
             /\ At(p) \in Digit \union Mark /\ At(p + 1) \in Digit \union Mark
             /\ At(p + 2) \in Digit \union Mark
             /\ At(p + 3) \in Digit \union Mark /\ At(p + 4) \in {"."}
             /\ At(p + 5) \in Digit \union Mark /\ At(p + 6) \in NS
      PROVE  Matched(chars, 7, p)
  <2>1. /\ At(p + 1 - 1) \in chars[1] /\ At(p + 2 - 1) \in chars[2]
        /\ At(p + 3 - 1) \in chars[3] /\ At(p + 4 - 1) \in chars[4]
        /\ At(p + 5 - 1) \in chars[5] /\ At(p + 6 - 1) \in chars[6]
        /\ At(p + 7 - 1) \in chars[7] /\ p + 7 - 1 <= Len(text)
    BY <1>3, <1>7, Places
  <2>. QED  BY <1>5, <2>1 DEF Matched
<1>. QED  BY <1>2, <1>4, <1>6, <1>7

LEMMA LatOpenFits ==
    ASSUME text \in Seq(TextChar), NEW p \in Nat \ {0}
    PROVE  Fits(LatOpen, p)
           <=> /\ p + 3 <= Len(text)
               /\ At(p) \in Digit \union Mark /\ At(p + 1) \in Digit \union Mark
               /\ At(p + 2) \in {"-", Space, "*"}
               /\ At(p + 3) \in Digit \union Mark
<1>1. /\ Len(LatOpen) = 4 /\ DOMAIN (LatOpen) = 1 .. 4
      /\ LatOpen[1] = Digit \union Mark /\ LatOpen[2] = Digit \union Mark
      /\ LatOpen[3] = {"-", Space, "*"} /\ LatOpen[4] = Digit \union Mark
  BY DEF LatOpen, D1, D2, Gap
<1>2. PICK chars : chars = LatOpen
  OBVIOUS
<1>3. /\ Shaped(chars, 4) /\ 4 \in Nat
      /\ chars[1] = Digit \union Mark /\ chars[2] = Digit \union Mark
      /\ chars[3] = {"-", Space, "*"} /\ chars[4] = Digit \union Mark
  BY <1>1, <1>2 DEF Shaped
<1>4. Fits(chars, p) <=> Matched(chars, 4, p)
  BY <1>3, FitsChars
<1>5. 1 .. 4 = {1, 2, 3, 4}
  OBVIOUS
<1>6. ASSUME Matched(chars, 4, p)
      PROVE  /\ p + 3 <= Len(text)
             /\ At(p) \in Digit \union Mark /\ At(p + 1) \in Digit \union Mark
             /\ At(p + 2) \in {"-", Space, "*"}
             /\ At(p + 3) \in Digit \union Mark
  BY <1>3, <1>5, <1>6, Places DEF Matched
<1>7. ASSUME /\ p + 3 <= Len(text)
             /\ At(p) \in Digit \union Mark /\ At(p + 1) \in Digit \union Mark
             /\ At(p + 2) \in {"-", Space, "*"}
             /\ At(p + 3) \in Digit \union Mark
      PROVE  Matched(chars, 4, p)
  BY <1>3, <1>5, <1>7, Places DEF Matched
<1>. QED  BY <1>2, <1>4, <1>6, <1>7

LEMMA LonDmsFits ==
    ASSUME text \in Seq(TextChar), NEW p \in Nat \ {0}
    PROVE  Fits(LonDms, p)
           <=> /\ p + 9 <= Len(text)
               /\ At(p) \in Digit \union Mark /\ At(p + 1) \in Digit \union Mark
               /\ At(p + 2) \in Digit \union Mark /\ At(p + 3) \in {"-", "*"}
               /\ At(p + 4) \in Digit \union Mark
               /\ At(p + 5) \in Digit \union Mark /\ At(p + 6) \in {"-", "*"}
               /\ At(p + 7) \in Digit \union Mark
               /\ At(p + 8) \in Digit \union Mark /\ At(p + 9) \in EW
<1>1. /\ Len(LonDms) = 10 /\ DOMAIN (LonDms) = 1 .. 10
      /\ LonDms[1] = Digit \union Mark /\ LonDms[2] = Digit \union Mark
      /\ LonDms[3] = Digit \union Mark /\ LonDms[4] = {"-", "*"}
      /\ LonDms[5] = Digit \union Mark /\ LonDms[6] = Digit \union Mark
      /\ LonDms[7] = {"-", "*"} /\ LonDms[8] = Digit \union Mark
      /\ LonDms[9] = Digit \union Mark /\ LonDms[10] = EW
  BY DEF LonDms, D1, D2, D3, Dash
<1>2. PICK chars : chars = LonDms
  OBVIOUS
<1>3. /\ Shaped(chars, 10) /\ 10 \in Nat
      /\ chars[1] = Digit \union Mark /\ chars[2] = Digit \union Mark
      /\ chars[3] = Digit \union Mark /\ chars[4] = {"-", "*"}
      /\ chars[5] = Digit \union Mark /\ chars[6] = Digit \union Mark
      /\ chars[7] = {"-", "*"} /\ chars[8] = Digit \union Mark
      /\ chars[9] = Digit \union Mark /\ chars[10] = EW
  BY <1>1, <1>2 DEF Shaped
<1>4. Fits(chars, p) <=> Matched(chars, 10, p)
  BY <1>3, FitsChars
<1>5. 1 .. 10 = {1, 2, 3, 4, 5, 6, 7, 8, 9, 10}
  OBVIOUS
<1>6. ASSUME Matched(chars, 10, p)
      PROVE  /\ p + 9 <= Len(text)
             /\ At(p) \in Digit \union Mark /\ At(p + 1) \in Digit \union Mark
             /\ At(p + 2) \in Digit \union Mark /\ At(p + 3) \in {"-", "*"}
             /\ At(p + 4) \in Digit \union Mark
             /\ At(p + 5) \in Digit \union Mark /\ At(p + 6) \in {"-", "*"}
             /\ At(p + 7) \in Digit \union Mark
             /\ At(p + 8) \in Digit \union Mark /\ At(p + 9) \in EW
  BY <1>3, <1>5, <1>6, Places DEF Matched
<1>7. ASSUME /\ p + 9 <= Len(text)
             /\ At(p) \in Digit \union Mark /\ At(p + 1) \in Digit \union Mark
             /\ At(p + 2) \in Digit \union Mark /\ At(p + 3) \in {"-", "*"}
             /\ At(p + 4) \in Digit \union Mark
             /\ At(p + 5) \in Digit \union Mark /\ At(p + 6) \in {"-", "*"}
             /\ At(p + 7) \in Digit \union Mark
             /\ At(p + 8) \in Digit \union Mark /\ At(p + 9) \in EW
      PROVE  Matched(chars, 10, p)
  <2>1. /\ At(p + 1 - 1) \in chars[1] /\ At(p + 2 - 1) \in chars[2]
        /\ At(p + 3 - 1) \in chars[3] /\ At(p + 4 - 1) \in chars[4]
        /\ At(p + 5 - 1) \in chars[5] /\ At(p + 6 - 1) \in chars[6]
        /\ At(p + 7 - 1) \in chars[7] /\ At(p + 8 - 1) \in chars[8]
        /\ At(p + 9 - 1) \in chars[9] /\ At(p + 10 - 1) \in chars[10]
    BY <1>3, <1>7, Places
  <2>2. \A i \in 1 .. 10 : At(p + i - 1) \in chars[i]
    BY <1>5, <2>1
  <2>3. p + 10 - 1 <= Len(text)
    BY <1>7
  <2>. QED  BY <2>2, <2>3 DEF Matched
<1>. QED  BY <1>2, <1>4, <1>6, <1>7

LEMMA LonDecimalFits ==
    ASSUME text \in Seq(TextChar), NEW p \in Nat \ {0}
    PROVE  Fits(LonDecimal, p)
           <=> /\ p + 7 <= Len(text)
               /\ At(p) \in Digit \union Mark /\ At(p + 1) \in Digit \union Mark
               /\ At(p + 2) \in Digit \union Mark
               /\ At(p + 3) \in Digit \union Mark
               /\ At(p + 4) \in Digit \union Mark /\ At(p + 5) \in {"."}
               /\ At(p + 6) \in Digit \union Mark /\ At(p + 7) \in EW
<1>1. /\ Len(LonDecimal) = 8 /\ DOMAIN (LonDecimal) = 1 .. 8
      /\ LonDecimal[1] = Digit \union Mark /\ LonDecimal[2] = Digit \union Mark
      /\ LonDecimal[3] = Digit \union Mark /\ LonDecimal[4] = Digit \union Mark
      /\ LonDecimal[5] = Digit \union Mark /\ LonDecimal[6] = {"."}
      /\ LonDecimal[7] = Digit \union Mark /\ LonDecimal[8] = EW
  BY DEF LonDecimal, D1, D2, D3
<1>2. PICK chars : chars = LonDecimal
  OBVIOUS
<1>3. /\ Shaped(chars, 8) /\ 8 \in Nat
      /\ chars[1] = Digit \union Mark /\ chars[2] = Digit \union Mark
      /\ chars[3] = Digit \union Mark /\ chars[4] = Digit \union Mark
      /\ chars[5] = Digit \union Mark /\ chars[6] = {"."}
      /\ chars[7] = Digit \union Mark /\ chars[8] = EW
  BY <1>1, <1>2 DEF Shaped
<1>4. Fits(chars, p) <=> Matched(chars, 8, p)
  BY <1>3, FitsChars
<1>5. 1 .. 8 = {1, 2, 3, 4, 5, 6, 7, 8}
  OBVIOUS
<1>6. ASSUME Matched(chars, 8, p)
      PROVE  /\ p + 7 <= Len(text)
             /\ At(p) \in Digit \union Mark /\ At(p + 1) \in Digit \union Mark
             /\ At(p + 2) \in Digit \union Mark
             /\ At(p + 3) \in Digit \union Mark
             /\ At(p + 4) \in Digit \union Mark /\ At(p + 5) \in {"."}
             /\ At(p + 6) \in Digit \union Mark /\ At(p + 7) \in EW
  BY <1>3, <1>5, <1>6, Places DEF Matched
<1>7. ASSUME /\ p + 7 <= Len(text)
             /\ At(p) \in Digit \union Mark /\ At(p + 1) \in Digit \union Mark
             /\ At(p + 2) \in Digit \union Mark
             /\ At(p + 3) \in Digit \union Mark
             /\ At(p + 4) \in Digit \union Mark /\ At(p + 5) \in {"."}
             /\ At(p + 6) \in Digit \union Mark /\ At(p + 7) \in EW
      PROVE  Matched(chars, 8, p)
  <2>1. /\ At(p + 1 - 1) \in chars[1] /\ At(p + 2 - 1) \in chars[2]
        /\ At(p + 3 - 1) \in chars[3] /\ At(p + 4 - 1) \in chars[4]
        /\ At(p + 5 - 1) \in chars[5] /\ At(p + 6 - 1) \in chars[6]
        /\ At(p + 7 - 1) \in chars[7] /\ At(p + 8 - 1) \in chars[8]
    BY <1>3, <1>7, Places
  <2>2. \A i \in 1 .. 8 : At(p + i - 1) \in chars[i]
    BY <1>5, <2>1
  <2>3. p + 8 - 1 <= Len(text)
    BY <1>7
  <2>. QED  BY <2>2, <2>3 DEF Matched
<1>. QED  BY <1>2, <1>4, <1>6, <1>7

LEMMA LonOpenFits ==
    ASSUME text \in Seq(TextChar), NEW p \in Nat \ {0}
    PROVE  Fits(LonOpen, p)
           <=> /\ p + 4 <= Len(text)
               /\ At(p) \in Digit \union Mark /\ At(p + 1) \in Digit \union Mark
               /\ At(p + 2) \in Digit \union Mark
               /\ At(p + 3) \in {"-", Space, "*"}
               /\ At(p + 4) \in Digit \union Mark
<1>1. /\ Len(LonOpen) = 5 /\ DOMAIN (LonOpen) = 1 .. 5
      /\ LonOpen[1] = Digit \union Mark /\ LonOpen[2] = Digit \union Mark
      /\ LonOpen[3] = Digit \union Mark /\ LonOpen[4] = {"-", Space, "*"}
      /\ LonOpen[5] = Digit \union Mark
  BY DEF LonOpen, D1, D2, D3, Gap
<1>2. PICK chars : chars = LonOpen
  OBVIOUS
<1>3. /\ Shaped(chars, 5) /\ 5 \in Nat
      /\ chars[1] = Digit \union Mark /\ chars[2] = Digit \union Mark
      /\ chars[3] = Digit \union Mark /\ chars[4] = {"-", Space, "*"}
      /\ chars[5] = Digit \union Mark
  BY <1>1, <1>2 DEF Shaped
<1>4. Fits(chars, p) <=> Matched(chars, 5, p)
  BY <1>3, FitsChars
<1>5. 1 .. 5 = {1, 2, 3, 4, 5}
  OBVIOUS
<1>6. ASSUME Matched(chars, 5, p)
      PROVE  /\ p + 4 <= Len(text)
             /\ At(p) \in Digit \union Mark /\ At(p + 1) \in Digit \union Mark
             /\ At(p + 2) \in Digit \union Mark
             /\ At(p + 3) \in {"-", Space, "*"}
             /\ At(p + 4) \in Digit \union Mark
  BY <1>3, <1>5, <1>6, Places DEF Matched
<1>7. ASSUME /\ p + 4 <= Len(text)
             /\ At(p) \in Digit \union Mark /\ At(p + 1) \in Digit \union Mark
             /\ At(p + 2) \in Digit \union Mark
             /\ At(p + 3) \in {"-", Space, "*"}
             /\ At(p + 4) \in Digit \union Mark
      PROVE  Matched(chars, 5, p)
  BY <1>3, <1>5, <1>7, Places DEF Matched
<1>. QED  BY <1>2, <1>4, <1>6, <1>7

LEMMA SlashFits ==
    ASSUME text \in Seq(TextChar), NEW p \in Nat \ {0}
    PROVE  Fits(Slash, p)
           <=> /\ p + 17 <= Len(text)
               /\ At(p) \in Digit /\ At(p + 1) \in Digit /\ At(p + 2) \in Digit
               /\ At(p + 3) \in Digit /\ At(p + 4) \in {"."}
               /\ At(p + 5) \in Digit /\ At(p + 6) \in Digit /\ At(p + 7) \in NS
               /\ At(p + 8) \in {"/"} /\ At(p + 9) \in Digit
               /\ At(p + 10) \in Digit /\ At(p + 11) \in Digit
               /\ At(p + 12) \in Digit /\ At(p + 13) \in Digit
               /\ At(p + 14) \in {"."} /\ At(p + 15) \in Digit
               /\ At(p + 16) \in Digit /\ At(p + 17) \in EW
<1>1. /\ Len(Slash) = 18 /\ DOMAIN (Slash) = 1 .. 18
      /\ Slash[1] = Digit /\ Slash[2] = Digit /\ Slash[3] = Digit
      /\ Slash[4] = Digit /\ Slash[5] = {"."} /\ Slash[6] = Digit
      /\ Slash[7] = Digit /\ Slash[8] = NS /\ Slash[9] = {"/"}
      /\ Slash[10] = Digit /\ Slash[11] = Digit /\ Slash[12] = Digit
      /\ Slash[13] = Digit /\ Slash[14] = Digit /\ Slash[15] = {"."}
      /\ Slash[16] = Digit /\ Slash[17] = Digit /\ Slash[18] = EW
  BY DEF Slash, Two, One
<1>2. PICK chars : chars = Slash
  OBVIOUS
<1>3. /\ Shaped(chars, 18) /\ 18 \in Nat
      /\ chars[1] = Digit /\ chars[2] = Digit /\ chars[3] = Digit
      /\ chars[4] = Digit /\ chars[5] = {"."} /\ chars[6] = Digit
      /\ chars[7] = Digit /\ chars[8] = NS /\ chars[9] = {"/"}
      /\ chars[10] = Digit /\ chars[11] = Digit /\ chars[12] = Digit
      /\ chars[13] = Digit /\ chars[14] = Digit /\ chars[15] = {"."}
      /\ chars[16] = Digit /\ chars[17] = Digit /\ chars[18] = EW
  BY <1>1, <1>2 DEF Shaped
<1>4. Fits(chars, p) <=> Matched(chars, 18, p)
  BY <1>3, FitsChars
<1>5. 1 .. 18 = {1, 2, 3, 4, 5, 6, 7, 8, 9, 10, 11, 12, 13, 14, 15, 16, 17, 18}
  OBVIOUS
<1>6. ASSUME Matched(chars, 18, p)
      PROVE  /\ p + 17 <= Len(text)
             /\ At(p) \in Digit /\ At(p + 1) \in Digit /\ At(p + 2) \in Digit
             /\ At(p + 3) \in Digit /\ At(p + 4) \in {"."}
             /\ At(p + 5) \in Digit /\ At(p + 6) \in Digit /\ At(p + 7) \in NS
             /\ At(p + 8) \in {"/"} /\ At(p + 9) \in Digit
             /\ At(p + 10) \in Digit /\ At(p + 11) \in Digit
             /\ At(p + 12) \in Digit /\ At(p + 13) \in Digit
             /\ At(p + 14) \in {"."} /\ At(p + 15) \in Digit
             /\ At(p + 16) \in Digit /\ At(p + 17) \in EW
  <2>1. p + 18 - 1 <= Len(text) /\ \A i \in 1 .. 18 : At(p + i - 1) \in chars[i]
    BY <1>6 DEF Matched
  <2>2. /\ At(p + 1 - 1) \in chars[1] /\ At(p + 2 - 1) \in chars[2]
        /\ At(p + 3 - 1) \in chars[3] /\ At(p + 4 - 1) \in chars[4]
        /\ At(p + 5 - 1) \in chars[5] /\ At(p + 6 - 1) \in chars[6]
        /\ At(p + 7 - 1) \in chars[7] /\ At(p + 8 - 1) \in chars[8]
        /\ At(p + 9 - 1) \in chars[9] /\ At(p + 10 - 1) \in chars[10]
        /\ At(p + 11 - 1) \in chars[11] /\ At(p + 12 - 1) \in chars[12]
        /\ At(p + 13 - 1) \in chars[13] /\ At(p + 14 - 1) \in chars[14]
        /\ At(p + 15 - 1) \in chars[15] /\ At(p + 16 - 1) \in chars[16]
        /\ At(p + 17 - 1) \in chars[17] /\ At(p + 18 - 1) \in chars[18]
    BY <1>5, <2>1
  <2>. QED  BY <1>3, <2>1, <2>2, Places
<1>7. ASSUME /\ p + 17 <= Len(text)
             /\ At(p) \in Digit /\ At(p + 1) \in Digit /\ At(p + 2) \in Digit
             /\ At(p + 3) \in Digit /\ At(p + 4) \in {"."}
             /\ At(p + 5) \in Digit /\ At(p + 6) \in Digit /\ At(p + 7) \in NS
             /\ At(p + 8) \in {"/"} /\ At(p + 9) \in Digit
             /\ At(p + 10) \in Digit /\ At(p + 11) \in Digit
             /\ At(p + 12) \in Digit /\ At(p + 13) \in Digit
             /\ At(p + 14) \in {"."} /\ At(p + 15) \in Digit
             /\ At(p + 16) \in Digit /\ At(p + 17) \in EW
      PROVE  Matched(chars, 18, p)
  <2>1. /\ At(p + 1 - 1) \in chars[1] /\ At(p + 2 - 1) \in chars[2]
        /\ At(p + 3 - 1) \in chars[3] /\ At(p + 4 - 1) \in chars[4]
        /\ At(p + 5 - 1) \in chars[5] /\ At(p + 6 - 1) \in chars[6]
        /\ At(p + 7 - 1) \in chars[7] /\ At(p + 8 - 1) \in chars[8]
        /\ At(p + 9 - 1) \in chars[9] /\ At(p + 10 - 1) \in chars[10]
        /\ At(p + 11 - 1) \in chars[11] /\ At(p + 12 - 1) \in chars[12]
        /\ At(p + 13 - 1) \in chars[13] /\ At(p + 14 - 1) \in chars[14]
        /\ At(p + 15 - 1) \in chars[15] /\ At(p + 16 - 1) \in chars[16]
        /\ At(p + 17 - 1) \in chars[17] /\ At(p + 18 - 1) \in chars[18]
    BY <1>3, <1>7, Places
  <2>2. \A i \in 1 .. 18 : At(p + i - 1) \in chars[i]
    BY <1>5, <2>1
  <2>3. p + 18 - 1 <= Len(text)
    BY <1>7
  <2>. QED  BY <2>2, <2>3 DEF Matched
<1>. QED  BY <1>2, <1>4, <1>6, <1>7

LEMMA LatShortFits ==
    ASSUME text \in Seq(TextChar), NEW p \in Nat \ {0}
    PROVE  Fits(Two \o <<NS>>, p)
           <=> /\ p + 2 <= Len(text)
               /\ At(p) \in Digit /\ At(p + 1) \in Digit /\ At(p + 2) \in NS
<1>1. /\ Len(Two \o <<NS>>) = 3 /\ DOMAIN (Two \o <<NS>>) = 1 .. 3
      /\ (Two \o <<NS>>)[1] = Digit
      /\ (Two \o <<NS>>)[2] = Digit
      /\ (Two \o <<NS>>)[3] = NS
  BY DEF Two
<1>2. PICK chars : chars = Two \o <<NS>>
  OBVIOUS
<1>3. /\ Shaped(chars, 3) /\ 3 \in Nat
      /\ chars[1] = Digit /\ chars[2] = Digit /\ chars[3] = NS
  BY <1>1, <1>2 DEF Shaped
<1>4. Fits(chars, p) <=> Matched(chars, 3, p)
  BY <1>3, FitsChars
<1>5. 1 .. 3 = {1, 2, 3}
  OBVIOUS
<1>6. ASSUME Matched(chars, 3, p)
      PROVE  /\ p + 2 <= Len(text)
             /\ At(p) \in Digit /\ At(p + 1) \in Digit /\ At(p + 2) \in NS
  BY <1>3, <1>5, <1>6, Places DEF Matched
<1>7. ASSUME /\ p + 2 <= Len(text)
             /\ At(p) \in Digit /\ At(p + 1) \in Digit /\ At(p + 2) \in NS
      PROVE  Matched(chars, 3, p)
  BY <1>3, <1>5, <1>7, Places DEF Matched
<1>. QED  BY <1>2, <1>4, <1>6, <1>7

LEMMA LonShortFits ==
    ASSUME text \in Seq(TextChar), NEW p \in Nat \ {0}
    PROVE  Fits(Two \o One \o <<EW>>, p)
           <=> /\ p + 3 <= Len(text)
               /\ At(p) \in Digit /\ At(p + 1) \in Digit /\ At(p + 2) \in Digit
               /\ At(p + 3) \in EW
<1>1. /\ Len(Two \o One \o <<EW>>) = 4 /\ DOMAIN (Two \o One \o <<EW>>) = 1 .. 4
      /\ (Two \o One \o <<EW>>)[1] = Digit
      /\ (Two \o One \o <<EW>>)[2] = Digit
      /\ (Two \o One \o <<EW>>)[3] = Digit
     
      /\ (Two \o One \o <<EW>>)[4] = EW
  BY DEF Two, One
<1>2. PICK chars : chars = Two \o One \o <<EW>>
  OBVIOUS
<1>3. /\ Shaped(chars, 4) /\ 4 \in Nat
      /\ chars[1] = Digit /\ chars[2] = Digit /\ chars[3] = Digit
      /\ chars[4] = EW
  BY <1>1, <1>2 DEF Shaped
<1>4. Fits(chars, p) <=> Matched(chars, 4, p)
  BY <1>3, FitsChars
<1>5. 1 .. 4 = {1, 2, 3, 4}
  OBVIOUS
<1>6. ASSUME Matched(chars, 4, p)
      PROVE  /\ p + 3 <= Len(text)
             /\ At(p) \in Digit /\ At(p + 1) \in Digit /\ At(p + 2) \in Digit
             /\ At(p + 3) \in EW
  BY <1>3, <1>5, <1>6, Places DEF Matched
<1>7. ASSUME /\ p + 3 <= Len(text)
             /\ At(p) \in Digit /\ At(p + 1) \in Digit /\ At(p + 2) \in Digit
             /\ At(p + 3) \in EW
      PROVE  Matched(chars, 4, p)
  BY <1>3, <1>5, <1>7, Places DEF Matched
<1>. QED  BY <1>2, <1>4, <1>6, <1>7

-----------------------------------------------------------------------------
\* What the matchers read of a coordinate.

LEMMA IsAt ==
    ASSUME text \in Seq(TextChar), NEW i \in 1 .. Len(text)
    PROVE  At(i) = text[i]
BY AtFacts DEF At

LEMMA FigureAt ==
    ASSUME text \in Seq(TextChar), NEW p \in Nat \ {0}, NEW s \in Int, s <= Len(text),
           Figures(text, p, s), NEW i \in p .. s
    PROVE  At(i) \in Digit /\ At(i) \in Figure
<1>1. i \in 1 .. Len(text) /\ text[i] \in Digit
  BY DEF Figures
<1>. QED  BY <1>1, IsAt, FigureFacts

LEMMA PairIs ==
    ASSUME NEW t \in Seq(TextChar), NEW p \in Nat \ {0}, NEW s \in Int, s = p + 1,
           s <= Len(t), Figures(t, p, s)
    PROVE  /\ Number(SubSeq(t, p, s)) = Pair(t, p) /\ Pair(t, p) \in Below100
           /\ CharAt(t, p + 2) \notin Figure => atoi(t, p) = Pair(t, p)
<1>1. PICK n \in {2, 3} : n = 2
  OBVIOUS
<1>2. p + n - 1 = s /\ p + n = p + 2
  BY <1>1
<1>3. p + n - 1 <= Len(t) /\ Figures(t, p, p + n - 1)
  BY <1>2
<1>4. Number(SubSeq(t, p, p + n - 1)) = Degrees(t, p, n)
  BY <1>3, NumberAt
<1>5. Degrees(t, p, n) \in Below100
  BY <1>1, <1>3, NumberAt
<1>6. CharAt(t, p + n) \notin Figure => atoi(t, p) = Degrees(t, p, n)
  BY <1>3, NumberAt
<1>7. Degrees(t, p, n) = Pair(t, p)
  BY <1>1 DEF Degrees
<1>. QED  BY <1>2, <1>4, <1>5, <1>6, <1>7


LEMMA DmsRead ==
    ASSUME text \in Seq(TextChar), NEW p \in Nat \ {0}, NEW n \in {2, 3},
           NEW r \in Nat, r <= Len(text), NEW H, H = NS \/ H = EW,
           Coordinate("dms", text, p, n, r, H)
    PROVE  /\ r = p + n + 6 /\ text[r] \in H /\ At(r) = text[r]
           /\ At(p) \in Digit /\ At(p + 1) \in Digit /\ (n = 3 => At(p + 2) \in Digit)
           /\ At(p + n) = "-" /\ At(p + n + 1) \in Digit /\ At(p + n + 2) \in Digit
           /\ At(p + n + 3) = "-" /\ At(p + n + 4) \in Digit /\ At(p + n + 5) \in Digit
           /\ dms(p, n) \in Nat
           /\ \A neg : Meaning("dms", text, p, n, r, neg) = Signed(dms(p, n), text[r] = neg)
<1>1. /\ Figures(text, p, p + n - 1) /\ text[r] \in H /\ r = p + n + 6
      /\ text[p + n] = "-" /\ Figures(text, p + n + 1, p + n + 2)
      /\ text[p + n + 3] = "-" /\ Figures(text, p + n + 4, p + n + 5)
  BY DEF Coordinate
<1>2. At(r) = text[r] /\ At(p + n) = "-" /\ At(p + n + 3) = "-"
  <2>1. r \in 1 .. Len(text) /\ p + n \in 1 .. Len(text) /\ p + n + 3 \in 1 .. Len(text)
    BY <1>1
  <2>. QED  BY <1>1, <2>1, IsAt
<1>3. At(p) \in Digit /\ At(p + 1) \in Digit /\ (n = 3 => At(p + 2) \in Digit)
  <2>1. PICK s \in Int : s = p + n - 1
    OBVIOUS
  <2>2. /\ s <= Len(text) /\ Figures(text, p, s)
        /\ p \in p .. s /\ p + 1 \in p .. s /\ (n = 3 => p + 2 \in p .. s)
    BY <1>1, <2>1
  <2>. QED  BY <2>2, FigureAt
<1>4. /\ At(p + n + 1) \in Digit /\ At(p + n + 2) \in Digit
      /\ atoi(text, p + n + 1) = Pair(text, p + n + 1) /\ Pair(text, p + n + 1) \in Below100
  <2>1. PICK q \in Nat \ {0}, s \in Int : q = p + n + 1 /\ s = p + n + 2
    OBVIOUS
  <2>2. /\ s <= Len(text) /\ Figures(text, q, s) /\ s = q + 1 /\ q + 2 = p + n + 3
        /\ q \in q .. s /\ s \in q .. s
    BY <1>1, <2>1
  <2>3. CharAt(text, q + 2) \notin Figure
    BY <1>2, <2>2, CharKinds DEF At
  <2>. QED  BY <2>1, <2>2, <2>3, FigureAt, PairIs
<1>5. /\ At(p + n + 4) \in Digit /\ At(p + n + 5) \in Digit
      /\ atoi(text, p + n + 4) = Pair(text, p + n + 4) /\ Pair(text, p + n + 4) \in Below100
  <2>1. PICK q \in Nat \ {0}, s \in Int : q = p + n + 4 /\ s = p + n + 5
    OBVIOUS
  <2>2. /\ s <= Len(text) /\ Figures(text, q, s) /\ s = q + 1 /\ q + 2 = r
        /\ q \in q .. s /\ s \in q .. s
    BY <1>1, <2>1
  <2>3. CharAt(text, q + 2) \notin Figure
    BY <1>1, <1>2, <2>2, CharKinds DEF At
  <2>. QED  BY <2>1, <2>2, <2>3, FigureAt, PairIs
<1>6. Number(SubSeq(text, p, p + n - 1)) = Degrees(text, p, n)
  <2>1. p + n - 1 <= Len(text)
    BY <1>1
  <2>. QED  BY <1>1, <2>1, NumberAt
<1>7. Degrees(text, p, n) \in Below1000
  <2>1. p + n - 1 <= Len(text)
    BY <1>1
  <2>. QED  BY <1>1, <2>1, NumberAt
<1>8. dms(p, n) = Degrees(text, p, n) * Deg + Pair(text, p + n + 1) * 6000
                  + Pair(text, p + n + 4) * 100
  BY <1>4, <1>5, <1>6 DEF dms
<1>9. dms(p, n) \in Nat
  <2>1. PICK a \in Nat, b \in Nat, c \in Nat :
            a = Degrees(text, p, n) /\ b = Pair(text, p + n + 1) /\ c = Pair(text, p + n + 4)
    BY <1>4, <1>5, <1>7 DEF Below100, Below1000
  <2>2. a * Deg + b * 6000 + c * 100 \in Nat
    BY DEF Deg
  <2>. QED  BY <1>8, <2>1, <2>2
<1>10. \A neg : Meaning("dms", text, p, n, r, neg) = Signed(dms(p, n), text[r] = neg)
  BY <1>8 DEF Meaning
<1>. QED  BY <1>1, <1>2, <1>3, <1>4, <1>5, <1>9, <1>10

LEMMA SignedFacts ==
    ASSUME NEW v \in Nat, NEW b \in BOOLEAN
    PROVE  Signed(v, b) \in Int /\ Absolute(Signed(v, b)) = v
BY DEF Signed, Absolute

\* A digit, a dash or a hemisphere is no lost digit.
LEMMA NoMark ==
    /\ \A c \in Digit : c # "*" /\ c \in Figure
    /\ \A c \in NS \union EW : c # "*"
    /\ "-" # "*" /\ Comma # "*" /\ "." # "*"
BY FigureFacts, CharKinds DEF Mark

LEMMA UnmarkedDms ==
    ASSUME text \in Seq(TextChar), NEW p \in Nat \ {0}, NEW n \in {2, 3},
           NEW r \in Nat, r <= Len(text), NEW H, H = NS \/ H = EW,
           Coordinate("dms", text, p, n, r, H)
    PROVE  Unmarked(p, n + 7)
<1>2. /\ r = p + n + 6 /\ text[r] \in H /\ At(r) = text[r]
      /\ At(p) \in Digit /\ At(p + 1) \in Digit /\ (n = 3 => At(p + 2) \in Digit)
      /\ At(p + n) = "-" /\ At(p + n + 1) \in Digit /\ At(p + n + 2) \in Digit
      /\ At(p + n + 3) = "-" /\ At(p + n + 4) \in Digit /\ At(p + n + 5) \in Digit
  BY DmsRead
<1>3. ASSUME NEW i \in p .. p + (n + 7) - 1
      PROVE  At(i) # "*"
  <2>1. \/ i = p \/ i = p + 1 \/ (n = 3 /\ i = p + 2) \/ i = p + n \/ i = p + n + 1
        \/ i = p + n + 2 \/ i = p + n + 3 \/ i = p + n + 4 \/ i = p + n + 5 \/ i = r
    BY <1>2
  <2>2. At(i) \in Digit \/ At(i) = "-" \/ At(i) \in NS \union EW
    BY <1>2, <2>1
  <2>. QED  BY <2>2, NoMark
<1>. QED  BY <1>3 DEF Unmarked

LEMMA LatDmsIs ==
    ASSUME text \in Seq(TextChar), NEW p \in Nat \ {0}, NEW r \in Nat, r <= Len(text),
           Coordinate("dms", text, p, 2, r, NS),
           Absolute(Meaning("dms", text, p, 2, r, "S")) < 90 * Deg
    PROVE  queryLatValue(p) = Reading(Meaning("dms", text, p, 2, r, "S"), r + 1 - p, text)
<1>1. PICK n \in {2, 3} : n = 2
  OBVIOUS
<1>2. PICK H : H = NS
  OBVIOUS
<1>3. PICK neg : neg = "S"
  OBVIOUS
<1>4. Coordinate("dms", text, p, n, r, H)
  BY <1>1, <1>2
<1>5. /\ r = p + n + 6 /\ text[r] \in H /\ At(r) = text[r]
      /\ At(p) \in Digit /\ At(p + 1) \in Digit
      /\ At(p + n) = "-" /\ At(p + n + 1) \in Digit /\ At(p + n + 2) \in Digit
      /\ At(p + n + 3) = "-" /\ At(p + n + 4) \in Digit /\ At(p + n + 5) \in Digit
      /\ dms(p, n) \in Nat
      /\ Meaning("dms", text, p, n, r, neg) = Signed(dms(p, n), text[r] = neg)
  BY <1>2, <1>4, DmsRead
<1>6. /\ p + n = p + 2 /\ p + n + 1 = p + 3 /\ p + n + 2 = p + 4 /\ p + n + 3 = p + 5
      /\ p + n + 4 = p + 6 /\ p + n + 5 = p + 7 /\ r = p + 8 /\ n + 7 = 9 /\ r + 1 - p = 9
  BY <1>1, <1>5
<1>7. Fits(LatDms, p)
  BY <1>2, <1>5, <1>6, LatDmsFits
<1>8. Unmarked(p, 9)
  BY <1>2, <1>4, <1>6, UnmarkedDms
<1>9. dms(p, 2) < 90 * Deg
  BY <1>1, <1>3, <1>5, SignedFacts
<1>10. queryLatValue(p) = Reading(Signed(dms(p, 2), At(p + 8) = "S"), 9, text)
  BY <1>7, <1>8, <1>9 DEF queryLatValue, IsLatDms
<1>11. Signed(dms(p, 2), At(p + 8) = "S") = Meaning("dms", text, p, 2, r, "S")
  BY <1>1, <1>3, <1>5, <1>6
<1>. QED  BY <1>6, <1>10, <1>11

LEMMA LonDmsIs ==
    ASSUME text \in Seq(TextChar), NEW p \in Nat \ {0}, NEW r \in Nat, r <= Len(text),
           Coordinate("dms", text, p, 3, r, EW),
           Absolute(Meaning("dms", text, p, 3, r, "W")) < 180 * Deg
    PROVE  queryLonValue(p)
           = Reading(Absolute(Meaning("dms", text, p, 3, r, "W")), r + 1 - p, text)
<1>1. PICK n \in {2, 3} : n = 3
  OBVIOUS
<1>2. PICK H : H = EW
  OBVIOUS
<1>3. PICK neg : neg = "W"
  OBVIOUS
<1>4. Coordinate("dms", text, p, n, r, H)
  BY <1>1, <1>2
<1>5. /\ r = p + n + 6 /\ text[r] \in H /\ At(r) = text[r]
      /\ At(p) \in Digit /\ At(p + 1) \in Digit /\ At(p + 2) \in Digit
      /\ At(p + n) = "-" /\ At(p + n + 1) \in Digit /\ At(p + n + 2) \in Digit
      /\ At(p + n + 3) = "-" /\ At(p + n + 4) \in Digit /\ At(p + n + 5) \in Digit
      /\ dms(p, n) \in Nat
      /\ Meaning("dms", text, p, n, r, neg) = Signed(dms(p, n), text[r] = neg)
  BY <1>1, <1>2, <1>4, DmsRead
<1>6. /\ p + n = p + 3 /\ p + n + 1 = p + 4 /\ p + n + 2 = p + 5 /\ p + n + 3 = p + 6
      /\ p + n + 4 = p + 7 /\ p + n + 5 = p + 8 /\ r = p + 9 /\ n + 7 = 10 /\ r + 1 - p = 10
  BY <1>1, <1>5
<1>7. Fits(LonDms, p)
  BY <1>2, <1>5, <1>6, LonDmsFits
<1>8. Unmarked(p, 10)
  BY <1>2, <1>4, <1>6, UnmarkedDms
<1>9. Absolute(Meaning("dms", text, p, 3, r, "W")) = dms(p, 3)
  BY <1>1, <1>3, <1>5, SignedFacts
<1>10. queryLonValue(p) = Reading(Signed(dms(p, 3), At(p + 8) = "W"), 10, text)
  BY <1>7, <1>8, <1>9 DEF queryLonValue, IsLonDms
<1>11. At(p + 8) # "W"
  <2>1. "W" \in EW
    BY DEF EW
  <2>2. At(p + 8) \in Figure
    BY <1>5, <1>6, NoMark
  <2>. QED  BY <2>1, <2>2, CharKinds, FigureFacts DEF EW, Figure
<1>. QED  BY <1>6, <1>9, <1>10, <1>11 DEF Signed

\* Minutes, as atof reads them.
LEMMA MinutesRead ==
    ASSUME NEW t \in Seq(TextChar), NEW q \in Nat \ {0}, NEW e \in Nat,
           q + 1 <= Len(t), Figures(t, q, q + 1), CharAt(t, e) \notin Figure,
           \/ e = q + 2 /\ CharAt(t, e) # "."
           \/ /\ q + 3 <= e /\ e <= Len(t) + 1 /\ CharAt(t, q + 2) = "."
              /\ Figures(t, q + 3, e - 1),
           CharAt(t, e) = "E" => CharAt(t, e + 1) \notin Figure \union {"-"}
    PROVE  atof(t, q) = Minutes(t, q, e - 1)
<1>1. PICK n \in {2, 3} : n = 2
  OBVIOUS
<1>2. q + n = q + 2 /\ q + n + 1 = q + 3 /\ q + n - 1 = q + 1
  BY <1>1
<1>3. /\ q + n - 1 <= Len(t) /\ Figures(t, q, q + n - 1)
      /\ \/ e = q + n /\ CharAt(t, e) # "."
         \/ /\ q + n + 1 <= e /\ e <= Len(t) + 1 /\ CharAt(t, q + n) = "."
            /\ Figures(t, q + n + 1, e - 1)
  BY <1>2
<1>4. atof(t, q) = 1000 * Degrees(t, q, n) + Thousandths(t, q + n + 1, e - 1)
  BY <1>3, AtofFacts
<1>5. Degrees(t, q, n) = Pair(t, q)
  BY <1>1 DEF Degrees
<1>. QED  BY <1>2, <1>4, <1>5 DEF Minutes

LEMMA MinutesType ==
    ASSUME NEW t \in Seq(TextChar), NEW q \in Nat \ {0}, NEW e \in Nat,
           q + 1 <= e, e <= Len(t), Figures(t, q, q + 1), Figures(t, q + 3, e)
    PROVE  Minutes(t, q, e) \in Nat /\ (Pair(t, q) < 60 => Minutes(t, q, e) < 60000)
<1>1. Pair(t, q) \in Below100
  <2>1. PICK s \in Int : s = q + 1
    OBVIOUS
  <2>2. s <= Len(t) /\ Figures(t, q, s)
    BY <2>1
  <2>. QED  BY <2>1, <2>2, PairIs
<1>2. Thousandths(t, q + 3, e) \in Below1000
  <2>1. CASE e >= q + 2
    <3>1. PICK u \in Nat \ {0} : u = q + 3
      OBVIOUS
    <3>2. u - 1 <= e /\ Figures(t, u, e)
      BY <2>1, <3>1
    <3>. QED  BY <3>1, <3>2, ThousandthsAre
  <2>2. CASE e < q + 2
    <3>1. SubSeq(t, q + 3, e) = <<>> /\ SubSeq(t, q, q - 1) = <<>>
      BY <2>2
    <3>2. Thousandths(t, q + 3, e) = Thousandths(t, q, q - 1)
      BY <3>1, Zenon DEF Thousandths
    <3>3. Figures(t, q, q - 1) /\ q - 1 \in Nat /\ q - 1 <= Len(t)
      BY DEF Figures
    <3>4. Thousandths(t, q, q - 1) \in Below1000
      BY <3>3, ThousandthsAre
    <3>. QED  BY <3>2, <3>4
  <2>. QED  BY <2>1, <2>2
<1>3. PICK a \in Below100, b \in Below1000 : a = Pair(t, q) /\ b = Thousandths(t, q + 3, e)
  BY <1>1, <1>2
<1>4. 1000 * a + b \in Nat /\ (a < 60 => 1000 * a + b < 60000)
  BY DEF Below100, Below1000
<1>. QED  BY <1>3, <1>4 DEF Minutes

\* Degrees and minutes without a dash between, at p in the text.
PlainText(form, p, n, r, H) ==
    /\ r = p + n + (IF form = "decimal" THEN 4 ELSE 5)
    /\ text[r] \in H /\ At(r) = text[r]
    /\ At(p) \in Digit /\ At(p + 1) \in Digit /\ (n = 3 => At(p + 2) \in Digit)
    /\ At(p + n) \in Digit /\ At(p + n + 1) \in Digit /\ At(p + n + 2) = "."
    /\ At(p + n + 3) \in Digit /\ (r = p + n + 5 => At(p + n + 4) \in Digit)
    /\ Number(SubSeq(text, p, p + n - 1)) = Degrees(text, p, n)
    /\ Degrees(text, p, n) \in Below1000
    /\ Figures(text, p + n, p + n + 1) /\ Figures(text, p + n + 3, r - 1)
    /\ Minutes(text, p + n, r - 1) \in Nat /\ Minutes(text, p + n, r - 1) < 60000
    /\ \A neg : Meaning(form, text, p, n, r, neg)
                = Signed(Degrees(text, p, n) * Deg + 6 * Minutes(text, p + n, r - 1),
                         text[r] = neg)

LEMMA PlainRead ==
    ASSUME text \in Seq(TextChar), NEW p \in Nat \ {0}, NEW n \in {2, 3},
           NEW r \in Nat, r <= Len(text), NEW H, H = NS \/ H = EW,
           NEW form, form # "dms", form # "minutes",
           Coordinate(form, text, p, n, r, H)
    PROVE  PlainText(form, p, n, r, H)
<1>1. /\ Figures(text, p, p + n - 1) /\ text[r] \in H
      /\ r = p + n + (IF form = "decimal" THEN 4 ELSE 5)
      /\ Figures(text, p + n, p + n + 1) /\ Pair(text, p + n) < 60
      /\ text[p + n + 2] = "." /\ Figures(text, p + n + 3, r - 1)
  BY DEF Coordinate
<1>2. r \in {p + n + 4, p + n + 5} /\ p + n - 1 <= Len(text)
  BY <1>1
<1>3. At(r) = text[r] /\ At(p + n + 2) = "."
  <2>1. r \in 1 .. Len(text) /\ p + n + 2 \in 1 .. Len(text)
    BY <1>2
  <2>. QED  BY <1>1, <2>1, IsAt
<1>4. At(p) \in Digit /\ At(p + 1) \in Digit /\ (n = 3 => At(p + 2) \in Digit)
  <2>1. PICK s \in Int : s = p + n - 1
    OBVIOUS
  <2>2. /\ s <= Len(text) /\ Figures(text, p, s)
        /\ p \in p .. s /\ p + 1 \in p .. s /\ (n = 3 => p + 2 \in p .. s)
    BY <1>1, <1>2, <2>1
  <2>. QED  BY <2>2, FigureAt
<1>5. PICK q \in Nat \ {0}, e \in Nat : q = p + n /\ e = r - 1
  BY <1>2
<1>6. At(p + n) \in Digit /\ At(p + n + 1) \in Digit
  <2>1. PICK s \in Int : s = q + 1
    OBVIOUS
  <2>2. s <= Len(text) /\ Figures(text, q, s) /\ q \in q .. s /\ s \in q .. s
    BY <1>1, <1>2, <1>5, <2>1
  <2>3. At(q) \in Digit /\ At(s) \in Digit
    BY <2>2, FigureAt
  <2>. QED  BY <1>5, <2>1, <2>3
<1>7. At(p + n + 3) \in Digit /\ (r = p + n + 5 => At(p + n + 4) \in Digit)
  <2>1. PICK u \in Nat \ {0}, s \in Int : u = p + n + 3 /\ s = r - 1
    BY <1>2
  <2>2. /\ s <= Len(text) /\ Figures(text, u, s) /\ u \in u .. s
        /\ (r = p + n + 5 => p + n + 4 \in u .. s)
    BY <1>1, <1>2, <2>1
  <2>. QED  BY <2>1, <2>2, FigureAt
<1>8. Number(SubSeq(text, p, p + n - 1)) = Degrees(text, p, n)
  BY <1>1, <1>2, NumberAt
<1>9. Degrees(text, p, n) \in Below1000
  BY <1>1, <1>2, NumberAt
<1>10. Minutes(text, q, e) \in Nat /\ Minutes(text, q, e) < 60000
  <2>1. /\ q + 1 <= e /\ e <= Len(text) /\ Figures(text, q, q + 1) /\ Figures(text, q + 3, e)
        /\ Pair(text, q) < 60
    BY <1>1, <1>2, <1>5
  <2>. QED  BY <2>1, MinutesType
<1>11. \A neg : Meaning(form, text, p, n, r, neg)
                = Signed(Degrees(text, p, n) * Deg + 6 * Minutes(text, p + n, r - 1),
                         text[r] = neg)
  BY DEF Meaning
<1>. QED  BY <1>1, <1>3, <1>4, <1>5, <1>6, <1>7, <1>8, <1>9, <1>10, <1>11 DEF PlainText

LEMMA LatDecimalIs ==
    ASSUME text \in Seq(TextChar), NEW p \in Nat \ {0}, NEW r \in Nat, r <= Len(text),
           Coordinate("decimal", text, p, 2, r, NS)
    PROVE  queryLatValue(p) = Reading(Meaning("decimal", text, p, 2, r, "S"), r + 1 - p, text)
<1>1. PICK n \in {2, 3} : n = 2
  OBVIOUS
<1>2. PICK H, form, neg : H = NS /\ form = "decimal" /\ neg = "S"
                          /\ form # "dms" /\ form # "minutes"
  OBVIOUS
<1>3. Coordinate(form, text, p, n, r, H)
  BY <1>1, <1>2
<1>0. PlainText(form, p, n, r, H)
  BY <1>2, <1>3, PlainRead
<1>4. /\ r = p + n + 4 /\ text[r] \in H /\ At(r) = text[r]
      /\ At(p) \in Digit /\ At(p + 1) \in Digit
      /\ At(p + n) \in Digit /\ At(p + n + 1) \in Digit /\ At(p + n + 2) = "."
      /\ At(p + n + 3) \in Digit
      /\ Number(SubSeq(text, p, p + n - 1)) = Degrees(text, p, n)
      /\ Figures(text, p + n, p + n + 1) /\ Figures(text, p + n + 3, r - 1)
      /\ Meaning(form, text, p, n, r, neg)
         = Signed(Degrees(text, p, n) * Deg + 6 * Minutes(text, p + n, r - 1), text[r] = neg)
      /\ Minutes(text, p + n, r - 1) \in Nat
  BY <1>0, <1>2 DEF PlainText
<1>5. /\ p + n = p + 2 /\ p + n + 1 = p + 3 /\ p + n + 2 = p + 4 /\ p + n + 3 = p + 5
      /\ r = p + 6 /\ r + 1 - p = 7 /\ p + n - 1 = p + 1
  BY <1>1, <1>4
<1>6. Fits(LatDecimal, p)
  BY <1>2, <1>4, <1>5, LatDecimalFits
<1>7. ~IsLatDms(p)
  <2>1. At(p + 2) \in Figure
    BY <1>4, <1>5, NoMark
  <2>2. At(p + 2) \notin {"-", "*"}
    BY <2>1, CharKinds DEF Mark
  <2>. QED  BY <2>2, LatDmsFits DEF IsLatDms
<1>8. twoChars2int(p) = Degrees(text, p, n)
  <2>1. Fits(Two, p)
    <3>1. /\ Shaped(Two, 2) /\ Two[1] = Digit /\ Two[2] = Digit
      BY DEF Two, Shaped
    <3>2. 1 .. 2 = {1, 2} /\ p + 1 - 1 = p /\ p + 2 - 1 = p + 1 /\ p + 1 <= Len(text) /\ 2 \in Nat
      BY <1>5
    <3>3. Matched(Two, 2, p)
      BY <1>4, <3>1, <3>2 DEF Matched
    <3>. QED  BY <3>1, <3>2, <3>3, FitsChars
  <2>. QED  BY <1>4, <1>5, <2>1 DEF twoChars2int
<1>9. atof(text, p + 2) = Minutes(text, p + n, r - 1)
  <2>1. PICK q \in Nat \ {0} : q = p + 2
    OBVIOUS
  <2>2. CharAt(text, r) \in NS /\ CharAt(text, q + 2) = "."
    BY <1>2, <1>4, <1>5, <2>1 DEF At
  <2>3. CharAt(text, r) \notin Figure /\ CharAt(text, r) # "E"
    <3>1. "E" \in EW
      BY DEF EW
    <3>. QED  BY <2>2, <3>1, CharKinds
  <2>4. /\ q + 1 <= Len(text) /\ Figures(text, q, q + 1) /\ q + 3 <= r
        /\ r <= Len(text) + 1 /\ Figures(text, q + 3, r - 1)
    BY <1>4, <1>5, <2>1
  <2>5. atof(text, q) = Minutes(text, q, r - 1)
    BY <2>2, <2>3, <2>4, MinutesRead
  <2>. QED  BY <1>5, <2>1, <2>5
<1>10. queryLatValue(p)
       = Reading(Signed(twoChars2int(p) * Deg + atof(text, p + 2) * 6, At(p + 6) = "S"), 7, text)
  BY <1>6, <1>7 DEF queryLatValue
<1>11. atof(text, p + 2) * 6 = 6 * Minutes(text, p + n, r - 1)
  BY <1>4, <1>9
<1>. QED  BY <1>1, <1>2, <1>4, <1>5, <1>8, <1>10, <1>11

\* The hemisphere at r is not read as an exponent.
PlainEnd(r) == At(r) = "E" => At(r + 1) \notin Figure \union {"-"}

\* A longitude without its third digit.
TwoDigits(east) == (east \div (10 * Deg)) * Deg + (east % Deg)

DigitLost(a, d, m) ==
    /\ TwoDigits((10 * a + d) * Deg + 6 * m) = a * Deg + 6 * m
    /\ a * Deg + 6 * m \in Nat /\ a * Deg + 6 * m < 180 * Deg

LEMMA TwoDigitsAre ==
    ASSUME NEW a \in Below100, NEW d \in 0 .. 9, NEW m \in Nat, m < 60000
    PROVE  DigitLost(a, d, m)
<1>1. PICK f \in Nat : f = 6 * m /\ f < 360000
  OBVIOUS
<1>2. PICK b \in Nat : b = a /\ b < 100
  BY DEF Below100
<1>3. PICK e \in Nat : e = (10 * b + d) * 360000 + f
  BY <1>1
<1>4. e \div 3600000 = b
  BY <1>1, <1>3, SMT
<1>5. e % 360000 = f
  BY <1>1, <1>3, SMT
<1>6. b * 360000 + f \in Nat /\ b * 360000 + f < 64800000
  BY <1>1, <1>2, SMT
<1>7. Deg = 360000 /\ 10 * Deg = 3600000 /\ 180 * Deg = 64800000
  BY SMT DEF Deg
<1>8. TwoDigits(e) = b * 360000 + f
  BY <1>4, <1>5, <1>7, SMT DEF TwoDigits
<1>. QED  BY <1>1, <1>2, <1>3, <1>6, <1>7, <1>8, SMT DEF DigitLost

LEMMA LonDecimalIs ==
    ASSUME text \in Seq(TextChar), NEW p \in Nat \ {0}, NEW r \in Nat, r <= Len(text),
           Coordinate("decimal", text, p, 3, r, EW), PlainEnd(r),
           NEW v, v = TwoDigits(Absolute(Meaning("decimal", text, p, 3, r, "W")))
    PROVE  /\ queryLonValue(p) = Reading(v, r + 1 - p, text)
           /\ v \in Nat /\ v < 180 * Deg
<1>1. PICK n \in {2, 3} : n = 3
  OBVIOUS
<1>2. PICK H, form, neg : H = EW /\ form = "decimal" /\ neg = "W"
                          /\ form # "dms" /\ form # "minutes"
  OBVIOUS
<1>3. Coordinate(form, text, p, n, r, H)
  BY <1>1, <1>2
<1>0. PlainText(form, p, n, r, H)
  BY <1>2, <1>3, PlainRead
<1>4. /\ r = p + n + 4 /\ text[r] \in H /\ At(r) = text[r]
      /\ At(p) \in Digit /\ At(p + 1) \in Digit /\ At(p + 2) \in Digit
      /\ At(p + n) \in Digit /\ At(p + n + 1) \in Digit /\ At(p + n + 2) = "."
      /\ At(p + n + 3) \in Digit
      /\ Degrees(text, p, n) \in Below1000
      /\ Figures(text, p + n, p + n + 1) /\ Figures(text, p + n + 3, r - 1)
      /\ Meaning(form, text, p, n, r, neg)
         = Signed(Degrees(text, p, n) * Deg + 6 * Minutes(text, p + n, r - 1), text[r] = neg)
      /\ Minutes(text, p + n, r - 1) \in Nat /\ Minutes(text, p + n, r - 1) < 60000
  BY <1>0, <1>1, <1>2 DEF PlainText
<1>5. /\ p + n = p + 3 /\ p + n + 1 = p + 4 /\ p + n + 2 = p + 5 /\ p + n + 3 = p + 6
      /\ r = p + 7 /\ r + 1 - p = 8
  BY <1>1, <1>4
<1>6. Fits(LonDecimal, p)
  BY <1>2, <1>4, <1>5, LonDecimalFits
<1>7. ~IsLonDms(p) /\ At(p + 6) # "W"
  <2>1. At(p + 3) \in Figure /\ At(p + 6) \in Figure
    BY <1>4, <1>5, NoMark
  <2>2. At(p + 3) \notin {"-", "*"}
    BY <2>1, CharKinds DEF Mark
  <2>3. At(p + 6) # "W"
    BY <2>1 DEF Figure
  <2>. QED  BY <2>2, <2>3, LonDmsFits DEF IsLonDms
<1>14. PICK a, d, m : /\ a = Pair(text, p) /\ d = Worth[text[p + 2]]
                      /\ m = Minutes(text, p + n, r - 1)
  OBVIOUS
<1>8. /\ a \in Below100 /\ d \in 0 .. 9 /\ m \in Nat /\ m < 60000
      /\ Degrees(text, p, n) = 10 * a + d /\ twoChars2int(p) = a
  <2>1. /\ text[p] \in Digit /\ text[p + 1] \in Digit /\ text[p + 2] \in Digit
        /\ p + 2 <= Len(text)
    <3>1. p \in 1 .. Len(text) /\ p + 1 \in 1 .. Len(text) /\ p + 2 \in 1 .. Len(text)
      BY <1>5
    <3>2. p + 2 <= Len(text)
      BY <3>1
    <3>3. At(p) = text[p] /\ At(p + 1) = text[p + 1] /\ At(p + 2) = text[p + 2]
      BY <3>1, IsAt
    <3>4. At(p) \in Digit /\ At(p + 1) \in Digit /\ At(p + 2) \in Digit
      BY <1>4
    <3>. QED  BY <3>2, <3>3, <3>4, Zenon
  <2>2. PICK x \in 0 .. 9, y \in 0 .. 9, z \in 0 .. 9 :
            x = Worth[text[p]] /\ y = Worth[text[p + 1]] /\ z = Worth[text[p + 2]]
    BY <2>1, FigureFacts
  <2>3. Pair(text, p) = 10 * x + y /\ Degrees(text, p, n) = 100 * x + (10 * y + z)
    <3>1. p + 1 + 1 = p + 2 /\ n # 2
      BY <1>1
    <3>. QED  BY <2>2, <3>1 DEF Pair, Degrees
  <2>4. 100 * x + (10 * y + z) = 10 * (10 * x + y) + z /\ 10 * x + y \in Below100
    BY DEF Below100
  <2>5. twoChars2int(p) = Pair(text, p)
    <3>1. Shaped(Two, 2) /\ Two[1] = Digit /\ Two[2] = Digit
      BY DEF Two, Shaped
    <3>2. 1 .. 2 = {1, 2} /\ p + 1 - 1 = p /\ p + 2 - 1 = p + 1 /\ p + 1 <= Len(text) /\ 2 \in Nat
      BY <1>5
    <3>3. Matched(Two, 2, p)
      <4>1. At(p + 1 - 1) \in Two[1] /\ At(p + 2 - 1) \in Two[2] /\ p + 2 - 1 <= Len(text)
        BY <1>4, <3>1, <3>2
      <4>. QED  BY <3>2, <4>1 DEF Matched
    <3>4. Fits(Two, p)
      BY <3>1, <3>2, <3>3, FitsChars
    <3>5. Figures(text, p, p + 1)
      <4>1. \A i \in p .. p + 1 : i = p \/ i = p + 1
        OBVIOUS
      <4>. QED  BY <2>1, <4>1 DEF Figures
    <3>6. Number(SubSeq(text, p, p + 1)) = Pair(text, p)
      <4>1. PICK s \in Int : s = p + 1
        OBVIOUS
      <4>2. s <= Len(text) /\ Figures(text, p, s)
        BY <3>2, <3>5, <4>1
      <4>. QED  BY <4>1, <4>2, PairIs
    <3>. QED  BY <3>4, <3>6 DEF twoChars2int
  <2>6. a = 10 * x + y /\ d = z
    BY <1>14, <2>2, <2>3
  <2>7. a \in Below100 /\ d \in 0 .. 9 /\ Degrees(text, p, n) = 10 * a + d
    BY <2>3, <2>4, <2>6
  <2>. QED  BY <1>4, <1>14, <2>5, <2>7
<1>9. atof(text, p + 3) = m
  <2>1. PICK q \in Nat \ {0} : q = p + 3
    OBVIOUS
  <2>2. /\ CharAt(text, r) \in EW /\ CharAt(text, q + 2) = "."
        /\ (CharAt(text, r) = "E" => CharAt(text, r + 1) \notin Figure \union {"-"})
    BY <1>2, <1>4, <1>5, <2>1 DEF At, PlainEnd
  <2>3. CharAt(text, r) \notin Figure
    BY <2>2, CharKinds
  <2>4. /\ q + 1 <= Len(text) /\ Figures(text, q, q + 1) /\ q + 3 <= r
        /\ r <= Len(text) + 1 /\ Figures(text, q + 3, r - 1)
    BY <1>4, <1>5, <2>1
  <2>5. atof(text, q) = Minutes(text, q, r - 1)
    BY <2>2, <2>3, <2>4, MinutesRead
  <2>. QED  BY <1>5, <1>14, <2>1, <2>5
<1>10. queryLonValue(p) = Reading(twoChars2int(p) * Deg + atof(text, p + 3) * 6, 8, text)
  BY <1>6, <1>7 DEF queryLonValue, Signed
<1>11. Absolute(Meaning("decimal", text, p, 3, r, "W")) = (10 * a + d) * Deg + 6 * m
  <2>1. PICK e \in Nat : e = (10 * a + d) * Deg + 6 * m
    BY <1>8 DEF Below100, Deg
  <2>2. Meaning("decimal", text, p, 3, r, "W") = Signed(e, text[r] = neg)
    BY <1>1, <1>2, <1>4, <1>8, <1>14, <2>1
  <2>. QED  BY <2>1, <2>2, SignedFacts
<1>12. v = a * Deg + 6 * m /\ v \in Nat /\ v < 180 * Deg
  <2>1. DigitLost(a, d, m)
    BY <1>8, TwoDigitsAre
  <2>. QED  BY <1>11, <2>1, Zenon DEF DigitLost
<1>13. m * 6 = 6 * m
  BY <1>8
<1>. QED  BY <1>5, <1>8, <1>9, <1>10, <1>12, <1>13

\* Degrees and minutes with a dash between, at p in the text.
MinutesText(p, n, r, H) ==
    /\ \/ r = p + n + 3 /\ At(p + n + 3) \in H
       \/ r > p + n + 4 /\ At(p + n + 3) = Comma /\ Figures(text, p + n + 4, r - 1)
    /\ text[r] \in H /\ At(r) = text[r]
    /\ At(p) \in Digit /\ At(p + 1) \in Digit /\ (n = 3 => At(p + 2) \in Digit)
    /\ At(p + n) = "-" /\ At(p + n + 1) \in Digit /\ At(p + n + 2) \in Digit
    /\ Figures(text, p + n + 1, p + n + 2)
    /\ \A q \in p + n + 2 .. r - 1 : At(q) \in Digit \/ At(q) = Comma
    /\ \A q \in p .. r - 1 : At(q) # "*"
    /\ atoi(text, p) = Degrees(text, p, n) /\ Degrees(text, p, n) \in Below1000
    /\ Minutes(text, p + n + 1, r - 1) \in Nat
    /\ \A neg : Meaning("minutes", text, p, n, r, neg)
                = Signed(Degrees(text, p, n) * Deg + 6 * Minutes(text, p + n + 1, r - 1),
                         text[r] = neg)

LEMMA MinutesTextRead ==
    ASSUME text \in Seq(TextChar), NEW p \in Nat \ {0}, NEW n \in {2, 3},
           NEW r \in Nat, r <= Len(text), NEW H, H = NS \/ H = EW,
           Coordinate("minutes", text, p, n, r, H)
    PROVE  MinutesText(p, n, r, H)
<1>1. /\ Figures(text, p, p + n - 1) /\ text[r] \in H
      /\ text[p + n] = "-" /\ Figures(text, p + n + 1, p + n + 2)
      /\ \/ r = p + n + 3
         \/ /\ r > p + n + 4 /\ text[p + n + 3] = Comma
            /\ Figures(text, p + n + 4, r - 1)
  BY DEF Coordinate
<1>2. r >= p + n + 3 /\ p + n - 1 <= Len(text)
  BY <1>1
<1>3. At(r) = text[r] /\ At(p + n) = "-" /\ At(p + n + 3) = text[p + n + 3]
  <2>1. r \in 1 .. Len(text) /\ p + n \in 1 .. Len(text) /\ p + n + 3 \in 1 .. Len(text)
    BY <1>2
  <2>. QED  BY <1>1, <2>1, IsAt
<1>4. At(p) \in Digit /\ At(p + 1) \in Digit /\ (n = 3 => At(p + 2) \in Digit)
  <2>1. PICK s \in Int : s = p + n - 1
    OBVIOUS
  <2>2. /\ s <= Len(text) /\ Figures(text, p, s)
        /\ p \in p .. s /\ p + 1 \in p .. s /\ (n = 3 => p + 2 \in p .. s)
    BY <1>1, <1>2, <2>1
  <2>. QED  BY <2>2, FigureAt
<1>5. PICK u \in Nat \ {0}, s \in Int, e \in Nat : u = p + n + 1 /\ s = p + n + 2 /\ e = r - 1
  BY <1>2
<1>6. At(p + n + 1) \in Digit /\ At(p + n + 2) \in Digit
  <2>1. s <= Len(text) /\ Figures(text, u, s) /\ u \in u .. s /\ s \in u .. s
    BY <1>1, <1>2, <1>5
  <2>. QED  BY <1>5, <2>1, FigureAt
<1>7. ASSUME r > p + n + 4 /\ Figures(text, p + n + 4, r - 1), NEW q \in p + n + 4 .. r - 1
      PROVE  At(q) \in Digit
  <2>1. PICK v \in Nat \ {0} : v = p + n + 4
    OBVIOUS
  <2>2. e <= Len(text) /\ e \in Int /\ Figures(text, v, e) /\ q \in v .. e
    BY <1>5, <1>7, <2>1
  <2>. QED  BY <2>2, FigureAt
<1>8. ASSUME NEW q \in p + n + 2 .. r - 1
      PROVE  At(q) \in Digit \/ At(q) = Comma
  <2>1. CASE q = p + n + 2
    BY <1>6, <2>1
  <2>2. CASE q = p + n + 3
    BY <1>1, <1>3, <2>2
  <2>3. CASE q >= p + n + 4
    <3>1. r > p + n + 4 /\ Figures(text, p + n + 4, r - 1) /\ q \in p + n + 4 .. r - 1
      BY <1>1, <2>3
    <3>. QED  BY <1>7, <3>1
  <2>. QED  BY <2>1, <2>2, <2>3
<1>9. ASSUME NEW q \in p .. r - 1
      PROVE  At(q) # "*"
  <2>1. \/ q = p \/ q = p + 1 \/ (n = 3 /\ q = p + 2) \/ q = p + n \/ q = p + n + 1
        \/ q \in p + n + 2 .. r - 1
    OBVIOUS
  <2>2. At(q) \in Digit \/ At(q) = "-" \/ At(q) = Comma
    BY <1>3, <1>4, <1>6, <1>8, <2>1
  <2>. QED  BY <2>2, NoMark
<1>10. atoi(text, p) = Degrees(text, p, n)
  <2>1. CharAt(text, p + n) \notin Figure
    BY <1>3, CharKinds DEF At
  <2>. QED  BY <1>1, <1>2, <2>1, NumberAt
<1>11. Degrees(text, p, n) \in Below1000
  BY <1>1, <1>2, NumberAt
<1>12. Minutes(text, u, e) \in Nat
  <2>1. Figures(text, u + 3, e)
    <3>1. CASE r = p + n + 3
      BY <1>5, <3>1 DEF Figures
    <3>2. CASE r > p + n + 4 /\ Figures(text, p + n + 4, r - 1)
      BY <1>5, <3>2
    <3>. QED  BY <1>1, <3>1, <3>2
  <2>2. u + 1 <= e /\ e <= Len(text) /\ Figures(text, u, u + 1)
    BY <1>1, <1>2, <1>5
  <2>. QED  BY <2>1, <2>2, MinutesType
<1>13. \A neg : Meaning("minutes", text, p, n, r, neg)
                = Signed(Degrees(text, p, n) * Deg + 6 * Minutes(text, p + n + 1, r - 1),
                         text[r] = neg)
  BY DEF Meaning
<1>14. \/ r = p + n + 3 /\ At(p + n + 3) \in H
       \/ r > p + n + 4 /\ At(p + n + 3) = Comma /\ Figures(text, p + n + 4, r - 1)
  BY <1>1, <1>3
<1>. QED  BY <1>1, <1>3, <1>4, <1>5, <1>6, <1>8, <1>9, <1>10, <1>11, <1>12, <1>13, <1>14
          DEF MinutesText

\* Texts that agree from a to e.
Agree(t, u, a, e) == e <= Len(t) /\ e <= Len(u) /\ \A i \in a .. e : t[i] = u[i]

LEMMA AgreeSeq ==
    ASSUME NEW t \in Seq(TextChar), NEW u \in Seq(TextChar), NEW a \in Nat \ {0}, NEW e \in Int,
           Agree(t, u, a, e)
    PROVE  SubSeq(t, a, e) = SubSeq(u, a, e)
<1>1. PICK x, y : x = SubSeq(t, a, e) /\ y = SubSeq(u, a, e)
  OBVIOUS
<1>2. CASE e < a
  <2>1. SubSeq(t, a, e) = <<>> /\ SubSeq(u, a, e) = <<>>
    BY <1>2
  <2>. QED  BY <2>1
<1>3. CASE e >= a
  <2>1. PICK n \in Nat : n = e + 1 - a
    BY <1>3
  <2>2. x \in Seq(TextChar) /\ Len(x) = n /\ \A i \in 1 .. n : x[i] = t[a + i - 1]
    BY <1>1, <1>3, <2>1 DEF Agree
  <2>3. y \in Seq(TextChar) /\ Len(y) = n /\ \A i \in 1 .. n : y[i] = u[a + i - 1]
    BY <1>1, <1>3, <2>1 DEF Agree
  <2>4. \A i \in 1 .. n : a + i - 1 \in a .. e
    BY <2>1
  <2>5. Alike(x, y, n)
    BY <2>2, <2>3, <2>4 DEF Alike, Agree
  <2>6. x = y
    BY <2>2, <2>3, <2>5, SameSeq
  <2>. QED  BY <1>1, <2>6
<1>4. e < a \/ e >= a
  OBVIOUS
<1>. QED  BY <1>2, <1>3, <1>4, Zenon

LEMMA AgreeMinutes ==
    ASSUME NEW t \in Seq(TextChar), NEW u \in Seq(TextChar), NEW q \in Nat \ {0}, NEW e \in Int,
           Agree(t, u, q, q + 1), Agree(t, u, q + 3, e)
    PROVE  Minutes(t, q, e) = Minutes(u, q, e)
<1>1. Pair(t, q) = Pair(u, q)
  <2>1. t[q] = u[q] /\ t[q + 1] = u[q + 1]
    BY DEF Agree
  <2>. QED  BY <2>1, Zenon DEF Pair
<1>2. SubSeq(t, q + 3, e) = SubSeq(u, q + 3, e)
  <2>1. PICK a \in Nat \ {0} : a = q + 3
    OBVIOUS
  <2>. QED  BY <2>1, AgreeSeq
<1>3. Thousandths(t, q + 3, e) = Thousandths(u, q + 3, e)
  BY <1>2, Zenon DEF Thousandths
<1>. QED  BY <1>1, <1>3 DEF Minutes

LEMMA AgreeFigures ==
    ASSUME NEW t, NEW u, NEW a, NEW e, Agree(t, u, a, e), Figures(u, a, e)
    PROVE  Figures(t, a, e)
BY DEF Agree, Figures

\* The text with a point for the comma of the minutes.
Pointed(t, p, n, r) ==
    /\ Len(t) = Len(text)
    /\ \A i \in 1 .. Len(text) :
          t[i] = IF i \in p + n + 3 .. r - 1 /\ text[i] = Comma THEN "." ELSE text[i]

LEMMA PointedRead ==
    ASSUME text \in Seq(TextChar), NEW p \in Nat \ {0}, NEW n \in {2, 3},
           NEW r \in Nat, r <= Len(text), NEW H, H = NS \/ H = EW,
           MinutesText(p, n, r, H), PlainEnd(r),
           NEW t \in Seq(TextChar), Pointed(t, p, n, r)
    PROVE  atof(t, p + n + 1) = Minutes(text, p + n + 1, r - 1)
<1>1. PICK q \in Nat \ {0} : q = p + n + 1
  OBVIOUS
<1>2. /\ \/ r = q + 2 /\ At(q + 2) \in H
         \/ r > q + 3 /\ At(q + 2) = Comma /\ Figures(text, q + 3, r - 1)
      /\ text[r] \in H /\ At(r) = text[r] /\ Figures(text, q, q + 1)
  BY <1>1 DEF MinutesText
<1>3. /\ Len(t) = Len(text) /\ Len(text) \in Nat
      /\ \A i \in 1 .. Len(text) :
            t[i] = IF i \in q + 2 .. r - 1 /\ text[i] = Comma THEN "." ELSE text[i]
  BY <1>1 DEF Pointed
<1>4. r >= q + 2
  BY <1>2
<1>5. \A i \in 1 .. Len(text) : i \notin q + 2 .. r - 1 => t[i] = text[i] /\ CharAt(t, i) = At(i)
  BY <1>3, AtFacts DEF At
<1>6. Agree(t, text, q, q + 1)
  <2>1. ASSUME NEW i \in q .. q + 1 PROVE t[i] = text[i]
    BY <1>3, <1>4, <1>5
  <2>. QED  BY <1>3, <1>4, <2>1 DEF Agree
<1>7. ASSUME Figures(text, q + 3, r - 1)
      PROVE  Agree(t, text, q + 3, r - 1)
  <2>1. ASSUME NEW i \in q + 3 .. r - 1 PROVE t[i] = text[i]
    <3>1. text[i] \in Digit /\ i \in 1 .. Len(text)
      BY <1>7 DEF Figures
    <3>2. text[i] # Comma
      BY <3>1, FigureFacts, CharKinds
    <3>. QED  BY <1>3, <3>1, <3>2
  <2>. QED  BY <1>3, <2>1 DEF Agree
<1>8. Figures(t, q, q + 1)
  BY <1>2, <1>6, AgreeFigures
<1>9. CharAt(t, r) = At(r) /\ CharAt(t, r + 1) = At(r + 1)
  <2>1. r \in 1 .. Len(text)
    BY <1>4
  <2>2. CASE r + 1 \in 1 .. Len(text)
    BY <1>5, <2>1, <2>2
  <2>3. CASE r + 1 \notin 1 .. Len(text)
    BY <1>3, <1>5, <2>1, <2>3, AtFacts DEF At
  <2>. QED  BY <2>2, <2>3
<1>10. CharAt(t, r) \notin Figure /\ CharAt(t, r) # "."
  BY <1>2, <1>9, CharKinds
<1>11. CharAt(t, r) = "E" => CharAt(t, r + 1) \notin Figure \union {"-"}
  BY <1>9 DEF PlainEnd
<1>12. CASE r = q + 2 /\ At(q + 2) \in H
  <2>1. atof(t, q) = Minutes(t, q, r - 1)
    BY <1>3, <1>8, <1>10, <1>11, <1>12, MinutesRead
  <2>2. Figures(text, q + 3, r - 1)
    BY <1>12 DEF Figures
  <2>3. Agree(t, text, q + 3, r - 1)
    BY <1>7, <2>2
  <2>4. PICK e \in Int : e = r - 1
    OBVIOUS
  <2>5. Minutes(t, q, e) = Minutes(text, q, e)
    BY <1>6, <2>3, <2>4, AgreeMinutes
  <2>. QED  BY <1>1, <2>1, <2>4, <2>5
<1>13. CASE r > q + 3 /\ At(q + 2) = Comma /\ Figures(text, q + 3, r - 1)
  <2>3. Agree(t, text, q + 3, r - 1)
    BY <1>7, <1>13
  <2>2. Figures(t, q + 3, r - 1)
    BY <1>13, <2>3, AgreeFigures
  <2>6. CharAt(t, q + 2) = "."
    <3>1. q + 2 \in 1 .. Len(text) /\ q + 2 \in q + 2 .. r - 1
      BY <1>13
    <3>2. text[q + 2] = Comma
      BY <1>13, <3>1, IsAt
    <3>3. t[q + 2] = "."
      BY <1>3, <3>1, <3>2
    <3>. QED  BY <1>3, <3>1, <3>3, AtFacts
  <2>1. atof(t, q) = Minutes(t, q, r - 1)
    BY <1>3, <1>8, <1>10, <1>11, <1>13, <2>2, <2>6, MinutesRead
  <2>4. PICK e \in Int : e = r - 1
    OBVIOUS
  <2>5. Minutes(t, q, e) = Minutes(text, q, e)
    BY <1>6, <2>3, <2>4, AgreeMinutes
  <2>. QED  BY <1>1, <2>1, <2>4, <2>5
<1>. QED  BY <1>2, <1>12, <1>13

\* x is a value read between p and r, and nothing behind r was written to.
ReadAs(x, v, p, r) ==
    /\ x.value = v /\ x.size = r + 1 - p
    /\ \A q \in r + 1 .. Len(text) : x.text[q] = text[q]

LEMMA LatMinutesIs ==
    ASSUME text \in Seq(TextChar), NEW p \in Nat \ {0}, NEW r \in Nat, r <= Len(text),
           Coordinate("minutes", text, p, 2, r, NS)
    PROVE  ReadAs(queryLatValue(p), Meaning("minutes", text, p, 2, r, "S"), p, r)
<1>1. PICK n \in {2, 3} : n = 2
  OBVIOUS
<1>2. PICK H, neg : H = NS /\ neg = "S"
  OBVIOUS
<1>3. MinutesText(p, n, r, H)
  BY <1>1, <1>2, MinutesTextRead
<1>4. /\ p + n = p + 2 /\ p + n + 1 = p + 3 /\ p + n + 2 = p + 4 /\ p + n + 3 = p + 5
      /\ p + n + 4 = p + 6
  BY <1>1
<1>5. /\ \/ r = p + 5 /\ At(p + 5) \in NS
         \/ r > p + 6 /\ At(p + 5) = Comma
      /\ text[r] \in NS /\ At(r) = text[r]
      /\ At(p) \in Digit /\ At(p + 1) \in Digit
      /\ At(p + 2) = "-" /\ At(p + 3) \in Digit
      /\ \A q \in p + 4 .. r - 1 : At(q) \in Digit \/ At(q) = Comma
      /\ \A q \in p .. r - 1 : At(q) # "*"
      /\ atoi(text, p) = Degrees(text, p, n)
      /\ Minutes(text, p + n + 1, r - 1) \in Nat
      /\ Meaning("minutes", text, p, n, r, neg)
         = Signed(Degrees(text, p, n) * Deg + 6 * Minutes(text, p + n + 1, r - 1), text[r] = neg)
  BY <1>2, <1>3, <1>4 DEF MinutesText
<1>6. r >= p + 5 /\ Len(text) \in Nat /\ r \in 1 .. Len(text)
  BY <1>5
<1>7. At(p + 5) \notin {"-", "*"}
  BY <1>5, CharKinds DEF Mark
<1>8. ~IsLatDms(p)
  BY <1>7, LatDmsFits DEF IsLatDms
<1>9. ~Fits(LatDecimal, p)
  <2>1. "-" \notin Digit \union Mark
    BY FigureFacts, CharKinds
  <2>. QED  BY <1>5, <2>1, LatDecimalFits
<1>10. Fits(LatOpen, p)
  <2>1. p + 3 <= Len(text)
    BY <1>6
  <2>. QED  BY <1>5, <2>1, LatOpenFits
<1> DEFINE S == {q \in p + 4 .. Len(text) + 1 :
                     At(q) \notin Digit \union Mark \union {Comma, "\n"}}
           end == Min(S)
           t == [i \in DOMAIN text |-> IF i \in p + 4 .. end /\ text[i] = Comma
                                     THEN "." ELSE text[i]]
<1>11. LatMinutes(p) = IF At(end) \in NS /\ Unmarked(p, end - p)
                          /\ \A i \in p + 4 .. end : At(i) # "\n"
                       THEN Reading(Signed(atoi(text, p) * Deg + atof(t, p + 3) * 6,
                                           At(end) = "S"), end + 1 - p, t)
                       ELSE NotFound(text)
  BY DEF LatMinutes
<1>12. end = r
  <2>1. At(r) \notin Digit \union Mark \union {Comma, "\n"}
    BY <1>5, FigureFacts, CharKinds
  <2>2. S \in SUBSET Nat /\ r \in S
    BY <1>6, <2>1
  <2>3. \A q \in S : q >= r
    BY <1>5, <1>6
  <2>4. end \in S /\ end <= r
    BY <2>2, MinFacts
  <2> HIDE DEF end
  <2>5. end >= r /\ end \in Nat
    BY <2>2, <2>3, <2>4
  <2>. QED  BY <2>4, <2>5
<1> HIDE DEF end
<1>13. t \in Seq(TextChar) /\ Len(t) = Len(text)
  <2>1. DOMAIN text = 1 .. Len(text) /\ \A i \in 1 .. Len(text) : text[i] \in TextChar
    OBVIOUS
  <2>2. "." \in TextChar
    BY DEF TextChar
  <2>3. t \in [1 .. Len(text) -> TextChar] /\ Len(text) \in Nat
    BY <2>1, <2>2
  <2>. QED  BY <2>3
<1>14. ASSUME NEW i \in 1 .. Len(text)
       PROVE  t[i] = IF i \in p + n + 3 .. r - 1 /\ text[i] = Comma THEN "." ELSE text[i]
  <2>1. t[i] = IF i \in p + 4 .. r /\ text[i] = Comma THEN "." ELSE text[i]
    BY <1>12
  <2>2. i = p + 4 => text[i] # Comma
    <3>1. At(p + 4) \in Digit
      <4>1. At(p + n + 2) \in Digit
        BY <1>3 DEF MinutesText
      <4>. QED  BY <1>4, <4>1
    <3>. QED  BY <3>1, IsAt, FigureFacts, CharKinds
  <2>3. text[r] # Comma
    BY <1>5, CharKinds
  <2>4. i \in p + 4 .. r <=> i \in p + n + 3 .. r - 1 \/ i = p + 4 \/ i = r
    BY <1>4, <1>6
  <2>. QED  BY <2>1, <2>2, <2>3, <2>4
<1> HIDE DEF t
<1>15. Pointed(t, p, n, r)
  BY <1>13, <1>14 DEF Pointed
<1>16. atof(t, p + 3) = Minutes(text, p + n + 1, r - 1)
  <2>1. PlainEnd(r)
    BY <1>5, CharKinds DEF PlainEnd, EW
  <2>2. atof(t, p + n + 1) = Minutes(text, p + n + 1, r - 1)
    BY <1>2, <1>3, <1>13, <1>15, <2>1, PointedRead
  <2>. QED  BY <1>4, <2>2
<1>17. Unmarked(p, r - p) /\ \A i \in p + 4 .. r : At(i) # "\n"
  <2>1. Unmarked(p, r - p)
    <3>1. p + (r - p) - 1 = r - 1
      BY <1>6
    <3>. QED  BY <1>5, <3>1 DEF Unmarked
  <2>2. ASSUME NEW i \in p + 4 .. r PROVE At(i) # "\n"
    <3>1. i = r \/ i \in p + 4 .. r - 1
      BY <1>6
    <3>2. At(i) \in NS \/ At(i) \in Digit \/ At(i) = Comma
      BY <1>5, <3>1
    <3>. QED  BY <3>2, FigureFacts, CharKinds
  <2>. QED  BY <2>1, <2>2
<1>18. queryLatValue(p)
       = Reading(Signed(atoi(text, p) * Deg + atof(t, p + 3) * 6, At(r) = "S"), r + 1 - p, t)
  BY <1>5, <1>8, <1>9, <1>10, <1>11, <1>12, <1>17 DEF queryLatValue
<1>19. atof(t, p + 3) * 6 = 6 * Minutes(text, p + n + 1, r - 1)
  BY <1>5, <1>16
<1>20. \A q \in r + 1 .. Len(text) : t[q] = text[q]
  BY <1>6, <1>14
<1>21. Signed(atoi(text, p) * Deg + atof(t, p + 3) * 6, At(r) = "S")
       = Meaning("minutes", text, p, 2, r, "S")
  BY <1>1, <1>2, <1>5, <1>19
<1>. QED  BY <1>18, <1>20, <1>21 DEF ReadAs, Reading

LEMMA LonMinutesIs ==
    ASSUME text \in Seq(TextChar), NEW p \in Nat \ {0}, NEW r \in Nat, r <= Len(text),
           Coordinate("minutes", text, p, 3, r, EW), PlainEnd(r)
    PROVE  ReadAs(queryLonValue(p), Meaning("minutes", text, p, 3, r, "W"), p, r)
<1>1. PICK n \in {2, 3} : n = 3
  OBVIOUS
<1>2. PICK H, neg : H = EW /\ neg = "W"
  OBVIOUS
<1>3. MinutesText(p, n, r, H)
  BY <1>1, <1>2, MinutesTextRead
<1>4. /\ p + n = p + 3 /\ p + n + 1 = p + 4 /\ p + n + 2 = p + 5 /\ p + n + 3 = p + 6
      /\ p + n + 4 = p + 7
  BY <1>1
<1>5. /\ \/ r = p + 6 /\ At(p + 6) \in EW
         \/ r > p + 7 /\ At(p + 6) = Comma
      /\ text[r] \in EW /\ At(r) = text[r]
      /\ At(p) \in Digit /\ At(p + 1) \in Digit /\ At(p + 2) \in Digit
      /\ At(p + 3) = "-" /\ At(p + 4) \in Digit
      /\ \A q \in p + 5 .. r - 1 : At(q) \in Digit \/ At(q) = Comma
      /\ \A q \in p .. r - 1 : At(q) # "*"
      /\ atoi(text, p) = Degrees(text, p, n)
      /\ Minutes(text, p + n + 1, r - 1) \in Nat
      /\ Meaning("minutes", text, p, n, r, neg)
         = Signed(Degrees(text, p, n) * Deg + 6 * Minutes(text, p + n + 1, r - 1), text[r] = neg)
  BY <1>1, <1>2, <1>3, <1>4 DEF MinutesText
<1>6. r >= p + 6 /\ Len(text) \in Nat /\ r \in 1 .. Len(text)
  BY <1>5
<1>7. At(p + 6) \notin {"-", "*"}
  BY <1>5, CharKinds DEF Mark
<1>8. ~IsLonDms(p)
  BY <1>7, LonDmsFits DEF IsLonDms
<1>9. ~Fits(LonDecimal, p)
  <2>1. "-" \notin Digit \union Mark
    BY FigureFacts, CharKinds
  <2>. QED  BY <1>5, <2>1, LonDecimalFits
<1>10. Fits(LonOpen, p)
  <2>1. p + 4 <= Len(text)
    BY <1>6
  <2>. QED  BY <1>5, <2>1, LonOpenFits
<1> DEFINE S == {q \in p + 5 .. Len(text) + 1 : At(q) \in EW \union {NUL}}
           end == Min(S)
           t == [i \in DOMAIN text |->
                    IF i < p + 5 \/ i >= end \/ text[i] \in Digit \union Mark
                    THEN text[i] ELSE IF text[i] = Comma THEN "." ELSE NUL]
<1>11. LonMinutes(p) = IF At(end) \in EW /\ Unmarked(p, end - p)
                       THEN Reading(Signed(atoi(text, p) * Deg + atof(t, p + 4) * 6,
                                           At(end) = "W"), end + 1 - p, t)
                       ELSE NotFound(t)
  BY DEF LonMinutes
<1>12. end = r
  <2>2. S \in SUBSET Nat /\ r \in S
    BY <1>5, <1>6
  <2>3. \A q \in S : q >= r
    <3> SUFFICES ASSUME NEW q \in S, q < r PROVE FALSE
      BY <1>6
    <3>1. At(q) \in Digit \/ At(q) = Comma
      BY <1>5, <1>6
    <3>2. At(q) \in EW \/ At(q) = NUL
      OBVIOUS
    <3>. QED  BY <3>1, <3>2, FigureFacts, CharKinds
  <2>4. end \in S /\ end <= r
    BY <2>2, MinFacts
  <2> HIDE DEF end
  <2>5. end >= r /\ end \in Nat
    BY <2>2, <2>3, <2>4
  <2>. QED  BY <2>4, <2>5
<1> HIDE DEF end
<1>13. t \in Seq(TextChar) /\ Len(t) = Len(text)
  <2>1. DOMAIN text = 1 .. Len(text) /\ \A i \in 1 .. Len(text) : text[i] \in TextChar
    OBVIOUS
  <2>2. "." \in TextChar /\ NUL \in TextChar
    BY DEF TextChar
  <2>3. t \in [1 .. Len(text) -> TextChar] /\ Len(text) \in Nat
    BY <2>1, <2>2
  <2>. QED  BY <2>3
<1>14. ASSUME NEW i \in 1 .. Len(text)
       PROVE  t[i] = IF i \in p + n + 3 .. r - 1 /\ text[i] = Comma THEN "." ELSE text[i]
  <2>1. t[i] = IF i < p + 5 \/ i >= r \/ text[i] \in Digit \union Mark
               THEN text[i] ELSE IF text[i] = Comma THEN "." ELSE NUL
    BY <1>12
  <2>2. Comma \notin Digit \union Mark
    BY FigureFacts, CharKinds
  <2>3. CASE i < p + 5 \/ i >= r
    BY <1>4, <2>1, <2>3
  <2>4. CASE i \in p + 5 .. r - 1
    <3>1. text[i] \in Digit \/ text[i] = Comma
      BY <1>5, <2>4, IsAt
    <3>2. i = p + 5 => text[i] \in Digit
      <4>1. At(p + n + 2) \in Digit
        BY <1>3 DEF MinutesText
      <4>. QED  BY <1>4, <4>1, IsAt
    <3>3. i # p + 5 => i \in p + n + 3 .. r - 1
      BY <1>4, <2>4
    <3>. QED  BY <2>1, <2>2, <2>4, <3>1, <3>2, <3>3
  <2>. QED  BY <1>6, <2>3, <2>4
<1> HIDE DEF t
<1>15. Pointed(t, p, n, r)
  BY <1>13, <1>14 DEF Pointed
<1>16. atof(t, p + 4) = Minutes(text, p + n + 1, r - 1)
  <2>2. atof(t, p + n + 1) = Minutes(text, p + n + 1, r - 1)
    BY <1>2, <1>3, <1>13, <1>15, PointedRead
  <2>. QED  BY <1>4, <2>2
<1>17. Unmarked(p, r - p)
  <2>1. p + (r - p) - 1 = r - 1
    BY <1>6
  <2>. QED  BY <1>5, <2>1 DEF Unmarked
<1>18. queryLonValue(p)
       = Reading(Signed(atoi(text, p) * Deg + atof(t, p + 4) * 6, At(r) = "W"), r + 1 - p, t)
  BY <1>5, <1>8, <1>9, <1>10, <1>11, <1>12, <1>17 DEF queryLonValue
<1>19. atof(t, p + 4) * 6 = 6 * Minutes(text, p + n + 1, r - 1)
  BY <1>5, <1>16
<1>20. \A q \in r + 1 .. Len(text) : t[q] = text[q]
  BY <1>6, <1>14
<1>21. Signed(atoi(text, p) * Deg + atof(t, p + 4) * 6, At(r) = "W")
       = Meaning("minutes", text, p, 3, r, "W")
  BY <1>1, <1>2, <1>5, <1>19
<1>. QED  BY <1>18, <1>20, <1>21 DEF ReadAs, Reading

\* What Read says of a longitude.
LonRead(form, lon) ==
    IF form = "dms" THEN Absolute(lon)
    ELSE IF form = "decimal" THEN TwoDigits(Absolute(lon)) ELSE lon

\* A form whose latitude and longitude are read one by one.
InHalves(form) == form = "dms" \/ form = "minutes" \/ form = "decimal"

LEMMA LatIs ==
    ASSUME text \in Seq(TextChar), NEW p \in Nat \ {0}, NEW r \in Nat, r <= Len(text),
           NEW form, InHalves(form), Coordinate(form, text, p, 2, r, NS),
           NEW v, v = Meaning(form, text, p, 2, r, "S"), Absolute(v) < 90 * Deg
    PROVE  ReadAs(queryLatValue(p), v, p, r)
<1>1. CASE form = "dms"
  <2>1. /\ Coordinate("dms", text, p, 2, r, NS)
        /\ Absolute(Meaning("dms", text, p, 2, r, "S")) < 90 * Deg
    BY <1>1
  <2>2. queryLatValue(p) = Reading(v, r + 1 - p, text)
    BY <1>1, <2>1, LatDmsIs
  <2>. QED  BY <2>2 DEF ReadAs, Reading
<1>2. CASE form = "minutes"
  <2>1. Coordinate("minutes", text, p, 2, r, NS)
    BY <1>2
  <2>. QED  BY <1>2, <2>1, LatMinutesIs
<1>3. CASE form = "decimal"
  <2>1. Coordinate("decimal", text, p, 2, r, NS)
    BY <1>3
  <2>2. queryLatValue(p) = Reading(v, r + 1 - p, text)
    BY <1>3, <2>1, LatDecimalIs
  <2>. QED  BY <2>2 DEF ReadAs, Reading
<1>. QED  BY <1>1, <1>2, <1>3 DEF InHalves

LEMMA LonIs ==
    ASSUME text \in Seq(TextChar), NEW p \in Nat \ {0}, NEW r \in Nat, r <= Len(text),
           NEW form, InHalves(form), Coordinate(form, text, p, 3, r, EW), PlainEnd(r),
           NEW v \in Int, v = Meaning(form, text, p, 3, r, "W"), Absolute(v) < 180 * Deg
    PROVE  /\ ReadAs(queryLonValue(p), LonRead(form, v), p, r)
           /\ Absolute(LonRead(form, v)) < 180 * Deg
<1>1. CASE form = "dms"
  <2>1. /\ Coordinate("dms", text, p, 3, r, EW)
        /\ Absolute(Meaning("dms", text, p, 3, r, "W")) < 180 * Deg
    BY <1>1
  <2>2. queryLonValue(p) = Reading(Absolute(v), r + 1 - p, text)
    BY <1>1, <2>1, LonDmsIs
  <2>3. LonRead(form, v) = Absolute(v)
    BY <1>1 DEF LonRead
  <2>4. Absolute(Absolute(v)) = Absolute(v)
    BY DEF Absolute
  <2>. QED  BY <2>2, <2>3, <2>4 DEF ReadAs, Reading
<1>2. CASE form = "minutes"
  <2>1. Coordinate("minutes", text, p, 3, r, EW)
    BY <1>2
  <2>2. LonRead(form, v) = v
    BY <1>2 DEF LonRead
  <2>3. ReadAs(queryLonValue(p), v, p, r)
    BY <1>2, <2>1, LonMinutesIs
  <2>. QED  BY <2>2, <2>3
<1>3. CASE form = "decimal"
  <2>1. Coordinate("decimal", text, p, 3, r, EW)
    BY <1>3
  <2>2. PICK x : x = TwoDigits(Absolute(Meaning("decimal", text, p, 3, r, "W")))
    OBVIOUS
  <2>3. queryLonValue(p) = Reading(x, r + 1 - p, text) /\ x \in Nat /\ x < 180 * Deg
    BY <2>1, <2>2, LonDecimalIs
  <2>4. LonRead(form, v) = x
    BY <1>3, <2>2 DEF LonRead
  <2>5. Absolute(x) = x
    BY <2>3 DEF Absolute
  <2>. QED  BY <2>3, <2>4, <2>5 DEF ReadAs, Reading
<1>. QED  BY <1>1, <1>2, <1>3 DEF InHalves

-----------------------------------------------------------------------------
\* No date or time begins where a position does.

Unstamped(p) == Skip(DateForms, p) = p /\ Skip(TimeForms, p) = p

LEMMA UnstampedBy ==
    ASSUME text \in Seq(TextChar), NEW p \in Nat \ {0},
           At(p + 2) \notin TimeSep \/ (At(p + 5) \notin TimeSep \union Blank)
             \/ (At(p + 5) \notin Blank /\ At(p + 8) \notin Blank),
           \/ At(p + 2) \notin Digit \/ At(p + 4) \notin DateSep
           \/ At(p + 6) \notin Digit \union DateSep
           \/ At(p + 6) \notin DateSep /\ At(p + 7) \notin DateSep,
           \/ At(p + 2) \notin DateSep
           \/ At(p + 4) \notin DateSep /\ At(p + 5) \notin DateSep
           \/ At(p + 4) \notin DateSep /\ At(p + 8) \notin Digit \union Blank
    PROVE  Unstamped(p)
<1>1. ~Matches(DateForms[1], p) /\ ~Matches(DateForms[2], p) /\ ~Matches(DateForms[3], p)
      /\ ~Matches(DateForms[4], p) /\ ~Matches(DateForms[5], p)
  BY DateNeeds
<1>2. ~Matches(TimeForms[1], p) /\ ~Matches(TimeForms[2], p)
  BY TimeNeeds
<1>3. \A i \in 1 .. 5 : ~Matches(DateForms[i], p)
  <2>1. 1 .. 5 = {1, 2, 3, 4, 5}
    OBVIOUS
  <2>. QED  BY <1>1, <2>1
<1>. QED  BY <1>2, <1>3, NoDateAt, NoTimeAt DEF Unstamped

LEMMA DigitKinds ==
    /\ \A c \in Digit : c \notin DateSep \union TimeSep \union Blank \union NS \union EW
    /\ \A c \in NS : c \notin Digit \union DateSep \union TimeSep \union Blank
    /\ "-" \notin Digit \union Blank \union NS \union EW \union {Space}
    /\ Comma \notin Digit \union DateSep \union TimeSep \union Blank
BY FigureFacts, CharKinds DEF NS, EW, Space

\* A latitude of two digits is at p, or a longitude of three.
LEMMA CoordinateUnstamped ==
    ASSUME text \in Seq(TextChar), NEW p \in Nat \ {0}, NEW n \in {2, 3},
           NEW r \in Nat, r <= Len(text), NEW H, H = NS \/ H = EW, n = 2 => H = NS,
           NEW form, Coordinate(form, text, p, n, r, H)
    PROVE  /\ At(p) \in Digit /\ At(p + 1) \in Digit /\ (n = 3 => At(p + 2) \in Digit)
           /\ At(p + 2) \notin NS \union EW \union {Space}
           /\ Unstamped(p)
<1>0. /\ n = 2 => /\ p + n = p + 2 /\ p + n + 1 = p + 3 /\ p + n + 2 = p + 4
                  /\ p + n + 3 = p + 5 /\ p + n + 4 = p + 6 /\ p + n + 5 = p + 7
                  /\ p + n + 6 = p + 8
      /\ n = 3 => /\ p + n = p + 3 /\ p + n + 1 = p + 4
  OBVIOUS
<1>1. CASE form = "dms"
  <2>1. /\ r = p + n + 6 /\ text[r] \in H /\ At(r) = text[r]
        /\ At(p) \in Digit /\ At(p + 1) \in Digit /\ (n = 3 => At(p + 2) \in Digit)
        /\ At(p + n) = "-" /\ At(p + n + 1) \in Digit /\ At(p + n + 2) \in Digit
        /\ At(p + n + 3) = "-"
    BY <1>1, DmsRead
  <2>2. CASE n = 2
    <3>1. /\ At(p + 2) = "-" /\ At(p + 4) \in Digit /\ At(p + 5) = "-" /\ At(p + 8) \in NS
      BY <1>0, <2>1, <2>2
    <3>2. Unstamped(p)
      BY <3>1, DigitKinds, UnstampedBy
    <3>. QED  BY <2>1, <2>2, <3>1, <3>2, DigitKinds
  <2>3. CASE n = 3
    <3>1. At(p + 2) \in Digit /\ At(p + 4) \in Digit
      BY <1>0, <2>1, <2>3
    <3>2. Unstamped(p)
      BY <3>1, DigitKinds, UnstampedBy
    <3>. QED  BY <2>1, <3>1, <3>2, FigureFacts, CharKinds
  <2>. QED  BY <2>2, <2>3
<1>2. CASE form = "minutes"
  <2>0. MinutesText(p, n, r, H)
    BY <1>2, MinutesTextRead
  <2>1. /\ At(p + n + 3) \in H \/ At(p + n + 3) = Comma
        /\ At(p) \in Digit /\ At(p + 1) \in Digit /\ (n = 3 => At(p + 2) \in Digit)
        /\ At(p + n) = "-" /\ At(p + n + 1) \in Digit /\ At(p + n + 2) \in Digit
    BY <2>0 DEF MinutesText
  <2>2. CASE n = 2
    <3>1. /\ At(p + 2) = "-" /\ At(p + 4) \in Digit /\ At(p + 5) \in NS \union {Comma}
      BY <1>0, <2>1, <2>2
    <3>2. Unstamped(p)
      BY <3>1, DigitKinds, UnstampedBy
    <3>. QED  BY <2>1, <2>2, <3>1, <3>2, DigitKinds
  <2>3. CASE n = 3
    <3>1. At(p + 2) \in Digit /\ At(p + 4) \in Digit
      BY <1>0, <2>1, <2>3
    <3>2. Unstamped(p)
      BY <3>1, DigitKinds, UnstampedBy
    <3>. QED  BY <2>1, <3>1, <3>2, FigureFacts, CharKinds
  <2>. QED  BY <2>2, <2>3
<1>3. CASE form # "dms" /\ form # "minutes"
  <2>0. PlainText(form, p, n, r, H)
    BY <1>3, PlainRead
  <2>1. /\ r = p + n + (IF form = "decimal" THEN 4 ELSE 5)
        /\ text[r] \in H /\ At(r) = text[r]
        /\ At(p) \in Digit /\ At(p + 1) \in Digit /\ (n = 3 => At(p + 2) \in Digit)
        /\ At(p + n) \in Digit /\ At(p + n + 1) \in Digit
        /\ (r = p + n + 5 => At(p + n + 4) \in Digit)
    BY <2>0 DEF PlainText
  <2>2. CASE n = 2
    <3>1. At(p + 2) \in Digit
      BY <1>0, <2>1, <2>2
    <3>2. At(p + 6) \in NS \/ (At(p + 6) \in Digit /\ At(p + 7) \in NS)
      <4>1. r = p + 6 \/ r = p + n + 5
        BY <2>1, <2>2
      <4>. QED  BY <1>0, <2>1, <2>2, <4>1
    <3>3. Unstamped(p)
      BY <3>1, <3>2, DigitKinds, UnstampedBy
    <3>. QED  BY <2>1, <2>2, <3>1, <3>3, FigureFacts, CharKinds
  <2>3. CASE n = 3
    <3>1. At(p + 2) \in Digit /\ At(p + 4) \in Digit
      BY <1>0, <2>1, <2>3
    <3>2. Unstamped(p)
      BY <3>1, DigitKinds, UnstampedBy
    <3>. QED  BY <2>1, <3>1, <3>2, FigureFacts, CharKinds
  <2>. QED  BY <2>2, <2>3
<1>. QED  BY <1>1, <1>2, <1>3

-----------------------------------------------------------------------------
\* Positions that are read as a whole.

LEMMA CopiedRead ==
    ASSUME text \in Seq(TextChar), NEW p \in Nat \ {0}, NEW n \in {2, 3},
           NEW r \in Nat, r <= Len(text), NEW H, H = NS \/ H = EW,
           PlainText("slash", p, n, r, H)
    PROVE  Angle(p, n, Copied(p + n), p + n)
           = Degrees(text, p, n) * Deg + 6 * Minutes(text, p + n, r - 1)
<1>1. /\ r = p + n + 5
      /\ At(p + n + 2) = "."
      /\ Number(SubSeq(text, p, p + n - 1)) = Degrees(text, p, n)
      /\ Figures(text, p + n, p + n + 1) /\ Figures(text, p + n + 3, r - 1)
  BY DEF PlainText
<1>2. PICK q \in Nat \ {0} : q = p + n
  OBVIOUS
<1>3. /\ r = q + 5 /\ r - 1 = q + 4 /\ At(q + 2) = "."
      /\ Figures(text, q, q + 1) /\ Figures(text, q + 3, q + 4)
  BY <1>1, <1>2
<1>4. PICK t : t = Copied(q)
  OBVIOUS
<1>5. t \in Seq(TextChar) /\ Len(t) = q + 4 /\ \A i \in 1 .. q + 4 : t[i] = text[i]
  <2>1. t = SubSeq(text, 1, q + 4)
    BY <1>4 DEF Copied
  <2>2. q + 4 \in Nat /\ q + 4 <= Len(text)
    BY <1>3
  <2>. QED  BY <2>1, <2>2
<1>6. Agree(t, text, q, q + 1) /\ Agree(t, text, q + 3, q + 4)
  BY <1>3, <1>5 DEF Agree
<1>7. Figures(t, q, q + 1) /\ Figures(t, q + 3, q + 4)
  BY <1>3, <1>6, AgreeFigures
<1>8. CharAt(t, q + 2) = "."
  <2>1. q + 2 \in 1 .. Len(t) /\ q + 2 \in 1 .. Len(text)
    BY <1>3, <1>5
  <2>2. t[q + 2] = "."
    BY <1>3, <1>5, <2>1, IsAt
  <2>. QED  BY <1>5, <2>1, <2>2, AtFacts
<1>9. CharAt(t, q + 5) = NUL
  BY <1>5, AtFacts
<1>10. NUL \notin Figure /\ NUL # "E"
  <2>1. "E" \in EW
    BY DEF EW
  <2>. QED  BY <2>1, CharKinds
<1>11. PICK e \in Nat : e = q + 5 /\ e - 1 = q + 4
  OBVIOUS
<1>12. atof(t, q) = Minutes(t, q, e - 1)
  <2>1. /\ q + 1 <= Len(t) /\ CharAt(t, e) \notin Figure /\ CharAt(t, e) # "E"
        /\ q + 3 <= e /\ e <= Len(t) + 1 /\ Figures(t, q + 3, e - 1)
    BY <1>5, <1>7, <1>9, <1>10, <1>11
  <2>. QED  BY <1>5, <1>7, <1>8, <2>1, MinutesRead
<1>13. Minutes(t, q, q + 4) = Minutes(text, q, q + 4)
  <2>1. PICK s \in Int : s = q + 4
    OBVIOUS
  <2>2. Agree(t, text, q + 3, s)
    BY <1>6, <2>1
  <2>. QED  BY <1>5, <1>6, <2>1, <2>2, AgreeMinutes
<1>14. atof(t, q) = Minutes(text, q, r - 1)
  BY <1>3, <1>11, <1>12, <1>13
<1>. QED  BY <1>1, <1>2, <1>4, <1>14 DEF Angle

LEMMA SlashIs ==
    ASSUME text \in Seq(TextChar), NEW p \in Nat \ {0}, p + 17 <= Len(text),
           Coordinate("slash", text, p, 2, p + 7, NS), At(p + 8) = "/",
           Coordinate("slash", text, p + 9, 3, p + 17, EW)
    PROVE  /\ IsSlash(p) /\ queryLatValue(p) = NotFound(text)
           /\ Signed(Angle(p, 2, Copied(p + 2), p + 2), At(p + 7) = "S")
              = Meaning("slash", text, p, 2, p + 7, "S")
           /\ Signed(Angle(p + 9, 3, Copied(p + 12), p + 12), At(p + 17) = "W")
              = Meaning("slash", text, p + 9, 3, p + 17, "W")
<1>1. PICK m \in {2, 3}, n \in {2, 3} : m = 2 /\ n = 3
  OBVIOUS
<1>2. PICK q \in Nat \ {0}, r \in Nat, s \in Nat : q = p + 9 /\ r = p + 7 /\ s = p + 17
  OBVIOUS
<1>3. PICK form : form = "slash" /\ form # "dms" /\ form # "minutes" /\ form # "decimal"
  OBVIOUS
<1>4. PlainText(form, p, m, r, NS) /\ PlainText(form, q, n, s, EW)
  <2>1. /\ Coordinate(form, text, p, m, r, NS) /\ Coordinate(form, text, q, n, s, EW)
        /\ r <= Len(text) /\ s <= Len(text)
    BY <1>1, <1>2, <1>3
  <2>. QED  BY <1>3, <2>1, PlainRead
<1>5. /\ p + m = p + 2 /\ p + m + 1 = p + 3 /\ p + m + 2 = p + 4 /\ p + m + 3 = p + 5
      /\ p + m + 4 = p + 6 /\ r = p + m + 5
      /\ q + 1 = p + 10 /\ q + 2 = p + 11
      /\ q + n = p + 12 /\ q + n + 1 = p + 13 /\ q + n + 2 = p + 14 /\ q + n + 3 = p + 15
      /\ q + n + 4 = p + 16 /\ s = q + n + 5
  BY <1>1, <1>2
<1>6. /\ text[r] \in NS /\ At(r) = text[r]
      /\ At(p) \in Digit /\ At(p + 1) \in Digit
      /\ At(p + m) \in Digit /\ At(p + m + 1) \in Digit /\ At(p + m + 2) = "."
      /\ At(p + m + 3) \in Digit /\ At(p + m + 4) \in Digit
      /\ \A neg : Meaning(form, text, p, m, r, neg)
                  = Signed(Degrees(text, p, m) * Deg + 6 * Minutes(text, p + m, r - 1),
                           text[r] = neg)
  BY <1>4, <1>5 DEF PlainText
<1>7. /\ text[s] \in EW /\ At(s) = text[s]
      /\ At(q) \in Digit /\ At(q + 1) \in Digit /\ At(q + 2) \in Digit
      /\ At(q + n) \in Digit /\ At(q + n + 1) \in Digit /\ At(q + n + 2) = "."
      /\ At(q + n + 3) \in Digit /\ At(q + n + 4) \in Digit
      /\ \A neg : Meaning(form, text, q, n, s, neg)
                  = Signed(Degrees(text, q, n) * Deg + 6 * Minutes(text, q + n, s - 1),
                           text[s] = neg)
  BY <1>1, <1>4, <1>5 DEF PlainText
<1>8. IsSlash(p)
  BY <1>2, <1>5, <1>6, <1>7, SlashFits DEF IsSlash
<1>9. queryLatValue(p) = NotFound(text)
  <2>1. At(p + 2) \in Digit /\ At(p + 6) \in Digit
    BY <1>5, <1>6
  <2>2. At(p + 2) \notin {"-", Space, "*"} /\ At(p + 6) \notin NS
    BY <2>1, FigureFacts, CharKinds DEF Mark
  <2>. QED  BY <2>2, LatDmsFits, LatDecimalFits, LatOpenFits DEF queryLatValue, IsLatDms
<1>10. /\ Angle(p, m, Copied(p + m), p + m)
          = Degrees(text, p, m) * Deg + 6 * Minutes(text, p + m, r - 1)
       /\ Angle(q, n, Copied(q + n), q + n)
          = Degrees(text, q, n) * Deg + 6 * Minutes(text, q + n, s - 1)
  BY <1>2, <1>3, <1>4, CopiedRead
<1>11. Signed(Angle(p, 2, Copied(p + 2), p + 2), At(p + 7) = "S")
       = Meaning("slash", text, p, 2, p + 7, "S")
  <2>1. PICK u : u = p + m /\ u = p + 2
    BY <1>5
  <2>2. Angle(p, m, Copied(u), u)
        = Degrees(text, p, m) * Deg + 6 * Minutes(text, p + m, r - 1)
    BY <1>10, <2>1, Zenon
  <2>3. Signed(Angle(p, m, Copied(u), u), At(r) = "S") = Meaning(form, text, p, m, r, "S")
    BY <1>6, <2>2, Zenon
  <2>. QED  BY <1>1, <1>2, <1>3, <2>1, <2>3, Zenon
<1>12. Signed(Angle(p + 9, 3, Copied(p + 12), p + 12), At(p + 17) = "W")
       = Meaning("slash", text, p + 9, 3, p + 17, "W")
  <2>1. PICK u : u = q + n /\ u = p + 12
    BY <1>5
  <2>2. Angle(q, n, Copied(u), u)
        = Degrees(text, q, n) * Deg + 6 * Minutes(text, q + n, s - 1)
    BY <1>10, <2>1, Zenon
  <2>3. Signed(Angle(q, n, Copied(u), u), At(s) = "W") = Meaning(form, text, q, n, s, "W")
    BY <1>7, <2>2, Zenon
  <2>. QED  BY <1>1, <1>2, <1>3, <2>1, <2>3, Zenon
<1>. QED  BY <1>8, <1>9, <1>11, <1>12

\* Degrees without minutes at p in the text.
ShortText(p) ==
    /\ p + 7 <= Len(text)
    /\ Figures(text, p, p + 1) /\ At(p + 2) \in NS /\ At(p + 3) = Space
    /\ Figures(text, p + 4, p + 6) /\ At(p + 7) \in EW
    /\ Degrees(text, p, 2) < 90 /\ Degrees(text, p + 4, 3) <= 180

LEMMA NoThousandths ==
    ASSUME NEW t \in Seq(TextChar), NEW a \in Nat, NEW e \in Nat, e < a
    PROVE  Thousandths(t, a, e) = 0
<1>1. PICK d : d = SubSeq(t, a, e) \o <<"0", "0", "0">>
  OBVIOUS
<1>2. SubSeq(t, a, e) = <<>>
  OBVIOUS
<1>3. d = <<"0", "0", "0">>
  BY <1>1, <1>2
<1>4. Worth["0"] = 0
  <2>1. \A n \in 0 .. 9 : Numerals[n + 1] = "0" => n = 0
    BY DEF Numerals
  <2>2. Numerals[0 + 1] = "0"
    BY DEF Numerals
  <2>3. "0" \in DOMAIN Worth
    BY FigureFacts DEF Figure
  <2>4. Worth["0"] = CHOOSE n \in 0 .. 9 : Numerals[n + 1] = "0"
    BY <2>3 DEF Worth
  <2>. QED  BY <2>1, <2>2, <2>4
<1>5. d[1] = "0" /\ d[2] = "0" /\ d[3] = "0"
  BY <1>3
<1>6. Thousandths(t, a, e) = 100 * Worth[d[1]] + 10 * Worth[d[2]] + Worth[d[3]]
  BY <1>1, Zenon DEF Thousandths
<1>7. Thousandths(t, a, e) = 100 * 0 + 10 * 0 + 0
  BY <1>4, <1>5, <1>6, Zenon
<1>. QED  BY <1>7

LEMMA ShortIs ==
    ASSUME text \in Seq(TextChar), NEW p \in Nat \ {0}, ShortText(p), PlainEnd(p + 7)
    PROVE  /\ IsDirty(p)
           /\ dirtyLon(p) = Signed(Degrees(text, p + 4, 3) * Deg, At(p + 7) = "W")
<1>1. PICK m \in {2, 3}, n \in {2, 3} : m = 2 /\ n = 3
  OBVIOUS
<1>2. PICK q \in Nat \ {0} : q = p + 4
  OBVIOUS
<1>3. /\ q + 3 <= Len(text)
      /\ Figures(text, p, p + 1) /\ At(p + 2) \in NS /\ At(p + 3) = Space
      /\ Figures(text, q, q + 2) /\ At(q + 3) \in EW
      /\ Degrees(text, p, m) < 90 /\ Degrees(text, q, n) <= 180
      /\ (At(q + 3) = "E" => At(q + 3 + 1) \notin Figure \union {"-"})
  BY <1>1, <1>2 DEF ShortText, PlainEnd
<1>4. LonPos(p) = q
  BY <1>2, <1>3 DEF LonPos
<1>5. At(p) \in Digit /\ At(p + 1) \in Digit
  <2>1. PICK s \in Int : s = p + 1
    OBVIOUS
  <2>2. s <= Len(text) /\ Figures(text, p, s) /\ p \in p .. s /\ s \in p .. s
    BY <1>2, <1>3, <2>1
  <2>. QED  BY <2>1, <2>2, FigureAt
<1>6. At(q) \in Digit /\ At(q + 1) \in Digit /\ At(q + 2) \in Digit
  <2>1. PICK s \in Int : s = q + 2
    OBVIOUS
  <2>2. s <= Len(text) /\ Figures(text, q, s) /\ q \in q .. s /\ q + 1 \in q .. s /\ s \in q .. s
    BY <1>2, <1>3, <2>1
  <2>. QED  BY <2>1, <2>2, FigureAt
<1>7. Fits(Two \o <<NS>>, p) /\ Fits(Two \o One \o <<EW>>, q)
  <2>1. p + 2 <= Len(text) /\ q + 3 <= Len(text)
    BY <1>2, <1>3
  <2>. QED  BY <1>3, <1>5, <1>6, <2>1, LatShortFits, LonShortFits
<1>8. atoi(text, p) = Degrees(text, p, m) /\ Degrees(text, p, m) \in Below1000
  <2>1. p + m - 1 = p + 1 /\ p + m = p + 2 /\ p + m - 1 <= Len(text)
    BY <1>1, <1>2, <1>3
  <2>2. CharAt(text, p + m) \notin Figure
    BY <1>3, <2>1, CharKinds DEF At
  <2>3. Figures(text, p, p + m - 1)
    BY <1>3, <2>1
  <2>. QED  BY <2>1, <2>2, <2>3, NumberAt
<1>9. Degrees(text, q, n) \in Below1000
  <2>1. q + n - 1 = q + 2 /\ q + n - 1 <= Len(text)
    BY <1>1, <1>3
  <2>2. Figures(text, q, q + n - 1)
    BY <1>3, <2>1
  <2>. QED  BY <2>1, <2>2, NumberAt
<1>10. atof(text, q) = 1000 * Degrees(text, q, n)
  <2>1. PICK e \in Nat : e = q + n
    OBVIOUS
  <2>2. e = q + 3 /\ q + n - 1 = q + 2 /\ q + n - 1 <= Len(text) /\ e - 1 < q + n + 1
    BY <1>1, <1>3, <2>1
  <2>3. /\ CharAt(text, e) \in EW
        /\ (CharAt(text, e) = "E" => CharAt(text, e + 1) \notin Figure \union {"-"})
    BY <1>3, <2>2 DEF At
  <2>4. CharAt(text, e) \notin Figure /\ CharAt(text, e) # "."
    BY <2>3, CharKinds
  <2>5. Figures(text, q, q + n - 1)
    BY <1>3, <2>2
  <2>6. atof(text, q) = 1000 * Degrees(text, q, n) + Thousandths(text, q + n + 1, e - 1)
    BY <2>1, <2>2, <2>3, <2>4, <2>5, AtofFacts
  <2>7. Thousandths(text, q + n + 1, e - 1) = 0
    <3>1. PICK u \in Nat, v \in Nat : u = q + n + 1 /\ v = e - 1
      BY <2>2
    <3>. QED  BY <2>2, <3>1, NoThousandths
  <2>. QED  BY <1>9, <2>6, <2>7 DEF Below1000
<1>11. PICK d \in Nat : d = Degrees(text, q, n) /\ d <= 180
  BY <1>3, <1>9 DEF Below1000
<1>12. IsDirty(p)
  <2>1. atof(text, q) <= 180000
    <3>1. 1000 * d <= 180000
      BY <1>11, SMT
    <3>. QED  BY <1>10, <1>11, <3>1
  <2>2. atoi(text, p) <= 89
    BY <1>3, <1>8 DEF Below1000
  <2>. QED  BY <1>4, <1>7, <2>1, <2>2 DEF IsDirty
<1>13. dirtyLon(p) = Signed(Degrees(text, p + 4, 3) * Deg, At(p + 7) = "W")
  <2>1. At(q + 2) # "E" /\ At(q + 2) # "W" /\ q + 3 = p + 7
    <3>1. "E" \in EW /\ "W" \in EW
      BY DEF EW
    <3>. QED  BY <1>2, <1>6, <3>1, FigureFacts, CharKinds
  <2>2. atof(text, q) * 360 = d * Deg
    <3>1. 1000 * d * 360 = d * 360000
      OBVIOUS
    <3>2. Deg = 360000
      BY SMT DEF Deg
    <3>. QED  BY <1>10, <1>11, <3>1, <3>2, SMT
  <2>3. dirtyLon(p) = Signed(atof(text, q) * 360,
                             "W" \in {At(q + 2), At(q + 3)} /\ At(q + 2) # "E")
    BY <1>4, Zenon DEF dirtyLon
  <2>4. ("W" \in {At(q + 2), At(q + 3)} /\ At(q + 2) # "E") = (At(p + 7) = "W")
    BY <2>1
  <2>5. d * Deg = Degrees(text, p + 4, 3) * Deg
    BY <1>1, <1>2, <1>11
  <2>. QED  BY <2>2, <2>3, <2>4, <2>5
<1>. QED  BY <1>12, <1>13

-----------------------------------------------------------------------------
\* The pieces in the text.

AllLegible(w) == \A k \in DOMAIN w : Legible(w[k])

LEMMA FirstChar ==
    ASSUME NEW piece \in Piece, Legible(piece)
    PROVE  /\ Len(piece.chars) \in Nat \ {0} /\ Head(piece.chars) = piece.chars[1]
           /\ piece.chars[1] \in Char /\ piece.chars[1] # NUL
           /\ piece.form # "text" \/ IsStamp(piece.chars) => piece.chars[1] \in Digit
           /\ (piece.form = "text" /\ ~IsStamp(piece.chars))
              => \A q \in DOMAIN piece.chars : piece.chars[q] \in Filler
<1>1. PICK c : c = piece.chars
  OBVIOUS
<1>2. c \in Seq(Char)
  BY <1>1 DEF Piece
<1>3. NUL \notin Digit
  BY CharFacts
<1>4. CASE piece.form = "text" /\ c # <<>> /\ \A q \in DOMAIN c : c[q] \in Filler
  <2>1. Len(c) \in Nat \ {0} /\ Head(c) = c[1] /\ c[1] \in Char /\ 1 \in DOMAIN c
    BY <1>2, <1>4
  <2>2. c[1] \in Filler
    BY <1>4, <2>1
  <2>3. ~IsStamp(c)
    <3>1. IsStamp(c) => c[1] \in Digit
      BY <1>2, FigureFacts DEF IsStamp, Figures, Figure
    <3>. QED  BY <2>2, <3>1 DEF Filler
  <2>. QED  BY <1>1, <1>4, <2>1, <2>2, <2>3 DEF Filler
<1>5. ASSUME c # <<>>, c[1] \in Digit, piece.form # "text" \/ IsStamp(c)
      PROVE  /\ Len(c) \in Nat \ {0} /\ Head(c) = c[1] /\ c[1] \in Char /\ c[1] # NUL
             /\ c[1] \in Digit
  <2>1. Len(c) \in Nat \ {0} /\ Head(c) = c[1] /\ c[1] \in Char
    BY <1>2, <1>5
  <2>. QED  BY <1>3, <1>5, <2>1
<1>6. ASSUME IsStamp(c)
      PROVE  c # <<>> /\ c[1] \in Digit
  <2>1. Len(c) \in {6, 9, 11}
    BY <1>6 DEF IsStamp
  <2>2. c # <<>> /\ c[1] \in Char
    BY <1>2, <2>1
  <2>3. c[1] = "2" \/ Figures(c, 1, 2)
    BY <1>6 DEF IsStamp
  <2>4. "2" \in Char => "2" \in Digit
    BY FigureFacts DEF Figure
  <2>. QED  BY <2>2, <2>3, <2>4 DEF Figures
<1>7. ASSUME NEW i, NEW j, Halves(piece, i, j)
      PROVE  c # <<>> /\ c[1] \in Digit
  <2>1. Len(c) \in Nat /\ i \in 1 .. Len(c) /\ Figures(c, 1, 1 + 2 - 1)
    BY <1>1, <1>2, <1>7 DEF Halves, Coordinate
  <2>2. c # <<>>
    BY <2>1
  <2>. QED  BY <2>1, <2>2 DEF Figures
<1>8. CASE piece.form = "short" /\ Len(c) = 8 /\ Figures(c, 1, 2)
  <2>1. c # <<>>
    BY <1>2, <1>8
  <2>2. c[1] \in Digit
    BY <1>8 DEF Figures
  <2>. QED  BY <1>1, <1>5, <1>8, <2>1, <2>2
<1>9. CASE piece.form = "text" /\ IsStamp(c)
  BY <1>1, <1>5, <1>6, <1>9
<1>10. CASE piece.form # "text" /\ \E i, j : Halves(piece, i, j)
  BY <1>1, <1>5, <1>7, <1>10
<1>11. \/ piece.form = "text" /\ c # <<>> /\ \A q \in DOMAIN c : c[q] \in Filler
       \/ piece.form = "text" /\ IsStamp(c)
       \/ piece.form # "text" /\ \E i, j : Halves(piece, i, j)
       \/ piece.form = "short" /\ Len(c) = 8 /\ Figures(c, 1, 2)
  BY <1>1 DEF Legible
<1>. QED  BY <1>4, <1>8, <1>9, <1>10, <1>11

\* A piece that is kept shows in the text.
LEMMA Located ==
    ASSUME NEW w \in Writings, NEW k \in 1 .. Len(w), Len(text) = Len(Flat(w)),
           NEW p \in Nat \ {0}, Kept(w, Offset(w, k - 1) + p)
    PROVE  Shows(Offset(w, k - 1), p, w[k].chars)
<1>1. PICK b, c : b = Offset(w, k - 1) /\ c = w[k].chars
  OBVIOUS
<1>2. /\ b \in Nat /\ c \in Seq(Char) /\ Offset(w, k) = b + Len(c)
      /\ Offset(w, k) <= Len(text) /\ Len(text) \in Nat
      /\ \A i \in 1 .. Len(c) : Flat(w)[b + i] = c[i]
  <2>1. k \in Nat /\ Len(w) \in Nat /\ k - 1 \in 0 .. Len(w) /\ k \in 0 .. Len(w)
    BY CharsType
  <2>2. b \in 0 .. Len(Flat(w)) /\ Offset(w, k) \in 0 .. Len(Flat(w))
    BY <1>1, <2>1, Offsets
  <2>3. Offset(w, k) = b + Len(c) /\ \A i \in 1 .. Len(c) : Flat(w)[b + i] = c[i]
    BY <1>1, Offsets
  <2>4. c \in Seq(Char) /\ Len(Flat(w)) \in Nat
    BY <1>1, CharsType
  <2>. QED  BY <2>2, <2>3, <2>4
<1>3. ASSUME NEW q \in p .. Len(c)
      PROVE  text[b + q] = c[q]
  <2>1. b + q \in b + p .. Len(text) /\ q \in 1 .. Len(c)
    BY <1>2, <1>3
  <2>2. text[b + q] = Flat(w)[b + q]
    BY <1>1, <2>1 DEF Kept
  <2>. QED  BY <1>2, <2>1, <2>2
<1>. QED  BY <1>1, <1>2, <1>3 DEF Shows

\* The head of piece k, or the zero behind the text, at its place.
LEMMA HeadAt ==
    ASSUME NEW w \in Writings, NEW k \in 1 .. Len(w) + 1, AllLegible(w),
           NEW t \in Seq(TextChar), Len(t) = Len(Flat(w)),
           NEW p, p = Offset(w, k - 1) + 1,
           \A q \in p .. Len(t) : t[q] = Flat(w)[q]
    PROVE  /\ p \in Nat \ {0} /\ p <= Len(t) + 1
           /\ k = Len(w) + 1 => CharAt(t, p) = NUL
           /\ k <= Len(w) => /\ CharAt(t, p) = Head(w[k].chars) /\ CharAt(t, p) # NUL
                             /\ p <= Len(t) /\ CharAt(t, p) \in Char
<1>1. Len(w) \in Nat /\ Len(t) \in Nat /\ k \in Nat /\ k - 1 \in 0 .. Len(w)
  BY CharsType
<1>2. p \in 1 .. Len(t) + 1
  <2>1. Offset(w, k - 1) \in 0 .. Len(Flat(w))
    BY <1>1, Offsets
  <2>. QED  BY <1>1, <2>1
<1>3. CASE k = Len(w) + 1
  <2>1. k - 1 = Len(w)
    BY <1>1, <1>3
  <2>2. p = Len(t) + 1
    BY <2>1, Offsets
  <2>3. CharAt(t, p) = NUL
    BY <1>1, <2>2, AtFacts
  <2>. QED  BY <1>1, <1>2, <1>3, <2>3
<1>4. CASE k <= Len(w)
  <2>1. k \in 1 .. Len(w)
    BY <1>4
  <2>2. w[k] \in Piece /\ Legible(w[k]) /\ w[k].chars \in Seq(Char)
    BY <2>1, CharsType DEF AllLegible
  <2>3. PICK c : c = w[k].chars
    OBVIOUS
  <2>4. Len(c) \in Nat \ {0} /\ Head(c) = c[1] /\ c[1] \in Char /\ c[1] # NUL
    BY <2>2, <2>3, FirstChar
  <2>5. Offset(w, k) = Offset(w, k - 1) + Len(c) /\ Offset(w, k) <= Len(t)
        /\ Flat(w)[Offset(w, k - 1) + 1] = c[1] /\ Offset(w, k - 1) \in Nat
    <3>1. k \in 0 .. Len(w) /\ 1 \in 1 .. Len(c)
      BY <2>1, <2>4
    <3>. QED  BY <1>1, <2>1, <2>3, <3>1, Offsets
  <2>6. p \in 1 .. Len(t) /\ t[p] = c[1]
    BY <1>1, <2>4, <2>5
  <2>7. CharAt(t, p) = c[1]
    BY <2>6, AtFacts
  <2>. QED  BY <1>1, <1>2, <1>4, <2>3, <2>4, <2>6, <2>7
<1>. QED  BY <1>1, <1>3, <1>4

\* A search begins or goes on at piece k.
LEMMA Entered ==
    ASSUME NEW w \in Writings, NEW k \in 1 .. Len(w) + 1, AllLegible(w),
           text' \in Seq(TextChar), Len(text') = Len(Flat(w)),
           start' = Offset(w, k - 1) + 1, Kept(w, start)', latPassed' = FALSE,
           at' = IF CharAt(text', start') = NUL THEN "done" ELSE "scan"
    PROVE  \/ at' = "done" /\ k = Len(w) + 1
           \/ k <= Len(w) /\ (InFiller(w, k)' \/ InStamp(w, k)' \/ AtLat(w, k)')
<1>1. PICK t \in Seq(TextChar) : t = text'
  OBVIOUS
<1>6. PICK p : p = start'
  OBVIOUS
<1>7. /\ Len(t) = Len(Flat(w)) /\ p = Offset(w, k - 1) + 1
      /\ \A q \in p .. Len(t) : t[q] = Flat(w)[q]
  BY <1>1, <1>6 DEF Kept
<1>2. /\ k = Len(w) + 1 => CharAt(text', start') = NUL
      /\ k <= Len(w) => CharAt(text', start') # NUL
  BY <1>1, <1>6, <1>7, HeadAt
<1>3. k \in 1 .. Len(w) \/ k = Len(w) + 1
  BY CharsType
<1>4. CASE k = Len(w) + 1
  BY <1>2, <1>4
<1>5. CASE k \in 1 .. Len(w)
  <2>1. at' = "scan" /\ k <= Len(w)
    BY <1>2, <1>5
  <2>2. Len(w[k].chars) \in Nat \ {0} /\ Offset(w, k) = Offset(w, k - 1) + Len(w[k].chars)
        /\ Offset(w, k - 1) \in Nat
    <3>1. w[k] \in Piece /\ Legible(w[k])
      BY <1>5, CharsType DEF AllLegible
    <3>2. Len(w) \in Nat
      BY CharsType
    <3>3. k - 1 \in 0 .. Len(w)
      BY <1>5, <3>2
    <3>. QED  BY <1>5, <3>1, <3>3, FirstChar, Offsets
  <2>3. start' \in Offset(w, k - 1) + 1 .. Offset(w, k)
    BY <2>2
  <2>4. CASE w[k].form # "text"
    BY <2>1, <2>4 DEF AtLat
  <2>5. CASE w[k].form = "text" /\ IsStamp(w[k].chars)
    BY <2>1, <2>5 DEF InStamp
  <2>6. CASE w[k].form = "text" /\ ~IsStamp(w[k].chars)
    BY <2>1, <2>3, <2>6 DEF InFiller
  <2>. QED  BY <2>1, <2>4, <2>5, <2>6
<1>. QED  BY <1>3, <1>4, <1>5

-----------------------------------------------------------------------------
\* From piece to piece.

LEMMA ReadsType ==
    ASSUME NEW w \in Writings
    PROVE  \E S : ReadsOf(w) \in Seq(Seq(S)) /\ Len(ReadsOf(w)) = Len(w)
                  /\ \A k \in 1 .. Len(w) : ReadsOf(w)[k] = Read(w[k])
<1> DEFINE S == {Read(w[k])[1] : k \in 1 .. Len(w)}
<1>1. Len(w) \in Nat /\ DOMAIN w = 1 .. Len(w)
  BY CharsType
<1>2. ASSUME NEW k \in 1 .. Len(w)
      PROVE  Read(w[k]) \in Seq(S)
  <2>1. \E x : Read(w[k]) = <<>> \/ Read(w[k]) = <<x>>
    BY Zenon DEF Read
  <2>2. CASE Read(w[k]) = <<>>
    BY <2>2
  <2>3. ASSUME NEW x, Read(w[k]) = <<x>>
        PROVE  Read(w[k]) \in Seq(S)
    <3>1. Read(w[k])[1] = x
      BY <2>3
    <3>2. x \in S
      BY <3>1
    <3> HIDE DEF S
    <3>3. <<x>> \in Seq(S)
      BY <3>2
    <3>. QED  BY <2>3, <3>3
  <2>. QED  BY <2>1, <2>2, <2>3
<1> HIDE DEF S
<1>3. ReadsOf(w) = [k \in 1 .. Len(w) |-> Read(w[k])]
  BY <1>1 DEF ReadsOf
<1>4. ReadsOf(w) \in [1 .. Len(w) -> Seq(S)]
  BY <1>2, <1>3
<1>5. ReadsOf(w) \in Seq(Seq(S)) /\ Len(ReadsOf(w)) = Len(w)
  BY <1>1, <1>4
<1>. QED  BY <1>3, <1>5

LEMMA ReadsStep ==
    ASSUME NEW w \in Writings, NEW k \in 1 .. Len(w)
    PROVE  /\ Upto(ReadsOf(w), k) = Upto(ReadsOf(w), k - 1) \o Read(w[k])
           /\ \E S : Upto(ReadsOf(w), k - 1) \in Seq(S)
<1>1. PICK s : s = ReadsOf(w)
  OBVIOUS
<1>2. PICK S : s \in Seq(Seq(S)) /\ Len(s) = Len(w) /\ \A i \in 1 .. Len(w) : s[i] = Read(w[i])
  BY <1>1, ReadsType
<1>3. k \in 1 .. Len(s) /\ k - 1 \in 0 .. Len(s) /\ s[k] = Read(w[k])
  BY <1>2
<1>4. Upto(s, k) = Upto(s, k - 1) \o s[k]
  BY <1>2, <1>3, UptoStep
<1>5. Upto(s, k - 1) \in Seq(S)
  BY <1>2, <1>3, UptoFacts
<1>. QED  BY <1>1, <1>3, <1>4, <1>5

\* A piece of text adds nothing.
LEMMA ReadsText ==
    ASSUME NEW w \in Writings, NEW k \in 1 .. Len(w), w[k].form = "text"
    PROVE  Upto(ReadsOf(w), k) = Upto(ReadsOf(w), k - 1) /\ ~Stop(w, k)
<1>1. Read(w[k]) = <<>>
  BY DEF Read
<1>2. PICK S : Upto(ReadsOf(w), k - 1) \in Seq(S)
  BY ReadsStep
<1>3. Upto(ReadsOf(w), k - 1) \o <<>> = Upto(ReadsOf(w), k - 1)
  BY <1>2
<1>. QED  BY <1>1, <1>3, ReadsStep DEF Stop

\* The places of piece k, and the next one.
LEMMA Bounds ==
    ASSUME NEW w \in Writings, NEW k \in 1 .. Len(w), AllLegible(w)
    PROVE  /\ Len(w) \in Nat /\ k \in Nat /\ k - 1 \in 0 .. Len(w) /\ k + 1 \in 1 .. Len(w) + 1
           /\ k + 1 - 1 = k /\ k + 1 - 2 = k - 1
           /\ w[k] \in Piece /\ Legible(w[k]) /\ w[k].chars \in Seq(Char)
           /\ Len(w[k].chars) \in Nat \ {0} /\ DOMAIN w[k].chars = 1 .. Len(w[k].chars)
           /\ w[k].lat \in Int /\ w[k].lon \in Int
           /\ Offset(w, k - 1) \in Nat /\ Offset(w, k) \in Nat
           /\ Offset(w, k) = Offset(w, k - 1) + Len(w[k].chars)
           /\ Offset(w, k) <= Len(Flat(w)) /\ Len(Flat(w)) \in Nat
           /\ \A i \in 1 .. Len(w[k].chars) : Flat(w)[Offset(w, k - 1) + i] = w[k].chars[i]
<1>1. Len(w) \in Nat /\ DOMAIN w = 1 .. Len(w) /\ Flat(w) \in Seq(Char)
  BY CharsType
<1>2. k \in Nat /\ k - 1 \in 0 .. Len(w) /\ k \in 0 .. Len(w) /\ k + 1 \in 1 .. Len(w) + 1
      /\ k + 1 - 1 = k /\ k + 1 - 2 = k - 1
  BY <1>1
<1>3. /\ w[k] \in Piece /\ w[k].chars \in Seq(Char)
      /\ w[k].lat \in Int /\ w[k].lon \in Int
  BY CharsType
<1>4. Legible(w[k])
  BY <1>1 DEF AllLegible
<1>5. Len(w[k].chars) \in Nat \ {0}
  BY <1>3, <1>4, FirstChar
<1>6. DOMAIN w[k].chars = 1 .. Len(w[k].chars)
  BY <1>3
<1>7. /\ Offset(w, k - 1) \in 0 .. Len(Flat(w)) /\ Offset(w, k) \in 0 .. Len(Flat(w))
      /\ Offset(w, k) = Offset(w, k - 1) + Len(w[k].chars)
      /\ \A i \in 1 .. Len(w[k].chars) : Flat(w)[Offset(w, k - 1) + i] = w[k].chars[i]
  BY <1>2, Offsets
<1>8. Len(Flat(w)) \in Nat
  BY <1>1
<1>9. Offset(w, k - 1) \in Nat /\ Offset(w, k) \in Nat /\ Offset(w, k) <= Len(Flat(w))
  BY <1>7, <1>8
<1>. QED  BY <1>1, <1>2, <1>3, <1>4, <1>5, <1>6, <1>7, <1>8, <1>9

LEMMA SoFarKept ==
    ASSUME NEW w, NEW k, ReadSoFar(w, k), found' = found
    PROVE  ReadSoFar(w, k)'
<1>1. Results' = Results
  BY Zenon DEF Results
<1>. QED  BY <1>1 DEF ReadSoFar

\* A piece of text has been passed.
LEMMA PiecePassed ==
    ASSUME NEW w \in Writings, NEW k \in 1 .. Len(w), AllLegible(w), w[k].form = "text",
           ReadSoFar(w, k), ~Stop(w, k - 1), text' \in Seq(TextChar),
           Len(text') = Len(Flat(w)), Len(text) = Len(Flat(w)),
           NEW p, p = Offset(w, k) + 1, GoOn(p), latPassed' = FALSE, Kept(w, p)'
    PROVE  ReadTo(w, k + 1)'
<1>1. /\ Len(w) \in Nat /\ k \in Nat /\ k - 1 \in 0 .. Len(w) /\ k + 1 \in 1 .. Len(w) + 1
      /\ k + 1 - 1 = k /\ k + 1 - 2 = k - 1
      /\ Offset(w, k) \in Nat /\ Offset(w, k) <= Len(Flat(w)) /\ Len(Flat(w)) \in Nat
  BY Bounds
<1>2. PICK n : n = k + 1 /\ n - 1 = k /\ n - 2 = k - 1 /\ n \in 1 .. Len(w) + 1
  BY <1>1
<1>3. ReadSoFar(w, n)'
  <2>1. Results' = Results
    BY Zenon DEF Results, GoOn
  <2>2. Upto(ReadsOf(w), n - 1) = Upto(ReadsOf(w), k - 1)
    BY <1>2, ReadsText
  <2>3. \A i \in 1 .. n - 2 : i \in 1 .. k - 2 \/ i = k - 1
    BY <1>1, <1>2
  <2>4. \A i \in 1 .. n - 2 : ~Stop(w, i)
    BY <2>3 DEF ReadSoFar
  <2>. QED  BY <2>1, <2>2, <2>4 DEF ReadSoFar
<1>4. ~Stop(w, n - 1)
  BY <1>2, ReadsText
<1>5. /\ start' = Offset(w, n - 1) + 1
      /\ at' = IF CharAt(text', start') = NUL THEN "done" ELSE "scan"
  <2>1. ~(p > Len(text) + 1)
    BY <1>1
  <2>. QED  BY <1>2, <2>1 DEF GoOn
<1>6. Kept(w, start)'
  BY <1>2, <1>5 DEF Kept
<1>7. \/ at' = "done" /\ n = Len(w) + 1
      \/ n <= Len(w) /\ (InFiller(w, n)' \/ InStamp(w, n)' \/ AtLat(w, n)')
  BY <1>2, <1>5, <1>6, Entered
<1>8. ReadTo(w, n)'
  BY <1>3, <1>4, <1>6, <1>7 DEF ReadTo, InPiece, AtEnd
<1>. QED  BY <1>2, <1>8

LEMMA OneMore ==
    ASSUME NEW R, NEW v \in Seq(R), NEW y \in R
    PROVE  /\ v \o <<y>> \in Seq(R) /\ Len(v \o <<y>>) = Len(v) + 1
           /\ (v \o <<y>>)[Len(v) + 1] = y
           /\ \A i \in 1 .. Len(v) : (v \o <<y>>)[i] = v[i]
OBVIOUS

\* The position of a piece has been found.
LEMMA PieceFound ==
    ASSUME NEW w \in Writings, NEW k \in 1 .. Len(w), AllLegible(w), w[k].form # "text",
           ReadSoFar(w, k), ~Stop(w, k - 1), Len(text) = Len(Flat(w)), \E S : found \in Seq(S),
           NEW la, NEW lo, NEW a, NEW p, Read(w[k]) = << <<la, lo>> >>,
           p = Offset(w, k) + 1, addPosition(la, lo, a, p), Kept(w, p)'
    PROVE  ReadTo(w, k + 1)'
<1>1. /\ Len(w) \in Nat /\ k \in Nat /\ k + 1 \in 1 .. Len(w) + 1
      /\ k + 1 - 1 = k /\ k + 1 - 2 = k - 1
      /\ Offset(w, k) \in Nat /\ Offset(w, k) <= Len(Flat(w)) /\ Len(Flat(w)) \in Nat
  BY Bounds
<1>2. PICK n : n = k + 1 /\ n - 1 = k /\ n - 2 = k - 1 /\ n \in 1 .. Len(w) + 1
  BY <1>1
<1>3. Results' = Results \o Read(w[k])
  <2>1. PICK S : found \in Seq(S)
    OBVIOUS
  <2>2. PICK x : x = [lat |-> la, lon |-> lo, after |-> a, before |-> start]
    OBVIOUS
  <2>3. x.lat = la /\ x.lon = lo /\ found' = Append(found, x)
    BY <2>2 DEF addPosition
  <2>4. PICK T : T = S \union {x}
    OBVIOUS
  <2>0. PICK m \in Nat : m = Len(found)
    BY <2>1
  <2>5. /\ DOMAIN found = 1 .. m /\ DOMAIN found' = 1 .. m + 1
        /\ \A i \in 1 .. m : found'[i] = found[i]
        /\ found'[m + 1] = x
    <3>1. found \in Seq(T) /\ x \in T
      BY <2>0, <2>1, <2>4
    <3>2. Append(found, x) \in Seq(T) /\ Len(Append(found, x)) = m + 1
      BY <2>0, <2>4, <3>1
    <3>3. \A i \in 1 .. m : Append(found, x)[i] = found[i]
      BY <2>0, <2>4, <3>1
    <3>4. Append(found, x)[m + 1] = x
      BY <2>0, <2>4, <3>1
    <3>. QED  BY <2>0, <2>3, <2>4, <3>1, <3>2, <3>3, <3>4
  <2>6. PICK y : y = <<la, lo>>
    OBVIOUS
  <2>7. PICK R : R = {<<found[i].lat, found[i].lon>> : i \in 1 .. m} \union {y}
    OBVIOUS
  <2>8. Results = [i \in 1 .. m |-> <<found[i].lat, found[i].lon>>]
    BY <2>5, Zenon DEF Results
  <2>9. Results \in Seq(R) /\ Len(Results) = m /\ y \in R
    <3>1. Results \in [1 .. m -> R]
      BY <2>7, <2>8
    <3>. QED  BY <2>7, <2>8, <3>1
  <2>10. Results' = [i \in 1 .. m + 1 |-> <<found'[i].lat, found'[i].lon>>]
    BY <2>5, Zenon DEF Results
  <2>11. \A i \in 1 .. m + 1 : Results'[i] = IF i = m + 1 THEN y ELSE Results[i]
    BY <2>3, <2>5, <2>6, <2>8, <2>10
  <2>12. DOMAIN Results' = 1 .. m + 1
    BY <2>10
  <2>13. PICK u : u = Results \o <<y>>
    OBVIOUS
  <2>14. u \in Seq(R) /\ Len(u) = m + 1 /\ u[m + 1] = y /\ \A i \in 1 .. m : u[i] = Results[i]
    <3>1. PICK v \in Seq(R) : v = Results /\ Len(v) = m
      BY <2>9
    <3>2. u = v \o <<y>> /\ y \in R
      BY <2>9, <2>13, <3>1
    <3>3. /\ v \o <<y>> \in Seq(R) /\ Len(v \o <<y>>) = Len(v) + 1
          /\ (v \o <<y>>)[Len(v) + 1] = y
          /\ \A i \in 1 .. Len(v) : (v \o <<y>>)[i] = v[i]
      BY <3>2, OneMore
    <3>. QED  BY <3>1, <3>2, <3>3, Zenon
  <2>15. Results' \in Seq(R) /\ Len(Results') = m + 1
    <3>1. Results' \in [1 .. m + 1 -> R]
      <4>1. ASSUME NEW i \in 1 .. m + 1 PROVE Results'[i] \in R
        BY <2>9, <2>11
      <4>2. Results' = [i \in 1 .. m + 1 |-> Results'[i]]
        BY <2>10, <2>12
      <4>. QED  BY <4>1, <4>2
    <3>. QED  BY <2>12, <3>1
  <2>16. PICK v \in Seq(R) : v = Results'
    BY <2>15
  <2>17. Alike(v, u, m + 1)
    BY <2>11, <2>14, <2>16 DEF Alike
  <2>18. v = u
    <3>1. PICK l \in Nat : l = m + 1
      OBVIOUS
    <3>. QED  BY <2>14, <2>15, <2>16, <2>17, <3>1, SameSeq
  <2>. QED  BY <2>6, <2>13, <2>16, <2>18
<1>4. ReadSoFar(w, n)'
  <2>2. Upto(ReadsOf(w), n - 1) = Upto(ReadsOf(w), k - 1) \o Read(w[k])
    BY <1>2, ReadsStep
  <2>3. \A i \in 1 .. n - 2 : i \in 1 .. k - 2 \/ i = k - 1
    BY <1>1, <1>2
  <2>4. \A i \in 1 .. n - 2 : ~Stop(w, i)
    BY <2>3 DEF ReadSoFar
  <2>5. Results = Upto(ReadsOf(w), k - 1)
    BY DEF ReadSoFar
  <2>6. Results' = Upto(ReadsOf(w), n - 1)
    BY <1>3, <2>2, <2>5, Zenon
  <2>. QED  BY <2>4, <2>6 DEF ReadSoFar
<1>5. AtStart(w, n)'
  <2>1. at' = "extract" /\ source' = p
    <3>1. ~(p > Len(text) + 1)
      BY <1>1
    <3>. QED  BY <3>1 DEF addPosition
  <2>2. Kept(w, source)'
    BY <2>1 DEF Kept
  <2>. QED  BY <1>2, <2>1, <2>2 DEF AtStart
<1>6. ReadTo(w, n)'
  BY <1>4, <1>5 DEF ReadTo
<1>. QED  BY <1>2, <1>6

-----------------------------------------------------------------------------
\* What is found at the places of a piece.

\* The E that ends a piece is no exponent.
LEMMA EndPlain ==
    ASSUME NEW w \in Writings, w = written, AllLegible(w), ~Exponent,
           text \in Seq(TextChar), Len(text) = Len(Flat(w)),
           NEW k \in 1 .. Len(w), NEW r, r = Offset(w, k), Kept(w, r)
    PROVE  PlainEnd(r)
<1>1. PICK c : c = w[k].chars
  OBVIOUS
<1>2. PICK n \in Nat : n = Len(c)
  BY <1>1, Bounds
<1>3. /\ c \in Seq(Char) /\ n # 0 /\ Len(w) \in Nat /\ Len(text) \in Nat
      /\ Offset(w, k - 1) \in Nat /\ r \in Nat
      /\ r = Offset(w, k - 1) + n /\ r <= Len(text)
      /\ \A i \in 1 .. n : Flat(w)[Offset(w, k - 1) + i] = c[i]
  <2>1. /\ w[k].chars \in Seq(Char) /\ Len(w[k].chars) \in Nat \ {0}
        /\ Len(w) \in Nat /\ Len(Flat(w)) \in Nat
        /\ Offset(w, k - 1) \in Nat /\ Offset(w, k) \in Nat
        /\ Offset(w, k) = Offset(w, k - 1) + Len(w[k].chars)
        /\ Offset(w, k) <= Len(Flat(w))
    BY Bounds
  <2>2. \A i \in 1 .. Len(w[k].chars) : Flat(w)[Offset(w, k - 1) + i] = w[k].chars[i]
    BY Bounds
  <2>. QED  BY <1>1, <1>2, <2>1, <2>2
<1>4. At(r) = c[n]
  <2>1. n \in 1 .. n /\ r \in r .. Len(text) /\ r \in 1 .. Len(text)
    BY <1>2, <1>3
  <2>2. Flat(w)[r] = c[n]
    BY <1>3, <2>1
  <2>3. text[r] = Flat(w)[r]
    BY <2>1 DEF Kept
  <2>. QED  BY <2>1, <2>2, <2>3, IsAt
<1>5. Last(c) = c[n]
  BY <1>2 DEF Last
<1>6. PICK m : m = k + 1 /\ m - 1 = k /\ m \in 1 .. Len(w) + 1
  BY <1>3
<1>7. /\ m = Len(w) + 1 => CharAt(text, r + 1) = NUL
      /\ m <= Len(w) => /\ CharAt(text, r + 1) = Head(w[m].chars)
                        /\ CharAt(text, r + 1) \in Char
  <2>1. \A q \in r + 1 .. Len(text) : text[q] = Flat(w)[q]
    <3>1. \A q \in r + 1 .. Len(text) : q \in r .. Len(text)
      BY <1>3
    <3>. QED  BY <3>1 DEF Kept
  <2>. QED  BY <1>6, <2>1, HeadAt
<1>8. NUL \notin Figure \union {"-"}
  BY CharKinds
<1>9. ASSUME m <= Len(w), At(r) = "E"
      PROVE  Head(w[m].chars) \notin Digit \union {"-"}
  <2>1. k \in 1 .. Len(w) - 1 /\ w[k + 1] = w[m]
    BY <1>3, <1>6, <1>9
  <2>. QED  BY <1>1, <1>4, <1>5, <1>9, <2>1 DEF Exponent
<1>10. m = Len(w) + 1 \/ m <= Len(w)
  BY <1>3, <1>6
<1>. QED  BY <1>7, <1>8, <1>9, <1>10, FigureFacts DEF PlainEnd, At

\* What extractPos makes of a legible position.
LEMMA ReadOf ==
    ASSUME NEW piece
    PROVE  /\ InHalves(piece.form)
              => Read(piece) = << <<piece.lat, LonRead(piece.form, piece.lon)>> >>
           /\ piece.form = "slash" => Read(piece) = << <<piece.lat, piece.lon>> >>
           /\ piece.form = "short" => Read(piece) = << <<piece.lon, Unset>> >>
<1>1. CASE piece.form = "dms"
  BY <1>1, Zenon DEF InHalves, Read, LonRead
<1>2. CASE piece.form = "minutes"
  BY <1>2, Zenon DEF InHalves, Read, LonRead
<1>3. CASE piece.form = "decimal"
  <2>1. LonRead(piece.form, piece.lon) = TwoDigits(Absolute(piece.lon))
    BY <1>3 DEF LonRead
  <2>2. Read(piece) = << <<piece.lat, TwoDigits(Absolute(piece.lon))>> >>
    BY <1>3, Zenon DEF Read, TwoDigits
  <2>. QED  BY <1>3, <2>1, <2>2
<1>4. CASE piece.form = "slash"
  BY <1>4, Zenon DEF InHalves, Read
<1>5. CASE piece.form = "short"
  BY <1>5, Zenon DEF InHalves, Read
<1>. QED  BY <1>1, <1>2, <1>3, <1>4, <1>5 DEF InHalves

\* The ways a legible position is written.
LegibleHalves(piece, i, j) ==
    /\ i \in 1 .. Len(piece.chars) /\ j \in 1 .. Len(piece.chars)
    /\ Halves(piece, i, j) /\ \A q \in i + 1 .. j : piece.chars[q] \in Filler
    /\ Absolute(piece.lat) < 90 * Deg /\ Absolute(piece.lon) < 180 * Deg

LegibleSlash(piece) ==
    Halves(piece, 8, 9) /\ Len(piece.chars) = 18 /\ piece.chars[9] = "/"

LegibleShort(piece) ==
    LET c == piece.chars IN
    /\ Len(c) = 8
    /\ Figures(c, 1, 2) /\ c[3] \in NS /\ c[4] = Space
    /\ Figures(c, 5, 7) /\ c[8] \in EW
    /\ Degrees(c, 1, 2) < 90 /\ Degrees(c, 5, 3) <= 180
    /\ piece.lon = Signed(Degrees(c, 5, 3) * Deg, c[8] = "W")

LEMMA LegibleForms ==
    ASSUME NEW piece \in Piece, Legible(piece), piece.form # "text"
    PROVE  /\ \/ InHalves(piece.form) /\ \E i, j : LegibleHalves(piece, i, j)
              \/ piece.form = "slash" /\ LegibleSlash(piece)
              \/ piece.form = "short" /\ LegibleShort(piece)
           /\ Read(piece) # <<>> /\ piece.form # "spaced"
<1>1. DOMAIN piece.chars = 1 .. Len(piece.chars)
  BY DEF Piece
<1>2. \/ InHalves(piece.form) /\ \E i, j : LegibleHalves(piece, i, j)
      \/ piece.form = "slash" /\ LegibleSlash(piece)
      \/ piece.form = "short" /\ LegibleShort(piece)
  BY <1>1, Zenon DEF Legible, InHalves, LegibleHalves, LegibleSlash, LegibleShort
<1>3. \E x : Read(piece) = <<x>>
  BY <1>2, ReadOf, Zenon
<1>4. Read(piece) # <<>>
  BY <1>3
<1>. QED  BY <1>2, <1>4 DEF InHalves

\* Piece k of the text.
HasPiece(w, k) ==
    /\ w \in Writings /\ k \in 1 .. Len(w) /\ AllLegible(w)
    /\ text \in Seq(TextChar) /\ Len(text) = Len(Flat(w))

LEMMA PieceShows ==
    ASSUME NEW w, NEW k, HasPiece(w, k), NEW b \in Nat, b = Offset(w, k - 1),
           NEW p \in Nat \ {0}, Kept(w, b + p)
    PROVE  /\ text \in Seq(TextChar) /\ Shows(b, p, w[k].chars)
           /\ w[k].chars \in Seq(Char) /\ Len(w[k].chars) \in Nat \ {0}
           /\ w[k].lon \in Int /\ Offset(w, k) = b + Len(w[k].chars)
<1>1. /\ w \in Writings /\ k \in 1 .. Len(w) /\ AllLegible(w)
      /\ text \in Seq(TextChar) /\ Len(text) = Len(Flat(w))
  BY DEF HasPiece
<1>2. Shows(b, p, w[k].chars)
  BY <1>1, Located
<1>. QED  BY <1>1, <1>2, Bounds

\* These facts in the form they are cited below.
Moved(form, c, b, p, n, r, H, neg) ==
    /\ Coordinate(form, text, b + p, n, b + r, H)
    /\ Meaning(form, text, b + p, n, b + r, neg) = Meaning(form, c, p, n, r, neg)

LEMMA CoordinateShown ==
    ASSUME NEW c \in Seq(Char), text \in Seq(TextChar),
           NEW b \in Nat, NEW p \in Nat \ {0}, Shows(b, p, c), NEW n \in {2, 3},
           NEW r \in Nat, r <= Len(c), NEW H, NEW neg,
           NEW form, Coordinate(form, c, p, n, r, H)
    PROVE  Moved(form, c, b, p, n, r, H, neg)
BY CoordinateMoved DEF Moved

LEMMA FiguresShown ==
    ASSUME NEW c \in Seq(Char), NEW b \in Nat, Shows(b, 1, c),
           NEW q \in Nat \ {0}, NEW s \in Nat, s <= Len(c), Figures(c, q, s),
           NEW x, x = b + q, NEW y, y = b + s
    PROVE  Figures(text, x, y)
BY FiguresMoved

LEMMA DegreesShown ==
    ASSUME NEW c \in Seq(Char), NEW b \in Nat, NEW p \in Nat \ {0}, Shows(b, p, c),
           NEW n \in {2, 3}, p + n - 1 <= Len(c), NEW x, x = b + p
    PROVE  Degrees(text, x, n) = Degrees(c, p, n)
BY DegreesMoved

LEMMA NotDirty ==
    ASSUME text \in Seq(TextChar), NEW p \in Nat \ {0}, At(p + 2) \notin NS
    PROVE  ~IsDirty(p)
BY LatShortFits DEF IsDirty

\* The latitude of a position in halves.
LEMMA HalvesLat ==
    ASSUME NEW w, NEW k, HasPiece(w, k), InHalves(w[k].form),
           NEW i, NEW j, LegibleHalves(w[k], i, j),
           NEW b \in Nat, b = Offset(w, k - 1),
           NEW p \in Nat \ {0}, p = b + 1, Kept(w, p)
    PROVE  /\ At(p) \in Digit /\ Unstamped(p) /\ ~IsDirty(p) /\ At(p + 2) # Space
           /\ ReadAs(queryLatValue(p), w[k].lat, p, b + i)
<1>1. PICK c : c = w[k].chars
  OBVIOUS
<1>2. PICK form : form = w[k].form
  OBVIOUS
<1>3. Kept(w, b + 1)
  OBVIOUS
<1>4. text \in Seq(TextChar) /\ Shows(b, 1, c) /\ c \in Seq(Char)
  BY <1>1, <1>3, PieceShows
<1>5. i \in Nat /\ i <= Len(c) /\ i # 0
  BY <1>1, <1>4 DEF LegibleHalves
<1>6. /\ Coordinate(form, c, 1, 2, i, NS)
      /\ w[k].lat = Meaning(form, c, 1, 2, i, "S") /\ Absolute(w[k].lat) < 90 * Deg
  BY <1>1, <1>2 DEF LegibleHalves, Halves
<1>7. /\ Coordinate(form, text, b + 1, 2, b + i, NS)
      /\ w[k].lat = Meaning(form, text, b + 1, 2, b + i, "S")
  <2>1. Moved(form, c, b, 1, 2, i, NS, "S")
    BY <1>4, <1>5, <1>6, CoordinateShown
  <2>. QED  BY <1>6, <2>1 DEF Moved
<1>8. b + i \in Nat /\ b + i <= Len(text)
  BY <1>4, <1>5 DEF Shows
<1>10. At(p) \in Digit /\ At(p + 2) \notin NS \union EW \union {Space} /\ Unstamped(p)
  BY <1>4, <1>7, <1>8, CoordinateUnstamped
<1>11. ~IsDirty(p)
  BY <1>4, <1>10, NotDirty
<1>12. ReadAs(queryLatValue(p), w[k].lat, p, b + i)
  BY <1>2, <1>4, <1>6, <1>7, <1>8, LatIs
<1>. QED  BY <1>10, <1>11, <1>12

\* Its longitude.
LEMMA HalvesLon ==
    ASSUME NEW w, NEW k, HasPiece(w, k), InHalves(w[k].form),
           NEW i, NEW j \in Nat, LegibleHalves(w[k], i, j),
           NEW b \in Nat, b = Offset(w, k - 1),
           NEW p \in Nat \ {0}, p = b + j + 1, Kept(w, p), PlainEnd(Offset(w, k))
    PROVE  /\ At(p) \in Digit /\ Unstamped(p)
           /\ ReadAs(queryLonValue(p), LonRead(w[k].form, w[k].lon), p, Offset(w, k))
           /\ Absolute(LonRead(w[k].form, w[k].lon)) < 180 * Deg
<1>1. PICK c : c = w[k].chars
  OBVIOUS
<1>2. PICK form : form = w[k].form
  OBVIOUS
<1>3. PICK q \in Nat \ {0} : q = j + 1 /\ p = b + q
  OBVIOUS
<1>4. /\ text \in Seq(TextChar) /\ Shows(b, q, c) /\ c \in Seq(Char)
      /\ Len(c) \in Nat \ {0} /\ w[k].lon \in Int /\ Offset(w, k) = b + Len(c)
  BY <1>1, <1>3, PieceShows
<1>5. PICK n \in Nat : n = Len(c)
  BY <1>4
<1>8. /\ Coordinate(form, c, q, 3, n, EW)
      /\ w[k].lon = Meaning(form, c, q, 3, n, "W") /\ Absolute(w[k].lon) < 180 * Deg
  BY <1>1, <1>2, <1>3, <1>5 DEF LegibleHalves, Halves
<1>9. /\ Coordinate(form, text, b + q, 3, b + n, EW)
      /\ w[k].lon = Meaning(form, text, b + q, 3, b + n, "W")
  <2>1. n <= Len(c)
    BY <1>5
  <2>2. Moved(form, c, b, q, 3, n, EW, "W")
    BY <1>4, <1>8, <2>1, CoordinateShown
  <2>. QED  BY <1>8, <2>2 DEF Moved
<1>10. b + n \in Nat /\ b + n <= Len(text)
  BY <1>4, <1>5 DEF Shows
<1>11. At(p) \in Digit /\ Unstamped(p)
  BY <1>3, <1>4, <1>9, <1>10, CoordinateUnstamped
<1>12. PICK r \in Nat, v \in Int : r = b + n /\ v = w[k].lon
  BY <1>4, <1>10
<1>13. /\ PlainEnd(r) /\ Coordinate(form, text, p, 3, r, EW)
       /\ v = Meaning(form, text, p, 3, r, "W") /\ Absolute(v) < 180 * Deg /\ r <= Len(text)
  BY <1>3, <1>4, <1>5, <1>8, <1>9, <1>10, <1>12, Zenon
<1>14. ReadAs(queryLonValue(p), LonRead(form, v), p, r) /\ Absolute(LonRead(form, v)) < 180 * Deg
  BY <1>2, <1>4, <1>13, LonIs
<1>15. Offset(w, k) = r
  BY <1>4, <1>5, <1>12
<1>. QED  BY <1>2, <1>11, <1>12, <1>14, <1>15

LEMMA PlaceBehind ==
    ASSUME NEW b \in Nat, NEW p \in Nat \ {0}, p = b + 1
    PROVE  /\ b + 1 = p /\ b + 2 = p + 1 /\ b + 3 = p + 2 /\ b + 4 = p + 3 /\ b + 5 = p + 4
           /\ b + 7 = p + 6 /\ b + 8 = p + 7 /\ b + 9 = p + 8 /\ b + 10 = p + 9
           /\ b + 18 = p + 17 /\ p + 8 = b + 8 + 1 /\ p + 18 = b + 18 + 1
OBVIOUS

\* A position with a slash.
LEMMA SlashPlace ==
    ASSUME NEW w, NEW k, HasPiece(w, k), LegibleSlash(w[k]), w[k].form = "slash",
           NEW b \in Nat, b = Offset(w, k - 1),
           NEW p \in Nat \ {0}, p = b + 1, Kept(w, p)
    PROVE  /\ At(p) \in Digit /\ Unstamped(p) /\ ~IsDirty(p) /\ At(p + 2) # Space
           /\ IsSlash(p) /\ queryLatValue(p) = NotFound(text)
           /\ Signed(Angle(p, 2, Copied(p + 2), p + 2), At(p + 7) = "S") = w[k].lat
           /\ Signed(Angle(p + 9, 3, Copied(p + 12), p + 12), At(p + 17) = "W") = w[k].lon
           /\ p + 18 = Offset(w, k) + 1
<1>1. PICK c : c = w[k].chars
  OBVIOUS
<1>2. Kept(w, b + 1)
  OBVIOUS
<1>3. /\ text \in Seq(TextChar) /\ Shows(b, 1, c) /\ c \in Seq(Char)
      /\ Offset(w, k) = b + Len(c)
  BY <1>1, <1>2, PieceShows
<1>4. Len(c) = 18 /\ c[9] = "/" /\ Halves(w[k], 8, 9)
  BY <1>1 DEF LegibleSlash
<1>5. /\ Coordinate("slash", c, 1, 2, 8, NS) /\ Coordinate("slash", c, 10, 3, 18, EW)
      /\ w[k].lat = Meaning("slash", c, 1, 2, 8, "S")
      /\ w[k].lon = Meaning("slash", c, 10, 3, 18, "W")
  <2>1. 9 + 1 = 10
    OBVIOUS
  <2>. QED  BY <1>1, <1>4, <2>1, Zenon DEF Halves
<1>6. /\ Coordinate("slash", text, p, 2, p + 7, NS)
      /\ w[k].lat = Meaning("slash", text, p, 2, p + 7, "S")
  <2>1. /\ Coordinate("slash", text, b + 1, 2, b + 8, NS)
        /\ w[k].lat = Meaning("slash", text, b + 1, 2, b + 8, "S")
    <3>1. Moved("slash", c, b, 1, 2, 8, NS, "S")
      <4>1. 8 <= Len(c) /\ 8 \in Nat /\ 2 \in {2, 3} /\ 1 \in Nat \ {0}
        BY <1>4
      <4>2. Coordinate("slash", c, 1, 2, 8, NS)
        BY <1>5
      <4>. QED  BY <1>3, <4>1, <4>2, CoordinateShown, Zenon
    <3>. QED  BY <1>5, <3>1 DEF Moved
  <2>. QED  BY <2>1, PlaceBehind
<1>7. /\ Coordinate("slash", text, p + 9, 3, p + 17, EW)
      /\ w[k].lon = Meaning("slash", text, p + 9, 3, p + 17, "W")
  <2>1. Shows(b, 10, c)
    BY <1>3, <1>4 DEF Shows
  <2>2. /\ Coordinate("slash", text, b + 10, 3, b + 18, EW)
        /\ w[k].lon = Meaning("slash", text, b + 10, 3, b + 18, "W")
    <3>1. Moved("slash", c, b, 10, 3, 18, EW, "W")
      <4>1. 18 <= Len(c) /\ 18 \in Nat /\ 3 \in {2, 3} /\ 10 \in Nat \ {0}
        BY <1>4
      <4>2. Coordinate("slash", c, 10, 3, 18, EW)
        BY <1>5
      <4>. QED  BY <1>3, <2>1, <4>1, <4>2, CoordinateShown, Zenon
    <3>. QED  BY <1>5, <3>1 DEF Moved
  <2>. QED  BY <2>2, PlaceBehind
<1>8. b + 18 <= Len(text) /\ text[b + 9] = c[9]
  BY <1>3, <1>4 DEF Shows
<1>9. p + 17 <= Len(text) /\ p + 7 \in Nat /\ p + 7 <= Len(text) /\ p + 8 \in 1 .. Len(text)
  <2>1. p + 17 <= Len(text) /\ Len(text) \in Nat
    BY <1>3, <1>8, PlaceBehind
  <2>. QED  BY <2>1
<1>10. At(p + 8) = "/"
  <2>1. At(p + 8) = text[p + 8]
    BY <1>3, <1>9, IsAt
  <2>. QED  BY <1>4, <1>8, <2>1, PlaceBehind
<1>11. At(p) \in Digit /\ Unstamped(p) /\ At(p + 2) \notin NS \union EW \union {Space}
  BY <1>3, <1>6, <1>9, CoordinateUnstamped
<1>12. ~IsDirty(p)
  BY <1>3, <1>11, NotDirty
<1>13. p + 18 = Offset(w, k) + 1
  BY <1>3, <1>4
<1>14. /\ IsSlash(p) /\ queryLatValue(p) = NotFound(text)
       /\ Signed(Angle(p, 2, Copied(p + 2), p + 2), At(p + 7) = "S")
          = Meaning("slash", text, p, 2, p + 7, "S")
       /\ Signed(Angle(p + 9, 3, Copied(p + 12), p + 12), At(p + 17) = "W")
          = Meaning("slash", text, p + 9, 3, p + 17, "W")
  BY <1>3, <1>6, <1>7, <1>9, <1>10, SlashIs
<1>. QED  BY <1>6, <1>7, <1>11, <1>12, <1>13, <1>14, Zenon

\* What it is to the code.
SlashRead(w, k, p) ==
    /\ IsSlash(p) /\ queryLatValue(p) = NotFound(text)
    /\ Signed(Angle(p, 2, Copied(p + 2), p + 2), At(p + 7) = "S") = w[k].lat
    /\ Signed(Angle(p + 9, 3, Copied(p + 12), p + 12), At(p + 17) = "W") = w[k].lon
    /\ p + 18 = Offset(w, k) + 1

LEMMA SlashSeen ==
    ASSUME NEW w, NEW k, HasPiece(w, k), LegibleSlash(w[k]), w[k].form = "slash",
           NEW b \in Nat, b = Offset(w, k - 1),
           NEW p \in Nat \ {0}, p = b + 1, Kept(w, p)
    PROVE  SlashRead(w, k, p)
BY SlashPlace DEF SlashRead

\* A position without minutes.
LEMMA ShortPlace ==
    ASSUME NEW w, NEW k, HasPiece(w, k), LegibleShort(w[k]),
           NEW b \in Nat, b = Offset(w, k - 1),
           NEW p \in Nat \ {0}, p = b + 1, Kept(w, p), PlainEnd(Offset(w, k))
    PROVE  /\ At(p) \in Digit /\ Unstamped(p) /\ IsDirty(p)
           /\ dirtyLon(p) = w[k].lon
           /\ p + 8 = Offset(w, k) + 1
<1>1. PICK c : c = w[k].chars
  OBVIOUS
<1>2. Kept(w, b + 1)
  OBVIOUS
<1>3. /\ text \in Seq(TextChar) /\ Shows(b, 1, c) /\ c \in Seq(Char)
      /\ Offset(w, k) = b + Len(c)
  BY <1>1, <1>2, PieceShows
<1>4. /\ Len(c) = 8
      /\ Figures(c, 1, 2) /\ c[3] \in NS /\ c[4] = Space
      /\ Figures(c, 5, 7) /\ c[8] \in EW
      /\ Degrees(c, 1, 2) < 90 /\ Degrees(c, 5, 3) <= 180
      /\ w[k].lon = Signed(Degrees(c, 5, 3) * Deg, c[8] = "W")
  BY <1>1 DEF LegibleShort
<1>5. /\ b + 8 <= Len(text) /\ text[b + 8] = c[8] /\ text[b + 3] = c[3]
      /\ text[b + 4] = c[4]
  BY <1>3, <1>4 DEF Shows
<1>6. /\ p + 7 <= Len(text) /\ p + 7 \in 1 .. Len(text)
      /\ p + 2 \in 1 .. Len(text) /\ p + 3 \in 1 .. Len(text)
  <2>1. PICK l \in Nat : l = Len(text)
    BY <1>3
  <2>2. b + 8 <= l
    BY <1>5, <2>1
  <2>3. p + 7 <= l /\ p + 7 \in 1 .. l /\ p + 2 \in 1 .. l /\ p + 3 \in 1 .. l
    BY <2>2
  <2>. QED  BY <2>1, <2>3, Zenon
<1>7. text[p + 7] = c[8] /\ text[p + 2] = c[3] /\ text[p + 3] = c[4]
  BY <1>5, PlaceBehind
<1>9. At(p + 7) = c[8] /\ At(p + 2) = c[3] /\ At(p + 3) = c[4]
  BY <1>3, <1>6, <1>7, IsAt
<1>10. Figures(text, p, p + 1) /\ Figures(text, p + 4, p + 6)
  <2>1. p = b + 1 /\ p + 1 = b + 2 /\ p + 4 = b + 5 /\ p + 6 = b + 7
    BY PlaceBehind
  <2>2. Shows(b, 1, c) /\ c \in Seq(Char)
    BY <1>3
  <2>3. 2 <= Len(c) /\ 7 <= Len(c) /\ Figures(c, 1, 2) /\ Figures(c, 5, 7)
    BY <1>4
  <2>4. Figures(text, p, p + 1)
    <3>1. 1 \in Nat \ {0} /\ 2 \in Nat
      OBVIOUS
    <3>. QED  BY <2>1, <2>2, <2>3, <3>1, FiguresShown, Zenon
  <2>5. Figures(text, p + 4, p + 6)
    <3>1. 5 \in Nat \ {0} /\ 7 \in Nat
      OBVIOUS
    <3>. QED  BY <2>1, <2>2, <2>3, <3>1, FiguresShown, Zenon
  <2>. QED  BY <2>4, <2>5
<1>11. Degrees(text, p, 2) = Degrees(c, 1, 2) /\ Degrees(text, p + 4, 3) = Degrees(c, 5, 3)
  <2>1. p = b + 1 /\ p + 4 = b + 5
    BY PlaceBehind
  <2>3. Shows(b, 1, c) /\ Shows(b, 5, c) /\ c \in Seq(Char)
    BY <1>3, <1>4 DEF Shows
  <2>5. 1 + 2 - 1 <= Len(c) /\ 5 + 3 - 1 <= Len(c)
    BY <1>4
  <2>2. Degrees(text, p, 2) = Degrees(c, 1, 2)
    BY <2>1, <2>3, <2>5, DegreesShown
  <2>4. Degrees(text, p + 4, 3) = Degrees(c, 5, 3)
    BY <2>1, <2>3, <2>5, DegreesShown
  <2>. QED  BY <2>2, <2>4
<1>12. ShortText(p)
  BY <1>4, <1>6, <1>9, <1>10, <1>11 DEF ShortText
<1>13. PlainEnd(p + 7)
  BY <1>3, <1>4, PlaceBehind
<1>14. IsDirty(p) /\ dirtyLon(p) = Signed(Degrees(text, p + 4, 3) * Deg, At(p + 7) = "W")
  BY <1>3, <1>12, <1>13, ShortIs
<1>15. At(p) \in Digit
  <2>0. Len(text) \in Nat
    BY <1>3
  <2>1. p + 7 <= Len(text)
    BY <1>6
  <2>2. p + 1 <= Len(text)
    BY <2>0, <2>1
  <2>3. p \in p .. p + 1 /\ p + 1 \in Int
    OBVIOUS
  <2>. QED  BY <1>3, <1>10, <2>2, <2>3, FigureAt
<1>16. Unstamped(p)
  BY <1>3, <1>4, <1>9, DigitKinds, UnstampedBy
<1>17. p + 8 = Offset(w, k) + 1
  BY <1>3, <1>4
<1>. QED  BY <1>4, <1>9, <1>11, <1>14, <1>15, <1>16, <1>17, Zenon

-----------------------------------------------------------------------------
\* Dates and times between positions.

LEMMA ShownAt ==
    ASSUME text \in Seq(TextChar), NEW c \in Seq(Char), NEW b \in Nat, Shows(b, 1, c),
           NEW i \in 1 .. Len(c), NEW x, x = b + i
    PROVE  At(x) = c[i] /\ c[i] \in Char
<1>1. c[i] \in Char
  OBVIOUS
<1>2. text[x] = c[i] /\ x \in 1 .. Len(text)
  BY DEF Shows
<1>. QED  BY <1>1, <1>2, IsAt

\* A form that what is shown has.
HasForm(c, f, n) ==
    /\ Shape(f, n, f.skip) /\ Len(c) = n
    /\ \A i \in 1 .. n : c[i] \in f.chars[i]
    /\ \A i, j \in f.seps : c[i] = c[j]

LEMMA MatchShown ==
    ASSUME NEW c \in Seq(Char), NEW b \in Nat, Shows(b, 1, c),
           NEW p, p = b + 1, NEW f, NEW n \in Nat, HasForm(c, f, n)
    PROVE  Matches(f, p)
<1>1. /\ Len(f.chars) = n /\ DOMAIN f.chars = 1 .. n /\ f.seps \subseteq 1 .. n
      /\ Len(c) = n
  BY DEF HasForm, Shape
<1>2. ASSUME NEW i \in 1 .. n
      PROVE  text[p + i - 1] = c[i]
  <2>1. p + i - 1 = b + i /\ i \in 1 .. Len(c)
    BY <1>1, <1>2
  <2>2. text[b + i] = c[i]
    BY <2>1 DEF Shows
  <2>. QED  BY <2>1, <2>2
<1>3. p + Len(f.chars) - 1 <= Len(text)
  BY <1>1 DEF Shows
<1>4. \A i \in DOMAIN f.chars : text[p + i - 1] \in f.chars[i]
  BY <1>1, <1>2 DEF HasForm
<1>5. \A i, j \in f.seps : text[p + i - 1] = text[p + j - 1]
  <2> SUFFICES ASSUME NEW i \in f.seps, NEW j \in f.seps
               PROVE  text[p + i - 1] = text[p + j - 1]
    OBVIOUS
  <2>1. i \in 1 .. n /\ j \in 1 .. n
    BY <1>1
  <2>2. c[i] = c[j]
    BY DEF HasForm
  <2>. QED  BY <1>2, <2>1, <2>2
<1>. QED  BY <1>3, <1>4, <1>5 DEF Matches

\* The three ways of dates and times with a blank behind.
LongDate(c) ==
    /\ Len(c) = 11 /\ c[1] = "2" /\ c[2] = "0" /\ c[3] \in Digit /\ c[4] \in Digit
    /\ c[5] \in DateSep /\ c[6] \in Digit /\ c[7] \in Digit /\ c[8] = c[5]
    /\ c[9] \in Digit /\ c[10] \in Digit /\ c[11] \in Blank

ThreeNumbers(c) ==
    /\ Len(c) = 9 /\ c[1] \in Digit /\ c[2] \in Digit /\ c[4] \in Digit /\ c[5] \in Digit
    /\ c[3] \in DateSep \union {":"} /\ c[6] = c[3]
    /\ c[7] \in Digit /\ c[8] \in Digit /\ c[9] \in Blank

TwoNumbers(c) ==
    /\ Len(c) = 6 /\ c[1] \in Digit /\ c[2] \in Digit /\ c[3] = ":"
    /\ c[4] \in Digit /\ c[5] \in Digit /\ c[6] \in Blank

LEMMA StampKinds ==
    ASSUME NEW c \in Seq(Char), IsStamp(c)
    PROVE  LongDate(c) \/ ThreeNumbers(c) \/ TwoNumbers(c)
<1>1. CASE Len(c) = 11
  BY <1>1, SMT DEF IsStamp, Figures, LongDate
<1>2. CASE Len(c) = 9
  BY <1>2, SMT DEF IsStamp, Figures, ThreeNumbers
<1>3. CASE Len(c) = 6
  BY <1>3, SMT DEF IsStamp, Figures, TwoNumbers
<1>. QED  BY <1>1, <1>2, <1>3 DEF IsStamp

LEMMA LongDateForm ==
    ASSUME NEW c \in Seq(Char), LongDate(c)
    PROVE  HasForm(c, DateForms[1], 11)
<1>1. PICK f : f = DateForms[1]
  OBVIOUS
<1>2. Shape(f, 11, 10)
  BY <1>1, DateShapes
<1>3. f.chars = <<{"2"}, {"0"}, Digit, Digit, DateSep, Digit, Digit, DateSep,
                  Digit, Digit, Blank>> /\ f.seps = {5, 8}
  BY <1>1, FormChars
<1>4. c[8] \in DateSep
  BY DEF LongDate
<1>5. \A i \in 1 .. 11 : c[i] \in f.chars[i]
  <2>1. /\ c[1] \in f.chars[1] /\ c[2] \in f.chars[2] /\ c[3] \in f.chars[3]
        /\ c[4] \in f.chars[4] /\ c[5] \in f.chars[5] /\ c[6] \in f.chars[6]
        /\ c[7] \in f.chars[7] /\ c[8] \in f.chars[8] /\ c[9] \in f.chars[9]
        /\ c[10] \in f.chars[10] /\ c[11] \in f.chars[11]
    BY <1>3, <1>4 DEF LongDate
  <2>2. \A i \in 1 .. 11 : i \in {1, 2, 3, 4, 5, 6, 7, 8, 9, 10, 11}
    OBVIOUS
  <2>. QED  BY <2>1, <2>2
<1>6. \A i, j \in f.seps : c[i] = c[j]
  BY <1>3 DEF LongDate
<1>7. Len(c) = 11 /\ Shape(f, 11, f.skip)
  BY <1>2 DEF LongDate, Shape
<1>. QED  BY <1>1, <1>5, <1>6, <1>7 DEF HasForm

LEMMA ShortDateForm ==
    ASSUME NEW c \in Seq(Char), ThreeNumbers(c), c[3] # ":"
    PROVE  HasForm(c, DateForms[5], 9)
<1>1. PICK f : f = DateForms[5]
  OBVIOUS
<1>2. Shape(f, 9, 8)
  BY <1>1, DateShapes
<1>3. f.chars = <<Digit, Digit, DateSep, Digit, Digit, DateSep, Digit, Digit, Blank>>
      /\ f.seps = {3, 6}
  BY <1>1, FormChars
<1>4. c[3] \in DateSep /\ c[6] \in DateSep
  BY DEF ThreeNumbers
<1>5. \A i \in 1 .. 9 : c[i] \in f.chars[i]
  <2>1. /\ c[1] \in f.chars[1] /\ c[2] \in f.chars[2] /\ c[3] \in f.chars[3]
        /\ c[4] \in f.chars[4] /\ c[5] \in f.chars[5] /\ c[6] \in f.chars[6]
        /\ c[7] \in f.chars[7] /\ c[8] \in f.chars[8] /\ c[9] \in f.chars[9]
    BY <1>3, <1>4 DEF ThreeNumbers
  <2>2. \A i \in 1 .. 9 : i \in {1, 2, 3, 4, 5, 6, 7, 8, 9}
    OBVIOUS
  <2>. QED  BY <2>1, <2>2
<1>6. \A i, j \in f.seps : c[i] = c[j]
  BY <1>3 DEF ThreeNumbers
<1>7. Len(c) = 9 /\ Shape(f, 9, f.skip)
  BY <1>2 DEF ThreeNumbers, Shape
<1>. QED  BY <1>1, <1>5, <1>6, <1>7 DEF HasForm

LEMMA LongTimeForm ==
    ASSUME NEW c \in Seq(Char), ThreeNumbers(c), c[3] = ":"
    PROVE  HasForm(c, TimeForms[1], 9)
<1>1. PICK f : f = TimeForms[1]
  OBVIOUS
<1>2. Shape(f, 9, 8)
  BY <1>1, TimeShapes
<1>3. f.chars = <<Digit, Digit, TimeSep, Digit, Digit, TimeSep, Digit, Digit, Blank>>
      /\ f.seps = {3, 6}
  BY <1>1, FormChars
<1>4. c[3] \in TimeSep /\ c[6] \in TimeSep
  <2>1. Len(c) = 9 /\ c[6] = c[3]
    BY DEF ThreeNumbers
  <2>2. c[3] \in Char
    BY <2>1
  <2>. QED  BY <2>1, <2>2 DEF TimeSep
<1>5. \A i \in 1 .. 9 : c[i] \in f.chars[i]
  <2>1. /\ c[1] \in f.chars[1] /\ c[2] \in f.chars[2] /\ c[3] \in f.chars[3]
        /\ c[4] \in f.chars[4] /\ c[5] \in f.chars[5] /\ c[6] \in f.chars[6]
        /\ c[7] \in f.chars[7] /\ c[8] \in f.chars[8] /\ c[9] \in f.chars[9]
    BY <1>3, <1>4 DEF ThreeNumbers
  <2>2. \A i \in 1 .. 9 : i \in {1, 2, 3, 4, 5, 6, 7, 8, 9}
    OBVIOUS
  <2>. QED  BY <2>1, <2>2
<1>6. \A i, j \in f.seps : c[i] = c[j]
  BY <1>3 DEF ThreeNumbers
<1>7. Len(c) = 9 /\ Shape(f, 9, f.skip)
  BY <1>2 DEF ThreeNumbers, Shape
<1>. QED  BY <1>1, <1>5, <1>6, <1>7 DEF HasForm

LEMMA ShortTimeForm ==
    ASSUME NEW c \in Seq(Char), TwoNumbers(c)
    PROVE  HasForm(c, TimeForms[2], 6)
<1>1. PICK f : f = TimeForms[2]
  OBVIOUS
<1>2. Shape(f, 6, 5)
  BY <1>1, TimeShapes
<1>3. f.chars = <<Digit, Digit, TimeSep, Digit, Digit, Blank>> /\ f.seps = {3}
  BY <1>1, FormChars
<1>4. c[3] \in TimeSep
  <2>1. Len(c) = 6
    BY DEF TwoNumbers
  <2>2. c[3] \in Char
    BY <2>1
  <2>3. c[3] = ":"
    BY DEF TwoNumbers
  <2>. QED  BY <2>2, <2>3, Zenon DEF TimeSep
<1>5. \A i \in 1 .. 6 : c[i] \in f.chars[i]
  <2>1. /\ c[1] \in f.chars[1] /\ c[2] \in f.chars[2] /\ c[3] \in f.chars[3]
        /\ c[4] \in f.chars[4] /\ c[5] \in f.chars[5] /\ c[6] \in f.chars[6]
    BY <1>3, <1>4 DEF TwoNumbers
  <2>2. \A i \in 1 .. 6 : i \in {1, 2, 3, 4, 5, 6}
    OBVIOUS
  <2>. QED  BY <2>1, <2>2
<1>6. \A i, j \in f.seps : c[i] = c[j]
  BY <1>3
<1>7. Len(c) = 6 /\ Shape(f, 6, f.skip)
  BY <1>2 DEF TwoNumbers, Shape
<1>. QED  BY <1>1, <1>5, <1>6, <1>7 DEF HasForm

\* The first characters of a piece where they stand.
Opens(p, c) ==
    /\ At(p) = c[1] /\ At(p + 2) = c[3] /\ At(p + 4) = c[5] /\ At(p + 5) = c[6]
    /\ c[1] \in Char /\ c[3] \in Char /\ c[5] \in Char /\ c[6] \in Char

LEMMA OpensShown ==
    ASSUME text \in Seq(TextChar), NEW c \in Seq(Char), NEW b \in Nat, Shows(b, 1, c),
           NEW p, p = b + 1, 6 <= Len(c)
    PROVE  Opens(p, c)
<1>1. Len(c) \in Nat
  OBVIOUS
<1>2. /\ 1 \in 1 .. Len(c) /\ 3 \in 1 .. Len(c) /\ 5 \in 1 .. Len(c) /\ 6 \in 1 .. Len(c)
      /\ p + 2 = b + 3 /\ p + 4 = b + 5 /\ p + 5 = b + 6
  BY <1>1
<1>3. At(p) = c[1] /\ c[1] \in Char
  BY <1>2, ShownAt
<1>4. At(p + 2) = c[3] /\ c[3] \in Char
  BY <1>2, ShownAt
<1>5. At(p + 4) = c[5] /\ c[5] \in Char
  BY <1>2, ShownAt
<1>6. At(p + 5) = c[6] /\ c[6] \in Char
  BY <1>2, ShownAt
<1>. QED  BY <1>3, <1>4, <1>5, <1>6 DEF Opens

LEMMA StampLength ==
    ASSUME NEW c, IsStamp(c)
    PROVE  6 <= Len(c)
<1>1. Len(c) \in {6, 9, 11}
  BY Zenon DEF IsStamp
<1>2. \A n \in {6, 9, 11} : 6 <= n
  OBVIOUS
<1>. QED  BY <1>1, <1>2, Zenon

\* A date or a time that a piece is, is stepped over up to its last character.
SteppedOver(p, c, r) ==
    /\ At(p) \in Digit
    /\ c[3] # ":" => Skip(DateForms, p) = r
    /\ c[3] = ":" => Skip(DateForms, p) = p /\ Skip(TimeForms, p) = r

LEMMA StampStepped ==
    ASSUME text \in Seq(TextChar), NEW c \in Seq(Char), IsStamp(c),
           NEW b \in Nat, Shows(b, 1, c), NEW p \in Nat \ {0}, p = b + 1
    PROVE  SteppedOver(p, c, b + Len(c))
<1>1. 6 <= Len(c)
  BY StampLength, Zenon
<1>2. Opens(p, c)
  BY <1>1, OpensShown, Zenon
<1>3. \A d \in Digit : d \notin DateSep /\ d \notin TimeSep /\ d \notin Blank /\ d # ":"
  BY DigitKinds, FigureFacts, CharKinds
<1>4. CASE LongDate(c)
  <2>1. Matches(DateForms[1], p)
    BY <1>4, LongDateForm, MatchShown
  <2>2. At(p) = "2" /\ At(p) \in Char /\ At(p + 2) \in Digit /\ At(p + 6) \notin DateSep
        /\ Len(c) = 11 /\ c[3] # ":"
    <3>1. Len(c) = 11 /\ c[7] \in Digit
      BY <1>4 DEF LongDate
    <3>2. 7 \in 1 .. Len(c) /\ p + 6 = b + 7
      BY <3>1
    <3>3. At(p + 6) = c[7]
      BY <3>2, ShownAt
    <3>4. At(p) = "2" /\ At(p) \in Char /\ At(p + 2) \in Digit /\ c[3] \in Digit
      BY <1>2, <1>4 DEF LongDate, Opens
    <3>. QED  BY <1>3, <3>1, <3>3, <3>4
  <2>3. \A j \in 1 .. 5 : j # 1 => ~Matches(DateForms[j], p)
    BY <1>3, <2>2, DateNeeds
  <2>4. Skip(DateForms, p) = p + 10
    <3>1. Skip(DateForms, p) = p + DateForms[1].skip
      BY <2>1, <2>3, OneStamp
    <3>. QED  BY <3>1, DateShapes DEF Shape
  <2>5. At(p) \in Digit
    BY <2>2 DEF Digit
  <2>6. p + 10 = b + 11
    OBVIOUS
  <2>. QED  BY <2>2, <2>4, <2>5, <2>6 DEF SteppedOver
<1>5. CASE ThreeNumbers(c) /\ c[3] # ":"
  <2>1. Matches(DateForms[5], p)
    BY <1>5, ShortDateForm, MatchShown
  <2>2. At(p) \in Digit /\ At(p + 2) \notin Digit /\ At(p + 4) \notin DateSep
        /\ At(p + 8) \notin Digit /\ Len(c) = 9
    <3>1. Len(c) = 9 /\ c[9] \in Blank
      BY <1>5 DEF ThreeNumbers
    <3>2. 9 \in 1 .. Len(c) /\ p + 8 = b + 9
      BY <3>1
    <3>3. At(p + 8) = c[9]
      BY <3>2, ShownAt
    <3>4. At(p) \in Digit /\ At(p + 2) \in DateSep /\ At(p + 4) \in Digit
      BY <1>2, <1>5 DEF ThreeNumbers, Opens
    <3>. QED  BY <1>3, <3>1, <3>3, <3>4
  <2>3. \A j \in 1 .. 5 : j # 5 => ~Matches(DateForms[j], p)
    BY <1>3, <2>2, DateNeeds
  <2>4. Skip(DateForms, p) = p + 8
    <3>1. Skip(DateForms, p) = p + DateForms[5].skip
      BY <2>1, <2>3, OneStamp
    <3>. QED  BY <3>1, DateShapes DEF Shape
  <2>6. p + 8 = b + 9
    OBVIOUS
  <2>. QED  BY <1>5, <2>2, <2>4, <2>6 DEF SteppedOver
<1>6. ASSUME c[3] = ":", c[1] \in Digit
      PROVE  At(p) \in Digit /\ Skip(DateForms, p) = p
  <2>1. At(p) \in Digit /\ At(p + 2) \notin Digit /\ At(p + 2) \notin DateSep
    BY <1>2, <1>3, <1>6, CharKinds DEF Opens
  <2>2. \A j \in 1 .. 5 : ~Matches(DateForms[j], p)
    BY <2>1, DateNeeds
  <2>. QED  BY <2>1, <2>2, NoDateAt
<1>7. CASE ThreeNumbers(c) /\ c[3] = ":"
  <2>1. Matches(TimeForms[1], p)
    BY <1>7, LongTimeForm, MatchShown
  <2>2. c[1] \in Digit /\ Len(c) = 9 /\ c[6] = ":"
    BY <1>7 DEF ThreeNumbers
  <2>3. At(p + 5) \notin Blank
    BY <1>2, <2>2 DEF Opens, Blank
  <2>4. \A j \in 1 .. 2 : j # 1 => ~Matches(TimeForms[j], p)
    BY <2>3, TimeNeeds
  <2>5. Skip(TimeForms, p) = p + 8
    <3>1. Skip(TimeForms, p) = p + TimeForms[1].skip
      BY <2>1, <2>4, OneStamp
    <3>. QED  BY <3>1, TimeShapes DEF Shape
  <2>6. p + 8 = b + 9
    OBVIOUS
  <2>. QED  BY <1>6, <1>7, <2>2, <2>5, <2>6 DEF SteppedOver
<1>8. CASE TwoNumbers(c)
  <2>1. Matches(TimeForms[2], p)
    BY <1>8, ShortTimeForm, MatchShown
  <2>2. c[1] \in Digit /\ Len(c) = 6 /\ c[3] = ":" /\ c[6] \in Blank
    BY <1>8 DEF TwoNumbers
  <2>3. At(p + 5) \notin TimeSep
    BY <1>2, <2>2, CharKinds DEF Opens
  <2>4. \A j \in 1 .. 2 : j # 2 => ~Matches(TimeForms[j], p)
    BY <2>3, TimeNeeds
  <2>5. Skip(TimeForms, p) = p + 5
    <3>1. Skip(TimeForms, p) = p + TimeForms[2].skip
      BY <2>1, <2>4, OneStamp
    <3>. QED  BY <3>1, TimeShapes DEF Shape
  <2>6. p + 5 = b + 6
    OBVIOUS
  <2>. QED  BY <1>6, <2>2, <2>5, <2>6 DEF SteppedOver
<1>. QED  BY <1>4, <1>5, <1>7, <1>8, StampKinds

\* Nothing is found where no digit stands.
LEMMA NothingAt ==
    ASSUME text \in Seq(TextChar), NEW p \in Nat \ {0}, At(p) \notin Digit \union Mark
    PROVE  /\ Skip(TimeForms, p) = p /\ ~IsDirty(p) /\ ~IsSlash(p)
           /\ queryLatValue(p) = NotFound(text)
<1>1. ~Fits(LatDms, p) /\ ~Fits(LatDecimal, p) /\ ~Fits(LatOpen, p)
  BY LatDmsFits, LatDecimalFits, LatOpenFits
<1>2. ~Fits(Slash, p) /\ ~Fits(Two \o <<NS>>, p)
  BY SlashFits, LatShortFits
<1>3. \A j \in {1, 2} : ~Matches(TimeForms[j], p)
  BY TimeNeeds
<1>4. Skip(TimeForms, p) = p
  BY <1>3, NoTimeAt
<1>. QED  BY <1>1, <1>2, <1>4 DEF queryLatValue, IsLatDms, IsDirty, IsSlash

-----------------------------------------------------------------------------
\* No position as long as N dd dd.dd is seen in a legible text.

LEMMA OffsetsGrow ==
    ASSUME NEW w \in Writings, NEW k \in 0 .. Len(w), NEW m \in k .. Len(w)
    PROVE  Offset(w, k) <= Offset(w, m)
<1>1. PICK s : s = CharsOf(w)
  OBVIOUS
<1>2. s \in Seq(Seq(Char)) /\ Len(s) = Len(w)
  BY <1>1, CharsType
<1>3. Begins(Upto(s, k), Upto(s, m))
  BY <1>2, UptoBegins
<1>. QED  BY <1>1, <1>3 DEF Begins, Offset

\* The piece a place is in.
LEMMA PieceThere ==
    ASSUME NEW w \in Writings, NEW q \in Nat, 1 <= q, q <= Len(Flat(w))
    PROVE  \E m \in 1 .. Len(w) : Offset(w, m - 1) < q /\ q <= Offset(w, m)
<1> DEFINE S == {m \in 1 .. Len(w) : q <= Offset(w, m)}
<1>1. Len(w) \in Nat \ {0}
  BY CharsType
<1>2. Offset(w, Len(w)) = Len(Flat(w)) /\ Offset(w, 0) = 0
  BY Offsets
<1>3. S # {} /\ S \in SUBSET Nat
  BY <1>1, <1>2
<1>4. PICK m \in S : \A x \in S : m <= x
  BY <1>3, LeastElement
<1>5. m \in 1 .. Len(w) /\ q <= Offset(w, m)
  OBVIOUS
<1>6. Offset(w, m - 1) < q
  <2>1. CASE m = 1
    <3>1. m - 1 = 0
      BY <2>1
    <3>. QED  BY <1>2, <3>1
  <2>2. CASE m # 1
    <3>1. m - 1 \in 1 .. Len(w) /\ m - 1 \in 0 .. Len(w) /\ ~(m <= m - 1)
      BY <1>1, <1>5, <2>2
    <3>2. m - 1 \notin S
      BY <1>4, <3>1
    <3>3. ~(q <= Offset(w, m - 1))
      BY <3>1, <3>2
    <3>4. Offset(w, m - 1) \in 0 .. Len(Flat(w))
      BY <3>1, Offsets
    <3>. QED  BY <3>3, <3>4
  <2>. QED  BY <2>1, <2>2
<1>. QED  BY <1>5, <1>6

LEMMA SpacedNeeds ==
    ASSUME text \in Seq(TextChar), NEW p \in Nat \ {0}, IsSpaced(p)
    PROVE  /\ p + 20 <= Len(text)
           /\ At(p + 1) = Space /\ At(p + 2) \in Digit
           /\ At(p + 4) = Space /\ At(p + 7) = "."
<1>1. Spaced = <<NS, {Space}, Digit, Digit, {Space}, Digit, Digit, {"."}, Digit, Digit,
                 EW, {Space}, Digit, Digit, Digit, {Space}, Digit, Digit, {"."}, Digit, Digit>>
  BY DEF Spaced
<1>2. Shaped(Spaced, 21)
  BY <1>1 DEF Shaped
<1>3. Matched(Spaced, 21, p)
  BY <1>2, FitsChars DEF IsSpaced
<1>4. Spaced[2] = {Space} /\ Spaced[3] = Digit /\ Spaced[5] = {Space} /\ Spaced[8] = {"."}
  BY <1>1
<1>5. p + 21 - 1 <= Len(text) /\ \A i \in 1 .. 21 : At(p + i - 1) \in Spaced[i]
  BY <1>3 DEF Matched
<1>6. /\ At(p + 2 - 1) \in Spaced[2] /\ At(p + 3 - 1) \in Spaced[3]
      /\ At(p + 5 - 1) \in Spaced[5] /\ At(p + 8 - 1) \in Spaced[8]
  BY <1>5
<1>7. p + 20 <= Len(text)
  <2>1. Len(text) \in Nat
    OBVIOUS
  <2>2. p + 21 - 1 = p + 20
    OBVIOUS
  <2>. QED  BY <1>5, <2>1, <2>2
<1>. QED  BY <1>4, <1>6, <1>7, Places

\* No latitude has a blank behind its degrees.
LEMMA NoBlankThird ==
    ASSUME NEW w, NEW k, HasPiece(w, k), w[k].form # "text" \/ IsStamp(w[k].chars),
           NEW b \in Nat, b = Offset(w, k - 1),
           NEW p \in Nat \ {0}, p = b + 1, Kept(w, p)
    PROVE  At(p + 2) # Space \/ At(p + 5) # "."
<1>1. PICK c : c = w[k].chars
  OBVIOUS
<1>2. Kept(w, b + 1)
  OBVIOUS
<1>3. /\ text \in Seq(TextChar) /\ Shows(b, 1, c) /\ c \in Seq(Char)
  BY <1>1, <1>2, PieceShows
<1>4. Space \notin Digit /\ Space \notin NS
  BY FigureFacts, CharKinds
<1>5. CASE IsStamp(c)
  <2>1. Opens(p, c)
    <3>1. 6 <= Len(c)
      BY <1>5, StampLength
    <3>. QED  BY <1>3, <3>1, OpensShown
  <2>2. c[3] \in Digit \/ c[6] = c[3] \/ c[3] = ":"
    BY <1>3, <1>5, StampKinds DEF LongDate, ThreeNumbers, TwoNumbers
  <2>3. Space # "." /\ Space # ":"
    BY DEF Space
  <2>. QED  BY <1>4, <2>1, <2>2, <2>3 DEF Opens
<1>6. CASE w[k].form # "text"
  <2>1. w[k] \in Piece /\ Legible(w[k])
    <3>1. w \in Writings /\ k \in 1 .. Len(w) /\ AllLegible(w)
      BY DEF HasPiece
    <3>. QED  BY <3>1, Bounds
  <2>2. CASE InHalves(w[k].form) /\ \E i, j : LegibleHalves(w[k], i, j)
    BY <2>2, HalvesLat
  <2>3. CASE w[k].form = "slash" /\ LegibleSlash(w[k])
    BY <2>3, SlashPlace
  <2>4. CASE w[k].form = "short" /\ LegibleShort(w[k])
    <3>1. Len(c) = 8 /\ c[3] \in NS
      BY <1>1, <2>4 DEF LegibleShort
    <3>2. Opens(p, c)
      <4>1. 6 <= Len(c)
        BY <3>1
      <4>. QED  BY <1>3, <4>1, OpensShown
    <3>. QED  BY <1>4, <3>1, <3>2 DEF Opens
  <2>. QED  BY <1>6, <2>1, <2>2, <2>3, <2>4, LegibleForms
<1>. QED  BY <1>1, <1>5, <1>6

LEMMA NotSpaced ==
    ASSUME NEW w, NEW k, HasPiece(w, k), w[k].form = "text", ~IsStamp(w[k].chars),
           NEW p \in Nat \ {0}, Offset(w, k - 1) < p, p <= Offset(w, k), Kept(w, p)
    PROVE  ~IsSpaced(p)
<1> SUFFICES ASSUME IsSpaced(p) PROVE FALSE
  OBVIOUS
<1>1. /\ w \in Writings /\ k \in 1 .. Len(w) /\ AllLegible(w)
      /\ text \in Seq(TextChar) /\ Len(text) = Len(Flat(w))
  BY DEF HasPiece
<1>2. /\ p + 20 <= Len(text)
      /\ At(p + 1) = Space /\ At(p + 2) \in Digit
      /\ At(p + 4) = Space /\ At(p + 7) = "."
  BY <1>1, SpacedNeeds
<1>3. PICK l \in Nat : l = Len(Flat(w)) /\ p + 20 <= l
  <2>1. Len(Flat(w)) \in Nat
    BY <1>1, Bounds
  <2>. QED  BY <1>1, <1>2, <2>1
<1>4. PICK q \in Nat : q = p + 2 /\ 1 <= q /\ q <= l
  BY <1>3
<1>5. PICK m \in 1 .. Len(w) : Offset(w, m - 1) < q /\ q <= Offset(w, m)
  BY <1>1, <1>3, <1>4, PieceThere
<1>6. PICK c : c = w[m].chars
  OBVIOUS
<1>7. PICK o \in Nat : o = Offset(w, m - 1)
  BY <1>1, Bounds
<1>8. HasPiece(w, m) /\ w[m] \in Piece /\ Legible(w[m])
  BY <1>1, Bounds DEF HasPiece
<1>9. PICK n \in Nat : n = Len(c) /\ Offset(w, m) = o + n
  BY <1>1, <1>6, <1>7, Bounds
<1>10. c \in Seq(Char)
  BY <1>1, <1>6, Bounds
<1>11. ASSUME NEW x \in Nat, p <= x, o < x, x <= o + n
       PROVE  x - o \in 1 .. Len(c) /\ At(x) = c[x - o]
  <2>1. PICK d \in Nat \ {0} : d = x - o /\ o + d = x
    BY <1>11
  <2>2. d \in 1 .. n
    BY <1>11, <2>1
  <2>3. Kept(w, x)
    <3>1. \A y \in x .. Len(text) : y \in p .. Len(text)
      BY <1>1, <1>11
    <3>. QED  BY <3>1 DEF Kept
  <2>4. Shows(o, d, c)
    BY <1>6, <1>7, <1>8, <2>1, <2>3, PieceShows
  <2>5. text[o + d] = c[d] /\ o + n <= Len(text)
    <3>1. d \in d .. Len(c)
      BY <1>9, <2>2
    <3>. QED  BY <1>9, <2>4, <3>1 DEF Shows
  <2>6. x \in 1 .. Len(text)
    <3>1. Len(text) \in Nat
      BY <1>1
    <3>. QED  BY <1>11, <2>5, <3>1
  <2>7. At(x) = text[x]
    BY <1>1, <2>6, IsAt
  <2>. QED  BY <1>9, <2>1, <2>2, <2>5, <2>7
<1>12. o < q /\ q <= o + n /\ At(q) \in Digit
  BY <1>2, <1>4, <1>5, <1>7, <1>9
<1>13. q - o \in 1 .. Len(c) /\ c[q - o] \in Digit
  BY <1>4, <1>11, <1>12
<1>14. w[m].form # "text" \/ IsStamp(c)
  <2>1. \A d \in Digit : d \notin Filler
    BY DEF Filler
  <2>2. DOMAIN c = 1 .. Len(c)
    BY <1>10
  <2>. QED  BY <1>6, <1>8, <1>13, <2>1, <2>2, FirstChar
<1>15. c[1] \in Digit
  BY <1>6, <1>8, <1>14, FirstChar
<1>16. p <= o
  <2>1. m # k
    BY <1>6, <1>14
  <2>2. Len(w) \in Nat /\ k \in Nat /\ m \in Nat /\ k - 1 \in 0 .. Len(w) /\ m - 1 \in 0 .. Len(w)
    BY <1>1, Bounds
  <2>3. ~(m < k)
    <3>1. ASSUME m < k
          PROVE  FALSE
      <4>1. m \in 0 .. Len(w) /\ k - 1 \in m .. Len(w)
        BY <2>2, <3>1
      <4>2. Offset(w, m) <= Offset(w, k - 1)
        BY <1>1, <4>1, OffsetsGrow
      <4>3. PICK a \in Nat : a = Offset(w, k - 1)
        BY <1>1, Bounds
      <4>. QED  BY <1>4, <1>9, <1>12, <4>2, <4>3
    <3>. QED  BY <3>1
  <2>4. k \in 0 .. Len(w) /\ m - 1 \in k .. Len(w)
    BY <2>1, <2>2, <2>3
  <2>5. Offset(w, k) <= Offset(w, m - 1)
    BY <1>1, <2>4, OffsetsGrow
  <2>6. PICK a \in Nat : a = Offset(w, k)
    BY <1>1, Bounds
  <2>. QED  BY <1>7, <2>5, <2>6
<1>17. CASE o = p
  <2>1. p + 1 \in Nat /\ o < p + 1 /\ p + 1 <= o + n /\ p + 1 - o = 1 /\ p <= p + 1
    BY <1>4, <1>12, <1>17
  <2>2. At(p + 1) = c[1]
    BY <1>11, <2>1
  <2>. QED  BY <1>2, <1>15, <2>2, FigureFacts, CharKinds
<1>18. CASE o = p + 1
  <2>1. PICK r \in Nat \ {0} : r = o + 1 /\ r + 2 = p + 4 /\ r + 5 = p + 7
    BY <1>18
  <2>2. Kept(w, r)
    <3>1. \A y \in r .. Len(text) : y \in p .. Len(text)
      BY <1>1, <1>18, <2>1
    <3>. QED  BY <3>1 DEF Kept
  <2>3. At(r + 2) # Space \/ At(r + 5) # "."
    BY <1>6, <1>7, <1>8, <1>14, <2>1, <2>2, NoBlankThird
  <2>. QED  BY <1>2, <2>1, <2>3
<1>. QED  BY <1>4, <1>12, <1>16, <1>17, <1>18

-----------------------------------------------------------------------------
\* The steps in a legible text w.

Legibly(w) ==
    /\ w = written /\ w \in Writings /\ AllLegible(w)
    /\ Head(w[1].chars) # "\n" /\ ~Exponent
    /\ text \in Seq(TextChar) /\ Len(text) = Len(Flat(w))
    /\ start \in Nat \ {0} /\ source \in Nat \ {0}
    /\ \E S : found \in Seq(S)

Reads(w) == \E k \in 1 .. Len(w) + 1 : ReadTo(w, k)

LEMMA PieceHere ==
    ASSUME NEW w, Legibly(w), NEW k \in 1 .. Len(w) + 1, k <= Len(w)
    PROVE  /\ HasPiece(w, k) /\ w \in Writings /\ k \in 1 .. Len(w) /\ AllLegible(w)
           /\ text \in Seq(TextChar) /\ Len(text) = Len(Flat(w))
           /\ w[k] \in Piece /\ Legible(w[k])
<1>1. /\ w \in Writings /\ AllLegible(w)
      /\ text \in Seq(TextChar) /\ Len(text) = Len(Flat(w))
  BY DEF Legibly
<1>2. k \in 1 .. Len(w)
  <2>1. Len(w) \in Nat
    BY <1>1, CharsType
  <2>. QED  BY <2>1
<1>. QED  BY <1>1, <1>2, Bounds DEF HasPiece

LEMMA KeptOn ==
    ASSUME NEW w, NEW p \in Nat, NEW q \in Nat, p <= q, text \in Seq(TextChar), Kept(w, p)
    PROVE  Kept(w, q)
<1>1. Len(text) \in Nat
  OBVIOUS
<1>2. \A x \in q .. Len(text) : x \in p .. Len(text)
  BY <1>1
<1>. QED  BY <1>2 DEF Kept

LEMMA KeptStill ==
    ASSUME NEW w, NEW p, Kept(w, p), text' = text
    PROVE  Kept(w, p)' /\ (start' = p => Kept(w, start)') /\ (source' = p => Kept(w, source)')
BY DEF Kept

\* The E at the end of piece k.
LEMMA PieceEndPlain ==
    ASSUME NEW w, Legibly(w), NEW k \in 1 .. Len(w) + 1, k <= Len(w),
           NEW p \in Nat, p <= Offset(w, k), Kept(w, p)
    PROVE  PlainEnd(Offset(w, k))
<1>1. /\ w \in Writings /\ k \in 1 .. Len(w) /\ AllLegible(w)
      /\ text \in Seq(TextChar) /\ Len(text) = Len(Flat(w))
  BY PieceHere
<1>2. w = written /\ ~Exponent
  BY DEF Legibly
<1>3. PICK r \in Nat : r = Offset(w, k)
  BY <1>1, Bounds
<1>4. Kept(w, r)
  BY <1>1, <1>3, KeptOn
<1>. QED  BY <1>1, <1>2, <1>3, <1>4, EndPlain

\* Character d of piece k where it stands.
LEMMA CharThere ==
    ASSUME NEW w, NEW k, HasPiece(w, k), NEW b \in Nat, b = Offset(w, k - 1),
           NEW d \in Nat \ {0}, d <= Len(w[k].chars),
           NEW x, x = b + d, Kept(w, x)
    PROVE  At(x) = w[k].chars[d] /\ x \in 1 .. Len(text)
<1>1. PICK c : c = w[k].chars
  OBVIOUS
<1>2. /\ text \in Seq(TextChar) /\ Shows(b, d, c) /\ Len(c) \in Nat \ {0}
  BY <1>1, PieceShows
<1>3. text[b + d] = c[d] /\ b + Len(c) <= Len(text)
  <2>1. d \in d .. Len(c)
    BY <1>1, <1>2
  <2>. QED  BY <1>2, <2>1 DEF Shows
<1>4. x \in 1 .. Len(text)
  <2>1. Len(text) \in Nat
    BY <1>2
  <2>2. PICK n \in Nat : n = Len(c)
    BY <1>2
  <2>3. d <= n /\ b + n <= Len(text)
    BY <1>1, <1>3, <2>2
  <2>. QED  BY <2>1, <2>3
<1>5. At(x) = text[x]
  BY <1>2, <1>4, IsAt
<1>. QED  BY <1>1, <1>3, <1>4, <1>5

\* At the first character of a piece that is no text without digits.
LEMMA DigitFirst ==
    ASSUME NEW w, NEW k, HasPiece(w, k), w[k].form # "text" \/ IsStamp(w[k].chars),
           NEW p \in Nat \ {0}, p = Offset(w, k - 1) + 1, Kept(w, p)
    PROVE  At(p) \in Digit
<1>1. w \in Writings /\ k \in 1 .. Len(w) /\ AllLegible(w)
  BY DEF HasPiece
<1>2. PICK b \in Nat : b = Offset(w, k - 1)
  BY <1>1, Bounds
<1>3. Len(w[k].chars) \in Nat \ {0} /\ w[k] \in Piece /\ Legible(w[k])
  BY <1>1, Bounds
<1>4. 1 <= Len(w[k].chars) /\ p = b + 1
  BY <1>2, <1>3
<1>5. At(p) = w[k].chars[1]
  BY <1>2, <1>4, CharThere
<1>. QED  BY <1>3, <1>5, FirstChar

\* The ways to be in a piece, one by one.
LEMMA WhereRead ==
    ASSUME NEW w, NEW k, ReadTo(w, k)
    PROVE  /\ ReadSoFar(w, k)
           /\ at = "extract" => AtStart(w, k)
           /\ at \in {"scan", "skipDate", "skipTime", "match"} => InPiece(w, k)
           /\ at \in {"done", "outside"} => AtEnd(w, k)
BY DEF ReadTo, AtStart, InPiece, AtEnd, InFiller, InStamp, AtLat, AtLon, Turn

LEMMA FillerThere ==
    ASSUME NEW w, NEW k, HasPiece(w, k), NEW b \in Nat, b = Offset(w, k - 1),
           NEW d \in Nat \ {0}, d <= Len(w[k].chars), w[k].chars[d] \in Filler,
           NEW x, x = b + d, Kept(w, x)
    PROVE  At(x) \in Filler /\ At(x) \notin Digit /\ At(x) # NUL
BY CharThere DEF Filler

LEMMA ExtractReads ==
    ASSUME NEW w, Legibly(w), NEW k \in 1 .. Len(w) + 1, ReadTo(w, k), extractPos
    PROVE  Reads(w)'
<1>1. /\ at = "extract" /\ text' = text /\ found' = found
      /\ start' = source /\ latPassed' = FALSE
      /\ at' = IF At(source) \in {NUL, "\n"} THEN "done" ELSE "scan"
  BY DEF extractPos
<1>2. ReadSoFar(w, k) /\ AtStart(w, k)
  BY <1>1, WhereRead
<1>3. ReadSoFar(w, k)'
  BY <1>1, <1>2, SoFarKept
<1>4. /\ w \in Writings /\ AllLegible(w) /\ Head(w[1].chars) # "\n"
      /\ text \in Seq(TextChar) /\ Len(text) = Len(Flat(w))
  BY DEF Legibly
<1>5. PICK p : p = source
  OBVIOUS
<1>6. /\ p = Offset(w, k - 1) + 1 /\ Kept(w, p) /\ (k = 1 \/ w[k - 1].form # "text")
  BY <1>2, <1>5 DEF AtStart
<1>7. \A q \in p .. Len(text) : text[q] = Flat(w)[q]
  BY <1>6 DEF Kept
<1>8. /\ k = Len(w) + 1 => At(p) = NUL
      /\ k <= Len(w) => At(p) = Head(w[k].chars) /\ At(p) # NUL
  <2>1. PICK t \in Seq(TextChar) : t = text
    BY <1>4
  <2>. QED  BY <1>4, <1>6, <1>7, <2>1, HeadAt DEF At
<1>9. Len(w) \in Nat /\ (k = Len(w) + 1 \/ k \in 1 .. Len(w))
  <2>1. Len(w) \in Nat
    BY <1>4, CharsType
  <2>. QED  BY <2>1
<1>10. CASE k = Len(w) + 1
  <2>1. at' = "done"
    BY <1>1, <1>5, <1>8, <1>10
  <2>. QED  BY <1>3, <1>10, <2>1 DEF Reads, ReadTo, AtEnd
<1>11. CASE k \in 1 .. Len(w) /\ At(p) = "\n"
  <2>1. at' = "done"
    BY <1>1, <1>5, <1>11
  <2>2. k <= Len(w) /\ Head(w[k].chars) = "\n" /\ k # 1
    BY <1>4, <1>8, <1>11
  <2>3. PICK m : m = k - 1 /\ m \in 1 .. Len(w) - 1 /\ m + 1 = k /\ m \in 1 .. Len(w)
    BY <1>9, <2>2
  <2>4. Read(w[m]) # <<>> /\ w[m].form # "spaced"
    <3>1. w[m] \in Piece /\ Legible(w[m])
      BY <1>4, <2>3, Bounds
    <3>. QED  BY <1>6, <2>2, <2>3, <3>1, LegibleForms
  <2>5. Stop(w, k - 1)
    BY <2>2, <2>3, <2>4 DEF Stop
  <2>. QED  BY <1>3, <2>1, <2>5 DEF Reads, ReadTo, AtEnd
<1>12. CASE k \in 1 .. Len(w) /\ At(p) # "\n"
  <2>1. k <= Len(w) /\ At(p) = Head(w[k].chars) /\ At(p) # NUL
    BY <1>8, <1>12
  <2>2. at' = "scan"
    BY <1>1, <1>5, <1>12, <2>1
  <2>3. ~Stop(w, k - 1)
    <3>1. k - 1 + 1 = k
      BY <1>12
    <3>. QED  BY <1>12, <2>1, <3>1 DEF Stop
  <2>4. start' = p /\ Kept(w, start)'
    BY <1>1, <1>5, <1>6, KeptStill
  <2>5. at' = IF CharAt(text', start') = NUL THEN "done" ELSE "scan"
    BY <1>1, <2>1, <2>2, <2>4 DEF At
  <2>6. k <= Len(w) /\ (InFiller(w, k)' \/ InStamp(w, k)' \/ AtLat(w, k)')
    <3>1. /\ text' \in Seq(TextChar) /\ Len(text') = Len(Flat(w))
          /\ start' = Offset(w, k - 1) + 1
      BY <1>1, <1>4, <1>6, <2>4
    <3>2. \/ at' = "done" /\ k = Len(w) + 1
          \/ k <= Len(w) /\ (InFiller(w, k)' \/ InStamp(w, k)' \/ AtLat(w, k)')
      BY <1>1, <1>4, <2>4, <2>5, <3>1, Entered
    <3>. QED  BY <2>2, <3>2
  <2>. QED  BY <1>3, <2>3, <2>4, <2>6 DEF Reads, ReadTo, InPiece
<1>. QED  BY <1>9, <1>10, <1>11, <1>12

LEMMA PassedReads ==
    ASSUME NEW w, Legibly(w), NEW k \in 1 .. Len(w) + 1, k <= Len(w), w[k].form = "text",
           ReadSoFar(w, k), ~Stop(w, k - 1), text' = text,
           NEW p \in Nat, p <= Offset(w, k), Kept(w, p),
           NEW q, q = Offset(w, k) + 1, GoOn(q), latPassed' = FALSE
    PROVE  Reads(w)'
<1>1. /\ w \in Writings /\ k \in 1 .. Len(w) /\ AllLegible(w)
      /\ text \in Seq(TextChar) /\ Len(text) = Len(Flat(w))
  BY PieceHere
<1>2. PICK e \in Nat : e = Offset(w, k)
  BY <1>1, Bounds
<1>3. q \in Nat /\ p <= q
  BY <1>2
<1>4. Kept(w, q)
  BY <1>1, <1>3, KeptOn
<1>5. Kept(w, q)'
  BY <1>4, KeptStill
<1>6. ReadTo(w, k + 1)'
  <2>1. text' \in Seq(TextChar) /\ Len(text') = Len(Flat(w))
    BY <1>1
  <2>. QED  BY <1>1, <1>5, <2>1, PiecePassed
<1>7. k + 1 \in 1 .. Len(w) + 1
  BY <1>1, Bounds
<1>. QED  BY <1>6, <1>7 DEF Reads

LEMMA FoundReads ==
    ASSUME NEW w, Legibly(w), NEW k \in 1 .. Len(w) + 1, k <= Len(w), w[k].form # "text",
           ReadSoFar(w, k), ~Stop(w, k - 1),
           NEW la, NEW lo, NEW a, Read(w[k]) = << <<la, lo>> >>,
           NEW q, q = Offset(w, k) + 1, addPosition(la, lo, a, q), Kept(w, q)'
    PROVE  Reads(w)'
<1>1. /\ w \in Writings /\ k \in 1 .. Len(w) /\ AllLegible(w)
      /\ text \in Seq(TextChar) /\ Len(text) = Len(Flat(w))
  BY PieceHere
<1>2. \E S : found \in Seq(S)
  BY DEF Legibly
<1>3. ReadTo(w, k + 1)'
  BY <1>1, <1>2, PieceFound
<1>4. k + 1 \in 1 .. Len(w) + 1
  BY <1>1, Bounds
<1>. QED  BY <1>3, <1>4 DEF Reads

\* Where no position is written as a whole, the search goes on.
LEMMA WholeGoesOn ==
    ASSUME NEW p, NEW d, Whole(p, d), d \in NS => ~IsSpaced(p), ~IsSlash(p)
    PROVE  GoOn(p + 1) /\ latPassed' = FALSE /\ lat' = lat
BY DEF Whole

\* A turn in a text without digits.
LEMMA FillerScanned ==
    ASSUME NEW w, Legibly(w), NEW k \in 1 .. Len(w) + 1, k <= Len(w),
           ReadSoFar(w, k), ~Stop(w, k - 1), Kept(w, start), InFiller(w, k), Scan
    PROVE  Reads(w)'
<1>1. /\ w \in Writings /\ k \in 1 .. Len(w) /\ AllLegible(w) /\ HasPiece(w, k)
      /\ text \in Seq(TextChar) /\ Len(text) = Len(Flat(w))
      /\ w[k] \in Piece /\ Legible(w[k])
  BY PieceHere
<1>2. /\ ~latPassed /\ w[k].form = "text" /\ ~IsStamp(w[k].chars)
      /\ start \in Offset(w, k - 1) + 1 .. Offset(w, k)
  BY DEF InFiller
<1>3. text' = text /\ At(start) \notin Digit /\ Whole(start, At(start))
  BY <1>2 DEF Scan
<1>4. PICK p : p = start
  OBVIOUS
<1>5. PICK b \in Nat : b = Offset(w, k - 1)
  BY <1>1, Bounds
<1>6. PICK c : c = w[k].chars
  OBVIOUS
<1>7. PICK n \in Nat : n = Len(c) /\ Offset(w, k) = b + n
  BY <1>1, <1>5, <1>6, Bounds
<1>8. PICK d \in Nat \ {0} : d <= n /\ p = b + d
  <2>1. p \in b + 1 .. b + n
    BY <1>2, <1>4, <1>5, <1>7
  <2>2. p - b \in Nat \ {0} /\ p - b <= n /\ p = b + (p - b)
    BY <2>1
  <2>. QED  BY <2>2
<1>9. p \in Nat \ {0} /\ Offset(w, k - 1) < p /\ p <= Offset(w, k)
  BY <1>5, <1>7, <1>8
<1>10. ~IsSpaced(p)
  BY <1>1, <1>2, <1>4, <1>9, NotSpaced
<1>11. ~IsSlash(p)
  BY <1>1, <1>3, <1>4, <1>9, SlashFits DEF IsSlash
<1>12. GoOn(p + 1) /\ latPassed' = FALSE
  BY <1>3, <1>4, <1>10, <1>11, WholeGoesOn
<1>13. CASE d = n
  <2>1. p + 1 = Offset(w, k) + 1 /\ p \in Nat /\ p <= Offset(w, k)
    BY <1>7, <1>8, <1>13
  <2>. QED  BY <1>2, <1>3, <1>4, <1>12, <2>1, PassedReads
<1>14. CASE d # n
  <2>1. PICK q \in Nat \ {0} : q = p + 1 /\ q = b + (d + 1) /\ d + 1 \in Nat \ {0} /\ d + 1 <= n
    BY <1>8, <1>14
  <2>2. Kept(w, q)
    BY <1>1, <1>4, <1>9, <2>1, KeptOn
  <2>3. c[d + 1] \in Filler
    <3>1. d + 1 \in DOMAIN c
      BY <1>1, <1>6, <1>7, <2>1, Bounds
    <3>. QED  BY <1>1, <1>2, <1>6, <3>1, FirstChar
  <2>4. At(q) # NUL
    BY <1>1, <1>5, <1>6, <1>7, <2>1, <2>2, <2>3, FillerThere
  <2>5. q <= Len(text)
    <3>1. PICK e \in Nat \ {0} : e = d + 1
      BY <2>1
    <3>2. e <= Len(w[k].chars) /\ q = b + e
      BY <1>6, <1>7, <2>1, <3>1
    <3>3. At(q) = w[k].chars[e] /\ q \in 1 .. Len(text)
      BY <1>1, <1>5, <2>2, <3>2, CharThere
    <3>. QED  BY <3>3
  <2>6. start' = q /\ at' = "scan" /\ found' = found
    <3>1. ~(q > Len(text) + 1)
      <4>1. Len(text) \in Nat
        BY <1>1
      <4>. QED  BY <2>5, <4>1
    <3>2. CharAt(text', q) # NUL
      BY <1>3, <2>4 DEF At
    <3>. QED  BY <1>12, <2>1, <3>1, <3>2 DEF GoOn
  <2>7. InFiller(w, k)'
    <3>1. q \in Offset(w, k - 1) + 1 .. Offset(w, k)
      BY <1>5, <1>7, <2>1
    <3>. QED  BY <1>2, <1>12, <2>6, <3>1 DEF InFiller
  <2>8. Kept(w, start)'
    BY <1>3, <2>2, <2>6, KeptStill
  <2>9. ReadSoFar(w, k)'
    BY <2>6, SoFarKept
  <2>. QED  BY <2>7, <2>8, <2>9 DEF Reads, ReadTo, InPiece
<1>. QED  BY <1>13, <1>14

\* Behind the latitude of a piece, whose halves end and begin at i and j.
LonPlace(w, k, i, j) ==
    \/ at = "scan" /\ start \in Offset(w, k - 1) + i + 1 .. Offset(w, k - 1) + j + 1
    \/ Turn /\ start = Offset(w, k - 1) + j + 1

LEMMA AtLonIs ==
    ASSUME NEW w, NEW k, w[k] \in Piece, Legible(w[k]), AtLon(w, k)
    PROVE  /\ latPassed /\ lat.value = w[k].lat /\ InHalves(w[k].form)
           /\ \E i, j : LegibleHalves(w[k], i, j) /\ LonPlace(w, k, i, j)
<1>1. /\ latPassed /\ w[k].form \in {"dms", "minutes", "decimal"} /\ lat.value = w[k].lat
      /\ \E i, j \in DOMAIN w[k].chars :
            /\ Halves(w[k], i, j)
            /\ \A q \in i + 1 .. j : w[k].chars[q] \in Filler
            /\ LonPlace(w, k, i, j)
  BY DEF AtLon, LonPlace
<1>2. DOMAIN w[k].chars = 1 .. Len(w[k].chars)
  BY DEF Piece
<1>3. InHalves(w[k].form)
  BY <1>1 DEF InHalves
<1>4. Absolute(w[k].lat) < 90 * Deg /\ Absolute(w[k].lon) < 180 * Deg
  BY <1>1, Zenon DEF Legible
<1>. QED  BY <1>1, <1>2, <1>3, <1>4, Zenon DEF LegibleHalves

LEMMA IsAtLon ==
    ASSUME NEW w, NEW k, w[k] \in Piece, InHalves(w[k].form),
           NEW i, NEW j, LegibleHalves(w[k], i, j),
           latPassed', lat'.value = w[k].lat, LonPlace(w, k, i, j)'
    PROVE  AtLon(w, k)'
<1>1. DOMAIN w[k].chars = 1 .. Len(w[k].chars)
  BY DEF Piece
<1>2. w[k].form \in {"dms", "minutes", "decimal"}
  BY DEF InHalves
<1>. QED  BY <1>1, <1>2, Zenon DEF AtLon, LonPlace, LegibleHalves

\* What stands behind a latitude, up to its longitude.
LEMMA BetweenHalves ==
    ASSUME NEW w, Legibly(w), NEW k \in 1 .. Len(w) + 1, k <= Len(w), InHalves(w[k].form),
           NEW i, NEW j, LegibleHalves(w[k], i, j),
           NEW b \in Nat, b = Offset(w, k - 1),
           NEW d \in Nat \ {0}, i < d, d <= j + 1, NEW p, p = b + d, Kept(w, p)
    PROVE  /\ p \in 1 .. Len(text) /\ At(p) # NUL
           /\ At(p) \in Digit <=> d = j + 1
<1>1. /\ w \in Writings /\ k \in 1 .. Len(w) /\ HasPiece(w, k) /\ AllLegible(w)
      /\ text \in Seq(TextChar)
  BY PieceHere
<1>2. PICK c : c = w[k].chars
  OBVIOUS
<1>3. PICK n \in Nat : n = Len(c) /\ Offset(w, k) = b + n
  BY <1>1, <1>2, Bounds
<1>4. i \in Nat /\ j \in Nat /\ j + 1 <= n
  <2>1. i \in 1 .. n /\ j \in 1 .. n /\ j \in i .. n - 4
    BY <1>2, <1>3, Zenon DEF LegibleHalves, Halves
  <2>. QED  BY <2>1
<1>5. d <= n /\ d <= Len(w[k].chars)
  BY <1>2, <1>3, <1>4
<1>6. p \in 1 .. Len(text)
  BY <1>1, <1>5, CharThere
<1>7. CASE d = j + 1
  <2>0. PICK x \in Nat \ {0} : x = b + j + 1
    BY <1>4
  <2>4. x = p /\ x <= b + n
    BY <1>4, <1>7, <2>0
  <2>1. x = p /\ x = b + j + 1 /\ x <= Offset(w, k)
    BY <1>3, <2>0, <2>4, Zenon
  <2>2. PlainEnd(Offset(w, k))
    BY <2>1, PieceEndPlain
  <2>3. At(p) \in Digit
    BY <1>1, <1>4, <2>1, <2>2, HalvesLon
  <2>. QED  BY <1>6, <1>7, <2>3, CharFacts
<1>8. CASE d # j + 1
  <2>1. d \in i + 1 .. j
    BY <1>4, <1>8
  <2>2. w[k].chars[d] \in Filler
    BY <2>1 DEF LegibleHalves
  <2>3. At(p) # NUL /\ At(p) \notin Digit
    BY <1>1, <1>5, <2>2, FillerThere
  <2>. QED  BY <1>6, <1>8, <2>3
<1>. QED  BY <1>7, <1>8

\* A turn between a latitude and its longitude.
LEMMA LonScanned ==
    ASSUME NEW w, Legibly(w), NEW k \in 1 .. Len(w) + 1, k <= Len(w),
           ReadSoFar(w, k), ~Stop(w, k - 1), Kept(w, start), AtLon(w, k), Scan
    PROVE  Reads(w)'
<1>1. /\ w \in Writings /\ k \in 1 .. Len(w) /\ HasPiece(w, k) /\ AllLegible(w)
      /\ text \in Seq(TextChar) /\ w[k] \in Piece /\ Legible(w[k])
  BY PieceHere
<1>2. /\ latPassed /\ lat.value = w[k].lat /\ InHalves(w[k].form)
      /\ \E i, j : LegibleHalves(w[k], i, j) /\ LonPlace(w, k, i, j)
  BY <1>1, AtLonIs
<1>3. PICK i, j : LegibleHalves(w[k], i, j) /\ LonPlace(w, k, i, j)
  BY <1>2
<1>4. /\ text' = text /\ At(start) \notin Digit /\ at = "scan"
      /\ GoOn(start + 1) /\ latPassed' = latPassed /\ lat' = lat
  BY <1>2 DEF Scan
<1>5. PICK p : p = start
  OBVIOUS
<1>6. PICK b \in Nat : b = Offset(w, k - 1)
  BY <1>1, Bounds
<1>7. i \in Nat /\ j \in Nat
  BY <1>3 DEF LegibleHalves
<1>8. p \in b + i + 1 .. b + j + 1
  BY <1>3, <1>4, <1>5, <1>6 DEF LonPlace, Turn
<1>9. PICK d \in Nat \ {0} : i < d /\ d <= j + 1 /\ p = b + d
  <2>1. p - b \in Nat \ {0} /\ i < p - b /\ p - b <= j + 1 /\ p = b + (p - b)
    BY <1>7, <1>8
  <2>. QED  BY <2>1
<1>10. d # j + 1
  BY <1>2, <1>3, <1>4, <1>5, <1>6, <1>9, BetweenHalves
<1>11. PICK e \in Nat \ {0} : e = d + 1 /\ i < e /\ e <= j + 1 /\ p + 1 = b + e
  BY <1>7, <1>9, <1>10
<1>12. PICK q \in Nat : q = p + 1 /\ q = b + e
  BY <1>9, <1>11
<1>13. Kept(w, q)
  <2>1. p \in Nat /\ p <= q
    BY <1>9, <1>12
  <2>. QED  BY <1>1, <1>5, <2>1, KeptOn
<1>14. q \in 1 .. Len(text) /\ At(q) # NUL
  <2>1. /\ q \in 1 .. Len(text) /\ At(q) # NUL
        /\ At(q) \in Digit <=> e = j + 1
    <3>1. e \in Nat \ {0} /\ i < e /\ e <= j + 1 /\ q = b + e
      BY <1>11, <1>12
    <3>2. InHalves(w[k].form) /\ LegibleHalves(w[k], i, j) /\ Kept(w, q)
      BY <1>2, <1>3, <1>13
    <3>. QED  BY <1>6, <3>1, <3>2, BetweenHalves
  <2>. QED  BY <2>1
<1>15. start' = q /\ at' = "scan" /\ found' = found
  <2>1. ~(q > Len(text) + 1)
    <3>1. Len(text) \in Nat
      BY <1>1
    <3>. QED  BY <1>14, <3>1
  <2>2. CharAt(text', q) # NUL
    BY <1>4, <1>14 DEF At
  <2>. QED  BY <1>4, <1>5, <1>12, <2>1, <2>2 DEF GoOn
<1>16. LonPlace(w, k, i, j)'
  <2>1. q \in b + i + 1 .. b + j + 1
    BY <1>7, <1>11, <1>12
  <2>. QED  BY <1>6, <1>15, <2>1 DEF LonPlace
<1>17. AtLon(w, k)'
  BY <1>1, <1>2, <1>3, <1>4, <1>16, IsAtLon
<1>18. Kept(w, start)'
  BY <1>4, <1>13, <1>15, KeptStill
<1>19. ReadSoFar(w, k)'
  BY <1>15, SoFarKept
<1>. QED  BY <1>17, <1>18, <1>19 DEF Reads, ReadTo, InPiece

LEMMA ScanReads ==
    ASSUME NEW w, Legibly(w), NEW k \in 1 .. Len(w) + 1, ReadTo(w, k), Scan
    PROVE  Reads(w)'
<1>1. at = "scan" /\ At(start) \notin Digit
  BY DEF Scan
<1>2. ReadSoFar(w, k) /\ InPiece(w, k)
  BY <1>1, WhereRead
<1>3. k <= Len(w) /\ ~Stop(w, k - 1) /\ Kept(w, start)
  BY <1>2 DEF InPiece
<1>4. HasPiece(w, k)
  BY <1>3, PieceHere
<1>5. ASSUME w[k].form # "text" \/ IsStamp(w[k].chars), start = Offset(w, k - 1) + 1
      PROVE  FALSE
  <2>1. PICK p \in Nat \ {0} : p = start
    BY DEF Legibly
  <2>2. At(p) \in Digit
    BY <1>3, <1>4, <1>5, <2>1, DigitFirst
  <2>. QED  BY <1>1, <2>1, <2>2
<1>6. ~InStamp(w, k)
  BY <1>1, <1>5 DEF InStamp
<1>7. ~AtLat(w, k)
  BY <1>5 DEF AtLat
<1>. QED  BY <1>2, <1>3, <1>6, <1>7, FillerScanned, LonScanned DEF InPiece

\* What a step keeps that stays in its piece and moves on to q.
LEMMA StaysReads ==
    ASSUME NEW w, Legibly(w), NEW k \in 1 .. Len(w) + 1, k <= Len(w),
           ReadSoFar(w, k), ~Stop(w, k - 1), text' = text, found' = found,
           NEW p \in Nat, p = start, NEW q \in Nat, start' = q, p <= q, Kept(w, start),
           InFiller(w, k)' \/ InStamp(w, k)' \/ AtLat(w, k)' \/ AtLon(w, k)'
    PROVE  Reads(w)'
<1>1. text \in Seq(TextChar)
  BY DEF Legibly
<1>2. Kept(w, q)
  BY <1>1, KeptOn
<1>3. Kept(w, start)'
  BY <1>2, KeptStill
<1>4. ReadSoFar(w, k)'
  BY SoFarKept
<1>. QED  BY <1>3, <1>4 DEF Reads, ReadTo, InPiece

LEMMA ScanDigitReads ==
    ASSUME NEW w, Legibly(w), NEW k \in 1 .. Len(w) + 1, ReadTo(w, k), ScanDigit
    PROVE  Reads(w)'
<1>1. /\ at = "scan" /\ At(start) \in Digit /\ at' = "skipDate"
      /\ text' = text /\ start' = start /\ latPassed' = latPassed /\ lat' = lat
      /\ found' = found
  BY DEF ScanDigit
<1>2. ReadSoFar(w, k) /\ InPiece(w, k)
  BY <1>1, WhereRead
<1>3. k <= Len(w) /\ ~Stop(w, k - 1) /\ Kept(w, start)
  BY <1>2 DEF InPiece
<1>4. /\ HasPiece(w, k) /\ w \in Writings /\ k \in 1 .. Len(w) /\ AllLegible(w)
      /\ w[k] \in Piece /\ Legible(w[k])
  BY <1>3, PieceHere
<1>5. PICK p \in Nat \ {0} : p = start
  BY DEF Legibly
<1>6. ~InFiller(w, k)
  <2> SUFFICES ASSUME InFiller(w, k) PROVE FALSE
    OBVIOUS
  <2>1. PICK b \in Nat : b = Offset(w, k - 1)
    BY <1>4, Bounds
  <2>2. PICK n \in Nat : n = Len(w[k].chars) /\ Offset(w, k) = b + n
    BY <1>4, <2>1, Bounds
  <2>3. p \in b + 1 .. b + n /\ w[k].form = "text" /\ ~IsStamp(w[k].chars)
    BY <1>5, <2>1, <2>2 DEF InFiller
  <2>4. PICK d \in Nat \ {0} : d <= n /\ p = b + d
    <3>1. p - b \in Nat \ {0} /\ p - b <= n /\ p = b + (p - b)
      BY <2>3
    <3>. QED  BY <3>1
  <2>5. w[k].chars[d] \in Filler
    <3>1. d \in DOMAIN w[k].chars
      BY <1>4, <2>2, <2>4, Bounds
    <3>. QED  BY <1>4, <2>3, <3>1, FirstChar
  <2>. QED  BY <1>1, <1>3, <1>4, <1>5, <2>1, <2>2, <2>4, <2>5, FillerThere
<1>7. CASE InStamp(w, k)
  <2>1. InStamp(w, k)'
    BY <1>1, <1>7 DEF InStamp
  <2>. QED  BY <1>1, <1>2, <1>3, <1>5, <2>1, StaysReads
<1>8. CASE AtLat(w, k)
  <2>1. AtLat(w, k)'
    BY <1>1, <1>8 DEF AtLat, Turn
  <2>. QED  BY <1>1, <1>2, <1>3, <1>5, <2>1, StaysReads
<1>9. CASE AtLon(w, k)
  <2>1. /\ latPassed /\ lat.value = w[k].lat /\ InHalves(w[k].form)
        /\ \E i, j : LegibleHalves(w[k], i, j) /\ LonPlace(w, k, i, j)
    BY <1>4, <1>9, AtLonIs
  <2>2. PICK i, j : LegibleHalves(w[k], i, j) /\ LonPlace(w, k, i, j)
    BY <2>1
  <2>3. PICK b \in Nat : b = Offset(w, k - 1)
    BY <1>4, Bounds
  <2>4. i \in Nat /\ j \in Nat
    BY <2>2 DEF LegibleHalves
  <2>5. p \in b + i + 1 .. b + j + 1
    BY <1>1, <1>5, <2>2, <2>3 DEF LonPlace, Turn
  <2>6. PICK d \in Nat \ {0} : i < d /\ d <= j + 1 /\ p = b + d
    <3>1. p - b \in Nat \ {0} /\ i < p - b /\ p - b <= j + 1 /\ p = b + (p - b)
      BY <2>4, <2>5
    <3>. QED  BY <3>1
  <2>7. d = j + 1
    BY <1>1, <1>3, <1>5, <2>1, <2>2, <2>3, <2>6, BetweenHalves
  <2>8. LonPlace(w, k, i, j)'
    <3>1. start' = Offset(w, k - 1) + j + 1
      BY <1>1, <1>5, <2>3, <2>4, <2>6, <2>7
    <3>. QED  BY <1>1, <3>1 DEF LonPlace, Turn
  <2>9. AtLon(w, k)'
    BY <1>1, <1>4, <2>1, <2>2, <2>8, IsAtLon
  <2>. QED  BY <1>1, <1>2, <1>3, <1>5, <2>9, StaysReads
<1>. QED  BY <1>2, <1>6, <1>7, <1>8, <1>9 DEF InPiece

\* No date and no time is seen where a position begins, or its longitude.
LEMMA UnstampedLat ==
    ASSUME NEW w, Legibly(w), NEW k \in 1 .. Len(w) + 1, k <= Len(w),
           Kept(w, start), AtLat(w, k)
    PROVE  Unstamped(start)
<1>1. /\ HasPiece(w, k) /\ w \in Writings /\ k \in 1 .. Len(w) /\ AllLegible(w)
      /\ w[k] \in Piece /\ Legible(w[k])
  BY PieceHere
<1>2. w[k].form # "text" /\ start = Offset(w, k - 1) + 1
  BY DEF AtLat
<1>3. PICK p \in Nat \ {0} : p = start
  BY DEF Legibly
<1>4. PICK b \in Nat : b = Offset(w, k - 1)
  BY <1>1, Bounds
<1>5. p = b + 1 /\ Kept(w, p)
  BY <1>2, <1>3, <1>4
<1>6. CASE InHalves(w[k].form) /\ \E i, j : LegibleHalves(w[k], i, j)
  BY <1>1, <1>3, <1>4, <1>5, <1>6, HalvesLat
<1>7. CASE w[k].form = "slash" /\ LegibleSlash(w[k])
  BY <1>1, <1>3, <1>4, <1>5, <1>7, SlashPlace
<1>8. CASE w[k].form = "short" /\ LegibleShort(w[k])
  <2>1. p <= Offset(w, k)
    <3>1. /\ Len(w[k].chars) \in Nat \ {0}
          /\ Offset(w, k) = Offset(w, k - 1) + Len(w[k].chars)
      BY <1>1, Bounds
    <3>2. PICK n \in Nat \ {0} : n = Len(w[k].chars) /\ Offset(w, k) = b + n
      BY <1>4, <3>1
    <3>. QED  BY <1>5, <3>2
  <2>2. PlainEnd(Offset(w, k))
    BY <1>5, <2>1, PieceEndPlain
  <2>. QED  BY <1>1, <1>3, <1>4, <1>5, <1>8, <2>2, ShortPlace
<1>. QED  BY <1>1, <1>2, <1>6, <1>7, <1>8, LegibleForms

LEMMA UnstampedLon ==
    ASSUME NEW w, Legibly(w), NEW k \in 1 .. Len(w) + 1, k <= Len(w),
           Kept(w, start), AtLon(w, k), Turn
    PROVE  Unstamped(start)
<1>1. /\ HasPiece(w, k) /\ w \in Writings /\ k \in 1 .. Len(w) /\ AllLegible(w)
      /\ w[k] \in Piece /\ Legible(w[k])
  BY PieceHere
<1>2. /\ InHalves(w[k].form)
      /\ \E i, j : LegibleHalves(w[k], i, j) /\ LonPlace(w, k, i, j)
  BY <1>1, AtLonIs
<1>3. PICK i, j : LegibleHalves(w[k], i, j) /\ LonPlace(w, k, i, j)
  BY <1>2
<1>4. PICK p \in Nat \ {0} : p = start
  BY DEF Legibly
<1>5. PICK b \in Nat : b = Offset(w, k - 1)
  BY <1>1, Bounds
<1>6. p = b + j + 1 /\ Kept(w, p)
  BY <1>3, <1>4, <1>5 DEF LonPlace, Turn
<1>7. PICK n \in Nat : n = Len(w[k].chars) /\ Offset(w, k) = b + n
  BY <1>1, <1>5, Bounds
<1>8. j \in Nat /\ j + 1 <= n
  <2>1. i \in 1 .. n /\ j \in 1 .. n /\ j \in i .. n - 4
    BY <1>3, <1>7, Zenon DEF LegibleHalves, Halves
  <2>. QED  BY <2>1
<1>9. PlainEnd(Offset(w, k))
  <2>1. p <= Offset(w, k)
    BY <1>6, <1>7, <1>8
  <2>. QED  BY <1>6, <2>1, PieceEndPlain
<1>. QED  BY <1>1, <1>2, <1>3, <1>4, <1>5, <1>6, <1>8, <1>9, HalvesLon

\* A date or a time that a piece is.
LEMMA StampHere ==
    ASSUME NEW w, NEW k, HasPiece(w, k), w[k].form = "text", IsStamp(w[k].chars),
           NEW p \in Nat \ {0}, p = Offset(w, k - 1) + 1, Kept(w, p)
    PROVE  SteppedOver(p, w[k].chars, Offset(w, k)) /\ p <= Offset(w, k)
<1>1. w \in Writings /\ k \in 1 .. Len(w) /\ AllLegible(w)
  BY DEF HasPiece
<1>2. PICK b \in Nat : b = Offset(w, k - 1)
  BY <1>1, Bounds
<1>3. PICK c : c = w[k].chars
  OBVIOUS
<1>4. p = b + 1 /\ Kept(w, b + 1)
  BY <1>2
<1>5. /\ text \in Seq(TextChar) /\ Shows(b, 1, c) /\ c \in Seq(Char)
      /\ Len(c) \in Nat \ {0} /\ Offset(w, k) = b + Len(c)
  BY <1>2, <1>3, <1>4, PieceShows
<1>6. SteppedOver(p, c, b + Len(c))
  BY <1>3, <1>4, <1>5, StampStepped
<1>7. p <= b + Len(c)
  BY <1>4, <1>5
<1>. QED  BY <1>3, <1>5, <1>6, <1>7

\* The blank that ends it.
LEMMA BlankHere ==
    ASSUME NEW w, NEW k, HasPiece(w, k), w[k].form = "text", IsStamp(w[k].chars),
           NEW r \in Nat \ {0}, r = Offset(w, k), Kept(w, r)
    PROVE  /\ Skip(TimeForms, r) = r /\ ~IsDirty(r) /\ ~IsSlash(r)
           /\ queryLatValue(r) = NotFound(text)
<1>1. w \in Writings /\ k \in 1 .. Len(w) /\ AllLegible(w) /\ text \in Seq(TextChar)
  BY DEF HasPiece
<1>2. PICK b \in Nat : b = Offset(w, k - 1)
  BY <1>1, Bounds
<1>3. PICK c : c = w[k].chars
  OBVIOUS
<1>4. PICK n \in Nat \ {0} : n = Len(c) /\ r = b + n
  BY <1>1, <1>2, <1>3, Bounds
<1>5. c[n] \in Blank
  BY <1>3, <1>4, Zenon DEF IsStamp
<1>6. n <= Len(w[k].chars)
  BY <1>3, <1>4
<1>7. At(r) = c[n]
  BY <1>2, <1>3, <1>4, <1>6, CharThere
<1>8. At(r) \notin Digit \union Mark
  BY <1>5, <1>7, FigureFacts, CharKinds DEF Blank, Mark
<1>. QED  BY <1>1, <1>8, NothingAt

\* A place without a date and a time is not moved.
LEMMA UnstampedMoves ==
    ASSUME NEW p, p = start, Unstamped(p)
    PROVE  skipDate => start' = p /\ (skipTime => start' = p)
BY DEF Unstamped, skipDate, skipTime

LEMMA SkipDateReads ==
    ASSUME NEW w, Legibly(w), NEW k \in 1 .. Len(w) + 1, ReadTo(w, k), SkipDate
    PROVE  Reads(w)'
<1>1. /\ at = "skipDate" /\ at' = "skipTime" /\ text' = text /\ latPassed' = latPassed
      /\ lat' = lat /\ found' = found /\ start' = Skip(DateForms, start)
  BY DEF SkipDate, skipDate
<1>2. ReadSoFar(w, k) /\ InPiece(w, k)
  BY <1>1, WhereRead
<1>3. k <= Len(w) /\ ~Stop(w, k - 1) /\ Kept(w, start)
  BY <1>2 DEF InPiece
<1>4. /\ HasPiece(w, k) /\ w \in Writings /\ k \in 1 .. Len(w) /\ AllLegible(w)
      /\ w[k] \in Piece /\ Legible(w[k])
  BY <1>3, PieceHere
<1>5. PICK p \in Nat \ {0} : p = start
  BY DEF Legibly
<1>6. p \in Nat /\ p <= p
  BY <1>5
<1>7. ~InFiller(w, k)
  BY <1>1 DEF InFiller
<1>8. CASE InStamp(w, k)
  <2>1. /\ ~latPassed /\ w[k].form = "text" /\ IsStamp(w[k].chars)
        /\ p = Offset(w, k - 1) + 1
    BY <1>1, <1>5, <1>8 DEF InStamp
  <2>2. SteppedOver(p, w[k].chars, Offset(w, k)) /\ p <= Offset(w, k)
    BY <1>3, <1>4, <1>5, <2>1, StampHere
  <2>3. CASE w[k].chars[3] = ":"
    <3>1. start' = p
      BY <1>1, <1>5, <2>2, <2>3 DEF SteppedOver
    <3>2. InStamp(w, k)'
      BY <1>1, <2>1, <2>3, <3>1 DEF InStamp
    <3>. QED  BY <1>1, <1>2, <1>3, <1>5, <1>6, <3>1, <3>2, StaysReads
  <2>4. CASE w[k].chars[3] # ":"
    <3>1. PICK e \in Nat : e = Offset(w, k)
      BY <1>4, Bounds
    <3>2. start' = e /\ p <= e
      BY <1>1, <1>5, <2>2, <2>4, <3>1 DEF SteppedOver
    <3>3. InStamp(w, k)'
      BY <1>1, <2>1, <3>1, <3>2 DEF InStamp
    <3>. QED  BY <1>1, <1>2, <1>3, <1>5, <1>6, <3>2, <3>3, StaysReads
  <2>. QED  BY <2>3, <2>4
<1>9. CASE AtLat(w, k)
  <2>1. start' = p
    BY <1>1, <1>3, <1>5, <1>9, UnstampedLat DEF Unstamped
  <2>2. AtLat(w, k)'
    BY <1>1, <1>5, <1>9, <2>1 DEF AtLat, Turn
  <2>. QED  BY <1>1, <1>2, <1>3, <1>5, <1>6, <2>1, <2>2, StaysReads
<1>10. CASE AtLon(w, k)
  <2>0. Turn
    BY <1>1 DEF Turn
  <2>1. start' = p
    BY <1>1, <1>3, <1>5, <1>10, <2>0, UnstampedLon DEF Unstamped
  <2>2. AtLon(w, k)'
    BY <1>1, <1>5, <1>10, <2>1 DEF AtLon, Turn
  <2>. QED  BY <1>1, <1>2, <1>3, <1>5, <1>6, <2>1, <2>2, StaysReads
<1>. QED  BY <1>2, <1>7, <1>8, <1>9, <1>10 DEF InPiece

LEMMA SkipTimeReads ==
    ASSUME NEW w, Legibly(w), NEW k \in 1 .. Len(w) + 1, ReadTo(w, k), SkipTime
    PROVE  Reads(w)'
<1>1. /\ at = "skipTime" /\ at' = "match" /\ text' = text /\ latPassed' = latPassed
      /\ lat' = lat /\ found' = found /\ start' = Skip(TimeForms, start)
  BY DEF SkipTime, skipTime
<1>2. ReadSoFar(w, k) /\ InPiece(w, k)
  BY <1>1, WhereRead
<1>3. k <= Len(w) /\ ~Stop(w, k - 1) /\ Kept(w, start)
  BY <1>2 DEF InPiece
<1>4. /\ HasPiece(w, k) /\ w \in Writings /\ k \in 1 .. Len(w) /\ AllLegible(w)
      /\ w[k] \in Piece /\ Legible(w[k])
  BY <1>3, PieceHere
<1>5. PICK p \in Nat \ {0} : p = start
  BY DEF Legibly
<1>6. p \in Nat /\ p <= p
  BY <1>5
<1>7. ~InFiller(w, k)
  BY <1>1 DEF InFiller
<1>8. CASE InStamp(w, k)
  <2>1. /\ ~latPassed /\ w[k].form = "text" /\ IsStamp(w[k].chars)
        /\ \/ p = Offset(w, k - 1) + 1 /\ w[k].chars[3] = ":"
           \/ p = Offset(w, k)
    BY <1>1, <1>5, <1>8 DEF InStamp
  <2>2. PICK e \in Nat : e = Offset(w, k)
    BY <1>4, Bounds
  <2>3. start' = e /\ p <= e
    <3>1. CASE p = Offset(w, k - 1) + 1 /\ w[k].chars[3] = ":"
      <4>1. SteppedOver(p, w[k].chars, Offset(w, k)) /\ p <= Offset(w, k)
        BY <1>3, <1>4, <1>5, <2>1, <3>1, StampHere
      <4>. QED  BY <1>1, <1>5, <2>2, <3>1, <4>1 DEF SteppedOver
    <3>2. CASE p = Offset(w, k)
      <4>1. Skip(TimeForms, p) = p
        BY <1>3, <1>4, <1>5, <2>1, <3>2, BlankHere
      <4>. QED  BY <1>1, <1>5, <1>6, <2>2, <3>2, <4>1
    <3>. QED  BY <2>1, <3>1, <3>2
  <2>4. InStamp(w, k)'
    BY <1>1, <2>1, <2>2, <2>3 DEF InStamp
  <2>. QED  BY <1>1, <1>2, <1>3, <1>5, <1>6, <2>3, <2>4, StaysReads
<1>9. CASE AtLat(w, k)
  <2>1. start' = p
    BY <1>1, <1>3, <1>5, <1>9, UnstampedLat DEF Unstamped
  <2>2. AtLat(w, k)'
    BY <1>1, <1>5, <1>9, <2>1 DEF AtLat, Turn
  <2>. QED  BY <1>1, <1>2, <1>3, <1>5, <1>6, <2>1, <2>2, StaysReads
<1>10. CASE AtLon(w, k)
  <2>0. Turn
    BY <1>1 DEF Turn
  <2>1. start' = p
    BY <1>1, <1>3, <1>5, <1>10, <2>0, UnstampedLon DEF Unstamped
  <2>2. AtLon(w, k)'
    BY <1>1, <1>5, <1>10, <2>1 DEF AtLon, Turn
  <2>. QED  BY <1>1, <1>2, <1>3, <1>5, <1>6, <2>1, <2>2, StaysReads
<1>. QED  BY <1>2, <1>7, <1>8, <1>9, <1>10 DEF InPiece

\* Two characters and a hemisphere: a position of whole degrees.
LEMMA DirtyReads ==
    ASSUME NEW w, Legibly(w), NEW k \in 1 .. Len(w) + 1, ReadTo(w, k), queryDirtyPosition
    PROVE  Reads(w)'
<1>1. /\ at = "match" /\ ~latPassed /\ IsDirty(start) /\ text' = text
      /\ addPosition(dirtyLon(start), Unset, start, start + 8)
  BY DEF queryDirtyPosition
<1>2. ReadSoFar(w, k) /\ InPiece(w, k)
  BY <1>1, WhereRead
<1>3. k <= Len(w) /\ ~Stop(w, k - 1) /\ Kept(w, start)
  BY <1>2 DEF InPiece
<1>4. /\ HasPiece(w, k) /\ w \in Writings /\ k \in 1 .. Len(w) /\ AllLegible(w)
      /\ w[k] \in Piece /\ Legible(w[k])
  BY <1>3, PieceHere
<1>5. PICK p \in Nat \ {0} : p = start
  BY DEF Legibly
<1>6. ~InFiller(w, k) /\ ~AtLon(w, k)
  BY <1>1 DEF InFiller, AtLon
<1>7. ~InStamp(w, k)
  BY <1>1, <1>3, <1>4, <1>5, BlankHere DEF InStamp
<1>8. AtLat(w, k)
  BY <1>2, <1>6, <1>7 DEF InPiece
<1>9. PICK b \in Nat : b = Offset(w, k - 1)
  BY <1>4, Bounds
<1>10. w[k].form # "text" /\ p = b + 1 /\ Kept(w, p) /\ IsDirty(p)
  BY <1>1, <1>3, <1>5, <1>8, <1>9 DEF AtLat
<1>11. w[k].form = "short" /\ LegibleShort(w[k])
  <2>1. CASE InHalves(w[k].form) /\ \E i, j : LegibleHalves(w[k], i, j)
    BY <1>4, <1>5, <1>9, <1>10, <2>1, HalvesLat
  <2>2. CASE w[k].form = "slash" /\ LegibleSlash(w[k])
    BY <1>4, <1>5, <1>9, <1>10, <2>2, SlashPlace
  <2>. QED  BY <1>4, <1>10, <2>1, <2>2, LegibleForms
<1>12. p <= Offset(w, k)
  <2>1. Len(w[k].chars) \in Nat \ {0} /\ Offset(w, k) = b + Len(w[k].chars)
    BY <1>4, <1>9, Bounds
  <2>2. PICK n \in Nat \ {0} : n = Len(w[k].chars)
    BY <2>1
  <2>3. Offset(w, k) = b + n
    BY <2>1, <2>2
  <2>. QED  BY <1>10, <2>2, <2>3
<1>13. PlainEnd(Offset(w, k))
  BY <1>3, <1>10, <1>12, PieceEndPlain
<1>14. dirtyLon(p) = w[k].lon /\ p + 8 = Offset(w, k) + 1
  BY <1>4, <1>5, <1>9, <1>10, <1>11, <1>13, ShortPlace
<1>15. PICK q \in Nat : q = p + 8 /\ p <= q
  BY <1>5
<1>16. Kept(w, q)'
  <2>1. text \in Seq(TextChar)
    BY DEF Legibly
  <2>2. Kept(w, q)
    BY <1>5, <1>10, <1>15, <2>1, KeptOn
  <2>. QED  BY <1>1, <2>2, KeptStill
<1>17. Read(w[k]) = << <<w[k].lon, Unset>> >>
  BY <1>11, ReadOf
<1>18. addPosition(w[k].lon, Unset, p, q) /\ q = Offset(w, k) + 1
  BY <1>1, <1>5, <1>14, <1>15
<1>. QED  BY <1>2, <1>3, <1>10, <1>16, <1>17, <1>18, FoundReads

\* The text behind a coordinate that has been read.
LEMMA KeptRead ==
    ASSUME NEW w, text \in Seq(TextChar), NEW p \in Nat, NEW r \in Nat, p <= r + 1, Kept(w, p),
           NEW x, NEW v, NEW s, ReadAs(x, v, s, r), NEW z, Sound(x, z), text' = x.text,
           NEW q \in Nat, q = r + 1
    PROVE  /\ Kept(w, q)' /\ Len(text') = Len(text) /\ text' \in Seq(TextChar)
           /\ q \in 1 .. Len(text) => CharAt(text', q) = At(q)
<1>1. PICK l \in Nat : l = Len(text)
  OBVIOUS
<1>2. text' \in Seq(TextChar) /\ Len(text') = l
  BY <1>1 DEF Sound
<1>3. \A y \in q .. l : text'[y] = text[y] /\ text[y] = Flat(w)[y]
  <2>1. \A y \in q .. l : y \in p .. l
    OBVIOUS
  <2>2. \A y \in q .. l : text'[y] = text[y]
    BY <1>1 DEF ReadAs
  <2>3. \A y \in p .. l : text[y] = Flat(w)[y]
    BY <1>1 DEF Kept
  <2>. QED  BY <2>1, <2>2, <2>3
<1>4. Kept(w, q)'
  <2>1. \A y \in q .. l : text'[y] = Flat(w)[y]
    BY <1>3
  <2>. QED  BY <1>2, <2>1 DEF Kept
<1>5. ASSUME q \in 1 .. l PROVE CharAt(text', q) = At(q)
  <2>1. q \in q .. l
    BY <1>5
  <2>2. q \in DOMAIN text' /\ q \in DOMAIN text
    <3>1. DOMAIN text = 1 .. l
      BY <1>1
    <3>2. DOMAIN text' = 1 .. l
      BY <1>2
    <3>. QED  BY <1>5, <3>1, <3>2
  <2>3. text'[q] = text[q]
    BY <1>3, <2>1
  <2>. QED  BY <2>2, <2>3 DEF CharAt, At
<1>. QED  BY <1>1, <1>2, <1>4, <1>5

\* A latitude is taken, and the search for its longitude begins.
LEMMA LatitudeTaken ==
    ASSUME NEW w, Legibly(w), NEW k \in 1 .. Len(w) + 1, k <= Len(w),
           ReadSoFar(w, k), ~Stop(w, k - 1), Kept(w, start), AtLat(w, k),
           InHalves(w[k].form), NEW i, NEW j, LegibleHalves(w[k], i, j), Latitude
    PROVE  Reads(w)'
<1>1. /\ w \in Writings /\ k \in 1 .. Len(w) /\ HasPiece(w, k) /\ AllLegible(w)
      /\ text \in Seq(TextChar) /\ w[k] \in Piece /\ Legible(w[k])
  BY PieceHere
<1>2. PICK p \in Nat \ {0} : p = start
  BY DEF Legibly
<1>3. PICK b \in Nat : b = Offset(w, k - 1)
  BY <1>1, Bounds
<1>4. p = b + 1 /\ Kept(w, p)
  BY <1>2, <1>3 DEF AtLat
<1>5. PICK x : x = queryLatValue(p)
  OBVIOUS
<1>6. ReadAs(x, w[k].lat, p, b + i) /\ Sound(x, p)
  BY <1>1, <1>3, <1>4, <1>5, HalvesLat, LatSound
<1>7. Absolute(w[k].lat) < 90 * Deg
  BY DEF LegibleHalves
<1>8. i \in Nat \ {0} /\ j \in Nat /\ i <= j
  <2>1. PICK n \in Nat : n = Len(w[k].chars)
    BY <1>1, Bounds
  <2>2. i \in 1 .. n /\ j \in 1 .. n /\ j \in i .. n - 4
    BY <2>1, Zenon DEF LegibleHalves, Halves
  <2>. QED  BY <2>2
<1>9. PICK r \in Nat : r = b + i
  BY <1>8
<1>10. x.value = w[k].lat /\ x.size = i
  <2>1. r + 1 - p = i
    BY <1>4, <1>8, <1>9
  <2>. QED  BY <1>6, <1>9, <2>1 DEF ReadAs
<1>11. x.size > 0 /\ Absolute(x.value) < 90 * Deg
  <2>1. i > 0
    BY <1>8
  <2>. QED  BY <1>7, <1>10, <2>1, Zenon
<1>12. PICK q \in Nat \ {0} : q = r + 1 /\ q = b + (i + 1) /\ q = p + i /\ p <= q
  BY <1>4, <1>8, <1>9
<1>13. /\ text' = x.text /\ latPassed' = TRUE /\ lat'.value = w[k].lat /\ GoOn(q)
  BY <1>2, <1>5, <1>10, <1>11, <1>12 DEF Latitude
<1>14. q \in 1 .. Len(text) /\ At(q) # NUL
  <2>1. PICK d \in Nat \ {0} : d = i + 1
    BY <1>8
  <2>2. i < d /\ d <= j + 1 /\ q = b + d
    BY <1>8, <1>12, <2>1
  <2>3. Kept(w, q)
    <3>1. p \in Nat /\ q \in Nat /\ p <= q
      BY <1>12
    <3>. QED  BY <1>1, <1>4, <3>1, KeptOn
  <2>4. /\ q \in 1 .. Len(text) /\ At(q) # NUL
        /\ At(q) \in Digit <=> d = j + 1
    BY <1>3, <2>2, <2>3, BetweenHalves
  <2>. QED  BY <2>4
<1>15. /\ Kept(w, q)' /\ Len(text') = Len(text) /\ CharAt(text', q) = At(q)
  <2>1. ReadAs(x, w[k].lat, p, r) /\ p <= r + 1
    BY <1>6, <1>9, <1>12
  <2>. QED  BY <1>1, <1>4, <1>6, <1>12, <1>13, <1>14, <2>1, KeptRead
<1>16. start' = q /\ at' = "scan" /\ found' = found
  <2>1. ~(q > Len(text) + 1)
    <3>1. Len(text) \in Nat
      BY <1>1
    <3>. QED  BY <1>14, <3>1
  <2>. QED  BY <1>13, <1>14, <1>15, <2>1 DEF GoOn
<1>17. LonPlace(w, k, i, j)'
  <2>1. q \in b + i + 1 .. b + j + 1
    BY <1>8, <1>12
  <2>. QED  BY <1>3, <1>16, <2>1 DEF LonPlace
<1>18. AtLon(w, k)'
  BY <1>1, <1>13, <1>17, IsAtLon
<1>19. Kept(w, start)'
  BY <1>15, <1>16 DEF Kept
<1>20. ReadSoFar(w, k)'
  BY <1>16, SoFarKept
<1>. QED  BY <1>18, <1>19, <1>20 DEF Reads, ReadTo, InPiece

\* No latitude has been found.
LEMMA NoLatitude ==
    ASSUME NEW p, p = start, queryLatValue(p) = NotFound(text), Latitude
    PROVE  text' = text /\ Whole(p, "digit")
<1>1. queryLatValue(start).size = 0
  BY DEF NotFound, Reading
<1>2. ~(queryLatValue(start).size > 0)
  BY <1>1
<1>. QED  BY <1>2 DEF Latitude

\* Where latitude and longitude stand with a slash between them.
LEMMA WholeSlash ==
    ASSUME NEW p, NEW d, Whole(p, d), d \notin NS, IsSlash(p)
    PROVE  addPosition(Signed(Angle(p, 2, Copied(p + 2), p + 2), At(p + 7) = "S"),
                       Signed(Angle(p + 9, 3, Copied(p + 12), p + 12), At(p + 17) = "W"),
                       start, p + 18)
BY DEF Whole

LEMMA LatitudeReads ==
    ASSUME NEW w, Legibly(w), NEW k \in 1 .. Len(w) + 1, ReadTo(w, k), Latitude
    PROVE  Reads(w)'
<1>1. at = "match" /\ ~latPassed /\ ~IsDirty(start)
  BY DEF Latitude
<1>2. ReadSoFar(w, k) /\ InPiece(w, k)
  BY <1>1, WhereRead
<1>3. k <= Len(w) /\ ~Stop(w, k - 1) /\ Kept(w, start)
  BY <1>2 DEF InPiece
<1>4. /\ HasPiece(w, k) /\ w \in Writings /\ k \in 1 .. Len(w) /\ AllLegible(w)
      /\ text \in Seq(TextChar) /\ w[k] \in Piece /\ Legible(w[k])
  BY <1>3, PieceHere
<1>5. PICK p \in Nat \ {0} : p = start
  BY DEF Legibly
<1>6. Kept(w, p) /\ ~IsDirty(p) /\ "digit" \notin NS
  BY <1>1, <1>3, <1>5 DEF NS
<1>7. ~InFiller(w, k) /\ ~AtLon(w, k)
  BY <1>1 DEF InFiller, AtLon
<1>8. CASE InStamp(w, k)
  <2>1. w[k].form = "text" /\ IsStamp(w[k].chars) /\ p = Offset(w, k)
    BY <1>1, <1>5, <1>8 DEF InStamp
  <2>2. ~IsSlash(p) /\ queryLatValue(p) = NotFound(text)
    BY <1>4, <1>6, <2>1, BlankHere
  <2>3. text' = text /\ Whole(p, "digit")
    BY <1>5, <2>2, NoLatitude
  <2>4. GoOn(p + 1) /\ latPassed' = FALSE
    BY <1>6, <2>2, <2>3, WholeGoesOn
  <2>5. p + 1 = Offset(w, k) + 1 /\ p \in Nat /\ p <= Offset(w, k)
    BY <2>1
  <2>. QED  BY <1>2, <1>3, <1>6, <2>1, <2>3, <2>4, <2>5, PassedReads
<1>9. CASE AtLat(w, k)
  <2>1. PICK b \in Nat : b = Offset(w, k - 1)
    BY <1>4, Bounds
  <2>2. w[k].form # "text" /\ p = b + 1
    BY <1>5, <1>9, <2>1 DEF AtLat
  <2>3. CASE InHalves(w[k].form) /\ \E i, j : LegibleHalves(w[k], i, j)
    BY <1>2, <1>3, <1>9, <2>3, LatitudeTaken
  <2>4. CASE w[k].form = "slash" /\ LegibleSlash(w[k])
    <3>0. SlashRead(w, k, p)
      BY <1>4, <1>6, <2>1, <2>2, <2>4, SlashSeen
    <3>1. /\ IsSlash(p) /\ queryLatValue(p) = NotFound(text)
          /\ Signed(Angle(p, 2, Copied(p + 2), p + 2), At(p + 7) = "S") = w[k].lat
          /\ Signed(Angle(p + 9, 3, Copied(p + 12), p + 12), At(p + 17) = "W") = w[k].lon
          /\ p + 18 = Offset(w, k) + 1
      BY <3>0 DEF SlashRead
    <3>2. text' = text /\ Whole(p, "digit")
      BY <1>5, <3>1, NoLatitude
    <3>3. addPosition(w[k].lat, w[k].lon, p, p + 18)
      BY <1>5, <1>6, <3>1, <3>2, WholeSlash
    <3>4. PICK q \in Nat : q = p + 18 /\ p <= q
      OBVIOUS
    <3>5. Kept(w, q)'
      <4>1. Kept(w, q)
        BY <1>4, <1>6, <3>4, KeptOn
      <4>. QED  BY <3>2, <4>1, KeptStill
    <3>6. Read(w[k]) = << <<w[k].lat, w[k].lon>> >>
      BY <2>4, ReadOf
    <3>7. addPosition(w[k].lat, w[k].lon, p, q) /\ q = Offset(w, k) + 1
      BY <3>1, <3>3, <3>4
    <3>. QED  BY <1>2, <1>3, <2>2, <3>5, <3>6, <3>7, FoundReads
  <2>5. CASE w[k].form = "short" /\ LegibleShort(w[k])
    <3>1. p <= Offset(w, k)
      <4>1. Len(w[k].chars) \in Nat \ {0} /\ Offset(w, k) = b + Len(w[k].chars)
        BY <1>4, <2>1, Bounds
      <4>2. PICK n \in Nat \ {0} : n = Len(w[k].chars)
        BY <4>1
      <4>3. Offset(w, k) = b + n
        BY <4>1, <4>2
      <4>. QED  BY <2>2, <4>2, <4>3
    <3>2. PlainEnd(Offset(w, k))
      BY <1>3, <1>6, <3>1, PieceEndPlain
    <3>3. IsDirty(p)
      BY <1>4, <1>6, <2>1, <2>2, <2>5, <3>2, ShortPlace
    <3>. QED  BY <1>6, <3>3
  <2>. QED  BY <1>4, <2>2, <2>3, <2>4, <2>5, LegibleForms
<1>. QED  BY <1>2, <1>7, <1>8, <1>9 DEF InPiece

\* With its longitude the position is complete.
LEMMA LongitudeReads ==
    ASSUME NEW w, Legibly(w), NEW k \in 1 .. Len(w) + 1, ReadTo(w, k), Longitude
    PROVE  Reads(w)'
<1>1. at = "match" /\ latPassed
  BY DEF Longitude
<1>2. ReadSoFar(w, k) /\ InPiece(w, k)
  BY <1>1, WhereRead
<1>3. k <= Len(w) /\ ~Stop(w, k - 1) /\ Kept(w, start)
  BY <1>2 DEF InPiece
<1>4. /\ HasPiece(w, k) /\ w \in Writings /\ k \in 1 .. Len(w) /\ AllLegible(w)
      /\ text \in Seq(TextChar) /\ w[k] \in Piece /\ Legible(w[k])
  BY <1>3, PieceHere
<1>5. PICK p \in Nat \ {0} : p = start
  BY DEF Legibly
<1>6. ~InFiller(w, k) /\ ~InStamp(w, k) /\ ~AtLat(w, k)
  BY <1>1 DEF InFiller, InStamp, AtLat
<1>7. AtLon(w, k)
  BY <1>2, <1>6 DEF InPiece
<1>8. /\ lat.value = w[k].lat /\ InHalves(w[k].form)
      /\ \E i, j : LegibleHalves(w[k], i, j) /\ LonPlace(w, k, i, j)
  BY <1>4, <1>7, AtLonIs
<1>9. PICK i, j : LegibleHalves(w[k], i, j) /\ LonPlace(w, k, i, j)
  BY <1>8
<1>10. PICK b \in Nat : b = Offset(w, k - 1)
  BY <1>4, Bounds
<1>11. PICK n \in Nat : n = Len(w[k].chars) /\ Offset(w, k) = b + n
  <2>1. Len(w[k].chars) \in Nat \ {0} /\ Offset(w, k) = b + Len(w[k].chars)
    BY <1>4, <1>10, Bounds
  <2>. QED  BY <2>1
<1>12. j \in Nat /\ j + 1 <= n
  <2>1. i \in 1 .. n /\ j \in 1 .. n /\ j \in i .. n - 4
    BY <1>9, <1>11, Zenon DEF LegibleHalves, Halves
  <2>. QED  BY <2>1
<1>13. p = b + j + 1 /\ Kept(w, p)
  BY <1>1, <1>3, <1>5, <1>9, <1>10 DEF LonPlace
<1>14. PICK e \in Nat : e = Offset(w, k) /\ p <= e
  BY <1>11, <1>12, <1>13
<1>15. PlainEnd(Offset(w, k))
  BY <1>3, <1>13, <1>14, PieceEndPlain
<1>16. PICK v : v = LonRead(w[k].form, w[k].lon)
  OBVIOUS
<1>17. PICK x : x = queryLonValue(p)
  OBVIOUS
<1>18. ReadAs(x, v, p, e) /\ Absolute(v) < 180 * Deg /\ Sound(x, p)
  BY <1>4, <1>8, <1>9, <1>10, <1>12, <1>13, <1>14, <1>15, <1>16, <1>17, HalvesLon, LonSound
<1>19. x.value = v /\ x.size = e + 1 - p
  BY <1>18 DEF ReadAs
<1>20. x.size > 0 /\ p + x.size = e + 1
  BY <1>14, <1>19
<1>21. Absolute(x.value) < 180 * Deg
  BY <1>18, <1>19, Zenon
<1>22. text' = x.text /\ addPosition(w[k].lat, v, lat.to, e + 1)
  BY <1>5, <1>8, <1>17, <1>19, <1>20, <1>21 DEF Longitude
<1>23. PICK q \in Nat : q = e + 1 /\ q = Offset(w, k) + 1
  BY <1>14
<1>24. Kept(w, q)'
  <2>1. p \in Nat /\ p <= e + 1
    BY <1>14
  <2>. QED  BY <1>4, <1>13, <1>18, <1>22, <1>23, <2>1, KeptRead
<1>25. Read(w[k]) = << <<w[k].lat, v>> >>
  BY <1>8, <1>16, ReadOf
<1>26. w[k].form # "text"
  BY <1>8 DEF InHalves
<1>27. addPosition(w[k].lat, v, lat.to, q)
  BY <1>22, <1>23
<1>. QED  BY <1>2, <1>3, <1>23, <1>24, <1>25, <1>26, <1>27, FoundReads

-----------------------------------------------------------------------------
\* At the end everything has been read, in order.

\* The pieces up to the first stop.
LEMMA ReachedIs ==
    ASSUME NEW w \in Writings, w = written, NEW k \in 1 .. Len(w) + 1,
           k = Len(w) + 1 \/ Stop(w, k - 1), \A i \in 1 .. k - 2 : ~Stop(w, i)
    PROVE  Reached = SubSeq(w, 1, k - 1) /\ k - 1 \in 1 .. Len(w)
<1>1. Len(w) \in Nat \ {0}
  BY CharsType
<1>2. PICK n \in Nat \ {0} : n = Len(w)
  BY <1>1
<1>3. PICK m : m = k - 1 /\ m \in 1 .. n /\ (m = n \/ Stop(w, m))
  <2>1. PICK m \in Int : m = k - 1 /\ m <= n
    BY <1>2
  <2>2. CASE k = Len(w) + 1
    BY <1>2, <2>1, <2>2
  <2>3. CASE Stop(w, k - 1)
    BY <1>2, <2>1, <2>3 DEF Stop
  <2>. QED  BY <2>2, <2>3
<1>4. \A i \in 1 .. n : i < m => ~Stop(w, i)
  BY <1>2, <1>3
<1>5. PICK T : T = {i \in 1 .. n - 1 : Stop(w, i)} \union {n}
  OBVIOUS
<1>6. Reached = SubSeq(w, 1, Min(T))
  <2>1. {i \in 1 .. Len(w) - 1 : /\ Read(w[i]) # <<>> /\ w[i].form # "spaced"
                                  /\ Head(w[i + 1].chars) = "\n"}
        = {i \in 1 .. n - 1 : Stop(w, i)}
    BY <1>2 DEF Stop
  <2>. QED  BY <1>2, <1>5, <2>1, Zenon DEF Reached
<1>7. m \in T /\ T \in SUBSET Nat /\ \A y \in T : m <= y
  <2>1. m # n => m \in 1 .. n - 1 /\ Stop(w, m)
    BY <1>3
  <2>2. \A y \in 1 .. n - 1 : Stop(w, y) => m <= y
    BY <1>3, <1>4
  <2>. QED  BY <1>2, <1>3, <1>5, <2>1, <2>2
<1>8. Min(T) = m
  <2>1. Min(T) \in T /\ Min(T) <= m
    BY <1>7, MinFacts
  <2>2. m \in Nat /\ Min(T) \in Nat /\ m <= Min(T)
    BY <1>7, <2>1
  <2>. QED  BY <2>1, <2>2
<1>. QED  BY <1>2, <1>3, <1>6, <1>8

\* What is read of them.
LEMMA ReadsReached ==
    ASSUME NEW w \in Writings, NEW m \in 1 .. Len(w), NEW v, v = SubSeq(w, 1, m)
    PROVE  FlattenSeq([i \in DOMAIN v |-> Read(v[i])]) = Upto(ReadsOf(w), m)
<1>1. PICK s : s = ReadsOf(w)
  OBVIOUS
<1>2. PICK S : s \in Seq(Seq(S)) /\ Len(s) = Len(w) /\ \A i \in 1 .. Len(w) : s[i] = Read(w[i])
  BY <1>1, ReadsType
<1>3. Len(w) \in Nat /\ w \in Seq(Piece)
  BY CharsType, WritingsAssumption
<1>4. PICK n \in Nat : n = m /\ n <= Len(w) /\ \A i \in 1 .. n : i \in 1 .. Len(w)
  BY <1>3
<1>5. DOMAIN v = 1 .. n /\ \A i \in 1 .. n : v[i] = w[i]
  BY <1>3, <1>4
<1>6. PICK u : u = SubSeq(s, 1, m)
  OBVIOUS
<1>7. u \in Seq(Seq(S)) /\ Len(u) = n /\ \A i \in 1 .. n : u[i] = s[i]
  BY <1>2, <1>4, <1>6
<1>8. u = [i \in 1 .. n |-> u[i]]
  BY <1>7
<1>9. [i \in DOMAIN v |-> Read(v[i])] = u
  <2>1. \A i \in 1 .. n : Read(v[i]) = u[i]
    BY <1>2, <1>4, <1>5, <1>7
  <2>2. [i \in 1 .. n |-> Read(v[i])] = [i \in 1 .. n |-> u[i]]
    BY <2>1, Zenon
  <2>. QED  BY <1>5, <1>8, <2>2, Zenon
<1>. QED  BY <1>1, <1>6, <1>9 DEF Upto

LEMMA ReadAtEnd ==
    ASSUME ReadInv, Over
    PROVE  [i \in DOMAIN found |-> <<found[i].lat, found[i].lon>>]
           = FlattenSeq([i \in DOMAIN Reached |-> Read(Reached[i])])
<1>1. PICK w \in Writings : w = written
  BY DEF ReadInv
<1>2. PICK k \in 1 .. Len(w) + 1 : ReadTo(w, k)
  BY <1>1 DEF ReadInv
<1>3. ReadSoFar(w, k) /\ AtEnd(w, k)
  BY <1>2, WhereRead DEF Over
<1>4. Reached = SubSeq(w, 1, k - 1) /\ k - 1 \in 1 .. Len(w)
  BY <1>1, <1>3, ReachedIs DEF ReadSoFar, AtEnd
<1>5. PICK v, m : v = Reached /\ m = k - 1
  OBVIOUS
<1>6. FlattenSeq([i \in DOMAIN v |-> Read(v[i])]) = Upto(ReadsOf(w), m)
  BY <1>4, <1>5, ReadsReached
<1>7. Results = Upto(ReadsOf(w), m)
  BY <1>3, <1>5 DEF ReadSoFar
<1>. QED  BY <1>5, <1>6, <1>7, Zenon DEF Results

\* The extraction begins before the first piece.
LEMMA InitRead ==
    ASSUME Init
    PROVE  ReadInv
<1>1. /\ written \in Writings /\ text = Flat(written) /\ source = 1 /\ at = "extract"
      /\ found = <<>>
  BY DEF Init
<1>2. PICK w \in Writings : w = written
  BY <1>1
<1>3. Len(w) \in Nat \ {0} /\ Offset(w, 0) = 0
  BY <1>2, CharsType, Offsets
<1>4. ReadSoFar(w, 1)
  <2>1. PICK S : ReadsOf(w) \in Seq(Seq(S))
    BY ReadsType
  <2>2. 0 \in 0 .. Len(ReadsOf(w))
    BY <2>1
  <2>3. Upto(ReadsOf(w), 0) = <<>>
    BY <2>1, <2>2, UptoFacts
  <2>4. Results = <<>>
    <3>1. DOMAIN found = {}
      BY <1>1
    <3>2. Results = [i \in {} |-> <<found[i].lat, found[i].lon>>]
      BY <3>1, Zenon DEF Results
    <3>3. <<>> = [i \in {} |-> <<found[i].lat, found[i].lon>>]
      OBVIOUS
    <3>. QED  BY <3>2, <3>3
  <2>. QED  BY <2>3, <2>4 DEF ReadSoFar
<1>5. AtStart(w, 1)
  <2>1. Kept(w, source)
    BY <1>1, <1>2 DEF Kept
  <2>. QED  BY <1>1, <1>3, <2>1 DEF AtStart
<1>6. ReadTo(w, 1) /\ 1 \in 1 .. Len(w) + 1
  BY <1>3, <1>4, <1>5 DEF ReadTo
<1>. QED  BY <1>1, <1>2, <1>6 DEF ReadInv

\* The text keeps its length.
LEMMA LengthKept ==
    ASSUME text \in Seq(TextChar), start \in Nat \ {0}, Next
    PROVE  Len(text') = Len(text) /\ written' = written
<1>1. PICK p \in Nat \ {0} : p = start
  OBVIOUS
<1>2. Len(queryLatValue(p).text) = Len(text) /\ Len(queryLonValue(p).text) = Len(text)
  BY LatSound, LonSound DEF Sound
<1>3. CASE extractPos
  BY <1>3 DEF extractPos
<1>4. CASE Scan
  BY <1>4 DEF Scan, Whole, addPosition, GoOn
<1>5. CASE ScanDigit
  BY <1>5 DEF ScanDigit
<1>6. CASE SkipDate
  BY <1>6 DEF SkipDate, skipDate
<1>7. CASE SkipTime
  BY <1>7 DEF SkipTime, skipTime
<1>8. CASE queryDirtyPosition
  BY <1>8 DEF queryDirtyPosition, addPosition
<1>9. CASE Latitude
  <2>1. text' = queryLatValue(p).text \/ text' = text
    BY <1>1, <1>9 DEF Latitude
  <2>2. written' = written
    BY <1>9 DEF Latitude, Whole, addPosition, GoOn
  <2>. QED  BY <1>2, <2>1, <2>2
<1>10. CASE Longitude
  <2>1. text' = queryLonValue(p).text
    BY <1>1, <1>10 DEF Longitude
  <2>2. written' = written
    BY <1>10 DEF Longitude, Whole, addPosition, GoOn
  <2>. QED  BY <1>2, <2>1, <2>2
<1>. QED  BY <1>3, <1>4, <1>5, <1>6, <1>7, <1>8, <1>9, <1>10 DEF Next

LEMMA ReadStep ==
    ASSUME PosInv, ReadInv, LegibleText, ~Exponent, Next
    PROVE  ReadInv'
<1>1. PICK w \in Writings : w = written
  BY DEF ReadInv
<1>2. Len(text') = Len(text) /\ written' = written
  BY LengthKept DEF PosInv, TypeOK
<1>3. Legibly(w)
  BY <1>1 DEF Legibly, AllLegible, LegibleText, ReadInv, PosInv, TypeOK
<1>4. PICK k \in 1 .. Len(w) + 1 : ReadTo(w, k)
  BY <1>1 DEF ReadInv
<1>5. Reads(w)'
  BY <1>3, <1>4, ExtractReads, ScanReads, ScanDigitReads, SkipDateReads, SkipTimeReads,
     DirtyReads, LatitudeReads, LongitudeReads, Zenon DEF Next
<1>6. \E i \in 1 .. Len(w) + 1 : ReadTo(w, i)'
  BY <1>5 DEF Reads
<1>7. Len(text') = Len(Flat(w))
  BY <1>1, <1>2 DEF ReadInv
<1>. QED  BY <1>1, <1>2, <1>6, <1>7 DEF ReadInv

LEMMA ReadStutter ==
    ASSUME ReadInv, UNCHANGED posVars
    PROVE  ReadInv'
<1>1. /\ text' = text /\ start' = start /\ at' = at /\ written' = written
      /\ source' = source /\ latPassed' = latPassed /\ lat' = lat
      /\ found' = found
  BY DEF posVars
<1>2. PICK w \in Writings : w = written
  BY DEF ReadInv
<1>3. PICK k \in 1 .. Len(w) + 1 : ReadTo(w, k)
  BY <1>2 DEF ReadInv
<1>4. ReadSoFar(w, k)'
  BY <1>1, <1>3, SoFarKept DEF ReadTo
<1>5. \A p : Kept(w, p) => Kept(w, p)'
  BY <1>1 DEF Kept
<1>6. Kept(w, start) => Kept(w, start)'
  BY <1>1, KeptStill
<1>7. Kept(w, source) => Kept(w, source)'
  BY <1>1, KeptStill
<1>8. ReadTo(w, k)'
  <2>1. CASE AtStart(w, k)
    BY <1>1, <1>4, <1>7, <2>1 DEF AtStart, ReadTo
  <2>2. CASE InPiece(w, k)
    <3>1. InFiller(w, k)' \/ InStamp(w, k)' \/ AtLat(w, k)' \/ AtLon(w, k)'
      BY <1>1, <2>2, Zenon DEF InPiece, InFiller, InStamp, AtLat, AtLon, Turn
    <3>. QED  BY <1>4, <1>6, <2>2, <3>1 DEF InPiece, ReadTo
  <2>3. CASE AtEnd(w, k)
    BY <1>1, <1>4, <2>3 DEF AtEnd, ReadTo
  <2>. QED  BY <1>3, <2>1, <2>2, <2>3 DEF ReadTo
<1>. QED  BY <1>1, <1>2, <1>8 DEF ReadInv

\* A text may hold any number of pieces, among them dates, times and positions
\* written in one of five ways: degrees, minutes and seconds, minutes with or
\* without a comma, decimal minutes, the same with a slash between, and whole
\* degrees.  When the extraction is over the positions found are those of the
\* text, in their order, each once and as Read says, up to one that ends its line.
THEOREM LegibleIsRead == Spec => [](LegibleText => ReadAsWritten)
<1> DEFINE Can == LegibleText /\ ~Exponent
           Inv == PosInv /\ (Can => ReadInv)
<1>1. Init => Inv
  BY InitPosInv, InitRead
<1>2. ASSUME Inv, [Next]_posVars PROVE Inv'
  <2>1. written' = written
    BY <1>2, LengthKept DEF PosInv, TypeOK, posVars
  <2>2. LegibleText' = LegibleText /\ Exponent' = Exponent
    BY <2>1, Zenon DEF LegibleText, Exponent
  <2>3. PosInv'
    BY <1>2, PosStep, PosStutter
  <2>4. Can => ReadInv'
    BY <1>2, ReadStep, ReadStutter
  <2>. QED  BY <2>2, <2>3, <2>4
<1>3. Inv => (LegibleText => ReadAsWritten)
  <2> SUFFICES ASSUME Inv, LegibleText, Over, ~Exponent
               PROVE  [i \in DOMAIN found |-> <<found[i].lat, found[i].lon>>]
                      = FlattenSeq([i \in DOMAIN Reached |-> Read(Reached[i])])
    BY DEF ReadAsWritten
  <2>. QED  BY ReadAtEnd
<1>. QED  BY <1>1, <1>2, <1>3, PTL DEF Spec

-----------------------------------------------------------------------------
\* Dates.  The calendar of the model goes by single days; DayOf gives the number
\* of a day at once.

\* Days of a year that is no leap year before each month, and the days that
\* MonthsBefore counts instead.
Before == <<0, 31, 59, 90, 120, 151, 181, 212, 243, 273, 304, 334>>

Counted == <<0, 28, 59, 89, 120, 150, 181, 212, 242, 273, 303, 334>>

DayOf(day, month, year) ==
    NewYear(year).days + Before[month]
    + (IF month > 2 /\ Leap(year) THEN 1 ELSE 0) + day - 1

\* The years that ddmmyyyy2time takes.
CalendarYear == {y \in Nat : y >= 1980}

LEMMA YearFacts ==
    ASSUME NEW y \in CalendarYear
    PROVE  y \in Nat /\ y >= 1980 /\ y >= 1970 /\ y + 1 \in CalendarYear
BY DEF CalendarYear

\* A day that there is, with its number.
Day(d) ==
    /\ d.year \in CalendarYear /\ d.month \in 1..12
    /\ d.day \in 1..Length(d.month, d.year)
    /\ d.days = DayOf(d.day, d.month, d.year)

\* A message is read in the year it is sent, or the next.
CalendarInv ==
    /\ Day(sent) /\ Day(now)
    /\ now.year = sent.year \/ now.year = sent.year + 1

\* Counting the years of a set.
Years1970(S, y) == {x \in 1970..(y - 1) : x \in S}

LEMMA CountStep ==
    ASSUME NEW S, NEW y \in Nat, y >= 1970
    PROVE  /\ Cardinality(Years1970(S, y)) \in Nat
           /\ Cardinality(Years1970(S, y + 1)) =
                 Cardinality(Years1970(S, y)) + (IF y \in S THEN 1 ELSE 0)
<1>1. IsFiniteSet(1970..(y - 1))
  BY FS_Interval
<1>2. IsFiniteSet(Years1970(S, y))
  BY <1>1, FS_Subset DEF Years1970
<1>3. y \in S => Years1970(S, y + 1) = Years1970(S, y) \union {y}
  BY DEF Years1970
<1>4. y \notin S => Years1970(S, y + 1) = Years1970(S, y)
  BY DEF Years1970
<1>5. y \notin Years1970(S, y)
  BY DEF Years1970
<1>6. Cardinality(Years1970(S, y)) \in Nat
  BY <1>2, FS_CardinalityType
<1>7. Cardinality(Years1970(S, y) \union {y}) = Cardinality(Years1970(S, y)) + 1
  BY <1>2, <1>5, FS_AddElement
<1>8. PICK n, k : n = Cardinality(Years1970(S, y)) /\ k = Cardinality(Years1970(S, y + 1))
  OBVIOUS
<1>9. y \in S => k = n + 1
  BY <1>3, <1>7, <1>8
<1>10. y \notin S => k = n
  BY <1>4, <1>8
<1>11. n \in Nat
  BY <1>6, <1>8
<1>12. k = n + (IF y \in S THEN 1 ELSE 0)
  BY <1>9, <1>10, <1>11
<1>. QED  BY <1>8, <1>11, <1>12

LEMMA CountNone ==
    ASSUME NEW S
    PROVE  Cardinality(Years1970(S, 1970)) = 0
<1>1. Years1970(S, 1970) = {}
  BY DEF Years1970
<1>. QED  BY <1>1, FS_EmptySet

LeapYears == {x \in Int : Leap(x)}

ExtraYears == {x \in Int : Extra(x)}

\* The first day of a year, and the next year.
LEMMA NewYears ==
    ASSUME NEW y \in Nat, y >= 1970
    PROVE  /\ NewYear(y).days \in Int
           /\ NewYear(y).days = 365 * (y - 1970) + Cardinality(Years1970(LeapYears, y))
           /\ NewYear(y + 1).days = NewYear(y).days + 365 + (IF Leap(y) THEN 1 ELSE 0)
<1>1. ASSUME NEW z \in Nat
      PROVE  NewYear(z).days = 365 * (z - 1970) + Cardinality(Years1970(LeapYears, z))
  <2>1. {x \in 1970..(z - 1) : Leap(x)} = Years1970(LeapYears, z)
    BY DEF Years1970, LeapYears
  <2>. QED  BY <2>1 DEF NewYear
<1>2. y \in LeapYears <=> Leap(y)
  BY DEF LeapYears
<1>3. /\ Cardinality(Years1970(LeapYears, y)) \in Nat
      /\ Cardinality(Years1970(LeapYears, y + 1)) =
            Cardinality(Years1970(LeapYears, y)) + (IF Leap(y) THEN 1 ELSE 0)
  BY <1>2, CountStep
<1>4. /\ NewYear(y).days = 365 * (y - 1970) + Cardinality(Years1970(LeapYears, y))
      /\ NewYear(y + 1).days = 365 * (y + 1 - 1970) + Cardinality(Years1970(LeapYears, y + 1))
  BY <1>1
<1>. QED  BY <1>3, <1>4

\* The leap days that ddmmyyyy2time counts are those of the calendar and the
\* extra ones.
LEMMA LeapDays ==
    ASSUME NEW y \in Nat, y >= 1970
    PROVE  Cardinality(Years1970(LeapYears, y)) + Cardinality(Years1970(ExtraYears, y))
           = (y - 1969) \div 4
<1> DEFINE L(z) == Cardinality(Years1970(LeapYears, z))
           E(z) == Cardinality(Years1970(ExtraYears, z))
           Bad == {z \in Nat : z >= 1970 /\ L(z) + E(z) # (z - 1969) \div 4}
<1> SUFFICES ASSUME Bad # {} PROVE FALSE
  OBVIOUS
<1> HIDE DEF L, E
<1>a. Bad \in SUBSET Nat
  OBVIOUS
<1>b. \A x : x \in Bad <=> x \in Nat /\ x >= 1970 /\ L(x) + E(x) # (x - 1969) \div 4
  OBVIOUS
<1> HIDE DEF Bad
<1>1. PICK z \in Bad : \A x \in Bad : z <= x
  BY <1>a, LeastElement
<1>2. z \in Nat /\ z >= 1970 /\ L(z) + E(z) # (z - 1969) \div 4
  BY <1>b
<1>3. CASE z = 1970
  <2>1. L(z) = 0 /\ E(z) = 0
    BY <1>3, CountNone DEF L, E
  <2>2. (z - 1969) \div 4 = 0
    BY <1>3
  <2>. QED  BY <1>2, <2>1, <2>2
<1>4. CASE z > 1970
  <2>1. PICK w \in Nat : w >= 1970 /\ z = w + 1
    <3>1. z - 1 \in Nat /\ z - 1 >= 1970 /\ z = (z - 1) + 1
      BY <1>2, <1>4
    <3>. QED  BY <3>1
  <2>2. w \notin Bad
    BY <1>1, <1>2, <2>1
  <2>3. L(w) + E(w) = (w - 1969) \div 4
    BY <1>b, <2>1, <2>2
  <2>4. w \in LeapYears <=> w % 4 = 0 /\ (w % 100 # 0 \/ w % 400 = 0)
    BY DEF LeapYears, Leap
  <2>5. w \in ExtraYears <=> w % 100 = 0 /\ w % 400 # 0
    BY DEF ExtraYears, Extra
  <2>6. /\ L(w) \in Nat /\ L(w + 1) = L(w) + (IF w \in LeapYears THEN 1 ELSE 0)
        /\ E(w) \in Nat /\ E(w + 1) = E(w) + (IF w \in ExtraYears THEN 1 ELSE 0)
    BY <2>1, CountStep DEF L, E
  <2>7. w % 100 = 0 => w % 4 = 0
    BY <2>1
  <2>8. w % 400 = 0 => w % 100 = 0
    BY <2>1
  <2>9. L(w + 1) + E(w + 1) = L(w) + E(w) + (IF w % 4 = 0 THEN 1 ELSE 0)
    BY <2>4, <2>5, <2>6, <2>7, <2>8
  <2>10. (w + 1 - 1969) \div 4 = ((w - 1969) \div 4) + (IF w % 4 = 0 THEN 1 ELSE 0)
    BY <2>1
  <2>. QED  BY <1>2, <2>1, <2>3, <2>9, <2>10
<1>. QED  BY <1>2, <1>3, <1>4

LEMMA CountedFacts ==
    ASSUME NEW m \in 1..12
    PROVE  MonthsBefore(m) = Counted[m]
<1> DEFINE Sums(f) == f = [n \in 1..12 |->
                             IF n = 1 THEN 0 ELSE f[n - 1] + getMonthLen(n - 1)]
           known == [n \in 1..12 |-> Counted[n]]
           sum == CHOOSE f : Sums(f)
<1>1. /\ getMonthLen(1) = 28 /\ getMonthLen(2) = 31 /\ getMonthLen(3) = 30
      /\ getMonthLen(4) = 31 /\ getMonthLen(5) = 30 /\ getMonthLen(6) = 31
      /\ getMonthLen(7) = 31 /\ getMonthLen(8) = 30 /\ getMonthLen(9) = 31
      /\ getMonthLen(10) = 30 /\ getMonthLen(11) = 31
  BY DEF getMonthLen, monSize
<1>2. /\ Counted[1] = 0 /\ Counted[2] = 28 /\ Counted[3] = 59 /\ Counted[4] = 89
      /\ Counted[5] = 120 /\ Counted[6] = 150 /\ Counted[7] = 181
      /\ Counted[8] = 212 /\ Counted[9] = 242 /\ Counted[10] = 273
      /\ Counted[11] = 303 /\ Counted[12] = 334
  BY DEF Counted
<1>3. ASSUME NEW n \in 1..12
      PROVE  Counted[n] = IF n = 1 THEN 0 ELSE Counted[n - 1] + getMonthLen(n - 1)
  <2>1. \/ n = 1 \/ n = 2 \/ n = 3 \/ n = 4 \/ n = 5 \/ n = 6
        \/ n = 7 \/ n = 8 \/ n = 9 \/ n = 10 \/ n = 11 \/ n = 12
    OBVIOUS
  <2>. QED  BY <1>1, <1>2, <2>1
<1>4. Sums(known)
  <2>1. \A n \in 1..12 : n # 1 => n - 1 \in 1..12
    OBVIOUS
  <2>. QED  BY <1>3, <2>1
<1>5. Sums(sum)
  BY <1>4, Zenon
<1>6. MonthsBefore(m) = sum[m]
  BY DEF MonthsBefore
<1> HIDE DEF sum
<1>7. \A n \in 1..12 : sum[n] = IF n = 1 THEN 0 ELSE sum[n - 1] + getMonthLen(n - 1)
  BY <1>5, Zenon
<1>8. sum[1] = 0 /\ \A n \in 2..12 : sum[n] = sum[n - 1] + getMonthLen(n - 1)
  BY <1>7
<1>9. /\ sum[2] = 28 /\ sum[3] = 59 /\ sum[4] = 89 /\ sum[5] = 120
      /\ sum[6] = 150 /\ sum[7] = 181 /\ sum[8] = 212 /\ sum[9] = 242
      /\ sum[10] = 273 /\ sum[11] = 303 /\ sum[12] = 334
  <2>1. /\ sum[2] = sum[1] + getMonthLen(1) /\ sum[3] = sum[2] + getMonthLen(2)
        /\ sum[4] = sum[3] + getMonthLen(3) /\ sum[5] = sum[4] + getMonthLen(4)
        /\ sum[6] = sum[5] + getMonthLen(5) /\ sum[7] = sum[6] + getMonthLen(6)
        /\ sum[8] = sum[7] + getMonthLen(7) /\ sum[9] = sum[8] + getMonthLen(8)
        /\ sum[10] = sum[9] + getMonthLen(9) /\ sum[11] = sum[10] + getMonthLen(10)
        /\ sum[12] = sum[11] + getMonthLen(11)
    BY <1>8
  <2>. QED  BY <1>1, <1>8, <2>1
<1>10. \/ m = 1 \/ m = 2 \/ m = 3 \/ m = 4 \/ m = 5 \/ m = 6
       \/ m = 7 \/ m = 8 \/ m = 9 \/ m = 10 \/ m = 11 \/ m = 12
  OBVIOUS
<1>. QED  BY <1>2, <1>6, <1>8, <1>9, <1>10
LEMMA MonthFacts ==
    ASSUME NEW m \in 1..12, NEW y \in Nat
    PROVE  /\ Before[m] \in Nat /\ Counted[m] = Before[m] + Length(m, 2001) - 31
           /\ Counted[m] \in Nat
           /\ Length(m, y) \in 28..31
           /\ m < 12 => Before[m + 1] = Before[m] + Length(m, 2001)
           /\ Length(m, y) = Length(m, 2001) + (IF m = 2 /\ Leap(y) THEN 1 ELSE 0)
           /\ Before[1] = 0 /\ Before[12] = 334 /\ Length(12, y) = 31
<1>1. \/ m = 1 \/ m = 2 \/ m = 3 \/ m = 4 \/ m = 5 \/ m = 6
      \/ m = 7 \/ m = 8 \/ m = 9 \/ m = 10 \/ m = 11 \/ m = 12
  OBVIOUS
<1>2. /\ Before[1] = 0 /\ Before[2] = 31 /\ Before[3] = 59 /\ Before[4] = 90
      /\ Before[5] = 120 /\ Before[6] = 151 /\ Before[7] = 181
      /\ Before[8] = 212 /\ Before[9] = 243 /\ Before[10] = 273
      /\ Before[11] = 304 /\ Before[12] = 334
  BY DEF Before
<1>3. /\ Counted[1] = 0 /\ Counted[2] = 28 /\ Counted[3] = 59 /\ Counted[4] = 89
      /\ Counted[5] = 120 /\ Counted[6] = 150 /\ Counted[7] = 181
      /\ Counted[8] = 212 /\ Counted[9] = 242 /\ Counted[10] = 273
      /\ Counted[11] = 303 /\ Counted[12] = 334
  BY DEF Counted
<1>4. ~Leap(2001)
  BY DEF Leap
<1>5. /\ Length(1, 2001) = 31 /\ Length(2, 2001) = 28 /\ Length(3, 2001) = 31
      /\ Length(4, 2001) = 30 /\ Length(5, 2001) = 31 /\ Length(6, 2001) = 30
      /\ Length(7, 2001) = 31 /\ Length(8, 2001) = 31 /\ Length(9, 2001) = 30
      /\ Length(10, 2001) = 31 /\ Length(11, 2001) = 30 /\ Length(12, 2001) = 31
  BY <1>4 DEF Length
<1>6. Length(m, y) = Length(m, 2001) + (IF m = 2 /\ Leap(y) THEN 1 ELSE 0)
  BY <1>4 DEF Length
<1>7. Length(12, y) = 31
  BY DEF Length
<1>8. Before[m] \in Nat /\ Counted[m] \in Nat
      /\ Counted[m] = Before[m] + Length(m, 2001) - 31
  BY <1>1, <1>2, <1>3, <1>5
<1>9. m < 12 => Before[m + 1] = Before[m] + Length(m, 2001)
  BY <1>1, <1>2, <1>5
<1>10. Length(m, y) \in 28..31
  BY <1>1, <1>5, <1>6
<1>. QED  BY <1>2, <1>6, <1>7, <1>8, <1>9, <1>10

LEMMA LengthFacts ==
    ASSUME NEW m \in 1..12, NEW y \in Nat
    PROVE  /\ Length(m, y) \in 28..31
           /\ Length(m, y) = Length(m, 2001) + (IF m = 2 /\ Leap(y) THEN 1 ELSE 0)
BY MonthFacts

LEMMA BeforeFacts ==
    ASSUME NEW m \in 1..12
    PROVE  /\ Before[m] \in Nat /\ Counted[m] \in Nat
           /\ Counted[m] = Before[m] + Length(m, 2001) - 31
           /\ m < 12 => Before[m + 1] = Before[m] + Length(m, 2001)
<1>1. 1 \in Nat
  OBVIOUS
<1>. QED  BY <1>1, MonthFacts

LEMMA FirstAndLast ==
    /\ Before[1] = 0 /\ Before[12] = 334
    /\ Length(12, 2001) = 31 /\ \A y : Length(12, y) = 31
BY DEF Before, Length

\* How ddmmyyyy2time counts to a date: a leap day in every fourth year.
Fourth(month, year) == IF month > 2 /\ year % 4 = 0 THEN 1 ELSE 0

CountedTo(day, month, year) ==
    365 * (year - 1970) + (year - 1969) \div 4 + Counted[month]
    + Fourth(month, year) + day - 1

LEMMA TimeOfDate ==
    ASSUME NEW day \in 1..31, NEW month \in 1..12, NEW year \in CalendarYear
    PROVE  /\ ddmmyyyy2time(day, month, year) =
                 [days |-> CountedTo(day, month, year), secs |-> 0]
           /\ CountedTo(day, month, year) \in Int
           /\ CountedTo(day, month, year) > 0
<1>0. year \in Nat /\ year >= 1980
  BY YearFacts
<1>1. MonthsBefore(month) = Counted[month] /\ Counted[month] \in Nat
  BY CountedFacts, BeforeFacts
<1>2. (year - 1969) \div 4 = (year - 1973) \div 4 + 1
  BY <1>0
<1>3. (year - 1969) \div 4 \in Int /\ (year - 1969) \div 4 >= 0
  BY <1>0
<1>4. PICK q \in Nat : q = (year - 1969) \div 4
  BY <1>3
<1>5. (year - 1973) \div 4 = q - 1
  BY <1>0, <1>2, <1>4
<1>6. PICK i \in {0, 1} : i = Fourth(month, year)
  BY DEF Fourth
<1>7. PICK n \in Nat : n = Counted[month]
  BY <1>1
<1>8. CountedTo(day, month, year) = 365 * (year - 1970) + q + n + i + day - 1
  BY <1>4, <1>6, <1>7 DEF CountedTo
<1>9. ddmmyyyy2time(day, month, year) =
          [days |-> (year - 1970) * 365 + (year - 1973) \div 4 + 1
                    + MonthsBefore(month) + Fourth(month, year) + day - 1,
           secs |-> 0]
  BY <1>0 DEF ddmmyyyy2time, Fourth
<1>10. (year - 1970) * 365 + (year - 1973) \div 4 + 1
       + MonthsBefore(month) + Fourth(month, year) + day - 1
       = (year - 1970) * 365 + (q - 1) + 1 + n + i + day - 1
  BY <1>1, <1>5, <1>6, <1>7
<1>11. (year - 1970) * 365 + (q - 1) + 1 + n + i + day - 1
       = 365 * (year - 1970) + q + n + i + day - 1
  BY <1>0
<1>12. 365 * (year - 1970) + q + n + i + day - 1 > 0
  BY <1>0
<1>13. 365 * (year - 1970) + q + n + i + day - 1 \in Int
  BY <1>0
<1>. QED  BY <1>8, <1>9, <1>10, <1>11, <1>12, <1>13

LEMMA DayFacts ==
    ASSUME NEW d, Day(d)
    PROVE  /\ d.day \in 1..31 /\ d.month \in 1..12 /\ d.year \in CalendarYear
           /\ d.days \in Int /\ NewYear(d.year).days \in Int
           /\ d.days >= NewYear(d.year).days
           /\ d.days < NewYear(d.year + 1).days
<1>1. d.month \in 1..12 /\ d.year \in CalendarYear /\ d.day \in 1..Length(d.month, d.year)
      /\ d.days = DayOf(d.day, d.month, d.year)
  BY DEF Day
<1>a. PICK m \in 1..12 : m = d.month
  BY <1>1
<1>b. PICK y \in CalendarYear : y = d.year
  BY <1>1
<1>2. m = d.month /\ y = d.year /\ y \in Nat /\ y >= 1970
  BY <1>a, <1>b, YearFacts
<1>3. y \in Nat /\ y >= 1970
  BY YearFacts
<1>4. /\ NewYear(y).days \in Int
      /\ NewYear(y + 1).days = NewYear(y).days + 365 + (IF Leap(y) THEN 1 ELSE 0)
  BY <1>3, NewYears
<1>5. Length(m, y) \in 28..31 /\ d.day \in 1..31
  <2>1. Length(m, y) \in 28..31
    BY <1>3, LengthFacts
  <2>2. d.day \in 1..Length(m, y)
    BY <1>1, <1>2
  <2>. QED  BY <2>1, <2>2
<1>6. d.days = NewYear(y).days + Before[m] + (IF m > 2 /\ Leap(y) THEN 1 ELSE 0)
               + d.day - 1
  BY <1>1, <1>2 DEF DayOf
<1>7. Before[m] \in Nat
  BY <1>3, LengthFacts, BeforeFacts, FirstAndLast
<1>8. Before[m] + (IF m > 2 /\ Leap(y) THEN 1 ELSE 0) + d.day
      <= 365 + (IF Leap(y) THEN 1 ELSE 0)
  <2>1. m < 12 => Before[m] + Length(m, 2001) <= 334
    <3>1. m < 12 => Before[m + 1] = Before[m] + Length(m, 2001)
      BY <1>3, LengthFacts, BeforeFacts, FirstAndLast
    <3>2. \A n \in 1..12 : Before[n] <= 334
      BY DEF Before
    <3>. QED  BY <3>1, <3>2
  <2>2. d.day <= Length(m, 2001) + (IF m = 2 /\ Leap(y) THEN 1 ELSE 0)
    BY <1>1, <1>2, <1>3, LengthFacts, BeforeFacts, FirstAndLast
  <2>3. Length(m, 2001) \in 28..31
    <3>1. 2001 \in Nat
      OBVIOUS
    <3>. QED  BY <3>1, LengthFacts
  <2>4. m = 12 => Before[m] = 334 /\ Length(m, 2001) = 31
    BY LengthFacts, BeforeFacts, FirstAndLast
  <2>. QED  BY <1>5, <1>7, <2>1, <2>2, <2>3, <2>4
<1>9. d.day \in Int /\ (IF m > 2 /\ Leap(y) THEN 1 ELSE 0) \in {0, 1}
  BY <1>5
<1>. QED  BY <1>1, <1>2, <1>4, <1>5, <1>6, <1>7, <1>8, <1>9
LEMMA NewYearIsADay ==
    ASSUME NEW y \in CalendarYear
    PROVE  Day(NewYear(y))
<1>0. y \in Nat /\ y >= 1970
  BY YearFacts
<1>1. NewYear(y).days \in Int
  BY <1>0, NewYears
<1>2. /\ NewYear(y).day = 1 /\ NewYear(y).month = 1 /\ NewYear(y).year = y
  BY DEF NewYear
<1>3. Length(1, y) \in 28..31 /\ Before[1] = 0
  BY <1>0, LengthFacts, FirstAndLast
<1>4. DayOf(1, 1, y) = NewYear(y).days
  BY <1>1, <1>3 DEF DayOf
<1>. QED  BY <1>2, <1>3, <1>4 DEF Day

\* The day after a day is one, unless the years end.  It is in the same year, or
\* the first of the next.
LEMMA NextDayIsADay ==
    ASSUME NEW d, Day(d), NextDay(d).year \in Years
    PROVE  /\ Day(NextDay(d))
           /\ \/ NextDay(d).year = d.year
              \/ /\ NextDay(d).year = d.year + 1
                 /\ d.days + 1 = NewYear(d.year + 1).days
<1>1. /\ d.month \in 1..12 /\ d.year \in CalendarYear
      /\ d.day \in 1..Length(d.month, d.year) /\ d.days = DayOf(d.day, d.month, d.year)
  BY DEF Day
<1>a. PICK m \in 1..12 : m = d.month
  BY <1>1
<1>b. PICK y \in CalendarYear : y = d.year
  BY <1>1
<1>2. m = d.month /\ y = d.year /\ y \in Nat /\ y >= 1970
  BY <1>a, <1>b, YearFacts
<1>3. /\ NewYear(y).days \in Int
      /\ NewYear(y + 1).days = NewYear(y).days + 365 + (IF Leap(y) THEN 1 ELSE 0)
  BY <1>2, NewYears
<1>4. Length(m, y) \in 28..31 /\ d.day \in 1..Length(m, y)
  <2>1. Length(m, y) \in 28..31
    BY <1>2, LengthFacts
  <2>. QED  BY <1>1, <1>2, <2>1
<1>5. PICK day \in 1..31 : day = d.day
  BY <1>4
<1>6. d.days = NewYear(y).days + Before[m] + (IF m > 2 /\ Leap(y) THEN 1 ELSE 0)
               + day - 1
  BY <1>1, <1>2, <1>5 DEF DayOf
<1>7. Before[m] \in Nat
  BY LengthFacts, BeforeFacts, FirstAndLast
<1>8. /\ NextDay(d).days = d.days + 1
      /\ NextDay(d).day = IF day < Length(m, y) THEN day + 1 ELSE 1
      /\ NextDay(d).month = IF day < Length(m, y) THEN m ELSE (m % 12) + 1
      /\ NextDay(d).year = IF day = 31 /\ m = 12 THEN y + 1 ELSE y
  BY <1>2, <1>5 DEF NextDay
<1>9. CASE day < Length(m, y)
  <2>1. /\ NextDay(d).day = day + 1 /\ NextDay(d).month = m /\ NextDay(d).year = y
    <3>1. m = 12 => Length(m, y) = 31
      BY FirstAndLast
    <3>. QED  BY <1>8, <1>9, <3>1
  <2>2. DayOf(day + 1, m, y) = d.days + 1
    BY <1>3, <1>6, <1>7 DEF DayOf
  <2>3. day + 1 \in 1..Length(m, y)
    BY <1>4, <1>9
  <2>. QED  BY <1>2, <1>8, <2>1, <2>2, <2>3 DEF Day
<1>10. CASE day >= Length(m, y) /\ m < 12
  <2>1. day = Length(m, y)
    BY <1>4, <1>5, <1>10
  <2>2. NextDay(d).day = 1 /\ NextDay(d).month = m + 1 /\ NextDay(d).year = y
    <3>1. (m % 12) + 1 = m + 1
      BY <1>10
    <3>. QED  BY <1>4, <1>8, <1>10, <3>1
  <2>3. /\ Before[m + 1] = Before[m] + Length(m, 2001)
        /\ Length(m, y) = Length(m, 2001) + (IF m = 2 /\ Leap(y) THEN 1 ELSE 0)
        /\ Length(m, 2001) \in 28..31
    <3>1. Before[m + 1] = Before[m] + Length(m, 2001)
      BY <1>10, BeforeFacts
    <3>2. Length(m, y) = Length(m, 2001) + (IF m = 2 /\ Leap(y) THEN 1 ELSE 0)
      BY <1>2, LengthFacts
    <3>3. 2001 \in Nat
      OBVIOUS
    <3>4. Length(m, 2001) \in 28..31
      BY <3>3, LengthFacts
    <3>. QED  BY <3>1, <3>2, <3>4
  <2>4. DayOf(1, m + 1, y) = d.days + 1
    BY <1>3, <1>6, <1>7, <2>1, <2>3 DEF DayOf
  <2>5. m + 1 \in 1..12 /\ 1 \in 1..Length(m + 1, y)
    <3>1. m + 1 \in 1..12
      BY <1>10
    <3>2. Length(m + 1, y) \in 28..31
      BY <1>2, <3>1, LengthFacts
    <3>. QED  BY <3>1, <3>2
  <2>. QED  BY <1>2, <1>8, <2>2, <2>4, <2>5 DEF Day
<1>11. CASE day >= Length(m, y) /\ m = 12
  <2>1. Length(m, y) = 31 /\ Before[m] = 334 /\ day = 31
    <3>1. Length(m, y) = 31 /\ Before[m] = 334
      BY <1>11, FirstAndLast
    <3>. QED  BY <1>11, <3>1
  <2>2. NextDay(d).day = 1 /\ NextDay(d).month = 1 /\ NextDay(d).year = y + 1
    <3>1. (m % 12) + 1 = 1
      BY <1>11
    <3>. QED  BY <1>8, <1>11, <2>1, <3>1
  <2>3. d.days + 1 = NewYear(y + 1).days
    BY <1>3, <1>6, <1>11, <2>1
  <2>4. y + 1 \in CalendarYear
    BY YearFacts
  <2>5. Day(NewYear(y + 1))
    BY <2>4, NewYearIsADay
  <2>6. /\ NewYear(y + 1).day = 1 /\ NewYear(y + 1).month = 1
        /\ NewYear(y + 1).year = y + 1
    BY DEF NewYear
  <2>7. NextDay(d).days = NewYear(y + 1).days
    BY <1>8, <2>3
  <2>8. Day(NextDay(d))
    BY <2>2, <2>5, <2>6, <2>7 DEF Day
  <2>. QED  BY <1>2, <2>2, <2>3, <2>8
<1>. QED  BY <1>4, <1>9, <1>10, <1>11

LEMMA CalendarInvariant == CalendarSpec => []CalendarInv
<1>1. CalendarInit => CalendarInv
  <2> SUFFICES ASSUME NEW y \in Years, sent = NewYear(y), now = NewYear(y)
               PROVE  CalendarInv
    BY DEF CalendarInit
  <2>1. y \in CalendarYear
    BY YearAssumption DEF CalendarYear
  <2>2. Day(NewYear(y))
    BY <2>1, NewYearIsADay
  <2>. QED  BY <2>2 DEF CalendarInv, Day
<1>2. CalendarInv /\ [CalendarNext]_calendarVars => CalendarInv'
  <2> SUFFICES ASSUME CalendarInv, [CalendarNext]_calendarVars PROVE CalendarInv'
    OBVIOUS
  <2>1. CASE Send
    BY <2>1 DEF Send, CalendarInv, Day
  <2>2. CASE Tomorrow
    <3>1. /\ sent' = sent /\ now' = NextDay(now) /\ NextDay(now).year \in Years
          /\ now.days - sent.days < MaxDelay
      BY <2>2 DEF Tomorrow
    <3>2. PICK s, n : s = sent /\ n = now
      OBVIOUS
    <3>3. Day(s) /\ Day(n) /\ (n.year = s.year \/ n.year = s.year + 1)
      BY <3>2 DEF CalendarInv
    <3>4. /\ Day(NextDay(n))
          /\ \/ NextDay(n).year = n.year
             \/ NextDay(n).year = n.year + 1 /\ n.days + 1 = NewYear(n.year + 1).days
      BY <3>1, <3>2, <3>3, NextDayIsADay
    <3>5. n.year = s.year + 1 => NextDay(n).year = n.year
      <4> SUFFICES ASSUME n.year = s.year + 1, NextDay(n).year # n.year PROVE FALSE
        OBVIOUS
      <4>1. n.days + 1 = NewYear(n.year + 1).days
        BY <3>4
      <4>2. /\ s.days \in Int /\ s.year \in CalendarYear /\ n.year \in CalendarYear
            /\ s.days < NewYear(n.year).days /\ n.days \in Int
        BY <3>3, DayFacts
      <4>3. /\ NewYear(n.year).days \in Int
            /\ NewYear(n.year + 1).days >= NewYear(n.year).days + 365
        <5>1. PICK w \in CalendarYear : w = n.year
          BY <4>2
        <5>2. w \in Nat /\ w >= 1970
          BY YearFacts
        <5>3. /\ NewYear(w).days \in Int
              /\ NewYear(w + 1).days = NewYear(w).days + 365 + (IF Leap(w) THEN 1 ELSE 0)
          BY <5>2, NewYears
        <5>4. NewYear(w + 1).days >= NewYear(w).days + 365
          BY <5>3
        <5>. QED  BY <5>1, <5>3, <5>4
      <4>4. n.days - s.days < MaxDelay /\ MaxDelay \in 0..365
        BY <3>1, <3>2, DelayAssumption
      <4>. QED  BY <4>1, <4>2, <4>3, <4>4
    <3>6. NextDay(n).year = s.year \/ NextDay(n).year = s.year + 1
      BY <3>3, <3>4, <3>5
    <3>7. sent' = s /\ now' = NextDay(n)
      BY <3>1, <3>2
    <3>. QED  BY <3>3, <3>4, <3>6, <3>7 DEF CalendarInv, Day
  <2>3. CASE UNCHANGED calendarVars
    BY <2>3 DEF calendarVars, CalendarInv, Day
  <2>. QED  BY <2>1, <2>2, <2>3 DEF CalendarNext
<1>. QED  BY <1>1, <1>2, PTL DEF CalendarSpec

LEMMA DateOff ==
    ASSUME NEW d, Day(d)
    PROVE  /\ CountedTo(d.day, d.month, d.year) = d.days + Off(d)
           /\ d.days + Off(d) \in Int
<1>1. /\ d.day \in 1..31 /\ d.month \in 1..12 /\ d.year \in CalendarYear
      /\ d.days = DayOf(d.day, d.month, d.year)
  BY DayFacts DEF Day
<1>a. PICK m \in 1..12 : m = d.month
  BY <1>1
<1>b. PICK y \in CalendarYear : y = d.year
  BY <1>1
<1>c. PICK day \in 1..31 : day = d.day
  BY <1>1
<1>2. day = d.day /\ m = d.month /\ y = d.year /\ y \in Nat /\ y >= 1970
  BY <1>a, <1>b, <1>c, YearFacts
<1>3. PICK L \in Nat : L = Cardinality(Years1970(LeapYears, y))
  BY <1>2, CountStep
<1>4. PICK E \in Nat : E = Cardinality(Years1970(ExtraYears, y))
  BY <1>2, CountStep
<1>5. (y - 1969) \div 4 = L + E
  BY <1>2, <1>3, <1>4, LeapDays
<1>6. NewYear(y).days = 365 * (y - 1970) + L
  BY <1>2, <1>3, NewYears
<1>7. PICK i \in {0, 1} : i = IF m > 2 /\ Leap(y) THEN 1 ELSE 0
  OBVIOUS
<1>8. PICK j \in {0, 1} : j = IF m > 2 /\ Extra(y) THEN 1 ELSE 0
  OBVIOUS
<1>9. Fourth(m, y) = i + j
  <2>1. y % 100 = 0 => y % 4 = 0
    BY <1>2
  <2>2. y % 400 = 0 => y % 100 = 0
    BY <1>2
  <2>. QED  BY <1>7, <1>8, <2>1, <2>2 DEF Leap, Extra, Fourth
<1>10. PICK n \in Nat : n = Before[m]
  BY BeforeFacts
<1>11. PICK l \in Int : l = Length(m, 2001)
  <2>1. 2001 \in Nat
    OBVIOUS
  <2>2. Length(m, 2001) \in 28..31
    BY <2>1, LengthFacts
  <2>. QED  BY <2>2
<1>12. Off(d) = l - 31 + E + j
  <2>1. {x \in 1970..(y - 1) : Extra(x)} = Years1970(ExtraYears, y)
    BY DEF Years1970, ExtraYears
  <2>2. Off(d) = Length(m, 2001) - 31 + Cardinality({x \in 1970..(y - 1) : Extra(x)})
                 + (IF m > 2 /\ Extra(y) THEN 1 ELSE 0)
    BY <1>2 DEF Off
  <2>. QED  BY <1>4, <1>8, <1>11, <2>1, <2>2
<1>13. Counted[m] = n + l - 31
  BY <1>10, <1>11, BeforeFacts
<1>14. d.days = 365 * (y - 1970) + L + n + i + day - 1
  BY <1>1, <1>2, <1>6, <1>7, <1>10 DEF DayOf
<1>15. CountedTo(day, m, y) = 365 * (y - 1970) + (L + E) + (n + l - 31) + (i + j) + day - 1
  BY <1>5, <1>9, <1>13 DEF CountedTo
<1>16. 365 * (y - 1970) + (L + E) + (n + l - 31) + (i + j) + day - 1
       = (365 * (y - 1970) + L + n + i + day - 1) + (l - 31 + E + j)
  BY <1>2
<1>17. (365 * (y - 1970) + L + n + i + day - 1) + (l - 31 + E + j) \in Int
  BY <1>2
<1>. QED  BY <1>2, <1>12, <1>14, <1>15, <1>16, <1>17

\* The same date a year later.
LEMMA YearLater ==
    ASSUME NEW day \in 1..31, NEW m \in 1..12, NEW y \in CalendarYear,
           NEW z, z = y + 1
    PROVE  CountedTo(day, m, z) =
               CountedTo(day, m, y) + YearLength(IF m > 2 THEN z ELSE y)
<1>0. y \in Nat /\ y >= 1980
  BY YearFacts
<1>1. PICK i \in {0, 1} : i = IF y % 4 = 0 THEN 1 ELSE 0
  OBVIOUS
<1>2. PICK j \in {0, 1} : j = IF z % 4 = 0 THEN 1 ELSE 0
  OBVIOUS
<1>3. PICK q \in Int : q = (y - 1969) \div 4
  BY <1>0
<1>4. (z - 1969) \div 4 = q + i
  BY <1>0, <1>1, <1>3
<1>5. PICK n \in Nat : n = Counted[m]
  BY BeforeFacts
<1>6. Fourth(m, y) = (IF m > 2 THEN i ELSE 0) /\ Fourth(m, z) = (IF m > 2 THEN j ELSE 0)
  BY <1>1, <1>2 DEF Fourth
<1>7. YearLength(IF m > 2 THEN z ELSE y) = 365 + (IF m > 2 THEN j ELSE i)
  BY <1>1, <1>2 DEF YearLength
<1>8. CASE m > 2
  <2>1. CountedTo(day, m, y) = 365 * (y - 1970) + q + n + i + day - 1
    BY <1>3, <1>5, <1>6, <1>8 DEF CountedTo
  <2>2. CountedTo(day, m, z) = 365 * (y + 1 - 1970) + (q + i) + n + j + day - 1
    <3>1. Fourth(m, z) = j
      BY <1>6, <1>8
    <3>. QED  BY <1>0, <1>4, <1>5, <3>1 DEF CountedTo
  <2>3. YearLength(IF m > 2 THEN z ELSE y) = 365 + j
    BY <1>7, <1>8
  <2>4. 365 * (y + 1 - 1970) + (q + i) + n + j + day - 1
        = (365 * (y - 1970) + q + n + i + day - 1) + (365 + j)
    BY <1>0
  <2>. QED  BY <2>1, <2>2, <2>3, <2>4
<1>9. CASE ~(m > 2)
  <2>1. CountedTo(day, m, y) = 365 * (y - 1970) + q + n + 0 + day - 1
    BY <1>3, <1>5, <1>6, <1>9 DEF CountedTo
  <2>2. CountedTo(day, m, z) = 365 * (y + 1 - 1970) + (q + i) + n + 0 + day - 1
    <3>1. Fourth(m, z) = 0
      BY <1>6, <1>9
    <3>. QED  BY <1>0, <1>4, <1>5, <3>1 DEF CountedTo
  <2>3. YearLength(IF m > 2 THEN z ELSE y) = 365 + i
    BY <1>7, <1>9
  <2>4. 365 * (y + 1 - 1970) + (q + i) + n + 0 + day - 1
        = (365 * (y - 1970) + q + n + 0 + day - 1) + (365 + i)
    BY <1>0
  <2>. QED  BY <2>1, <2>2, <2>3, <2>4
<1>. QED  BY <1>8, <1>9

LEMMA StampOfDay ==
    ASSUME CalendarInv, NEW c \in Clock
    PROVE  LET t == extractUtc(Stamp(c), now.year) IN
           \/ t = [days |-> sent.days + Off(sent) + Gained,
                   secs |-> IF Possible(c) THEN Seconds(c) ELSE -1]
              /\ sent.days + Off(sent) + Gained > 0
           \/ t = NoTime /\ (sent.day > 28 \/ sent.month = 12)
<1>0. /\ sent.day \in 1..31 /\ sent.month \in 1..12
      /\ sent.year \in CalendarYear /\ now.year \in CalendarYear
      /\ now.year = sent.year \/ now.year = sent.year + 1
  BY DayFacts DEF CalendarInv
<1>a. PICK day \in 1..31 : day = sent.day
  BY <1>0
<1>b. PICK m \in 1..12 : m = sent.month
  BY <1>0
<1>c. PICK y \in CalendarYear : y = sent.year
  BY <1>0
<1>d. PICK z \in CalendarYear : z = now.year
  BY <1>0
<1>1. /\ day = sent.day /\ m = sent.month /\ y = sent.year /\ z = now.year
      /\ z = y \/ z = y + 1
  BY <1>0, <1>a, <1>b, <1>c, <1>d
<1>2. /\ Stamp(c).day = day /\ Stamp(c).month = m /\ Stamp(c).clock = c
  BY <1>1 DEF Stamp
<1>3. CASE day \notin 1..getMonthLen(m)
  <2>1. extractUtc(Stamp(c), z) = NoTime
    BY <1>2, <1>3 DEF extractUtc
  <2>2. m # 12 => getMonthLen(m) \in 28..31
    <3>1. m # 12 => \/ m = 1 \/ m = 2 \/ m = 3 \/ m = 4 \/ m = 5 \/ m = 6
                    \/ m = 7 \/ m = 8 \/ m = 9 \/ m = 10 \/ m = 11
      OBVIOUS
    <3>. QED  BY <3>1 DEF getMonthLen, monSize
  <2>3. day > 28 \/ m = 12
    BY <1>3, <2>2
  <2>. QED  BY <1>1, <2>1, <2>3
<1>4. CASE day \in 1..getMonthLen(m)
  <2>1. extractUtc(Stamp(c), z) = Plus(ddmmyyyy2time(day, m, z), hhmmss2time(c))
    BY <1>2, <1>4 DEF extractUtc
  <2>2. ddmmyyyy2time(day, m, z) = [days |-> CountedTo(day, m, z), secs |-> 0]
        /\ CountedTo(day, m, z) > 0
    BY TimeOfDate
  <2>3. hhmmss2time(c) = (IF Possible(c) THEN Seconds(c) ELSE -1)
        /\ hhmmss2time(c) \in Int
    <3>1. c.hr \in Int /\ c.min \in Int /\ c.sec \in Int
      BY ClockAssumption
    <3>2. Seconds(c) \in Int
      BY <3>1 DEF Seconds
    <3>. QED  BY <3>2 DEF hhmmss2time
  <2>4. \A e, h : h \in Int => Plus([days |-> e, secs |-> 0], h) = [days |-> e, secs |-> h]
    BY DEF Plus
  <2>5. extractUtc(Stamp(c), z) = [days |-> CountedTo(day, m, z), secs |-> hhmmss2time(c)]
    BY <2>1, <2>2, <2>3, <2>4
  <2>6. CountedTo(day, m, z) = sent.days + Off(sent) + Gained
    <3>1. CountedTo(day, m, y) = sent.days + Off(sent) /\ sent.days + Off(sent) \in Int
      BY <1>1, DateOff DEF CalendarInv
    <3>2. CASE z = y
      <4>1. Gained = 0
        BY <1>1, <3>2 DEF Gained
      <4>. QED  BY <3>1, <3>2, <4>1
    <3>3. CASE z = y + 1
      <4>1. y # y + 1
        BY YearFacts
      <4>2. Gained = YearLength(IF m > 2 THEN z ELSE y)
        BY <1>1, <3>3, <4>1, Zenon DEF Gained
      <4>3. CountedTo(day, m, z) = CountedTo(day, m, y) + YearLength(IF m > 2 THEN z ELSE y)
        BY <3>3, YearLater
      <4>. QED  BY <3>1, <4>2, <4>3
    <3>. QED  BY <1>1, <3>2, <3>3
  <2>. QED  BY <1>1, <2>2, <2>3, <2>5, <2>6
<1>. QED  BY <1>3, <1>4

\* The date fields of a sentence become the day they name, or one up to three days
\* before, and always as many days in a month, but for the 29th of February of
\* years like 2100 that ddmmyyyy2time counts: for every date from 1980 on.
THEOREM DateFieldsKeepTheDay == CalendarSpec => []DateError
<1>1. ASSUME CalendarInv PROVE DateError
  <2>1. Day(sent)
    BY <1>1 DEF CalendarInv
  <2>2. CountedTo(sent.day, sent.month, sent.year) = sent.days + Off(sent)
    BY <2>1, DateOff
  <2>3. ddmmyyyy2time(sent.day, sent.month, sent.year) =
            [days |-> CountedTo(sent.day, sent.month, sent.year), secs |-> 0]
    BY <2>1, DayFacts, TimeOfDate
  <2>. QED  BY <2>2, <2>3 DEF DateError
<1>. QED  BY <1>1, CalendarInvariant, PTL

\* A stamp in a text that is not refused is understood as well as a date, in the
\* year it is read in, with any time of day and whatever is behind monSize.
THEOREM StampIsUnderstood == CalendarSpec => []StampError
<1>1. CalendarInv => StampError
  BY StampOfDay DEF StampError
<1>. QED  BY <1>1, CalendarInvariant, PTL

\* Line 1 of an NX sentence gives a time other than 0, whatever its date fields
\* and its text hold, for every possible build.
THEOREM TimeOfLine1IsNotZero == CalendarSpec => []TimeIsNeverZero
<1>1. ASSUME CalendarInv PROVE TimeIsNeverZero
  <2> SUFFICES ASSUME NEW f \in Fields, NEW stamp \in {Stamp(f.clock), NoStamp}
               PROVE  whenSent(f, stamp, now.year) # Midnight
    BY DEF TimeIsNeverZero
  <2>1. f.clock \in Clock
    BY DEF Fields
  <2>2. extractUtc(NoStamp, now.year) # Midnight
    BY DEF extractUtc, NoStamp, NoTime, Midnight
  <2>3. extractUtc(Stamp(f.clock), now.year) # Midnight
    <3>1. PICK c \in Clock : c = f.clock
      BY <2>1
    <3>2. NoTime # Midnight
      BY DEF NoTime, Midnight
    <3>3. \A e, h : e > 0 => [days |-> e, secs |-> h] # Midnight
      BY DEF Midnight
    <3>. QED  BY <1>1, <3>1, <3>2, <3>3, StampOfDay
  <2>4. extractUtc(stamp, now.year) # Midnight
    BY <2>2, <2>3
  <2>. QED  BY <2>4, Zenon DEF whenSent
<1>. QED  BY <1>1, CalendarInvariant, PTL
=============================================================================
