---------------------------- MODULE FramingProofs ----------------------------
(***************************************************************************)
(* NativeFraming and Framing for every set of streams.  The receiver       *)
(* collects and hands over unbroken stretches of the stream: the input and *)
(* the open message are windows of it, the one next to the other (IInv);   *)
(* if no buffer ended in a mark, they are its frames (FrameInv).  What     *)
(* parse has made of a sentence is a function of the place it is at        *)
(* (LineInv), and the calls are counted per place of the stream (CallInv). *)
(***************************************************************************)
EXTENDS Framing, TLAPS, SequenceTheorems, FiniteSetTheorems,
        WellFoundedInduction

IInv == TypeOK /\ input \in Seq(Token) /\ OpenIsStretch

-----------------------------------------------------------------------------
\* A window of a window is a window, empty ones included.
LEMMA WindowOfWindow ==
    ASSUME NEW T, NEW s \in Seq(T), NEW a \in Nat, NEW b \in a..Len(s),
           NEW i \in 1..(b - a + 1), NEW j \in (i - 1)..(b - a)
    PROVE  /\ SubSeq(SubSeq(s, a + 1, b), i, j) = SubSeq(s, a + i, a + j)
           /\ Len(SubSeq(s, a + i, a + j)) = j - i + 1
           /\ SubSeq(s, a + i, a + j) \in Seq(T)
<1>1. \A k \in (a + i)..(a + j) : s[k] \in T
  OBVIOUS
<1>2. /\ Len(SubSeq(s, a + i, a + j)) = j - i + 1
      /\ SubSeq(s, a + i, a + j) \in Seq(T)
  BY <1>1, SubSeqProperties
<1>3. CASE i <= j
  <2>1. SubSeq(SubSeq(s, a + 1, b), i, j) = SubSeq(s, (a + 1) + i - 1, (a + 1) + j - 1)
    <3>1. /\ a + 1 \in 1..Len(s) /\ b \in 1..Len(s)
          /\ i \in 1..(b - (a + 1) + 1) /\ j \in 1..(b - (a + 1) + 1)
      BY <1>3
    <3>. QED
      BY <3>1, SubSeqOfSubSeq
  <2>2. (a + 1) + i - 1 = a + i /\ (a + 1) + j - 1 = a + j
    OBVIOUS
  <2>. QED
    BY <1>2, <2>1, <2>2
<1>4. CASE j < i
  BY <1>2, <1>4, SubSeqEmpty
<1>. QED
  BY <1>3, <1>4

LEMMA LeastElement ==
    ASSUME NEW S \in SUBSET Nat, S # {}
    PROVE  \E x \in S : \A y \in S : x <= y
<1>. DEFINE Less == {pair \in Nat \X Nat : pair[1] < pair[2]}
<1>1. IsWellFoundedOn(Less, Nat)
  BY NatLessThanWellFounded DEF OpToRel
<1>2. PICK x \in S : \A y \in S : <<y, x>> \notin Less
  BY <1>1, WFMin
<1>3. ASSUME NEW y \in S  PROVE x <= y
  <2>1. x \in Nat /\ y \in Nat
    OBVIOUS
  <2>2. y < x => <<y, x>> \in Less
    BY <2>1
  <2>. QED
    BY <1>2, <2>1, <2>2
<1>. QED
  BY <1>3

LEMMA MinFacts ==
    ASSUME NEW S \in SUBSET Nat, S # {}
    PROVE  Min(S) \in S /\ \A y \in S : Min(S) <= y
BY LeastElement DEF Min

LEMMA MinIs ==
    ASSUME NEW S \in SUBSET Nat, NEW m \in S, \A y \in S : m <= y
    PROVE  Min(S) = m
<1>1. Min(S) \in S /\ Min(S) <= m
  BY MinFacts
<1>2. Min(S) \in Nat /\ m \in Nat /\ m <= Min(S)
  BY <1>1
<1>. QED
  BY <1>1, <1>2

LEMMA MaxIs ==
    ASSUME NEW S \in SUBSET Nat, NEW m \in S, \A y \in S : y <= m
    PROVE  Max(S) = m
<1>1. \E x \in S : \A y \in S : x >= y
  OBVIOUS
<1>2. Max(S) \in S /\ \A y \in S : Max(S) >= y
  BY <1>1 DEF Max
<1>3. Max(S) \in Nat /\ m \in Nat /\ m >= Max(S) /\ Max(S) >= m
  BY <1>2
<1>. QED
  BY <1>3

\* find returns the first place of the mark from the place it begins at.
LEMMA FindIsPlace ==
    ASSUME NEW T, NEW s \in Seq(T), NEW mark, NEW p \in Nat, Has(s, mark, p)
    PROVE  /\ Find(s, mark, p) \in p..(Len(s) - 1)
           /\ SubSeq(s, Find(s, mark, p), Find(s, mark, p) + 1) = mark
           /\ \A i \in p..(Len(s) - 1) :
                 SubSeq(s, i, i + 1) = mark => Find(s, mark, p) <= i
<1>1. Places(s, mark, p) \in SUBSET Nat /\ Places(s, mark, p) # {}
  BY DEF Places, Has
<1>. QED
  BY <1>1, MinFacts DEF Find, Places

\* The places of a state that satisfies the invariant.
LEMMA Geometry ==
    ASSUME IInv
    PROVE  /\ stream \in Seq(Token)
           /\ arrived \in 0..Len(stream)
           /\ Seen \in 0..arrived /\ Len(input) = arrived - Seen
           /\ input \in Seq(Token) /\ input = SubSeq(stream, Seen + 1, arrived)
           /\ nativeMsg \in Seq(Token) /\ messages \in Seq(Seq(Token))
<1>1. stream \in Seq(Token)
  BY StreamAssumption DEF IInv, TypeOK
<1>2. Len(input) \in Nat /\ Len(nativeMsg) \in Nat /\ arrived \in 0..Len(stream)
      /\ Len(nativeMsg) + Len(input) <= arrived /\ Len(stream) \in Nat
  BY <1>1 DEF IInv, TypeOK
<1>3. Seen \in 0..arrived /\ Len(input) = arrived - Seen
  BY <1>2 DEF Seen
<1>. QED
  BY <1>1, <1>2, <1>3 DEF IInv, TypeOK

\* Pieces of the input, from place i to place j of it, are pieces of the stream.
LEMMA InputPiece ==
    ASSUME IInv, NEW i \in 1..(Len(input) + 1), NEW j \in (i - 1)..Len(input)
    PROVE  /\ SubSeq(input, i, j) = SubSeq(stream, Seen + i, Seen + j)
           /\ Len(SubSeq(input, i, j)) = j - i + 1
           /\ SubSeq(input, i, j) \in Seq(Token)
<1>1. /\ stream \in Seq(Token) /\ Seen \in Nat /\ arrived \in Seen..Len(stream)
      /\ Len(input) = arrived - Seen /\ input = SubSeq(stream, Seen + 1, arrived)
  BY Geometry
<1>. HIDE DEF Seen
<1>2. i \in 1..(arrived - Seen + 1) /\ j \in (i - 1)..(arrived - Seen)
  BY <1>1
<1>. QED
  BY <1>1, <1>2, WindowOfWindow

\* What is left when the input has been looked at up to place t.
LEMMA RestOfInput ==
    ASSUME IInv, NEW t \in 0..Len(input), input' = From(input, t + 1),
           UNCHANGED <<stream, arrived>>
    PROVE  /\ Seen' = Seen + t
           /\ input' = SubSeq(stream, Seen' + 1, arrived)
           /\ input' \in Seq(Token) /\ Len(input') = Len(input) - t
<1>1. /\ Seen \in Nat /\ arrived \in Nat /\ Len(input) = arrived - Seen
      /\ Len(input) \in Nat
  BY Geometry
<1>2. input' = SubSeq(input, t + 1, Len(input))
  BY DEF From
<1>3. /\ input' = SubSeq(stream, Seen + (t + 1), Seen + Len(input))
      /\ Len(input') = Len(input) - (t + 1) + 1
      /\ input' \in Seq(Token)
  <2>1. t + 1 \in 1..(Len(input) + 1) /\ Len(input) \in ((t + 1) - 1)..Len(input)
    BY <1>1
  <2>. QED
    BY <1>2, <2>1, InputPiece
<1>4. Seen' = arrived - Len(input')
  BY DEF Seen
<1>5. Seen' = Seen + t
  BY <1>1, <1>3, <1>4
<1>6. Seen + (t + 1) = Seen' + 1 /\ Seen + Len(input) = arrived
  BY <1>1, <1>5
<1>. QED
  BY <1>1, <1>3, <1>5, <1>6

\* The same when the whole input has been looked at.
LEMMA AllSeen ==
    ASSUME IInv, input' = <<>>, UNCHANGED <<stream, arrived>>
    PROVE  /\ Seen' = arrived
           /\ input' = SubSeq(stream, Seen' + 1, arrived)
           /\ input' \in Seq(Token) /\ Len(input') = 0
<1>1. arrived \in Nat
  BY Geometry
<1>2. Seen' = arrived
  BY <1>1 DEF Seen
<1>. QED
  BY <1>1, <1>2, SubSeqEmpty

-----------------------------------------------------------------------------
LEMMA InitInv == Init => IInv
<1>. SUFFICES ASSUME Init  PROVE IInv
  OBVIOUS
<1>1. stream \in Seq(Token) /\ Len(stream) \in Nat
  BY StreamAssumption DEF Init
<1>2. Seen = 0
  <2>1. arrived = 0 /\ Len(input) = 0
    BY DEF Init
  <2>. QED
    BY <2>1 DEF Seen
<1>3. input = SubSeq(stream, Seen + 1, arrived)
  BY <1>2, SubSeqEmpty DEF Init
<1>4. TypeOK
  BY <1>1, <1>3 DEF Init, TypeOK
<1>. QED
  BY <1>4 DEF Init, IInv, OpenIsStretch

\* A buffer arrives when the one before is used up: nothing is skipped.
LEMMA ArriveInv ==
    ASSUME IInv, NEW n \in 1..(Len(stream) - arrived), Arrive(n)
    PROVE  IInv' /\ messages' = messages
<1>1. /\ stream \in Seq(Token) /\ arrived \in Nat /\ n \in Nat
      /\ arrived + n <= Len(stream) /\ Len(stream) \in Nat /\ Seen = arrived
  <2>1. Len(input) = 0
    BY DEF Arrive
  <2>. QED
    BY <2>1, Geometry DEF Seen
<1>2. /\ input' = SubSeq(stream, arrived + 1, arrived + n)
      /\ Len(input') = n /\ input' \in Seq(Token)
  <2>1. \A k \in (arrived + 1)..(arrived + n) : stream[k] \in Token
    BY <1>1
  <2>2. input' = SubSeq(stream, arrived + 1, arrived + n)
    BY DEF Arrive
  <2>. QED
    BY <1>1, <2>1, <2>2, SubSeqProperties
<1>3. Seen' = arrived /\ Seen' = Seen
  BY <1>1, <1>2 DEF Seen, Arrive
<1>4. TypeOK'
  <2>1. Len(nativeMsg) <= arrived
    BY <1>1 DEF IInv, TypeOK, Arrive
  <2>2. cuts' \subseteq 1..(arrived + n)
    BY <1>1 DEF IInv, TypeOK, Arrive
  <2>. HIDE DEF Seen
  <2>. QED
    BY <1>1, <1>2, <1>3, <2>1, <2>2 DEF IInv, TypeOK, Arrive
<1>5. OpenIsStretch'
  BY <1>3 DEF IInv, OpenIsStretch, Arrive
<1>. QED
  BY <1>2, <1>4, <1>5 DEF IInv, Arrive

\* The steps that use up the input: it is passed over, it opens a message, or it
\* goes into the open one.
LEMMA UseUpInv ==
    ASSUME IInv, Idle \/ Open \/ More, UNCHANGED <<stream, arrived, cuts>>
    PROVE  IInv' /\ messages' = messages
<1>1. /\ stream \in Seq(Token) /\ arrived \in 0..Len(stream) /\ Len(stream) \in Nat
      /\ arrived \in Nat /\ Seen \in 0..arrived /\ Seen \in Nat
      /\ Len(input) = arrived - Seen /\ Len(input) \in Nat
      /\ input = SubSeq(stream, Seen + 1, arrived)
      /\ input \in Seq(Token) /\ nativeMsg \in Seq(Token)
  BY Geometry
<1>2. input' = <<>> /\ messages' = messages
  BY DEF Idle, Open, More
<1>3. /\ Seen' = arrived /\ Len(input') = 0 /\ input' \in Seq(Token)
      /\ input' = SubSeq(stream, Seen' + 1, arrived)
  BY <1>2, AllSeen
<1>. HIDE DEF Seen
<1>4. /\ nativeMsg' \in Seq(Token) /\ Len(nativeMsg') <= arrived
      /\ OpenIsStretch'
  <2>1. CASE Idle
    BY <1>1, <2>1 DEF Idle, OpenIsStretch
  <2>2. CASE Open
    <3>. DEFINE h == Find(input, MSG_HEAD, 1)
    <3>1. h \in 1..(Len(input) - 1) /\ SubSeq(input, h, h + 1) = MSG_HEAD
      <4>1. input \in Seq(Token) /\ Has(input, MSG_HEAD, 1)
        BY <1>1, <2>2 DEF Open
      <4>. QED
        BY <4>1, FindIsPlace
    <3>2. nativeMsg' = SubSeq(input, h + 2, Len(input))
      BY <2>2 DEF Open, From
    <3>. HIDE DEF h
    <3>3. /\ nativeMsg' = SubSeq(stream, Seen + (h + 2), Seen + Len(input))
          /\ Len(nativeMsg') = Len(input) - (h + 2) + 1
          /\ nativeMsg' \in Seq(Token)
      <4>1. /\ h + 2 \in 1..(Len(input) + 1)
            /\ Len(input) \in ((h + 2) - 1)..Len(input)
        BY <1>1, <3>1
      <4>. QED
        BY <3>2, <4>1, InputPiece
    <3>4. SubSeq(stream, Seen + h, Seen + (h + 1)) = MSG_HEAD
      <4>1. h \in 1..(Len(input) + 1) /\ h + 1 \in (h - 1)..Len(input)
        BY <1>1, <3>1
      <4>. QED
        BY <3>1, <4>1, InputPiece
    <3>. DEFINE start == arrived - Len(nativeMsg')
    <3>5. /\ start = Seen + (h + 1) /\ start - 1 = Seen + h /\ start >= 2
          /\ start + 1 = Seen + (h + 2) /\ Seen + Len(input) = arrived
      BY <1>1, <3>1, <3>3
    <3>6. SubSeq(stream, start - 1, start) = MSG_HEAD
          /\ nativeMsg' = SubSeq(stream, start + 1, arrived)
      BY <3>3, <3>4, <3>5
    <3>7. OpenIsStretch'
      BY <1>3, <3>5, <3>6 DEF OpenIsStretch
    <3>. QED
      BY <1>1, <3>1, <3>3, <3>7
  <2>3. CASE More
    <3>. DEFINE start == Seen - Len(nativeMsg)
    <3>1. /\ start >= 2 /\ SubSeq(stream, start - 1, start) = MSG_HEAD
          /\ nativeMsg = SubSeq(stream, start + 1, Seen)
      BY <2>3 DEF IInv, OpenIsStretch, More
    <3>2. Len(nativeMsg) \in Nat /\ nativeMsg' = nativeMsg \o input
      BY <1>1, <2>3 DEF More
    <3>3. nativeMsg' = SubSeq(stream, start + 1, arrived)
      <4>1. /\ start + 1 \in 1..(Len(stream) + 1) /\ Seen \in ((start + 1) - 1)..Len(stream)
            /\ arrived \in Seen..Len(stream)
        BY <1>1, <3>1, <3>2
      <4>. HIDE DEF start
      <4>. QED
        BY <1>1, <3>1, <3>2, <4>1, ConcatAdjacentSubSeq
    <3>4. nativeMsg' \in Seq(Token) /\ Len(nativeMsg') = Len(nativeMsg) + Len(input)
      BY <1>1, <3>2
    <3>5. arrived - Len(nativeMsg') = start
      BY <1>1, <3>2, <3>4
    <3>6. OpenIsStretch'
      <4>. HIDE DEF start
      <4>. QED
        BY <1>3, <3>1, <3>3, <3>5 DEF OpenIsStretch
    <3>. QED
      BY <1>1, <3>1, <3>2, <3>4, <3>5, <3>6
  <2>. QED
    BY <2>1, <2>2, <2>3
<1>5. TypeOK'
  BY <1>1, <1>2, <1>3, <1>4 DEF IInv, TypeOK
<1>. QED
  BY <1>2, <1>3, <1>4, <1>5 DEF IInv

\* A whole message in the input: it is handed over with its tail, and the rest of
\* the input goes on.
LEMMA WholeInv ==
    ASSUME IInv, Whole, UNCHANGED <<stream, arrived, cuts>>
    PROVE  IInv' /\ HandsOverStretch
<1>. DEFINE h == Find(input, MSG_HEAD, 1)
            t == Find(input, MSG_TAIL, h + 2)
<1>1. /\ stream \in Seq(Token) /\ arrived \in 0..Len(stream) /\ Len(stream) \in Nat
      /\ arrived \in Nat /\ Seen \in 0..arrived /\ Seen \in Nat
      /\ Len(input) = arrived - Seen /\ Len(input) \in Nat
      /\ input \in Seq(Token) /\ nativeMsg \in Seq(Token)
      /\ messages \in Seq(Seq(Token))
  BY Geometry
<1>2. h \in 1..(Len(input) - 1) /\ SubSeq(input, h, h + 1) = MSG_HEAD
  BY <1>1, FindIsPlace DEF Whole
<1>3. t \in (h + 2)..(Len(input) - 1) /\ SubSeq(input, t, t + 1) = MSG_TAIL
  <2>1. h + 2 \in Nat /\ Has(input, MSG_TAIL, h + 2)
    BY <1>1, <1>2 DEF Whole
  <2>. HIDE DEF h
  <2>. QED
    BY <1>1, <2>1, FindIsPlace
<1>4. /\ nativeMsg = <<>> /\ nativeMsg' = nativeMsg
      /\ messages' = Append(messages, SubSeq(input, h + 2, t + 1))
      /\ input' = From(input, t + 2)
  BY DEF Whole
<1>. HIDE DEF h, t, Seen
<1>5. h \in Nat /\ t \in Nat /\ h >= 1 /\ h + 2 <= t /\ t + 1 <= Len(input)
  BY <1>1, <1>2, <1>3
<1>6. /\ Seen' = Seen + (t + 1) /\ input' = SubSeq(stream, Seen' + 1, arrived)
      /\ input' \in Seq(Token) /\ Len(input') = Len(input) - (t + 1)
  <2>1. t + 1 \in 0..Len(input) /\ (t + 1) + 1 = t + 2
    BY <1>1, <1>5
  <2>. QED
    BY <1>4, <2>1, RestOfInput
<1>7. SubSeq(stream, Seen + h, Seen + (h + 1)) = MSG_HEAD
  <2>1. h \in 1..(Len(input) + 1) /\ h + 1 \in (h - 1)..Len(input)
    BY <1>1, <1>5
  <2>. QED
    BY <1>2, <2>1, InputPiece
<1>8. SubSeq(stream, Seen + t, Seen + (t + 1)) = MSG_TAIL
  <2>1. t \in 1..(Len(input) + 1) /\ t + 1 \in (t - 1)..Len(input)
    BY <1>1, <1>5
  <2>. QED
    BY <1>3, <2>1, InputPiece
<1>9. /\ SubSeq(input, h + 2, t + 1) = SubSeq(stream, Seen + (h + 2), Seen + (t + 1))
      /\ SubSeq(input, h + 2, t + 1) \in Seq(Token)
  <2>1. h + 2 \in 1..(Len(input) + 1) /\ t + 1 \in ((h + 2) - 1)..Len(input)
    BY <1>1, <1>5
  <2>. QED
    BY <2>1, InputPiece
<1>10. TypeOK'
  <2>1. messages' \in Seq(Seq(Token))
    BY <1>1, <1>4, <1>9
  <2>2. Len(nativeMsg') = 0
    BY <1>4
  <2>3. Len(input') <= arrived /\ Len(input') \in Nat
    BY <1>1, <1>5, <1>6
  <2>4. Len(nativeMsg') + Len(input') <= arrived
    BY <1>1, <2>2, <2>3
  <2>5. nativeMsg' \in Seq(Token)
    BY <1>4
  <2>. QED
    BY <1>6, <2>1, <2>4, <2>5 DEF IInv, TypeOK
<1>11. IInv'
  BY <1>4, <1>6, <1>10 DEF IInv, OpenIsStretch
<1>12. HandsOverStretch
  <2>. DEFINE start == Seen + (h + 1)
  <2>1. messages'[Len(messages')] = SubSeq(stream, start + 1, Seen')
    <3>1. messages'[Len(messages')] = SubSeq(input, h + 2, t + 1)
      <4>. DEFINE text == SubSeq(input, h + 2, t + 1)
      <4>1. text \in Seq(Token) /\ messages' = Append(messages, text)
        BY <1>4, <1>9
      <4>. HIDE DEF text
      <4>2. messages'[Len(messages')] = text
        BY <1>1, <4>1, AppendProperties
      <4>. QED
        BY <4>2 DEF text
    <3>2. Seen + (h + 2) = start + 1
      BY <1>1, <1>5
    <3>. QED
      BY <1>6, <1>9, <3>1, <3>2
  <2>2. /\ start \in (Seen - Len(nativeMsg))..Seen' /\ start >= 2
        /\ start - 1 = Seen + h
    <3>1. Len(nativeMsg) = 0
      BY <1>4
    <3>. QED
      BY <1>1, <1>5, <1>6, <3>1
  <2>3. SubSeq(stream, start - 1, start) = MSG_HEAD
    BY <1>7, <2>2
  <2>4. SubSeq(stream, Seen' - 1, Seen') = MSG_TAIL
    <3>1. Seen' - 1 = Seen + t
      BY <1>1, <1>5, <1>6
    <3>. QED
      BY <1>6, <1>8, <3>1
  <2>. HIDE DEF start
  <2>. QED
    BY <2>1, <2>2, <2>3, <2>4 DEF HandsOverStretch
<1>. QED
  BY <1>11, <1>12

\* The open message ends in the input: it is handed over without its tail.
LEMMA CloseInv ==
    ASSUME IInv, Close, UNCHANGED <<stream, arrived, cuts>>
    PROVE  IInv' /\ HandsOverStretch
<1>. DEFINE t == Find(input, MSG_TAIL, 1)
            start == Seen - Len(nativeMsg)
<1>1. /\ stream \in Seq(Token) /\ arrived \in 0..Len(stream) /\ Len(stream) \in Nat
      /\ arrived \in Nat /\ Seen \in 0..arrived /\ Seen \in Nat
      /\ Len(input) = arrived - Seen /\ Len(input) \in Nat
      /\ input \in Seq(Token) /\ nativeMsg \in Seq(Token)
      /\ messages \in Seq(Seq(Token))
  BY Geometry
<1>2. t \in 1..(Len(input) - 1) /\ SubSeq(input, t, t + 1) = MSG_TAIL
  BY <1>1, FindIsPlace DEF Close
<1>3. /\ nativeMsg' = <<>> /\ input' = From(input, t + 2)
      /\ messages' = Append(messages, nativeMsg \o SubSeq(input, 1, t - 1))
  BY DEF Close
<1>4. /\ start >= 2 /\ SubSeq(stream, start - 1, start) = MSG_HEAD
      /\ nativeMsg = SubSeq(stream, start + 1, Seen)
  BY DEF IInv, OpenIsStretch, Close
<1>5. Len(nativeMsg) \in Nat /\ start \in Nat /\ start <= Seen
  BY <1>1, <1>4
<1>. HIDE DEF t, Seen
<1>6. t \in Nat /\ t >= 1 /\ t + 1 <= Len(input)
  BY <1>1, <1>2
<1>7. /\ Seen' = Seen + (t + 1) /\ input' = SubSeq(stream, Seen' + 1, arrived)
      /\ input' \in Seq(Token) /\ Len(input') = Len(input) - (t + 1)
  <2>1. t + 1 \in 0..Len(input) /\ (t + 1) + 1 = t + 2
    BY <1>1, <1>6
  <2>. QED
    BY <1>3, <2>1, RestOfInput
<1>8. SubSeq(stream, Seen + t, Seen + (t + 1)) = MSG_TAIL
  <2>1. t \in 1..(Len(input) + 1) /\ t + 1 \in (t - 1)..Len(input)
    BY <1>1, <1>6
  <2>. QED
    BY <1>2, <2>1, InputPiece
<1>9. /\ SubSeq(input, 1, t - 1) = SubSeq(stream, Seen + 1, Seen + (t - 1))
      /\ SubSeq(input, 1, t - 1) \in Seq(Token)
  <2>1. 1 \in 1..(Len(input) + 1) /\ t - 1 \in (1 - 1)..Len(input)
    BY <1>1, <1>6
  <2>. QED
    BY <2>1, InputPiece
<1>10. /\ nativeMsg \o SubSeq(input, 1, t - 1) = SubSeq(stream, start + 1, Seen' - 2)
       /\ nativeMsg \o SubSeq(input, 1, t - 1) \in Seq(Token)
  <2>1. /\ start + 1 \in 1..(Len(stream) + 1)
        /\ Seen \in ((start + 1) - 1)..Len(stream)
        /\ Seen + (t - 1) \in Seen..Len(stream)
        /\ Seen + (t - 1) = Seen' - 2
    BY <1>1, <1>4, <1>5, <1>6, <1>7
  <2>. HIDE DEF start
  <2>2. SubSeq(stream, start + 1, Seen) \o SubSeq(stream, Seen + 1, Seen + (t - 1))
            = SubSeq(stream, start + 1, Seen + (t - 1))
    BY <1>1, <2>1, ConcatAdjacentSubSeq
  <2>3. nativeMsg \o SubSeq(input, 1, t - 1) \in Seq(Token)
    BY <1>1, <1>9
  <2>4. nativeMsg \o SubSeq(input, 1, t - 1)
            = SubSeq(stream, start + 1, Seen) \o SubSeq(stream, Seen + 1, Seen + (t - 1))
    BY <1>4, <1>9
  <2>. QED
    BY <2>1, <2>2, <2>3, <2>4
<1>11. TypeOK'
  <2>1. messages' \in Seq(Seq(Token))
    BY <1>1, <1>3, <1>10
  <2>2. Len(nativeMsg') = 0
    BY <1>3
  <2>3. Len(input') <= arrived /\ Len(input') \in Nat
    BY <1>1, <1>6, <1>7
  <2>4. Len(nativeMsg') + Len(input') <= arrived
    BY <1>1, <2>2, <2>3
  <2>5. nativeMsg' \in Seq(Token)
    BY <1>3
  <2>. QED
    BY <1>7, <2>1, <2>4, <2>5 DEF IInv, TypeOK
<1>12. IInv'
  BY <1>3, <1>7, <1>11 DEF IInv, OpenIsStretch
<1>13. HandsOverStretch
  <2>1. messages'[Len(messages')] = SubSeq(stream, start + 1, Seen' - 2)
    <3>1. messages'[Len(messages')] = nativeMsg \o SubSeq(input, 1, t - 1)
      <4>1. PICK x \in Seq(Token) : x = nativeMsg \o SubSeq(input, 1, t - 1)
        BY <1>10
      <4>2. messages' = Append(messages, x)
        BY <1>3, <4>1
      <4>3. Len(messages') = Len(messages) + 1 /\ messages'[Len(messages) + 1] = x
        BY <1>1, <4>2, AppendProperties
      <4>. QED
        BY <4>1, <4>3
    <3>. QED
      BY <1>10, <3>1
  <2>2. start \in (Seen - Len(nativeMsg))..Seen'
    BY <1>1, <1>5, <1>6, <1>7
  <2>3. SubSeq(stream, Seen' - 1, Seen') = MSG_TAIL
    <3>1. Seen' - 1 = Seen + t
      BY <1>1, <1>6, <1>7
    <3>. QED
      BY <1>7, <1>8, <3>1
  <2>4. start >= 2 /\ SubSeq(stream, start - 1, start) = MSG_HEAD
    BY <1>4
  <2>. HIDE DEF start
  <2>. QED
    BY <2>1, <2>2, <2>3, <2>4 DEF HandsOverStretch
<1>. QED
  BY <1>12, <1>13

-----------------------------------------------------------------------------
\* Fields of sentences as they were sent.

LEMMA CommaIsNone == Comma # "$" /\ Comma # "*" /\ Comma # "E"
BY Zenon DEF Comma

\* Places later in a sentence belong to the same field or a later one, and to a
\* later one just behind a comma.
LEMMA FieldOfFacts ==
    ASSUME NEW i \in Nat, NEW p \in Nat, i <= p
    PROVE  /\ FieldOf(i, p) \in Nat \ {0} /\ FieldOf(i, i) = 1
           /\ stream[p] = Comma => FieldOf(i, p + 1) = FieldOf(i, p) + 1
           /\ stream[p] # Comma => FieldOf(i, p + 1) = FieldOf(i, p)
           /\ \A q \in i .. p : FieldOf(i, q) <= FieldOf(i, p)
           /\ \A q \in i .. p :
                 (\A r \in q .. p - 1 : stream[r] # Comma) =>
                     FieldOf(i, q) = FieldOf(i, p)
<1>. DEFINE Commas(q) == {r \in i .. q - 1 : stream[r] = Comma}
<1>1. \A q \in Nat : IsFiniteSet(Commas(q)) /\ Cardinality(Commas(q)) \in Nat
  <2>. TAKE q \in Nat
  <2>1. IsFiniteSet(i .. q - 1)
    BY FS_Interval
  <2>2. IsFiniteSet(Commas(q))
    BY <2>1, FS_Subset
  <2>. QED
    BY <2>2, FS_CardinalityType
<1>2. \A q : FieldOf(i, q) = 1 + Cardinality(Commas(q))
  BY DEF FieldOf
<1>3. Commas(i) = {}
  OBVIOUS
<1>4. stream[p] = Comma => Cardinality(Commas(p + 1)) = Cardinality(Commas(p)) + 1
  <2>1. stream[p] = Comma => Commas(p + 1) = Commas(p) \union {p}
    OBVIOUS
  <2>2. p \notin Commas(p)
    OBVIOUS
  <2>. HIDE DEF Commas
  <2>. QED
    BY <1>1, <2>1, <2>2, FS_AddElement
<1>5. stream[p] # Comma => Commas(p + 1) = Commas(p)
  OBVIOUS
<1>6. \A q \in i .. p : Cardinality(Commas(q)) <= Cardinality(Commas(p))
  <2>. TAKE q \in i .. p
  <2>1. Commas(q) \in SUBSET Commas(p)
    OBVIOUS
  <2>. HIDE DEF Commas
  <2>. QED
    BY <1>1, <2>1, FS_Subset
<1>7. \A q \in i .. p : (\A r \in q .. p - 1 : stream[r] # Comma) => Commas(q) = Commas(p)
  OBVIOUS
<1>. HIDE DEF Commas
<1>8. Cardinality(Commas(i)) = 0
  BY <1>3, FS_EmptySet
<1>. QED
  BY <1>1, <1>2, <1>4, <1>5, <1>6, <1>7, <1>8

LEMMA BodyEndFacts ==
    ASSUME stream \in Seq(Token), NEW i \in 1 .. Len(stream)
    PROVE  /\ BodyEnd(i) \in i + 1 .. Len(stream) + 1
           /\ BodyEnd(i) <= Len(stream) => stream[BodyEnd(i)] \in {"*", "E"}
           /\ \A j \in i + 1 .. BodyEnd(i) - 1 : stream[j] \notin {"*", "E"}
<1>. DEFINE S == {j \in PlacesOf(stream, {"*", "E"}) : j > i} \union {Len(stream) + 1}
<1>1. S \in SUBSET Nat /\ S # {}
  BY DEF PlacesOf
<1>2. \A j \in S : j \in i + 1 .. Len(stream) + 1
  BY DEF PlacesOf
<1>3. \A j \in S : j <= Len(stream) => stream[j] \in {"*", "E"}
  BY DEF PlacesOf
<1>4. \A j \in i + 1 .. Len(stream) : stream[j] \in {"*", "E"} => j \in S
  BY DEF PlacesOf
<1>5. BodyEnd(i) = Min(S)
  BY DEF BodyEnd
<1>. HIDE DEF S
<1>6. BodyEnd(i) \in S /\ \A j \in S : BodyEnd(i) <= j
  BY <1>1, <1>5, MinFacts
<1>. QED
  BY <1>2, <1>3, <1>4, <1>6

\* A field as it was sent is what lies between two of its ends.
LEMMA SentIs ==
    ASSUME stream \in Seq(Token), NEW i \in 1 .. Len(stream),
           NEW to \in i .. BodyEnd(i), NEW from \in i .. to,
           from = i \/ stream[from - 1] = Comma,
           to = BodyEnd(i) \/ stream[to] = Comma,
           FieldOf(i, from) = FieldOf(i, to)
    PROVE  Sent(i, FieldOf(i, to)) = SubSeq(stream, from, to - 1)
<1>. DEFINE n == FieldOf(i, to)
            own == {p \in i .. BodyEnd(i) : FieldOf(i, p) = n}
<1>1. BodyEnd(i) \in Nat /\ i \in Nat /\ from \in Nat /\ to \in Nat
  BY BodyEndFacts
<1>2. from \in own /\ to \in own /\ own \subseteq Nat
  BY <1>1
<1>3. \A p \in own : from <= p
  <2>. SUFFICES ASSUME NEW p \in own, p < from  PROVE FALSE
    BY <1>1
  <2>1. PICK k \in Nat : k = from - 1
    BY <1>1
  <2>2. stream[k] = Comma /\ p \in i .. k /\ i <= k /\ k + 1 = from
    BY <1>1, <2>1
  <2>3. FieldOf(i, p) <= FieldOf(i, k) /\ FieldOf(i, k) \in Nat
    BY <1>1, <2>2, FieldOfFacts
  <2>4. FieldOf(i, k + 1) = FieldOf(i, k) + 1
    BY <1>1, <2>2, FieldOfFacts
  <2>5. FieldOf(i, p) \in Nat /\ FieldOf(i, p) = FieldOf(i, from)
    BY <1>1, FieldOfFacts
  <2>. QED
    BY <2>2, <2>3, <2>4, <2>5
<1>4. \A p \in own : p <= to
  <2>. SUFFICES ASSUME NEW p \in own, to < p  PROVE FALSE
    BY <1>1
  <2>1. stream[to] = Comma /\ to + 1 \in i .. p /\ p \in Nat
    BY <1>1
  <2>2. FieldOf(i, to + 1) <= FieldOf(i, p) /\ FieldOf(i, p) = n
    BY <1>1, <2>1, FieldOfFacts
  <2>3. FieldOf(i, to + 1) = n + 1 /\ n \in Nat
    <3>1. i <= to
      BY <1>1
    <3>. QED
      BY <1>1, <2>1, <3>1, FieldOfFacts
  <2>. QED
    BY <2>2, <2>3
<1>. HIDE DEF own
<1>5. Min(own) = from
  BY <1>2, <1>3, MinIs
<1>6. Max(own) = to
  BY <1>2, <1>4, MaxIs
<1>7. Sent(i, n) = SubSeq(stream, Min(own), Max(own) - 1)
  BY DEF Sent, own
<1>. QED
  BY <1>5, <1>6, <1>7

\* Every field that was sent is text: where the one of place c ends.
LEMMA SentIsText ==
    ASSUME stream \in Seq(Token), NEW i \in 1 .. Len(stream),
           NEW c \in i .. BodyEnd(i)
    PROVE  /\ Sent(i, FieldOf(i, c)) \in Seq(Token)
           /\ \A from \in i .. c :
                 (from = i \/ stream[from - 1] = Comma)
                     /\ FieldOf(i, from) = FieldOf(i, c) =>
                 \E to \in c .. BodyEnd(i) :
                     Sent(i, FieldOf(i, c)) = SubSeq(stream, from, to - 1)
<1>1. BodyEnd(i) \in Nat /\ i \in Nat /\ c \in Nat /\ BodyEnd(i) <= Len(stream) + 1
  BY BodyEndFacts
<1>. DEFINE Ends == {p \in c .. BodyEnd(i) : p = BodyEnd(i) \/ stream[p] = Comma}
            Begins == {b \in 0 .. c - i : c - b = i \/ stream[(c - b) - 1] = Comma}
<1>2. PICK to \in Ends : \A p \in Ends : to <= p
  <2>1. BodyEnd(i) \in Ends /\ Ends \in SUBSET Nat
    BY <1>1
  <2>. HIDE DEF Ends
  <2>. QED
    BY <2>1, LeastElement
<1>3. FieldOf(i, c) = FieldOf(i, to)
  <2>1. to \in Nat /\ c \in i .. to /\ i <= to
    BY <1>1
  <2>2. \A r \in c .. to - 1 : stream[r] # Comma
    BY <1>1, <1>2
  <2>. QED
    BY <1>1, <2>1, <2>2, FieldOfFacts
<1>4. \A from \in i .. c :
          (from = i \/ stream[from - 1] = Comma) /\ FieldOf(i, from) = FieldOf(i, c) =>
          Sent(i, FieldOf(i, c)) = SubSeq(stream, from, to - 1)
  <2>. TAKE from \in i .. c
  <2>. HAVE (from = i \/ stream[from - 1] = Comma) /\ FieldOf(i, from) = FieldOf(i, c)
  <2>1. to \in i .. BodyEnd(i) /\ from \in i .. to
    BY <1>1
  <2>2. to = BodyEnd(i) \/ stream[to] = Comma
    OBVIOUS
  <2>. QED
    BY <1>3, <2>1, <2>2, SentIs
<1>5. PICK b \in Begins : \A d \in Begins : b <= d
  <2>1. c - i \in Begins /\ Begins \in SUBSET Nat
    BY <1>1
  <2>. HIDE DEF Begins
  <2>. QED
    BY <2>1, LeastElement
<1>6. PICK from \in i .. c : from = c - b
  BY <1>1
<1>7. from = i \/ stream[from - 1] = Comma
  BY <1>5, <1>6
<1>8. FieldOf(i, from) = FieldOf(i, c)
  <2>1. \A r \in from .. c - 1 : stream[r] # Comma
    <3>. SUFFICES ASSUME NEW r \in from .. c - 1, stream[r] = Comma  PROVE FALSE
      OBVIOUS
    <3>1. PICK d \in Nat : d = c - (r + 1)
      BY <1>1
    <3>2. d \in 0 .. c - i /\ (c - d) - 1 = r /\ d < b
      BY <1>1, <1>6, <3>1
    <3>. QED
      BY <1>1, <1>5, <3>2
  <2>. QED
    BY <1>1, <2>1, FieldOfFacts
<1>9. Sent(i, FieldOf(i, c)) = SubSeq(stream, from, to - 1)
  BY <1>4, <1>7, <1>8
<1>10. SubSeq(stream, from, to - 1) \in Seq(Token)
  <2>1. \A k \in from .. to - 1 : stream[k] \in Token
    BY <1>1
  <2>. QED
    BY <1>1, <2>1, SubSeqProperties
<1>. QED
  BY <1>4, <1>9, <1>10

\* Where parse is in sentence s, at place c: it has all fields before the last,
\* and of the last all up to c; behind the '*' it has all fields, and the digits
\* up to c or none.
Made(s, c) ==
    LET i == s.at
        n == Len(s.fields) IN
    /\ \A j \in 1 .. n - 1 : s.fields[j] = Sent(i, j)
    /\ \/ /\ c <= BodyEnd(i) /\ n = FieldOf(i, c)
          /\ \E from \in i .. c :
                /\ from = i \/ stream[from - 1] = Comma
                /\ FieldOf(i, from) = n
                /\ s.fields[n] = SubSeq(stream, from, c - 1)
       \/ /\ BodyEnd(i) < c /\ n = FieldOf(i, BodyEnd(i))
          /\ \/ s.fields[n] = Sent(i, n) \o SubSeq(stream, BodyEnd(i) + 1, c - 1)
             \/ c = Seen + 1 /\ s.fields[n] = Sent(i, n)

\* A sentence that is being parsed, or was: it lies in one line that was looked at.
InLine(s) ==
    /\ s.at \in 1 .. Seen /\ stream[s.at] = "$"
    /\ \A e \in s.at .. Seen : stream[e] # "E"
    /\ s.fields \in Seq(Seq(Token)) /\ s.fields # <<>>

\* The state that lemmas about a step of parse begin with.
Reading(s, c) ==
    /\ stream \in Seq(Token) /\ stream \in Lines
    /\ Seen \in 0 .. Len(stream)
    /\ InLine(s) /\ Made(s, c)
    /\ c \in s.at .. Seen + 1

LEMMA ReadingFacts ==
    ASSUME NEW s, NEW c, Reading(s, c)
    PROVE  /\ s.at \in 1 .. Len(stream) /\ s.at \in Nat /\ c \in Nat
           /\ Seen \in Nat /\ Len(stream) \in Nat
           /\ BodyEnd(s.at) \in s.at + 1 .. Len(stream) + 1
           /\ BodyEnd(s.at) <= Seen => stream[BodyEnd(s.at)] = "*"
           /\ \A j \in s.at + 1 .. BodyEnd(s.at) - 1 : stream[j] # "*"
           /\ Len(s.fields) \in Nat \ {0}
           /\ \A j \in s.at .. Seen : BodyEnd(s.at) < j =>
                  j <= BodyEnd(s.at) + 2 /\ stream[j] \notin {"*", Comma}
<1>1. /\ s.at \in 1 .. Len(stream) /\ s.at \in Nat /\ c \in Nat
      /\ Seen \in Nat /\ Len(stream) \in Nat /\ Seen <= Len(stream)
  BY DEF Reading, InLine
<1>2. /\ BodyEnd(s.at) \in s.at + 1 .. Len(stream) + 1
      /\ BodyEnd(s.at) <= Len(stream) => stream[BodyEnd(s.at)] \in {"*", "E"}
      /\ \A j \in s.at + 1 .. BodyEnd(s.at) - 1 : stream[j] # "*"
  BY <1>1, BodyEndFacts DEF Reading
<1>3. BodyEnd(s.at) <= Seen => stream[BodyEnd(s.at)] = "*"
  BY <1>1, <1>2 DEF Reading, InLine
<1>4. Len(s.fields) \in Nat \ {0}
  BY DEF Reading, InLine
<1>5. ASSUME NEW j \in s.at .. Seen, BodyEnd(s.at) < j
      PROVE  j <= BodyEnd(s.at) + 2 /\ stream[j] \notin {"*", Comma}
  <2>1. BodyEnd(s.at) \in PlacesOf(stream, {"*"}) /\ j \in DOMAIN stream
    BY <1>1, <1>2, <1>3, <1>5 DEF PlacesOf, Reading
  <2>2. \A k \in BodyEnd(s.at) .. j : stream[k] # "E"
    <3>1. /\ BodyEnd(s.at) \in Nat /\ s.at < BodyEnd(s.at)
          /\ j \in Nat /\ j <= Seen
      BY <1>1, <1>2, <1>5
    <3>2. \A e \in s.at .. Seen : stream[e] # "E"
      BY DEF Reading, InLine
    <3>. QED
      BY <1>1, <3>1, <3>2
  <2>3. \A a \in PlacesOf(stream, {"*"}), b \in DOMAIN stream :
            a < b /\ (\A k \in a .. b : stream[k] # "E") =>
                b <= a + 2 /\ stream[b] \notin {"*", Comma}
    BY LineAssumption DEF Reading
  <2>. QED
    BY <1>5, <2>1, <2>2, <2>3
<1>. QED
  BY <1>1, <1>2, <1>3, <1>4, <1>5

\* A sentence just found.
LEMMA MadeNothing ==
    ASSUME NEW i \in Nat, stream[i] = "$", i < BodyEnd(i), BodyEnd(i) \in Nat
    PROVE  Made([at |-> i, fields |-> Cleared], i)
<1>. DEFINE s == [at |-> i, fields |-> Cleared]
<1>1. s.at = i /\ s.fields = <<<<>>>> /\ Len(s.fields) = 1 /\ s.fields[1] = <<>>
  BY DEF Cleared
<1>2. FieldOf(i, i) = 1
  BY FieldOfFacts
<1>3. SubSeq(stream, i, i - 1) = <<>>
  BY SubSeqEmpty
<1>4. 1 .. 1 - 1 = {}
  OBVIOUS
<1>. HIDE DEF s
<1>5. \A j \in 1 .. Len(s.fields) - 1 : s.fields[j] = Sent(s.at, j)
  BY <1>1, <1>4
<1>6. s.at \in s.at .. i /\ i <= BodyEnd(s.at)
  BY <1>1
<1>7. s.fields[Len(s.fields)] = SubSeq(stream, s.at, i - 1)
  BY <1>1, <1>3
<1>8. Made(s, i)
  BY <1>1, <1>2, <1>5, <1>6, <1>7 DEF Made
<1>. QED
  BY <1>8 DEF s

LEMMA OneToken ==
    ASSUME NEW T, NEW q \in Seq(T), NEW c \in 1 .. Len(q)
    PROVE  SubSeq(q, (c - 1) + 1, c) = <<q[c]>> /\ q[c] \in T
<1>1. (c - 1) + 1 = c /\ c \in Int /\ q[c] \in T
  OBVIOUS
<1>2. \A k \in c .. c : q[k] \in T
  BY <1>1
<1>3. /\ SubSeq(q, c, c) \in Seq(T) /\ Len(SubSeq(q, c, c)) = 1
      /\ SubSeq(q, c, c)[1] = q[c]
  <2>1. /\ SubSeq(q, c, c) \in Seq(T)
        /\ Len(SubSeq(q, c, c)) = IF c <= c THEN c - c + 1 ELSE 0
        /\ \A k \in 1 .. c - c + 1 : SubSeq(q, c, c)[k] = q[c + k - 1]
    <3>1. ASSUME NEW a \in Int, NEW b \in Int, \A k \in a .. b : q[k] \in T
          PROVE  /\ SubSeq(q, a, b) \in Seq(T)
                 /\ Len(SubSeq(q, a, b)) = IF a <= b THEN b - a + 1 ELSE 0
                 /\ \A k \in 1 .. b - a + 1 : SubSeq(q, a, b)[k] = q[a + k - 1]
      BY <3>1, SubSeqProperties
    <3>. QED
      BY <1>1, <1>2, <3>1
  <2>2. 1 \in 1 .. c - c + 1 /\ c + 1 - 1 = c
    OBVIOUS
  <2>. QED
    BY <2>1, <2>2
<1>4. <<q[c]>> \in Seq(T) /\ Len(<<q[c]>>) = 1 /\ <<q[c]>>[1] = q[c]
  BY <1>1
<1>5. \A k \in 1 .. 1 : SubSeq(q, c, c)[k] = <<q[c]>>[k]
  BY <1>3, <1>4
<1>6. SubSeq(q, c, c) = <<q[c]>>
  BY <1>3, <1>4, <1>5, SeqEqual
<1>. QED
  BY <1>1, <1>6

LEMMA AppendOne ==
    \A a \in Seq(Token), e \in Token : Append(a, e) = a \o <<e>>
BY AppendIsConcat

LEMMA AppendBehind ==
    \A a, b \in Seq(Token), e \in Token : Append(a \o b, e) = a \o Append(b, e)
<1>. SUFFICES ASSUME NEW a \in Seq(Token), NEW b \in Seq(Token), NEW e \in Token
              PROVE  Append(a \o b, e) = a \o Append(b, e)
  OBVIOUS
<1>1. Append(a \o b, e) = (a \o b) \o <<e>>
  BY AppendIsConcat
<1>2. Append(b, e) = b \o <<e>>
  BY AppendIsConcat
<1>3. (a \o b) \o <<e>> = a \o (b \o <<e>>)
  BY ConcatAssociative
<1>. QED
  BY <1>1, <1>2, <1>3

LEMMA MadeChar ==
    ASSUME NEW s, NEW c, Reading(s, c), c <= Seen, stream[c] \notin {"*", Comma},
           NEW t, t.at = s.at,
           t.fields = [s.fields EXCEPT ![Len(s.fields)] = Append(@, stream[c])]
    PROVE  Made(t, c + 1) /\ t.fields \in Seq(Seq(Token)) /\ t.fields # <<>>
<1>. DEFINE n == Len(s.fields)
            i == s.at
<1>0. stream \in Seq(Token) /\ i \in 1 .. Len(stream)
  BY ReadingFacts DEF Reading
<1>1. /\ s.fields \in Seq(Seq(Token)) /\ n \in 1 .. Len(s.fields) /\ n \in Nat
      /\ c \in 1 .. Len(stream) /\ i \in Nat /\ c \in Nat /\ i <= c
      /\ BodyEnd(i) \in Nat /\ Seen \in Nat /\ c <= Seen /\ i < BodyEnd(i)
  <2>1. /\ s.fields \in Seq(Seq(Token)) /\ s.at \in 1 .. Seen /\ c \in s.at .. Seen + 1
        /\ Seen \in 0 .. Len(stream)
    BY DEF Reading, InLine
  <2>2. /\ n \in Nat \ {0} /\ i \in Nat /\ c \in Nat /\ Len(stream) \in Nat
        /\ BodyEnd(i) \in i + 1 .. Len(stream) + 1
    BY ReadingFacts
  <2>. HIDE DEF n, i
  <2>. QED
    BY <2>1, <2>2 DEF n, i
<1>2. /\ stream[c] \in Token /\ s.fields[n] \in Seq(Token)
      /\ SubSeq(stream, (c - 1) + 1, c) = <<stream[c]>>
  <2>1. stream \in Seq(Token) /\ c \in 1 .. Len(stream)
    BY <1>0, <1>1
  <2>2. s.fields[n] \in Seq(Token)
    BY <1>1
  <2>. QED
    BY <2>1, <2>2, OneToken
<1>3. /\ t.fields \in Seq(Seq(Token)) /\ Len(t.fields) = n
      /\ t.fields[n] = Append(s.fields[n], stream[c])
      /\ \A j \in 1 .. n - 1 : t.fields[j] = s.fields[j]
  <2>1. Append(s.fields[n], stream[c]) \in Seq(Token)
    BY <1>2
  <2>. QED
    BY <1>1, <2>1
<1>4. \A j \in 1 .. n - 1 : t.fields[j] = Sent(i, j)
  BY <1>3 DEF Reading, Made
<1>5. CASE c <= BodyEnd(i)
  <2>1. n = FieldOf(i, c)
    BY <1>1, <1>5 DEF Reading, Made
  <2>2. PICK from \in i .. c : /\ from = i \/ stream[from - 1] = Comma
                               /\ FieldOf(i, from) = n
                               /\ s.fields[n] = SubSeq(stream, from, c - 1)
    BY <1>1, <1>5 DEF Reading, Made
  <2>3. c < BodyEnd(i)
    <3>1. BodyEnd(i) <= Seen => stream[BodyEnd(i)] = "*"
      BY ReadingFacts
    <3>. QED
      BY <1>1, <1>5, <3>1
  <2>4. FieldOf(i, c + 1) = n
    BY <1>1, <2>1, FieldOfFacts
  <2>5. t.fields[n] = SubSeq(stream, from, (c + 1) - 1)
    <3>1. from \in 1 .. Len(stream) + 1 /\ c - 1 \in from - 1 .. Len(stream)
          /\ c \in c - 1 .. Len(stream)
      BY <1>0, <1>1
    <3>2. SubSeq(stream, from, c - 1) \o SubSeq(stream, (c - 1) + 1, c)
              = SubSeq(stream, from, c)
      BY <1>0, <3>1, ConcatAdjacentSubSeq
    <3>3. SubSeq(stream, (c - 1) + 1, c) = <<stream[c]>>
      BY <1>2
    <3>4. Append(s.fields[n], stream[c]) = s.fields[n] \o <<stream[c]>>
      BY <1>2, AppendOne, Zenon
    <3>5. (c + 1) - 1 = c
      BY <1>1
    <3>. QED
      BY <1>3, <2>2, <3>2, <3>3, <3>4, <3>5
  <2>6. from \in i .. c + 1 /\ c + 1 <= BodyEnd(i)
    BY <1>1, <2>3
  <2>7. t.at = i /\ Len(t.fields) = n
    BY <1>3
  <2>. HIDE DEF n, i
  <2>8. Made(t, c + 1)
    BY <1>4, <2>2, <2>4, <2>5, <2>6, <2>7 DEF Made
  <2>. QED
    BY <1>1, <1>3, <2>7, <2>8
<1>6. CASE BodyEnd(i) < c
  <2>1. n = FieldOf(i, BodyEnd(i))
        /\ s.fields[n] = Sent(i, n) \o SubSeq(stream, BodyEnd(i) + 1, c - 1)
    <3>1. c # Seen + 1
      BY <1>1
    <3>2. ~(c <= BodyEnd(i))
      BY <1>1, <1>6
    <3>. QED
      BY <3>1, <3>2 DEF Reading, Made
  <2>. DEFINE d == SubSeq(stream, BodyEnd(i) + 1, c - 1)
  <2>2. /\ d \in Seq(Token)
        /\ SubSeq(stream, BodyEnd(i) + 1, (c + 1) - 1) = Append(d, stream[c])
    <3>1. /\ BodyEnd(i) + 1 \in 1 .. Len(stream) + 1
          /\ c - 1 \in (BodyEnd(i) + 1) - 1 .. Len(stream)
          /\ c \in c - 1 .. Len(stream)
      BY <1>0, <1>1, <1>6
    <3>2. d \o SubSeq(stream, (c - 1) + 1, c) = SubSeq(stream, BodyEnd(i) + 1, c)
      BY <1>0, <3>1, ConcatAdjacentSubSeq
    <3>3. SubSeq(stream, (c - 1) + 1, c) = <<stream[c]>>
      BY <1>2
    <3>4. d \in Seq(Token)
      <4>1. \A k \in BodyEnd(i) + 1 .. c - 1 : stream[k] \in Token
        BY <1>0, <1>1
      <4>. QED
        BY <1>1, <4>1, SubSeqProperties
    <3>5. Append(d, stream[c]) = d \o <<stream[c]>>
      BY <1>2, <3>4, AppendOne, Zenon
    <3>6. (c + 1) - 1 = c
      BY <1>1
    <3>. QED
      BY <3>2, <3>3, <3>4, <3>5, <3>6
  <2>3. Append(Sent(i, n) \o d, stream[c]) = Sent(i, n) \o Append(d, stream[c])
    <3>1. Sent(i, n) \in Seq(Token)
      <4>1. BodyEnd(i) \in i .. BodyEnd(i)
        BY <1>1
      <4>2. Sent(i, FieldOf(i, BodyEnd(i))) \in Seq(Token)
        BY <1>0, <4>1, SentIsText
      <4>. QED
        BY <2>1, <4>2
    <3>2. d \in Seq(Token) /\ stream[c] \in Token
      BY <1>2, <2>2
    <3>. HIDE DEF d, n, i
    <3>. QED
      BY <3>1, <3>2, AppendBehind
  <2>4. BodyEnd(i) < c + 1
    BY <1>1, <1>6
  <2>5. t.fields[n] = Sent(i, n) \o SubSeq(stream, BodyEnd(i) + 1, (c + 1) - 1)
    <3>1. t.fields[n] = Append(Sent(i, n) \o d, stream[c])
      BY <1>3, <2>1, Zenon
    <3>. QED
      BY <2>2, <2>3, <3>1, Zenon
  <2>6. t.at = i /\ Len(t.fields) = n
    BY <1>3
  <2>. HIDE DEF n, i, d
  <2>7. Made(t, c + 1)
    BY <1>4, <2>1, <2>4, <2>5, <2>6 DEF Made
  <2>. QED
    BY <1>1, <1>3, <2>6, <2>7
<1>. QED
  BY <1>1, <1>3, <1>5, <1>6

LEMMA MadeField ==
    ASSUME NEW s, NEW c, Reading(s, c), c <= Seen, stream[c] = Comma,
           NEW t, t.at = s.at, t.fields = Append(s.fields, <<>>)
    PROVE  Made(t, c + 1) /\ t.fields \in Seq(Seq(Token)) /\ t.fields # <<>>
<1>. DEFINE n == Len(s.fields)
            i == s.at
<1>0. stream \in Seq(Token) /\ i \in 1 .. Len(stream)
  BY ReadingFacts DEF Reading
<1>1. /\ s.fields \in Seq(Seq(Token)) /\ n \in Nat \ {0}
      /\ i \in Nat /\ c \in Nat /\ i <= c /\ BodyEnd(i) \in Nat
      /\ c \in i .. Seen /\ Seen \in Nat
  <2>1. /\ s.fields \in Seq(Seq(Token)) /\ s.at \in 1 .. Seen /\ c \in s.at .. Seen + 1
    BY DEF Reading, InLine
  <2>2. /\ n \in Nat \ {0} /\ i \in Nat /\ c \in Nat /\ Seen \in Nat
        /\ BodyEnd(i) \in i + 1 .. Len(stream) + 1
    BY ReadingFacts
  <2>. HIDE DEF n, i
  <2>. QED
    BY <2>1, <2>2 DEF n, i
<1>2. /\ t.fields \in Seq(Seq(Token)) /\ Len(t.fields) = n + 1
      /\ t.fields[n + 1] = <<>>
      /\ \A j \in 1 .. n : t.fields[j] = s.fields[j]
  <2>1. <<>> \in Seq(Token)
    OBVIOUS
  <2>. QED
    BY <1>1, <2>1, AppendProperties
<1>3. c <= BodyEnd(i)
  <2>1. BodyEnd(s.at) < c => stream[c] # Comma
    BY <1>1, ReadingFacts
  <2>. QED
    BY <1>1, <2>1
<1>4. c < BodyEnd(i)
  <2>1. BodyEnd(s.at) <= Seen => stream[BodyEnd(s.at)] = "*"
    BY ReadingFacts
  <2>. QED
    BY <1>1, <1>3, <2>1, CommaIsNone
<1>5. n = FieldOf(i, c) /\ \A j \in 1 .. n - 1 : s.fields[j] = Sent(i, j)
  BY <1>1, <1>3 DEF Reading, Made
<1>6. PICK from \in i .. c : /\ from = i \/ stream[from - 1] = Comma
                             /\ FieldOf(i, from) = n
                             /\ s.fields[n] = SubSeq(stream, from, c - 1)
  BY <1>1, <1>3 DEF Reading, Made
<1>7. s.fields[n] = Sent(i, n)
  <2>1. c \in i .. BodyEnd(i)
    BY <1>1, <1>3
  <2>2. Sent(i, FieldOf(i, c)) = SubSeq(stream, from, c - 1)
    BY <1>0, <1>5, <1>6, <2>1, SentIs
  <2>. QED
    BY <1>5, <1>6, <2>2
<1>8. FieldOf(i, c + 1) = n + 1
  <2>1. FieldOf(i, c + 1) = FieldOf(i, c) + 1
    BY <1>1, FieldOfFacts
  <2>. QED
    BY <1>5, <2>1
<1>9. ASSUME NEW j \in 1 .. (n + 1) - 1  PROVE t.fields[j] = Sent(i, j)
  <2>. HIDE DEF n, i
  <2>1. j \in 1 .. n /\ (j = n \/ j \in 1 .. n - 1)
    BY <1>1
  <2>. QED
    BY <1>2, <1>5, <1>7, <2>1
<1>10. /\ c + 1 \in i .. c + 1 /\ (c + 1) - 1 = c /\ c + 1 <= BodyEnd(i)
  BY <1>1, <1>4
<1>11. t.fields[n + 1] = SubSeq(stream, c + 1, (c + 1) - 1)
  <2>1. SubSeq(stream, c + 1, (c + 1) - 1) = <<>>
    BY <1>1, SubSeqEmpty
  <2>. QED
    BY <1>2, <2>1
<1>12. t.at = i
  OBVIOUS
<1>. HIDE DEF n, i
<1>13. Made(t, c + 1)
  BY <1>2, <1>8, <1>9, <1>10, <1>11, <1>12 DEF Made
<1>. QED
  BY <1>1, <1>2, <1>13

\* At the '*' all fields are there; the digits follow, or parse ends.
LEMMA MadeStar ==
    ASSUME NEW s, NEW c, Reading(s, c), c <= Seen, stream[c] = "*",
           NEW d \in {c + 1, Seen + 1}
    PROVE  Made(s, d)
<1>. DEFINE n == Len(s.fields)
            i == s.at
<1>0. stream \in Seq(Token) /\ i \in 1 .. Len(stream)
  BY ReadingFacts DEF Reading
<1>1. /\ n \in Nat \ {0} /\ i \in Nat /\ c \in Nat /\ i <= c /\ BodyEnd(i) \in Nat
      /\ c \in i .. Seen /\ Seen \in Nat /\ i < BodyEnd(i)
  <2>1. s.at \in 1 .. Seen /\ c \in s.at .. Seen + 1
    BY DEF Reading, InLine
  <2>2. /\ n \in Nat \ {0} /\ i \in Nat /\ c \in Nat /\ Seen \in Nat
        /\ BodyEnd(i) \in i + 1 .. Len(stream) + 1
    BY ReadingFacts
  <2>. HIDE DEF n, i
  <2>. QED
    BY <2>1, <2>2 DEF n, i
<1>2. c = BodyEnd(i)
  <2>1. BodyEnd(s.at) < c => stream[c] # "*"
    BY <1>1, ReadingFacts
  <2>2. c \in s.at + 1 .. BodyEnd(s.at) - 1 => stream[c] # "*"
    BY ReadingFacts
  <2>3. c # i
    BY DEF Reading, InLine
  <2>. QED
    BY <1>1, <2>1, <2>2, <2>3
<1>3. n = FieldOf(i, c) /\ \A j \in 1 .. n - 1 : s.fields[j] = Sent(i, j)
  BY <1>1, <1>2 DEF Reading, Made
<1>4. PICK from \in i .. c : /\ from = i \/ stream[from - 1] = Comma
                             /\ FieldOf(i, from) = n
                             /\ s.fields[n] = SubSeq(stream, from, c - 1)
  BY <1>1, <1>2 DEF Reading, Made
<1>5. s.fields[n] = Sent(i, n) /\ Sent(i, n) \in Seq(Token)
  <2>1. c \in i .. BodyEnd(i)
    BY <1>1, <1>2
  <2>2. Sent(i, FieldOf(i, c)) = SubSeq(stream, from, c - 1)
    BY <1>0, <1>2, <1>3, <1>4, <2>1, SentIs
  <2>3. Sent(i, FieldOf(i, c)) \in Seq(Token)
    BY <1>0, <2>1, SentIsText
  <2>. QED
    BY <1>3, <1>4, <2>2, <2>3
<1>6. d = c + 1 => s.fields[n] = Sent(i, n) \o SubSeq(stream, BodyEnd(i) + 1, d - 1)
  <2>. SUFFICES ASSUME d = c + 1
                PROVE  s.fields[n] = Sent(i, n) \o SubSeq(stream, BodyEnd(i) + 1, d - 1)
    OBVIOUS
  <2>1. SubSeq(stream, BodyEnd(i) + 1, d - 1) = <<>>
    BY <1>1, <1>2, SubSeqEmpty
  <2>2. Sent(i, n) \o <<>> = Sent(i, n)
    BY <1>5, ConcatEmptySeq
  <2>. QED
    BY <1>5, <2>1, <2>2
<1>7. BodyEnd(i) < d
  BY <1>1, <1>2
<1>. HIDE DEF n
<1>. QED
  BY <1>2, <1>3, <1>5, <1>6, <1>7 DEF Made, n

\* The digits that were read are the first ones that were sent.
LEMMA DigitsRead ==
    ASSUME NEW s, Reading(s, Seen + 1), BodyEnd(s.at) < Seen + 1
    PROVE  SubSeq(stream, BodyEnd(s.at) + 1, Seen) \in Prefixes(Digits(s.at))
           /\ <<>> \in Prefixes(Digits(s.at))
<1>. DEFINE end == BodyEnd(s.at)
            last == Min({end + 2, Len(stream)})
<1>1. /\ stream \in Seq(Token) /\ Seen \in Nat /\ Seen <= Len(stream)
      /\ Len(stream) \in Nat
  BY DEF Reading
<1>2. end \in Nat \ {0} /\ end <= Seen /\ stream[end] = "*" /\ s.at < end
      /\ s.at \in Nat
  BY <1>1, ReadingFacts
<1>3. Seen <= end + 2
  <2>1. CASE end < Seen
    <3>1. Seen \in s.at .. Seen
      BY <1>1, <1>2
    <3>. QED
      BY <2>1, <3>1, ReadingFacts
  <2>2. CASE end = Seen
    BY <1>1, <2>2
  <2>. QED
    BY <1>1, <1>2, <2>1, <2>2
<1>4. last \in {end + 2, Len(stream)} /\ last <= end + 2 /\ last <= Len(stream)
  <2>1. {end + 2, Len(stream)} \in SUBSET Nat /\ {end + 2, Len(stream)} # {}
    BY <1>1, <1>2
  <2>. QED
    BY <2>1, MinFacts
<1>5. Digits(s.at) = SubSeq(stream, end + 1, last)
  <2>1. end \in PlacesOf(stream, {"*"})
    BY <1>1, <1>2 DEF PlacesOf
  <2>. QED
    BY <2>1 DEF Digits
<1>. HIDE DEF last, end
<1>6. last \in Nat /\ Seen <= last /\ last \in end .. Len(stream)
  BY <1>1, <1>2, <1>3, <1>4
<1>7. /\ Len(SubSeq(stream, end + 1, last)) = last - end
      /\ \A l \in 0 .. last - end :
            SubSeq(SubSeq(stream, end + 1, last), 1, l) = SubSeq(stream, end + 1, end + l)
  <2>1. end \in Nat /\ last \in end .. Len(stream)
    BY <1>2, <1>6
  <2>2. last - end \in (1 - 1) .. (last - end) /\ 1 \in 1 .. (last - end + 1)
        /\ end + (last - end) = last
    BY <1>2, <1>6
  <2>3. Len(SubSeq(stream, end + 1, end + (last - end))) = (last - end) - 1 + 1
    BY <1>1, <2>1, <2>2, WindowOfWindow
  <2>4. ASSUME NEW l \in 0 .. last - end
        PROVE  SubSeq(SubSeq(stream, end + 1, last), 1, l) = SubSeq(stream, end + 1, end + l)
    <3>1. l \in (1 - 1) .. (last - end)
      BY <2>4
    <3>. QED
      BY <1>1, <2>1, <2>2, <3>1, WindowOfWindow
  <2>. QED
    BY <1>2, <1>6, <2>2, <2>3, <2>4
<1>8. SubSeq(stream, end + 1, Seen) = SubSeq(SubSeq(stream, end + 1, last), 1, Seen - end)
      /\ Seen - end \in 0 .. last - end
  <2>1. Seen - end \in 0 .. last - end /\ end + (Seen - end) = Seen
    BY <1>1, <1>2, <1>6 DEF end
  <2>. QED
    BY <1>7, <2>1
<1>9. SubSeq(SubSeq(stream, end + 1, last), 1, 0) = <<>>
  BY SubSeqEmpty
<1>10. 0 \in 0 .. last - end
  BY <1>2, <1>6
<1>. QED
  BY <1>5, <1>7, <1>8, <1>9, <1>10 DEF Prefixes, end

\* What parse leaves is as it was sent.
LEMMA MadeAsSent ==
    ASSUME NEW s, Reading(s, Seen + 1)
    PROVE  AsSent(s)
<1>. DEFINE n == Len(s.fields)
            i == s.at
<1>0. stream \in Seq(Token) /\ i \in 1 .. Len(stream) /\ stream[i] = "$"
  BY ReadingFacts DEF Reading, InLine
<1>1. /\ n \in Nat \ {0} /\ i \in Nat /\ BodyEnd(i) \in Nat
      /\ Seen \in Nat /\ i < BodyEnd(i) /\ i <= Seen /\ Seen <= Len(stream)
      /\ Len(stream) \in Nat
  <2>1. s.at \in 1 .. Seen /\ Seen \in 0 .. Len(stream)
    BY DEF Reading, InLine
  <2>2. /\ n \in Nat \ {0} /\ i \in Nat /\ Seen \in Nat /\ Len(stream) \in Nat
        /\ BodyEnd(i) \in i + 1 .. Len(stream) + 1
    BY ReadingFacts
  <2>. HIDE DEF n, i
  <2>. QED
    BY <2>1, <2>2 DEF n, i
<1>2. \A j \in 1 .. n - 1 : s.fields[j] = Sent(i, j)
  BY DEF Reading, Made
<1>3. CASE Seen + 1 <= BodyEnd(i)
  <2>1. n = FieldOf(i, Seen + 1)
    BY <1>1, <1>3 DEF Reading, Made
  <2>2. PICK from \in i .. Seen + 1 :
            /\ from = i \/ stream[from - 1] = Comma
            /\ FieldOf(i, from) = n
            /\ s.fields[n] = SubSeq(stream, from, (Seen + 1) - 1)
    BY <1>1, <1>3 DEF Reading, Made
  <2>3. Seen + 1 \in i .. BodyEnd(i) /\ (Seen + 1) - 1 = Seen
    BY <1>1, <1>3
  <2>4. PICK to \in Seen + 1 .. BodyEnd(i) : Sent(i, n) = SubSeq(stream, from, to - 1)
    <3>1. FieldOf(i, from) = FieldOf(i, Seen + 1)
      BY <2>1, <2>2
    <3>2. \E to \in Seen + 1 .. BodyEnd(i) :
              Sent(i, FieldOf(i, Seen + 1)) = SubSeq(stream, from, to - 1)
      BY <1>0, <2>2, <2>3, <3>1, SentIsText
    <3>. QED
      BY <2>1, <3>2
  <2>5. n \in 1 .. FieldOf(i, BodyEnd(i))
    <3>1. FieldOf(i, Seen + 1) <= FieldOf(i, BodyEnd(i)) /\ FieldOf(i, BodyEnd(i)) \in Nat
      <4>1. i <= BodyEnd(i)
        BY <1>1
      <4>2. /\ FieldOf(i, BodyEnd(i)) \in Nat \ {0}
            /\ \A q \in i .. BodyEnd(i) : FieldOf(i, q) <= FieldOf(i, BodyEnd(i))
        BY <1>1, <4>1, FieldOfFacts
      <4>. QED
        BY <2>3, <4>2
    <3>. QED
      BY <1>1, <2>1, <3>1
  <2>6. IsPrefix(s.fields[n], Sent(i, n))
    <3>1. PICK a \in Nat : a = from - 1
      BY <1>0, <1>1
    <3>2. PICK e \in Nat : e = to - 1
      BY <1>1
    <3>3. /\ a + 1 = from /\ e \in a .. Len(stream) /\ Seen - a \in 0 .. e - a
          /\ 1 \in 1 .. (e - a + 1) /\ Seen - a \in (1 - 1) .. (e - a)
          /\ e - a \in (1 - 1) .. (e - a) /\ a + (Seen - a) = Seen /\ a + (e - a) = e
      <4>1. BodyEnd(i) <= Len(stream) + 1
        BY <1>0, BodyEndFacts
      <4>. QED
        BY <1>1, <3>1, <3>2, <4>1
    <3>4. /\ SubSeq(SubSeq(stream, a + 1, e), 1, Seen - a) = SubSeq(stream, a + 1, a + (Seen - a))
          /\ Len(SubSeq(stream, a + 1, a + (Seen - a))) = (Seen - a) - 1 + 1
          /\ SubSeq(stream, a + 1, a + (Seen - a)) \in Seq(Token)
      BY <1>0, <3>3, WindowOfWindow
    <3>5. Len(SubSeq(stream, a + 1, a + (e - a))) = (e - a) - 1 + 1
      BY <1>0, <3>3, WindowOfWindow
    <3>6. s.fields[n] = SubSeq(stream, a + 1, Seen) /\ Sent(i, n) = SubSeq(stream, a + 1, e)
      BY <2>2, <2>3, <2>4, <3>2, <3>3
    <3>7. Len(s.fields[n]) = Seen - a /\ Len(Sent(i, n)) = e - a
      BY <1>1, <3>3, <3>4, <3>5, <3>6
    <3>8. SubSeq(s.fields[n], 1, Len(s.fields[n])) = s.fields[n]
      BY <3>3, <3>4, <3>6, SubSeqFull
    <3>9. Len(s.fields[n]) <= Len(Sent(i, n))
      <4>. HIDE DEF n, i
      <4>. QED
        BY <1>1, <3>1, <3>2, <3>3, <3>7
    <3>10. SubSeq(Sent(i, n), 1, Len(s.fields[n])) = s.fields[n]
      BY <3>3, <3>4, <3>6, <3>7, Zenon
    <3>. QED
      BY <3>8, <3>9, <3>10, Zenon DEF IsPrefix
  <2>. HIDE DEF n
  <2>. QED
    BY <1>0, <1>2, <2>5, <2>6 DEF AsSent, n
<1>4. CASE BodyEnd(i) < Seen + 1
  <2>1. /\ n = FieldOf(i, BodyEnd(i))
        /\ \/ s.fields[n] = Sent(i, n) \o SubSeq(stream, BodyEnd(i) + 1, (Seen + 1) - 1)
           \/ s.fields[n] = Sent(i, n)
    <3>1. ~(Seen + 1 <= BodyEnd(i))
      BY <1>1, <1>4
    <3>. QED
      BY <3>1 DEF Reading, Made
  <2>2. Sent(i, n) \in Seq(Token)
    <3>1. BodyEnd(i) \in i .. BodyEnd(i)
      BY <1>1
    <3>. QED
      BY <1>0, <2>1, <3>1, SentIsText
  <2>3. Sent(i, n) = Sent(i, n) \o <<>> /\ (Seen + 1) - 1 = Seen
    BY <1>1, <2>2, ConcatEmptySeq
  <2>4. \E digits \in Prefixes(Digits(i)) : s.fields[n] = Sent(i, n) \o digits
    <3>1. SubSeq(stream, BodyEnd(i) + 1, Seen) \in Prefixes(Digits(i))
          /\ <<>> \in Prefixes(Digits(i))
      BY <1>4, DigitsRead
    <3>. QED
      BY <2>1, <2>3, <3>1
  <2>5. n \in 1 .. FieldOf(i, BodyEnd(i))
    BY <1>1, <2>1
  <2>. HIDE DEF n
  <2>. QED
    BY <1>0, <1>2, <2>1, <2>4, <2>5 DEF AsSent, n
<1>. QED
  BY <1>1, <1>3, <1>4

-----------------------------------------------------------------------------
\* The same stream, the same sentences: what was sent, and what was made of it.
LEMMA SameText ==
    ASSUME stream' = stream
    PROVE  /\ \A s : AsSent(s)' <=> AsSent(s)
           /\ \A s, c : c \in Nat /\ BodyEnd(s.at) \in Nat /\ c <= BodyEnd(s.at) =>
                     (Made(s, c) => Made(s, c)')
           /\ Seen' = Seen => \A s, c : Made(s, c)' <=> Made(s, c)
           /\ Seen' = Seen => \A s : InLine(s)' <=> InLine(s)
<1>1. \A s : AsSent(s)' <=> AsSent(s)
  BY DEF AsSent, Digits, Sent, FieldOf, BodyEnd, PlacesOf
<1>2. \A i : BodyEnd(i)' = BodyEnd(i)
  BY DEF BodyEnd, PlacesOf
<1>3. \A i, p : FieldOf(i, p)' = FieldOf(i, p)
  BY DEF FieldOf
<1>4. \A i, k : Sent(i, k)' = Sent(i, k)
  BY DEF Sent, FieldOf, BodyEnd, PlacesOf
<1>5. \A s, c : c \in Nat /\ BodyEnd(s.at) \in Nat /\ c <= BodyEnd(s.at) =>
          (Made(s, c) => Made(s, c)')
  <2>. SUFFICES ASSUME NEW s, NEW c, c <= BodyEnd(s.at), BodyEnd(s.at) \in Nat,
                       c \in Nat, Made(s, c)
                PROVE  Made(s, c)'
    OBVIOUS
  <2>. DEFINE i == s.at
              n == Len(s.fields)
  <2>1. ~(BodyEnd(i) < c)
    OBVIOUS
  <2>2. /\ \A j \in 1 .. n - 1 : s.fields[j] = Sent(i, j)
        /\ n = FieldOf(i, c)
    BY <2>1 DEF Made
  <2>3. PICK from \in i .. c : /\ from = i \/ stream[from - 1] = Comma
                               /\ FieldOf(i, from) = n
                               /\ s.fields[n] = SubSeq(stream, from, c - 1)
    BY <2>1 DEF Made
  <2>4. c <= BodyEnd(i)'
    BY <1>2
  <2>5. \A j \in 1 .. n - 1 : s.fields[j] = Sent(i, j)'
    BY <1>4, <2>2
  <2>6. n = FieldOf(i, c)' /\ FieldOf(i, from)' = n
    BY <1>3, <2>2, <2>3
  <2>7. /\ from = i \/ stream'[from - 1] = Comma
        /\ s.fields[n] = SubSeq(stream', from, c - 1)
    BY <2>3
  <2>. QED
    BY <2>4, <2>5, <2>6, <2>7 DEF Made
<1>6. Seen' = Seen => \A s, c : Made(s, c)' <=> Made(s, c)
  <2>. HIDE DEF Seen
  <2>. QED
    BY DEF Made, Sent, FieldOf, BodyEnd, PlacesOf
<1>7. Seen' = Seen => \A s : InLine(s)' <=> InLine(s)
  BY DEF InLine
<1>. QED
  BY <1>1, <1>5, <1>6, <1>7

Sentences == [at : Nat, fields : Seq(Seq(Token))]

\* The sentence at hand while parse runs, and the one it leaves.
SentenceInv ==
    /\ sentence \in Sentences /\ called \in Seq(Sentences)
    /\ sentence = Empty => chr = 0
    /\ sentence # Empty =>
        /\ InLine(sentence)
        /\ IF chr = 0 THEN AsSent(sentence)
           ELSE chr \in sentence.at .. Seen + 1 /\ Made(sentence, chr)
    /\ OnlyLastIsCut

\* The radio speaks one protocol.
ProtocolInv ==
    /\ useNativeProtocol = (stream \notin Lines)
    /\ useNativeProtocol => sentence = Empty
    /\ ~useNativeProtocol => nativeMsg = <<>>

LineInv == IInv /\ ProtocolInv /\ SentenceInv

LEMMA FramingInitInv == FramingInit => LineInv
<1>. SUFFICES ASSUME FramingInit  PROVE LineInv
  OBVIOUS
<1>1. IInv
  BY InitInv DEF FramingInit
<1>2. ProtocolInv
  BY DEF FramingInit, Init, ProtocolInv
<1>3. SentenceInv
  BY DEF FramingInit, SentenceInv, Sentences, Empty, OnlyLastIsCut
<1>. QED
  BY <1>1, <1>2, <1>3 DEF LineInv

\* A step that parse does not take part in.
LEMMA OtherStepInv ==
    ASSUME LineInv, IInv', stream' = stream, Seen' = Seen \/ sentence = Empty,
           UNCHANGED lineVars, useNativeProtocol \/ nativeMsg' = nativeMsg
    PROVE  LineInv'
<1>1. ProtocolInv'
  BY DEF LineInv, ProtocolInv, lineVars
<1>2. SentenceInv'
  <2>1. OnlyLastIsCut'
    BY SameText DEF LineInv, SentenceInv, OnlyLastIsCut, lineVars
  <2>2. CASE sentence = Empty
    BY <2>1, <2>2 DEF LineInv, SentenceInv, lineVars, Empty
  <2>3. CASE Seen' = Seen
    <3>. HIDE DEF Seen
    <3>1. sentence' = sentence /\ chr' = chr /\ called' = called
      BY DEF lineVars
    <3>2. /\ InLine(sentence)' <=> InLine(sentence)
          /\ AsSent(sentence)' <=> AsSent(sentence)
          /\ Made(sentence, chr)' <=> Made(sentence, chr)
      BY <2>3, <3>1, SameText
    <3>. QED
      BY <2>1, <2>3, <3>1, <3>2 DEF LineInv, SentenceInv, Empty
  <2>. QED
    BY <2>2, <2>3
<1>. QED
  BY <1>1, <1>2 DEF LineInv

\* What is known of the state when sentences are cut.
LEMMA LineFacts ==
    ASSUME LineInv, ~useNativeProtocol
    PROVE  /\ stream \in Lines /\ stream \in Seq(Token) /\ Len(stream) \in Nat
           /\ Seen \in 0 .. Len(stream) /\ Seen \in Nat /\ nativeMsg = <<>>
           /\ arrived \in Nat /\ Seen <= arrived /\ arrived <= Len(stream)
           /\ input \in Seq(Token) /\ Len(input) = arrived - Seen /\ Len(input) \in Nat
           /\ chr # 0 => Reading(sentence, chr) /\ chr \in Nat
<1>1. IInv /\ ProtocolInv /\ SentenceInv
  BY DEF LineInv
<1>2. /\ stream \in Seq(Token) /\ Seen \in 0 .. arrived /\ arrived \in 0 .. Len(stream)
      /\ input \in Seq(Token) /\ Len(input) = arrived - Seen
  BY <1>1, Geometry
<1>3. stream \in Lines /\ nativeMsg = <<>>
  BY <1>1 DEF ProtocolInv
<1>. HIDE DEF Seen
<1>4. Seen \in 0 .. Len(stream) /\ Len(stream) \in Nat
  BY <1>2
<1>5. chr # 0 => Reading(sentence, chr) /\ chr \in Nat
  <2>. SUFFICES ASSUME chr # 0  PROVE Reading(sentence, chr) /\ chr \in Nat
    OBVIOUS
  <2>1. InLine(sentence) /\ chr \in sentence.at .. Seen + 1 /\ Made(sentence, chr)
    BY <1>1 DEF SentenceInv
  <2>2. sentence.at \in 1 .. Seen
    BY <2>1 DEF InLine
  <2>. QED
    BY <1>2, <1>3, <1>4, <2>1, <2>2 DEF Reading
<1>. QED
  BY <1>2, <1>3, <1>4, <1>5

\* The tokens of the input.
LEMMA InputToken ==
    ASSUME IInv, NEW k \in 1 .. Len(input)
    PROVE  input[k] = stream[Seen + k]
<1>1. /\ stream \in Seq(Token) /\ Seen \in Nat /\ arrived \in Seen .. Len(stream)
      /\ Len(input) = arrived - Seen /\ input = SubSeq(stream, Seen + 1, arrived)
  BY Geometry
<1>2. \A j \in Seen + 1 .. arrived : stream[j] \in Token
  BY <1>1
<1>. HIDE DEF Seen
<1>3. \A j \in 1 .. arrived - (Seen + 1) + 1 :
          SubSeq(stream, Seen + 1, arrived)[j] = stream[(Seen + 1) + j - 1]
  BY <1>1, <1>2, SubSeqProperties
<1>4. k \in 1 .. arrived - (Seen + 1) + 1 /\ (Seen + 1) + k - 1 = Seen + k
  BY <1>1
<1>. QED
  BY <1>1, <1>3, <1>4

\* Looking on in the input without an open message.
LEMMA LookOn ==
    ASSUME IInv, nativeMsg = <<>>, UNCHANGED <<stream, arrived, cuts, nativeMsg, messages>>,
           \/ input' = input
           \/ input' = <<>>
           \/ \E t \in 0 .. Len(input) : input' = From(input, t + 1)
    PROVE  IInv'
<1>1. arrived \in Nat /\ Len(input) \in Nat /\ Len(input) <= arrived
      /\ input \in Seq(Token) /\ input = SubSeq(stream, Seen + 1, arrived)
  BY Geometry
<1>2. /\ input' = SubSeq(stream, Seen' + 1, arrived)
      /\ input' \in Seq(Token) /\ Len(input') <= arrived /\ Len(input') \in Nat
  <2>1. CASE input' = input
    BY <1>1, <2>1 DEF Seen
  <2>2. CASE input' = <<>>
    BY <1>1, <2>2, AllSeen
  <2>3. ASSUME NEW t \in 0 .. Len(input), input' = From(input, t + 1)
        PROVE  /\ input' = SubSeq(stream, Seen' + 1, arrived)
               /\ input' \in Seq(Token) /\ Len(input') = Len(input) - t
    BY <2>3, RestOfInput
  <2>. HIDE DEF Seen
  <2>. QED
    BY <1>1, <2>1, <2>2, <2>3
<1>3. Len(nativeMsg') = 0
  OBVIOUS
<1>4. TypeOK'
  <2>. HIDE DEF Seen
  <2>. QED
    BY <1>1, <1>2, <1>3 DEF IInv, TypeOK
<1>. QED
  BY <1>2, <1>4 DEF IInv, OpenIsStretch

\* Where extractAndParse finds the sentence in the input, and where its line ends.
LEMMA ExtractFacts ==
    ASSUME input \in Seq(Token), Extract
    PROVE  LET start == Min(PlacesOf(input, {"$"})) IN
           \E end \in start + 1 .. Len(input) + 1 :
               /\ start \in 1 .. Len(input) /\ input[start] = "$"
               /\ \A k \in 1 .. start - 1 : input[k] # "$"
               /\ \A k \in start .. end - 1 : input[k] # "E"
               /\ end <= Len(input) => input[end] = "E"
               /\ chr = 0 /\ chr' = Seen + start
               /\ sentence' = [at |-> Seen + start, fields |-> Cleared]
               /\ sentence'.at = Seen + start
               /\ input' = From(input, end) /\ called' = called
<1>. DEFINE start == Min(PlacesOf(input, {"$"}))
            ends == {i \in PlacesOf(input, {"E"}) : i > start} \union {Len(input) + 1}
            end == Min(ends)
<1>1. /\ start \in 1 .. Len(input) /\ input[start] = "$"
      /\ \A k \in 1 .. start - 1 : input[k] # "$"
  <2>1. PlacesOf(input, {"$"}) \in SUBSET Nat /\ PlacesOf(input, {"$"}) # {}
    BY DEF PlacesOf, Extract
  <2>2. /\ Min(PlacesOf(input, {"$"})) \in PlacesOf(input, {"$"})
        /\ \A k \in PlacesOf(input, {"$"}) : Min(PlacesOf(input, {"$"})) <= k
    BY <2>1, MinFacts
  <2>3. start \in 1 .. Len(input) /\ input[start] = "$"
    BY <2>2 DEF PlacesOf
  <2>4. \A k \in 1 .. Len(input) : input[k] = "$" => start <= k
    BY <2>2 DEF PlacesOf
  <2>. HIDE DEF start
  <2>. QED
    BY <2>3, <2>4
<1>2. /\ end \in start + 1 .. Len(input) + 1
      /\ \A k \in start .. end - 1 : input[k] # "E"
      /\ end <= Len(input) => input[end] = "E"
  <2>. HIDE DEF start
  <2>1. ends \in SUBSET Nat /\ ends # {} /\ \A k \in ends : k \in start + 1 .. Len(input) + 1
    BY <1>1 DEF PlacesOf
  <2>2. \A k \in start + 1 .. Len(input) : input[k] = "E" => k \in ends
    BY <1>1 DEF PlacesOf
  <2>3. \A k \in ends : k <= Len(input) => input[k] = "E"
    BY DEF PlacesOf
  <2>. HIDE DEF ends
  <2>4. end \in ends /\ \A k \in ends : end <= k
    BY <2>1, MinFacts
  <2>5. end \in start + 1 .. Len(input) + 1
    BY <2>1, <2>4
  <2>. HIDE DEF end
  <2>. QED
    BY <1>1, <2>2, <2>3, <2>4, <2>5
<1>3. /\ chr = 0 /\ chr' = Seen + start
      /\ sentence' = [at |-> Seen + start, fields |-> Cleared]
      /\ input' = From(input, end) /\ called' = called
  BY DEF Extract, Rest
<1>. HIDE DEF start, end, Seen
<1>. QED
  BY <1>1, <1>2, <1>3 DEF start

\* A sentence begins.
LEMMA ExtractInv ==
    ASSUME LineInv, ~useNativeProtocol, Extract,
           UNCHANGED <<stream, arrived, cuts, nativeMsg, messages, useNativeProtocol>>
    PROVE  LineInv'
<1>. DEFINE start == Min(PlacesOf(input, {"$"}))
            at == Seen + start
<1>1. /\ stream \in Lines /\ stream \in Seq(Token) /\ Seen \in Nat
      /\ arrived \in Nat /\ arrived <= Len(stream) /\ nativeMsg = <<>>
      /\ input \in Seq(Token) /\ Len(input) = arrived - Seen /\ Len(input) \in Nat
      /\ Len(stream) \in Nat
  BY LineFacts
<1>2. IInv /\ ProtocolInv /\ SentenceInv
  BY DEF LineInv
<1>3. PICK end \in start + 1 .. Len(input) + 1 :
          /\ start \in 1 .. Len(input) /\ input[start] = "$"
          /\ \A k \in start .. end - 1 : input[k] # "E"
          /\ sentence' = [at |-> at, fields |-> Cleared] /\ chr' = at
          /\ input' = From(input, end) /\ called' = called /\ chr = 0
  BY <1>1, ExtractFacts
<1>4. end \in start + 1 .. Len(input) + 1 /\ \A k \in start .. end - 1 : input[k] # "E"
  BY <1>3
<1>5. /\ sentence' = [at |-> at, fields |-> Cleared] /\ chr' = at
      /\ input' = From(input, end) /\ called' = called /\ chr = 0
  BY <1>3
<1>. HIDE DEF start
<1>6. end - 1 \in 0 .. Len(input) /\ (end - 1) + 1 = end
  BY <1>1, <1>3, <1>4
<1>7. Seen' = Seen + (end - 1)
  BY <1>2, <1>5, <1>6, RestOfInput
<1>8. IInv'
  BY <1>1, <1>2, <1>5, <1>6, LookOn
<1>. HIDE DEF Seen
<1>9. ProtocolInv'
  BY <1>2 DEF ProtocolInv
<1>10. /\ at \in 1 .. Seen' /\ at \in 1 .. Len(stream) /\ at \in Nat /\ Seen' \in Nat
  BY <1>1, <1>3, <1>4, <1>7
<1>11. stream[at] = "$"
  BY <1>2, <1>3, InputToken
<1>12. \A e \in at .. Seen' : stream[e] # "E"
  <2>. TAKE e \in at .. Seen'
  <2>1. PICK k \in Nat : k = e - Seen
    BY <1>1, <1>3, <1>10
  <2>2. k \in 1 .. Len(input) /\ k \in start .. end - 1 /\ Seen + k = e
    BY <1>1, <1>3, <1>4, <1>7, <1>10, <2>1
  <2>. QED
    BY <1>2, <1>4, <2>2, InputToken
<1>. HIDE DEF at
<1>13. sentence'.at = at /\ sentence'.fields = <<<<>>>> /\ sentence' \in Sentences
       /\ sentence' # Empty
  BY <1>5, <1>10 DEF Cleared, Sentences, Empty
<1>14. InLine(sentence)'
  BY <1>10, <1>11, <1>12, <1>13 DEF InLine
<1>15. Made(sentence, chr)'
  <2>1. BodyEnd(at) \in at + 1 .. Len(stream) + 1
    BY <1>1, <1>10, BodyEndFacts
  <2>2. BodyEnd(at) \in Nat /\ at < BodyEnd(at)
    BY <1>10, <2>1
  <2>3. Made([at |-> at, fields |-> Cleared], at)
    BY <1>10, <1>11, <2>2, MadeNothing
  <2>4. at <= BodyEnd(at)
    BY <1>10, <2>2
  <2>5. Made(sentence', chr')
    BY <1>5, <2>3
  <2>6. chr' \in Nat /\ BodyEnd(sentence'.at) \in Nat /\ chr' <= BodyEnd(sentence'.at)
    BY <1>5, <1>10, <1>13, <2>2, <2>4
  <2>7. \A s, c : c \in Nat /\ BodyEnd(s.at) \in Nat /\ c <= BodyEnd(s.at) =>
            (Made(s, c) => Made(s, c)')
    BY SameText
  <2>. QED
    BY <2>5, <2>6, <2>7
<1>16. OnlyLastIsCut'
  BY <1>2, <1>5, SameText DEF SentenceInv, OnlyLastIsCut
<1>17. chr' # 0 /\ chr' \in sentence'.at .. Seen' + 1
  <2>1. \A a, z \in Nat : a \in 1 .. z => a # 0 /\ a \in a .. z + 1
    OBVIOUS
  <2>2. chr' = at /\ sentence'.at = at
    BY <1>5, <1>13
  <2>3. at # 0 /\ at \in at .. Seen' + 1
    BY <1>10, <2>1
  <2>. QED
    BY <2>2, <2>3
<1>18. called' \in Seq(Sentences)
  BY <1>2, <1>5 DEF SentenceInv
<1>19. SentenceInv'
  BY <1>13, <1>14, <1>15, <1>16, <1>17, <1>18 DEF SentenceInv
<1>. QED
  BY <1>8, <1>9, <1>19 DEF LineInv

\* A turn of the loop of parse.
LEMMA ParseStepInv ==
    ASSUME LineInv, ~useNativeProtocol, chr # 0, called' = called,
           sentence' \in Sentences, sentence'.at = sentence.at, sentence'.fields # <<>>,
           chr' \in sentence.at .. Seen + 1, Made(sentence', chr'),
           UNCHANGED <<stream, arrived, cuts, input, nativeMsg, messages,
                       useNativeProtocol>>
    PROVE  LineInv'
<1>1. IInv /\ ProtocolInv /\ SentenceInv
  BY DEF LineInv
<1>2. Reading(sentence, chr) /\ nativeMsg = <<>>
  BY LineFacts
<1>3. IInv'
  BY <1>1, <1>2, LookOn
<1>4. ProtocolInv'
  BY <1>1, <1>2, ReadingFacts DEF ProtocolInv
<1>5. Seen' = Seen
  BY DEF Seen
<1>. HIDE DEF Seen
<1>6. InLine(sentence) /\ InLine(sentence')
  BY <1>2 DEF Reading, InLine, Sentences
<1>7. sentence.at \in 1 .. Seen /\ sentence.at \in Nat
  BY <1>2, ReadingFacts DEF Reading, InLine
<1>8. InLine(sentence)' /\ Made(sentence, chr)'
  BY <1>5, <1>6, SameText
<1>9. OnlyLastIsCut'
  BY <1>1, SameText DEF SentenceInv, OnlyLastIsCut
<1>10. sentence' # Empty /\ chr' # 0 /\ chr' \in sentence'.at .. Seen' + 1
  BY <1>5, <1>7 DEF Empty
<1>11. SentenceInv'
  BY <1>1, <1>8, <1>9, <1>10 DEF SentenceInv
<1>. QED
  BY <1>3, <1>4, <1>11 DEF LineInv

LEMMA ParseInv ==
    ASSUME LineInv, ~useNativeProtocol, AddChar \/ AddField \/ CheckSum,
           UNCHANGED <<stream, arrived, cuts, nativeMsg, messages, useNativeProtocol>>
    PROVE  LineInv'
<1>1. /\ chr \in 1 .. Seen /\ chr # 0 /\ chr <= Seen
      /\ called' = called /\ input' = input
  BY DEF AddChar, AddField, CheckSum, Parsing
<1>2. Reading(sentence, chr) /\ chr \in Nat /\ Seen \in Nat /\ sentence \in Sentences
  BY <1>1, LineFacts DEF LineInv, SentenceInv
<1>3. /\ sentence.fields \in Seq(Seq(Token)) /\ Len(sentence.fields) \in Nat \ {0}
      /\ sentence.at \in Nat /\ sentence.at <= chr
      /\ sentence = [at |-> sentence.at, fields |-> sentence.fields]
  BY <1>2, ReadingFacts DEF Reading, Sentences
<1>. HIDE DEF Seen
<1>4. CASE AddChar
  <2>1. stream[chr] \notin {"*", Comma} /\ chr' = chr + 1
    BY <1>4 DEF AddChar, Parsing
  <2>2. sentence'.at = sentence.at
        /\ sentence'.fields = [sentence.fields EXCEPT ![Len(sentence.fields)] =
                                   Append(@, stream[chr])]
        /\ sentence' = [at |-> sentence'.at, fields |-> sentence'.fields]
    BY <1>3, <1>4 DEF AddChar
  <2>3. /\ Made(sentence', chr + 1) /\ sentence'.fields \in Seq(Seq(Token))
        /\ sentence'.fields # <<>>
    <3>1. PICK t : t = sentence'
      OBVIOUS
    <3>2. Made(t, chr + 1) /\ t.fields \in Seq(Seq(Token)) /\ t.fields # <<>>
      BY <1>1, <1>2, <2>1, <2>2, <3>1, MadeChar
    <3>. QED
      BY <3>1, <3>2
  <2>4. sentence' \in Sentences
    BY <1>3, <2>2, <2>3 DEF Sentences
  <2>5. chr' \in sentence.at .. Seen + 1
    BY <1>1, <1>2, <1>3, <2>1
  <2>. QED
    BY <1>1, <2>1, <2>2, <2>3, <2>4, <2>5, ParseStepInv
<1>5. CASE AddField
  <2>1. stream[chr] = Comma /\ chr' = chr + 1
    BY <1>5 DEF AddField, Parsing
  <2>2. sentence'.at = sentence.at /\ sentence'.fields = Append(sentence.fields, <<>>)
        /\ sentence' = [at |-> sentence'.at, fields |-> sentence'.fields]
    BY <1>3, <1>5 DEF AddField
  <2>3. /\ Made(sentence', chr + 1) /\ sentence'.fields \in Seq(Seq(Token))
        /\ sentence'.fields # <<>>
    <3>1. PICK t : t = sentence'
      OBVIOUS
    <3>2. Made(t, chr + 1) /\ t.fields \in Seq(Seq(Token)) /\ t.fields # <<>>
      BY <1>1, <1>2, <2>1, <2>2, <3>1, MadeField
    <3>. QED
      BY <3>1, <3>2
  <2>4. sentence' \in Sentences
    BY <1>3, <2>2, <2>3 DEF Sentences
  <2>5. chr' \in sentence.at .. Seen + 1
    BY <1>1, <1>2, <1>3, <2>1
  <2>. QED
    BY <1>1, <2>1, <2>2, <2>3, <2>4, <2>5, ParseStepInv
<1>6. CASE CheckSum
  <2>1. stream[chr] = "*" /\ chr' \in {chr + 1, Seen + 1} /\ sentence' = sentence
    BY <1>6 DEF CheckSum, Parsing
  <2>2. Made(sentence, chr')
    BY <1>1, <1>2, <2>1, MadeStar
  <2>3. chr' \in sentence.at .. Seen + 1
    BY <1>1, <1>2, <1>3, <2>1
  <2>4. sentence'.fields # <<>>
    BY <1>3, <2>1
  <2>. QED
    BY <1>1, <1>2, <2>1, <2>2, <2>3, <2>4, ParseStepInv
<1>. QED
  BY <1>4, <1>5, <1>6

\* A call with the sentence as parse left it.
LEMMA CallBackInv ==
    ASSUME LineInv, ~useNativeProtocol, Call \/ NoMore,
           UNCHANGED <<stream, arrived, cuts, nativeMsg, messages, useNativeProtocol>>
    PROVE  LineInv'
<1>1. IInv /\ ProtocolInv /\ SentenceInv
  BY DEF LineInv
<1>2. nativeMsg = <<>> /\ Seen \in Nat
  BY LineFacts
<1>3. IInv'
  <2>1. input' = input \/ input' = <<>>
    BY DEF Call, NoMore
  <2>. QED
    BY <1>1, <1>2, <2>1, LookOn
<1>4. ProtocolInv'
  BY <1>1 DEF ProtocolInv
<1>5. CASE Call
  <2>1. /\ chr > Seen /\ chr' = 0 /\ called' = Append(called, sentence)
        /\ sentence' = sentence /\ Seen' = Seen
    BY <1>5 DEF Call, Seen
  <2>2. chr # 0 /\ sentence # Empty
    BY <1>1, <1>2, <2>1 DEF SentenceInv
  <2>3. Reading(sentence, chr) /\ chr = Seen + 1
    <3>. HIDE DEF Seen
    <3>1. Reading(sentence, chr) /\ chr \in Nat
      BY <2>2, LineFacts
    <3>2. chr <= Seen + 1
      BY <3>1 DEF Reading
    <3>. QED
      BY <1>2, <2>1, <3>1, <3>2
  <2>. HIDE DEF Seen
  <2>4. AsSent(sentence)
    BY <2>3, MadeAsSent
  <2>5. AsSent(sentence)' /\ InLine(sentence)'
    BY <2>1, <2>3, <2>4, SameText DEF Reading
  <2>6. called' \in Seq(Sentences) /\ \A k \in DOMAIN called' : AsSent(called'[k])
    <3>1. called \in Seq(Sentences) /\ sentence \in Sentences
          /\ \A k \in DOMAIN called : AsSent(called[k])
      BY <1>1 DEF SentenceInv, OnlyLastIsCut
    <3>. QED
      BY <2>1, <2>4, <3>1, AppendProperties
  <2>7. OnlyLastIsCut'
    BY <2>6, SameText DEF OnlyLastIsCut
  <2>8. SentenceInv'
    BY <1>1, <2>1, <2>2, <2>5, <2>6, <2>7 DEF SentenceInv
  <2>. QED
    BY <1>3, <1>4, <2>8 DEF LineInv
<1>6. CASE NoMore
  <2>1. /\ chr = 0 /\ chr' = 0 /\ sentence' = Empty
        /\ called' = IF sentence # Empty THEN Append(called, sentence) ELSE called
    BY <1>6 DEF NoMore
  <2>2. called' \in Seq(Sentences) /\ \A k \in DOMAIN called' : AsSent(called'[k])
    <3>1. called \in Seq(Sentences) /\ sentence \in Sentences
          /\ (\A k \in DOMAIN called : AsSent(called[k]))
          /\ (sentence # Empty => AsSent(sentence))
      BY <1>1, <2>1 DEF SentenceInv, OnlyLastIsCut
    <3>. QED
      BY <2>1, <3>1, AppendProperties
  <2>3. OnlyLastIsCut'
    BY <2>2, SameText DEF OnlyLastIsCut
  <2>4. sentence' \in Sentences
    BY <2>1 DEF Sentences, Empty
  <2>5. SentenceInv'
    BY <2>1, <2>2, <2>3, <2>4 DEF SentenceInv
  <2>. QED
    BY <1>3, <1>4, <2>5 DEF LineInv
<1>. QED
  BY <1>5, <1>6

-----------------------------------------------------------------------------
\* The calls for the sentences that begin in the buffers.

Calls(i) == {k \in DOMAIN called : called[k].at = i}

\* Buffers end at or before what was looked at, or where the last one ends.
BufferInv ==
    /\ arrived # 0 => arrived \in cuts
    /\ \A c \in cuts : c <= Seen \/ c = arrived

\* Buffers are cut behind what was looked at; between two sentences of a buffer
\* lies the end of a line.
CutInv ==
    /\ BufferInv
    /\ Seen = 0 \/ Seen \in cuts \/ stream[Seen + 1] = "E"
    /\ sentence = Empty => Seen \in cuts \union {0}

\* The sentence at hand is the last that began, and its buffer the last.
AtHandInv ==
    sentence # Empty =>
        /\ sentence.at \in Starts
        /\ \A i \in Starts : i <= sentence.at
        /\ cuts \intersect sentence.at .. arrived - 1 = {}

OrderInv ==
    \A k \in DOMAIN called :
        called[k].at \in Starts /\ \A l \in 1 .. k : called[l].at <= called[k].at

DueInv == \A i \in DOMAIN stream : Cardinality(Calls(i)) = Due(i)

CallInv == ~useNativeProtocol => CutInv /\ AtHandInv /\ OrderInv /\ DueInv

LEMMA CallsFacts ==
    ASSUME called \in Seq(Sentences), sentence \in Sentences, NEW i
    PROVE  /\ Cardinality(Calls(i)) \in Nat
           /\ called' = called => Cardinality(Calls(i))' = Cardinality(Calls(i))
           /\ called' = Append(called, sentence) =>
                 Cardinality(Calls(i))' = Cardinality(Calls(i)) +
                                              IF sentence.at = i THEN 1 ELSE 0
<1>1. IsFiniteSet(Calls(i)) /\ Cardinality(Calls(i)) \in Nat
  <2>1. Calls(i) \in SUBSET (1 .. Len(called)) /\ IsFiniteSet(1 .. Len(called))
    BY FS_Interval DEF Calls
  <2>. QED
    BY <2>1, FS_Subset, FS_CardinalityType
<1>2. called' = called => Cardinality(Calls(i))' = Cardinality(Calls(i))
  BY DEF Calls
<1>3. ASSUME called' = Append(called, sentence)
      PROVE  Cardinality(Calls(i))' = Cardinality(Calls(i)) +
                                          IF sentence.at = i THEN 1 ELSE 0
  <2>. DEFINE n == Len(called) + 1
  <2>1. /\ Len(called') = n /\ n \in Nat \ {0} /\ DOMAIN called' = 1 .. n
        /\ DOMAIN called = 1 .. n - 1 /\ called'[n] = sentence
        /\ \A k \in 1 .. n - 1 : called'[k] = called[k]
        /\ n \notin DOMAIN called
    BY <1>3, AppendProperties
  <2>. HIDE DEF n
  <2>2. Calls(i)' = {k \in 1 .. n : called'[k].at = i}
    BY <2>1 DEF Calls
  <2>3. Calls(i) = {k \in 1 .. n - 1 : called[k].at = i}
    BY <2>1 DEF Calls
  <2>4. CASE sentence.at = i
    <3>0. 1 .. n = (1 .. n - 1) \union {n}
      BY <2>1
    <3>1. Calls(i)' = Calls(i) \union {n}
      BY <2>1, <2>2, <2>3, <2>4, <3>0
    <3>2. n \notin Calls(i)
      BY <2>1 DEF Calls
    <3>3. Cardinality(Calls(i) \union {n}) = Cardinality(Calls(i)) + 1
      BY <1>1, <3>2, FS_AddElement
    <3>. QED
      BY <2>4, <3>1, <3>3
  <2>5. CASE sentence.at # i
    <3>1. Calls(i)' = Calls(i)
      BY <2>1, <2>2, <2>3, <2>5
    <3>. QED
      BY <1>1, <2>5, <3>1
  <2>. QED
    BY <2>4, <2>5
<1>. QED
  BY <1>1, <1>2, <1>3

LEMMA StartsFacts ==
    ASSUME stream \in Seq(Token), Seen \in Nat
    PROVE  /\ Starts \in SUBSET (1 .. Seen) /\ Starts \in SUBSET (DOMAIN stream)
           /\ Starts \in SUBSET (Nat \ {0})
BY DEF Starts, PlacesOf

\* Cuts behind what was looked at change no place where a sentence begins.
LEMMA SameStarts ==
    ASSUME stream \in Seq(Token), stream' = stream, Seen' = Seen, Seen \in Nat,
           cuts \subseteq Nat, cuts \subseteq cuts', \A c \in cuts' : c \in cuts \/ c > Seen
    PROVE  Starts' = Starts
<1>. HIDE DEF Seen
<1>1. ASSUME NEW i \in DOMAIN stream, NEW j \in 1 .. i - 1, i <= Seen, i \in Nat
      PROVE  (\E e \in j .. i - 1 : e \in cuts' \/ stream'[e] = "E") <=>
             (\E e \in j .. i - 1 : e \in cuts \/ stream[e] = "E")
  <2>1. \A e \in j .. i - 1 : e \in cuts' <=> e \in cuts
    BY <1>1
  <2>. QED
    BY <2>1
<1>2. ASSUME NEW i \in Nat, i <= Seen
      PROVE  i \in Starts' <=> i \in Starts
  BY <1>1, <1>2 DEF Starts, PlacesOf
<1>3. \A i \in Starts : i \in Nat /\ i <= Seen
  BY DEF Starts, PlacesOf
<1>4. \A i \in Starts' : i \in Nat /\ i <= Seen
  BY DEF Starts, PlacesOf
<1>. QED
  BY <1>2, <1>3, <1>4

LEMMA SameDue ==
    ASSUME Starts' = Starts, \A i \in Starts : BufferEnd(i)' = BufferEnd(i),
           sentence'.at = sentence.at, chr' = 0 <=> chr = 0
    PROVE  \A i : Due(i)' = Due(i)
BY DEF Due

\* A call for the last sentence that began comes behind the others.
LEMMA AppendOrder ==
    ASSUME OrderInv, Starts' = Starts, Starts \in SUBSET Nat,
           called \in Seq(Sentences), sentence \in Sentences,
           sentence.at \in Starts, \A i \in Starts : i <= sentence.at,
           called' = Append(called, sentence)
    PROVE  OrderInv'
<1>. DEFINE n == Len(called) + 1
<1>1. /\ n \in Nat /\ DOMAIN called' = 1 .. n /\ called'[n] = sentence
      /\ \A k \in 1 .. n - 1 : called'[k] = called[k] /\ k \in DOMAIN called
  BY AppendProperties
<1>. HIDE DEF n
<1>2. \A k \in 1 .. n : called'[k].at \in Starts
  BY <1>1 DEF OrderInv
<1>3. ASSUME NEW k \in 1 .. n, NEW l \in 1 .. k
      PROVE  called'[l].at <= called'[k].at
  <2>1. CASE k = n
    BY <1>1, <1>2, <1>3, <2>1
  <2>2. CASE k # n
    BY <1>1, <1>3, <2>2 DEF OrderInv
  <2>. QED
    BY <2>1, <2>2
<1>. QED
  BY <1>1, <1>2, <1>3 DEF OrderInv

\* What is known of the state when calls are counted.
LEMMA CallFacts ==
    ASSUME LineInv, CallInv, ~useNativeProtocol
    PROVE  /\ IInv /\ CutInv /\ AtHandInv /\ OrderInv /\ DueInv
           /\ stream \in Seq(Token) /\ Seen \in Nat /\ arrived \in Nat
           /\ Seen <= arrived /\ arrived <= Len(stream) /\ cuts \subseteq Nat
           /\ input \in Seq(Token) /\ Len(input) \in Nat /\ Len(input) = arrived - Seen
           /\ called \in Seq(Sentences) /\ sentence \in Sentences
           /\ sentence = Empty => chr = 0
           /\ sentence # Empty => InLine(sentence)
<1>1. IInv /\ SentenceInv /\ CutInv /\ AtHandInv /\ OrderInv /\ DueInv
  BY DEF LineInv, CallInv
<1>2. cuts \subseteq Nat
  BY <1>1, Geometry DEF IInv, TypeOK
<1>3. /\ called \in Seq(Sentences) /\ sentence \in Sentences
      /\ sentence = Empty => chr = 0
      /\ sentence # Empty => InLine(sentence)
  BY <1>1 DEF SentenceInv
<1>. HIDE DEF Seen
<1>. QED
  BY <1>1, <1>2, <1>3, LineFacts

\* A buffer arrives: its sentences have not begun yet.
LEMMA ArriveCalls ==
    ASSUME LineInv, CallInv, ~useNativeProtocol, sentence = Empty,
           NEW n \in 1..(Len(stream) - arrived), Arrive(n), UNCHANGED lineVars
    PROVE  CallInv'
<1>1. /\ stream \in Seq(Token) /\ Seen \in Nat /\ arrived \in Nat /\ n \in Nat /\ n > 0
      /\ Seen = arrived /\ cuts \subseteq Nat /\ chr = 0
      /\ CutInv /\ OrderInv /\ DueInv
  <2>1. Len(input) = 0
    BY DEF Arrive
  <2>2. sentence = Empty
    OBVIOUS
  <2>. HIDE DEF Seen
  <2>. QED
    BY <2>1, <2>2, CallFacts
<1>2. /\ stream' = stream /\ Seen' = Seen /\ arrived' = arrived + n
      /\ cuts' = cuts \union {arrived + n}
      /\ sentence' = sentence /\ chr' = chr /\ called' = called
      /\ useNativeProtocol' = useNativeProtocol
  <2>1. /\ input' = SubSeq(stream, arrived + 1, arrived + n) /\ arrived' = arrived + n
        /\ Len(input') = n
    <3>1. \A k \in arrived + 1 .. arrived + n : stream[k] \in Token
      BY <1>1
    <3>2. /\ input' = SubSeq(stream, arrived + 1, arrived + n)
          /\ arrived' = arrived + n
      BY DEF Arrive
    <3>. QED
      BY <1>1, <3>1, <3>2, SubSeqProperties
  <2>2. Seen' = arrived' - Len(input')
    BY DEF Seen
  <2>3. Seen' = Seen
    BY <1>1, <2>1, <2>2
  <2>. QED
    BY <2>1, <2>3 DEF Arrive, lineVars
<1>. HIDE DEF Seen
<1>3. Starts' = Starts
  BY <1>1, <1>2, SameStarts
<1>4. Starts \in SUBSET (1 .. Seen) /\ Starts \in SUBSET Nat
  BY <1>1, StartsFacts
<1>5. ASSUME NEW i \in Starts
      PROVE  BufferEnd(i)' = BufferEnd(i)
  <2>. DEFINE Ends == {c \in cuts : c >= i}
  <2>1. i \in Nat /\ i <= arrived /\ i > 0 /\ arrived \in cuts
    BY <1>1, <1>4 DEF CutInv, BufferInv
  <2>2. arrived \in Ends /\ Ends \in SUBSET Nat /\ Ends # {}
    BY <1>1, <2>1
  <2>3. {c \in cuts' : c >= i} = Ends \union {arrived + n}
    BY <1>1, <1>2, <2>1
  <2>4. BufferEnd(i) = Min(Ends) /\ BufferEnd(i)' = Min(Ends \union {arrived + n})
    BY <2>3 DEF BufferEnd
  <2>. HIDE DEF Ends
  <2>5. Min(Ends) \in Ends /\ \A c \in Ends : Min(Ends) <= c
    BY <2>2, MinFacts
  <2>6. Min(Ends) \in Nat /\ Min(Ends) <= arrived + n
    <3>1. Min(Ends) \in Nat /\ Min(Ends) <= arrived
      BY <2>2, <2>5
    <3>. QED
      BY <1>1, <3>1
  <2>7. /\ Ends \union {arrived + n} \in SUBSET Nat /\ Min(Ends) \in Ends \union {arrived + n}
        /\ \A c \in Ends \union {arrived + n} : Min(Ends) <= c
    BY <1>1, <2>2, <2>5, <2>6
  <2>8. Min(Ends \union {arrived + n}) = Min(Ends)
    BY <2>7, MinIs
  <2>. QED
    BY <2>4, <2>8
<1>6. \A i : Due(i)' = Due(i)
  BY <1>2, <1>3, <1>5, SameDue
<1>7. CutInv'
  BY <1>1, <1>2 DEF CutInv, BufferInv
<1>8. AtHandInv'
  BY <1>2 DEF AtHandInv
<1>9. OrderInv'
  BY <1>1, <1>2, <1>3 DEF OrderInv
<1>10. DueInv'
  <2>1. \A i : Cardinality(Calls(i))' = Cardinality(Calls(i))
    BY <1>2 DEF Calls
  <2>. QED
    BY <1>1, <1>2, <1>6, <2>1 DEF DueInv
<1>. QED
  BY <1>7, <1>8, <1>9, <1>10 DEF CallInv

\* parse begins no sentence, and the calls for the one at hand come behind it.
LEMMA ParseCalls ==
    ASSUME LineInv, CallInv, ~useNativeProtocol, chr # 0, chr' # 0,
           AddChar \/ AddField \/ CheckSum,
           UNCHANGED <<stream, arrived, cuts, nativeMsg, messages, useNativeProtocol>>
    PROVE  CallInv'
<1>1. /\ stream \in Seq(Token) /\ Seen \in Nat /\ cuts \subseteq Nat
      /\ CutInv /\ AtHandInv /\ OrderInv /\ DueInv /\ sentence # Empty
  BY CallFacts
<1>2. /\ Seen' = Seen /\ called' = called /\ sentence'.at = sentence.at
  <2>1. /\ input' = input /\ called' = called
        /\ \/ sentence' = sentence
           \/ \E f : sentence' = [sentence EXCEPT !.fields = f]
    <3>1. CASE AddChar
      BY <3>1 DEF AddChar, LineInv, SentenceInv, Sentences
    <3>2. CASE AddField
      BY <3>2 DEF AddField
    <3>3. CASE CheckSum
      BY <3>3 DEF CheckSum
    <3>. QED
      BY <3>1, <3>2, <3>3
  <2>2. sentence'.at = sentence.at
    BY <2>1 DEF LineInv, SentenceInv, Sentences
  <2>. QED
    BY <2>1, <2>2 DEF Seen
<1>3. sentence.at # 0 /\ sentence'.at # 0
  BY <1>1, <1>2, StartsFacts DEF AtHandInv
<1>. HIDE DEF Seen
<1>4. Starts' = Starts
  BY <1>1, <1>2, SameStarts
<1>5. \A i : BufferEnd(i)' = BufferEnd(i)
  BY DEF BufferEnd
<1>6. \A i : Due(i)' = Due(i)
  BY <1>2, <1>4, <1>5, SameDue
<1>7. CutInv'
  BY <1>1, <1>2, <1>3 DEF CutInv, BufferInv, Empty
<1>8. AtHandInv'
  BY <1>1, <1>2, <1>4 DEF AtHandInv
<1>9. OrderInv'
  BY <1>1, <1>2, <1>4 DEF OrderInv
<1>10. DueInv'
  <2>1. \A i : Cardinality(Calls(i))' = Cardinality(Calls(i))
    BY <1>2 DEF Calls
  <2>. QED
    BY <1>1, <1>6, <2>1 DEF DueInv
<1>. QED
  BY <1>7, <1>8, <1>9, <1>10 DEF CallInv

\* The first call for a sentence.
LEMMA CallCalls ==
    ASSUME LineInv, CallInv, ~useNativeProtocol, Call,
           UNCHANGED <<stream, arrived, cuts, nativeMsg, messages, useNativeProtocol>>
    PROVE  CallInv'
<1>1. /\ stream \in Seq(Token) /\ Seen \in Nat /\ cuts \subseteq Nat
      /\ CutInv /\ AtHandInv /\ OrderInv /\ DueInv
      /\ called \in Seq(Sentences) /\ sentence \in Sentences
  BY CallFacts
<1>2. /\ chr > Seen /\ chr' = 0 /\ called' = Append(called, sentence)
      /\ sentence' = sentence /\ Seen' = Seen
  BY DEF Call, Seen
<1>. HIDE DEF Seen
<1>3. chr # 0 /\ sentence # Empty
  BY <1>1, <1>2, CallFacts
<1>4. Starts' = Starts
  BY <1>1, <1>2, SameStarts
<1>5. \A i : BufferEnd(i)' = BufferEnd(i)
  BY DEF BufferEnd
<1>6. sentence.at \in Starts /\ \A i \in Starts : i <= sentence.at
  BY <1>1, <1>3 DEF AtHandInv
<1>7. CutInv'
  BY <1>1, <1>2 DEF CutInv, BufferInv
<1>8. AtHandInv'
  BY <1>1, <1>2, <1>4 DEF AtHandInv
<1>9. OrderInv'
  BY <1>1, <1>2, <1>4, <1>6, StartsFacts, AppendOrder
<1>10. \A i : Due(i)' = Due(i) + IF sentence.at = i THEN 1 ELSE 0
  BY <1>2, <1>3, <1>4, <1>5, <1>6 DEF Due
<1>11. DueInv'
  BY <1>1, <1>2, <1>10, CallsFacts DEF DueInv
<1>. QED
  BY <1>7, <1>8, <1>9, <1>11 DEF CallInv

\* The input is used up: the last sentence is called back with once more.
LEMMA NoMoreCalls ==
    ASSUME LineInv, CallInv, ~useNativeProtocol, NoMore,
           UNCHANGED <<stream, arrived, cuts, nativeMsg, messages, useNativeProtocol>>
    PROVE  CallInv'
<1>1. /\ stream \in Seq(Token) /\ Seen \in Nat /\ cuts \subseteq Nat
      /\ arrived \in Nat /\ Seen <= arrived /\ Len(input) = arrived - Seen
      /\ arrived <= Len(stream) /\ IInv
      /\ CutInv /\ AtHandInv /\ OrderInv /\ DueInv
      /\ called \in Seq(Sentences) /\ sentence \in Sentences
  BY CallFacts
<1>2. /\ chr = 0 /\ chr' = 0 /\ sentence' = Empty /\ input' = <<>>
      /\ PlacesOf(input, {"$"}) = {}
      /\ called' = IF sentence # Empty THEN Append(called, sentence) ELSE called
  BY DEF NoMore
<1>3. Seen' = arrived
  BY <1>1, <1>2, AllSeen
<1>. HIDE DEF Seen
<1>4. \A i \in Seen + 1 .. arrived : stream[i] # "$"
  <2>. SUFFICES ASSUME NEW i \in Seen + 1 .. arrived, stream[i] = "$"  PROVE FALSE
    OBVIOUS
  <2>1. PICK k \in Nat : k = i - Seen
    BY <1>1
  <2>2. k \in 1 .. Len(input) /\ Seen + k = i
    BY <1>1, <2>1
  <2>3. input[k] = "$"
    BY <1>1, <2>2, InputToken
  <2>4. k \in DOMAIN input
    BY <1>1, <2>2, Geometry
  <2>. QED
    BY <1>2, <2>3, <2>4 DEF PlacesOf
<1>5. Starts' = Starts
  <2>1. \A i \in DOMAIN stream : stream[i] = "$" => (i <= arrived <=> i <= Seen)
    BY <1>1, <1>4
  <2>. QED
    BY <1>3, <2>1 DEF Starts, PlacesOf
<1>6. \A i : BufferEnd(i)' = BufferEnd(i)
  BY DEF BufferEnd
<1>7. sentence'.at = 0 /\ \A i \in Starts : i \in Nat \ {0}
  BY <1>1, <1>2, StartsFacts DEF Empty
<1>8. CutInv'
  BY <1>1, <1>2, <1>3 DEF CutInv, BufferInv, LineInv, IInv, TypeOK
<1>9. AtHandInv'
  BY <1>2 DEF AtHandInv
<1>10. CASE sentence = Empty
  <2>1. \A i : Due(i)' = Due(i)
    BY <1>2, <1>5, <1>6, <1>10 DEF Due
  <2>2. DueInv'
    BY <1>1, <1>2, <1>10, <2>1, CallsFacts DEF DueInv
  <2>3. OrderInv'
    BY <1>1, <1>2, <1>5, <1>10 DEF OrderInv
  <2>. QED
    BY <1>8, <1>9, <2>2, <2>3 DEF CallInv
<1>11. CASE sentence # Empty
  <2>1. sentence.at \in Starts /\ \A i \in Starts : i <= sentence.at
    BY <1>1, <1>11 DEF AtHandInv
  <2>2. ASSUME NEW i \in DOMAIN stream
        PROVE  Due(i)' = Due(i) + IF sentence.at = i THEN 1 ELSE 0
    <3>1. i # 0 /\ sentence'.at # i /\ i \in Nat
      BY <1>1, <1>7
    <3>2. CASE sentence.at = i
      <4>1. Starts \intersect (i + 1) .. BufferEnd(i) = {}
        BY <1>7, <2>1, <3>1, <3>2
      <4>2. Due(i) = 1
        BY <1>2, <2>1, <3>2 DEF Due
      <4>3. Due(i)' = 2
        BY <1>2, <1>5, <1>6, <2>1, <3>1, <3>2, <4>1 DEF Due
      <4>. QED
        BY <3>2, <4>2, <4>3
    <3>3. CASE sentence.at # i
      <4>1. Due(i)' = Due(i) /\ Due(i) \in Nat
        BY <1>2, <1>5, <1>6, <3>1, <3>3 DEF Due
      <4>. QED
        BY <3>3, <4>1
    <3>. QED
      BY <3>2, <3>3
  <2>3. DueInv'
    BY <1>1, <1>2, <1>11, <2>2, CallsFacts DEF DueInv
  <2>4. OrderInv'
    BY <1>1, <1>2, <1>5, <1>11, <2>1, StartsFacts, AppendOrder
  <2>. QED
    BY <1>8, <1>9, <2>3, <2>4 DEF CallInv
<1>. QED
  BY <1>10, <1>11

\* The next sentence begins.
LEMMA ExtractCalls ==
    ASSUME LineInv, CallInv, ~useNativeProtocol, Extract,
           UNCHANGED <<stream, arrived, cuts, nativeMsg, messages, useNativeProtocol>>
    PROVE  CallInv'
<1>. DEFINE start == Min(PlacesOf(input, {"$"}))
<1>1. /\ stream \in Seq(Token) /\ Seen \in Nat /\ cuts \subseteq Nat
      /\ arrived \in Nat /\ Seen <= arrived /\ Len(input) = arrived - Seen
      /\ arrived <= Len(stream) /\ IInv /\ Len(input) \in Nat /\ input \in Seq(Token)
      /\ CutInv /\ AtHandInv /\ OrderInv /\ DueInv
      /\ called \in Seq(Sentences) /\ sentence \in Sentences
  BY CallFacts
<1>2. PICK at, end :
          /\ at = Seen + start /\ end \in start + 1 .. Len(input) + 1
          /\ start \in 1 .. Len(input) /\ input[start] = "$"
          /\ \A k \in 1 .. start - 1 : input[k] # "$"
          /\ \A k \in start .. end - 1 : input[k] # "E"
          /\ end <= Len(input) => input[end] = "E"
          /\ chr = 0 /\ chr' = at /\ sentence'.at = at /\ called' = called
          /\ input' = From(input, end)
  BY <1>1, ExtractFacts
<1>. HIDE DEF start
<1>3. Seen' = Seen + (end - 1) /\ at \in Nat /\ at > Seen /\ at <= Seen' /\ Seen' <= arrived
      /\ Seen' \in Nat
  <2>1. end - 1 \in 0 .. Len(input) /\ (end - 1) + 1 = end
    BY <1>1, <1>2
  <2>2. Seen' = Seen + (end - 1)
    BY <1>1, <1>2, <2>1, RestOfInput
  <2>. HIDE DEF Seen
  <2>. QED
    BY <1>1, <1>2, <2>2
<1>. HIDE DEF Seen
<1>4. \A k \in 1 .. Len(input) : stream[Seen + k] = input[k]
  BY <1>1, InputToken
<1>5. stream[at] = "$" /\ at \in DOMAIN stream
  BY <1>1, <1>2, <1>3, <1>4
<1>6. \A i \in Seen + 1 .. at - 1 : stream[i] # "$"
  <2>. TAKE i \in Seen + 1 .. at - 1
  <2>1. PICK k \in Nat : k = i - Seen
    BY <1>1
  <2>2. k \in 1 .. Len(input) /\ Seen + k = i /\ k \in 1 .. start - 1
    BY <1>1, <1>2, <1>3, <2>1
  <2>. QED
    BY <1>2, <1>4, <2>2
<1>7. \A e \in at .. Seen' : stream[e] # "E"
  <2>. TAKE e \in at .. Seen'
  <2>1. PICK k \in Nat : k = e - Seen
    BY <1>1, <1>3
  <2>2. k \in 1 .. Len(input) /\ Seen + k = e /\ k \in start .. end - 1
    BY <1>1, <1>2, <1>3, <2>1
  <2>. QED
    BY <1>2, <1>4, <2>2
<1>8. Seen' = arrived \/ stream[Seen' + 1] = "E"
  <2>1. end <= Len(input) => stream[Seen + end] = input[end]
    BY <1>1, <1>2, <1>4
  <2>2. Seen + end = Seen' + 1
    BY <1>1, <1>2, <1>3
  <2>. QED
    BY <1>1, <1>2, <1>3, <2>1, <2>2
<1>9. at \in Starts'
  <2>1. ASSUME NEW j \in 1 .. at - 1, stream[j] = "$"
        PROVE  \E e \in j .. at - 1 : e \in cuts \/ stream[e] = "E"
    <3>1. j <= Seen /\ j \in Nat /\ j > 0
      BY <1>1, <1>3, <1>6, <2>1
    <3>2. CASE Seen \in cuts
      <4>1. Seen \in j .. at - 1
        BY <1>1, <1>3, <3>1
      <4>. QED
        BY <3>2, <4>1
    <3>3. CASE stream[Seen + 1] = "E"
      <4>1. at # Seen + 1
        BY <1>5, <3>3
      <4>2. Seen + 1 \in j .. at - 1
        BY <1>1, <1>3, <3>1, <4>1
      <4>. QED
        BY <3>3, <4>2
    <3>. QED
      BY <1>1, <3>1, <3>2, <3>3 DEF CutInv, BufferInv
  <2>. QED
    BY <1>3, <1>5, <2>1 DEF Starts, PlacesOf
<1>10. \A i \in Starts : i \in Starts' /\ i \in Nat \ {0} /\ i <= Seen /\ i < at
       /\ i \in DOMAIN stream
  <2>1. \A i \in Starts : i \in Nat \ {0} /\ i <= Seen /\ i \in DOMAIN stream
    BY <1>1, StartsFacts
  <2>2. \A i \in Starts : i <= Seen'
    BY <1>1, <1>3, <2>1
  <2>3. \A i \in Starts : i \in Starts'
    BY <2>2 DEF Starts
  <2>. QED
    BY <1>1, <1>3, <2>1, <2>3
<1>11. \A i \in Starts' : i \in Starts \/ i = at
  <2>. SUFFICES ASSUME NEW i \in Starts', i \notin Starts, i # at  PROVE FALSE
    OBVIOUS
  <2>1. /\ i \in DOMAIN stream /\ stream[i] = "$" /\ i <= Seen' /\ i \in Nat
        /\ \A j \in 1 .. i - 1 : stream[j] = "$" =>
               \E e \in j .. i - 1 : e \in cuts \/ stream[e] = "E"
    BY <1>1 DEF Starts, PlacesOf
  <2>2. i > Seen
    BY <1>1, <2>1 DEF Starts, PlacesOf
  <2>3. at < i
    BY <1>1, <1>3, <1>6, <2>1, <2>2
  <2>4. PICK e \in at .. i - 1 : e \in cuts \/ stream[e] = "E"
    <3>1. at \in 1 .. i - 1
      BY <1>1, <1>3, <2>1, <2>3
    <3>. QED
      BY <1>5, <2>1, <3>1
  <2>5. e \in at .. Seen' /\ e > Seen /\ e < arrived
    BY <1>1, <1>3, <2>1
  <2>. QED
    BY <1>1, <1>7, <2>4, <2>5 DEF CutInv, BufferInv
<1>12. CutInv'
  <2>1. \A c \in cuts : c <= Seen' \/ c = arrived
    BY <1>1, <1>3 DEF CutInv, BufferInv
  <2>2. Seen' = 0 \/ Seen' \in cuts \/ stream[Seen' + 1] = "E"
    BY <1>1, <1>8 DEF CutInv, BufferInv
  <2>3. sentence' # Empty
    BY <1>1, <1>2, <1>3 DEF Empty
  <2>. QED
    BY <1>1, <2>1, <2>2, <2>3 DEF CutInv, BufferInv
<1>13. cuts \intersect at .. arrived - 1 = {}
  BY <1>1, <1>3 DEF CutInv, BufferInv
<1>14. AtHandInv'
  <2>1. \A i \in Starts' : i <= at
    BY <1>3, <1>10, <1>11
  <2>. QED
    BY <1>2, <1>9, <1>13, <2>1 DEF AtHandInv
<1>15. OrderInv'
  BY <1>1, <1>2, <1>10 DEF OrderInv
<1>16. \A i : BufferEnd(i)' = BufferEnd(i)
  BY DEF BufferEnd
<1>17. chr' # 0 /\ sentence'.at = at
  BY <1>1, <1>2, <1>3
<1>18. Cardinality(Calls(at)) = 0 /\ Due(at)' = 0
  <2>1. Calls(at) = {}
    <3>1. at \notin Starts
      BY <1>3, <1>10
    <3>2. \A k \in DOMAIN called : called[k].at # at
      BY <1>1, <3>1 DEF OrderInv
    <3>. QED
      BY <3>2 DEF Calls
  <2>2. Cardinality(Calls(at)) = 0
    BY <2>1, FS_EmptySet
  <2>3. \A i : i = sentence'.at => Due(i)' = 0
    BY <1>17 DEF Due
  <2>. QED
    BY <1>17, <2>2, <2>3
<1>19. ASSUME NEW i \in DOMAIN stream, i # at, i \notin Starts
       PROVE  Due(i)' = Due(i)
  BY <1>11, <1>19 DEF Due
<1>20. ASSUME NEW i \in Starts
       PROVE  Due(i)' = Due(i)
  <2>. DEFINE Later == (i + 1) .. BufferEnd(i)
  <2>1. /\ i \in Nat \ {0} /\ i <= Seen /\ i < at /\ i \in Starts' /\ i # sentence'.at
    BY <1>10, <1>17, <1>3
  <2>2. arrived \in cuts /\ arrived >= i /\ at <= arrived
    BY <1>1, <1>3, <2>1 DEF CutInv, BufferInv
  <2>3. /\ BufferEnd(i) \in cuts /\ BufferEnd(i) >= i /\ BufferEnd(i) \in Nat
        /\ \A c \in cuts : c >= i => BufferEnd(i) <= c
    <3>1. {c \in cuts : c >= i} \in SUBSET Nat /\ {c \in cuts : c >= i} # {}
      BY <1>1, <2>2
    <3>2. /\ Min({c \in cuts : c >= i}) \in {c \in cuts : c >= i}
          /\ \A d \in {c \in cuts : c >= i} : Min({c \in cuts : c >= i}) <= d
      BY <3>1, MinFacts
    <3>. QED
      BY <1>1, <3>2 DEF BufferEnd
  <2>4. Due(i) = IF Starts \intersect Later = {} /\ sentence.at # i THEN 2 ELSE 1
    BY <1>2 DEF Due
  <2>5. Due(i)' = IF Starts' \intersect Later = {} THEN 2 ELSE 1
    <3>1. BufferEnd(i)' = BufferEnd(i)
      BY <1>16
    <3>2. Starts' \intersect ((i + 1) .. BufferEnd(i)') = Starts' \intersect Later
      BY <3>1
    <3>. HIDE DEF Later
    <3>. QED
      BY <2>1, <3>2 DEF Due
  <2>6. (Starts' \intersect Later = {}) <=> (Starts \intersect Later = {} /\ sentence.at # i)
    <3>1. CASE sentence = Empty
      <4>1. sentence.at = 0 /\ Seen \in cuts
        BY <1>1, <2>1, <3>1 DEF CutInv, BufferInv, Empty
      <4>2. BufferEnd(i) <= Seen
        BY <2>1, <2>3, <4>1, <1>1
      <4>3. at \notin Later
        BY <1>1, <1>3, <2>1, <2>3, <4>2
      <4>. QED
        BY <1>10, <1>11, <2>1, <4>1, <4>3
    <3>2. CASE sentence # Empty
      <4>1. /\ sentence.at \in Starts /\ i <= sentence.at
            /\ cuts \intersect sentence.at .. arrived - 1 = {}
        BY <1>1, <3>2 DEF AtHandInv
      <4>2. CASE i = sentence.at
        <5>1. BufferEnd(i) = arrived
          BY <1>1, <2>1, <2>2, <2>3, <4>1, <4>2
        <5>2. at \in Later
          BY <1>3, <2>1, <2>2, <5>1
        <5>. QED
          BY <1>9, <4>2, <5>2
      <4>3. CASE i # sentence.at
        <5>1. at \in Later => sentence.at \in Later
          <6>1. PICK last \in Starts : last = sentence.at
            BY <4>1
          <6>2. last \in Nat /\ last < at /\ i < last
            <7>1. last \in Nat /\ last < at /\ i <= last /\ i # last
              BY <1>10, <4>1, <4>3, <6>1
            <7>. QED
              BY <2>1, <7>1
          <6>. QED
            BY <1>3, <2>1, <2>3, <6>1, <6>2
        <5>. QED
          BY <1>9, <1>10, <1>11, <4>1, <4>3, <5>1
      <4>. QED
        BY <4>2, <4>3
    <3>. QED
      BY <3>1, <3>2
  <2>. HIDE DEF Later
  <2>. QED
    BY <2>4, <2>5, <2>6
<1>21. DueInv'
  <2>1. \A i : Cardinality(Calls(i))' = Cardinality(Calls(i))
    BY <1>2 DEF Calls
  <2>2. ASSUME NEW i \in DOMAIN stream  PROVE Cardinality(Calls(i)) = Due(i)'
    <3>1. CASE i = at
      BY <1>17, <1>18, <3>1
    <3>2. CASE i # at
      <4>1. Due(i)' = Due(i)
        BY <1>19, <1>20, <3>2
      <4>. QED
        BY <1>1, <4>1 DEF DueInv
    <3>. QED
      BY <3>1, <3>2
  <2>. QED
    BY <2>1, <2>2 DEF DueInv
<1>. QED
  BY <1>12, <1>14, <1>15, <1>21 DEF CallInv

LEMMA CallInit == FramingInit => CallInv
<1>. SUFFICES ASSUME FramingInit  PROVE CallInv
  OBVIOUS
<1>1. /\ arrived = 0 /\ cuts = {} /\ sentence = Empty /\ called = <<>>
      /\ stream \in Seq(Token)
  BY StreamAssumption DEF FramingInit, Init
<1>2. Seen = 0
  <2>1. Len(input) = 0
    BY DEF FramingInit, Init
  <2>. QED
    BY <1>1, <2>1 DEF Seen
<1>3. CutInv
  BY <1>1, <1>2 DEF CutInv, BufferInv
<1>. HIDE DEF Seen
<1>4. Starts = {}
  BY <1>1, <1>2, StartsFacts
<1>5. AtHandInv /\ OrderInv
  BY <1>1 DEF AtHandInv, OrderInv
<1>6. \A i : Calls(i) = {} /\ Cardinality(Calls(i)) = 0
  BY <1>1, FS_EmptySet DEF Calls
<1>7. \A i : Due(i) = 0
  BY <1>4 DEF Due
<1>. QED
  BY <1>3, <1>5, <1>6, <1>7 DEF CallInv, DueInv

LEMMA NextCalls ==
    ASSUME LineInv, CallInv, [FramingNext]_framingVars
    PROVE  CallInv'
<1>1. ASSUME NEW n \in 1..(Len(stream) - arrived), Arrive(n), sentence = Empty,
             UNCHANGED lineVars
      PROVE  CallInv'
  <2>1. CASE useNativeProtocol
    BY <1>1, <2>1 DEF CallInv, lineVars
  <2>2. CASE ~useNativeProtocol
    BY <1>1, <2>2, ArriveCalls
  <2>. QED
    BY <2>1, <2>2
<1>2. CASE useNativeProtocol /\ Process /\ UNCHANGED lineVars
  BY <1>2 DEF CallInv, lineVars
<1>3. CASE /\ ~useNativeProtocol
           /\ Extract \/ AddChar \/ AddField \/ CheckSum \/ Call \/ NoMore
           /\ UNCHANGED <<stream, arrived, cuts, nativeMsg, messages,
                          useNativeProtocol>>
  <2>1. AddChar \/ AddField \/ CheckSum => chr # 0 /\ chr' # 0
    <3>1. Seen \in Nat
      BY <1>3, LineFacts
    <3>2. AddChar \/ AddField \/ CheckSum =>
              chr \in 1 .. Seen /\ (chr' = chr + 1 \/ chr' = Seen + 1)
      BY DEF AddChar, AddField, CheckSum, Parsing
    <3>. HIDE DEF Seen
    <3>. QED
      BY <3>1, <3>2
  <2>. QED
    BY <1>3, <2>1, ExtractCalls, ParseCalls, CallCalls, NoMoreCalls
<1>4. CASE UNCHANGED framingVars
  <2>1. /\ stream' = stream /\ arrived' = arrived /\ cuts' = cuts /\ input' = input
        /\ useNativeProtocol' = useNativeProtocol /\ sentence' = sentence
        /\ chr' = chr /\ called' = called
    BY <1>4 DEF framingVars, vars, lineVars
  <2>2. Seen' = Seen
    BY <2>1 DEF Seen
  <2>3. Starts' = Starts /\ \A i : BufferEnd(i)' = BufferEnd(i)
    BY <2>1, <2>2 DEF Starts, BufferEnd, PlacesOf
  <2>4. \A i : Due(i)' = Due(i)
    BY <2>1, <2>3, SameDue
  <2>5. CutInv => CutInv'
    BY <2>1, <2>2 DEF CutInv, BufferInv
  <2>6. AtHandInv /\ OrderInv => AtHandInv' /\ OrderInv'
    BY <2>1, <2>3 DEF AtHandInv, OrderInv
  <2>7. DueInv => DueInv'
    <3>1. \A i : Cardinality(Calls(i))' = Cardinality(Calls(i))
      BY <2>1 DEF Calls
    <3>. QED
      BY <2>1, <2>4, <3>1 DEF DueInv
  <2>. QED
    BY <2>1, <2>5, <2>6, <2>7 DEF CallInv
<1>. QED
  BY <1>1, <1>2, <1>3, <1>4 DEF FramingNext

-----------------------------------------------------------------------------
\* The frames of a stream.

HasFrame(s, p) == \E h \in Places(s, MSG_HEAD, p) : Has(s, MSG_TAIL, h + 2)

FirstFrame(s, p) ==
    <<Find(s, MSG_HEAD, p), Find(s, MSG_TAIL, Find(s, MSG_HEAD, p) + 2)>>

\* What the definition of Frames says of place p.
FramesFrom(s, f, p) ==
    IF HasFrame(s, p)
    THEN <<FirstFrame(s, p)>> \o f[FirstFrame(s, p)[2] + 2] ELSE <<>>

\* Where frame i of q is looked for, if q begins at p.
Behind(q, p, i) == IF i = 1 THEN p ELSE q[i - 1][2] + 2

\* q are the frames of s from place p on.
Chain(s, q, p) ==
    /\ q \in Seq(Nat \X Nat)
    /\ \A i \in 1 .. Len(q) :
          HasFrame(s, Behind(q, p, i)) /\ q[i] = FirstFrame(s, Behind(q, p, i))
    /\ ~HasFrame(s, Behind(q, p, Len(q) + 1))
    /\ \A i \in 1 .. Len(q) : p <= q[i][1]
    /\ \A i, j \in 1 .. Len(q) : i < j => q[i][2] + 2 <= q[j][1]

LEMMA FrameFacts ==
    ASSUME NEW T, NEW s \in Seq(T), NEW p \in Nat, HasFrame(s, p)
    PROVE  LET h == FirstFrame(s, p)[1]
               t == FirstFrame(s, p)[2] IN
           /\ h \in p .. Len(s) - 1 /\ t \in h + 2 .. Len(s) - 1
           /\ FirstFrame(s, p) = <<h, t>> /\ FirstFrame(s, p) \in Nat \X Nat
           /\ h \in Places(s, MSG_HEAD, p) /\ t \in Places(s, MSG_TAIL, h + 2)
           /\ \A i \in Places(s, MSG_HEAD, p) : h <= i
           /\ \A i \in Places(s, MSG_TAIL, h + 2) : t <= i
<1>. DEFINE h == Find(s, MSG_HEAD, p)
            t == Find(s, MSG_TAIL, h + 2)
<1>0. Len(s) \in Nat
  OBVIOUS
<1>1. PICK i \in Places(s, MSG_HEAD, p) : Has(s, MSG_TAIL, i + 2)
  BY DEF HasFrame
<1>1a. PICK j \in Places(s, MSG_TAIL, i + 2) : TRUE
  BY <1>1 DEF Has
<1>2. i \in p .. Len(s) - 1 /\ j \in i + 2 .. Len(s) - 1 /\ SubSeq(s, j, j + 1) = MSG_TAIL
  BY DEF Places
<1>3. /\ h \in p .. Len(s) - 1 /\ SubSeq(s, h, h + 1) = MSG_HEAD
      /\ \A k \in p .. Len(s) - 1 : SubSeq(s, k, k + 1) = MSG_HEAD => h <= k
  <2>1. Has(s, MSG_HEAD, p)
    BY <1>1 DEF Has
  <2>. QED
    BY <2>1, FindIsPlace
<1>4. h \in Places(s, MSG_HEAD, p) /\ \A k \in Places(s, MSG_HEAD, p) : h <= k
  BY <1>3 DEF Places
<1>. HIDE DEF h
<1>5. h + 2 \in Nat /\ Has(s, MSG_TAIL, h + 2)
  <2>1. h <= i /\ h \in Nat
    BY <1>0, <1>3, <1>4
  <2>2. j \in Places(s, MSG_TAIL, h + 2)
    BY <1>0, <1>2, <2>1 DEF Places
  <2>. QED
    BY <2>1, <2>2 DEF Has
<1>6. /\ t \in h + 2 .. Len(s) - 1 /\ SubSeq(s, t, t + 1) = MSG_TAIL
      /\ \A k \in h + 2 .. Len(s) - 1 : SubSeq(s, k, k + 1) = MSG_TAIL => t <= k
  BY <1>5, FindIsPlace
<1>7. t \in Places(s, MSG_TAIL, h + 2) /\ \A k \in Places(s, MSG_TAIL, h + 2) : t <= k
  BY <1>6 DEF Places
<1>. HIDE DEF t
<1>8. FirstFrame(s, p) = <<h, t>>
  BY DEF FirstFrame, h, t
<1>9. h \in Nat /\ t \in Nat
  BY <1>0, <1>3, <1>6
<1>. QED
  BY <1>3, <1>4, <1>6, <1>7, <1>8, <1>9

LEMMA FramesExist ==
    ASSUME NEW T, NEW s \in Seq(T)
    PROVE  \E f : f = [p \in 1 .. Len(s) + 1 |-> FramesFrom(s, f, p)]
<1>. DEFINE L == Len(s)
            Ok(k) == \E f : f = [p \in L + 1 - k .. L + 1 |-> FramesFrom(s, f, p)]
            Bad == {k \in 0 .. L : ~Ok(k)}
<1>0. L \in Nat
  OBVIOUS
<1>. HIDE DEF L
<1>1. Ok(0)
  <2>1. Places(s, MSG_HEAD, L + 1) = {}
    BY <1>0 DEF Places, L
  <2>2. \A f : FramesFrom(s, f, L + 1) = <<>>
    BY <2>1 DEF FramesFrom, HasFrame
  <2>3. L + 1 - 0 .. L + 1 = {L + 1}
    BY <1>0
  <2>4. [p \in {L + 1} |-> <<>>] =
            [p \in {L + 1} |-> FramesFrom(s, [q \in {L + 1} |-> <<>>], p)]
    BY <2>2
  <2>. QED
    BY <2>3, <2>4
<1>2. ASSUME NEW k \in 1 .. L, Ok(k - 1)
      PROVE  Ok(k)
  <2>. DEFINE few == L + 1 - (k - 1) .. L + 1
              D == L + 1 - k .. L + 1
  <2>1. PICK f : f = [p \in few |-> FramesFrom(s, f, p)]
    BY <1>2
  <2>. DEFINE g == [p \in D |-> FramesFrom(s, f, p)]
  <2>2. \A p \in few : p \in D /\ f[p] = FramesFrom(s, f, p)
    <3>1. \A p \in few : f[p] = FramesFrom(s, f, p)
      BY <2>1, Zenon
    <3>2. \A p \in few : p \in D
      BY <1>0
    <3>. QED
      BY <3>1, <3>2
  <2>3. \A p \in few : f[p] = g[p]
    BY <2>2
  <2>4. ASSUME NEW p \in D, HasFrame(s, p)
        PROVE  FirstFrame(s, p)[2] + 2 \in few
    <3>1. p \in Nat /\ p >= L + 1 - k
      BY <1>0, <1>2
    <3>2. PICK h \in p .. L - 1 : FirstFrame(s, p)[2] \in h + 2 .. L - 1
      BY <2>4, <3>1, FrameFacts DEF L
    <3>. QED
      BY <1>0, <1>2, <3>1, <3>2
  <2>. HIDE DEF few, g
  <2>5. \A p \in D : FramesFrom(s, f, p) = FramesFrom(s, g, p)
    BY <2>3, <2>4 DEF FramesFrom
  <2>6. g = [p \in D |-> FramesFrom(s, f, p)]
    BY DEF g
  <2>. HIDE DEF D
  <2>7. g = [p \in D |-> FramesFrom(s, g, p)]
    BY <2>5, <2>6
  <2>. QED
    BY <2>7 DEF D
<1>3. Bad = {}
  <2>. SUFFICES ASSUME Bad # {}  PROVE FALSE
    OBVIOUS
  <2>1. Bad \in SUBSET Nat
    BY <1>0
  <2>. HIDE DEF Ok
  <2>2. PICK k \in Bad : \A m \in Bad : k <= m
    BY <2>1, LeastElement
  <2>3. k \in 1 .. L
    BY <1>0, <1>1, <2>2
  <2>4. k - 1 \in 0 .. L /\ k - 1 < k /\ k \in Nat
    BY <1>0, <2>3
  <2>5. Ok(k - 1)
    BY <2>2, <2>4
  <2>. QED
    BY <1>2, <2>2, <2>3, <2>5
<1>4. Ok(L)
  <2>1. L \in 0 .. L
    BY <1>0
  <2>. HIDE DEF Ok
  <2>. QED
    BY <1>3, <2>1
<1>5. L + 1 - L .. L + 1 = 1 .. L + 1
  BY <1>0
<1>. QED
  BY <1>4, <1>5 DEF L

LEMMA FramesIs ==
    ASSUME NEW T, NEW s \in Seq(T)
    PROVE  \E f : /\ \A p \in 1 .. Len(s) + 1 : f[p] = FramesFrom(s, f, p)
                  /\ Frames(s) = f[1]
<1>. DEFINE f == CHOOSE g : g = [p \in 1 .. Len(s) + 1 |-> FramesFrom(s, g, p)]
<1>1. f = [p \in 1 .. Len(s) + 1 |-> FramesFrom(s, f, p)]
  BY FramesExist, Zenon
<1>2. Frames(s) = f[1]
  BY DEF Frames, FramesFrom, HasFrame, FirstFrame
<1>. HIDE DEF f
<1>3. \A p \in 1 .. Len(s) + 1 : f[p] = FramesFrom(s, f, p)
  BY <1>1, Zenon
<1>. QED
  BY <1>2, <1>3

LEMMA PrependFrame ==
    ASSUME NEW T, NEW s \in Seq(T), NEW p \in Nat, HasFrame(s, p),
           NEW q, Chain(s, q, FirstFrame(s, p)[2] + 2)
    PROVE  Chain(s, <<FirstFrame(s, p)>> \o q, p)
<1>. DEFINE f == FirstFrame(s, p)
            r == <<f>> \o q
            n == Len(q)
<1>1. /\ q \in Seq(Nat \X Nat) /\ n \in Nat
      /\ f \in Nat \X Nat /\ p <= f[1] /\ f[1] <= f[2] /\ f[1] \in Nat /\ f[2] \in Nat
  BY FrameFacts DEF Chain
<1>2. /\ r \in Seq(Nat \X Nat) /\ Len(r) = n + 1 /\ r[1] = f
      /\ \A i \in 2 .. n + 1 : r[i] = q[i - 1]
  <2>1. <<f>> \in Seq(Nat \X Nat) /\ Len(<<f>>) = 1 /\ <<f>>[1] = f
    BY <1>1
  <2>. HIDE DEF f
  <2>2. /\ r \in Seq(Nat \X Nat) /\ Len(r) = 1 + n
        /\ \A i \in 1 .. 1 + n : r[i] = IF i <= 1 THEN <<f>>[i] ELSE q[i - 1]
    BY <1>1, <2>1, ConcatProperties
  <2>. HIDE DEF r, n
  <2>3. 1 + n = n + 1 /\ 1 \in 1 .. 1 + n /\ \A i \in 2 .. n + 1 : i \in 1 .. 1 + n /\ ~(i <= 1)
    BY <1>1
  <2>. QED
    BY <2>1, <2>2, <2>3
<1>3. /\ Behind(r, p, 1) = p
      /\ \A i \in 1 .. n + 1 : Behind(r, p, i + 1) = Behind(q, f[2] + 2, i)
  <2>. HIDE DEF f, r, n
  <2>1. Behind(r, p, 1) = p
    BY DEF Behind
  <2>2. ASSUME NEW i \in 1 .. n + 1
        PROVE  Behind(r, p, i + 1) = Behind(q, f[2] + 2, i)
    <3>1. i + 1 # 1 /\ (i + 1) - 1 = i
      BY <1>1
    <3>2. Behind(r, p, i + 1) = r[i][2] + 2
      BY <3>1 DEF Behind
    <3>3. CASE i = 1
      BY <1>2, <3>2, <3>3 DEF Behind
    <3>4. CASE i # 1
      <4>1. i \in 2 .. n + 1
        BY <1>1, <3>4
      <4>. QED
        BY <1>2, <3>2, <3>4, <4>1 DEF Behind
    <3>. QED
      BY <3>3, <3>4
  <2>. QED
    BY <2>1, <2>2
<1>. HIDE DEF r, n
<1>4. ASSUME NEW i \in 1 .. n + 1
      PROVE  HasFrame(s, Behind(r, p, i)) /\ r[i] = FirstFrame(s, Behind(r, p, i))
  <2>1. CASE i = 1
    BY <1>2, <1>3, <2>1
  <2>2. CASE i # 1
    <3>1. PICK k \in 1 .. n : k + 1 = i
      <4>1. i - 1 \in 1 .. n /\ (i - 1) + 1 = i
        BY <1>1, <2>2
      <4>. QED
        BY <4>1
    <3>2. i \in 2 .. n + 1 /\ i - 1 = k /\ k \in 1 .. n + 1
      BY <1>1, <3>1
    <3>3. r[i] = q[k] /\ Behind(r, p, i) = Behind(q, f[2] + 2, k)
      BY <1>2, <1>3, <3>1, <3>2
    <3>4. HasFrame(s, Behind(q, f[2] + 2, k)) /\ q[k] = FirstFrame(s, Behind(q, f[2] + 2, k))
      BY DEF Chain, n
    <3>. QED
      BY <3>3, <3>4
  <2>. QED
    BY <2>1, <2>2
<1>5. ~HasFrame(s, Behind(r, p, Len(r) + 1))
  <2>1. Behind(r, p, (n + 1) + 1) = Behind(q, f[2] + 2, n + 1)
    <3>1. n + 1 \in 1 .. n + 1
      BY <1>1
    <3>. QED
      BY <1>3, <3>1
  <2>2. ~HasFrame(s, Behind(q, f[2] + 2, n + 1))
    BY DEF Chain, n
  <2>. QED
    BY <1>2, <2>1, <2>2
<1>6. \A i \in 2 .. n + 1 : f[2] + 2 <= r[i][1] /\ r[i] \in Nat \X Nat
  <2>. TAKE i \in 2 .. n + 1
  <2>1. i - 1 \in 1 .. Len(q) /\ r[i] = q[i - 1]
    BY <1>1, <1>2 DEF n
  <2>. HIDE DEF f
  <2>2. f[2] + 2 <= q[i - 1][1]
    BY <2>1 DEF Chain, f
  <2>3. q[i - 1] \in Nat \X Nat
    BY <1>1, <2>1
  <2>. QED
    BY <2>1, <2>2, <2>3
<1>7. \A i \in 1 .. n + 1 : p <= r[i][1]
  <2>. TAKE i \in 1 .. n + 1
  <2>1. CASE i = 1
    BY <1>1, <1>2, <2>1
  <2>2. CASE i # 1
    <3>1. i \in 2 .. n + 1
      BY <1>1, <2>2
    <3>2. f[2] + 2 <= r[i][1] /\ r[i][1] \in Nat
      BY <1>6, <3>1
    <3>. QED
      BY <1>1, <3>2
  <2>. QED
    BY <2>1, <2>2
<1>8. ASSUME NEW i \in 1 .. n + 1, NEW j \in 1 .. n + 1, i < j
      PROVE  r[i][2] + 2 <= r[j][1]
  <2>1. j \in 2 .. n + 1
    BY <1>1, <1>8
  <2>2. CASE i = 1
    BY <1>2, <1>6, <2>1, <2>2
  <2>3. CASE i # 1
    <3>1. i - 1 \in 1 .. Len(q) /\ j - 1 \in 1 .. Len(q) /\ i - 1 < j - 1 /\ i \in 2 .. n + 1
      BY <1>1, <1>8, <2>3 DEF n
    <3>2. q[i - 1][2] + 2 <= q[j - 1][1]
      BY <3>1 DEF Chain
    <3>3. r[i] = q[i - 1] /\ r[j] = q[j - 1]
      BY <1>2, <2>1, <3>1
    <3>. QED
      BY <3>2, <3>3
  <2>. QED
    BY <2>2, <2>3
<1>9. Chain(s, r, p)
  <2>. HIDE DEF f
  <2>. QED
    BY <1>2, <1>4, <1>5, <1>7, <1>8 DEF Chain
<1>. QED
  BY <1>9 DEF r

\* Frames is the chain of the frames of a stream from its first place on.
LEMMA FramesAreChain ==
    ASSUME NEW T, NEW s \in Seq(T)
    PROVE  Chain(s, Frames(s), 1)
<1>. DEFINE L == Len(s)
<1>0. L \in Nat
  OBVIOUS
<1>1. PICK f : /\ \A p \in 1 .. L + 1 : f[p] = FramesFrom(s, f, p)
               /\ Frames(s) = f[1]
  BY FramesIs
<1>. DEFINE Bad == {k \in 0 .. L : ~Chain(s, f[L + 1 - k], L + 1 - k)}
<1>2. Bad = {}
  <2>. SUFFICES ASSUME Bad # {}  PROVE FALSE
    OBVIOUS
  <2>1. Bad \in SUBSET Nat
    BY <1>0
  <2>2. PICK k \in Bad : \A m \in Bad : k <= m
    BY <2>1, LeastElement
  <2>3. PICK p \in Nat : p = L + 1 - k
    <3>1. k \in 0 .. L
      BY <2>2
    <3>. HIDE DEF L, Bad
    <3>. QED
      BY <1>0, <3>1
  <2>4. /\ p \in 1 .. L + 1 /\ k \in 0 .. L /\ ~Chain(s, f[p], p)
        /\ \A m \in 0 .. L : m < k => Chain(s, f[L + 1 - m], L + 1 - m)
    BY <1>0, <2>2, <2>3
  <2>5. f[p] = FramesFrom(s, f, p)
    BY <1>1, <2>4
  <2>6. CASE ~HasFrame(s, p)
    <3>1. f[p] = <<>>
      BY <2>5, <2>6 DEF FramesFrom
    <3>2. Chain(s, <<>>, p)
      <4>1. Behind(<<>>, p, Len(<<>>) + 1) = p
        BY DEF Behind
      <4>. QED
        BY <2>6, <4>1 DEF Chain
    <3>. QED
      BY <2>4, <3>1, <3>2
  <2>7. CASE HasFrame(s, p)
    <3>1. PICK t \in Nat : t = FirstFrame(s, p)[2] /\ p < t /\ t <= L - 1
      <4>1. PICK h \in p .. L - 1 : FirstFrame(s, p)[2] \in h + 2 .. L - 1
        BY <2>7, FrameFacts
      <4>. QED
        BY <1>0, <4>1
    <3>2. PICK m \in 0 .. L : L + 1 - m = t + 2 /\ m < k
      <4>1. L + 1 - (t + 2) \in 0 .. L /\ L + 1 - (L + 1 - (t + 2)) = t + 2
            /\ L + 1 - (t + 2) < k
        <5>1. \A a, b, c \in Nat : c <= a - 1 /\ a + 1 - b < c =>
                  /\ a + 1 - (c + 2) \in 0 .. a
                  /\ a + 1 - (a + 1 - (c + 2)) = c + 2 /\ a + 1 - (c + 2) < b
          OBVIOUS
        <5>2. k \in Nat /\ p = L + 1 - k
          BY <2>3, <2>4
        <5>3. L \in Nat /\ t \in Nat /\ t <= L - 1 /\ L + 1 - k < t
          BY <1>0, <3>1, <5>2
        <5>. HIDE DEF L
        <5>. QED
          BY <5>1, <5>2, <5>3, Zenon
      <4>. QED
        BY <4>1
    <3>3. Chain(s, f[t + 2], t + 2)
      BY <2>4, <3>2
    <3>4. Chain(s, <<FirstFrame(s, p)>> \o f[t + 2], p)
      BY <2>7, <3>1, <3>3, PrependFrame
    <3>5. f[p] = <<FirstFrame(s, p)>> \o f[t + 2]
      BY <2>5, <2>7, <3>1 DEF FramesFrom
    <3>. QED
      BY <2>4, <3>4, <3>5
  <2>. QED
    BY <2>6, <2>7
<1>3. L \in 0 .. L /\ L + 1 - L = 1
  BY <1>0
<1>. HIDE DEF L
<1>. QED
  BY <1>1, <1>2, <1>3

\* A frame of the chain.
LEMMA ChainFrame ==
    ASSUME NEW T, NEW s \in Seq(T), NEW all, Chain(s, all, 1), NEW i \in 1 .. Len(all)
    PROVE  /\ all[i] \in Nat \X Nat
           /\ Behind(all, 1, i) \in Nat \ {0}
           /\ all[i][1] \in Behind(all, 1, i) .. Len(s) - 1
           /\ all[i][2] \in all[i][1] + 2 .. Len(s) - 1 /\ all[i][1] <= all[i][2]
           /\ all[i][1] \in Places(s, MSG_HEAD, Behind(all, 1, i))
           /\ \A y \in Places(s, MSG_HEAD, Behind(all, 1, i)) : all[i][1] <= y
           /\ all[i][2] \in Places(s, MSG_TAIL, all[i][1] + 2)
           /\ \A y \in Places(s, MSG_TAIL, all[i][1] + 2) : all[i][2] <= y
<1>. DEFINE p == Behind(all, 1, i)
<1>1. /\ all \in Seq(Nat \X Nat) /\ Len(all) \in Nat
      /\ HasFrame(s, p) /\ all[i] = FirstFrame(s, p)
  BY DEF Chain
<1>2. p \in Nat \ {0}
  <2>1. CASE i = 1
    BY <2>1 DEF Behind
  <2>2. CASE i # 1
    <3>1. i - 1 \in 1 .. Len(all)
      BY <1>1, <2>2
    <3>2. all[i - 1] \in Nat \X Nat /\ p = all[i - 1][2] + 2
      BY <1>1, <2>2, <3>1 DEF Behind
    <3>. QED
      BY <3>2
  <2>. QED
    BY <2>1, <2>2
<1>. HIDE DEF p
<1>3. LET h == FirstFrame(s, p)[1]
          t == FirstFrame(s, p)[2] IN
      /\ h \in p .. Len(s) - 1 /\ t \in h + 2 .. Len(s) - 1
      /\ FirstFrame(s, p) \in Nat \X Nat
      /\ h \in Places(s, MSG_HEAD, p) /\ t \in Places(s, MSG_TAIL, h + 2)
      /\ \A y \in Places(s, MSG_HEAD, p) : h <= y
      /\ \A y \in Places(s, MSG_TAIL, h + 2) : t <= y
  BY <1>1, <1>2, FrameFacts
<1>4. all[i][1] <= all[i][2]
  <2>1. all[i][1] \in Nat /\ all[i][2] \in all[i][1] + 2 .. Len(s) - 1
    BY <1>1, <1>3
  <2>. QED
    BY <2>1
<1>. QED
  BY <1>1, <1>2, <1>3, <1>4 DEF p

-----------------------------------------------------------------------------
\* The messages of a stream that was cut cleanly.

\* A mark in the input is a mark in the stream, and the first one is the first
\* from there on; if there is none, the next one ends behind the buffer.
LEMMA InputPlaces ==
    ASSUME IInv, NEW mark, NEW p \in Nat \ {0}
    PROVE  /\ Has(input, mark, p) =>
                 LET x == Seen + Find(input, mark, p) IN
                 /\ x \in Places(stream, mark, Seen + p) /\ x + 1 <= arrived
                 /\ \A y \in Places(stream, mark, Seen + p) : x <= y
           /\ ~Has(input, mark, p) =>
                 \A y \in Places(stream, mark, Seen + p) : arrived <= y
<1>1. /\ stream \in Seq(Token) /\ arrived \in 0 .. Len(stream) /\ Len(stream) \in Nat
      /\ Seen \in 0 .. arrived /\ Len(input) = arrived - Seen /\ input \in Seq(Token)
      /\ Seen \in Nat /\ arrived \in Nat /\ Len(input) \in Nat
  BY Geometry
<1>2. ASSUME NEW i \in 1 .. Len(input) - 1
      PROVE  SubSeq(input, i, i + 1) = SubSeq(stream, Seen + i, Seen + i + 1)
  <2>. HIDE DEF Seen
  <2>1. i \in 1 .. Len(input) + 1 /\ i + 1 \in i - 1 .. Len(input)
        /\ Seen + (i + 1) = Seen + i + 1
    BY <1>1
  <2>2. SubSeq(input, i, i + 1) = SubSeq(stream, Seen + i, Seen + (i + 1))
    BY <2>1, InputPiece
  <2>. QED
    BY <2>1, <2>2
<1>. HIDE DEF Seen
<1>3. ASSUME NEW y \in Places(stream, mark, Seen + p), y < arrived
      PROVE  \E i \in p .. Len(input) - 1 :
                 y = Seen + i /\ SubSeq(input, i, i + 1) = mark
  <2>1. y \in Nat /\ y >= Seen + p /\ SubSeq(stream, y, y + 1) = mark
    BY <1>1 DEF Places
  <2>2. PICK i \in Nat : i = y - Seen
    BY <1>1, <2>1
  <2>3. i \in p .. Len(input) - 1 /\ i \in 1 .. Len(input) - 1 /\ y = Seen + i
    BY <1>1, <1>3, <2>1, <2>2
  <2>. QED
    BY <1>2, <2>1, <2>3
<1>4. CASE Has(input, mark, p)
  <2>. DEFINE f == Find(input, mark, p)
              x == Seen + f
  <2>1. /\ f \in p .. Len(input) - 1 /\ SubSeq(input, f, f + 1) = mark
        /\ \A i \in p .. Len(input) - 1 : SubSeq(input, i, i + 1) = mark => f <= i
    BY <1>1, <1>4, FindIsPlace
  <2>. HIDE DEF f
  <2>2. /\ f \in 1 .. Len(input) - 1 /\ x \in Seen + p .. Len(stream) - 1
        /\ x + 1 <= arrived /\ f \in Nat /\ x \in Nat /\ x + 1 = Seen + f + 1
    BY <1>1, <2>1
  <2>3. SubSeq(stream, x, x + 1) = mark
    BY <1>2, <2>1, <2>2
  <2>4. x \in Places(stream, mark, Seen + p)
    BY <2>2, <2>3 DEF Places
  <2>5. ASSUME NEW y \in Places(stream, mark, Seen + p)
        PROVE  x <= y
    <3>1. y \in Nat
      BY <1>1 DEF Places
    <3>2. CASE y < arrived
      <4>1. PICK i \in p .. Len(input) - 1 : y = Seen + i /\ SubSeq(input, i, i + 1) = mark
        BY <1>3, <3>2
      <4>2. f <= i /\ i \in Nat
        BY <1>1, <2>1, <4>1
      <4>. QED
        BY <1>1, <2>2, <4>1, <4>2
    <3>3. CASE ~(y < arrived)
      BY <1>1, <2>2, <3>1, <3>3
    <3>. QED
      BY <3>2, <3>3
  <2>. QED
    BY <1>4, <2>2, <2>4, <2>5 DEF f
<1>5. CASE ~Has(input, mark, p)
  <2>1. ASSUME NEW y \in Places(stream, mark, Seen + p), y < arrived  PROVE FALSE
    <3>1. PICK i \in p .. Len(input) - 1 : SubSeq(input, i, i + 1) = mark
      BY <1>3, <2>1
    <3>2. i \in Places(input, mark, p)
      BY <3>1 DEF Places
    <3>. QED
      BY <1>5, <3>2 DEF Has
  <2>2. \A y \in Places(stream, mark, Seen + p) : y \in Nat
    BY <1>1 DEF Places
  <2>. QED
    BY <1>1, <1>5, <2>1, <2>2
<1>. QED
  BY <1>4, <1>5

\* When a buffer arrives, all of the last one was looked at.
LEMMA ArriveSeen ==
    ASSUME IInv, NEW n \in 1..(Len(stream) - arrived), Arrive(n)
    PROVE  /\ n \in Nat \ {0} /\ Seen = arrived /\ Seen' = Seen
           /\ stream' = stream /\ messages' = messages /\ nativeMsg' = nativeMsg
           /\ cuts' = cuts \union {arrived + n} /\ arrived' = arrived + n
<1>1. /\ stream \in Seq(Token) /\ Len(stream) \in Nat /\ arrived \in Nat
      /\ arrived <= Len(stream) /\ n \in Nat \ {0} /\ arrived + n <= Len(stream)
      /\ Seen \in Nat /\ Len(input) = arrived - Seen
  BY Geometry
<1>2. Len(input) = 0
  BY DEF Arrive
<1>3. \A j \in arrived + 1 .. arrived + n : stream[j] \in Token
  BY <1>1
<1>4. input' = SubSeq(stream, arrived + 1, arrived + n) /\ arrived' = arrived + n
  BY DEF Arrive
<1>5. Len(input') = n
  BY <1>1, <1>3, <1>4, SubSeqProperties
<1>6. Seen' = arrived' - Len(input')
  BY DEF Seen
<1>. HIDE DEF Seen
<1>7. Seen = arrived /\ Seen' = Seen
  BY <1>1, <1>2, <1>4, <1>5, <1>6
<1>. QED
  BY <1>1, <1>7 DEF Arrive

\* The receiver never goes back.
LEMMA ProcessSeen ==
    ASSUME IInv, Process
    PROVE  Seen' \in Nat /\ Seen <= Seen' /\ UNCHANGED <<stream, arrived, cuts>>
<1>0. UNCHANGED <<stream, arrived, cuts>>
  BY DEF Process
<1>1. /\ Seen \in Nat /\ arrived \in Nat /\ Seen <= arrived
      /\ input \in Seq(Token) /\ Len(input) \in Nat
  BY Geometry
<1>2. CASE Idle \/ Open \/ More
  <2>1. Seen' = arrived
    BY <1>0, <1>2, AllSeen DEF Idle, Open, More
  <2>. HIDE DEF Seen
  <2>. QED
    BY <1>0, <1>1, <2>1
<1>3. ASSUME NEW p \in Nat \ {0}, NEW g, g = Find(input, MSG_TAIL, p),
             Has(input, MSG_TAIL, p), input' = From(input, g + 2)
      PROVE  Seen' \in Nat /\ Seen <= Seen'
  <2>1. g \in p .. Len(input) - 1
    BY <1>1, <1>3, FindIsPlace
  <2>2. g + 1 \in 0 .. Len(input) /\ (g + 1) + 1 = g + 2 /\ g + 1 \in Nat
    BY <1>1, <2>1
  <2>3. Seen' = Seen + (g + 1)
    BY <1>0, <1>3, <2>2, RestOfInput
  <2>. HIDE DEF Seen
  <2>. QED
    BY <1>1, <2>2, <2>3
<1>4. CASE Whole
  <2>1. Find(input, MSG_HEAD, 1) \in 1 .. Len(input) - 1
    BY <1>1, <1>4, FindIsPlace DEF Whole
  <2>2. Find(input, MSG_HEAD, 1) + 2 \in Nat \ {0}
    BY <1>1, <2>1
  <2>. QED
    BY <1>0, <1>3, <1>4, <2>2 DEF Whole
<1>5. CASE Close
  BY <1>0, <1>3, <1>5 DEF Close
<1>. QED
  BY <1>0, <1>2, <1>4, <1>5 DEF Process

Stretch(f) ==
    SubSeq(stream, f[1] + 2,
           IF cuts \intersect f[1] .. f[2] = {} THEN f[2] + 1 ELSE f[2] - 1)

\* The messages are the first of all frames; the next frame was not reached yet,
\* or the open message is what came of its text.  A header that no tail follows
\* may be open at last.
Framed(all) ==
    LET k == Len(messages)
        p == Behind(all, 1, k + 1) IN
    /\ k <= Len(all) /\ \A i \in 1 .. k : messages[i] = Stretch(all[i])
    /\ p <= Seen + 1
    /\ nativeMsg # <<>> => \E h \in Places(stream, MSG_HEAD, p) : h + 1 <= Seen
    /\ k < Len(all) =>
           LET h == all[k + 1][1]
               t == all[k + 1][2] IN
           \/ nativeMsg = <<>> /\ Seen < h
           \/ /\ Seen \in h + 2 .. t - 1 /\ Seen \in cuts
              /\ nativeMsg = SubSeq(stream, h + 2, Seen)

\* The state that lemmas about a step of the receiver begin with: all is the chain
\* of the frames, and at the end of the step none was cut at a mark.
Receiving(all) ==
    /\ IInv /\ BufferInv /\ Framed(all) /\ Chain(stream, all, 1)
    /\ \A i \in 1 .. Len(all) : cuts \intersect {all[i][1], all[i][1] + 1, all[i][2]} = {}

LEMMA ReceivingFacts ==
    ASSUME NEW all, Receiving(all)
    PROVE  LET k == Len(messages)
               p == Behind(all, 1, k + 1) IN
           /\ stream \in Seq(Token) /\ Len(stream) \in Nat /\ arrived \in Nat
           /\ arrived <= Len(stream) /\ Seen \in Nat /\ Seen <= arrived
           /\ Len(input) = arrived - Seen /\ Len(input) \in Nat /\ input \in Seq(Token)
           /\ k \in Nat /\ k <= Len(all) /\ Len(all) \in Nat /\ p \in Nat \ {0}
           /\ messages \in Seq(Seq(Token)) /\ nativeMsg \in Seq(Token)
           /\ p <= Seen + 1
           /\ k = Len(all) => ~HasFrame(stream, p)
           /\ \A i \in 1 .. Len(all) : all[i] \in Nat \X Nat
           /\ \A i \in 1 .. k : all[i][2] + 2 <= p
           /\ Behind(all, 1, (k + 1) + 1) = all[k + 1][2] + 2
<1>. DEFINE k == Len(messages)
            p == Behind(all, 1, k + 1)
<1>1. /\ stream \in Seq(Token) /\ arrived \in 0 .. Len(stream)
      /\ Seen \in 0 .. arrived /\ Len(input) = arrived - Seen /\ input \in Seq(Token)
      /\ messages \in Seq(Seq(Token)) /\ nativeMsg \in Seq(Token)
  BY Geometry DEF Receiving
<1>2. /\ all \in Seq(Nat \X Nat) /\ Len(all) \in Nat /\ k \in Nat /\ k <= Len(all)
      /\ p <= Seen + 1
  <2>1. all \in Seq(Nat \X Nat)
    BY DEF Receiving, Chain
  <2>2. k <= Len(all) /\ p <= Seen + 1
    <3>. HIDE DEF Seen
    <3>. QED
      BY DEF Receiving, Framed
  <2>. QED
    BY <1>1, <2>1, <2>2
<1>. HIDE DEF Seen
<1>3. \A i \in 1 .. Len(all) : all[i] \in Nat \X Nat
  BY <1>2
<1>4. p \in Nat \ {0}
  <2>1. CASE k = 0
    BY <2>1 DEF Behind
  <2>2. CASE k # 0
    <3>1. k + 1 # 1 /\ (k + 1) - 1 = k /\ k \in 1 .. Len(all)
      BY <1>2, <2>2
    <3>2. p = all[k][2] + 2
      BY <3>1 DEF Behind
    <3>3. all[k] \in Nat \X Nat
      BY <1>3, <3>1
    <3>. QED
      BY <3>2, <3>3
  <2>. QED
    BY <2>1, <2>2
<1>5. k = Len(all) => ~HasFrame(stream, p)
  BY DEF Receiving, Chain
<1>6. ASSUME NEW i \in 1 .. k
      PROVE  all[i][2] + 2 <= p
  <2>1. k + 1 # 1 /\ (k + 1) - 1 = k /\ k \in 1 .. Len(all) /\ i \in 1 .. Len(all)
    BY <1>2
  <2>2. p = all[k][2] + 2
    BY <2>1 DEF Behind
  <2>3. all[k] \in Nat \X Nat /\ all[i] \in Nat \X Nat
    BY <1>3, <2>1
  <2>4. CASE i = k
    BY <2>2, <2>3, <2>4
  <2>5. CASE i # k
    <3>1. i < k
      BY <1>2, <2>5
    <3>2. all[i][2] + 2 <= all[k][1]
      BY <2>1, <3>1 DEF Receiving, Chain
    <3>3. all[k][1] <= all[k][2]
      BY <1>1, <2>1, ChainFrame DEF Receiving
    <3>. QED
      BY <2>2, <2>3, <3>2, <3>3
  <2>. QED
    BY <2>4, <2>5
<1>7. Behind(all, 1, (k + 1) + 1) = all[k + 1][2] + 2
  <2>1. (k + 1) + 1 # 1 /\ ((k + 1) + 1) - 1 = k + 1
    BY <1>2
  <2>. HIDE DEF k
  <2>. QED
    BY <2>1 DEF Behind
<1>. HIDE DEF p
<1>8. /\ Len(stream) \in Nat /\ arrived \in Nat /\ arrived <= Len(stream)
      /\ Seen \in Nat /\ Seen <= arrived /\ Len(input) \in Nat
  BY <1>1
<1>. HIDE DEF k
<1>9. k \in Nat /\ k <= Len(all) /\ Len(all) \in Nat
  BY <1>2
<1>. QED
  BY <1>1, <1>2, <1>3, <1>4, <1>5, <1>6, <1>7, <1>8, <1>9 DEF p, k

\* The next frame.
LEMMA NextFrame ==
    ASSUME NEW all, Receiving(all), Len(messages) < Len(all)
    PROVE  LET k == Len(messages)
               p == Behind(all, 1, k + 1)
               h == all[k + 1][1]
               t == all[k + 1][2] IN
           /\ k + 1 \in 1 .. Len(all) /\ h \in Nat /\ t \in Nat
           /\ h \in p .. Len(stream) - 1 /\ h \in Places(stream, MSG_HEAD, p)
           /\ \A y \in Places(stream, MSG_HEAD, p) : h <= y
           /\ t \in h + 2 .. Len(stream) - 1 /\ t \in Places(stream, MSG_TAIL, h + 2)
           /\ \A y \in Places(stream, MSG_TAIL, h + 2) : t <= y
<1>1. PICK i : i = Len(messages) + 1
  OBVIOUS
<1>2. /\ stream \in Seq(Token) /\ Chain(stream, all, 1) /\ i \in 1 .. Len(all)
      /\ Len(stream) \in Nat
  <2>1. Len(messages) \in Nat /\ Len(all) \in Nat /\ stream \in Seq(Token)
    BY ReceivingFacts
  <2>2. Chain(stream, all, 1)
    BY DEF Receiving
  <2>. QED
    BY <1>1, <2>1, <2>2
<1>3. all[i] \in Nat \X Nat
  BY <1>2 DEF Chain
<1>4. all[i][1] \in Nat /\ all[i][2] \in Nat
  BY <1>3
<1>5. /\ all[i][1] \in Behind(all, 1, i) .. Len(stream) - 1
      /\ all[i][1] \in Places(stream, MSG_HEAD, Behind(all, 1, i))
      /\ \A y \in Places(stream, MSG_HEAD, Behind(all, 1, i)) : all[i][1] <= y
      /\ all[i][2] \in all[i][1] + 2 .. Len(stream) - 1
      /\ all[i][2] \in Places(stream, MSG_TAIL, all[i][1] + 2)
      /\ \A y \in Places(stream, MSG_TAIL, all[i][1] + 2) : all[i][2] <= y
  BY <1>2, ChainFrame
<1>. QED
  BY <1>1, <1>2, <1>4, <1>5, Zenon

LEMMA StretchIsText ==
    ASSUME NEW all, Receiving(all), NEW i \in 1 .. Len(all)
    PROVE  Stretch(all[i]) \in Seq(Token)
<1>1. stream \in Seq(Token) /\ Len(stream) \in Nat
  BY ReceivingFacts
<1>2. all[i][1] \in Nat /\ all[i][2] \in all[i][1] + 2 .. Len(stream) - 1
  BY <1>1, ChainFrame DEF Receiving
<1>3. \A j \in {all[i][2] + 1, all[i][2] - 1} : SubSeq(stream, all[i][1] + 2, j) \in Seq(Token)
  <2>. TAKE j \in {all[i][2] + 1, all[i][2] - 1}
  <2>1. all[i][1] + 2 \in Int /\ j \in Int /\ 1 <= all[i][1] + 2 /\ j <= Len(stream)
    BY <1>1, <1>2
  <2>2. \A x \in all[i][1] + 2 .. j : stream[x] \in Token
    BY <1>1, <2>1
  <2>. QED
    BY <2>1, <2>2, SubSeqProperties
<1>. QED
  BY <1>3 DEF Stretch

\* No message is open: the next frame was not reached.
LEMMA NotOpen ==
    ASSUME NEW all, Receiving(all), nativeMsg = <<>>, Len(messages) < Len(all)
    PROVE  Seen < all[Len(messages) + 1][1]
<1>. DEFINE h == all[Len(messages) + 1][1]
            t == all[Len(messages) + 1][2]
<1>1. /\ stream \in Seq(Token) /\ Len(stream) \in Nat /\ Seen \in Nat
      /\ Seen <= Len(stream) /\ Len(messages) + 1 \in 1 .. Len(all)
  BY ReceivingFacts
<1>2. h \in Nat
  BY <1>1, ChainFrame DEF Receiving
<1>. HIDE DEF Seen
<1>3. ASSUME Seen \in h + 2 .. t - 1, nativeMsg = SubSeq(stream, h + 2, Seen)
      PROVE  FALSE
  <2>. HIDE DEF h, t
  <2>1. \A x \in h + 2 .. Seen : stream[x] \in Token
    BY <1>1, <1>2
  <2>2. Len(nativeMsg) = Seen - (h + 2) + 1
    <3>1. h + 2 \in Nat /\ h + 2 <= Seen
      BY <1>1, <1>2, <1>3
    <3>2. Len(SubSeq(stream, h + 2, Seen)) = Seen - (h + 2) + 1
      BY <1>1, <2>1, <3>1, SubSeqProperties
    <3>. QED
      BY <1>3, <3>2
  <2>. QED
    BY <1>1, <1>2, <1>3, <2>2
<1>. QED
  BY <1>3 DEF Receiving, Framed

\* A message is open, and the next frame is the one it belongs to.
LEMMA OpenFrame ==
    ASSUME NEW all, Receiving(all), nativeMsg # <<>>, Len(messages) < Len(all)
    PROVE  /\ Seen \in all[Len(messages) + 1][1] + 2 .. all[Len(messages) + 1][2] - 1
           /\ Seen \in cuts
           /\ nativeMsg = SubSeq(stream, all[Len(messages) + 1][1] + 2, Seen)
BY DEF Receiving, Framed

\* No message is handed over: it is enough to know where the receiver is in the
\* next frame.
LEMMA SameMessages ==
    ASSUME NEW all, Receiving(all), messages' = messages, UNCHANGED <<stream, cuts>>,
           Seen' \in Nat, Seen <= Seen',
           NEW k, k = Len(messages), NEW p, p = Behind(all, 1, k + 1),
           nativeMsg' # <<>> => \E h \in Places(stream, MSG_HEAD, p) : h + 1 <= Seen',
           k < Len(all) =>
               \/ nativeMsg' = <<>> /\ Seen' < all[k + 1][1]
               \/ /\ Seen' \in all[k + 1][1] + 2 .. all[k + 1][2] - 1 /\ Seen' \in cuts
                  /\ nativeMsg' = SubSeq(stream, all[k + 1][1] + 2, Seen')
    PROVE  Framed(all)'
<1>1. /\ Seen \in Nat /\ p \in Nat /\ p <= Seen + 1 /\ k <= Len(all)
      /\ \A i \in 1 .. k : messages[i] = Stretch(all[i])
  BY ReceivingFacts DEF Receiving, Framed
<1>2. \A f : Stretch(f)' = Stretch(f)
  BY DEF Stretch
<1>. HIDE DEF Seen
<1>3. p <= Seen' + 1
  BY <1>1
<1>4. \A i \in 1 .. k : messages'[i] = Stretch(all[i])'
  BY <1>1, <1>2
<1>. QED
  BY <1>1, <1>3, <1>4 DEF Framed

\* The next frame is handed over, and the receiver is behind it.
LEMMA NextMessage ==
    ASSUME NEW all, Receiving(all), UNCHANGED <<stream, cuts>>,
           NEW k, k = Len(messages), k < Len(all),
           messages' = Append(messages, Stretch(all[k + 1])),
           Seen' = all[k + 1][2] + 1, nativeMsg' = <<>>
    PROVE  Framed(all)'
<1>1. /\ k \in Nat /\ Len(all) \in Nat /\ k + 1 \in 1 .. Len(all)
      /\ stream \in Seq(Token) /\ messages \in Seq(Seq(Token))
      /\ \A i \in 1 .. k : messages[i] = Stretch(all[i])
      /\ Behind(all, 1, (k + 1) + 1) = all[k + 1][2] + 2
  BY ReceivingFacts DEF Receiving, Framed
<1>2. \A f : Stretch(f)' = Stretch(f)
  BY DEF Stretch
<1>. HIDE DEF Seen
<1>3. all[k + 1] \in Nat \X Nat /\ all[k + 1][2] \in Nat
  BY <1>1, ReceivingFacts
<1>4. /\ Len(messages') = k + 1
      /\ \A i \in 1 .. k + 1 : messages'[i] = Stretch(all[i])'
  <2>1. /\ Len(messages') = k + 1 /\ messages'[k + 1] = Stretch(all[k + 1])
        /\ \A i \in 1 .. k : messages'[i] = messages[i]
    <3>1. Stretch(all[k + 1]) \in Seq(Token)
      BY <1>1, StretchIsText
    <3>. QED
      BY <1>1, <3>1, AppendProperties
  <2>. QED
    BY <1>1, <1>2, <2>1
<1>5. ASSUME k + 1 < Len(all)
      PROVE  Seen' < all[(k + 1) + 1][1]
  <2>1. (k + 1) + 1 \in 1 .. Len(all) /\ k + 1 < (k + 1) + 1
    BY <1>1, <1>5
  <2>2. all[k + 1][2] + 2 <= all[(k + 1) + 1][1]
    BY <1>1, <2>1 DEF Receiving, Chain
  <2>3. all[(k + 1) + 1][1] \in Nat
    <3>1. all[(k + 1) + 1] \in Nat \X Nat
      BY <2>1, ReceivingFacts
    <3>. QED
      BY <3>1
  <2>. QED
    BY <1>3, <2>2, <2>3
<1>6. Behind(all, 1, (k + 1) + 1) <= Seen' + 1
  BY <1>1, <1>3
<1>. QED
  BY <1>1, <1>4, <1>5, <1>6 DEF Framed

\* A buffer without a header, and no message open.
LEMMA IdleFramed ==
    ASSUME NEW all, Receiving(all), input # <<>>, Idle, UNCHANGED <<stream, arrived, cuts>>
    PROVE  Framed(all)'
<1>. DEFINE k == Len(messages)
            p == Behind(all, 1, k + 1)
<1>1. /\ stream \in Seq(Token) /\ arrived \in Nat /\ Seen \in Nat /\ Seen <= arrived
      /\ Len(input) = arrived - Seen /\ input \in Seq(Token) /\ Len(input) \in Nat
      /\ k \in Nat /\ Len(all) \in Nat /\ p \in Nat \ {0} /\ p <= Seen + 1
  BY ReceivingFacts
<1>2. Seen' = arrived /\ nativeMsg' = <<>> /\ nativeMsg = <<>> /\ messages' = messages
  BY AllSeen DEF Idle, Receiving
<1>. HIDE DEF Seen
<1>3. arrived # 0 /\ arrived \in cuts
  BY <1>1 DEF Receiving, BufferInv
<1>4. \A y \in Places(stream, MSG_HEAD, Seen + 1) : arrived <= y
  BY InputPlaces DEF Receiving, Idle
<1>5. ASSUME k < Len(all)
      PROVE  Seen' < all[k + 1][1]
  <2>. DEFINE h == all[k + 1][1]
  <2>1. /\ k + 1 \in 1 .. Len(all) /\ h \in p .. Len(stream) - 1 /\ h \in Nat
        /\ h \in Places(stream, MSG_HEAD, p)
    BY <1>5, NextFrame
  <2>2. Seen < h
    BY <1>1, <1>2, <1>5, NotOpen
  <2>3. h \in Places(stream, MSG_HEAD, Seen + 1)
    BY <1>1, <2>1, <2>2 DEF Places
  <2>4. h # arrived
    BY <1>3, <2>1 DEF Receiving
  <2>. QED
    BY <1>1, <1>2, <1>4, <2>1, <2>3, <2>4
<1>. HIDE DEF k, p
<1>. QED
  BY <1>1, <1>2, <1>5, SameMessages DEF k, p

\* A header without a tail in the buffer.
LEMMA OpenFramed ==
    ASSUME NEW all, Receiving(all), input # <<>>, Open, UNCHANGED <<stream, arrived, cuts>>
    PROVE  Framed(all)'
<1>. DEFINE k == Len(messages)
            p == Behind(all, 1, k + 1)
            f == Find(input, MSG_HEAD, 1)
            x == Seen + f
<1>1. /\ stream \in Seq(Token) /\ arrived \in Nat /\ Seen \in Nat /\ Seen <= arrived
      /\ Len(input) = arrived - Seen /\ input \in Seq(Token) /\ Len(input) \in Nat
      /\ k \in Nat /\ Len(all) \in Nat /\ p \in Nat \ {0} /\ p <= Seen + 1
      /\ arrived <= Len(stream) /\ Len(stream) \in Nat
  BY ReceivingFacts
<1>2. Seen' = arrived /\ nativeMsg = <<>> /\ messages' = messages
  BY AllSeen DEF Open, Receiving
<1>3. /\ f \in 1 .. Len(input) - 1 /\ Has(input, MSG_HEAD, 1)
      /\ ~Has(input, MSG_TAIL, f + 2) /\ nativeMsg' = From(input, f + 2)
  BY <1>1, FindIsPlace DEF Open
<1>4. /\ x \in Places(stream, MSG_HEAD, Seen + 1) /\ x + 1 <= arrived
      /\ \A y \in Places(stream, MSG_HEAD, Seen + 1) : x <= y
  BY <1>3, InputPlaces DEF Receiving
<1>. HIDE DEF f
<1>5. \A y \in Places(stream, MSG_TAIL, x + 2) : arrived <= y
  <2>1. f + 2 \in Nat \ {0}
    BY <1>1, <1>3
  <2>2. \A y \in Places(stream, MSG_TAIL, Seen + (f + 2)) : arrived <= y
    BY <1>3, <2>1, InputPlaces DEF Receiving
  <2>3. Seen + (f + 2) = x + 2
    BY <1>1, <1>3
  <2>. QED
    BY <2>2, <2>3
<1>6. nativeMsg' = SubSeq(stream, x + 2, arrived)
  <2>1. f + 2 \in 1 .. Len(input) + 1 /\ Len(input) \in (f + 2) - 1 .. Len(input)
        /\ Seen + (f + 2) = x + 2 /\ Seen + Len(input) = arrived
    BY <1>1, <1>3
  <2>2. SubSeq(input, f + 2, Len(input)) = SubSeq(stream, Seen + (f + 2), Seen + Len(input))
    BY <2>1, InputPiece DEF Receiving
  <2>. QED
    BY <1>3, <2>1, <2>2 DEF From
<1>. HIDE DEF Seen
<1>7. x \in Nat /\ Seen < x /\ x \in Places(stream, MSG_HEAD, p)
  BY <1>1, <1>3, <1>4 DEF Places
<1>8. arrived # 0 /\ arrived \in cuts
  BY <1>1, <1>4, <1>7 DEF Receiving, BufferInv
<1>. HIDE DEF x
<1>9. ASSUME k < Len(all)
      PROVE  /\ Seen' \in all[k + 1][1] + 2 .. all[k + 1][2] - 1 /\ Seen' \in cuts
             /\ nativeMsg' = SubSeq(stream, all[k + 1][1] + 2, Seen')
  <2>. DEFINE h == all[k + 1][1]
              t == all[k + 1][2]
  <2>1. k + 1 \in 1 .. Len(all) /\ h \in Nat /\ t \in Nat
    BY <1>9, NextFrame
  <2>2. Seen < h
    BY <1>2, <1>9, NotOpen
  <2>3. /\ h \in p .. Len(stream) - 1 /\ h \in Places(stream, MSG_HEAD, p)
        /\ \A y \in Places(stream, MSG_HEAD, p) : h <= y
        /\ t \in h + 2 .. Len(stream) - 1 /\ t \in Places(stream, MSG_TAIL, h + 2)
    BY <1>9, NextFrame
  <2>. HIDE DEF k
  <2>4. h \in Nat /\ t \in Nat
    BY <2>1
  <2>5. arrived \notin {h, h + 1, t}
    BY <1>8, <2>1 DEF Receiving
  <2>. HIDE DEF h, t
  <2>6. h \in Places(stream, MSG_HEAD, Seen + 1)
    BY <1>1, <2>2, <2>3, <2>4 DEF Places
  <2>7. h = x
    <3>1. h <= x /\ x <= h
      BY <1>4, <1>7, <2>3, <2>6
    <3>. QED
      BY <1>7, <2>4, <3>1
  <2>8. arrived <= t
    BY <1>5, <2>3, <2>7
  <2>9. arrived \in h + 2 .. t - 1
    BY <1>1, <1>4, <1>7, <2>4, <2>5, <2>7, <2>8
  <2>. QED
    BY <1>2, <1>6, <1>8, <2>7, <2>9 DEF h, t
<1>. HIDE DEF k, p
<1>. QED
  BY <1>1, <1>2, <1>4, <1>7, <1>9, SameMessages DEF k, p

\* The open message goes on.
LEMMA MoreFramed ==
    ASSUME NEW all, Receiving(all), input # <<>>, More, UNCHANGED <<stream, arrived, cuts>>
    PROVE  Framed(all)'
<1>. DEFINE k == Len(messages)
            p == Behind(all, 1, k + 1)
<1>1. /\ stream \in Seq(Token) /\ arrived \in Nat /\ Seen \in Nat /\ Seen <= arrived
      /\ Len(input) = arrived - Seen /\ input \in Seq(Token) /\ Len(input) \in Nat
      /\ k \in Nat /\ Len(all) \in Nat /\ p \in Nat \ {0} /\ p <= Seen + 1
      /\ arrived <= Len(stream) /\ Len(stream) \in Nat
  BY ReceivingFacts
<1>2. Seen' = arrived /\ nativeMsg # <<>> /\ messages' = messages
      /\ nativeMsg' = nativeMsg \o input /\ input = SubSeq(stream, Seen + 1, arrived)
  BY AllSeen, Geometry DEF More, Receiving
<1>3. \A y \in Places(stream, MSG_TAIL, Seen + 1) : arrived <= y
  BY InputPlaces DEF Receiving, More
<1>4. PICK x \in Places(stream, MSG_HEAD, p) : x + 1 <= Seen
  BY <1>2 DEF Receiving, Framed
<1>. HIDE DEF Seen
<1>5. arrived # 0 /\ arrived \in cuts /\ Seen < arrived
  BY <1>1 DEF Receiving, BufferInv
<1>6. x + 1 <= arrived
  BY <1>1, <1>4 DEF Places
<1>7. ASSUME k < Len(all)
      PROVE  /\ Seen' \in all[k + 1][1] + 2 .. all[k + 1][2] - 1 /\ Seen' \in cuts
             /\ nativeMsg' = SubSeq(stream, all[k + 1][1] + 2, Seen')
  <2>. DEFINE h == all[k + 1][1]
              t == all[k + 1][2]
  <2>1. k + 1 \in 1 .. Len(all) /\ h \in Nat /\ t \in Nat
    BY <1>7, NextFrame
  <2>2. Seen \in h + 2 .. t - 1 /\ nativeMsg = SubSeq(stream, h + 2, Seen)
    BY <1>2, <1>7, OpenFrame
  <2>3. /\ h \in p .. Len(stream) - 1
        /\ t \in h + 2 .. Len(stream) - 1 /\ t \in Places(stream, MSG_TAIL, h + 2)
    BY <1>7, NextFrame
  <2>. HIDE DEF k
  <2>4. h \in Nat /\ t \in Nat
    BY <2>1
  <2>5. arrived # t
    BY <1>5, <2>1 DEF Receiving
  <2>. HIDE DEF h, t
  <2>6. t \in Places(stream, MSG_TAIL, Seen + 1)
    BY <1>1, <2>2, <2>3, <2>4 DEF Places
  <2>7. arrived <= t
    BY <1>3, <2>6
  <2>8. arrived \in h + 2 .. t - 1
    BY <1>1, <2>2, <2>4, <2>5, <2>7
  <2>9. nativeMsg' = SubSeq(stream, h + 2, arrived)
    <3>1. /\ h + 2 \in 1 .. Len(stream) + 1 /\ Seen \in (h + 2) - 1 .. Len(stream)
          /\ arrived \in Seen .. Len(stream)
      BY <1>1, <2>2, <2>4
    <3>. QED
      BY <1>1, <1>2, <2>2, <3>1, ConcatAdjacentSubSeq
  <2>. QED
    BY <1>2, <1>5, <2>8, <2>9 DEF h, t
<1>. HIDE DEF k, p
<1>. QED
  BY <1>1, <1>2, <1>4, <1>6, <1>7, SameMessages DEF k, p

\* A whole message in the buffer: it is the next frame, and no buffer ended in it.
LEMMA WholeFramed ==
    ASSUME NEW all, Receiving(all), Whole, UNCHANGED <<stream, arrived, cuts>>
    PROVE  Framed(all)'
<1>. DEFINE k == Len(messages)
            p == Behind(all, 1, k + 1)
            f == Find(input, MSG_HEAD, 1)
            g == Find(input, MSG_TAIL, f + 2)
            x == Seen + f
            y == Seen + g
<1>1. /\ stream \in Seq(Token) /\ arrived \in Nat /\ Seen \in Nat /\ Seen <= arrived
      /\ Len(input) = arrived - Seen /\ input \in Seq(Token) /\ Len(input) \in Nat
      /\ k \in Nat /\ Len(all) \in Nat /\ p \in Nat \ {0} /\ p <= Seen + 1 /\ k <= Len(all)
      /\ arrived <= Len(stream) /\ Len(stream) \in Nat
      /\ k = Len(all) => ~HasFrame(stream, p)
  BY ReceivingFacts
<1>2. f \in 1 .. Len(input) - 1 /\ Has(input, MSG_HEAD, 1)
  BY <1>1, FindIsPlace DEF Whole
<1>3. /\ nativeMsg = <<>> /\ nativeMsg' = <<>> /\ Has(input, MSG_TAIL, f + 2)
      /\ messages' = Append(messages, SubSeq(input, f + 2, g + 1))
      /\ input' = From(input, g + 2)
  BY DEF Whole
<1>4. /\ x \in Places(stream, MSG_HEAD, Seen + 1) /\ x + 1 <= arrived
      /\ \A z \in Places(stream, MSG_HEAD, Seen + 1) : x <= z
  BY <1>2, InputPlaces DEF Receiving
<1>. HIDE DEF f
<1>5. f + 2 \in Nat \ {0} /\ Seen + (f + 2) = x + 2
  BY <1>1, <1>2
<1>6. g \in f + 2 .. Len(input) - 1
  BY <1>1, <1>3, <1>5, FindIsPlace
<1>7. /\ y \in Places(stream, MSG_TAIL, Seen + (f + 2)) /\ y + 1 <= arrived
      /\ \A z \in Places(stream, MSG_TAIL, Seen + (f + 2)) : y <= z
  BY <1>3, <1>5, InputPlaces DEF Receiving
<1>. HIDE DEF g
<1>8. Seen' = y + 1
  <2>1. g + 1 \in 0 .. Len(input) /\ (g + 1) + 1 = g + 2 /\ Seen + (g + 1) = y + 1
    BY <1>1, <1>2, <1>6
  <2>2. Seen' = Seen + (g + 1)
    BY <1>3, <2>1, RestOfInput DEF Receiving
  <2>. QED
    BY <2>1, <2>2
<1>9. SubSeq(input, f + 2, g + 1) = SubSeq(stream, x + 2, y + 1)
  <2>1. f + 2 \in 1 .. Len(input) + 1 /\ g + 1 \in (f + 2) - 1 .. Len(input)
        /\ Seen + (g + 1) = y + 1
    BY <1>1, <1>2, <1>6
  <2>2. SubSeq(input, f + 2, g + 1) = SubSeq(stream, Seen + (f + 2), Seen + (g + 1))
    BY <2>1, InputPiece DEF Receiving
  <2>. QED
    BY <1>5, <2>1, <2>2
<1>. HIDE DEF Seen
<1>10. x \in Nat /\ Seen < x /\ x \in Places(stream, MSG_HEAD, p) /\ y \in Nat
  BY <1>1, <1>2, <1>4, <1>6 DEF Places
<1>11. y \in Places(stream, MSG_TAIL, x + 2) /\ \A z \in Places(stream, MSG_TAIL, x + 2) : y <= z
  BY <1>5, <1>7
<1>. HIDE DEF x, y
<1>12. k < Len(all)
  <2>1. HasFrame(stream, p)
    BY <1>10, <1>11 DEF HasFrame, Has
  <2>. QED
    BY <1>1, <2>1
<1>. DEFINE h == all[k + 1][1]
            t == all[k + 1][2]
<1>13. k + 1 \in 1 .. Len(all) /\ h \in Nat /\ t \in Nat
  BY <1>12, NextFrame
<1>14. Seen < h
  BY <1>3, <1>12, NotOpen
<1>15. /\ h \in p .. Len(stream) - 1 /\ h \in Places(stream, MSG_HEAD, p)
       /\ \A z \in Places(stream, MSG_HEAD, p) : h <= z
       /\ t \in h + 2 .. Len(stream) - 1 /\ t \in Places(stream, MSG_TAIL, h + 2)
       /\ \A z \in Places(stream, MSG_TAIL, h + 2) : t <= z
  BY <1>12, NextFrame
<1>. HIDE DEF k
<1>16. h \in Nat /\ t \in Nat
  BY <1>13
<1>. HIDE DEF h, t, p
<1>17. h = x
  <2>1. h \in Places(stream, MSG_HEAD, Seen + 1)
    BY <1>1, <1>14, <1>15, <1>16 DEF Places
  <2>2. h <= x /\ x <= h
    BY <1>4, <1>10, <1>15, <2>1
  <2>. QED
    BY <1>10, <1>16, <2>2
<1>18. t = y
  <2>1. t <= y /\ y <= t
    BY <1>11, <1>15, <1>17
  <2>. QED
    BY <1>10, <1>16, <2>1
<1>19. cuts \intersect h .. t = {}
  <2>1. \A c \in cuts : c <= Seen \/ c = arrived
    BY DEF Receiving, BufferInv
  <2>. QED
    BY <1>1, <1>7, <1>14, <1>16, <1>18, <2>1
<1>20. SubSeq(input, f + 2, g + 1) = Stretch(all[k + 1])
  BY <1>9, <1>17, <1>18, <1>19 DEF Stretch, h, t
<1>21. Seen' = all[k + 1][2] + 1
  BY <1>8, <1>18 DEF t
<1>. QED
  BY <1>3, <1>12, <1>20, <1>21, NextMessage DEF k

\* The open message ends: it is the next frame, and a buffer ended in it.
LEMMA CloseFramed ==
    ASSUME NEW all, Receiving(all), Close, UNCHANGED <<stream, arrived, cuts>>
    PROVE  Framed(all)'
<1>. DEFINE k == Len(messages)
            p == Behind(all, 1, k + 1)
            g == Find(input, MSG_TAIL, 1)
            y == Seen + g
<1>1. /\ stream \in Seq(Token) /\ arrived \in Nat /\ Seen \in Nat /\ Seen <= arrived
      /\ Len(input) = arrived - Seen /\ input \in Seq(Token) /\ Len(input) \in Nat
      /\ k \in Nat /\ Len(all) \in Nat /\ p \in Nat \ {0} /\ p <= Seen + 1 /\ k <= Len(all)
      /\ arrived <= Len(stream) /\ Len(stream) \in Nat
      /\ k = Len(all) => ~HasFrame(stream, p)
  BY ReceivingFacts
<1>2. g \in 1 .. Len(input) - 1 /\ Has(input, MSG_TAIL, 1)
  BY <1>1, FindIsPlace DEF Close
<1>3. /\ nativeMsg # <<>> /\ nativeMsg' = <<>>
      /\ messages' = Append(messages, nativeMsg \o SubSeq(input, 1, g - 1))
      /\ input' = From(input, g + 2)
  BY DEF Close
<1>4. /\ y \in Places(stream, MSG_TAIL, Seen + 1) /\ y + 1 <= arrived
      /\ \A z \in Places(stream, MSG_TAIL, Seen + 1) : y <= z
  BY <1>2, InputPlaces DEF Receiving
<1>. HIDE DEF g
<1>5. Seen' = y + 1
  <2>1. g + 1 \in 0 .. Len(input) /\ (g + 1) + 1 = g + 2 /\ Seen + (g + 1) = y + 1
    BY <1>1, <1>2
  <2>2. Seen' = Seen + (g + 1)
    BY <1>3, <2>1, RestOfInput DEF Receiving
  <2>. QED
    BY <2>1, <2>2
<1>6. SubSeq(input, 1, g - 1) = SubSeq(stream, Seen + 1, y - 1)
  <2>1. 1 \in 1 .. Len(input) + 1 /\ g - 1 \in 1 - 1 .. Len(input)
        /\ Seen + (g - 1) = y - 1
    BY <1>1, <1>2
  <2>2. SubSeq(input, 1, g - 1) = SubSeq(stream, Seen + 1, Seen + (g - 1))
    BY <2>1, InputPiece DEF Receiving
  <2>. QED
    BY <2>1, <2>2
<1>7. PICK x \in Places(stream, MSG_HEAD, p) : x + 1 <= Seen
  BY <1>3 DEF Receiving, Framed
<1>. HIDE DEF Seen
<1>8. y \in Nat /\ Seen < y /\ x \in Nat
  BY <1>1, <1>2, <1>7 DEF Places
<1>. HIDE DEF y
<1>9. k < Len(all)
  <2>1. y \in Places(stream, MSG_TAIL, x + 2)
    BY <1>1, <1>4, <1>7, <1>8 DEF Places
  <2>2. HasFrame(stream, p)
    BY <1>7, <2>1 DEF HasFrame, Has
  <2>. QED
    BY <1>1, <2>2
<1>. DEFINE h == all[k + 1][1]
            t == all[k + 1][2]
<1>10. k + 1 \in 1 .. Len(all) /\ h \in Nat /\ t \in Nat
  BY <1>9, NextFrame
<1>11. Seen \in h + 2 .. t - 1 /\ Seen \in cuts /\ nativeMsg = SubSeq(stream, h + 2, Seen)
  BY <1>3, <1>9, OpenFrame
<1>12. /\ h \in p .. Len(stream) - 1
       /\ t \in h + 2 .. Len(stream) - 1 /\ t \in Places(stream, MSG_TAIL, h + 2)
       /\ \A z \in Places(stream, MSG_TAIL, h + 2) : t <= z
  BY <1>9, NextFrame
<1>. HIDE DEF k
<1>13. h \in Nat /\ t \in Nat
  BY <1>10
<1>. HIDE DEF h, t, p
<1>14. t = y
  <2>1. t \in Places(stream, MSG_TAIL, Seen + 1)
    BY <1>1, <1>11, <1>12, <1>13 DEF Places
  <2>2. y \in Places(stream, MSG_TAIL, h + 2)
    BY <1>1, <1>4, <1>8, <1>11, <1>13 DEF Places
  <2>3. t <= y /\ y <= t
    BY <1>4, <1>12, <2>1, <2>2
  <2>. QED
    BY <1>8, <1>13, <2>3
<1>15. cuts \intersect h .. t # {}
  <2>1. Seen \in h .. t
    BY <1>1, <1>11, <1>13
  <2>. QED
    BY <1>11, <2>1
<1>16. nativeMsg \o SubSeq(input, 1, g - 1) = SubSeq(stream, h + 2, t - 1)
  <2>1. /\ h + 2 \in 1 .. Len(stream) + 1 /\ Seen \in (h + 2) - 1 .. Len(stream)
        /\ t - 1 \in Seen .. Len(stream)
    BY <1>1, <1>11, <1>12, <1>13
  <2>. QED
    BY <1>1, <1>6, <1>11, <1>14, <2>1, ConcatAdjacentSubSeq
<1>17. nativeMsg \o SubSeq(input, 1, g - 1) = Stretch(all[k + 1])
  BY <1>15, <1>16 DEF Stretch, h, t
<1>18. Seen' = all[k + 1][2] + 1
  BY <1>5, <1>14 DEF t
<1>. QED
  BY <1>3, <1>9, <1>17, <1>18, NextMessage DEF k

\* A buffer arrives: it ends behind the frames that were handed over.
LEMMA ArriveFramed ==
    ASSUME NEW all, Receiving(all), NEW n \in 1..(Len(stream) - arrived), Arrive(n)
    PROVE  Framed(all)'
<1>. DEFINE k == Len(messages)
            p == Behind(all, 1, k + 1)
<1>1. /\ stream \in Seq(Token) /\ arrived \in Nat /\ Seen \in Nat /\ n \in Nat \ {0}
      /\ Len(input) = arrived - Seen
      /\ k \in Nat /\ Len(all) \in Nat /\ p \in Nat \ {0} /\ p <= Seen + 1 /\ k <= Len(all)
      /\ \A i \in 1 .. Len(all) : all[i] \in Nat \X Nat
      /\ \A i \in 1 .. k : all[i][2] + 2 <= p
  <2>1. Len(stream) \in Nat
    BY ReceivingFacts
  <2>. QED
    BY <2>1, ReceivingFacts
<1>2. Seen = arrived /\ Seen' = Seen
  BY ArriveSeen DEF Receiving
<1>3. /\ stream' = stream /\ messages' = messages /\ nativeMsg' = nativeMsg
      /\ cuts' = cuts \union {arrived + n} /\ arrived' = arrived + n
  BY DEF Arrive
<1>. HIDE DEF Seen
<1>4. ASSUME NEW i \in 1 .. k
      PROVE  messages'[i] = Stretch(all[i])'
  <2>1. i \in 1 .. Len(all) /\ messages[i] = Stretch(all[i])
    BY <1>1 DEF Receiving, Framed
  <2>2. all[i][1] \in Nat /\ all[i][2] \in Nat /\ all[i][2] + 2 <= Seen + 1
    <3>1. all[i] \in Nat \X Nat /\ all[i][2] + 2 <= p
      BY <1>1, <2>1
    <3>. HIDE DEF p
    <3>. QED
      BY <1>1, <3>1
  <2>3. cuts' \intersect all[i][1] .. all[i][2] = cuts \intersect all[i][1] .. all[i][2]
    BY <1>1, <1>2, <1>3, <2>2
  <2>4. Stretch(all[i])' = Stretch(all[i])
    BY <1>3, <2>3 DEF Stretch
  <2>. QED
    BY <1>3, <2>1, <2>4
<1>5. Framed(all)
  BY DEF Receiving
<1>. QED
  BY <1>2, <1>3, <1>4, <1>5 DEF Framed

\* Buffers end at or before what was looked at, whatever the step.
LEMMA NextBuffer ==
    ASSUME IInv, BufferInv, [Next]_vars
    PROVE  BufferInv' /\ stream' = stream /\ cuts \subseteq cuts'
<1>1. /\ arrived \in Nat /\ Seen \in 0 .. arrived /\ Len(input) = arrived - Seen
      /\ Len(stream) \in Nat /\ cuts \subseteq Nat
  BY Geometry DEF IInv, TypeOK
<1>2. ASSUME NEW n \in 1..(Len(stream) - arrived), Arrive(n)
      PROVE  BufferInv' /\ stream' = stream /\ cuts \subseteq cuts'
  <2>1. Seen = arrived
    <3>1. Len(input) = 0
      BY <1>2 DEF Arrive
    <3>. HIDE DEF Seen
    <3>. QED
      BY <1>1, <3>1
  <2>2. Seen' = Seen
    BY <1>2, ArriveSeen
  <2>3. /\ stream' = stream /\ cuts' = cuts \union {arrived + n}
        /\ arrived' = arrived + n /\ n \in Nat
    BY <1>1, <1>2 DEF Arrive
  <2>. HIDE DEF Seen
  <2>. QED
    BY <1>1, <2>1, <2>2, <2>3 DEF BufferInv
<1>3. CASE Process
  <2>1. Seen' \in Nat /\ Seen <= Seen' /\ UNCHANGED <<stream, arrived, cuts>>
    BY <1>3, ProcessSeen DEF Process
  <2>. HIDE DEF Seen
  <2>. QED
    BY <1>1, <2>1 DEF BufferInv
<1>4. CASE UNCHANGED vars
  <2>1. Seen' = Seen /\ UNCHANGED <<stream, arrived, cuts>>
    BY <1>4 DEF vars, Seen
  <2>. HIDE DEF Seen
  <2>. QED
    BY <2>1 DEF BufferInv
<1>. QED
  BY <1>2, <1>3, <1>4 DEF Next

\* No buffer ended inside a mark of a frame or just after its header.
AllClean(all) ==
    \A i \in 1 .. Len(all) : cuts \intersect {all[i][1], all[i][1] + 1, all[i][2]} = {}

\* The invariant of the frames.
FrameInv ==
    /\ BufferInv
    /\ AllClean(Frames(stream)) => Framed(Frames(stream))

LEMMA FrameInit == Init => FrameInv
<1>. SUFFICES ASSUME Init  PROVE FrameInv
  OBVIOUS
<1>1. IInv /\ arrived = 0 /\ cuts = {} /\ nativeMsg = <<>> /\ messages = <<>>
      /\ stream \in Seq(Token)
  BY InitInv, StreamAssumption DEF Init
<1>2. PICK all : all = Frames(stream)
  OBVIOUS
<1>3. Chain(stream, all, 1)
  BY <1>1, <1>2, FramesAreChain
<1>4. Seen = 0
  BY <1>1, Geometry
<1>. HIDE DEF Seen
<1>5. Len(all) \in Nat
  BY <1>3 DEF Chain
<1>6. Len(all) > 0 => all[1][1] \in Nat \ {0}
  <2>. SUFFICES ASSUME Len(all) > 0  PROVE all[1][1] \in Nat \ {0}
    OBVIOUS
  <2>1. 1 \in 1 .. Len(all)
    BY <1>5
  <2>2. all[1][1] \in Behind(all, 1, 1) .. Len(stream) - 1
    BY <1>1, <1>3, <2>1, ChainFrame
  <2>3. Behind(all, 1, 1) = 1 /\ Len(stream) \in Nat
    BY <1>1 DEF Behind
  <2>. QED
    BY <2>2, <2>3
<1>7. Len(messages) = 0 /\ Behind(all, 1, 1) = 1
  BY <1>1 DEF Behind
<1>8. Framed(all)
  BY <1>1, <1>4, <1>5, <1>6, <1>7 DEF Framed
<1>9. BufferInv
  BY <1>1 DEF BufferInv
<1>. QED
  BY <1>2, <1>8, <1>9 DEF FrameInv

LEMMA NextFrames ==
    ASSUME IInv, FrameInv, [Next]_vars
    PROVE  FrameInv'
<1>1. BufferInv' /\ stream' = stream /\ cuts \subseteq cuts'
  BY NextBuffer DEF FrameInv
<1>2. PICK all : all = Frames(stream)
  OBVIOUS
<1>3. Frames(stream)' = all
  BY <1>1, <1>2
<1>4. Chain(stream, all, 1)
  <2>1. stream \in Seq(Token)
    BY Geometry
  <2>. QED
    BY <1>2, <2>1, FramesAreChain
<1>5. ASSUME AllClean(all)'
      PROVE  Framed(all)'
  <2>1. AllClean(all)
    BY <1>1, <1>5 DEF AllClean
  <2>2. Receiving(all)
    BY <1>2, <1>4, <2>1 DEF Receiving, FrameInv, AllClean
  <2>3. ASSUME NEW n \in 1..(Len(stream) - arrived), Arrive(n)
        PROVE  Framed(all)'
    BY <2>2, <2>3, ArriveFramed
  <2>4. CASE Process
    <3>1. input # <<>> /\ UNCHANGED <<stream, arrived, cuts>>
      BY <2>4 DEF Process
    <3>. QED
      BY <2>2, <2>4, <3>1, IdleFramed, OpenFramed, MoreFramed, WholeFramed,
         CloseFramed DEF Process
  <2>5. CASE UNCHANGED vars
    <3>1. Framed(all)
      BY <2>2 DEF Receiving
    <3>2. Seen' = Seen /\ UNCHANGED <<stream, cuts, nativeMsg, messages>>
      BY <2>5 DEF vars, Seen
    <3>. HIDE DEF Seen
    <3>. QED
      BY <3>1, <3>2 DEF Framed, Stretch
  <2>. QED
    BY <2>3, <2>4, <2>5 DEF Next
<1>6. AllClean(all)' = AllClean(Frames(stream))' /\ Framed(all)' = Framed(Frames(stream))'
  BY <1>3
<1>. QED
  BY <1>1, <1>5, <1>6 DEF FrameInv

\* The frames that were looked at are those that were handed over.
LEMMA FramedIsFramed == IInv /\ FrameInv => CleanStreamIsFramed
<1>. SUFFICES ASSUME IInv, FrameInv  PROVE CleanStreamIsFramed
  OBVIOUS
<1>1. PICK all : all = Frames(stream)
  OBVIOUS
<1>2. /\ Chain(stream, all, 1) /\ stream \in Seq(Token)
      /\ all \in Seq(Nat \X Nat) /\ DOMAIN all = 1 .. Len(all) /\ Len(all) \in Nat
  <2>1. stream \in Seq(Token)
    BY Geometry
  <2>2. Chain(stream, all, 1)
    BY <1>1, <2>1, FramesAreChain
  <2>. QED
    BY <2>1, <2>2 DEF Chain
<1>. DEFINE seen == {i \in DOMAIN all : all[i][2] + 1 <= Seen}
<1>3. ASSUME \A i \in DOMAIN all : Clean(all[i])
      PROVE  messages = [i \in seen |-> Stretch(all[i])]
  <2>1. Receiving(all)
    BY <1>1, <1>2, <1>3 DEF FrameInv, AllClean, Receiving, Clean
  <2>. DEFINE k == Len(messages)
              p == Behind(all, 1, k + 1)
  <2>2. /\ Seen \in Nat /\ k \in Nat /\ k <= Len(all) /\ p \in Nat /\ p <= Seen + 1
        /\ messages \in Seq(Seq(Token))
        /\ \A i \in 1 .. Len(all) : all[i] \in Nat \X Nat
        /\ \A i \in 1 .. k : all[i][2] + 2 <= p
    BY <2>1, ReceivingFacts
  <2>3. \A i \in 1 .. k : messages[i] = Stretch(all[i])
    BY <2>1 DEF Receiving, Framed
  <2>. HIDE DEF p, Seen
  <2>4. ASSUME NEW i \in 1 .. k
        PROVE  i \in seen
    <3>1. i \in 1 .. Len(all) /\ all[i][2] \in Nat /\ all[i][2] + 2 <= p
      <4>. HIDE DEF k
      <4>. QED
        BY <1>2, <2>2
    <3>2. all[i][2] + 1 <= Seen
      BY <2>2, <3>1
    <3>. QED
      BY <1>2, <3>1, <3>2
  <2>5. ASSUME NEW i \in 1 .. Len(all), i > k
        PROVE  i \notin seen
    <3>. DEFINE h == all[k + 1][1]
                t == all[k + 1][2]
    <3>1. k + 1 \in 1 .. Len(all) /\ k < Len(all)
      BY <1>2, <2>2, <2>5
    <3>2. /\ h \in Nat /\ t \in Nat /\ h <= t
          /\ all[i][1] \in Nat /\ all[i][2] \in Nat /\ all[i][1] <= all[i][2]
      <4>. HIDE DEF k
      <4>. QED
        BY <1>2, <2>2, <3>1, ChainFrame
    <3>3. Seen < t
      <4>1. \/ Seen < h
            \/ Seen \in h + 2 .. t - 1
        BY <2>1, <3>1 DEF Receiving, Framed
      <4>. HIDE DEF h, t
      <4>. QED
        BY <2>2, <3>2, <4>1
    <3>4. t <= all[i][2]
      <4>1. CASE i = k + 1
        BY <3>2, <4>1
      <4>2. CASE i # k + 1
        <5>1. k + 1 < i
          BY <2>2, <2>5, <4>2
        <5>2. t + 2 <= all[i][1]
          BY <1>2, <3>1, <5>1 DEF Chain
        <5>. HIDE DEF t
        <5>. QED
          BY <3>2, <5>2
      <4>. QED
        BY <4>1, <4>2
    <3>. HIDE DEF h, t
    <3>. QED
      BY <2>2, <3>2, <3>3, <3>4
  <2>6. seen = 1 .. k
    BY <1>2, <2>2, <2>4, <2>5
  <2>7. messages = [i \in 1 .. k |-> messages[i]]
    BY <2>2
  <2>. HIDE DEF k, seen
  <2>. QED
    BY <2>3, <2>6, <2>7
<1>. QED
  BY <1>1, <1>3 DEF CleanStreamIsFramed, Stretch

-----------------------------------------------------------------------------
\* The theorems.

LEMMA NextInv ==
    ASSUME IInv, [Next]_vars
    PROVE  IInv' /\ (messages' # messages => HandsOverStretch)
<1>1. ASSUME NEW n \in 1..(Len(stream) - arrived), Arrive(n)
      PROVE  IInv' /\ messages' = messages
  BY <1>1, ArriveInv
<1>2. CASE Process
  BY <1>2, UseUpInv, WholeInv, CloseInv DEF Process
<1>3. CASE UNCHANGED vars
  BY <1>3 DEF vars, IInv, TypeOK, OpenIsStretch, Seen
<1>. QED
  BY <1>1, <1>2, <1>3 DEF Next

\* The input and the open message are windows of the stream, next to each other.
THEOREM Invariance == Spec => []IInv
<1>1. IInv /\ [Next]_vars => IInv'
  BY NextInv
<1>. QED
  BY <1>1, InitInv, PTL DEF Spec

LEMMA FramingNextInv ==
    ASSUME LineInv, [FramingNext]_framingVars
    PROVE  LineInv' /\ (messages' # messages => HandsOverStretch)
<1>1. IInv
  BY DEF LineInv
<1>2. ASSUME NEW n \in 1..(Len(stream) - arrived), Arrive(n), sentence = Empty,
             UNCHANGED lineVars
      PROVE  LineInv' /\ messages' = messages
  <2>1. IInv' /\ messages' = messages
    BY <1>1, <1>2, ArriveInv
  <2>2. stream' = stream /\ nativeMsg' = nativeMsg
    BY <1>2 DEF Arrive
  <2>. QED
    BY <1>2, <2>1, <2>2, OtherStepInv
<1>3. CASE useNativeProtocol /\ Process /\ UNCHANGED lineVars
  <2>1. IInv' /\ (messages' # messages => HandsOverStretch)
    BY <1>1, <1>3, NextInv DEF Next
  <2>2. stream' = stream /\ sentence = Empty
    BY <1>3 DEF Process, LineInv, ProtocolInv
  <2>. QED
    BY <1>3, <2>1, <2>2, OtherStepInv
<1>4. CASE /\ ~useNativeProtocol
           /\ Extract \/ AddChar \/ AddField \/ CheckSum \/ Call \/ NoMore
           /\ UNCHANGED <<stream, arrived, cuts, nativeMsg, messages,
                          useNativeProtocol>>
  BY <1>4, ExtractInv, ParseInv, CallBackInv
<1>5. CASE UNCHANGED framingVars
  <2>1. UNCHANGED vars /\ UNCHANGED lineVars
    BY <1>5 DEF framingVars
  <2>2. IInv' /\ Seen' = Seen /\ messages' = messages
    BY <1>1, <2>1, NextInv DEF vars, Seen
  <2>3. stream' = stream /\ nativeMsg' = nativeMsg
    BY <2>1 DEF vars
  <2>. QED
    BY <2>1, <2>2, <2>3, OtherStepInv
<1>. QED
  BY <1>2, <1>3, <1>4, <1>5 DEF FramingNext

\* The same for either protocol, and the fields that parse has made so far are
\* those of the text up to the place it is at.
THEOREM FramingInvariance == FramingSpec => []LineInv
<1>1. LineInv /\ [FramingNext]_framingVars => LineInv'
  BY FramingNextInv
<1>. QED
  BY <1>1, FramingInitInv, PTL DEF FramingSpec

\* The values of the variables: the input is the part of the stream that was not
\* looked at yet, and none of it is in the open message as well.
THEOREM FramingTypes == FramingSpec => []TypeOK
<1>. LineInv => TypeOK
  BY DEF LineInv, IInv
<1>. QED
  BY FramingInvariance, PTL

\* Whatever the stream, and however it is cut, the open message is the unbroken
\* stretch of it from just after a header up to where the receiver has looked.
THEOREM OpenMessageIsStretch == FramingSpec => []OpenIsStretch
<1>. LineInv => OpenIsStretch
  BY DEF LineInv, IInv
<1>. QED
  BY FramingInvariance, PTL

\* Every message handed over is an unbroken stretch of the stream between a header
\* and the tail that follows it, and begins after the message before.
THEOREM MessagesAreStretches == FramingSpec => DeliversStretch
<1>1. LineInv /\ [FramingNext]_framingVars =>
          [messages' # messages => HandsOverStretch]_vars
  BY FramingNextInv
<1>. QED
  BY <1>1, FramingInvariance, PTL DEF FramingSpec, DeliversStretch

\* The invariant of the frames, of the receiver alone.
THEOREM FrameInvariance == Spec => []FrameInv
<1>1. IInv /\ FrameInv /\ [Next]_vars => FrameInv'
  BY NextFrames
<1>. QED
  BY <1>1, FrameInit, Invariance, PTL DEF Spec

\* Whatever the stream, and wherever it is cut but in a mark of a frame or just
\* after its header, the messages are the frames of the stream that were looked
\* at, in order, each with its tail if and only if one buffer held all of it.
THEOREM CleanMessagesAreFrames == Spec => []CleanStreamIsFramed
BY FramedIsFramed, Invariance, FrameInvariance, PTL

\* The same where the program chooses between the two ways to read a buffer.
THEOREM NativeMessagesAreFrames ==
    FramingSpec => [](useNativeProtocol => CleanStreamIsFramed)
<1>1. FramingInit => FrameInv
  BY FrameInit DEF FramingInit
<1>2. /\ LineInv /\ (useNativeProtocol => FrameInv) /\ [FramingNext]_framingVars
      => (useNativeProtocol => FrameInv)'
  <2>. SUFFICES ASSUME LineInv, useNativeProtocol => FrameInv,
                       [FramingNext]_framingVars, useNativeProtocol'
                PROVE  FrameInv'
    OBVIOUS
  <2>1. useNativeProtocol /\ [Next]_vars
    BY DEF FramingNext, framingVars, lineVars, Next
  <2>. QED
    BY <2>1, NextFrames DEF LineInv
<1>3. LineInv /\ (useNativeProtocol => FrameInv)
      => (useNativeProtocol => CleanStreamIsFramed)
  BY FramedIsFramed DEF LineInv
<1>. QED
  BY <1>1, <1>2, <1>3, FramingInvariance, PTL DEF FramingSpec


\* Whatever sentences are sent, and however the stream is cut, a sentence that is
\* called back with has the fields that were sent, all but the last complete.
THEOREM SentencesAreAsSent == FramingSpec => []OnlyLastIsCut
<1>. LineInv => OnlyLastIsCut
  BY DEF LineInv, SentenceInv
<1>. QED
  BY FramingInvariance, PTL

\* At every step, each sentence was called back with as often as it is due then.
THEOREM CallInvariance == FramingSpec => []CallInv
<1>1. LineInv /\ CallInv /\ [FramingNext]_framingVars => CallInv'
  BY NextCalls
<1>. QED
  BY <1>1, CallInit, FramingInvariance, PTL DEF FramingSpec

\* Whatever sentences are sent, and however the stream is cut, every sentence
\* that begins in a buffer is called back with once, the last of a buffer twice,
\* and all of them in the order they were sent in.
THEOREM SentencesAreCalled == FramingSpec => []EachIsCalled
<1>1. LineInv /\ CallInv => EachIsCalled
  <2>. SUFFICES ASSUME LineInv, CallInv, ~useNativeProtocol  PROVE EachIsCalled
    BY DEF EachIsCalled
  <2>1. OrderInv /\ DueInv
    BY DEF CallInv
  <2>2. \A i \in DOMAIN stream :
            Cardinality({k \in DOMAIN called : called[k].at = i}) = Due(i)
    BY <2>1 DEF DueInv, Calls
  <2>3. Starts \in SUBSET (DOMAIN stream)
    BY LineFacts, StartsFacts
  <2>. QED
    BY <2>1, <2>2, <2>3 DEF EachIsCalled, OrderInv
<1>. QED
  BY <1>1, FramingInvariance, CallInvariance, PTL
=============================================================================
