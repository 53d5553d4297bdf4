------------------------------ MODULE Framing ------------------------------
(***************************************************************************)
(* onSentenceReceived of navtex.cpp: a buffer goes to the native protocol  *)
(* (NativeFraming) or is cut into NMEA sentences by the Sentence of        *)
(* sentence.cpp, which is made anew for each buffer.  A read returns what  *)
(* has come so far, so that a sentence may be cut anywhere.  For sentences *)
(* the token "$" stands for '$' or '!', "E" for the end of a line, "C" and *)
(* "c" for the two digits of the checksum of the sentence they end; other  *)
(* digits are text.                                                        *)
(***************************************************************************)
EXTENDS NativeFraming, SequencesExt

CONSTANT Lines      \* the streams of NMEA sentences among Streams

Comma == ","

PlacesOf(s, tokens) == {i \in DOMAIN s : s[i] \in tokens}

\* At most two characters follow a '*' in its line, the digits of the checksum.
ASSUME LineAssumption ==
    /\ Lines \subseteq Streams
    /\ \A s \in Lines : \A i \in PlacesOf(s, {"*"}), j \in DOMAIN s :
           i < j /\ (\A k \in i .. j : s[k] # "E") =>
               j <= i + 2 /\ s[j] \notin {"*", Comma}

VARIABLES
    useNativeProtocol,  \* the setting, which fits the radio
    sentence,   \* the Sentence: where it began in the stream, its fields
    chr,        \* the place in the stream that parse is at; 0 outside of parse
    called      \* history: what onNewSentence was called with

lineVars == <<useNativeProtocol, sentence, chr, called>>

framingVars == <<vars, lineVars>>

Empty == [at |-> 0, fields |-> <<>>]

Checksum == <<"C", "c">>

\* Mutant: fields.clear () is missing.
ClearedNot == Append(sentence.fields, <<>>)

\* The fields when parse begins: the first one is always there.
Cleared == <<<<>>>>

\* Mutant: extractAndParse returns the end of the buffer.
RestSkipped(end) == <<>>

\* Where the next call goes on.
Rest(end) == From(input, end)

FramingInit ==
    /\ Init
    /\ useNativeProtocol = (stream \notin Lines)
    /\ sentence = Empty
    /\ chr = 0
    /\ called = <<>>

\* extractAndParse finds the start of a sentence and gives parse the text from
\* there to the end of the line or of the buffer, the stream up to Seen'.
Extract ==
    /\ chr = 0 /\ PlacesOf(input, {"$"}) # {}
    /\ LET start == Min(PlacesOf(input, {"$"}))
           end == Min({i \in PlacesOf(input, {"E"}) : i > start}
                          \union {Len(input) + 1}) IN
       /\ sentence' = [at |-> Seen + start, fields |-> Cleared]
       /\ chr' = Seen + start
       /\ input' = Rest(end)
    /\ UNCHANGED called

\* Sentence::parse, one turn of its loop for each character.
Parsing(tokens) == chr \in 1 .. Seen /\ stream[chr] \in tokens

AddChar ==
    /\ Parsing(Token \ {"*", Comma})
    /\ sentence' = [sentence EXCEPT !.fields[Len(sentence.fields)] =
                                        Append(@, stream[chr])]
    /\ chr' = chr + 1
    /\ UNCHANGED <<input, called>>

AddField ==
    /\ Parsing({Comma})
    /\ sentence' = [sentence EXCEPT !.fields = Append(@, <<>>)]
    /\ chr' = chr + 1
    /\ UNCHANGED <<input, called>>

\* The two digits behind a '*'.  Digits cut off read as zeros, or as what lies
\* behind the string, and may be right by luck.
Right(luck) ==
    IF chr + 2 <= Seen THEN SubSeq(stream, chr + 1, chr + 2) = Checksum
    ELSE luck

\* A right checksum is left out, but its digits stay; a wrong one ends parse,
\* but its verdict is not used.
CheckSum ==
    /\ Parsing({"*"})
    /\ \E luck \in BOOLEAN : chr' = IF Right(luck) THEN chr + 1 ELSE Seen + 1
    /\ UNCHANGED <<input, sentence, called>>

\* parse is over, and cb is called.
Call ==
    /\ chr > Seen
    /\ chr' = 0
    /\ called' = Append(called, sentence)
    /\ UNCHANGED <<input, sentence>>

\* No sentence is left: the fields of the last one, if there was one, are still
\* there and cb is called once more.
NoMore ==
    /\ chr = 0 /\ (input # <<>> \/ sentence # Empty)
    /\ PlacesOf(input, {"$"}) = {}
    /\ called' = IF sentence # Empty THEN Append(called, sentence) ELSE called
    /\ input' = <<>>
    /\ sentence' = Empty
    /\ UNCHANGED chr

FramingNext ==
    \/ /\ sentence = Empty
       /\ \E n \in 1..(Len(stream) - arrived) : Arrive(n)
       /\ UNCHANGED lineVars
    \/ useNativeProtocol /\ Process /\ UNCHANGED lineVars
    \/ /\ ~useNativeProtocol
       /\ Extract \/ AddChar \/ AddField \/ CheckSum \/ Call \/ NoMore
       /\ UNCHANGED <<stream, arrived, cuts, nativeMsg, messages,
                      useNativeProtocol>>

FramingSpec == FramingInit /\ [][FramingNext]_framingVars

-----------------------------------------------------------------------------
\* Where the fields of the sentence that begins at i end, as it was sent.
BodyEnd(i) ==
    Min({j \in PlacesOf(stream, {"*", "E"}) : j > i} \union {Len(stream) + 1})

\* The number of the field of that sentence which place p belongs to; the ','
\* that ends a field belongs to it.
FieldOf(i, p) == 1 + Cardinality({q \in i .. p - 1 : stream[q] = Comma})

\* Field k of it, as it was sent.
Sent(i, k) ==
    LET own == {p \in i .. BodyEnd(i) : FieldOf(i, p) = k} IN
    SubSeq(stream, Min(own), Max(own) - 1)

\* The digits after them.
Digits(i) ==
    LET end == BodyEnd(i) IN
    IF end \in PlacesOf(stream, {"*"})
    THEN SubSeq(stream, end + 1, Min({end + 2, Len(stream)})) ELSE <<>>

\* The fields of a sentence are those that were sent, from the first on without
\* a gap, all but the last with every character; the last may be cut, or have
\* digits of the checksum at its end.
AsSent(s) ==
    LET n == Len(s.fields) IN
    /\ stream[s.at] = "$"
    /\ n \in 1 .. FieldOf(s.at, BodyEnd(s.at))
    /\ \A j \in 1 .. n - 1 : s.fields[j] = Sent(s.at, j)
    /\ \/ IsPrefix(s.fields[n], Sent(s.at, n))
       \/ /\ n = FieldOf(s.at, BodyEnd(s.at))
          /\ \E digits \in Prefixes(Digits(s.at)) :
                 s.fields[n] = Sent(s.at, n) \o digits

\* However the stream was cut, every sentence that is called back with is as it
\* was sent, but for its last field.  A piece of a sentence is never taken for
\* another sentence.
OnlyLastIsCut == \A k \in DOMAIN called : AsSent(called[k])

\* The places where sentences begin in the buffers they arrived in: the first
\* '$' of a line or of what a buffer has of it.
Starts ==
    {i \in PlacesOf(stream, {"$"}) :
        /\ i <= Seen
        /\ \A j \in 1 .. i - 1 : stream[j] = "$" =>
               \E e \in j .. i - 1 : e \in cuts \/ stream[e] = "E"}

BufferEnd(i) == Min({c \in cuts : c >= i})

\* The calls for the sentence that begins at i, once parse is done with it: one,
\* and for the last of a buffer one more when the buffer is done.
Due(i) ==
    IF i \notin Starts \/ (chr # 0 /\ sentence.at = i) THEN 0
    ELSE IF Starts \intersect (i + 1) .. BufferEnd(i) = {} /\ sentence.at # i
    THEN 2 ELSE 1

\* Every sentence that begins in a buffer is called back with as often as it is
\* due and in order, and no piece of the stream otherwise.
EachIsCalled ==
    ~useNativeProtocol =>
        /\ \A i \in DOMAIN stream :
              Cardinality({k \in DOMAIN called : called[k].at = i}) = Due(i)
        /\ \A k \in DOMAIN called :
              called[k].at \in DOMAIN stream
              /\ \A l \in 1 .. k : called[l].at <= called[k].at
=============================================================================
