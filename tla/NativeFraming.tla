--------------------------- MODULE NativeFraming ---------------------------
(***************************************************************************)
(* processNativeProtocolLine of navtex.cpp: messages between ZCZC and NNNN *)
(* cut out of a stream that arrives in buffers of any size.  A token "Z"   *)
(* stands for "ZC", "N" for "NN", the others for stretches of text, so     *)
(* that a buffer may end inside a mark.  Lost characters make a different  *)
(* stream; a stream is what is heard.                                      *)
(***************************************************************************)
EXTENDS Integers, Sequences, FiniteSets, FiniteSetsExt

CONSTANTS
    Text,       \* tokens that are not half of a mark
    Streams     \* the streams that may be heard

Token == {"Z", "N"} \union Text

MSG_HEAD == <<"Z", "Z">>

MSG_TAIL == <<"N", "N">>

ASSUME StreamAssumption == Streams \subseteq Seq(Token)

VARIABLES
    stream,     \* what is sent, fixed
    arrived,    \* how many of its tokens were in a buffer
    cuts,       \* where the buffers ended
    input,      \* what is left of the buffer at hand
    nativeMsg,  \* the open message
    messages    \* the messages handed to processNativeMsg

vars == <<stream, arrived, cuts, input, nativeMsg, messages>>

-----------------------------------------------------------------------------
\* The places at or after p where s has the mark.
Places(s, mark, p) == {i \in p..(Len(s) - 1) : SubSeq(s, i, i + 1) = mark}

Has(s, mark, p) == Places(s, mark, p) # {}

\* std::string::find.
Find(s, mark, p) == Min(Places(s, mark, p))

From(s, p) == SubSeq(s, p, Len(s))

Init ==
    /\ stream \in Streams
    /\ arrived = 0
    /\ cuts = {}
    /\ input = <<>>
    /\ nativeMsg = <<>>
    /\ messages = <<>>

\* onSentenceReceived with a buffer of n tokens.
Arrive(n) ==
    /\ input = <<>> /\ arrived + n <= Len(stream)
    /\ input' = SubSeq(stream, arrived + 1, arrived + n)
    /\ arrived' = arrived + n
    /\ cuts' = cuts \union {arrived + n}
    /\ UNCHANGED <<stream, nativeMsg, messages>>

\* No message is open and none begins: the buffer is thrown away.
Idle ==
    /\ nativeMsg = <<>> /\ ~Has(input, MSG_HEAD, 1)
    /\ input' = <<>>
    /\ UNCHANGED <<nativeMsg, messages>>

\* A message begins; if nothing follows the header yet, nativeMsg stays empty
\* and the header is forgotten.
Open ==
    /\ nativeMsg = <<>> /\ Has(input, MSG_HEAD, 1)
    /\ LET h == Find(input, MSG_HEAD, 1) IN
       /\ ~Has(input, MSG_TAIL, h + 2)
       /\ nativeMsg' = From(input, h + 2)
    /\ input' = <<>>
    /\ UNCHANGED messages

\* Both marks are in the buffer.  The length given to substr is counted from
\* the header, so that the tail stays in the message.  The rest goes on.
Whole ==
    /\ nativeMsg = <<>> /\ Has(input, MSG_HEAD, 1)
    /\ LET h == Find(input, MSG_HEAD, 1) IN
       /\ Has(input, MSG_TAIL, h + 2)
       /\ LET t == Find(input, MSG_TAIL, h + 2) IN
          /\ messages' = Append(messages, SubSeq(input, h + 2, t + 1))
          /\ input' = From(input, t + 2)
    /\ UNCHANGED nativeMsg

\* The open message goes on.
More ==
    /\ nativeMsg # <<>> /\ ~Has(input, MSG_TAIL, 1)
    /\ nativeMsg' = nativeMsg \o input
    /\ input' = <<>>
    /\ UNCHANGED messages

\* Mutant: nativeMsg.clear () is missing.
CloseKeepsText ==
    /\ nativeMsg # <<>> /\ Has(input, MSG_TAIL, 1)
    /\ LET t == Find(input, MSG_TAIL, 1)
           text == nativeMsg \o SubSeq(input, 1, t - 1) IN
       /\ messages' = Append(messages, text)
       /\ nativeMsg' = text
       /\ input' = From(input, t + 2)

\* Mutant: the last buffer replaces what was collected.
CloseOverwrites ==
    /\ nativeMsg # <<>> /\ Has(input, MSG_TAIL, 1)
    /\ LET t == Find(input, MSG_TAIL, 1) IN
       /\ messages' = Append(messages, SubSeq(input, 1, t - 1))
       /\ nativeMsg' = <<>>
       /\ input' = From(input, t + 2)

\* The open message ends in this buffer, without its tail; the rest goes on.
Close ==
    /\ nativeMsg # <<>> /\ Has(input, MSG_TAIL, 1)
    /\ LET t == Find(input, MSG_TAIL, 1) IN
       /\ messages' = Append(messages, nativeMsg \o SubSeq(input, 1, t - 1))
       /\ nativeMsg' = <<>>
       /\ input' = From(input, t + 2)

\* One call of processNativeProtocolLine; it calls itself with the rest.
Process ==
    /\ input # <<>>
    /\ Idle \/ Open \/ Whole \/ More \/ Close
    /\ UNCHANGED <<stream, arrived, cuts>>

Next == (\E n \in 1..(Len(stream) - arrived) : Arrive(n)) \/ Process

Spec == Init /\ [][Next]_vars

-----------------------------------------------------------------------------
\* How far the stream has been looked at.
Seen == arrived - Len(input)

\* Types; no token is in the open message and in the buffer at the same time.
TypeOK ==
    /\ stream \in Streams
    /\ arrived \in 0..Len(stream)
    /\ cuts \subseteq 1..arrived
    /\ input = SubSeq(stream, Seen + 1, arrived)
    /\ nativeMsg \in Seq(Token)
    /\ messages \in Seq(Seq(Token))
    /\ Len(nativeMsg) + Len(input) <= arrived

\* However the stream was cut, the open message is the unbroken stretch of it
\* from just after a header up to where the receiver has looked.
OpenIsStretch ==
    nativeMsg # <<>> =>
        LET start == Seen - Len(nativeMsg) IN
        /\ start >= 2 /\ SubSeq(stream, start - 1, start) = MSG_HEAD
        /\ nativeMsg = SubSeq(stream, start + 1, Seen)

\* The last message handed over is an unbroken stretch of the stream, from just
\* after a header to a tail or including it; neither the header nor the text was
\* in an earlier message.
HandsOverStretch ==
    LET text == messages'[Len(messages')]
        end == Seen' IN
    /\ SubSeq(stream, end - 1, end) = MSG_TAIL
    /\ \E start \in (Seen - Len(nativeMsg))..end :
          /\ start >= 2 /\ SubSeq(stream, start - 1, start) = MSG_HEAD
          /\ text \in {SubSeq(stream, start + 1, end),
                       SubSeq(stream, start + 1, end - 2)}

\* However the stream was cut, and whatever was heard before, every message is
\* handed over as such a stretch.
DeliversStretch == [][messages' # messages => HandsOverStretch]_vars

\* The frames of s from place p on, as pairs of the places of their marks.
Frames(s) ==
    LET f[p \in 1..(Len(s) + 1)] ==
            IF \E h \in Places(s, MSG_HEAD, p) : Has(s, MSG_TAIL, h + 2)
            THEN LET h == Find(s, MSG_HEAD, p)
                     t == Find(s, MSG_TAIL, h + 2)
                 IN <<<<h, t>>>> \o f[t + 2]
            ELSE <<>>
    IN f[1]

\* No buffer ended inside a mark of the frame or just after its header.
Clean(f) == cuts \intersect {f[1], f[1] + 1, f[2]} = {}

\* If no buffer of a stream ended inside a mark of a frame or just after its
\* header, the messages are those frames of the stream that were looked at, in
\* order, each with its tail if and only if one buffer held all of it.
CleanStreamIsFramed ==
    LET all == Frames(stream)
        seen == {i \in DOMAIN all : all[i][2] + 1 <= Seen}
    IN (\A i \in DOMAIN all : Clean(all[i])) =>
           messages = [i \in seen |->
               LET f == all[i] IN
               SubSeq(stream, f[1] + 2,
                      IF cuts \intersect f[1]..f[2] = {} THEN f[2] + 1
                      ELSE f[2] - 1)]
=============================================================================
