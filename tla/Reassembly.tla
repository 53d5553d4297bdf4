----------------------------- MODULE Reassembly -----------------------------
(***************************************************************************)
(* Reassembly of NAVTEX messages from NRX sentences: the map `messages` of *)
(* message.cpp, the handlers parseNxNrx and parseCrNrx of parsing.cpp and  *)
(* the loop Sentence::extractAndParseAll that calls them, all on the       *)
(* receiver thread, one read buffer after the other.                       *)
(*                                                                         *)
(* A read brings any short sequence of sentences, so that loss,            *)
(* duplication, reordering and interleaving of messages are all there.     *)
(* Each sentence is a record of the fields the handlers look at.           *)
(***************************************************************************)
EXTENDS Integers, Sequences, FiniteSets

CONSTANTS
    Sentences,  \* the sentences the radio or the network may bring
    Char,       \* the characters of a station or a subject
    Code,       \* of these, the letters 'A'..'Z'
    Text,       \* the texts of a line, after translateControlCharacters
    NoID,       \* a message code shorter than four characters
    NoPart,     \* a line of a slot not received yet
    Free,       \* no slot in the map for this key
    MaxBuffer   \* bound: sentences in one read buffer

\* A message code: B1 (transmitter), B2 (subject) and the serial number.
LineID == [station : Char, subject : Char, serial : Nat] \union {NoID}

\* talker/full: the checks of onNewSentence and of the number of fields;
\* total, line, seq, id: the numbering fields; valid: status 'A' of CR line 1;
\* utc: the time in the date fields or after "UTC" in the text, -1 if none.
Shape == [talker : {"NX", "CR", "other"}, full : BOOLEAN, total : Int,
          line : Int, seq : Int, id : LineID, valid : BOOLEAN, utc : Int,
          text : Text]

ASSUME SentenceAssumption ==
    /\ Sentences \subseteq Shape
    /\ IsFiniteSet(Sentences)
    /\ \A s \in Sentences : s.utc # 0

ASSUME CodeAssumption == Code \subseteq Char

ASSUME BufferAssumption == MaxBuffer \in Nat

-----------------------------------------------------------------------------
\* CR numbers its messages; NX takes the digits of the message code.
SeqNo(s) ==
    IF s.talker = "CR" THEN s.seq
    ELSE IF s.id = NoID THEN 0 ELSE s.id.serial

\* std::map<uint8_t, Message>: the number is cut to a byte.
Key(s) == SeqNo(s) % 256

Keys == {Key(s) : s \in Sentences}

\* CR line 1 carries the message code in front of its text.
Body(s) == [code |-> IF s.talker = "CR" /\ s.line = 1 THEN s.id ELSE NoID,
            text |-> s.text]

Fragments == {Body(s) : s \in Sentences}

\* An NX sentence has a time on line 1 only.
WhenSent(s) == IF s.talker = "NX" /\ s.line # 1 THEN 0 ELSE s.utc

IDs == {s.id : s \in Sentences}

Times == {WhenSent(s) : s \in Sentences}

Totals == {s.total : s \in Sentences} \intersect (Nat \ {0})

Slot == UNION {[total : {n}, parts : [1..n -> Fragments \union {NoPart}],
                sent : Times, id : IDs] : n \in Totals}

ASSUME MarkerAssumption == NoPart \notin Fragments /\ Free \notin Slot

\* Message::completed: every line is there.
Completed(m) == \A i \in 1..m.total : m.parts[i] # NoPart

\* Mutant: the constructor forgets the line that opened the slot.
OpenedEmpty(s) ==
    [total |-> s.total, sent |-> WhenSent(s), id |-> s.id,
     parts |-> [i \in 1..s.total |-> NoPart]]

\* Message::Message, which records the line that opens the slot.
Opened(s) ==
    [total |-> s.total, sent |-> WhenSent(s), id |-> s.id,
     parts |-> [i \in 1..s.total |->
                   IF i = s.line THEN Body(s) ELSE NoPart]]

\* Mutant: any later time replaces the one of line 1.
UpdatedTime(m, s) ==
    [m EXCEPT !.parts[s.line] = Body(s),
              !.sent = IF WhenSent(s) > 0 THEN WhenSent(s) ELSE @]

\* Mutant: lines are put in the order they arrive.
UpdatedInOrder(m, s) ==
    LET missing == {i \in 1..m.total : m.parts[i] = NoPart} IN
    [m EXCEPT !.parts[CHOOSE i \in missing : \A j \in missing : i <= j] =
        Body(s)]

\* checkMessage on a slot that exists: the line replaces what was there.
Updated(m, s) ==
    [m EXCEPT !.parts[s.line] = Body(s),
              !.sent = IF m.sent = 0 /\ WhenSent(s) > 0
                       THEN WhenSent(s) ELSE @]

Deliveries == [id : IDs, sent : Times \union {0},
               text : UNION {[1..n -> Fragments] : n \in Totals}]

\* parseLineID and isSubjectEnabled: station and subject are letters.
Accepts(id) == id # NoID /\ id.station \in Code /\ id.subject \in Code

\* What parseNxNrx and parseCrNrx hand to processNativeMsg: NX uses what the
\* slot remembers, CR the code of the sentence at hand and no time.
Delivery(m, s) ==
    [id |-> IF s.talker = "NX" THEN m.id ELSE s.id,
     sent |-> IF s.talker = "NX" THEN m.sent ELSE 0,
     text |-> m.parts]

-----------------------------------------------------------------------------
VARIABLES
    messages,   \* messages[k]: the slot of key k, or Free
    buffer,     \* the sentences of the read at hand
    next,       \* index of the sentence to extract; Len(buffer) + 1: the last
                \* one is handled again; Len(buffer) + 2: the read is done
    alive,      \* FALSE once a handler has brought the process down
    delivered   \* the messages of this read that went to addMessage

vars == <<messages, buffer, next, alive, delivered>>

Init ==
    /\ messages = [k \in Keys |-> Free]
    /\ buffer = <<>>
    /\ next = 2
    /\ alive = TRUE
    /\ delivered = <<>>

Done == next = Len(buffer) + 2

\* onSentenceReceived is called with the next buffer.
Read(b) ==
    /\ alive /\ Done
    /\ buffer' = b
    /\ next' = 1
    /\ delivered' = <<>>
    /\ UNCHANGED <<messages, alive>>

\* The fields when the callback runs.  extractAndParse that finds no further
\* '$' leaves the fields alone and the callback runs on them once more.
Current == buffer[IF next <= Len(buffer) THEN next ELSE Len(buffer)]

\* The early returns: another sentence, too few fields, an invalid CR line 1.
Ignored(s) ==
    \/ s.talker = "other"
    \/ ~s.full
    \/ s.talker = "CR" /\ s.line = 1 /\ ~s.valid

\* Mutant: checkMessage opens a slot for whatever line comes first.
MissingNever(s) == FALSE

\* Mutant: lines are counted from 0.
MissingFromZero(s) == messages[Key(s)] = Free /\ s.line # 0

\* checkMessage opens a slot for line 1 only.
Missing(s) == messages[Key(s)] = Free /\ s.line # 1

\* The slot after checkMessage.
Checked(s) ==
    IF messages[Key(s)] = Free THEN Opened(s)
    ELSE Updated(messages[Key(s)], s)

\* The line exists in the slot, else isReceived[line - 1] is out of bounds
\* (or its vector could not be allocated).
Fits(s) ==
    LET total == IF messages[Key(s)] = Free THEN s.total
                 ELSE messages[Key(s)].total
    IN s.line \in 1..total

\* Nothing happens: an early return, or NX without a slot.
Skip(s) ==
    /\ Ignored(s) \/ (Missing(s) /\ s.talker = "NX")
    /\ UNCHANGED <<messages, alive, delivered>>

\* An index out of bounds, or CR's msg->completed() with msg null.
Fault(s) ==
    /\ ~Ignored(s)
    /\ IF Missing(s) THEN s.talker = "CR" ELSE ~Fits(s)
    /\ alive' = FALSE
    /\ UNCHANGED <<messages, delivered>>

\* The line is kept, the message is not complete.
Keep(s) ==
    /\ ~Ignored(s) /\ ~Missing(s) /\ Fits(s)
    /\ ~Completed(Checked(s))
    /\ messages' = [messages EXCEPT ![Key(s)] = Checked(s)]
    /\ UNCHANGED <<alive, delivered>>

\* Mutant: dropMessage is called for stored messages only.
FinishKeepsRejected(s) ==
    /\ ~Ignored(s) /\ ~Missing(s) /\ Fits(s)
    /\ Completed(Checked(s))
    /\ LET d == Delivery(Checked(s), s) IN
       IF Accepts(d.id)
       THEN /\ messages' = [messages EXCEPT ![Key(s)] = Free]
            /\ delivered' = Append(delivered, d)
       ELSE /\ messages' = [messages EXCEPT ![Key(s)] = Checked(s)]
            /\ UNCHANGED delivered
    /\ UNCHANGED alive

\* Mutant: dropMessage is never called.
FinishKeepsSlot(s) ==
    /\ ~Ignored(s) /\ ~Missing(s) /\ Fits(s)
    /\ Completed(Checked(s))
    /\ messages' = [messages EXCEPT ![Key(s)] = Checked(s)]
    /\ delivered' = LET d == Delivery(Checked(s), s) IN
                    IF Accepts(d.id) THEN Append(delivered, d) ELSE delivered
    /\ UNCHANGED alive

\* The line completes the message: stored if its code is good, then dropped.
Finish(s) ==
    /\ ~Ignored(s) /\ ~Missing(s) /\ Fits(s)
    /\ Completed(Checked(s))
    /\ messages' = [messages EXCEPT ![Key(s)] = Free]
    /\ delivered' = LET d == Delivery(Checked(s), s) IN
                    IF Accepts(d.id) THEN Append(delivered, d) ELSE delivered
    /\ UNCHANGED alive

Handle(s) == Skip(s) \/ Fault(s) \/ Keep(s) \/ Finish(s)

\* The loop of extractAndParseAll finds one more sentence.
Extract ==
    /\ alive /\ next <= Len(buffer)
    /\ Handle(Current)
    /\ next' = next + 1
    /\ UNCHANGED buffer

\* The loop finds none, and still calls back.
Replay ==
    /\ alive /\ next = Len(buffer) + 1
    /\ Handle(Current)
    /\ next' = next + 1
    /\ UNCHANGED buffer

\* A buffer without '$' makes no callback and changes nothing.
Buffers == UNION {[1..n -> Sentences] : n \in 1..MaxBuffer}

Next == (\E b \in Buffers : Read(b)) \/ Extract \/ Replay

Spec == Init /\ [][Next]_vars

-----------------------------------------------------------------------------
\* The types of the variables; a slot has as many flags as its total says.
TypeOK ==
    /\ messages \in [Keys -> Slot \union {Free}]
    /\ buffer \in Buffers \union {<<>>}
    /\ next \in 1..(Len(buffer) + 2)
    /\ buffer = <<>> => Done
    /\ alive \in BOOLEAN
    /\ delivered \in Seq(Deliveries)

\* Between two sentences no finished message is left behind in the map, and a
\* slot is there only because of a line 1: what parseNxNrx and parseCrNrx rely
\* on when they test completed() only for the slot they just changed.
OpenSlotsWait ==
    \A k \in Keys : messages[k] # Free =>
        /\ messages[k].parts[1] # NoPart
        /\ \E i \in 1..messages[k].total : messages[k].parts[i] = NoPart

\* While a slot is open, its length, its message code and the time it was sent
\* are those of the line that opened it, however many lines 1 come after
\* (the guard in checkMessage).
HeaderIsFixed ==
    [][\A k \in Keys : (messages[k] # Free /\ messages'[k] # Free) =>
          /\ messages'[k].total = messages[k].total
          /\ messages'[k].id = messages[k].id
          /\ messages'[k].sent = messages[k].sent]_vars

\* The second callback for the last sentence of a buffer stores again only a
\* message of one line: one of several lines is gone from the map by then.
ReplayStoresOneLinersOnly ==
    [][(next = Len(buffer) + 1 /\ delivered' # delivered) =>
          \/ delivered' = <<>>
          \/ Len(delivered'[Len(delivered')].text) = 1]_vars

\* Reassembly implements Assembly: what is handed over is always a gapless run
\* of the latest lines of one key since its line 1, whatever the order,
\* duplication and loss of sentences.
Lines == UNION {1..n : n \in Totals}

Heard(m) == [i \in {j \in 1..m.total : m.parts[j] # NoPart} |-> m.parts[i]]

Latest == [k \in Keys |-> IF messages[k] = Free THEN [i \in {} |-> i]
                         ELSE Heard(messages[k])]

Labels == [id : IDs, sent : Times \union {0}]

Out == [i \in 1..Len(delivered) |->
           [label |-> [id |-> delivered[i].id, sent |-> delivered[i].sent],
            text |-> delivered[i].text]]

A == INSTANCE Assembly WITH
        Keys <- Keys, Line <- Lines, Fragment <- Fragments, Label <- Labels,
        Wanted <- {l \in Labels : Accepts(l.id)},
        latest <- Latest, out <- Out

ImplementsAssembly == A!Spec

-----------------------------------------------------------------------------
\* Traffic a receiver sees while no key is used by two messages: a key has one
\* talker, one message code, one length; its lines have one text each; CR
\* messages have one line (parseCrNrx takes the code from the last line, and
\* fails on a line without a slot).
Relevant == {s \in Sentences : ~Ignored(s)}

Disciplined ==
    \A s \in Relevant :
        /\ s.line \in 1..s.total
        /\ s.talker = "CR" => s.total = 1
        /\ \A t \in Relevant : Key(t) = Key(s) =>
              /\ t.talker = s.talker /\ t.total = s.total /\ t.id = s.id
              /\ t.line = s.line => t = s

\* In such traffic no handler fails.
NoFault == alive

\* d is the message of key k as it was sent: each line in its place, under the
\* code of its line 1, with the time of line 1 if the talker is NX.
IsMessage(d, k) ==
    \A i \in 1..Len(d.text) : \E s \in Relevant :
        /\ Key(s) = k /\ s.line = i /\ s.total = Len(d.text)
        /\ d.text[i] = Body(s) /\ d.id = s.id
        /\ i = 1 => d.sent = IF s.talker = "NX" THEN s.utc ELSE 0

\* In such traffic every stored message is one that was sent: no lines of two
\* messages are mixed, none is missing or out of place.
Integrity ==
    \A i \in 1..Len(delivered) : \E k \in Keys : IsMessage(delivered[i], k)

\* Line 1 of the message of s is in the buffer, and every other line after it.
AllThere(s) ==
    \E p \in 1..Len(buffer) :
        /\ buffer[p] \in Relevant /\ Key(buffer[p]) = Key(s)
        /\ buffer[p].line = 1
        /\ \A i \in 2..s.total : \E q \in (p + 1)..Len(buffer) :
              /\ buffer[q] \in Relevant /\ Key(buffer[q]) = Key(s)
              /\ buffer[q].line = i

\* In such traffic a message with an enabled code all of whose lines are in one
\* buffer, line 1 first, is stored by the end of that read, whatever earlier
\* reads left in its slot.
NothingLost ==
    Done => \A s \in Relevant :
        (s.line = 1 /\ Accepts(s.id) /\ AllThere(s)) =>
            \E i \in 1..Len(delivered) : IsMessage(delivered[i], Key(s))
=============================================================================
