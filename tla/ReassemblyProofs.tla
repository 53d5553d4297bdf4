-------------------------- MODULE ReassemblyProofs --------------------------
(***************************************************************************)
(* Theorems about Reassembly, for every set of sentences and every bound   *)
(* on the read buffer.  The inductive invariant IInv adds to the types     *)
(* that open slots wait for a line, that they know the time they were sent *)
(* and that the sentence about to be handled again has been handled.       *)
(***************************************************************************)
EXTENDS Reassembly, TLAPS, SequenceTheorems

\* A slot is opened by line 1, whose time is never 0.
TimeKnown == \A k \in Keys : messages[k] # Free => messages[k].sent # 0

\* Before the second callback for the last sentence, its line is in its slot,
\* or there is no slot.
LastHandled ==
    \A s \in Sentences :
        (/\ alive /\ next = Len(buffer) + 1 /\ s = buffer[Len(buffer)]
         /\ ~Ignored(s) /\ messages[Key(s)] # Free) =>
            /\ s.line \in 1..messages[Key(s)].total
            /\ messages[Key(s)].parts[s.line] # NoPart

IInv == TypeOK /\ OpenSlotsWait /\ TimeKnown /\ LastHandled

-----------------------------------------------------------------------------
\* The fields of a sentence have the types that Shape gives them.
LEMMA SentenceFields ==
    ASSUME NEW s \in Sentences
    PROVE  /\ s.line \in Int /\ s.total \in Int /\ s.utc \in Int /\ s.utc # 0
           /\ s.talker \in {"NX", "CR", "other"}
           /\ Key(s) \in Keys /\ Body(s) \in Fragments /\ Body(s) # NoPart
           /\ WhenSent(s) \in Times /\ WhenSent(s) \in Int
           /\ s.id \in IDs
<1>1. s \in Shape
  BY SentenceAssumption
<1>2. s.utc # 0
  BY SentenceAssumption
<1>3. s.line \in Int /\ s.total \in Int /\ s.utc \in Int /\ s.talker \in {"NX", "CR", "other"}
  BY <1>1 DEF Shape
<1>4. Key(s) \in Keys /\ Body(s) \in Fragments /\ WhenSent(s) \in Times /\ s.id \in IDs
  BY DEF Keys, Fragments, Times, IDs
<1>5. WhenSent(s) \in Int
  BY <1>3 DEF WhenSent
<1>6. Body(s) # NoPart
  BY <1>4, MarkerAssumption
<1> QED
  BY <1>2, <1>3, <1>4, <1>5, <1>6

\* What a slot is made of.
LEMMA SlotFields ==
    ASSUME NEW m \in Slot
    PROVE  /\ m.total \in Totals /\ m.total \in Nat \ {0}
           /\ m.parts \in [1..m.total -> Fragments \union {NoPart}]
           /\ m.sent \in Times /\ m.id \in IDs
           /\ m = [total |-> m.total, parts |-> m.parts, sent |-> m.sent, id |-> m.id]
<1>1. PICK n \in Totals :
        m \in [total : {n}, parts : [1..n -> Fragments \union {NoPart}],
               sent : Times, id : IDs]
  BY DEF Slot
<1>2. m.total = n
  BY <1>1
<1> QED
  BY <1>1, <1>2 DEF Totals

\* A record with these fields is a slot.
LEMMA SlotIntro ==
    ASSUME NEW n \in Totals, NEW p \in [1..n -> Fragments \union {NoPart}],
           NEW t \in Times, NEW i \in IDs
    PROVE  [total |-> n, parts |-> p, sent |-> t, id |-> i] \in Slot
  BY DEF Slot

\* Message::Message makes a slot when the line is within its total.
LEMMA OpenedType ==
    ASSUME NEW s \in Sentences, s.line \in 1..s.total
    PROVE  /\ Opened(s) \in Slot
           /\ Opened(s).total = s.total /\ Opened(s).id = s.id
           /\ Opened(s).sent = WhenSent(s)
           /\ \A i \in 1..s.total : Opened(s).parts[i] =
                 IF i = s.line THEN Body(s) ELSE NoPart
<1> DEFINE p == [i \in 1..s.total |-> IF i = s.line THEN Body(s) ELSE NoPart]
<1>1. s.total \in Totals
  BY SentenceFields DEF Totals
<1>2. p \in [1..s.total -> Fragments \union {NoPart}]
  BY SentenceFields
<1>3. Opened(s) = [total |-> s.total, parts |-> p, sent |-> WhenSent(s), id |-> s.id]
  BY DEF Opened
<1>4. Opened(s) \in Slot
  BY <1>1, <1>2, <1>3, SlotIntro, SentenceFields
<1> QED
  BY <1>3, <1>4

\* checkMessage on an open slot sets one part and, while the time is 0, the time.
LEMMA UpdatedType ==
    ASSUME NEW m \in Slot, NEW s \in Sentences, s.line \in 1..m.total
    PROVE  /\ Updated(m, s) \in Slot
           /\ Updated(m, s).total = m.total /\ Updated(m, s).id = m.id
           /\ m.sent # 0 => Updated(m, s).sent = m.sent
           /\ \A i \in 1..m.total : Updated(m, s).parts[i] =
                 IF i = s.line THEN Body(s) ELSE m.parts[i]
<1> DEFINE p == [m.parts EXCEPT ![s.line] = Body(s)]
           t == IF m.sent = 0 /\ WhenSent(s) > 0 THEN WhenSent(s) ELSE m.sent
<1>1. p \in [1..m.total -> Fragments \union {NoPart}]
  BY SlotFields, SentenceFields
<1>2. t \in Times
  BY SlotFields, SentenceFields
<1>3. Updated(m, s) = [total |-> m.total, parts |-> p, sent |-> t, id |-> m.id]
  <2>1. Updated(m, s) = [m EXCEPT !.parts = p, !.sent = t]
    BY DEF Updated
  <2>2. m = [total |-> m.total, parts |-> m.parts, sent |-> m.sent, id |-> m.id]
    BY SlotFields
  <2> HIDE DEF p, t
  <2> QED
    BY <2>1, <2>2
<1>4. Updated(m, s) \in Slot
  <2> HIDE DEF p, t
  <2> QED BY <1>1, <1>2, <1>3, SlotIntro, SlotFields
<1>5. \A i \in 1..m.total : p[i] = IF i = s.line THEN Body(s) ELSE m.parts[i]
  BY SlotFields
<1> QED
  BY <1>3, <1>4, <1>5

\* What Checked returns whenever the handler gets past its guards.
LEMMA CheckedType ==
    ASSUME NEW s \in Sentences, TypeOK, ~Missing(s), Fits(s)
    PROVE  /\ Checked(s) \in Slot
           /\ s.line \in 1..Checked(s).total
           /\ Checked(s).parts[s.line] = Body(s)
           /\ messages[Key(s)] = Free => /\ Checked(s) = Opened(s) /\ s.line = 1
                                         /\ s.line \in 1..s.total
           /\ messages[Key(s)] # Free => /\ messages[Key(s)] \in Slot
                                         /\ Checked(s) = Updated(messages[Key(s)], s)
                                         /\ s.line \in 1..messages[Key(s)].total
<1>1. CASE messages[Key(s)] = Free
  BY <1>1, OpenedType DEF Checked, Fits, Missing
<1>2. CASE messages[Key(s)] # Free
  <2>1. messages[Key(s)] \in Slot
    BY <1>2, SentenceFields DEF TypeOK
  <2> QED
    BY <1>2, <2>1, UpdatedType DEF Checked, Fits, Missing
<1> QED
  BY <1>1, <1>2

\* What Delivery returns for a message that is complete.
LEMMA DeliveryType ==
    ASSUME NEW s \in Sentences, NEW m \in Slot, Completed(m)
    PROVE  /\ Delivery(m, s) \in Deliveries
           /\ Delivery(m, s).text = m.parts
           /\ Len(m.parts) = m.total
<1>1. m.total \in Totals /\ m.total \in Nat
  BY SlotFields
<1>2. m.parts \in [1..m.total -> Fragments]
  BY SlotFields DEF Completed
<1>3. m.parts \in UNION {[1..n -> Fragments] : n \in Totals}
  BY <1>1, <1>2
<1>4. Len(m.parts) = m.total
  BY <1>1, <1>2
<1>5. Delivery(m, s).id \in IDs /\ Delivery(m, s).sent \in Times \union {0}
  BY SlotFields, SentenceFields DEF Delivery
<1>6. Delivery(m, s).text = m.parts
  BY DEF Delivery
<1> QED
  BY <1>3, <1>4, <1>5, <1>6 DEF Delivery, Deliveries

\* The reads are sequences of sentences, and none is empty.
LEMMA BufferFacts ==
    ASSUME NEW b \in Buffers
    PROVE  /\ b \in Seq(Sentences) /\ Len(b) \in Nat \ {0} /\ b # <<>>
           /\ \A i \in 1..Len(b) : b[i] \in Sentences
<1>1. PICK n \in 1..MaxBuffer : b \in [1..n -> Sentences]
  BY DEF Buffers
<1>2. n \in Nat \ {0}
  BY <1>1, BufferAssumption
<1>3. b \in Seq(Sentences) /\ Len(b) = n
  BY <1>1, <1>2
<1> QED
  BY <1>1, <1>2, <1>3

\* A handler always has a sentence at hand.
LEMMA CurrentSentence ==
    ASSUME TypeOK, ~Done
    PROVE  /\ Current \in Sentences /\ Len(buffer) \in Nat \ {0}
           /\ buffer \in Buffers /\ next \in 1..(Len(buffer) + 1)
           /\ next >= Len(buffer) => Current = buffer[Len(buffer)]
<1>1. buffer \in Buffers
  BY DEF TypeOK
<1>2. Len(buffer) \in Nat \ {0}
  BY <1>1, BufferFacts
<1>3. next \in 1..(Len(buffer) + 1)
  BY <1>2 DEF TypeOK, Done
<1> QED
  BY <1>1, <1>2, <1>3, BufferFacts DEF Current

\* Only the slot of the sentence's key changes, and to one value.
SlotBecomes(s, v) == messages' = [messages EXCEPT ![Key(s)] = v]

\* The slot that a handler puts back has its header unless it is new, waits for
\* a line and holds the line just handled.
LEMMA KeepStep ==
    ASSUME NEW s \in Sentences, TypeOK, OpenSlotsWait, TimeKnown, Keep(s)
    PROVE  /\ Checked(s) \in Slot /\ SlotBecomes(s, Checked(s))
           /\ s.line \in 1..Checked(s).total
           /\ Checked(s).parts[s.line] # NoPart
           /\ Checked(s).parts[1] # NoPart
           /\ \E i \in 1..Checked(s).total : Checked(s).parts[i] = NoPart
           /\ Checked(s).sent # 0
           /\ messages[Key(s)] # Free =>
                 /\ Checked(s).total = messages[Key(s)].total
                 /\ Checked(s).id = messages[Key(s)].id
                 /\ Checked(s).sent = messages[Key(s)].sent
<1> DEFINE m == messages[Key(s)]
           c == Checked(s)
<1>1. /\ ~Missing(s) /\ Fits(s) /\ ~Completed(c)
      /\ SlotBecomes(s, c)
  BY DEF Keep, SlotBecomes
<1>2. /\ c \in Slot /\ s.line \in 1..c.total /\ c.parts[s.line] # NoPart
      /\ m = Free => c = Opened(s) /\ s.line = 1 /\ s.line \in 1..s.total
      /\ m # Free => /\ m \in Slot /\ c = Updated(m, s)
                     /\ s.line \in 1..m.total
  BY <1>1, CheckedType, SentenceFields
<1>3. \E i \in 1..c.total : c.parts[i] = NoPart
  BY <1>1 DEF Completed
<1>4. CASE m = Free
  <2>1. c.sent = s.utc
    BY <1>2, <1>4, OpenedType, SentenceFields DEF WhenSent
  <2> QED
    BY <1>1, <1>2, <1>3, <1>4, <2>1, SentenceFields
<1>5. CASE m # Free
  <2>1. m.parts[1] # NoPart /\ m.sent # 0
    BY <1>5, SentenceFields DEF OpenSlotsWait, TimeKnown
  <2>2. /\ c.total = m.total /\ c.id = m.id /\ c.sent = m.sent
        /\ \A i \in 1..m.total : c.parts[i] =
              IF i = s.line THEN Body(s) ELSE m.parts[i]
    BY <1>2, <1>5, <2>1, UpdatedType
  <2>3. 1 \in 1..m.total
    BY <1>2, <1>5, SlotFields
  <2>4. c.parts[1] # NoPart
    BY <2>1, <2>2, <2>3, SentenceFields
  <2> QED
    BY <1>1, <1>2, <1>3, <1>5, <2>1, <2>2, <2>4
<1> QED
  BY <1>4, <1>5

\* A message that is finished leaves the map, and is stored at most once.
LEMMA FinishStep ==
    ASSUME NEW s \in Sentences, TypeOK, Finish(s)
    PROVE  /\ SlotBecomes(s, Free) /\ alive' = alive
           /\ Checked(s) \in Slot /\ Completed(Checked(s))
           /\ Delivery(Checked(s), s) \in Deliveries
           /\ delivered' = IF Accepts(Delivery(Checked(s), s).id)
                           THEN Append(delivered, Delivery(Checked(s), s))
                           ELSE delivered
<1>1. Checked(s) \in Slot /\ Completed(Checked(s))
  BY CheckedType DEF Finish
<1>2. Delivery(Checked(s), s) \in Deliveries
  BY <1>1, DeliveryType
<1> QED
  BY <1>1, <1>2 DEF Finish, SlotBecomes

\* What every handler leaves behind for the other variables.
HandlerKeeps(s) ==
    /\ messages' \in [Keys -> Slot \union {Free}]
    /\ alive' \in BOOLEAN
    /\ delivered' \in Seq(Deliveries)
    /\ OpenSlotsWait' /\ TimeKnown'
    /\ (alive' /\ ~Ignored(s) /\ messages'[Key(s)] # Free) =>
          /\ s.line \in 1..messages'[Key(s)].total
          /\ messages'[Key(s)].parts[s.line] # NoPart
    /\ \A k \in Keys : (messages[k] # Free /\ messages'[k] # Free) =>
          /\ messages'[k].total = messages[k].total
          /\ messages'[k].id = messages[k].id
          /\ messages'[k].sent = messages[k].sent

LEMMA HandleStep ==
    ASSUME NEW s \in Sentences, TypeOK, OpenSlotsWait, TimeKnown, Handle(s)
    PROVE  HandlerKeeps(s)
<1> USE DEF TypeOK
<1>k. Key(s) \in Keys
  BY SentenceFields
<1>1. CASE Skip(s)
  BY <1>1 DEF Skip, HandlerKeeps, OpenSlotsWait, TimeKnown, Missing
<1>2. CASE Fault(s)
  BY <1>2 DEF Fault, HandlerKeeps, OpenSlotsWait, TimeKnown
<1>3. CASE Keep(s)
  <2>1. /\ Checked(s) \in Slot /\ SlotBecomes(s, Checked(s))
        /\ s.line \in 1..Checked(s).total
        /\ Checked(s).parts[s.line] # NoPart
        /\ Checked(s).parts[1] # NoPart
        /\ \E i \in 1..Checked(s).total : Checked(s).parts[i] = NoPart
        /\ Checked(s).sent # 0
        /\ messages[Key(s)] # Free =>
              /\ Checked(s).total = messages[Key(s)].total
              /\ Checked(s).id = messages[Key(s)].id
              /\ Checked(s).sent = messages[Key(s)].sent
    BY <1>3, KeepStep
  <2>2. /\ messages'[Key(s)] = Checked(s)
        /\ \A k \in Keys \ {Key(s)} : messages'[k] = messages[k]
        /\ messages' \in [Keys -> Slot \union {Free}]
    BY <1>k, <2>1 DEF SlotBecomes
  <2>3. OpenSlotsWait' /\ TimeKnown'
    BY <2>1, <2>2 DEF OpenSlotsWait, TimeKnown
  <2>4. alive' = alive /\ delivered' = delivered
    BY <1>3 DEF Keep
  <2> QED
    BY <2>1, <2>2, <2>3, <2>4 DEF HandlerKeeps
<1>4. CASE Finish(s)
  <2>1. /\ SlotBecomes(s, Free) /\ alive' = alive
        /\ delivered' \in Seq(Deliveries)
    BY <1>4, FinishStep
  <2>2. /\ messages'[Key(s)] = Free
        /\ \A k \in Keys \ {Key(s)} : messages'[k] = messages[k]
        /\ messages' \in [Keys -> Slot \union {Free}]
    BY <1>k, <2>1 DEF SlotBecomes
  <2>3. OpenSlotsWait' /\ TimeKnown'
    BY <2>2 DEF OpenSlotsWait, TimeKnown
  <2> QED
    BY <2>1, <2>2, <2>3 DEF HandlerKeeps
<1> QED
  BY <1>1, <1>2, <1>3, <1>4 DEF Handle

\* Extract and Replay handle the sentence at hand and move on by one.
LEMMA HandlingStep ==
    ASSUME TypeOK, OpenSlotsWait, TimeKnown, Extract \/ Replay
    PROVE  /\ Handle(Current) /\ HandlerKeeps(Current) /\ Current \in Sentences
           /\ buffer \in Buffers /\ Len(buffer) \in Nat \ {0} /\ buffer # <<>>
           /\ next \in 1..(Len(buffer) + 1)
           /\ next >= Len(buffer) => Current = buffer[Len(buffer)]
           /\ buffer' = buffer /\ next' = next + 1
<1>1. Len(buffer) \in Nat
  BY BufferFacts DEF TypeOK
<1>2. ~Done /\ Handle(Current) /\ buffer' = buffer /\ next' = next + 1
  BY <1>1 DEF Extract, Replay, Done
<1>3. /\ Current \in Sentences /\ Len(buffer) \in Nat \ {0}
      /\ buffer \in Buffers /\ next \in 1..(Len(buffer) + 1)
      /\ next >= Len(buffer) => Current = buffer[Len(buffer)]
  BY <1>2, CurrentSentence
<1>4. HandlerKeeps(Current)
  BY <1>2, <1>3, HandleStep
<1> QED
  BY <1>2, <1>3, <1>4, BufferFacts

-----------------------------------------------------------------------------
\* Nothing is open and nothing is being handled at the start.
LEMMA InitInv == Init => IInv
  BY DEF Init, IInv, TypeOK, OpenSlotsWait, TimeKnown, LastHandled, Done

\* One step per action: a read, a sentence extracted, the last one again.
LEMMA StepInv == IInv /\ [Next]_vars => IInv'
<1> SUFFICES ASSUME IInv, [Next]_vars PROVE IInv'
  OBVIOUS
<1>t. TypeOK /\ OpenSlotsWait /\ TimeKnown /\ LastHandled
  BY DEF IInv
<1>1. CASE \E b \in Buffers : Read(b)
  <2>1. PICK b \in Buffers : Read(b)
    BY <1>1
  <2>2. b # <<>> /\ Len(b) \in Nat \ {0}
    BY BufferFacts
  <2>3. TypeOK'
    BY <1>t, <2>1, <2>2 DEF TypeOK, Read
  <2>4. LastHandled'
    BY <2>1, <2>2 DEF Read, LastHandled
  <2>5. OpenSlotsWait' /\ TimeKnown'
    BY <1>t, <2>1 DEF Read, OpenSlotsWait, TimeKnown
  <2> QED
    BY <2>3, <2>4, <2>5 DEF IInv
<1>2. CASE Extract \/ Replay
  <2>1. /\ HandlerKeeps(Current) /\ Current \in Sentences
        /\ buffer \in Buffers /\ Len(buffer) \in Nat \ {0} /\ buffer # <<>>
        /\ next \in 1..(Len(buffer) + 1)
        /\ next >= Len(buffer) => Current = buffer[Len(buffer)]
        /\ buffer' = buffer /\ next' = next + 1
    BY <1>t, <1>2, HandlingStep
  <2>2. TypeOK'
    BY <2>1 DEF TypeOK, HandlerKeeps
  <2>3. LastHandled'
    <3> SUFFICES ASSUME NEW s \in Sentences, alive', next' = Len(buffer') + 1,
                        s = buffer'[Len(buffer')],
                        ~Ignored(s), messages'[Key(s)] # Free
                 PROVE  /\ s.line \in 1..messages'[Key(s)].total
                        /\ messages'[Key(s)].parts[s.line] # NoPart
      BY DEF LastHandled
    <3>1. s = Current
      BY <2>1
    <3> QED
      BY <2>1, <3>1 DEF HandlerKeeps
  <2> QED
    BY <2>1, <2>2, <2>3 DEF IInv, HandlerKeeps
<1>4. CASE UNCHANGED vars
  BY <1>t, <1>4 DEF vars, IInv, TypeOK, OpenSlotsWait, TimeKnown, LastHandled,
                    Done, Ignored
<1> QED
  BY <1>1, <1>2, <1>4 DEF Next

\* The inductive invariant.
THEOREM Invariance == Spec => []IInv
<1>1. Init => IInv
  BY InitInv
<1>2. IInv /\ [Next]_vars => IInv'
  BY StepInv
<1> QED
  BY <1>1, <1>2, PTL DEF Spec

\* The variables keep their types: in particular the vectors of a slot have the
\* length given by the line that opened it (message.cpp, Message::Message).
THEOREM TypeCorrect == Spec => []TypeOK
<1>1. IInv => TypeOK
  BY DEF IInv
<1> QED
  BY <1>1, Invariance, PTL

\* Between two sentences every open slot has its line 1 and misses another, so
\* testing completed() on the slot just changed finds every finished message.
THEOREM SlotsWait == Spec => []OpenSlotsWait
<1>1. IInv => OpenSlotsWait
  BY DEF IInv
<1> QED
  BY <1>1, Invariance, PTL

-----------------------------------------------------------------------------
\* Length, message code and time of an open slot never change (checkMessage).
THEOREM HeaderStays == Spec => HeaderIsFixed
<1> DEFINE Stays == \A k \in Keys : (messages[k] # Free /\ messages'[k] # Free) =>
                       /\ messages'[k].total = messages[k].total
                       /\ messages'[k].id = messages[k].id
                       /\ messages'[k].sent = messages[k].sent
<1>1. ASSUME IInv, [Next]_vars PROVE [Stays]_vars
  <2>t. TypeOK /\ OpenSlotsWait /\ TimeKnown
    BY <1>1 DEF IInv
  <2>1. CASE \E b \in Buffers : Read(b)
    BY <2>1 DEF Read
  <2>2. CASE Extract \/ Replay
    BY <2>t, <2>2, HandlingStep DEF HandlerKeeps
  <2>3. CASE UNCHANGED vars
    BY <2>3
  <2> QED
    BY <1>1, <2>1, <2>2, <2>3 DEF Next
<1> QED
  BY <1>1, Invariance, PTL DEF Spec, HeaderIsFixed

-----------------------------------------------------------------------------
\* The second callback finds no slot, or one whose missing line stays missing.
LEMMA ReplayStep ==
    ASSUME IInv, Replay, delivered' # delivered
    PROVE  Len(delivered'[Len(delivered')].text) = 1
<1> DEFINE c == Checked(Current)
           m == messages[Key(Current)]
<1>t. TypeOK /\ OpenSlotsWait /\ TimeKnown /\ LastHandled
  BY DEF IInv
<1>1. /\ Handle(Current) /\ Current \in Sentences /\ Len(buffer) \in Nat
      /\ next = Len(buffer) + 1 /\ alive /\ Current = buffer[Len(buffer)]
  BY <1>t, HandlingStep DEF Replay
<1>2. Finish(Current)
  BY <1>1 DEF Handle, Skip, Fault, Keep
<1>3. /\ c \in Slot /\ Completed(c) /\ Delivery(c, Current) \in Deliveries
      /\ delivered' = Append(delivered, Delivery(c, Current))
  BY <1>t, <1>1, <1>2, FinishStep
<1>4. ~Ignored(Current) /\ ~Missing(Current) /\ Fits(Current)
  BY <1>2 DEF Finish
<1>5. CASE m # Free
  <2>1. /\ m \in Slot /\ c = Updated(m, Current) /\ Current.line \in 1..m.total
    BY <1>t, <1>1, <1>4, <1>5, CheckedType
  <2>2. m.parts[Current.line] # NoPart
    BY <1>t, <1>1, <1>4, <1>5 DEF LastHandled
  <2>3. PICK i \in 1..m.total : m.parts[i] = NoPart
    BY <1>t, <1>1, <1>5, SentenceFields DEF OpenSlotsWait
  <2>4. c.total = m.total /\ c.parts[i] = NoPart
    BY <1>1, <2>1, <2>2, <2>3, UpdatedType
  <2> QED
    BY <1>3, <2>3, <2>4 DEF Completed
<1>6. CASE m = Free
  <2>1. c = Opened(Current) /\ Current.line = 1 /\ 1 \in 1..Current.total
    BY <1>t, <1>1, <1>4, <1>6, CheckedType
  <2>2. /\ c.total = Current.total /\ Current.total \in Nat
        /\ \A i \in 1..Current.total : c.parts[i] = IF i = 1 THEN Body(Current) ELSE NoPart
    <3>1. Current.total \in Int /\ Current.line \in 1..Current.total
      BY <1>1, <2>1, SentenceFields
    <3>2. /\ c.total = Current.total
          /\ \A i \in 1..Current.total : c.parts[i] = IF i = Current.line THEN Body(Current) ELSE NoPart
      BY <1>1, <2>1, <3>1, OpenedType
    <3> QED
      BY <2>1, <3>1, <3>2
  <2>3. Current.total = 1
    BY <1>3, <2>1, <2>2 DEF Completed
  <2>4. Len(Delivery(c, Current).text) = 1
    BY <1>1, <1>3, <2>2, <2>3, DeliveryType
  <2> QED
    BY <1>t, <1>3, <2>4 DEF TypeOK
<1> QED
  BY <1>5, <1>6

\* extractAndParseAll calls back twice for the last sentence of a buffer, and
\* the second call stores messages of one line only.
THEOREM ReplayStoresOneLiners == Spec => ReplayStoresOneLinersOnly
<1> DEFINE Good == (next = Len(buffer) + 1 /\ delivered' # delivered) =>
                      \/ delivered' = <<>>
                      \/ Len(delivered'[Len(delivered')].text) = 1
<1>1. ASSUME IInv, [Next]_vars PROVE [Good]_vars
  <2>1. CASE \E b \in Buffers : Read(b)
    BY <2>1 DEF Read
  <2>2. CASE Extract
    <3>1. Len(buffer) \in Nat
      BY <1>1, <2>2, HandlingStep DEF IInv
    <3> QED
      BY <2>2, <3>1 DEF Extract
  <2>3. CASE Replay
    BY <1>1, <2>3, ReplayStep
  <2>4. CASE UNCHANGED vars
    BY <2>4
  <2> QED
    BY <1>1, <2>1, <2>2, <2>3, <2>4 DEF Next
<1> QED
  BY <1>1, Invariance, PTL DEF Spec, ReplayStoresOneLinersOnly

-----------------------------------------------------------------------------
\* A slot after one more line, seen as the fragments heard.
LEMMA HeardUpdated ==
    ASSUME NEW m \in Slot, NEW s \in Sentences, s.line \in 1..m.total
    PROVE  Heard(Updated(m, s)) = A!Overlay(Heard(m), s.line, Body(s))
<1> DEFINE c == Updated(m, s)
<1>1. /\ c.total = m.total
      /\ \A i \in 1..m.total : c.parts[i] = IF i = s.line THEN Body(s) ELSE m.parts[i]
  BY UpdatedType
<1>2. Body(s) # NoPart
  BY SentenceFields
<1>3. DOMAIN Heard(c) = DOMAIN Heard(m) \union {s.line}
  BY <1>1, <1>2 DEF Heard
<1>4. \A i \in DOMAIN Heard(c) : Heard(c)[i] = IF i = s.line THEN Body(s) ELSE Heard(m)[i]
  BY <1>1 DEF Heard
<1> HIDE DEF c
<1>5. Heard(c) = [i \in DOMAIN Heard(c) |-> Heard(c)[i]]
  BY DEF Heard
<1>6. Heard(c) = A!Overlay(Heard(m), s.line, Body(s))
  BY <1>3, <1>4, <1>5 DEF A!Overlay
<1> QED
  BY <1>6 DEF c

\* A new slot is one fragment.
LEMMA HeardOpened ==
    ASSUME NEW s \in Sentences, s.line \in 1..s.total
    PROVE  Heard(Opened(s)) = A!Overlay(A!Nothing, s.line, Body(s))
<1> DEFINE c == Opened(s)
<1>1. /\ c.total = s.total
      /\ \A i \in 1..s.total : c.parts[i] = IF i = s.line THEN Body(s) ELSE NoPart
  BY OpenedType
<1>2. Body(s) # NoPart
  BY SentenceFields
<1>3. {j \in 1..c.total : c.parts[j] # NoPart} = {s.line}
  BY <1>1, <1>2
<1>4. Heard(c) = [i \in {s.line} |-> Body(s)]
  BY <1>1, <1>3 DEF Heard
<1> QED
  BY <1>4 DEF A!Overlay, A!Nothing

\* The abstract effect of the line at hand on its key.
LEMMA HeardChecked ==
    ASSUME IInv, NEW s \in Sentences, ~Missing(s), Fits(s)
    PROVE  /\ Heard(Checked(s)) = A!Overlay(Latest[Key(s)], s.line, Body(s))
           /\ s.line \in Lines /\ A!Audible(Key(s), s.line)
<1> DEFINE m == messages[Key(s)]
<1>t. TypeOK /\ OpenSlotsWait /\ Key(s) \in Keys
  BY SentenceFields DEF IInv
<1>1. CASE m = Free
  <2>1. Checked(s) = Opened(s) /\ s.line = 1 /\ s.line \in 1..s.total
    BY <1>t, <1>1, CheckedType
  <2>2. Latest[Key(s)] = A!Nothing
    BY <1>t, <1>1 DEF Latest, A!Nothing
  <2>3. s.total \in Totals
    BY <2>1, SentenceFields DEF Totals
  <2> QED
    BY <2>1, <2>2, <2>3, HeardOpened DEF Lines, A!Audible
<1>2. CASE m # Free
  <2>1. m \in Slot /\ Checked(s) = Updated(m, s) /\ s.line \in 1..m.total
    BY <1>t, <1>2, CheckedType
  <2>2. Latest[Key(s)] = Heard(m)
    BY <1>t, <1>2 DEF Latest
  <2>3. m.total \in Totals /\ 1 \in 1..m.total /\ m.parts[1] # NoPart
    BY <1>t, <1>2, <2>1, SlotFields DEF OpenSlotsWait
  <2>4. 1 \in DOMAIN Heard(m)
    BY <2>3 DEF Heard
  <2>5. Heard(m) # A!Nothing
    BY <2>4 DEF A!Nothing
  <2> QED
    BY <2>1, <2>2, <2>3, <2>5, HeardUpdated DEF Lines, A!Audible
<1> QED
  BY <1>1, <1>2

\* Keep is Hear.
LEMMA KeepIsHear ==
    ASSUME IInv, NEW s \in Sentences, Keep(s)
    PROVE  A!Hear(Key(s), s.line, Body(s))
<1>t. TypeOK /\ OpenSlotsWait /\ TimeKnown /\ Key(s) \in Keys
  BY SentenceFields DEF IInv
<1>1. /\ Heard(Checked(s)) = A!Overlay(Latest[Key(s)], s.line, Body(s))
      /\ A!Audible(Key(s), s.line)
  BY HeardChecked DEF Keep
<1>2. SlotBecomes(s, Checked(s)) /\ Checked(s) # Free
  BY <1>t, KeepStep, MarkerAssumption
<1>3. /\ messages'[Key(s)] = Checked(s)
      /\ \A k \in Keys \ {Key(s)} : messages'[k] = messages[k]
  BY <1>t, <1>2 DEF SlotBecomes, TypeOK
<1>4. Latest' = [Latest EXCEPT ![Key(s)] = A!Overlay(@, s.line, Body(s))]
  <2> DEFINE L == [k \in Keys |-> IF messages'[k] = Free THEN [i \in {} |-> i]
                                 ELSE Heard(messages'[k])]
  <2>1. Latest' = L
    BY DEF Latest, Heard
  <2>2. L[Key(s)] = A!Overlay(Latest[Key(s)], s.line, Body(s))
    BY <1>t, <1>1, <1>2, <1>3
  <2>3. \A k \in Keys \ {Key(s)} : L[k] = Latest[k]
    BY <1>3 DEF Latest
  <2> QED
    BY <1>t, <2>1, <2>2, <2>3 DEF Latest
<1>5. UNCHANGED Out
  BY DEF Keep, Out
<1> QED
  BY <1>1, <1>4, <1>5 DEF A!Hear

\* Out of a longer sequence.
LEMMA OutAppend ==
    ASSUME NEW d \in Deliveries, delivered \in Seq(Deliveries),
           delivered' = Append(delivered, d)
    PROVE  Out' = Append(Out, [label |-> [id |-> d.id, sent |-> d.sent], text |-> d.text])
<1> DEFINE n == Len(delivered)
           R(e) == [label |-> [id |-> e.id, sent |-> e.sent], text |-> e.text]
<1>1. /\ n \in Nat /\ Len(delivered') = n + 1 /\ delivered'[n + 1] = d
      /\ \A i \in 1..n : delivered'[i] = delivered[i]
  OBVIOUS
<1>2. Out = [i \in 1..n |-> R(delivered[i])]
  BY DEF Out
<1>3. Out' = [i \in 1..(n + 1) |-> R(delivered'[i])]
  BY <1>1 DEF Out
<1> HIDE DEF R, n
<1>4. Append(Out, R(d)) = [i \in 1..(n + 1) |-> IF i <= n THEN Out[i] ELSE R(d)]
  <2> DEFINE S == {R(delivered[i]) : i \in 1..n} \union {R(d)}
             a == Append(Out, R(d))
  <2>1. Out \in Seq(S) /\ Len(Out) = n
    BY <1>1, <1>2
  <2>2. a \in Seq(S) /\ Len(a) = n + 1 /\ a[n + 1] = R(d)
        /\ \A i \in 1..n : a[i] = Out[i]
    BY <1>1, <2>1, AppendProperties
  <2>3. \A i \in 1..(n + 1) : a[i] = IF i <= n THEN Out[i] ELSE R(d)
    BY <1>1, <2>2
  <2> HIDE DEF a, S
  <2>4. a = [i \in 1..(n + 1) |-> a[i]]
    <3>1. DOMAIN a = 1..(n + 1)
      BY <1>1, <2>2
    <3>2. a = [i \in DOMAIN a |-> a[i]]
      BY <2>2
    <3> QED
      BY <3>1, <3>2
  <2>5. a = [i \in 1..(n + 1) |-> IF i <= n THEN Out[i] ELSE R(d)]
    BY <2>3, <2>4
  <2> QED
    BY <2>5 DEF a
<1>5. \A i \in 1..(n + 1) : R(delivered'[i]) = IF i <= n THEN Out[i] ELSE R(d)
  BY <1>1, <1>2
<1>6. Out' = Append(Out, R(d))
  BY <1>3, <1>4, <1>5
<1> QED
  BY <1>6 DEF R

\* Finish is Finish: the message is whole, stored if its code is good, gone.
LEMMA FinishIsFinish ==
    ASSUME IInv, NEW s \in Sentences, Finish(s)
    PROVE  A!Finish(Key(s), s.line, Body(s))
<1> DEFINE c == Checked(s)
           d == Delivery(c, s)
           whole == A!Overlay(Latest[Key(s)], s.line, Body(s))
           label == [id |-> d.id, sent |-> d.sent]
<1>t. TypeOK /\ Key(s) \in Keys
  BY SentenceFields DEF IInv
<1>1. Heard(c) = whole /\ A!Audible(Key(s), s.line)
  BY HeardChecked DEF Finish
<1>2. /\ SlotBecomes(s, Free) /\ c \in Slot /\ Completed(c) /\ d \in Deliveries
      /\ delivered' = IF Accepts(d.id) THEN Append(delivered, d) ELSE delivered
  BY <1>t, FinishStep
<1>3. c.total \in Totals /\ c.total \in Nat \ {0} /\ c.parts \in [1..c.total -> Fragments \union {NoPart}]
  BY <1>2, SlotFields
<1>4. Heard(c) = c.parts /\ DOMAIN Heard(c) = 1..c.total
  <2>1. {j \in 1..c.total : c.parts[j] # NoPart} = 1..c.total
    BY <1>2 DEF Completed
  <2>2. Heard(c) = [i \in 1..c.total |-> c.parts[i]]
    BY <2>1 DEF Heard
  <2> HIDE DEF c
  <2> QED
    BY <1>3, <2>2
<1>5. c.total \in Lines
  BY <1>3 DEF Lines
<1>6. Latest' = [Latest EXCEPT ![Key(s)] = A!Nothing]
  <2> DEFINE L == [k \in Keys |-> IF messages'[k] = Free THEN [i \in {} |-> i]
                                 ELSE Heard(messages'[k])]
  <2>1. Latest' = L
    BY DEF Latest, Heard
  <2>2. /\ messages'[Key(s)] = Free
        /\ \A k \in Keys \ {Key(s)} : messages'[k] = messages[k]
    BY <1>t, <1>2 DEF SlotBecomes, TypeOK
  <2>3. L[Key(s)] = A!Nothing
    BY <1>t, <2>2 DEF A!Nothing
  <2>4. \A k \in Keys \ {Key(s)} : L[k] = Latest[k]
    BY <2>2 DEF Latest
  <2> QED
    BY <1>t, <2>1, <2>3, <2>4 DEF Latest
<1>7. label \in Labels /\ d.text = whole
  BY <1>1, <1>2, <1>4, DeliveryType DEF Labels, Deliveries
<1>8. Out' = IF Accepts(d.id) THEN Append(Out, [label |-> label, text |-> whole]) ELSE Out
  <2>1. CASE Accepts(d.id)
    <3>1. Out' = Append(Out, [label |-> [id |-> d.id, sent |-> d.sent], text |-> d.text])
      <4>1. delivered' = Append(delivered, d) /\ delivered \in Seq(Deliveries)
        BY <1>t, <1>2, <2>1 DEF TypeOK
      <4> HIDE DEF d
      <4> QED
        BY <1>2, <4>1, OutAppend
    <3> QED
      BY <1>7, <2>1, <3>1
  <2>2. CASE ~Accepts(d.id)
    BY <1>2, <2>2 DEF Out
  <2> QED
    BY <2>1, <2>2
<1>9. label \in {l \in Labels : Accepts(l.id)} <=> Accepts(d.id)
  BY <1>7
<1>10. \E lb \in Labels : Out' = IF lb \in {l \in Labels : Accepts(l.id)}
                               THEN Append(Out, [label |-> lb, text |-> whole])
                               ELSE Out
  <2> HIDE DEF label, whole, d
  <2> QED
    BY <1>7, <1>8, <1>9
<1>11. \E n \in Lines : DOMAIN whole = 1..n
  BY <1>1, <1>4, <1>5
<1> QED
  BY <1>1, <1>6, <1>10, <1>11 DEF A!Finish

\* Reassembly implements Assembly: a read is Flush, a kept line is Hear, a
\* finished message is Finish, an ignored or fatal sentence changes nothing.
THEOREM Implementation == Spec => ImplementsAssembly
<1>1. Init => A!Init
  BY DEF Init, A!Init, A!Nothing, Latest, Out
<1>2. ASSUME IInv, [Next]_vars PROVE [A!Next]_(A!vars)
  <2>1. CASE \E b \in Buffers : Read(b)
    <3>1. Out' = <<>> /\ UNCHANGED Latest
      BY <2>1 DEF Read, Out, Latest, Heard
    <3> QED
      BY <3>1 DEF A!Next, A!Flush
  <2>2. CASE Extract \/ Replay
    <3>1. Handle(Current) /\ Current \in Sentences
      BY <1>2, <2>2, HandlingStep DEF IInv
    <3>2. Key(Current) \in Keys /\ Body(Current) \in Fragments
      BY <3>1, SentenceFields
    <3>3. CASE Skip(Current) \/ Fault(Current)
      BY <3>3 DEF Skip, Fault, A!vars, Latest, Out, Heard
    <3>4. CASE Keep(Current)
      <4>1. A!Hear(Key(Current), Current.line, Body(Current))
        BY <1>2, <3>1, <3>4, KeepIsHear
      <4>2. Current.line \in Lines
        BY <1>2, <3>1, <3>4, HeardChecked DEF Keep
      <4> QED
        BY <3>2, <4>1, <4>2 DEF A!Next
    <3>5. CASE Finish(Current)
      <4>1. A!Finish(Key(Current), Current.line, Body(Current))
        BY <1>2, <3>1, <3>5, FinishIsFinish
      <4>2. Current.line \in Lines
        BY <1>2, <3>1, <3>5, HeardChecked DEF Finish
      <4> QED
        BY <3>2, <4>1, <4>2 DEF A!Next
    <3> QED
      BY <3>1, <3>3, <3>4, <3>5 DEF Handle
  <2>3. CASE UNCHANGED vars
    BY <2>3 DEF vars, A!vars, Latest, Out, Heard
  <2> QED
    BY <1>2, <2>1, <2>2, <2>3 DEF Next
<1> QED
  BY <1>1, <1>2, Invariance, PTL DEF Spec, ImplementsAssembly, A!Spec

-----------------------------------------------------------------------------
(***************************************************************************)
(* Disciplined traffic.  Every part of an open slot is a line of the one   *)
(* message that uses its key.                                              *)
(***************************************************************************)
GenuineSlot(m, k) ==
    \A i \in 1..m.total : m.parts[i] # NoPart => \E s \in Relevant :
        /\ Key(s) = k /\ s.line = i /\ s.total = m.total
        /\ m.parts[i] = Body(s) /\ m.id = s.id
        /\ (i = 1 /\ s.talker = "NX") => m.sent = s.utc

GenuineSlots ==
    \A k \in Keys : messages[k] # Free => GenuineSlot(messages[k], k)

DInv == NoFault /\ GenuineSlots /\ Integrity

\* checkMessage keeps a slot genuine.
LEMMA CheckedGenuine ==
    ASSUME Disciplined, IInv, GenuineSlots,
           NEW s \in Relevant, ~Missing(s), Fits(s)
    PROVE  GenuineSlot(Checked(s), Key(s))
<1> DEFINE m == messages[Key(s)]
           c == Checked(s)
<1>s. s \in Sentences /\ s.talker \in {"NX", "CR"}
  BY SentenceFields DEF Relevant, Ignored
<1>t. TypeOK /\ OpenSlotsWait /\ TimeKnown /\ Key(s) \in Keys
  BY <1>s, SentenceFields DEF IInv
<1>1. CASE m = Free
  <2>1. /\ c = Opened(s) /\ s.line = 1 /\ 1 \in 1..s.total
    BY <1>s, <1>t, <1>1, CheckedType
  <2>2. /\ c.total = s.total /\ c.id = s.id /\ c.sent = WhenSent(s)
        /\ \A i \in 1..s.total : c.parts[i] = IF i = 1 THEN Body(s) ELSE NoPart
    BY <1>s, <2>1, OpenedType
  <2>3. c.sent = s.utc
    BY <2>1, <2>2 DEF WhenSent
  <2> QED
    BY <2>1, <2>2, <2>3 DEF GenuineSlot
<1>2. CASE m # Free
  <2>1. m \in Slot /\ c = Updated(m, s) /\ s.line \in 1..m.total
    BY <1>s, <1>t, <1>2, CheckedType
  <2>2. m.sent # 0 /\ m.parts[1] # NoPart /\ 1 \in 1..m.total
    BY <1>t, <1>2, <2>1, SlotFields DEF OpenSlotsWait, TimeKnown
  <2>3. /\ c.total = m.total /\ c.id = m.id /\ c.sent = m.sent
        /\ \A i \in 1..m.total : c.parts[i] = IF i = s.line THEN Body(s) ELSE m.parts[i]
    BY <1>s, <2>1, <2>2, UpdatedType
  <2>4. GenuineSlot(m, Key(s))
    BY <1>t, <1>2 DEF GenuineSlots
  <2>5. PICK r \in Relevant :
           /\ Key(r) = Key(s) /\ r.line = 1 /\ r.total = m.total /\ m.id = r.id
           /\ r.talker = "NX" => m.sent = r.utc
    BY <2>2, <2>4 DEF GenuineSlot
  <2>6. /\ s.total = r.total /\ s.id = r.id
        /\ s.line = 1 => s = r
    BY <2>5 DEF Disciplined
  <2>7. ASSUME NEW i \in 1..c.total, c.parts[i] # NoPart
        PROVE  \E q \in Relevant :
                  /\ Key(q) = Key(s) /\ q.line = i /\ q.total = c.total
                  /\ c.parts[i] = Body(q) /\ c.id = q.id
                  /\ (i = 1 /\ q.talker = "NX") => c.sent = q.utc
    <3>1. CASE i = s.line
      BY <2>3, <2>5, <2>6, <3>1
    <3>2. CASE i # s.line
      BY <2>3, <2>4, <2>7, <3>2 DEF GenuineSlot
    <3> QED
      BY <3>1, <3>2
  <2> QED
    BY <2>7 DEF GenuineSlot
<1> QED
  BY <1>1, <1>2

\* A complete genuine slot is a message as it was sent.
LEMMA DeliveryGenuine ==
    ASSUME Disciplined, NEW s \in Relevant, NEW m \in Slot, Completed(m),
           GenuineSlot(m, Key(s))
    PROVE  IsMessage(Delivery(m, s), Key(s))
<1> DEFINE d == Delivery(m, s)
<1>1. s \in Sentences /\ s.talker \in {"NX", "CR"}
  BY SentenceFields DEF Relevant, Ignored
<1>2. d.text = m.parts /\ Len(d.text) = m.total
  BY <1>1, DeliveryType
<1>3. /\ s.talker = "NX" => d.id = m.id /\ d.sent = m.sent
      /\ s.talker = "CR" => d.id = s.id /\ d.sent = 0
  BY DEF Delivery
<1> HIDE DEF d
<1>4. ASSUME NEW i \in 1..m.total
      PROVE  \E q \in Relevant :
               /\ Key(q) = Key(s) /\ q.line = i /\ q.total = m.total
               /\ d.text[i] = Body(q) /\ d.id = q.id
               /\ i = 1 => d.sent = IF q.talker = "NX" THEN q.utc ELSE 0
  <2>1. PICK q \in Relevant :
           /\ Key(q) = Key(s) /\ q.line = i /\ q.total = m.total
           /\ m.parts[i] = Body(q) /\ m.id = q.id
           /\ (i = 1 /\ q.talker = "NX") => m.sent = q.utc
    BY <1>4 DEF GenuineSlot, Completed
  <2>2. q.talker = s.talker /\ q.id = s.id
    BY <2>1 DEF Disciplined
  <2> QED
    BY <1>1, <1>2, <1>3, <2>1, <2>2
<1>5. IsMessage(d, Key(s))
  BY <1>2, <1>4 DEF IsMessage
<1> QED
  BY <1>5 DEF d

\* A handler of a sentence keeps DInv.
LEMMA HandleDisciplined ==
    ASSUME Disciplined, IInv, DInv, NEW s \in Sentences, Handle(s)
    PROVE  DInv'
<1>t. TypeOK /\ OpenSlotsWait /\ TimeKnown /\ Key(s) \in Keys
  BY SentenceFields DEF IInv
<1>d. alive /\ GenuineSlots /\ Integrity
  BY DEF DInv, NoFault
<1>1. CASE Skip(s)
  BY <1>1, <1>d DEF Skip, DInv, NoFault, GenuineSlots, GenuineSlot, Integrity, IsMessage
<1>2. CASE Fault(s)
  <2>1. s \in Relevant
    BY <1>2 DEF Fault, Relevant
  <2>2. s.line \in 1..s.total /\ (s.talker = "CR" => s.total = 1)
    BY <2>1 DEF Disciplined
  <2>3. CASE messages[Key(s)] = Free
    BY <1>2, <2>2, <2>3 DEF Fault, Missing, Fits
  <2>4. CASE messages[Key(s)] # Free
    <3> DEFINE m == messages[Key(s)]
    <3>1. m \in Slot /\ m.parts[1] # NoPart /\ GenuineSlot(m, Key(s))
      BY <1>t, <1>d, <2>4 DEF TypeOK, OpenSlotsWait, GenuineSlots
    <3>2. PICK r \in Relevant : Key(r) = Key(s) /\ r.total = m.total
      <4>1. 1 \in 1..m.total
        BY <3>1, SlotFields
      <4> QED
        BY <3>1, <4>1 DEF GenuineSlot
    <3>3. s.total = m.total
      BY <2>1, <3>2 DEF Disciplined
    <3> QED
      BY <1>2, <2>2, <2>4, <3>3 DEF Fault, Missing, Fits
  <2> QED
    BY <2>3, <2>4
<1>3. CASE Keep(s)
  <2>1. s \in Relevant /\ ~Missing(s) /\ Fits(s)
    BY <1>3 DEF Keep, Relevant
  <2>2. GenuineSlot(Checked(s), Key(s))
    BY <1>d, <2>1, CheckedGenuine
  <2>3. SlotBecomes(s, Checked(s)) /\ Checked(s) \in Slot
    BY <1>t, <1>3, KeepStep
  <2>4. /\ messages'[Key(s)] = Checked(s)
        /\ \A k \in Keys \ {Key(s)} : messages'[k] = messages[k]
    BY <1>t, <2>3 DEF SlotBecomes, TypeOK
  <2>5. ASSUME NEW k \in Keys, messages'[k] # Free
        PROVE  GenuineSlot(messages'[k], k)
    BY <1>d, <2>2, <2>4, <2>5 DEF GenuineSlots
  <2>6. GenuineSlots'
    BY <2>5 DEF GenuineSlots, GenuineSlot
  <2>7. alive' = alive /\ delivered' = delivered
    BY <1>3 DEF Keep
  <2> QED
    BY <1>d, <2>6, <2>7 DEF DInv, NoFault, Integrity, IsMessage
<1>4. CASE Finish(s)
  <2> DEFINE d == Delivery(Checked(s), s)
  <2>1. s \in Relevant /\ ~Missing(s) /\ Fits(s)
    BY <1>4 DEF Finish, Relevant
  <2>2. /\ SlotBecomes(s, Free) /\ alive' = alive
        /\ Checked(s) \in Slot /\ Completed(Checked(s)) /\ d \in Deliveries
        /\ delivered' = IF Accepts(d.id) THEN Append(delivered, d) ELSE delivered
    BY <1>t, <1>4, FinishStep
  <2>3. IsMessage(d, Key(s))
    BY <1>d, <2>1, <2>2, CheckedGenuine, DeliveryGenuine
  <2>4. /\ messages'[Key(s)] = Free
        /\ \A k \in Keys \ {Key(s)} : messages'[k] = messages[k]
    BY <1>t, <2>2 DEF SlotBecomes, TypeOK
  <2>5. ASSUME NEW k \in Keys, messages'[k] # Free
        PROVE  GenuineSlot(messages'[k], k)
    BY <1>d, <2>4, <2>5 DEF GenuineSlots
  <2>6. GenuineSlots'
    BY <2>5 DEF GenuineSlots, GenuineSlot
  <2>7. Integrity'
    <3> HIDE DEF d
    <3>1. delivered \in Seq(Deliveries)
      BY <1>t DEF TypeOK
    <3>2. ASSUME NEW i \in 1..Len(delivered')
          PROVE  \E k \in Keys : IsMessage(delivered'[i], k)
      BY <1>t, <1>d, <2>2, <2>3, <3>1, <3>2 DEF Integrity
    <3> QED
      BY <3>2 DEF Integrity, IsMessage
  <2> QED
    BY <1>d, <2>2, <2>6, <2>7 DEF DInv, NoFault
<1> QED
  BY <1>1, <1>2, <1>3, <1>4 DEF Handle

LEMMA StepDisciplined ==
    ASSUME Disciplined, IInv, DInv, [Next]_vars
    PROVE  DInv'
<1>1. CASE \E b \in Buffers : Read(b)
  BY <1>1 DEF Read, DInv, NoFault, GenuineSlots, GenuineSlot, Integrity
<1>2. CASE Extract \/ Replay
  BY <1>2, HandlingStep, HandleDisciplined DEF IInv
<1>3. CASE UNCHANGED vars
  <2>1. messages' = messages /\ alive' = alive /\ delivered' = delivered
    BY <1>3 DEF vars
  <2>2. NoFault' /\ GenuineSlots'
    BY <2>1 DEF DInv, NoFault, GenuineSlots, GenuineSlot
  <2>3. Integrity'
    BY <2>1 DEF DInv, Integrity, IsMessage
  <2> QED
    BY <2>2, <2>3 DEF DInv
<1> QED
  BY <1>1, <1>2, <1>3 DEF Next

\* Every open slot, and whatever is stored, is part of a message that was sent.
LEMMA DisciplinedInvariance ==
    ASSUME Disciplined
    PROVE  Spec => []DInv
<1>1. Init => DInv
  BY DEF Init, DInv, NoFault, GenuineSlots, Integrity
<1>2. IInv /\ DInv /\ [Next]_vars => DInv'
  BY StepDisciplined
<1> QED
  BY <1>1, <1>2, Invariance, PTL DEF Spec

\* While no key is used by two messages, no handler of parsing.cpp fails.
THEOREM DisciplinedTrafficIsSafe ==
    ASSUME Disciplined
    PROVE  Spec => []NoFault
<1>1. DInv => NoFault
  BY DEF DInv
<1> QED
  BY <1>1, DisciplinedInvariance, PTL

\* While no key is used by two messages, every stored message is one that was
\* sent, whole, in order and under its own code.
THEOREM DisciplinedTrafficIsGenuine ==
    ASSUME Disciplined
    PROVE  Spec => []Integrity
<1>1. DInv => Integrity
  BY DEF DInv
<1> QED
  BY <1>1, DisciplinedInvariance, PTL

-----------------------------------------------------------------------------
(***************************************************************************)
(* In disciplined traffic a message whose lines are all in one buffer, the *)
(* first line first, is stored by the end of the read.  The invariant says *)
(* for every line 1 handled so far that its message is stored, or its slot *)
(* holds all lines of it handled since: at the end of the read a slot that *)
(* holds every line would be complete, which OpenSlotsWait excludes.       *)
(***************************************************************************)

Found(k) == \E i \in 1..Len(delivered) : IsMessage(delivered[i], k)

\* The first line at place p of the buffer opens a message that is wanted.
Opens(p) ==
    buffer[p] \in Relevant /\ buffer[p].line = 1 /\ Accepts(buffer[p].id)

\* The slot of key k holds the line at place q, if it is one of k.
Holds(k, q) ==
    (buffer[q] \in Relevant /\ Key(buffer[q]) = k) =>
        messages[k].parts[buffer[q].line] # NoPart

Waiting(k, p) ==
    /\ messages[k] # Free
    /\ \A q \in p..Len(buffer) : q < next => Holds(k, q)

Handled ==
    \A p \in 1..Len(buffer) : (p < next /\ Opens(p)) =>
        Found(Key(buffer[p])) \/ Waiting(Key(buffer[p]), p)

\* What is stored under a key stays stored while the read goes on.
LEMMA FoundStays ==
    ASSUME TypeOK, NEW s \in Sentences, Handle(s), NEW k \in Keys, Found(k)
    PROVE  Found(k)'
<1>1. delivered \in Seq(Deliveries)
  BY DEF TypeOK
<1>2. PICK i \in 1..Len(delivered) : IsMessage(delivered[i], k)
  BY DEF Found
<1>3. delivered' = delivered \/ \E d : delivered' = Append(delivered, d)
  BY DEF Handle, Skip, Fault, Keep, Finish
<1>4. i \in 1..Len(delivered') /\ delivered'[i] = delivered[i]
  BY <1>1, <1>2, <1>3
<1>5. IsMessage(delivered'[i], k)
  BY <1>2, <1>4
<1> QED
  BY <1>4, <1>5 DEF Found, IsMessage

\* A handler of a line of a slot that waits leaves it waiting with that line,
\* or stores the message; the same for a line 1 that opens a slot.
LEMMA HandleLossless ==
    ASSUME Disciplined, IInv, DInv,
           NEW s \in Relevant, Handle(s), Accepts(s.id),
           s.line = 1 \/ messages[Key(s)] # Free
    PROVE  \/ Found(Key(s))'
           \/ /\ messages'[Key(s)] # Free
              /\ messages'[Key(s)].parts[s.line] # NoPart
              /\ messages[Key(s)] # Free =>
                    \A i \in 1..messages[Key(s)].total :
                        messages[Key(s)].parts[i] # NoPart =>
                            messages'[Key(s)].parts[i] # NoPart
<1> DEFINE m == messages[Key(s)]
<1>s. s \in Sentences /\ ~Ignored(s) /\ Key(s) \in Keys /\ ~Missing(s)
  BY SentenceFields DEF Relevant, Missing
<1>t. TypeOK /\ OpenSlotsWait /\ TimeKnown
  BY DEF IInv
<1>1. CASE Skip(s)
  BY <1>1, <1>s DEF Skip
<1>2. CASE Fault(s)
  <2>1. DInv'
    BY <1>s, HandleDisciplined
  <2> QED
    BY <1>2, <2>1 DEF Fault, DInv, NoFault
<1>3. CASE Keep(s)
  <2>1. /\ Checked(s) \in Slot /\ SlotBecomes(s, Checked(s))
        /\ Checked(s).parts[s.line] # NoPart
    BY <1>s, <1>t, <1>3, KeepStep
  <2>2. messages'[Key(s)] = Checked(s) /\ Checked(s) # Free
    BY <1>s, <1>t, <2>1, MarkerAssumption DEF SlotBecomes, TypeOK
  <2>3. ASSUME m # Free, NEW i \in 1..m.total, m.parts[i] # NoPart
        PROVE  Checked(s).parts[i] # NoPart
    <3>1. m \in Slot /\ Checked(s) = Updated(m, s) /\ s.line \in 1..m.total
      BY <1>s, <1>t, <1>3, <2>3, CheckedType DEF Keep
    <3>2. Updated(m, s).parts[i] = IF i = s.line THEN Body(s) ELSE m.parts[i]
      BY <1>s, <2>3, <3>1, UpdatedType
    <3> QED
      BY <1>s, <2>3, <3>1, <3>2, SentenceFields
  <2> QED
    BY <2>1, <2>2, <2>3
<1>4. CASE Finish(s)
  <2> DEFINE d == Delivery(Checked(s), s)
  <2>1. /\ Checked(s) \in Slot /\ Completed(Checked(s)) /\ d \in Deliveries
        /\ delivered' = IF Accepts(d.id) THEN Append(delivered, d) ELSE delivered
    BY <1>s, <1>t, <1>4, FinishStep
  <2>2. GenuineSlot(Checked(s), Key(s))
    BY <1>4, CheckedGenuine DEF Finish, DInv
  <2>3. IsMessage(d, Key(s))
    BY <2>1, <2>2, DeliveryGenuine
  <2>4. d.text = Checked(s).parts /\ Len(Checked(s).parts) \in Nat \ {0}
    BY <1>s, <2>1, DeliveryType, SlotFields
  <2>5. d.id = s.id
    <3>1. PICK r \in Relevant : Key(r) = Key(s) /\ d.id = r.id
      BY <2>3, <2>4 DEF IsMessage
    <3> QED
      BY <3>1 DEF Disciplined
  <2> HIDE DEF d
  <2>6. delivered' = Append(delivered, d) /\ delivered \in Seq(Deliveries)
    BY <1>t, <2>1, <2>5 DEF TypeOK
  <2>7. /\ Len(delivered') \in 1..Len(delivered')
        /\ delivered'[Len(delivered')] = d
    BY <2>1, <2>6
  <2> QED
    BY <2>3, <2>7 DEF Found, IsMessage
<1> QED
  BY <1>1, <1>2, <1>3, <1>4 DEF Handle

\* A handler of another key leaves a slot alone.
LEMMA OtherKey ==
    ASSUME TypeOK, NEW s \in Sentences, Handle(s), NEW k \in Keys, k # Key(s)
    PROVE  messages'[k] = messages[k]
  BY SentenceFields DEF Handle, Skip, Fault, Keep, Finish, TypeOK

\* So does a handler that ignores its sentence.
LEMMA IgnoredSentence ==
    ASSUME NEW s \in Sentences, s \notin Relevant, Handle(s)
    PROVE  messages' = messages
  BY DEF Relevant, Handle, Skip, Fault, Keep, Finish

LEMMA HandlingLossless ==
    ASSUME Disciplined, IInv, DInv, Handled, Extract \/ Replay
    PROVE  Handled'
<1> DEFINE s == Current
           c == IF next <= Len(buffer) THEN next ELSE Len(buffer)
<1>t. TypeOK /\ OpenSlotsWait /\ TimeKnown
  BY DEF IInv
<1>1. /\ Handle(s) /\ s \in Sentences /\ buffer' = buffer /\ next' = next + 1
      /\ buffer \in Buffers /\ Len(buffer) \in Nat \ {0}
      /\ next \in 1..(Len(buffer) + 1)
  BY <1>t, HandlingStep
<1>2. c \in 1..Len(buffer) /\ s = buffer[c] /\ c <= next
  BY <1>1 DEF Current
<1> HIDE DEF s, c
<1>3. \A q \in 1..Len(buffer) : q < next' => q < next \/ q = c
  BY <1>1, <1>2 DEF c
<1>4. SUFFICES ASSUME NEW p \in 1..Len(buffer), p < next', Opens(p)
               PROVE  \/ Found(Key(buffer[p]))'
                      \/ /\ messages'[Key(buffer[p])] # Free
                         /\ \A q \in p..Len(buffer) :
                               (/\ q < next'
                                /\ buffer[q] \in Relevant
                                /\ Key(buffer[q]) = Key(buffer[p])) =>
                                   messages'[Key(buffer[p])].parts[buffer[q].line] # NoPart
  BY <1>1 DEF Handled, Opens, Waiting, Holds
<1> DEFINE k == Key(buffer[p])
<1>5. k \in Keys /\ buffer[p] \in Sentences
  BY <1>4, SentenceFields DEF Opens, Relevant
<1>6. CASE p < next /\ Found(k)
  BY <1>1, <1>t, <1>5, <1>6, FoundStays
<1>7. CASE p < next /\ Waiting(k, p) /\ ~(s \in Relevant /\ Key(s) = k)
  <2>1. messages'[k] = messages[k]
    BY <1>t, <1>1, <1>5, <1>7, OtherKey, IgnoredSentence
  <2>2. ASSUME NEW q \in p..Len(buffer), q < next', buffer[q] \in Relevant, Key(buffer[q]) = k
        PROVE  messages[k].parts[buffer[q].line] # NoPart
    <3>1. q \in 1..Len(buffer) /\ q # c
      BY <1>1, <1>2, <1>4, <1>7, <2>2
    <3>2. q < next
      BY <1>3, <2>2, <3>1
    <3> QED
      BY <1>7, <2>2, <3>2 DEF Waiting, Holds
  <2> QED
    BY <1>7, <2>1, <2>2 DEF Waiting
<1>8. CASE p < next /\ Waiting(k, p) /\ s \in Relevant /\ Key(s) = k
  <2>1. Accepts(s.id)
    BY <1>4, <1>8 DEF Disciplined, Opens
  <2>2. \/ Found(k)'
        \/ /\ messages'[k] # Free /\ messages'[k].parts[s.line] # NoPart
           /\ \A i \in 1..messages[k].total :
                 messages[k].parts[i] # NoPart => messages'[k].parts[i] # NoPart
    BY <1>1, <1>8, <2>1, HandleLossless DEF Waiting
  <2>3. ASSUME NEW q \in p..Len(buffer), q < next', buffer[q] \in Relevant, Key(buffer[q]) = k, ~Found(k)'
        PROVE  messages'[k].parts[buffer[q].line] # NoPart
    <3>1. q \in 1..Len(buffer)
      BY <1>1, <1>4, <2>3
    <3>2. CASE q = c
      BY <1>2, <2>2, <2>3, <3>2
    <3>3. CASE q # c
      <4>1. messages[k].parts[buffer[q].line] # NoPart
        BY <1>3, <1>8, <2>3, <3>1, <3>3 DEF Waiting, Holds
      <4>2. PICK r \in Relevant : Key(r) = k /\ r.total = messages[k].total
        <5>1. messages[k] \in Slot /\ messages[k].parts[1] # NoPart
          BY <1>t, <1>5, <1>8 DEF TypeOK, OpenSlotsWait, Waiting
        <5>2. GenuineSlot(messages[k], k) /\ 1 \in 1..messages[k].total
          BY <1>5, <1>8, <5>1, SlotFields DEF DInv, GenuineSlots, Waiting
        <5> QED
          BY <5>1, <5>2 DEF GenuineSlot
      <4>3. buffer[q].line \in 1..messages[k].total
        BY <2>3, <4>2 DEF Disciplined
      <4> QED
        BY <2>2, <2>3, <4>1, <4>3
    <3> QED
      BY <3>2, <3>3
  <2> QED
    BY <2>2, <2>3
<1>9. CASE ~(p < next)
  <2>1. p = c /\ next = p
    BY <1>1, <1>3, <1>4, <1>9
  <2>2. s \in Relevant /\ s.line = 1 /\ Accepts(s.id) /\ Key(s) = k
    BY <1>2, <1>4, <2>1 DEF Opens
  <2>3. \/ Found(k)'
        \/ messages'[k] # Free /\ messages'[k].parts[s.line] # NoPart
    BY <1>1, <2>2, HandleLossless
  <2>4. \A q \in p..Len(buffer) : q < next' => q = c
    BY <1>1, <2>1
  <2> QED
    BY <1>2, <2>3, <2>4
<1> QED
  BY <1>4, <1>6, <1>7, <1>8, <1>9 DEF Handled

\* At the end of a read Handled is NothingLost.
LEMMA HandledIsEnough ==
    ASSUME Disciplined, IInv, DInv, Handled
    PROVE  NothingLost
<1>t. TypeOK /\ OpenSlotsWait
  BY DEF IInv
<1> SUFFICES ASSUME Done, NEW s \in Relevant, s.line = 1, Accepts(s.id), AllThere(s)
             PROVE  Found(Key(s))
  BY DEF NothingLost, Found
<1> DEFINE k == Key(s)
           m == messages[k]
<1>1. PICK p \in 1..Len(buffer) :
         /\ buffer[p] \in Relevant /\ Key(buffer[p]) = k /\ buffer[p].line = 1
         /\ \A i \in 2..s.total : \E q \in (p + 1)..Len(buffer) :
               /\ buffer[q] \in Relevant /\ Key(buffer[q]) = k
               /\ buffer[q].line = i
  BY DEF AllThere
<1>2. Len(buffer) \in Nat /\ next = Len(buffer) + 2
  BY <1>t, BufferFacts DEF TypeOK, Done
<1>3. Accepts(buffer[p].id)
  BY <1>1 DEF Disciplined
<1>4. Found(k) \/ Waiting(k, p)
  BY <1>1, <1>2, <1>3 DEF Handled, Opens
<1>5. CASE Waiting(k, p)
  <2>1. k \in Keys /\ m # Free /\ m \in Slot
    BY <1>t, <1>5, SentenceFields DEF Waiting, TypeOK, Relevant
  <2>2. \A q \in p..Len(buffer) : Holds(k, q)
    BY <1>2, <1>5 DEF Waiting
  <2>3. m.parts[1] # NoPart /\ 1 \in 1..m.total /\ s.total \in Int
    BY <1>t, <2>1, SlotFields, SentenceFields DEF OpenSlotsWait, Relevant
  <2>4. m.total = s.total
    <3>1. PICK r \in Relevant : Key(r) = k /\ r.total = m.total
      BY <2>1, <2>3 DEF DInv, GenuineSlots, GenuineSlot
    <3> QED
      BY <3>1 DEF Disciplined
  <2>5. ASSUME NEW i \in 1..m.total
        PROVE  m.parts[i] # NoPart
    <3>1. CASE i = 1
      BY <2>3, <3>1
    <3>2. CASE i # 1
      <4>1. i \in 2..s.total
        BY <2>3, <2>4, <2>5, <3>2
      <4>2. PICK q \in (p + 1)..Len(buffer) :
               /\ buffer[q] \in Relevant /\ Key(buffer[q]) = k
               /\ buffer[q].line = i
        BY <1>1, <4>1
      <4>3. q \in p..Len(buffer)
        BY <1>2, <4>2
      <4> QED
        BY <2>2, <4>2, <4>3 DEF Holds
    <3> QED
      BY <3>1, <3>2
  <2> QED
    BY <1>t, <2>1, <2>5 DEF OpenSlotsWait
<1> QED
  BY <1>4, <1>5

LEMMA StepHandled ==
    ASSUME Disciplined, IInv, DInv, Handled, [Next]_vars
    PROVE  Handled'
<1>1. CASE \E b \in Buffers : Read(b)
  <2>1. PICK b \in Buffers : buffer' = b /\ next' = 1
    BY <1>1 DEF Read
  <2> QED
    BY <2>1, BufferFacts DEF Handled
<1>2. CASE Extract \/ Replay
  BY <1>2, HandlingLossless
<1>3. CASE UNCHANGED vars
  BY <1>3, SMTT(30) DEF vars, Handled, Opens, Found, IsMessage, Waiting, Holds
<1> QED
  BY <1>1, <1>2, <1>3 DEF Next

\* While no key is used by two messages, a message that is wanted and all of
\* whose lines are in one read buffer, line 1 before the others, is stored by
\* the end of the read, whatever was left in its slot and however its lines are
\* repeated, reordered and mixed with others.
THEOREM DisciplinedTrafficIsStored ==
    ASSUME Disciplined
    PROVE  Spec => []NothingLost
<1>1. Init => Handled
  BY DEF Init, Handled
<1>2. IInv /\ DInv /\ Handled /\ [Next]_vars => Handled'
  BY StepHandled
<1>3. IInv /\ DInv /\ Handled => NothingLost
  BY HandledIsEnough
<1> QED
  BY <1>1, <1>2, <1>3, Invariance, DisciplinedInvariance, PTL DEF Spec
=============================================================================
