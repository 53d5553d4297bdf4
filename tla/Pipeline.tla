------------------------------ MODULE Pipeline ------------------------------
(***************************************************************************)
(* From the sentence to the row: Reassembly and Store together, as         *)
(* onSentenceReceived, processNativeMsg and addMessage join them on the    *)
(* receiver thread.  The handler that completes a message stores it before *)
(* it returns, statement by statement, while the worker thread sweeps; the *)
(* next sentence waits.  Stop and Start keep the slots of messages, which  *)
(* are static; the end of the process does not.                            *)
(***************************************************************************)
EXTENDS Reassembly, Store

CONSTANTS
    PositionsIn(_), \* how many positions extractPositions finds in a text
    None            \* no message in hand

ASSUME PositionsAssumption ==
    \A d \in Deliveries : PositionsIn(d.text) \in 0..MaxPositions

ASSUME NoneAssumption == None \notin [id : Nat, what : Deliveries]

VARIABLE
    taken       \* history: the messages that went to addMessage; their places
                \* are the texts of Store

pipelineVars == <<vars, storeVars, taken>>

PipelineInit == Init /\ StoreInit /\ taken = <<>>

\* StartNavtexReceiver, also after StopNavtexReceiver: the thread of the last
\* channel has ended between two reads, and its buffer is gone.
StartReceiver(ok) ==
    /\ alive /\ Done
    /\ Open(ok)
    /\ buffer' = <<>> /\ next' = 2 /\ delivered' = <<>>
    /\ UNCHANGED <<messages, alive, taken>>

Upgrade == Upgrading /\ UNCHANGED <<vars, taken>>

\* The channel hands over a read; addMessage has returned.
ReadChannel(b) ==
    /\ Started /\ adder = "idle"
    /\ Read(b)
    /\ UNCHANGED <<storeVars, taken>>

\* A handler that delivers nothing.
Pass ==
    /\ adder = "idle"
    /\ Extract \/ Replay
    /\ delivered' = delivered
    /\ UNCHANGED <<storeVars, taken>>

\* A handler that completes a message and calls processNativeMsg.
HandOver ==
    /\ Extract \/ Replay
    /\ delivered' # delivered
    /\ LET d == delivered'[Len(delivered')] IN
       /\ Parse(PositionsIn(d.text))
       /\ taken' = Append(taken, d)

\* addMessage and the callback, inside that handler.
StoreTaken == Adding /\ UNCHANGED <<vars, taken>>

\* The worker thread, and time.
Sweep == Sweeping /\ UNCHANGED <<vars, taken>>

Age == Tick /\ UNCHANGED <<vars, taken>>

\* The process ends, in a handler that failed or from outside.
Crash ==
    /\ Restart
    /\ messages' = [k \in Keys |-> Free]
    /\ buffer' = <<>> /\ next' = 2 /\ delivered' = <<>>
    /\ alive' = TRUE
    /\ UNCHANGED taken

PipelineNext ==
    \/ \E ok \in BOOLEAN : StartReceiver(ok)
    \/ \E b \in Buffers : ReadChannel(b)
    \/ Upgrade \/ Pass \/ HandOver \/ StoreTaken \/ Sweep \/ Age \/ Crash

PipelineSpec == PipelineInit /\ [][PipelineNext]_pipelineVars

-----------------------------------------------------------------------------
\* In disciplined traffic the receiver and the database are a Mailbox for the
\* messages that were sent: every row is one of them, whole and as it was sent,
\* and keeps its id for ever; the callback names the row of its own message;
\* what a failure or a crash at any moment can lose is the message being
\* stored, never one that was told.
SentAs(s, i) == {t \in Relevant : Key(t) = Key(s) /\ t.line = i}

Original(s) ==
    [id |-> s.id, sent |-> IF s.talker = "NX" THEN s.utc ELSE 0,
     text |-> [i \in 1..s.total |-> Body(CHOOSE t \in SentAs(s, i) : TRUE)]]

Genuine == {Original(s) : s \in {t \in Relevant :
               t.line = 1 /\ \A i \in 1..t.total : SentAs(t, i) # {}}}

Box == [r \in DOMAIN stored |-> taken[stored[r].text]]

Hand == IF adder = "idle" THEN None ELSE [id |-> msgID, what |-> taken[msg.text]]

Told == [i \in 1..Len(announced) |->
            [id |-> announced[i].id, what |-> taken[announced[i].text]]]

M == INSTANCE Mailbox WITH
        Message <- Genuine, box <- Box, hand <- Hand, told <- Told

ImplementsMailbox == M!Spec
=============================================================================
