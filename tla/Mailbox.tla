------------------------------ MODULE Mailbox -------------------------------
(***************************************************************************)
(* What the receiver and the database promise together, without sentences, *)
(* slots, statements or threads.  One message at a time is in hand; it is  *)
(* put into the box under an id of its own, and the reader is told the id, *)
(* or 0 if it could not be put.  What is in the box stays there as it is.  *)
(* A message can get lost only while it is in hand.  Pipeline.tla          *)
(* implements this specification.                                          *)
(***************************************************************************)
EXTENDS Naturals, Sequences

CONSTANTS
    Message,    \* the messages the stations sent
    None        \* no message in hand

VARIABLES
    box,    \* id -> message
    hand,   \* the message in hand and its id, 0 until it is put; or None
    told    \* what the reader was told, in order

vars == <<box, hand, told>>

Init ==
    /\ box = [i \in {} |-> None]
    /\ hand = None
    /\ told = <<>>

Take(m) ==
    /\ hand = None
    /\ hand' = [id |-> 0, what |-> m]
    /\ UNCHANGED <<box, told>>

Put(i) ==
    /\ hand # None /\ hand.id = 0
    /\ i \in Nat \ ({0} \union DOMAIN box)
    /\ box' = [j \in DOMAIN box \union {i} |->
                  IF j = i THEN hand.what ELSE box[j]]
    /\ hand' = [hand EXCEPT !.id = i]
    /\ UNCHANGED told

Tell ==
    /\ hand # None
    /\ told' = Append(told, hand)
    /\ hand' = None
    /\ UNCHANGED box

Lose ==
    /\ hand # None
    /\ hand' = None
    /\ UNCHANGED <<box, told>>

Next ==
    \/ \E m \in Message : Take(m)
    \/ \E i \in DOMAIN box' : Put(i)
    \/ Tell \/ Lose

Spec == Init /\ [][Next]_vars
=============================================================================
