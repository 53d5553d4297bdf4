--------------------------- MODULE PipelineProofs ---------------------------
(***************************************************************************)
(* What Reassembly and Store guarantee apart holds of the two together,    *)
(* for every traffic and all bounds, and in disciplined traffic they       *)
(* implement Mailbox.  Every step of Pipeline is a step of Store or leaves *)
(* it alone, and is a step of Reassembly, leaves it alone or empties it;   *)
(* so the invariants of both carry over.                                   *)
(***************************************************************************)
EXTENDS Pipeline, ReassemblyProofs, WellFoundedInduction

-----------------------------------------------------------------------------
(***************************************************************************)
(* Theorems of Store first, for every set of expiry times and all bounds.  *)
(* The inductive invariant StoreInv adds to the types: the rows of         *)
(* messages are 1..n, so that a new row gets an id of its own; the ids of  *)
(* objects are bounded, for the same reason; what addMessage holds in its  *)
(* hands is the row it has just inserted; and where checkDb is tells which *)
(* tables it has been through.                                             *)
(***************************************************************************)

Rows == \E n \in Nat : DOMAIN stored = 1..n

ObjectsBounded == \E n \in Nat : DOMAIN objects \subseteq 1..n

\* The message being stored: not yet, or in the row msgID.
AtHand ==
    /\ adder # "idle" => msg.text \in Row
    /\ adder \in {"idle", "message"} => inserted = {}
    /\ adder # "objects" => msgID = 0
    /\ adder = "objects" => /\ msgID \in DOMAIN stored
                            /\ stored[msgID].text = msg.text

Fresh(r) == r \in DOMAIN stored /\ stored[r].age <= MinOf(Expiries)

Present(r, n) ==
    \E o \in DOMAIN objects : objects[o].msg = r /\ objects[o].number = n

\* The positions stored so far of the message being stored.
FreshAtHand ==
    (adder = "objects" /\ Fresh(msgID)) => \A n \in inserted : Present(msgID, n)

\* The tables that checkDb has been through are there, or could not be made.
Upgraded ==
    /\ start = "objects" => "messages" \in made \union failed
    /\ start \in {"settings", "running"} => Tables \subseteq made \union failed

StoreInv ==
    /\ StoreTypeOK /\ Rows /\ ObjectsBounded /\ AtHand
    /\ PositionsBelong /\ AnnouncedIsStored
    /\ FreshKeepsPositions /\ FreshAtHand /\ Upgraded

-----------------------------------------------------------------------------
\* A set of natural numbers that is not empty has a least element.
LEMMA LeastElement ==
    ASSUME NEW S \in SUBSET Nat, S # {}
    PROVE  \E m \in S : \A x \in S : m <= x
<1> DEFINE Less == {ss \in Nat \X Nat : ss[1] < ss[2]}
<1>1. IsWellFoundedOn(Less, Nat)
  BY NatLessThanWellFounded DEF OpToRel
<1>2. PICK m \in S : \A x \in S : <<x, m>> \notin Less
  BY <1>1, WFMin
<1>3. ASSUME NEW x \in S PROVE m <= x
  <2>1. x \in Nat /\ m \in Nat
    OBVIOUS
  <2>2. x < m => <<x, m>> \in Less
    BY <2>1
  <2> QED
    BY <1>2, <2>1, <2>2
<1> QED
  BY <1>3

\* MinOf finds the least of the expiry times.
LEMMA LeastExpiry ==
    /\ MinOf(Expiries) \in Expiries
    /\ MinOf(Expiries) \in Nat
    /\ \A h \in Expiries : MinOf(Expiries) <= h
<1>1. PICK m \in Expiries : \A k \in Expiries : m <= k
  BY ExpiryAssumption, LeastElement
<1> QED
  BY <1>1, ExpiryAssumption DEF MinOf

\* A set of natural numbers with a bound has a greatest element.
LEMMA GreatestOf ==
    ASSUME NEW S \in SUBSET Nat, NEW b \in Nat, S \subseteq 0..b, S # {}
    PROVE  MaxOf(S) \in S /\ \A x \in S : x <= MaxOf(S)
<1> DEFINE T == {b - x : x \in S}
<1>1. T \in SUBSET Nat /\ T # {}
  <2>1. \A x \in S : x \in 0..b /\ b - x \in Nat
    OBVIOUS
  <2> QED
    BY <2>1
<1>2. PICK m \in T : \A k \in T : m <= k
  <2> HIDE DEF T
  <2> QED
    BY <1>1, LeastElement
<1>3. PICK x \in S : m = b - x
  OBVIOUS
<1>4. \A y \in S : b - y \in T
  OBVIOUS
<1>5. \A y \in S : x >= y
  BY <1>2, <1>3, <1>4
<1> QED
  BY <1>5 DEF MaxOf

\* The id of a new row is a row's id that no row of the table has.
LEMMA NewRow ==
    ASSUME NEW table, NEW n \in Nat, DOMAIN table \subseteq 1..n
    PROVE  /\ NewRowid(table) \in Row /\ NewRowid(table) <= n + 1
           /\ NewRowid(table) \notin DOMAIN table
           /\ DOMAIN table = 1..n => NewRowid(table) = n + 1
<1>1. CASE DOMAIN table = {}
  BY <1>1 DEF NewRowid, Row
<1>2. CASE DOMAIN table # {}
  <2> DEFINE S == DOMAIN table
  <2>1. MaxOf(S) \in S /\ \A x \in S : x <= MaxOf(S)
    <3>1. S \in SUBSET Nat /\ S \subseteq 0..n /\ S # {}
      BY <1>2
    <3> HIDE DEF S
    <3> QED
      BY <3>1, GreatestOf
  <2>2. NewRowid(table) = MaxOf(S) + 1
    BY <1>2 DEF NewRowid
  <2> HIDE DEF S
  <2>3. S \subseteq 1..n
    BY DEF S
  <2>4. S = 1..n => n \in S
    BY <1>2 DEF S
  <2> QED
    BY <2>1, <2>2, <2>3, <2>4 DEF Row, S
<1> QED
  BY <1>1, <1>2

\* Delete keeps the other rows.
LEMMA Deleted ==
    ASSUME NEW table, NEW S
    PROVE  /\ DOMAIN Delete(table, S) = DOMAIN table \ S
           /\ \A r \in DOMAIN table \ S : Delete(table, S)[r] = table[r]
  BY DEF Delete

LEMMA OlderAge ==
    ASSUME NEW age \in Nat
    PROVE  Older(age) \in Nat /\ age <= Older(age)
  BY DEF Older

-----------------------------------------------------------------------------
LEMMA StoreInitInv == StoreInit => StoreInv
<1> SUFFICES ASSUME StoreInit PROVE StoreInv
  OBVIOUS
<1> USE DEF StoreInit
<1>1. StoreTypeOK
  BY LeastExpiry, BoundAssumption DEF StoreTypeOK, NoMessage, Tables
<1>2. Rows /\ ObjectsBounded
  <2>1. DOMAIN stored = 1..0 /\ DOMAIN objects \subseteq 1..0
    OBVIOUS
  <2> QED
    BY <2>1 DEF Rows, ObjectsBounded
<1>3. AtHand /\ FreshAtHand /\ Upgraded
  BY DEF AtHand, FreshAtHand, Upgraded
<1>4. PositionsBelong /\ AnnouncedIsStored /\ FreshKeepsPositions
  BY DEF PositionsBelong, AnnouncedIsStored, FreshKeepsPositions
<1> QED
  BY <1>1, <1>2, <1>3, <1>4 DEF StoreInv

\* The steps of checkDb, and of the worker until it deletes, leave the tables
\* and the message at hand alone.
LEMMA TablesStay ==
    ASSUME StoreInv, stored' = stored, objects' = objects, UNCHANGED adding
    PROVE  /\ Rows' /\ ObjectsBounded' /\ AtHand' /\ PositionsBelong'
           /\ AnnouncedIsStored' /\ FreshKeepsPositions' /\ FreshAtHand'
<1> USE DEF StoreInv, adding
<1>1. Rows' /\ ObjectsBounded'
  BY DEF Rows, ObjectsBounded
<1>2. AtHand' /\ FreshAtHand'
  BY DEF AtHand, FreshAtHand, Fresh, Present
<1>3. PositionsBelong' /\ AnnouncedIsStored'
  BY DEF PositionsBelong, AnnouncedIsStored
<1>4. FreshKeepsPositions'
  BY DEF FreshKeepsPositions
<1> QED
  BY <1>1, <1>2, <1>3, <1>4

LEMMA OpenInv ==
    ASSUME StoreInv, NEW ok \in BOOLEAN, Open(ok)
    PROVE  StoreInv'
<1>1. stored' = stored /\ objects' = objects /\ UNCHANGED adding
  BY DEF Open
<1>2. StoreTypeOK'
  <2>1. start' \in {"version", "broken"} /\ failed' = {} /\ lastRowid' = 0
    BY DEF Open
  <2>2. UNCHANGED <<made, version, adding, sweeping>>
    BY DEF Open
  <2>. QED
    BY <1>1, <2>1, <2>2 DEF StoreInv, StoreTypeOK, adding, sweeping
<1>3. Upgraded'
  BY DEF Open, Upgraded
<1> QED
  BY <1>1, <1>2, <1>3, TablesStay DEF StoreInv

\* VersionRead is 0, so that checkDb never leaves a table out.
LEMMA UpgradingInv ==
    ASSUME StoreInv, Upgrading
    PROVE  StoreInv'
<1>1. stored' = stored /\ objects' = objects /\ UNCHANGED adding
  BY DEF Upgrading, CheckVersion, CreateTable, SetVersion, tables
<1>2. StoreTypeOK'
  <2>1. UNCHANGED <<lastRowid, adding, sweeping>>
    BY DEF Upgrading, CheckVersion, CreateTable, SetVersion, tables
  <2>2. made \subseteq Tables /\ version \in {0, 1} /\ failed \subseteq Tables
    BY DEF StoreInv, StoreTypeOK
  <2>3. /\ made' \subseteq Tables /\ version' \in {0, 1} /\ failed' \subseteq Tables
        /\ start' \in {"messages", "objects", "settings", "running"}
    <3>1. ASSUME NEW ok \in BOOLEAN, CreateTable(ok)
          PROVE  <2>3!:
      BY <2>2, <3>1 DEF CreateTable, Tables
    <3>2. ASSUME NEW ok \in BOOLEAN, SetVersion(ok)
          PROVE  <2>3!:
      BY <2>2, <3>2 DEF SetVersion
    <3>3. ASSUME CheckVersion
          PROVE  <2>3!:
      BY <2>2, <3>3 DEF CheckVersion
    <3> QED
      BY <3>1, <3>2, <3>3 DEF Upgrading
  <2> QED
    BY <1>1, <2>1, <2>3 DEF StoreInv, StoreTypeOK, adding, sweeping, Tables
<1>3. Upgraded'
  BY DEF Upgrading, CheckVersion, CreateTable, SetVersion, StoreInv, Upgraded,
         VersionRead, Tables
<1> QED
  BY <1>1, <1>2, <1>3, TablesStay DEF StoreInv

LEMMA ParseInv ==
    ASSUME StoreInv, NEW n \in 0..MaxPositions, Parse(n)
    PROVE  StoreInv'
<1>1. /\ stored' = stored /\ objects' = objects /\ announced' = announced
      /\ start' = start /\ made' = made /\ failed' = failed
      /\ msg' = [text |-> received + 1, age |-> 0, positions |-> n]
      /\ adder = "idle" /\ adder' = "message" /\ msgID' = msgID
      /\ inserted' = inserted
  BY DEF Parse, tables, schema
<1>2. StoreTypeOK'
  BY <1>1, BoundAssumption DEF Parse, StoreInv, StoreTypeOK, tables, schema, sweeping, Row
<1>3. Rows' /\ ObjectsBounded' /\ PositionsBelong' /\ AnnouncedIsStored' /\ Upgraded'
  BY <1>1 DEF StoreInv, Rows, ObjectsBounded, PositionsBelong, AnnouncedIsStored, Upgraded
<1>4. FreshKeepsPositions' /\ FreshAtHand'
  BY <1>1 DEF StoreInv, FreshKeepsPositions, FreshAtHand
<1>5. AtHand'
  BY <1>1 DEF StoreInv, AtHand, StoreTypeOK, Row
<1> QED
  BY <1>2, <1>3, <1>4, <1>5 DEF StoreInv

\* The new row has an id that no row has and no callback was called with.
LEMMA InsertMessageInv ==
    ASSUME StoreInv, NEW ok \in BOOLEAN, InsertMessage(ok)
    PROVE  StoreInv'
<1> DEFINE r == NewRowid(stored)
           row == [text |-> msg.text, age |-> msg.age]
<1>1. /\ objects' = objects /\ announced' = announced /\ msg' = msg
      /\ inserted' = inserted /\ UNCHANGED schema
  BY DEF InsertMessage
<1>u. Upgraded'
  BY <1>1 DEF StoreInv, Upgraded, schema
<1>2. CASE Works(ok, {"messages"})
  <2>1. PICK n \in Nat : DOMAIN stored = 1..n
    BY DEF StoreInv, Rows
  <2>2. r = n + 1 /\ r \in Row /\ r \notin DOMAIN stored
    BY <2>1, NewRow
  <2>3. /\ stored' = Insert(stored, row)
        /\ lastRowid' = r /\ msgID' = r /\ adder' = "objects"
        /\ adder = "message"
    BY <1>2 DEF InsertMessage
  <2> HIDE DEF row
  <2>4. /\ DOMAIN stored' = DOMAIN stored \union {r}
        /\ stored'[r] = row
        /\ \A q \in DOMAIN stored : stored'[q] = stored[q]
    <3>1. NewRowid(stored) = r
      OBVIOUS
    <3> HIDE DEF r
    <3>3. NewRowid(stored) \notin DOMAIN stored
      BY <2>2, <3>1
    <3>2. /\ DOMAIN Insert(stored, row) = DOMAIN stored \union {NewRowid(stored)}
          /\ Insert(stored, row)[NewRowid(stored)] = row
          /\ \A q \in DOMAIN stored : Insert(stored, row)[q] = stored[q]
      BY <3>3 DEF Insert
    <3> QED
      BY <2>3, <3>1, <3>2
  <2>5. row \in [text : Row, age : Nat] /\ row.text = msg.text /\ inserted = {}
    BY <2>3 DEF StoreInv, AtHand, StoreTypeOK, row
  <2> HIDE DEF r
  <2>6. StoreTypeOK'
    <3>1. \A q \in DOMAIN stored' : q \in Row /\ stored'[q] \in [text : Row, age : Nat]
      BY <2>2, <2>4, <2>5 DEF StoreInv, StoreTypeOK
    <3> QED
      BY <2>2, <2>3, <3>1 DEF InsertMessage, StoreInv, StoreTypeOK, schema, sweeping, Row
  <2>7. Rows' /\ ObjectsBounded'
    <3>1. DOMAIN stored' = 1..(n + 1) /\ n + 1 \in Nat
      BY <2>1, <2>2, <2>4
    <3> QED
      BY <1>1, <3>1 DEF StoreInv, Rows, ObjectsBounded
  <2>8. AtHand'
    BY <1>1, <2>3, <2>4, <2>5 DEF StoreInv, AtHand
  <2>9. PositionsBelong' /\ AnnouncedIsStored'
    BY <1>1, <2>4 DEF StoreInv, PositionsBelong, AnnouncedIsStored
  <2>10. FreshKeepsPositions'
    <3> SUFFICES ASSUME NEW i \in 1..Len(announced),
                        announced[i].id \in DOMAIN stored',
                        stored'[announced[i].id].age <= MinOf(Expiries),
                        NEW n_1 \in announced[i].positions
                 PROVE  \E o \in DOMAIN objects :
                           objects[o].msg = announced[i].id /\ objects[o].number = n_1
      BY <1>1 DEF FreshKeepsPositions
    <3>1. announced[i].id # 0
      BY <2>6 DEF StoreTypeOK, Row
    <3>2. announced[i].id \in DOMAIN stored
      BY <3>1 DEF StoreInv, AnnouncedIsStored
    <3> QED
      BY <2>4, <3>2 DEF StoreInv, FreshKeepsPositions
  <2>11. FreshAtHand'
    BY <1>1, <2>5 DEF FreshAtHand
  <2> QED
    BY <1>u, <2>6, <2>7, <2>8, <2>9, <2>10, <2>11 DEF StoreInv
<1>3. CASE ~Works(ok, {"messages"})
  <2>1. /\ stored' = stored /\ lastRowid' = lastRowid /\ msgID' = msgID
        /\ adder = "message" /\ adder' = "announce"
    BY <1>3 DEF InsertMessage
  <2>2. StoreTypeOK'
    BY <2>1 DEF InsertMessage, StoreInv, StoreTypeOK, schema, sweeping
  <2>3. Rows' /\ ObjectsBounded' /\ PositionsBelong' /\ AnnouncedIsStored'
    BY <1>1, <2>1 DEF StoreInv, Rows, ObjectsBounded, PositionsBelong, AnnouncedIsStored
  <2>4. AtHand' /\ FreshAtHand'
    BY <1>1, <2>1 DEF StoreInv, AtHand, FreshAtHand
  <2>5. FreshKeepsPositions'
    BY <1>1, <2>1 DEF StoreInv, FreshKeepsPositions
  <2> QED
    BY <1>u, <2>2, <2>3, <2>4, <2>5 DEF StoreInv
<1> QED
  BY <1>2, <1>3

\* The new position points to the message at hand and hides no other.
LEMMA InsertObjectInv ==
    ASSUME StoreInv, NEW ok \in BOOLEAN, InsertObject(ok)
    PROVE  StoreInv'
<1> DEFINE r == NewRowid(objects)
           row == [msg |-> msgID, number |-> number, pos |-> <<msg.text, number>>]
<1>1. /\ stored' = stored /\ announced' = announced /\ msg' = msg
      /\ msgID' = msgID /\ adder = "objects" /\ adder' = adder
      /\ UNCHANGED schema /\ number' = number + 1
  BY DEF InsertObject
<1>2. Upgraded' /\ Rows' /\ AtHand' /\ AnnouncedIsStored'
  BY <1>1 DEF StoreInv, Upgraded, schema, Rows, AtHand, AnnouncedIsStored
<1>3. CASE Works(ok, {"objects"})
  <2>1. PICK n \in Nat : DOMAIN objects \subseteq 1..n
    BY DEF StoreInv, ObjectsBounded
  <2>2. r \in Row /\ r <= n + 1 /\ r \notin DOMAIN objects
    BY <2>1, NewRow
  <2>3. /\ objects' = Insert(objects, row) /\ lastRowid' = r
        /\ inserted' = inserted \union {number}
    BY <1>3 DEF InsertObject, RowidKept
  <2> HIDE DEF row
  <2>4. /\ DOMAIN objects' = DOMAIN objects \union {r}
        /\ objects'[r] = row
        /\ \A q \in DOMAIN objects : objects'[q] = objects[q]
    <3>1. NewRowid(objects) = r
      OBVIOUS
    <3> HIDE DEF r
    <3>3. NewRowid(objects) \notin DOMAIN objects
      BY <2>2, <3>1
    <3>2. /\ DOMAIN Insert(objects, row) = DOMAIN objects \union {NewRowid(objects)}
          /\ Insert(objects, row)[NewRowid(objects)] = row
          /\ \A q \in DOMAIN objects : Insert(objects, row)[q] = objects[q]
      BY <3>3 DEF Insert
    <3> QED
      BY <2>3, <3>1, <3>2
  <2>5. /\ row.msg = msgID /\ row.number = number /\ row.pos = <<msg.text, number>>
        /\ row \in [msg : Row, number : Nat, pos : Row \X Nat]
        /\ msgID \in DOMAIN stored /\ stored[msgID].text = msg.text
    BY <1>1 DEF StoreInv, AtHand, StoreTypeOK, row
  <2> HIDE DEF r
  <2>6. StoreTypeOK'
    <3>1. \A q \in DOMAIN objects' :
             q \in Row /\ objects'[q] \in [msg : Row, number : Nat, pos : Row \X Nat]
      BY <2>2, <2>4, <2>5 DEF StoreInv, StoreTypeOK
    <3>2. number' \in Nat /\ inserted' \in SUBSET Nat /\ lastRowid' \in Nat
      <4>1. number \in Nat /\ inserted \subseteq Nat
        BY DEF StoreInv, StoreTypeOK
      <4> QED
        BY <1>1, <2>2, <2>3, <4>1 DEF Row
    <3> QED
      BY <1>1, <3>1, <3>2 DEF InsertObject, StoreInv, StoreTypeOK, schema, sweeping
  <2>7. ObjectsBounded'
    <3>1. DOMAIN objects' \subseteq 1..(n + 1) /\ n + 1 \in Nat
      BY <2>1, <2>2, <2>4 DEF Row
    <3> QED
      BY <3>1 DEF ObjectsBounded
  <2>8. PositionsBelong'
    BY <1>1, <2>4, <2>5 DEF StoreInv, PositionsBelong
  <2>9. \A q, k : Present(q, k) => Present(q, k)'
    BY <2>4 DEF Present
  <2>10. FreshKeepsPositions'
    BY <1>1, <2>9 DEF StoreInv, FreshKeepsPositions, Present
  <2>11. FreshAtHand'
    BY <1>1, <2>3, <2>4, <2>5, <2>9 DEF StoreInv, FreshAtHand, Fresh, Present
  <2> QED
    BY <1>2, <2>6, <2>7, <2>8, <2>10, <2>11 DEF StoreInv
<1>4. CASE ~Works(ok, {"objects"})
  <2>1. objects' = objects /\ lastRowid' = lastRowid /\ inserted' = inserted
    BY <1>4 DEF InsertObject
  <2>2. StoreTypeOK'
    BY <1>1, <2>1 DEF InsertObject, StoreInv, StoreTypeOK, schema, sweeping
  <2>3. ObjectsBounded' /\ PositionsBelong'
    BY <1>1, <2>1 DEF StoreInv, ObjectsBounded, PositionsBelong
  <2>4. FreshKeepsPositions' /\ FreshAtHand'
    BY <1>1, <2>1 DEF StoreInv, FreshKeepsPositions, FreshAtHand, Fresh, Present
  <2> QED
    BY <1>2, <2>2, <2>3, <2>4 DEF StoreInv
<1> QED
  BY <1>3, <1>4

\* The callback tells the row of the message at hand, with the positions that
\* are in the table.
LEMMA AnnounceInv ==
    ASSUME StoreInv, Announce
    PROVE  StoreInv'
<1> DEFINE a == [id |-> msgID, text |-> msg.text, positions |-> inserted]
<1>1. /\ stored' = stored /\ objects' = objects /\ UNCHANGED schema
      /\ announced' = Append(announced, a)
      /\ adder # "idle" /\ adder' = "idle" /\ msgID' = 0 /\ inserted' = {}
      /\ adder \in {"objects", "announce"}
  BY DEF Announce, tables, Result
<1>2. /\ a.id = msgID /\ a.text = msg.text /\ a.positions = inserted
      /\ a \in [id : Nat, text : Row, positions : SUBSET Nat]
  BY <1>1 DEF StoreInv, StoreTypeOK, AtHand
<1> HIDE DEF a
<1>3. announced \in Seq([id : Nat, text : Row, positions : SUBSET Nat])
  BY DEF StoreInv, StoreTypeOK
<1>4. /\ Len(announced') = Len(announced) + 1
      /\ \A i \in 1..Len(announced') :
            announced'[i] = a \/ (i \in 1..Len(announced) /\ announced'[i] = announced[i])
      /\ announced' \in Seq([id : Nat, text : Row, positions : SUBSET Nat])
  BY <1>1, <1>2, <1>3
<1>5. StoreTypeOK'
  <2>1. NoMessage \in [text : Nat, age : Nat, positions : Nat]
    BY DEF NoMessage
  <2> QED
    BY <1>1, <1>4, <2>1 DEF Announce, StoreInv, StoreTypeOK, tables, schema, sweeping
<1>6. Rows' /\ ObjectsBounded' /\ AtHand' /\ PositionsBelong' /\ FreshAtHand' /\ Upgraded'
  BY <1>1 DEF StoreInv, Rows, ObjectsBounded, AtHand, PositionsBelong, FreshAtHand, Upgraded, schema
<1>7. AnnouncedIsStored'
  BY <1>1, <1>2, <1>4 DEF StoreInv, AnnouncedIsStored, AtHand
<1>8. FreshKeepsPositions'
  <2> SUFFICES ASSUME NEW i \in 1..Len(announced'),
                      announced'[i].id \in DOMAIN stored,
                      stored[announced'[i].id].age <= MinOf(Expiries),
                      NEW n \in announced'[i].positions
               PROVE  Present(announced'[i].id, n)
    BY <1>1 DEF FreshKeepsPositions, Present
  <2>1. CASE announced'[i] = a
    <3>1. msgID # 0
      BY <1>2, <2>1 DEF StoreInv, StoreTypeOK, Row
    <3>2. adder = "objects"
      BY <3>1 DEF StoreInv, AtHand
    <3> QED
      BY <1>2, <2>1, <3>2 DEF StoreInv, FreshAtHand, Fresh
  <2>2. CASE i \in 1..Len(announced) /\ announced'[i] = announced[i]
    BY <2>2 DEF StoreInv, FreshKeepsPositions, Present
  <2> QED
    BY <1>4, <2>1, <2>2
<1> QED
  BY <1>5, <1>6, <1>7, <1>8 DEF StoreInv

\* What the first statement of the sweep deletes belongs to no fresh message.
LEMMA SweepObjectsInv ==
    ASSUME StoreInv, NEW ok \in BOOLEAN, SweepObjects(ok)
    PROVE  StoreInv'
<1> DEFINE gone == {o \in DOMAIN objects : objects[o].msg \in DOMAIN stored
                                            /\ Expired(objects[o].msg)}
<1>1. /\ stored' = stored /\ UNCHANGED <<schema, adding>> /\ lastRowid' = lastRowid
      /\ objects' = Delete(objects, gone) \/ objects' = objects
  BY DEF SweepObjects
<1>2. /\ DOMAIN objects' \subseteq DOMAIN objects
      /\ \A o \in DOMAIN objects' : objects'[o] = objects[o]
      /\ \A o \in DOMAIN objects : o \notin gone => o \in DOMAIN objects'
  <2>1. CASE objects' = objects
    BY <2>1
  <2>2. CASE objects' = Delete(objects, gone)
    <3> HIDE DEF gone
    <3>1. /\ DOMAIN Delete(objects, gone) = DOMAIN objects \ gone
          /\ \A o \in DOMAIN objects \ gone : Delete(objects, gone)[o] = objects[o]
      BY Deleted
    <3> QED
      BY <2>2, <3>1
  <2> QED
    BY <1>1, <2>1, <2>2
<1>3. \A r, n : Present(r, n) /\ Fresh(r) => Present(r, n)'
  <2> SUFFICES ASSUME NEW r, NEW n, Fresh(r), NEW o \in DOMAIN objects,
                      objects[o].msg = r, objects[o].number = n
               PROVE  \E q \in DOMAIN objects' : objects'[q].msg = r /\ objects'[q].number = n
    BY DEF Present
  <2>1. stored[r].age \in Nat /\ expiry \in Expiries /\ expiry \in Nat
    BY ExpiryAssumption DEF StoreInv, StoreTypeOK, Fresh
  <2>2. ~Expired(r)
    BY <2>1, LeastExpiry DEF Fresh, Expired
  <2> QED
    BY <1>2, <2>2
<1>4. StoreTypeOK'
  <2>1. /\ DOMAIN objects' \subseteq Row
        /\ \A o \in DOMAIN objects' : objects'[o] \in [msg : Row, number : Nat, pos : Row \X Nat]
    BY <1>2 DEF StoreInv, StoreTypeOK
  <2> QED
    BY <1>1, <2>1 DEF SweepObjects, StoreInv, StoreTypeOK, schema, adding
<1>5. Rows' /\ AtHand' /\ AnnouncedIsStored' /\ Upgraded'
  BY <1>1 DEF StoreInv, Rows, AtHand, AnnouncedIsStored, Upgraded, schema, adding
<1>6. ObjectsBounded' /\ PositionsBelong'
  BY <1>1, <1>2 DEF StoreInv, ObjectsBounded, PositionsBelong
<1>7. FreshKeepsPositions'
  <2> SUFFICES ASSUME NEW i \in 1..Len(announced), Fresh(announced[i].id),
                      NEW n \in announced[i].positions
               PROVE  \E o \in DOMAIN objects' :
                         /\ objects'[o].msg = announced[i].id
                         /\ objects'[o].number = n
    BY <1>1 DEF FreshKeepsPositions, Present, Fresh, adding
  <2>1. Present(announced[i].id, n)
    BY DEF StoreInv, FreshKeepsPositions, Present, Fresh
  <2> DEFINE r == announced[i].id
  <2> HIDE DEF r
  <2>2. Present(r, n) /\ Fresh(r)
    BY <2>1 DEF r
  <2> QED
    BY <1>3, <2>2 DEF r, Present
<1>8. FreshAtHand'
  BY <1>1, <1>3 DEF StoreInv, FreshAtHand, Fresh, adding
<1> QED
  BY <1>4, <1>5, <1>6, <1>7, <1>8 DEF StoreInv

LEMMA SweepInv ==
    ASSUME StoreInv, Sweeping
    PROVE  StoreInv'
<1>1. CASE \E h \in Expiries : StartSweep(h)
  <2>1. stored' = stored /\ objects' = objects /\ UNCHANGED adding
    BY <1>1 DEF StartSweep, tables
  <2>2. StoreTypeOK' /\ Upgraded'
    BY <1>1, BoundAssumption DEF StartSweep, StoreInv, StoreTypeOK, Upgraded, tables, schema, adding
  <2> QED
    BY <2>1, <2>2, TablesStay DEF StoreInv
<1>2. CASE \E ok \in BOOLEAN : SweepObjects(ok)
  BY <1>2, SweepObjectsInv
<1>3. CASE SweepMessages
  <2>1. stored' = stored /\ objects' = objects /\ UNCHANGED adding
    BY <1>3 DEF SweepMessages, tables
  <2>2. StoreTypeOK' /\ Upgraded'
    BY <1>3 DEF SweepMessages, StoreInv, StoreTypeOK, Upgraded, tables, schema, adding
  <2> QED
    BY <2>1, <2>2, TablesStay DEF StoreInv
<1> QED
  BY <1>1, <1>2, <1>3 DEF Sweeping

\* Ages only grow.
LEMMA TickInv ==
    ASSUME StoreInv, Tick
    PROVE  StoreInv'
<1>1. /\ objects' = objects /\ UNCHANGED schema /\ adder' = adder /\ msgID' = msgID
      /\ inserted' = inserted /\ announced' = announced
      /\ stored' = [r \in DOMAIN stored |-> [stored[r] EXCEPT !.age = Older(@)]]
      /\ msg' = [msg EXCEPT !.age = IF adder = "idle" THEN @ ELSE Older(@)]
  BY DEF Tick
<1>2. \A r \in DOMAIN stored : stored[r] \in [text : Row, age : Nat]
  BY DEF StoreInv, StoreTypeOK
<1>3. /\ DOMAIN stored' = DOMAIN stored
      /\ \A r \in DOMAIN stored : /\ stored'[r] \in [text : Row, age : Nat]
                                  /\ stored'[r].text = stored[r].text
                                  /\ stored[r].age <= stored'[r].age
  <2>1. ASSUME NEW r \in DOMAIN stored
        PROVE  /\ stored'[r] \in [text : Row, age : Nat]
               /\ stored'[r].text = stored[r].text
               /\ stored[r].age <= stored'[r].age
    <3>1. stored[r].age \in Nat /\ stored[r].text \in Row
      BY <1>2
    <3>2. Older(stored[r].age) \in Nat /\ stored[r].age <= Older(stored[r].age)
      BY <3>1, OlderAge
    <3>3. stored'[r] = [stored[r] EXCEPT !.age = Older(stored[r].age)]
      BY <1>1
    <3> QED
      BY <1>2, <3>1, <3>2, <3>3
  <2> QED
    BY <1>1, <2>1
<1>4. msg' \in [text : Nat, age : Nat, positions : Nat] /\ msg'.text = msg.text
  <2>1. msg \in [text : Nat, age : Nat, positions : Nat]
    BY DEF StoreInv, StoreTypeOK
  <2>2. Older(msg.age) \in Nat
    BY <2>1, OlderAge
  <2> QED
    BY <1>1, <2>1, <2>2
<1>5. \A r : Fresh(r)' => Fresh(r)
  <2>1. MinOf(Expiries) \in Nat
    BY LeastExpiry
  <2> QED
    BY <1>2, <1>3, <2>1 DEF Fresh
<1>6. StoreTypeOK'
  <2>1. sinceCheck' \in 0..Period
    BY BoundAssumption DEF Tick, StoreInv, StoreTypeOK
  <2> QED
    BY <1>1, <1>3, <1>4, <2>1 DEF Tick, StoreInv, StoreTypeOK, schema
<1>7. Rows' /\ ObjectsBounded' /\ AtHand' /\ Upgraded'
  BY <1>1, <1>3, <1>4 DEF StoreInv, Rows, ObjectsBounded, AtHand, Upgraded, schema
<1>8. PositionsBelong' /\ AnnouncedIsStored'
  BY <1>1, <1>3 DEF StoreInv, PositionsBelong, AnnouncedIsStored
<1>9. FreshKeepsPositions'
  <2> SUFFICES ASSUME NEW i \in 1..Len(announced), Fresh(announced[i].id)',
                      NEW n \in announced[i].positions
               PROVE  Present(announced[i].id, n)
    BY <1>1 DEF FreshKeepsPositions, Present, Fresh
  <2> QED
    BY <1>1, <1>5 DEF StoreInv, FreshKeepsPositions, Present, Fresh
<1>10. FreshAtHand'
  BY <1>1, <1>5 DEF StoreInv, FreshAtHand, Present
<1> QED
  BY <1>6, <1>7, <1>8, <1>9, <1>10 DEF StoreInv

LEMMA RestartInv ==
    ASSUME StoreInv, Restart
    PROVE  StoreInv'
<1>1. /\ stored' = stored /\ objects' = objects /\ announced' = announced
      /\ adder' = "idle" /\ msgID' = 0 /\ inserted' = {} /\ start' = "closed"
  BY DEF Restart
<1>2. StoreTypeOK'
  BY BoundAssumption DEF Restart, StoreInv, StoreTypeOK, NoMessage
<1>3. Rows' /\ ObjectsBounded' /\ AtHand' /\ FreshAtHand' /\ Upgraded'
  BY <1>1 DEF StoreInv, Rows, ObjectsBounded, AtHand, FreshAtHand, Upgraded
<1>4. PositionsBelong' /\ AnnouncedIsStored' /\ FreshKeepsPositions'
  BY <1>1 DEF StoreInv, PositionsBelong, AnnouncedIsStored, FreshKeepsPositions
<1> QED
  BY <1>2, <1>3, <1>4 DEF StoreInv

LEMMA StoreStep == StoreInv /\ [StoreNext]_storeVars => StoreInv'
<1> SUFFICES ASSUME StoreInv, [StoreNext]_storeVars PROVE StoreInv'
  OBVIOUS
<1>1. CASE \E ok \in BOOLEAN : Open(ok)
  BY <1>1, OpenInv
<1>2. CASE \E n \in 0..MaxPositions : Parse(n)
  BY <1>2, ParseInv
<1>3. CASE Upgrading
  BY <1>3, UpgradingInv
<1>4. CASE Adding
  BY <1>4, InsertMessageInv, InsertObjectInv, AnnounceInv DEF Adding
<1>5. CASE Sweeping
  BY <1>5, SweepInv
<1>6. CASE Tick
  BY <1>6, TickInv
<1>7. CASE Restart
  BY <1>7, RestartInv
<1>8. CASE UNCHANGED storeVars
  <2>1. stored' = stored /\ objects' = objects /\ UNCHANGED adding
    BY <1>8 DEF storeVars, tables
  <2>2. StoreTypeOK' /\ Upgraded'
    BY <1>8 DEF storeVars, tables, schema, adding, sweeping, StoreInv, StoreTypeOK, Upgraded
  <2> QED
    BY <2>1, <2>2, TablesStay DEF StoreInv
<1> QED
  BY <1>1, <1>2, <1>3, <1>4, <1>5, <1>6, <1>7, <1>8 DEF StoreNext

\* The inductive invariant of Store.
THEOREM StoreInvariance == StoreSpec => []StoreInv
  BY StoreInitInv, StoreStep, PTL DEF StoreSpec

-----------------------------------------------------------------------------
\* Theorems of Pipeline.

\* What StartReceiver and Crash do to the receiver.
Emptied ==
    /\ buffer' = <<>> /\ next' = 2 /\ delivered' = <<>>
    /\ \/ messages' = messages /\ alive' = alive
       \/ messages' = [k \in Keys |-> Free] /\ alive' = TRUE

\* Every text in the database is the place of a message that was taken.
TakenInv ==
    /\ taken \in Seq(Deliveries) /\ received = Len(taken)
    /\ adder # "idle" => msg.text \in 1..Len(taken)
    /\ \A r \in DOMAIN stored : stored[r].text \in 1..Len(taken)
    /\ \A i \in 1..Len(announced) : announced[i].text \in 1..Len(taken)

PipelineInv == IInv /\ StoreInv /\ TakenInv

-----------------------------------------------------------------------------
\* A handler delivers at most one message.
LEMMA DeliversOne ==
    ASSUME IInv, Extract \/ Replay, delivered' # delivered
    PROVE  delivered'[Len(delivered')] \in Deliveries
<1>t. TypeOK /\ OpenSlotsWait /\ TimeKnown
  BY DEF IInv
<1>1. Handle(Current) /\ Current \in Sentences
  BY <1>t, HandlingStep
<1>2. Finish(Current)
  BY <1>1 DEF Handle, Skip, Fault, Keep
<1>3. PICK d \in Deliveries : delivered' = Append(delivered, d)
  BY <1>t, <1>1, <1>2, FinishStep
<1> QED
  BY <1>t, <1>3 DEF TypeOK

LEMMA StepOfReassembly ==
    ASSUME [PipelineNext]_pipelineVars
    PROVE  [Next]_vars \/ Emptied
<1>1. CASE \E ok \in BOOLEAN : StartReceiver(ok)
  BY <1>1 DEF StartReceiver, Emptied
<1>2. CASE \E b \in Buffers : ReadChannel(b)
  BY <1>2 DEF ReadChannel, Next
<1>3. CASE Pass \/ HandOver
  BY <1>3 DEF Pass, HandOver, Next
<1>4. CASE Upgrade \/ StoreTaken \/ Sweep \/ Age
  BY <1>4 DEF Upgrade, StoreTaken, Sweep, Age
<1>5. CASE Crash
  BY <1>5 DEF Crash, Emptied
<1>6. CASE UNCHANGED pipelineVars
  BY <1>6 DEF pipelineVars
<1> QED
  BY <1>1, <1>2, <1>3, <1>4, <1>5, <1>6 DEF PipelineNext

LEMMA StepOfStore ==
    ASSUME IInv, [PipelineNext]_pipelineVars
    PROVE  [StoreNext]_storeVars
<1>1. CASE \E ok \in BOOLEAN : StartReceiver(ok)
  BY <1>1 DEF StartReceiver, StoreNext
<1>2. CASE (\E b \in Buffers : ReadChannel(b)) \/ Pass
  BY <1>2 DEF ReadChannel, Pass
<1>3. CASE HandOver
  <2>1. PICK d \in Deliveries : Parse(PositionsIn(d.text))
    BY <1>3, DeliversOne DEF HandOver
  <2> QED
    BY <2>1, PositionsAssumption DEF StoreNext
<1>4. CASE Upgrade \/ StoreTaken \/ Sweep \/ Age
  BY <1>4 DEF Upgrade, StoreTaken, Sweep, Age, StoreNext
<1>5. CASE Crash
  BY <1>5 DEF Crash, StoreNext
<1>6. CASE UNCHANGED pipelineVars
  BY <1>6 DEF pipelineVars
<1> QED
  BY <1>1, <1>2, <1>3, <1>4, <1>5, <1>6 DEF PipelineNext

\* A receiver without a read is as good as a new one.
LEMMA EmptiedInv ==
    ASSUME IInv, Emptied
    PROVE  IInv'
<1>1. CASE messages' = messages /\ alive' = alive
  <2>1. TypeOK'
    BY <1>1 DEF Emptied, IInv, TypeOK, Done
  <2>2. OpenSlotsWait' /\ TimeKnown'
    BY <1>1 DEF IInv, OpenSlotsWait, TimeKnown
  <2>3. LastHandled'
    BY DEF Emptied, LastHandled
  <2> QED
    BY <2>1, <2>2, <2>3 DEF IInv
<1>2. CASE messages' = [k \in Keys |-> Free] /\ alive' = TRUE
  <2>1. TypeOK'
    BY <1>2 DEF Emptied, TypeOK, Done
  <2>2. OpenSlotsWait' /\ TimeKnown'
    BY <1>2 DEF OpenSlotsWait, TimeKnown
  <2>3. LastHandled'
    BY DEF Emptied, LastHandled
  <2> QED
    BY <2>1, <2>2, <2>3 DEF IInv
<1> QED
  BY <1>1, <1>2 DEF Emptied

LEMMA EmptiedDisciplined ==
    ASSUME DInv, Emptied
    PROVE  DInv' /\ Handled'
<1>1. NoFault' /\ GenuineSlots'
  <2>1. CASE messages' = messages /\ alive' = alive
    BY <2>1 DEF DInv, NoFault, GenuineSlots, GenuineSlot
  <2>2. CASE messages' = [k \in Keys |-> Free] /\ alive' = TRUE
    BY <2>2 DEF NoFault, GenuineSlots
  <2> QED
    BY <2>1, <2>2 DEF Emptied
<1>2. Len(delivered') = 0 /\ Len(buffer') = 0
  BY DEF Emptied
<1>3. Integrity'
  BY <1>2 DEF Integrity
<1>4. Handled'
  BY <1>2 DEF Handled
<1> QED
  BY <1>1, <1>3, <1>4 DEF DInv

\* Rows and callbacks name messages taken before; taken only grows.
LEMMA TakenStep ==
    ASSUME PipelineInv, [PipelineNext]_pipelineVars
    PROVE  TakenInv'
<1>t. /\ taken \in Seq(Deliveries) /\ Len(taken) \in Nat
      /\ StoreTypeOK /\ AtHand
  BY DEF PipelineInv, TakenInv, StoreInv
<1>1. CASE HandOver
  <2>1. PICK d \in Deliveries : taken' = Append(taken, d) /\ Parse(PositionsIn(d.text))
    BY <1>1, DeliversOne DEF HandOver, PipelineInv
  <2>2. /\ taken' \in Seq(Deliveries) /\ Len(taken') = Len(taken) + 1
    BY <1>t, <2>1
  <2>3. /\ received' = received + 1 /\ msg'.text = received + 1
        /\ stored' = stored /\ announced' = announced
    BY <2>1 DEF Parse, tables
  <2> QED
    BY <1>t, <2>2, <2>3 DEF PipelineInv, TakenInv
<1>2. ASSUME taken' = taken, received' = received, adder' = "idle" \/ adder = "idle",
             adder' = "idle" \/ adder' = adder,
             stored' = stored, announced' = announced
      PROVE  TakenInv'
  BY <1>2 DEF PipelineInv, TakenInv
<1>3. CASE \E ok \in BOOLEAN : StartReceiver(ok)
  BY <1>2, <1>3 DEF StartReceiver, Open, adding
<1>4. ASSUME UNCHANGED <<stored, adding, taken>> PROVE TakenInv'
  BY <1>4 DEF PipelineInv, TakenInv, adding
<1>5. CASE (\E b \in Buffers : ReadChannel(b)) \/ Pass
  BY <1>4, <1>5 DEF ReadChannel, Pass, storeVars, tables
<1>6. CASE Upgrade
  BY <1>4, <1>6 DEF Upgrade, Upgrading, CheckVersion, CreateTable, SetVersion, tables
<1>7. CASE Sweep
  BY <1>4, <1>7 DEF Sweep, Sweeping, StartSweep, SweepObjects, SweepMessages, tables
<1>8. CASE Crash
  BY <1>2, <1>8 DEF Crash, Restart
<1>9. CASE Age
  <2>1. /\ taken' = taken /\ received' = received /\ adder' = adder
        /\ announced' = announced /\ DOMAIN stored' = DOMAIN stored
    BY <1>9 DEF Age, Tick
  <2>2. msg'.text = msg.text
    BY <1>t, <1>9 DEF Age, Tick, StoreTypeOK
  <2>3. \A r \in DOMAIN stored : stored'[r].text = stored[r].text
    BY <1>t, <1>9 DEF Age, Tick, StoreTypeOK
  <2> QED
    BY <2>1, <2>2, <2>3 DEF PipelineInv, TakenInv
<1>10. CASE StoreTaken
  <2>1. taken' = taken
    BY <1>10 DEF StoreTaken
  <2>2. CASE \E ok \in BOOLEAN : InsertMessage(ok)
    <3>1. PICK ok \in BOOLEAN : InsertMessage(ok)
      BY <2>2
    <3>2. /\ received' = received /\ announced' = announced /\ msg' = msg
          /\ adder = "message"
      BY <3>1 DEF InsertMessage
    <3>3. \/ stored' = stored
          \/ stored' = Insert(stored, [text |-> msg.text, age |-> msg.age])
      BY <3>1 DEF InsertMessage
    <3>4. \A r \in DOMAIN stored' : \/ stored'[r].text = msg.text
                                    \/ r \in DOMAIN stored /\ stored'[r] = stored[r]
      BY <3>3 DEF Insert
    <3> QED
      BY <2>1, <3>2, <3>4 DEF PipelineInv, TakenInv
  <2>3. CASE \E ok \in BOOLEAN : InsertObject(ok)
    BY <2>1, <2>3 DEF InsertObject, PipelineInv, TakenInv
  <2>4. CASE Announce
    <3>1. /\ received' = received /\ stored' = stored /\ adder' = "idle"
          /\ adder # "idle"
      BY <2>4 DEF Announce, tables
    <3>2. \E a : announced' = Append(announced, a) /\ a.text = msg.text
      BY <2>4 DEF Announce
    <3>3. announced \in Seq([id : Nat, text : Row, positions : SUBSET Nat])
      BY <1>t DEF StoreTypeOK
    <3>4. \A i \in 1..Len(announced') :
             \/ announced'[i].text = msg.text
             \/ i \in 1..Len(announced) /\ announced'[i] = announced[i]
      BY <3>2, <3>3
    <3> QED
      BY <2>1, <3>1, <3>4 DEF PipelineInv, TakenInv
  <2> QED
    BY <1>10, <2>2, <2>3, <2>4 DEF StoreTaken, Adding
<1>11. CASE UNCHANGED pipelineVars
  BY <1>4, <1>11 DEF pipelineVars, storeVars, tables
<1> QED
  BY <1>1, <1>3, <1>5, <1>6, <1>7, <1>8, <1>9, <1>10, <1>11 DEF PipelineNext

LEMMA PipelineInitInv == PipelineInit => PipelineInv
<1> SUFFICES ASSUME PipelineInit PROVE PipelineInv
  OBVIOUS
<1>1. IInv /\ StoreInv
  BY InitInv, StoreInitInv DEF PipelineInit
<1>2. TakenInv
  BY DEF PipelineInit, StoreInit, TakenInv
<1> QED
  BY <1>1, <1>2 DEF PipelineInv

LEMMA PipelineStep == PipelineInv /\ [PipelineNext]_pipelineVars => PipelineInv'
<1> SUFFICES ASSUME PipelineInv, [PipelineNext]_pipelineVars PROVE PipelineInv'
  OBVIOUS
<1>1. IInv'
  BY StepOfReassembly, StepInv, EmptiedInv DEF PipelineInv
<1>2. StoreInv'
  BY StepOfStore, StoreStep DEF PipelineInv
<1> QED
  BY <1>1, <1>2, TakenStep DEF PipelineInv

\* The inductive invariant of the two together.
LEMMA PipelineInvariance == PipelineSpec => []PipelineInv
  BY PipelineInitInv, PipelineStep, PTL DEF PipelineSpec

LEMMA DisciplinedStep ==
    ASSUME Disciplined, IInv, DInv, Handled, [PipelineNext]_pipelineVars
    PROVE  DInv' /\ Handled'
<1>1. CASE Emptied
  BY <1>1, EmptiedDisciplined
<1>2. CASE [Next]_vars
  BY <1>2, StepHandled, StepDisciplined
<1> QED
  BY <1>1, <1>2, StepOfReassembly

LEMMA DisciplinedPipeline ==
    ASSUME Disciplined
    PROVE  PipelineSpec => [](DInv /\ Handled)
<1>1. PipelineInit => DInv /\ Handled
  BY DEF PipelineInit, Init, DInv, NoFault, GenuineSlots, Integrity, Handled
<1>2. IInv /\ DInv /\ Handled /\ [PipelineNext]_pipelineVars => DInv' /\ Handled'
  BY DisciplinedStep
<1>3. PipelineInv => IInv
  BY DEF PipelineInv
<1> QED
  BY <1>1, <1>2, <1>3, PipelineInvariance, PTL DEF PipelineSpec

-----------------------------------------------------------------------------
\* The two together keep what each keeps alone: see StoreInvariance.
THEOREM PipelineTypes == PipelineSpec => []StoreTypeOK
<1>1. PipelineInv => StoreTypeOK
  BY DEF PipelineInv, StoreInv
<1> QED
  BY <1>1, PipelineInvariance, PTL

\* Every position in the database belongs to the message it was found in.
THEOREM PositionsBelongAlways == PipelineSpec => []PositionsBelong
<1>1. PipelineInv => PositionsBelong
  BY DEF PipelineInv, StoreInv
<1> QED
  BY <1>1, PipelineInvariance, PTL

\* What a callback named stays in the database under that id.
THEOREM AnnouncedStays == PipelineSpec => []AnnouncedIsStored
<1>1. PipelineInv => AnnouncedIsStored
  BY DEF PipelineInv, StoreInv
<1> QED
  BY <1>1, PipelineInvariance, PTL

\* The sweep takes no position from a message that is not expired.
THEOREM FreshStaysWhole == PipelineSpec => []FreshKeepsPositions
<1>1. PipelineInv => FreshKeepsPositions
  BY DEF PipelineInv, StoreInv
<1> QED
  BY <1>1, PipelineInvariance, PTL

\* A table is missing only if the last Start could not create it.
THEOREM EveryStartUpgrades == PipelineSpec => []MissingWasTriedNow
<1>1. PipelineInv => MissingWasTriedNow
  BY DEF PipelineInv, StoreInv, Upgraded, MissingWasTriedNow
<1> QED
  BY <1>1, PipelineInvariance, PTL

\* While no key is used by two messages, no handler fails, whatever the
\* database does and however often the receiver is stopped and started.
THEOREM PipelineIsSafe ==
    ASSUME Disciplined
    PROVE  PipelineSpec => []NoFault
<1>1. DInv => NoFault
  BY DEF DInv
<1> QED
  BY <1>1, DisciplinedPipeline, PTL

\* Then every message handed to the database is one that was sent,
THEOREM PipelineIsGenuine ==
    ASSUME Disciplined
    PROVE  PipelineSpec => []Integrity
<1>1. DInv => Integrity
  BY DEF DInv
<1> QED
  BY <1>1, DisciplinedPipeline, PTL

\* and none that is whole in one read is missing.
THEOREM PipelineLosesNone ==
    ASSUME Disciplined
    PROVE  PipelineSpec => []NothingLost
<1>1. PipelineInv /\ DInv /\ Handled => NothingLost
  BY HandledIsEnough DEF PipelineInv
<1> QED
  BY <1>1, PipelineInvariance, DisciplinedPipeline, PTL

-----------------------------------------------------------------------------
GenuineTaken == \A i \in 1..Len(taken) : taken[i] \in Genuine

\* In disciplined traffic the lines determine the message.
LEMMA LinesDetermine ==
    ASSUME Disciplined, NEW k, NEW d \in Deliveries, IsMessage(d, k)
    PROVE  d \in Genuine
<1>1. PICK n \in Totals : d.text \in [1..n -> Fragments]
  BY DEF Deliveries
<1>2. n \in Nat \ {0} /\ Len(d.text) = n
  BY <1>1 DEF Totals
<1>3. PICK s \in Relevant :
         /\ Key(s) = k /\ s.line = 1 /\ s.total = n /\ d.id = s.id
         /\ d.sent = IF s.talker = "NX" THEN s.utc ELSE 0
  BY <1>2 DEF IsMessage
<1>4. ASSUME NEW i \in 1..n
      PROVE  SentAs(s, i) # {} /\ d.text[i] = Body(CHOOSE t \in SentAs(s, i) : TRUE)
  <2>1. PICK t \in Relevant : Key(t) = k /\ t.line = i /\ d.text[i] = Body(t)
    BY <1>2, <1>4 DEF IsMessage
  <2>2. t \in SentAs(s, i)
    BY <1>3, <2>1 DEF SentAs
  <2>3. \A u \in SentAs(s, i) : u = t
    BY <1>3, <2>1 DEF SentAs, Disciplined
  <2> QED
    BY <2>1, <2>2, <2>3
<1>5. d.text = Original(s).text
  BY <1>1, <1>3, <1>4 DEF Original
<1>6. d = Original(s)
  <2>1. d = [id |-> d.id, sent |-> d.sent, text |-> d.text]
    BY DEF Deliveries
  <2>2. d.id = Original(s).id /\ d.sent = Original(s).sent
    BY <1>3 DEF Original
  <2> QED
    BY <1>5, <2>1, <2>2 DEF Original
<1> QED
  BY <1>3, <1>4, <1>6 DEF Genuine

LEMMA GenuineStep ==
    ASSUME Disciplined, PipelineInv, GenuineTaken, DInv',
           [PipelineNext]_pipelineVars
    PROVE  GenuineTaken'
<1>1. CASE HandOver
  <2>1. PICK d \in Deliveries :
           taken' = Append(taken, d) /\ d = delivered'[Len(delivered')]
    BY <1>1, DeliversOne DEF HandOver, PipelineInv
  <2>2. delivered' \in Seq(Deliveries) /\ delivered' # delivered
    <3>1. PipelineInv'
      BY PipelineStep
    <3> QED
      BY <1>1, <3>1 DEF HandOver, PipelineInv, IInv, TypeOK
  <2>3. Len(delivered') > 0
    <3>1. IInv /\ (Extract \/ Replay)
      BY <1>1 DEF HandOver, PipelineInv
    <3>2. Handle(Current)
      BY <3>1, HandlingStep DEF IInv
    <3>3. \E e : delivered' = Append(delivered, e)
      BY <2>2, <3>2 DEF Handle, Skip, Fault, Keep, Finish
    <3>4. delivered \in Seq(Deliveries)
      BY <3>1 DEF IInv, TypeOK
    <3> QED
      BY <3>3, <3>4
  <2>4. PICK k \in Keys : IsMessage(d, k)
    <3>1. Len(delivered') \in 1..Len(delivered')
      BY <2>2, <2>3
    <3>2. \E k \in Keys : IsMessage(delivered'[Len(delivered')], k)
      BY <3>1 DEF DInv, Integrity, IsMessage
    <3> QED
      BY <2>1, <3>2
  <2>5. d \in Genuine
    BY <2>4, LinesDetermine
  <2>6. taken \in Seq(Deliveries)
    BY DEF PipelineInv, TakenInv
  <2> QED
    BY <2>1, <2>5, <2>6 DEF GenuineTaken
<1>2. ASSUME ~HandOver PROVE taken' = taken
  BY <1>2 DEF PipelineNext, pipelineVars, StartReceiver, Upgrade, ReadChannel,
              Pass, StoreTaken, Sweep, Age, Crash
<1> QED
  BY <1>1, <1>2 DEF GenuineTaken

-----------------------------------------------------------------------------
\* What the reader sees, and what is in hand, is as it was.
LEMMA MailboxStays ==
    ASSUME TakenInv, DOMAIN stored' = DOMAIN stored,
           \A r \in DOMAIN stored : stored'[r].text = stored[r].text,
           taken' = taken, announced' = announced, adder' = adder \/
               (adder # "idle" /\ adder' # "idle"),
           msgID' = msgID, msg'.text = msg.text
    PROVE  UNCHANGED <<Box, Hand, Told>>
<1>1. Box' = Box
  BY DEF Box
<1>2. Hand' = Hand
  BY DEF Hand
<1>3. Told' = Told
  BY DEF Told
<1> QED
  BY <1>1, <1>2, <1>3

LEMMA HandOverTakes ==
    ASSUME PipelineInv, GenuineTaken', HandOver
    PROVE  \E m \in Genuine : M!Take(m)
<1>1. PICK d \in Deliveries : taken' = Append(taken, d) /\ Parse(PositionsIn(d.text))
  BY DeliversOne DEF HandOver, PipelineInv
<1>2. /\ taken \in Seq(Deliveries) /\ Len(taken) \in Nat /\ received = Len(taken)
      /\ adder = "idle" /\ msgID = 0
  BY <1>1 DEF PipelineInv, StoreInv, TakenInv, Parse, AtHand
<1>3. /\ stored' = stored /\ announced' = announced /\ adder' = "message"
      /\ msgID' = msgID /\ msg'.text = Len(taken) + 1
  BY <1>1, <1>2 DEF Parse, tables
<1>4. /\ Len(taken') = Len(taken) + 1 /\ taken'[Len(taken) + 1] = d
      /\ \A i \in 1..Len(taken) : taken'[i] = taken[i]
  BY <1>1, <1>2
<1>5. d \in Genuine
  BY <1>2, <1>4 DEF GenuineTaken
<1>6. Hand = None /\ Hand' = [id |-> 0, what |-> d]
  BY <1>2, <1>3, <1>4 DEF Hand
<1>7. Box' = Box
  BY <1>3, <1>4 DEF Box, PipelineInv, TakenInv
<1>8. Told' = Told
  BY <1>3, <1>4 DEF Told, PipelineInv, TakenInv
<1> QED
  BY <1>5, <1>6, <1>7, <1>8 DEF M!Take

\* What is in hand is a record and not None.
LEMMA HandIsRecord ==
    ASSUME PipelineInv, adder # "idle"
    PROVE  /\ Hand = [id |-> msgID, what |-> taken[msg.text]]
           /\ Hand # None
<1>1. Hand = [id |-> msgID, what |-> taken[msg.text]]
  BY DEF Hand
<1>2. taken[msg.text] \in Deliveries /\ msgID \in Nat
  BY DEF PipelineInv, TakenInv, StoreInv, StoreTypeOK
<1> QED
  BY <1>1, <1>2, NoneAssumption

LEMMA InsertMessagePuts ==
    ASSUME PipelineInv, NEW ok \in BOOLEAN, InsertMessage(ok), taken' = taken
    PROVE  (\E i \in DOMAIN Box' : M!Put(i)) \/ UNCHANGED <<Box, Hand, Told>>
<1>1. /\ adder = "message" /\ msg' = msg /\ announced' = announced
      /\ msgID = 0 /\ adder' # "idle"
  BY DEF InsertMessage, PipelineInv, StoreInv, AtHand
<1>2. CASE ~Works(ok, {"messages"})
  <2>1. stored' = stored /\ msgID' = msgID
    BY <1>2 DEF InsertMessage
  <2> QED
    BY <1>1, <2>1, MailboxStays DEF PipelineInv
<1>3. CASE Works(ok, {"messages"})
  <2> DEFINE r == NewRowid(stored)
             row == [text |-> msg.text, age |-> msg.age]
  <2>1. PICK n \in Nat : DOMAIN stored = 1..n
    BY DEF PipelineInv, StoreInv, Rows
  <2>2. r \in Row /\ r \notin DOMAIN stored
    BY <2>1, NewRow
  <2>3. stored' = Insert(stored, row) /\ msgID' = r
    BY <1>3 DEF InsertMessage
  <2>4. /\ DOMAIN stored' = DOMAIN stored \union {r}
        /\ stored'[r].text = msg.text
        /\ \A q \in DOMAIN stored : stored'[q] = stored[q]
    BY <2>2, <2>3 DEF Insert
  <2>5. /\ Hand = [id |-> 0, what |-> taken[msg.text]] /\ Hand # None
        /\ Hand' = [id |-> r, what |-> taken[msg.text]]
    <3>1. Hand = [id |-> 0, what |-> taken[msg.text]] /\ Hand # None
      BY <1>1, HandIsRecord
    <3> QED
      BY <1>1, <2>3, <3>1 DEF Hand
  <2>6. Told' = Told
    BY <1>1 DEF Told
  <2> HIDE DEF r, row
  <2>7. /\ DOMAIN Box = DOMAIN stored /\ DOMAIN Box' = DOMAIN Box \union {r}
        /\ Box' = [j \in DOMAIN Box \union {r} |->
                      IF j = r THEN Hand.what ELSE Box[j]]
    BY <2>2, <2>4, <2>5 DEF Box
  <2>8. r \in Nat \ ({0} \union DOMAIN Box)
    BY <2>2, <2>7 DEF Row
  <2>9. M!Put(r)
    BY <2>5, <2>6, <2>7, <2>8 DEF M!Put
  <2> QED
    BY <2>7, <2>9
<1> QED
  BY <1>2, <1>3

LEMMA AnnounceTells ==
    ASSUME PipelineInv, Announce, taken' = taken
    PROVE  M!Tell
<1>1. /\ adder # "idle" /\ adder' = "idle" /\ stored' = stored
      /\ \E P : announced' = Append(announced,
                    [id |-> msgID, text |-> msg.text, positions |-> P])
  BY DEF Announce, Result, tables
<1>2. PICK a : /\ announced' = Append(announced, a)
               /\ a.id = msgID /\ a.text = msg.text
  BY <1>1
<1>3. announced \in Seq([id : Nat, text : Row, positions : SUBSET Nat])
  BY DEF PipelineInv, StoreInv, StoreTypeOK
<1>4. /\ Len(announced) \in Nat /\ Len(announced') = Len(announced) + 1
      /\ announced'[Len(announced) + 1] = a
      /\ \A i \in 1..Len(announced) : announced'[i] = announced[i]
  BY <1>2, <1>3
<1>5. Hand = [id |-> msgID, what |-> taken[msg.text]] /\ Hand # None
  BY <1>1, HandIsRecord
<1>6. Hand' = None /\ Box' = Box
  BY <1>1 DEF Hand, Box
<1>7. Told' = Append(Told, Hand)
  <2> DEFINE F(i) == [id |-> announced[i].id, what |-> taken[announced[i].text]]
             n == Len(announced)
  <2>1. Told = [i \in 1..n |-> F(i)]
    BY DEF Told
  <2>2. Told' = [i \in 1..(n + 1) |-> IF i = n + 1 THEN Hand ELSE F(i)]
    BY <1>2, <1>4, <1>5 DEF Told
  <2> HIDE DEF F
  <2>3. n \in Nat
    BY <1>4
  <2> HIDE DEF n
  <2>4. /\ Told \in Seq({F(i) : i \in 1..n}) /\ Len(Told) = n
        /\ \A i \in 1..n : Told[i] = F(i)
    BY <2>1, <2>3
  <2>5. Append(Told, Hand) = [i \in 1..(n + 1) |-> IF i = n + 1 THEN Hand ELSE F(i)]
    <3> DEFINE S == {F(i) : i \in 1..n} \union {Hand}
    <3>1. Told \in Seq(S) /\ Hand \in S
      BY <2>4
    <3> HIDE DEF S
    <3>2. Append(Told, Hand) \in [1..(n + 1) -> S]
      <4>1. Append(Told, Hand) \in Seq(S)
        BY <3>1
      <4>2. Len(Append(Told, Hand)) = n + 1
        BY <2>3, <2>4, <3>1
      <4> HIDE DEF S
      <4>3. \A q \in Seq(S) : q \in [1..Len(q) -> S]
        OBVIOUS
      <4> QED
        BY <4>1, <4>2, <4>3
    <3>3. \A i \in 1..(n + 1) :
             Append(Told, Hand)[i] = IF i = n + 1 THEN Hand ELSE F(i)
      BY <2>3, <2>4, <3>1
    <3> QED
      BY <3>2, <3>3
  <2> QED
    BY <2>2, <2>5
<1> QED
  BY <1>5, <1>6, <1>7 DEF M!Tell

LEMMA CrashLoses ==
    ASSUME PipelineInv, Crash
    PROVE  M!Lose \/ UNCHANGED <<Box, Hand, Told>>
<1>1. /\ stored' = stored /\ announced' = announced /\ taken' = taken
      /\ adder' = "idle"
  BY DEF Crash, Restart
<1>2. Hand' = None /\ Box' = Box /\ Told' = Told
  BY <1>1 DEF Hand, Box, Told
<1>3. CASE adder = "idle"
  BY <1>2, <1>3 DEF Hand
<1>4. CASE adder # "idle"
  BY <1>2, <1>4, HandIsRecord DEF M!Lose
<1> QED
  BY <1>3, <1>4

\* Every step takes, puts, tells or loses a message, or changes nothing that
\* the reader sees.
LEMMA MailboxStep ==
    ASSUME PipelineInv, GenuineTaken', [PipelineNext]_pipelineVars
    PROVE  [M!Next]_(M!vars)
<1>t. TakenInv
  BY DEF PipelineInv
<1> SUFFICES M!Next \/ UNCHANGED <<Box, Hand, Told>>
  BY DEF M!vars
<1>1. CASE HandOver
  BY <1>1, HandOverTakes DEF M!Next
<1>2. CASE Crash
  BY <1>2, CrashLoses DEF M!Next
<1>3. CASE StoreTaken
  <2>1. taken' = taken
    BY <1>3 DEF StoreTaken
  <2>2. CASE \E ok \in BOOLEAN : InsertMessage(ok)
    BY <2>1, <2>2, InsertMessagePuts DEF M!Next
  <2>3. CASE \E ok \in BOOLEAN : InsertObject(ok)
    BY <1>t, <2>1, <2>3, MailboxStays DEF InsertObject
  <2>4. CASE Announce
    BY <2>1, <2>4, AnnounceTells DEF M!Next
  <2> QED
    BY <1>3, <2>2, <2>3, <2>4 DEF StoreTaken, Adding
<1>4. CASE Age
  <2>1. /\ taken' = taken /\ announced' = announced /\ adder' = adder
        /\ msgID' = msgID /\ DOMAIN stored' = DOMAIN stored
    BY <1>4 DEF Age, Tick
  <2>2. StoreTypeOK
    BY DEF PipelineInv, StoreInv
  <2>3. msg'.text = msg.text
    BY <1>4, <2>2 DEF Age, Tick, StoreTypeOK
  <2>4. \A r \in DOMAIN stored : stored'[r].text = stored[r].text
    BY <1>4, <2>2 DEF Age, Tick, StoreTypeOK
  <2> QED
    BY <1>t, <2>1, <2>3, <2>4, MailboxStays
<1>5. ASSUME UNCHANGED <<stored, adding, taken>>
      PROVE  UNCHANGED <<Box, Hand, Told>>
  BY <1>t, <1>5, MailboxStays DEF adding
<1>6. CASE \E ok \in BOOLEAN : StartReceiver(ok)
  BY <1>5, <1>6 DEF StartReceiver, Open
<1>7. CASE (\E b \in Buffers : ReadChannel(b)) \/ Pass \/ UNCHANGED pipelineVars
  BY <1>5, <1>7 DEF ReadChannel, Pass, storeVars, tables, pipelineVars
<1>8. CASE Upgrade
  BY <1>5, <1>8 DEF Upgrade, Upgrading, CheckVersion, CreateTable, SetVersion, tables
<1>9. CASE Sweep
  BY <1>5, <1>9 DEF Sweep, Sweeping, StartSweep, SweepObjects, SweepMessages, tables
<1> QED
  BY <1>1, <1>2, <1>3, <1>4, <1>6, <1>7, <1>8, <1>9 DEF PipelineNext

\* While no key is used by two messages, the receiver and the database are a
\* mailbox for the messages that were sent: whatever statements fail and
\* whenever the process ends, the reader finds under an id it was told the
\* message it was told about, as it was sent.
THEOREM PipelineIsMailbox ==
    ASSUME Disciplined
    PROVE  PipelineSpec => ImplementsMailbox
<1>1. PipelineInit => M!Init
  <2> SUFFICES ASSUME PipelineInit PROVE M!Init
    OBVIOUS
  <2>1. DOMAIN stored = {} /\ announced = <<>> /\ adder = "idle"
    BY DEF PipelineInit, StoreInit
  <2>2. Box = [i \in {} |-> None] /\ Hand = None
    BY <2>1 DEF Box, Hand
  <2>3. Told = <<>>
    BY <2>1 DEF Told
  <2> QED
    BY <2>2, <2>3 DEF M!Init
<1>2. PipelineInit => GenuineTaken
  BY DEF PipelineInit, GenuineTaken
<1>3. PipelineInv /\ GenuineTaken /\ DInv' /\ [PipelineNext]_pipelineVars => GenuineTaken'
  BY GenuineStep
<1>4. PipelineInv /\ GenuineTaken' /\ [PipelineNext]_pipelineVars => [M!Next]_(M!vars)
  BY MailboxStep
<1> QED
  BY <1>1, <1>2, <1>3, <1>4, PipelineInvariance, DisciplinedPipeline, PTL
     DEF PipelineSpec, ImplementsMailbox, M!Spec
=============================================================================
