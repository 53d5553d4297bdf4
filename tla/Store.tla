------------------------------- MODULE Store --------------------------------
(***************************************************************************)
(* The message database (db.cpp).  The receiver thread stores a message    *)
(* with one statement and each of its positions with another (addMessage,  *)
(* called by processNativeMsg); the worker thread sweeps expired rows now  *)
(* and then (doIteration, removeExpiredMessages).  SQLite runs one         *)
(* statement at a time; the threads interleave between statements, any     *)
(* statement may fail (the file is locked by its reader) and the process   *)
(* may end at any time and start again on the same file.                   *)
(*                                                                         *)
(* Times are kept as ages in ticks, cut off where nothing compares them    *)
(* any more, so that the clock runs for ever.                              *)
(***************************************************************************)
EXTENDS Integers, Sequences

CONSTANTS
    Expiries,       \* the values settings->expiryHours takes, in ticks
    Period,         \* EXPIRED_RECS_CHECK_PERIOD, in ticks
    MaxMessages,    \* bound: messages received
    MaxPositions    \* bound: positions in a message

ASSUME ExpiryAssumption == Expiries \subseteq Nat /\ Expiries # {}

ASSUME BoundAssumption == Period \in Nat /\ MaxMessages \in Nat /\ MaxPositions \in Nat

VARIABLES
    stored,     \* the table messages: rowid -> [text, age since received]
    objects,    \* the table objects: rowid -> [msg, number, pos]
    made,       \* the tables that exist in the file
    version,    \* the version in the table settings, 0 if there is none
    lastRowid,  \* sqlite3_last_insert_rowid
    start,      \* where StartNavtexReceiver is with the database
    failed,     \* history: missing tables that this Start could not create
    adder,      \* where addMessage and processNativeMsg are
    msg,        \* the message at hand: its text, age, number of positions
    msgID,      \* addMessage's result and msgID
    number,     \* the position to store next
    inserted,   \* history: the positions of it that were stored
    received,   \* history: messages received, the text of the last one
    announced,  \* history: what msgAddCb was called with
    sweeper,    \* where removeExpiredMessages is
    expiry,     \* its numOfHours
    sinceCheck  \* time since lastExpiredRecsCheck

tables == <<stored, objects, lastRowid>>
schema == <<made, version, start, failed>>
adding == <<adder, msg, msgID, number, inserted, received, announced>>
sweeping == <<sweeper, expiry, sinceCheck>>

storeVars == <<tables, schema, adding, sweeping>>

MinOf(S) == CHOOSE x \in S : \A y \in S : x <= y
MaxOf(S) == CHOOSE x \in S : \A y \in S : x >= y

OldAge == MaxOf(Expiries) + 1

Older(age) == IF age < OldAge THEN age + 1 ELSE age

\* The rowid of a new row: an integer primary key without AUTOINCREMENT.
NewRowid(table) == IF DOMAIN table = {} THEN 1 ELSE MaxOf(DOMAIN table) + 1

Insert(table, row) ==
    [r \in DOMAIN table \union {NewRowid(table)} |->
        IF r \in DOMAIN table THEN table[r] ELSE row]

Delete(table, rows) == [r \in DOMAIN table \ rows |-> table[r]]

NoMessage == [text |-> 0, age |-> 0, positions |-> 0]

Tables == {"messages", "objects"}

StoreInit ==
    /\ stored = [r \in {} |-> NoMessage]
    /\ objects = [r \in {} |-> NoMessage]
    /\ made = {} /\ version = 0
    /\ lastRowid = 0
    /\ start = "closed" /\ failed = {}
    /\ adder = "idle" /\ msg = NoMessage
    /\ msgID = 0 /\ number = 0 /\ inserted = {} /\ received = 0
    /\ announced = <<>>
    /\ sweeper = "idle" /\ expiry = MinOf(Expiries) /\ sinceCheck = Period

-----------------------------------------------------------------------------
\* The receiver runs.
Started == start \in {"running", "broken"}

\* Whether a statement on tables T has an effect.
Works(ok, T) == ok /\ T \subseteq made /\ start # "broken"

\* StartNavtexReceiver opens the file, in a new process or after Stop.  If that
\* fails it goes on with a handle on which every statement fails.
Open(ok) ==
    /\ start = "closed" \/ Started
    /\ adder = "idle"
    /\ start' = IF ok THEN "version" ELSE "broken"
    /\ failed' = {}
    /\ lastRowid' = 0
    /\ UNCHANGED <<stored, objects, made, version, adding, sweeping>>

\* Mutant: getDbVersion returns the version that is in the file.
VersionReadWell == version

\* getDbVersion: getDbParam looks for a column named version in a row that has
\* only prop_value, its callback breaks the query off, and the version is 0.
VersionRead == 0

\* checkDb decides whether to upgrade.
CheckVersion ==
    /\ start = "version"
    /\ start' = IF VersionRead < 1 THEN "messages" ELSE "running"
    /\ UNCHANGED <<tables, made, version, failed, adding, sweeping>>

\* upgradeDb: create table if not exists, for one table and then the next; a
\* failure goes unnoticed.
CreateTable(ok) ==
    /\ start \in Tables
    /\ made' = IF ok THEN made \union {start} ELSE made
    /\ failed' = IF ok THEN failed ELSE failed \union ({start} \ made)
    /\ start' = IF start = "messages" THEN "objects" ELSE "settings"
    /\ UNCHANGED <<tables, version, adding, sweeping>>

\* setDbParam inserts the version, which fails if it is there already or there
\* is no table for it; then the reader is started.
SetVersion(ok) ==
    /\ start = "settings"
    /\ version' = IF ok THEN 1 ELSE version
    /\ start' = "running"
    /\ UNCHANGED <<tables, made, failed, adding, sweeping>>

-----------------------------------------------------------------------------
\* MsgInfo::parseNativeMsg: received now, with n positions.
Parse(n) ==
    /\ Started /\ adder = "idle" /\ received < MaxMessages
    /\ received' = received + 1
    /\ msg' = [text |-> received + 1, age |-> 0, positions |-> n]
    /\ adder' = "message"
    /\ UNCHANGED <<tables, schema, msgID, number, inserted, announced, sweeping>>

\* Mutant: the result is the last rowid whether or not the insert worked.
InsertMessageUnchecked(ok) ==
    /\ adder = "message"
    /\ adder' = "objects"
    /\ IF Works(ok, {"messages"})
       THEN /\ stored' = Insert(stored, [text |-> msg.text, age |-> msg.age])
            /\ lastRowid' = NewRowid(stored)
       ELSE UNCHANGED <<stored, lastRowid>>
    /\ msgID' = lastRowid'
    /\ UNCHANGED <<objects, schema, msg, number, inserted, received, announced,
                   sweeping>>

\* insert into messages; if it fails there are no positions and the result is 0.
InsertMessage(ok) ==
    /\ adder = "message"
    /\ IF Works(ok, {"messages"})
       THEN /\ stored' = Insert(stored, [text |-> msg.text, age |-> msg.age])
            /\ lastRowid' = NewRowid(stored)
            /\ msgID' = lastRowid'
            /\ adder' = "objects"
       ELSE /\ adder' = "announce"
            /\ UNCHANGED <<stored, lastRowid, msgID>>
    /\ UNCHANGED <<objects, schema, msg, number, inserted, received, announced,
                   sweeping>>

\* Mutant: the rowid of the message is read again for every position.
RowidReread == lastRowid

\* The rowid that addMessage read after the first insert.
RowidKept == msgID

\* insert into objects for one position; a failure goes unnoticed.
InsertObject(ok) ==
    /\ adder = "objects" /\ number < msg.positions
    /\ number' = number + 1
    /\ IF Works(ok, {"objects"})
       THEN /\ objects' = Insert(objects, [msg |-> RowidKept, number |-> number,
                                           pos |-> <<msg.text, number>>])
            /\ lastRowid' = NewRowid(objects)
            /\ inserted' = inserted \union {number}
       ELSE UNCHANGED <<objects, lastRowid, inserted>>
    /\ UNCHANGED <<stored, schema, adder, msg, msgID, received, announced,
                   sweeping>>

\* Mutant: the rowid is read when all is stored.
ResultReread == lastRowid

\* What addMessage returns.
Result == msgID

\* processNativeMsg calls back with the result, 0 too.
Announce ==
    /\ \/ adder = "objects" /\ number = msg.positions
       \/ adder = "announce"
    /\ announced' = Append(announced, [id |-> Result, text |-> msg.text,
                                       positions |-> inserted])
    /\ adder' = "idle" /\ msg' = NoMessage
    /\ msgID' = 0 /\ number' = 0 /\ inserted' = {}
    /\ UNCHANGED <<tables, schema, received, sweeping>>

-----------------------------------------------------------------------------
\* doIteration, every EXPIRED_RECS_CHECK_PERIOD; before the first Start there is
\* no database and removeExpiredMessages returns at once.
StartSweep(h) ==
    /\ sweeper = "idle" /\ sinceCheck >= Period
    /\ sinceCheck' = 0 /\ expiry' = h
    /\ sweeper' = IF start = "closed" THEN "idle" ELSE "objects"
    /\ UNCHANGED <<tables, schema, adding>>

\* Mutant: rows are swept as soon as they reach the limit.
ExpiredEarly(r) == stored[r].age >= expiry

Expired(r) == stored[r].age > expiry

\* delete from objects where msg_id in (select id from messages where ...)
SweepObjects(ok) ==
    /\ sweeper = "objects"
    /\ sweeper' = "messages"
    /\ objects' =
        IF Works(ok, Tables)
        THEN Delete(objects, {o \in DOMAIN objects :
                        /\ objects[o].msg \in DOMAIN stored
                        /\ Expired(objects[o].msg)})
        ELSE objects
    /\ UNCHANGED <<stored, lastRowid, schema, expiry, sinceCheck, adding>>

\* The text "delete from messages where (...)>n)" closes one parenthesis more
\* than it opens: SQLite refuses it and nothing is deleted.
SweepMessages ==
    /\ sweeper = "messages"
    /\ sweeper' = "idle"
    /\ UNCHANGED <<tables, schema, expiry, sinceCheck, adding>>

-----------------------------------------------------------------------------
Tick ==
    /\ stored' = [r \in DOMAIN stored |->
                     [stored[r] EXCEPT !.age = Older(@)]]
    /\ msg' = [msg EXCEPT !.age = IF adder = "idle" THEN @ ELSE Older(@)]
    /\ sinceCheck' = IF sinceCheck < Period THEN sinceCheck + 1 ELSE sinceCheck
    /\ UNCHANGED <<objects, lastRowid, schema, adder, msgID, number, inserted,
                   received, announced, sweeper, expiry>>

\* The process ends, by force or in a handler, and starts again: the file is
\* what is left of it.
Restart ==
    /\ start' = "closed" /\ failed' = {}
    /\ adder' = "idle" /\ msg' = NoMessage
    /\ msgID' = 0 /\ number' = 0 /\ inserted' = {}
    /\ lastRowid' = 0
    /\ sweeper' = "idle" /\ sinceCheck' = Period
    /\ UNCHANGED <<stored, objects, made, version, received, announced, expiry>>

Upgrading ==
    \/ \E ok \in BOOLEAN : CreateTable(ok) \/ SetVersion(ok)
    \/ CheckVersion

Adding ==
    \/ \E ok \in BOOLEAN : InsertMessage(ok) \/ InsertObject(ok)
    \/ Announce

Sweeping ==
    \/ \E h \in Expiries : StartSweep(h)
    \/ \E ok \in BOOLEAN : SweepObjects(ok)
    \/ SweepMessages

StoreNext ==
    \/ \E ok \in BOOLEAN : Open(ok)
    \/ \E n \in 0..MaxPositions : Parse(n)
    \/ Upgrading \/ Adding \/ Sweeping \/ Tick \/ Restart

\* The worker loops for ever, statements do not fail for ever and the process
\* does not end in every sweep; time passes.
Fairness ==
    /\ WF_storeVars(Tick) /\ SF_storeVars(SweepMessages)
    /\ SF_storeVars(\E h \in Expiries : StartSweep(h))
    /\ SF_storeVars(SweepObjects(TRUE))

StoreSpec == StoreInit /\ [][StoreNext]_storeVars /\ Fairness

-----------------------------------------------------------------------------
Row == Nat \ {0}

StoreTypeOK ==
    /\ DOMAIN stored \subseteq Row
    /\ \A r \in DOMAIN stored : stored[r] \in [text : Row, age : Nat]
    /\ DOMAIN objects \subseteq Row
    /\ \A o \in DOMAIN objects :
          objects[o] \in [msg : Row, number : Nat, pos : Row \X Nat]
    /\ made \subseteq Tables /\ version \in {0, 1} /\ failed \subseteq Tables
    /\ start \in {"closed", "version", "settings", "running", "broken"}
                  \union Tables
    /\ lastRowid \in Nat
    /\ adder \in {"idle", "message", "objects", "announce"}
    /\ msg \in [text : Nat, age : Nat, positions : Nat]
    /\ msgID \in Nat /\ number \in Nat /\ inserted \subseteq Nat
    /\ received \in Nat
    /\ announced \in Seq([id : Nat, text : Row, positions : SUBSET Nat])
    /\ sweeper \in {"idle", "objects", "messages"}
    /\ expiry \in Expiries /\ sinceCheck \in 0..Period

\* Every row of objects points to the message its position was found in, and
\* carries the place it had there: addMessage reads the rowid before it stores
\* the first position, and the sweep never frees a rowid.
PositionsBelong ==
    \A o \in DOMAIN objects :
        /\ objects[o].msg \in DOMAIN stored
        /\ objects[o].pos = <<stored[objects[o].msg].text, objects[o].number>>

\* A callback with an id other than 0 names the row of the message it is called
\* for, and no later sweep, failure or restart gives the id to another.
AnnouncedIsStored ==
    \A i \in 1..Len(announced) : announced[i].id # 0 =>
        /\ announced[i].id \in DOMAIN stored
        /\ stored[announced[i].id].text = announced[i].text

\* While a message is not expired, every position that was stored with it is
\* there, whatever the worker does meanwhile.
FreshKeepsPositions ==
    \A i \in 1..Len(announced) :
        LET a == announced[i] IN
        (a.id \in DOMAIN stored /\ stored[a.id].age <= MinOf(Expiries)) =>
            \A n \in a.positions : \E o \in DOMAIN objects :
                objects[o].msg = a.id /\ objects[o].number = n

\* While the receiver runs on an open file, a table is missing only if this very
\* Start could not create it: what went wrong in an earlier Start, or was cut
\* off by a crash, is made good by the next, since the version that checkDb
\* reads is 0 whatever an earlier Start has written.
MissingWasTriedNow ==
    start = "running" => Tables \subseteq made \union failed

\* "Expired records check: deleted %d messages, %d objects" (navtex.cpp): an
\* expired message is deleted by some later check.
ExpiredAreDeleted ==
    \A r \in 1..MaxMessages :
        (r \in DOMAIN stored /\ stored[r].age = OldAge) ~>
            r \notin DOMAIN stored
=============================================================================
