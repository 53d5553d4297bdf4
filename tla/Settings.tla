------------------------------ MODULE Settings ------------------------------
(***************************************************************************)
(* settings.cpp: the worker thread sums up the settings file again and     *)
(* again and, if the sum has changed, reads the file once more and assigns *)
(* the fields one by one, while somebody edits the file and the host reads *)
(* the fields in StartNavtexReceiver or switches the log.  No lock is held *)
(* anywhere.                                                               *)
(*                                                                         *)
(* What json::parse makes of a file is a parameter: MCSettings takes it    *)
(* from Json, the model of json_lite.  A file is a text that its own       *)
(* serialize writes, with the meaning of the node it is written from, or   *)
(* an odd one.  load takes the nodes for what it expects, without a look   *)
(* at types.                                                               *)
(*                                                                         *)
(* Files are opened without sharing: a read meets the file as it was left, *)
(* or fails while an editor holds it.  The first pass is made by DllMain   *)
(* (setCfgFile) before the worker thread and the calls of the host.        *)
(*                                                                         *)
(* The numbers of a file fit the fields; a flag, a number and an address   *)
(* are written and read in one step each, the name of the port is a string *)
(* and may be met half written.                                            *)
(***************************************************************************)
EXTENDS Integers, Sequences

CONSTANTS
    Documents,  \* file -> the hash it was written from
    Parsed,     \* file -> the results of json::parse, by the memory behind it
    Empty,      \* the file of no characters
    Missing,    \* no file, or an editor holds it
    Sum,        \* the sum of the characters of a file
    Default,    \* field -> its value without a key
    Misread,    \* field -> what memory that is not a value of it gives
    Addresses,  \* the literals inet_addr can read
    None        \* no content

Written == DOMAIN Documents
Files == DOMAIN Parsed \union {Missing}

\* The fields in the order of their assignment.
Order == <<"useSerial", "serialPort", "baud", "byteSize", "parity", "stopBits",
           "forward", "inPort", "outPort", "useNativeProtocol", "expiryHours",
           "bindAddr">>

Field == {Order[i] : i \in DOMAIN Order}

Key == [useSerial |-> "com_mode", serialPort |-> "serial_port",
        baud |-> "baud_rate", byteSize |-> "byte_size", parity |-> "parity",
        stopBits |-> "stop_bits", forward |-> "forward", inPort |-> "udp_in",
        outPort |-> "udp_out", useNativeProtocol |-> "native_protocol",
        expiryHours |-> "expiry_hours", bindAddr |-> "udp_bind"]

Type == [f \in Field |->
    CASE f \in {"useSerial", "forward", "useNativeProtocol"} -> "boolean"
      [] f \in {"serialPort", "parity", "stopBits", "bindAddr"} -> "literal"
      [] f \in {"baud", "byteSize", "inPort", "outPort", "expiryHours"} -> "number"]

\* The fields the constructor leaves as the memory was.
Unset == {"forward", "expiryHours"}

\* The fields StartNavtexReceiver looks at, in its order.
StartReads == <<"serialPort", "baud", "byteSize", "parity", "stopBits",
                "inPort", "outPort", "bindAddr", "useSerial">>

ASSUME FileAssumption ==
    /\ Written \subseteq DOMAIN Parsed \ {Empty} /\ Empty \in DOMAIN Parsed
    /\ Missing \notin DOMAIN Parsed

ASSUME SumAssumption ==
    /\ \A f \in Files \ {Empty, Missing} : Sum[f] \in Nat \ {0}
    /\ Sum[Missing] = 0

ASSUME MarkerAssumption == None \notin Files

ASSUME DefaultAssumption == DOMAIN Default = Field

\* An empty hash is not written as it should be.
ASSUME DocumentAssumption ==
    \A f \in Written : Documents[f].t = "{" /\ DOMAIN Documents[f].v # {}

VARIABLES
    file,       \* what is on the disk
    crc,        \* the sum of the file that was loaded last
    fields,     \* the fields of Settings
    worker,     \* where the thread is in loadIfChanged
    read,       \* the file that load has read, and its hash
    step,       \* the field that load assigns next
    logger,     \* whether there is a logger
    host,       \* the next read of StartNavtexReceiver, one more when all are
                \* made; 0: the host is idle; -1: it is still in DllMain
    used,       \* history: the values StartNavtexReceiver has read, forgotten
                \* at an overlap
    alive,      \* FALSE once the process is brought down
    source,     \* history: the file the fields were loaded from
    raced,      \* history: the file changed between the two reads of a pass
    overlap     \* history: fields were assigned while Start read them

vars == <<file, crc, fields, worker, read, step, logger, host, used, alive,
          source, raced, overlap>>

workerVars == <<crc, fields, worker, read, step, alive, source>>

hostVars == <<logger, host, used>>

-----------------------------------------------------------------------------
Has(hash, f) == Key[f] \in DOMAIN hash

Typed(hash, f) == hash[Key[f]].t = Type[f]

Parities == [None |-> 0, Odd |-> 1, Even |-> 2, Mark |-> 3, Space |-> 4]

StopBits == [s \in {"1", "1.5", "2"} |->
    CASE s = "1" -> 0 [] s = "1.5" -> 1 [] s = "2" -> 2]

\* A word that the map does not have gets the value of its first key.
mapStr2Num(map, first, str) == map[IF str \in DOMAIN map THEN str ELSE first]

\* What a field makes of the value of its node; the hours are kept in a bool.
Converted(f, v) ==
    CASE f = "expiryHours" -> IF v = 0 THEN 0 ELSE 1
      [] f = "parity" -> mapStr2Num(Parities, "Even", v)
      [] f = "stopBits" -> mapStr2Num(StopBits, "1", v)
      [] f = "bindAddr" -> IF v \in Addresses THEN v ELSE "INADDR_NONE"
      [] OTHER -> v

\* The values field f may get from a hash.
Values(hash, f) ==
    IF ~Has(hash, f) THEN {Default[f]}
    ELSE IF ~Typed(hash, f) THEN Misread[f]
    ELSE {Converted(f, hash[Key[f]].v)}

\* The string for field f is behind any pointer: the node is not one of a
\* string, or there is none and the port is assigned a null pointer.
BadString(hash, f) ==
    /\ Type[f] = "literal"
    /\ IF Has(hash, f) THEN ~Typed(hash, f) ELSE f = "serialPort"

Init ==
    /\ file \in Files
    /\ crc = 0
    /\ \E h \in Misread["expiryHours"], b \in Misread["forward"] :
          fields = [Default EXCEPT !["expiryHours"] = h, !["forward"] = b]
    /\ worker = "first"
    /\ read = None
    /\ step = 1
    /\ logger = TRUE
    /\ host = -1
    /\ used = <<>>
    /\ alive = TRUE
    /\ source = None
    /\ raced = FALSE
    /\ overlap = FALSE

\* Somebody saves, removes or opens the file.
Edit(f) ==
    /\ f # file
    /\ file' = f
    /\ raced' = (raced \/ worker \in {"log", "load"})
    /\ UNCHANGED <<workerVars, hostVars, overlap>>

\* calcCrc of no characters runs past the end of the string.
CheckEmpty ==
    /\ worker \in {"first", "loop"} /\ file = Empty
    /\ alive' = FALSE
    /\ UNCHANGED <<file, crc, fields, worker, read, step, source, raced,
                   overlap, hostVars>>

\* calcCrc, and the sum is the old one.
CheckSame ==
    /\ worker \in {"first", "loop"} /\ file # Empty /\ Sum[file] = crc
    /\ worker' = "loop"
    /\ UNCHANGED <<file, crc, fields, read, step, alive, source, raced,
                   overlap, hostVars>>

\* Mutant: only a larger sum counts as a change.
CheckChangedLarger ==
    /\ worker \in {"first", "loop"} /\ file # Empty /\ Sum[file] > crc
    /\ crc' = Sum[file]
    /\ worker' = IF logger THEN "log" ELSE "load"
    /\ raced' = FALSE
    /\ UNCHANGED <<file, fields, read, step, alive, source, overlap, hostVars>>

\* calcCrc, and the sum has changed; only this thread looks at crc.
CheckChanged ==
    /\ worker \in {"first", "loop"} /\ file # Empty /\ Sum[file] # crc
    /\ crc' = Sum[file]
    /\ worker' = IF logger THEN "log" ELSE "load"
    /\ raced' = FALSE
    /\ UNCHANGED <<file, fields, read, step, alive, source, overlap, hostVars>>

\* logger was there when it was tested; if it is gone, the build decides
\* whether it is read again.
Log ==
    /\ worker = "log"
    /\ worker' = "load"
    /\ alive' \in {logger, TRUE}
    /\ UNCHANGED <<file, crc, fields, read, step, source, raced, overlap,
                   hostVars>>

\* load finds no file and leaves the fields alone; the sum stays.
LoadNothing ==
    /\ worker = "load" /\ file = Missing
    /\ worker' = "loop"
    /\ UNCHANGED <<file, crc, fields, read, step, alive, source, raced,
                   overlap, hostVars>>

\* parse returns null, which load compares with json::nothing only, or a node
\* that is no hash and is taken for one.
LoadBroken ==
    /\ worker = "load" /\ file # Missing
    /\ \E p \in Parsed[file] : p.ok => p.node.t # "{"
    /\ alive' = FALSE
    /\ UNCHANGED <<file, crc, fields, worker, read, step, source, raced,
                   overlap, hostVars>>

\* Mutant: a content that was loaded once is kept.
LoadContentCached ==
    LET f == IF source = None THEN file ELSE source IN
    /\ worker = "load" /\ file # Missing
    /\ \E p \in Parsed[f] :
          /\ p.ok /\ p.node.t = "{"
          /\ read' = [file |-> f, hash |-> p.node.v]
    /\ worker' = "assign"
    /\ UNCHANGED <<file, crc, fields, step, alive, source, raced, overlap,
                   hostVars>>

\* load reads the file again and parses it.
LoadContent ==
    /\ worker = "load" /\ file # Missing
    /\ \E p \in Parsed[file] :
          /\ p.ok /\ p.node.t = "{"
          /\ read' = [file |-> file, hash |-> p.node.v]
    /\ worker' = "assign"
    /\ UNCHANGED <<file, crc, fields, step, alive, source, raced, overlap,
                   hostVars>>

\* The step to the next field, or the end of load, which deletes the hash.
Advance ==
    /\ overlap' = (overlap \/ host > 0)
    /\ used' = IF overlap' THEN <<>> ELSE used
    /\ IF step < Len(Order)
       THEN step' = step + 1 /\ UNCHANGED <<worker, read, source>>
       ELSE step' = 1 /\ worker' = "loop" /\ read' = None /\ source' = read.file
    /\ UNCHANGED <<file, crc, alive, raced, logger, host>>

\* Mutant: a key that is not there leaves the field as it is.
AssignKept ==
    LET f == Order[step] IN
    /\ worker = "assign"
    /\ \E v \in IF Has(read.hash, f) THEN Values(read.hash, f) ELSE {fields[f]} :
          fields' = [fields EXCEPT ![f] = v]
    /\ Advance

\* One field is assigned.
Assign ==
    LET f == Order[step] IN
    /\ worker = "assign"
    /\ f = "serialPort" => Has(read.hash, f)
    /\ \E v \in Values(read.hash, f) : fields' = [fields EXCEPT ![f] = v]
    /\ Advance

\* The string is looked for where there is none.
AssignBadString ==
    /\ worker = "assign" /\ BadString(read.hash, Order[step])
    /\ alive' = FALSE
    /\ UNCHANGED <<file, crc, fields, worker, read, step, source, raced,
                   overlap, hostVars>>

WorkerStep ==
    /\ alive
    /\ \/ CheckEmpty \/ CheckSame \/ CheckChanged \/ Log
       \/ LoadNothing \/ LoadBroken \/ LoadContent
       \/ Assign \/ AssignBadString

\* DllMain returns: the first pass is over and the worker thread runs.
Attached ==
    /\ alive /\ host = -1 /\ worker = "loop"
    /\ host' = 0
    /\ UNCHANGED <<file, raced, overlap, logger, used, workerVars>>

\* StartNavtexReceiver begins; fields may just be in the middle of a load.
Start ==
    /\ alive /\ host = 0
    /\ host' = 1
    /\ overlap' = (worker = "assign")
    /\ UNCHANGED <<file, raced, logger, used, workerVars>>

\* The port is about to be read while the worker thread assigns it.
Torn ==
    /\ host = 1
    /\ worker = "assign" /\ Order[step] = "serialPort"

\* configureChannel, configureChannel, setConnectionType.
ReadField ==
    /\ alive /\ host \in DOMAIN StartReads
    /\ used' = IF overlap THEN <<>> ELSE Append(used, fields[StartReads[host]])
    /\ host' = host + 1
    /\ UNCHANGED <<file, raced, overlap, logger, workerVars>>

\* The characters of a port that is half written may be anywhere.
ReadTorn ==
    /\ alive /\ Torn
    /\ alive' = FALSE
    /\ UNCHANGED <<file, crc, fields, worker, read, step, source, raced,
                   overlap, hostVars>>

\* StartNavtexReceiver connects and activates the channel with what it has read.
Activate ==
    /\ alive /\ host > Len(StartReads)
    /\ host' = 0
    /\ used' = <<>>
    /\ overlap' = FALSE
    /\ UNCHANGED <<file, raced, logger, workerVars>>

\* StartLog and StopLog.
SwitchLog ==
    /\ alive /\ host = 0
    /\ logger' = ~logger
    /\ UNCHANGED <<file, raced, overlap, host, used, workerVars>>

Next ==
    \/ \E f \in Files : alive /\ Edit(f)
    \/ WorkerStep
    \/ Attached \/ Start \/ ReadField \/ ReadTorn \/ Activate
    \/ SwitchLog

Spec == Init /\ [][Next]_vars /\ WF_vars(WorkerStep)

-----------------------------------------------------------------------------
\* If the file did not change between the two reads of a pass, a file with the
\* sum that was kept has been loaded: the sum is never ahead of the fields.
FieldsAreOfSum ==
    (worker = "loop" /\ ~raced /\ file \in Written /\ crc = Sum[file]) =>
        source # None /\ Sum[source] = crc

\* A file that serialize has written is read as it was meant: parse gives the
\* hash it was written from, and once it is loaded every field has the value of
\* its key, or the default.
ReadAsMeant ==
    /\ (worker = "assign" /\ read.file \in Written) =>
          read.hash = Documents[read.file].v
    /\ (worker = "loop" /\ source \in Written) =>
          \A f \in Field : fields[f] \in Values(Documents[source].v, f)

NoKeys == [k \in {} |-> 0]

\* What is there to be loaded: the defaults and every hash that a text may be
\* parsed to.
Versions ==
    {NoKeys} \union {p.node.v : p \in {q \in UNION {Parsed[f] : f \in DOMAIN Parsed} :
                                     q.ok /\ q.node.t = "{"}}

\* What StartNavtexReceiver configures the channel with is of one version of
\* the file, or the defaults, unless fields were assigned meanwhile.
StartUsesOneVersion ==
    ~overlap => \E c \in Versions :
        \A i \in DOMAIN used : used[i] \in Values(c, StartReads[i])

\* The process comes down over its settings only from a file that serialize
\* would not write, from one without a port or with something else in the place
\* of a string (settings.cpp:55-67), because the log was stopped between the
\* test of logger and its use, or because the port was read while it was
\* assigned.
FaultHasCause ==
    ~alive => \/ worker \in {"first", "loop"} /\ file = Empty
              \/ worker = "load" /\ file \notin Written
              \/ worker = "load" /\ ~logger
              \/ worker = "assign" /\ BadString(read.hash, Order[step])
              \/ Torn

\* A file that stays is loaded in the end, or one with its sum, and nothing
\* else is loaded after it, whatever was loaded before: unless the process came
\* down, or the file was saved between the two reads of the very pass that
\* noted its sum.
EventuallyLoaded ==
    \A c \in Written :
        <>[](file = c) =>
            <>[](\/ ~alive
                 \/ raced /\ crc = Sum[c]
                 \/ source # None /\ Sum[source] = Sum[c])
=============================================================================
