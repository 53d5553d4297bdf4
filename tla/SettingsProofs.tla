--------------------------- MODULE SettingsProofs ---------------------------
(***************************************************************************)
(* Theorems of Settings, for every set of files, whatever json::parse makes*)
(* of them.  The invariants: SumInv, where the sum that was kept comes     *)
(* from; VersionInv, which version of the file the fields and what a start *)
(* has read agree with; MeantInv, that a file of serialize is loaded as    *)
(* it was meant, if parse undoes serialize (ReadsBack).                    *)
(***************************************************************************)
EXTENDS Settings, TLAPS

\* Every value a field may have, the garbage of the constructor included.
Loaded == UNION {Values(c, f) : c \in Versions, f \in Field}

Value == Loaded \union UNION {Misread[f] : f \in Field}

TypeOK ==
    /\ file \in Files
    /\ fields \in [Field -> Value]
    /\ worker \in {"first", "loop", "log", "load", "assign"}
    /\ worker = "assign" => read.file \in DOMAIN Parsed /\ read.hash \in Versions
    /\ step \in 1 .. 12
    /\ worker # "assign" => step = 1
    /\ host \in -1 .. 10
    /\ used \in Seq(Value)
    /\ source \in DOMAIN Parsed \union {None}
    /\ overlap \in BOOLEAN

-----------------------------------------------------------------------------
\* The orders name fields, each once, and a start looks at none that the
\* constructor leaves alone.
LEMMA OrderFacts ==
    /\ Order \in [1 .. 12 -> Field] /\ Len(Order) = 12
    /\ \A i, j \in 1 .. 12 : Order[i] = Order[j] => i = j
    /\ \A f \in Field : \E i \in 1 .. 12 : f = Order[i]
    /\ StartReads \in [1 .. 9 -> Field \ Unset] /\ Len(StartReads) = 9
    /\ Unset = {"expiryHours", "forward"} /\ Unset \subseteq Field
<1>1. Len(Order) = 12 /\ DOMAIN Order = 1 .. 12
  BY DEF Order
<1>2. /\ Order[1] = "useSerial" /\ Order[2] = "serialPort" /\ Order[3] = "baud"
      /\ Order[4] = "byteSize" /\ Order[5] = "parity" /\ Order[6] = "stopBits"
      /\ Order[7] = "forward" /\ Order[8] = "inPort" /\ Order[9] = "outPort"
      /\ Order[10] = "useNativeProtocol" /\ Order[11] = "expiryHours" /\ Order[12] = "bindAddr"
  BY DEF Order
<1>3. \A i \in 1 .. 12 : \/ i = 1 \/ i = 2 \/ i = 3 \/ i = 4 \/ i = 5 \/ i = 6
                        \/ i = 7 \/ i = 8 \/ i = 9 \/ i = 10 \/ i = 11 \/ i = 12
  OBVIOUS
<1>4. \A i \in 1 .. 12 : Order[i] \in Field
  BY <1>1 DEF Field
<1>5. \A f \in Field : \E i \in 1 .. 12 : f = Order[i]
  BY <1>1 DEF Field
<1>6. \A i, j \in 1 .. 12 : Order[i] = Order[j] => i = j
  BY <1>2, <1>3
<1>7. Order \in [1 .. 12 -> Field]
  <2>1. Order = [i \in 1 .. 12 |-> Order[i]]
    BY DEF Order
  <2>. QED  BY <2>1, <1>4
<1>8. Unset = {"expiryHours", "forward"} /\ Unset \subseteq Field
  <2>1. Order[7] \in Field /\ Order[11] \in Field
    BY <1>4
  <2>. QED  BY <2>1, <1>2 DEF Unset
<1>9. StartReads \in [1 .. 9 -> Field \ Unset] /\ Len(StartReads) = 9
  <2>1. Len(StartReads) = 9 /\ StartReads = [i \in 1 .. 9 |-> StartReads[i]]
    BY DEF StartReads
  <2>2. /\ StartReads[1] = "serialPort" /\ StartReads[2] = "baud" /\ StartReads[3] = "byteSize"
        /\ StartReads[4] = "parity" /\ StartReads[5] = "stopBits" /\ StartReads[6] = "inPort"
        /\ StartReads[7] = "outPort" /\ StartReads[8] = "bindAddr" /\ StartReads[9] = "useSerial"
    BY DEF StartReads
  <2>3. \A i \in 1 .. 9 : \/ i = 1 \/ i = 2 \/ i = 3 \/ i = 4 \/ i = 5
                         \/ i = 6 \/ i = 7 \/ i = 8 \/ i = 9
    OBVIOUS
  <2>4. \A k \in 1 .. 12 : k \notin {7, 11} => Order[k] \in Field \ Unset
    BY <1>2, <1>4, <1>6, <1>8
  <2>5. /\ StartReads[1] = Order[2] /\ StartReads[2] = Order[3] /\ StartReads[3] = Order[4]
        /\ StartReads[4] = Order[5] /\ StartReads[5] = Order[6] /\ StartReads[6] = Order[8]
        /\ StartReads[7] = Order[9] /\ StartReads[8] = Order[12] /\ StartReads[9] = Order[1]
    BY <1>2, <2>2
  <2>6. \A i \in 1 .. 9 : StartReads[i] \in Field \ Unset
    BY <2>3, <2>4, <2>5
  <2>. QED  BY <2>1, <2>6
<1>. QED  BY <1>1, <1>5, <1>6, <1>7, <1>8, <1>9

\* A field of a version of the file gets a value.
LEMMA ValuesAreValues ==
    ASSUME NEW c \in Versions, NEW f \in Field
    PROVE  Values(c, f) \subseteq Value
BY DEF Value, Loaded

\* Where nothing is loaded the fields have their defaults.
LEMMA DefaultIsValue ==
    ASSUME NEW f \in Field
    PROVE  Values(NoKeys, f) = {Default[f]} /\ NoKeys \in Versions
BY DEF Values, Has, NoKeys, Versions

\* A hash that parse gives is a version of the file.
LEMMA ParsedIsVersion ==
    ASSUME NEW f \in DOMAIN Parsed, NEW p \in Parsed[f], p.ok, p.node.t = "{"
    PROVE  p.node.v \in Versions
BY DEF Versions

-----------------------------------------------------------------------------
\* What Advance does to the worker.
LEMMA AdvanceFacts ==
    ASSUME TypeOK, worker = "assign", Advance
    PROVE  /\ step' \in 1 .. 12
           /\ \/ step < 12 /\ step' = step + 1 /\ worker' = "assign" /\ source' = source
                 /\ read' = read
              \/ step = 12 /\ step' = 1 /\ worker' = "loop" /\ source' = read.file
BY OrderFacts DEF TypeOK, Advance

LEMMA InitTypeOK == Init => TypeOK
<1> SUFFICES ASSUME Init PROVE TypeOK
  OBVIOUS
<1>1. PICK h \in Misread["expiryHours"], b \in Misread["forward"] :
          fields = [Default EXCEPT !["expiryHours"] = h, !["forward"] = b]
  BY DEF Init
<1>2. \A f \in Field : Default[f] \in Value
  BY DefaultIsValue, ValuesAreValues
<1>3. h \in Value /\ b \in Value
  BY OrderFacts DEF Value
<1>4. fields \in [Field -> Value]
  BY <1>1, <1>2, <1>3, DefaultAssumption
<1>5. used \in Seq(Value) /\ host \in -1 .. 10 /\ step \in 1 .. 12
  BY DEF Init
<1>. QED  BY <1>4, <1>5 DEF Init, TypeOK

LEMMA NextTypeOK == TypeOK /\ [Next]_vars => TypeOK'
<1> SUFFICES ASSUME TypeOK, [Next]_vars PROVE TypeOK'
  OBVIOUS
<1>. USE DEF TypeOK
<1>1. ASSUME NEW f \in Files, alive, Edit(f) PROVE TypeOK'
  BY <1>1 DEF Edit, workerVars, hostVars
<1>2. CASE CheckEmpty
  BY <1>2 DEF CheckEmpty, hostVars
<1>3. CASE CheckSame
  BY <1>3 DEF CheckSame, hostVars
<1>4. CASE CheckChanged
  BY <1>4 DEF CheckChanged, hostVars
<1>5. CASE Log
  BY <1>5 DEF Log, hostVars
<1>6. CASE LoadNothing
  BY <1>6 DEF LoadNothing, hostVars
<1>7. CASE LoadBroken
  BY <1>7 DEF LoadBroken, hostVars
<1>8. CASE LoadContent
  <2>1. file \in DOMAIN Parsed
    BY <1>8 DEF LoadContent, Files
  <2>2. PICK p \in Parsed[file] : p.ok /\ p.node.t = "{" /\
            read' = [file |-> file, hash |-> p.node.v]
    BY <1>8 DEF LoadContent
  <2>3. p.node.v \in Versions
    BY <2>1, <2>2, ParsedIsVersion
  <2>4. read'.file = file /\ read'.hash = p.node.v
    BY <2>2
  <2>5. UNCHANGED <<file, fields, source, overlap, host, used, step>>
        /\ worker' = "assign"
    BY <1>8 DEF LoadContent, hostVars
  <2>. QED  BY <2>1, <2>3, <2>4, <2>5
<1>9. CASE Assign
  <2>1. PICK v \in Values(read.hash, Order[step]) :
            fields' = [fields EXCEPT ![Order[step]] = v]
    BY <1>9 DEF Assign
  <2>2. v \in Value
    BY <1>9, <2>1, OrderFacts, ValuesAreValues DEF Assign
  <2>3. fields' \in [Field -> Value]
    BY <2>1, <2>2
  <2>4. worker = "assign" /\ Advance
    BY <1>9 DEF Assign
  <2>5. file' = file /\ host' = host /\ overlap' \in BOOLEAN
    BY <2>4 DEF Advance
  <2>6. used' \in Seq(Value)
    <3>1. used' = used \/ used' = <<>>
      BY <2>4 DEF Advance
    <3>2. used \in Seq(Value) /\ <<>> \in Seq(Value)
      BY DEF TypeOK
    <3>. QED  BY <3>1, <3>2
  <2>. QED  BY <2>3, <2>4, <2>5, <2>6, AdvanceFacts
<1>10. CASE AssignBadString
  BY <1>10 DEF AssignBadString, hostVars
<1>11. CASE Attached
  BY <1>11 DEF Attached, workerVars
<1>12. CASE Start
  BY <1>12 DEF Start, workerVars
<1>13. CASE ReadField
  <2>1. host \in 1 .. 9 /\ StartReads[host] \in Field
    BY <1>13, OrderFacts DEF ReadField
  <2>2. used' = <<>> \/ used' = Append(used, fields[StartReads[host]])
    BY <1>13 DEF ReadField
  <2>3. fields[StartReads[host]] \in Value
    BY <2>1
  <2>4. used' \in Seq(Value) /\ host' \in -1 .. 10
    BY <1>13, <2>1, <2>2, <2>3 DEF ReadField
  <2>. QED  BY <1>13, <2>4 DEF ReadField, workerVars
<1>14. CASE ReadTorn
  BY <1>14 DEF ReadTorn, hostVars
<1>15. CASE Activate
  <2>1. /\ host' = 0 /\ used' = <<>> /\ overlap' = FALSE
        /\ UNCHANGED <<file, fields, worker, read, step, source>>
    BY <1>15 DEF Activate, workerVars
  <2>2. used' \in Seq(Value) /\ host' \in -1 .. 10
    BY <2>1
  <2>. QED  BY <2>1, <2>2
<1>16. CASE SwitchLog
  BY <1>16 DEF SwitchLog, workerVars
<1>17. CASE UNCHANGED vars
  BY <1>17 DEF vars
<1>. QED
  BY <1>1, <1>2, <1>3, <1>4, <1>5, <1>6, <1>7, <1>8, <1>9, <1>10, <1>11, <1>12,
     <1>13, <1>14, <1>15, <1>16, <1>17 DEF Next, WorkerStep

\* The variables keep their types.
THEOREM TypeCorrect == Spec => []TypeOK
<1>1. Init => TypeOK
  BY InitTypeOK
<1>2. TypeOK /\ [Next]_vars => TypeOK'
  BY NextTypeOK
<1>. QED  BY <1>1, <1>2, PTL DEF Spec

-----------------------------------------------------------------------------
\* The sum belongs to the file that is read as long as no edit came between:
\* once it is noted, then of the file just read, then of the file the fields
\* are from.  The sum 0 is that of a file nobody could read.
SumInv ==
    ~raced =>
        /\ worker = "first" => crc = 0
        /\ worker \in {"log", "load"} => crc = Sum[file]
        /\ worker = "assign" => crc = Sum[read.file]
        /\ worker = "loop" /\ crc # 0 => source # None /\ Sum[source] = crc

LEMMA InitSumInv == Init => SumInv
BY DEF Init, SumInv

LEMMA NextSumInv == TypeOK /\ SumInv /\ [Next]_vars => SumInv'
<1> SUFFICES ASSUME TypeOK, SumInv, [Next]_vars PROVE SumInv'
  OBVIOUS
<1>. USE DEF SumInv
<1>1. ASSUME NEW f \in Files, alive, Edit(f) PROVE SumInv'
  BY <1>1 DEF Edit, workerVars, TypeOK
<1>2. CASE CheckEmpty
  BY <1>2 DEF CheckEmpty
<1>3. CASE CheckSame
  BY <1>3 DEF CheckSame
<1>4. CASE CheckChanged
  BY <1>4 DEF CheckChanged
<1>5. CASE Log
  BY <1>5 DEF Log
<1>6. CASE LoadNothing
  BY <1>6, SumAssumption DEF LoadNothing
<1>7. CASE LoadBroken
  BY <1>7 DEF LoadBroken
<1>8. CASE LoadContent
  <2>1. PICK p \in Parsed[file] : read' = [file |-> file, hash |-> p.node.v]
    BY <1>8 DEF LoadContent
  <2>2. read'.file = file
    BY <2>1
  <2>3. worker = "load" /\ worker' = "assign" /\ UNCHANGED <<crc, raced>>
    BY <1>8 DEF LoadContent
  <2>. QED  BY <2>2, <2>3
<1>9. CASE Assign
  <2>1. worker = "assign" /\ Advance
    BY <1>9 DEF Assign
  <2>2. raced' = raced /\ crc' = crc
    BY <2>1 DEF Advance
  <2>3. read.file # None
    BY <2>1, MarkerAssumption DEF TypeOK, Files
  <2>. QED  BY <2>1, <2>2, <2>3, AdvanceFacts
<1>10. CASE AssignBadString
  BY <1>10 DEF AssignBadString
<1>11. CASE Attached
  BY <1>11 DEF Attached, workerVars
<1>12. CASE Start
  BY <1>12 DEF Start, workerVars
<1>13. CASE ReadField
  BY <1>13 DEF ReadField, workerVars
<1>14. CASE ReadTorn
  BY <1>14 DEF ReadTorn
<1>15. CASE Activate
  BY <1>15 DEF Activate, workerVars
<1>16. CASE SwitchLog
  BY <1>16 DEF SwitchLog, workerVars
<1>17. CASE UNCHANGED vars
  BY <1>17 DEF vars
<1>. QED
  BY <1>1, <1>2, <1>3, <1>4, <1>5, <1>6, <1>7, <1>8, <1>9, <1>10, <1>11, <1>12,
     <1>13, <1>14, <1>15, <1>16, <1>17 DEF Next, WorkerStep

\* A pass between whose two reads nobody touched the file leaves the fields of
\* a file with the sum that was noted, however the passes, the edits and the
\* host interleave.
THEOREM SumOfFields == Spec => []FieldsAreOfSum
<1>1. Init => TypeOK /\ SumInv
  BY InitTypeOK, InitSumInv
<1>2. TypeOK /\ SumInv /\ [Next]_vars => (TypeOK /\ SumInv)'
  BY NextTypeOK, NextSumInv
<1>3. TypeOK /\ SumInv => FieldsAreOfSum
  <2> SUFFICES ASSUME SumInv, worker = "loop", ~raced, file \in Written, crc = Sum[file]
               PROVE  source # None /\ Sum[source] = crc
    BY DEF FieldsAreOfSum
  <2>1. crc # 0
    BY SumAssumption, FileAssumption DEF Files
  <2>. QED  BY <2>1 DEF SumInv
<1>. QED  BY <1>1, <1>2, <1>3, PTL DEF Spec

-----------------------------------------------------------------------------
\* fields look at f as version c of the file has it.
Agrees(c, f) == fields[f] \in Values(c, f)

\* While the fields are not being assigned, those that a start looks at are of
\* one version; those assigned so far are of the version being loaded; and what
\* a start has read is still so as long as nothing was assigned meanwhile.
VersionInv ==
    /\ step = 1 =>
          \E c \in Versions : \A i \in 1 .. 9 : Agrees(c, StartReads[i])
    /\ worker = "assign" => \A i \in 1 .. step - 1 : Agrees(read.hash, Order[i])
    /\ host <= 0 => used = <<>>
    /\ host > 0 /\ ~overlap =>
          /\ step = 1
          /\ DOMAIN used = 1 .. host - 1
          /\ \A i \in DOMAIN used : used[i] = fields[StartReads[i]]

\* Steps that leave the fields and what the host has read alone.
LEMMA QuietVersion ==
    ASSUME TypeOK, VersionInv, StartUsesOneVersion,
           UNCHANGED <<fields, host, used, overlap>>,
           \/ UNCHANGED <<worker, read, step>>
           \/ worker # "assign" /\ UNCHANGED step
    PROVE  VersionInv' /\ StartUsesOneVersion'
<1>1. StartUsesOneVersion'
  BY DEF StartUsesOneVersion
<1>2. CASE UNCHANGED <<worker, read, step>>
  BY <1>1, <1>2 DEF VersionInv, Agrees
<1>3. CASE worker # "assign" /\ UNCHANGED step
  <2>1. step = 1 /\ 1 .. step' - 1 = {}
    BY <1>3 DEF TypeOK
  <2>. QED  BY <1>1, <1>3, <2>1 DEF VersionInv, Agrees
<1>. QED  BY <1>2, <1>3

LEMMA InitVersion == Init => VersionInv /\ StartUsesOneVersion
<1> SUFFICES ASSUME Init PROVE VersionInv /\ StartUsesOneVersion
  OBVIOUS
<1>1. PICK h \in Misread["expiryHours"], b \in Misread["forward"] :
          fields = [Default EXCEPT !["expiryHours"] = h, !["forward"] = b]
  BY DEF Init
<1>2. \A i \in 1 .. 9 : StartReads[i] \in Field \ {"expiryHours", "forward"}
  BY OrderFacts
<1>3. \A i \in 1 .. 9 : fields[StartReads[i]] = Default[StartReads[i]]
  BY <1>1, <1>2, DefaultAssumption
<1>4. NoKeys \in Versions /\ \A i \in 1 .. 9 : Agrees(NoKeys, StartReads[i])
  BY <1>2, <1>3, DefaultIsValue DEF Agrees, Versions
<1>5. worker = "first" /\ step = 1 /\ host = -1 /\ used = <<>>
  BY DEF Init
<1>6. VersionInv
  BY <1>4, <1>5 DEF VersionInv
<1>7. StartUsesOneVersion
  BY <1>4, <1>5 DEF StartUsesOneVersion
<1>. QED  BY <1>6, <1>7

\* The fields assigned so far, with the one just assigned, are of the version
\* that is being loaded.
LEMMA AssignAgrees ==
    ASSUME TypeOK, VersionInv, Assign
    PROVE  \A i \in 1 .. step : fields'[Order[i]] \in Values(read.hash, Order[i])
<1>1. worker = "assign" /\ Advance
  BY DEF Assign
<1>2. PICK v \in Values(read.hash, Order[step]) :
          fields' = [fields EXCEPT ![Order[step]] = v]
  BY DEF Assign
<1>3. step \in 1 .. 12 /\ fields \in [Field -> Value]
  BY DEF TypeOK
<1> TAKE i \in 1 .. step
<1>4. i \in 1 .. 12
  BY <1>3
<1>5. CASE i = step
  BY <1>2, <1>3, <1>5, OrderFacts
<1>6. CASE i # step
  <2>1. Order[i] # Order[step] /\ Order[i] \in Field
    BY <1>3, <1>4, <1>6, OrderFacts
  <2>2. fields'[Order[i]] = fields[Order[i]]
    BY <1>2, <1>3, <2>1
  <2>3. Agrees(read.hash, Order[i])
    BY <1>1, <1>3, <1>6 DEF VersionInv
  <2>. QED  BY <2>2, <2>3 DEF Agrees
<1>. QED  BY <1>5, <1>6

LEMMA AssignVersion ==
    ASSUME TypeOK, VersionInv, StartUsesOneVersion, Assign
    PROVE  VersionInv' /\ StartUsesOneVersion'
<1>1. worker = "assign" /\ Advance
  BY DEF Assign
<1>2. \/ step < 12 /\ step' = step + 1 /\ worker' = "assign" /\ read' = read
      \/ step = 12 /\ step' = 1 /\ worker' = "loop"
  BY <1>1, AdvanceFacts
<1>3. /\ host' = host /\ overlap' = (overlap \/ host > 0)
      /\ used' = IF overlap' THEN <<>> ELSE used
  BY <1>1 DEF Advance
<1>4. step \in 1 .. 12 /\ read.hash \in Versions
  BY <1>1 DEF TypeOK
<1>5. \A i \in 1 .. step : fields'[Order[i]] \in Values(read.hash, Order[i])
  BY AssignAgrees
<1>6. ASSUME step = 12
      PROVE  \A i \in 1 .. 9 :
                 fields'[StartReads[i]] \in Values(read.hash, StartReads[i])
  <2> TAKE i \in 1 .. 9
  <2>1. StartReads[i] \in Field
    BY OrderFacts
  <2>2. PICK j \in 1 .. 12 : StartReads[i] = Order[j]
    BY <2>1, OrderFacts
  <2>. QED  BY <1>5, <1>6, <2>2
<1>7. step' = 1 => \E c \in Versions : \A i \in 1 .. 9 : Agrees(c, StartReads[i])'
  BY <1>2, <1>4, <1>6 DEF Agrees
<1>8. worker' = "assign" => \A i \in 1 .. step' - 1 : Agrees(read.hash, Order[i])'
  BY <1>2, <1>4, <1>5 DEF Agrees
<1>9. ~(host' > 0 /\ ~overlap')
  BY <1>3
<1>10. VersionInv'
  BY <1>3, <1>7, <1>8, <1>9 DEF VersionInv
<1>11. StartUsesOneVersion'
  BY <1>3 DEF StartUsesOneVersion, TypeOK
<1>. QED  BY <1>10, <1>11

LEMMA StartVersion ==
    ASSUME TypeOK, VersionInv, Start
    PROVE  VersionInv' /\ StartUsesOneVersion'
<1>1. /\ host' = 1 /\ used' = used /\ overlap' = (worker = "assign")
      /\ UNCHANGED <<fields, worker, read, step>>
  BY DEF Start, workerVars
<1>2. used = <<>>
  BY DEF Start, VersionInv
<1>3. DOMAIN used' = 1 .. host' - 1 /\ DOMAIN used' = {}
  BY <1>1, <1>2
<1>4. ~overlap' => step' = 1
  BY <1>1 DEF TypeOK
<1>5. VersionInv'
  BY <1>1, <1>3, <1>4 DEF VersionInv, Agrees
<1>6. StartUsesOneVersion'
  BY <1>3, DefaultIsValue DEF StartUsesOneVersion, Versions
<1>. QED  BY <1>5, <1>6

\* The fields have stood still since the start began, so what is read is of the
\* version that they are of now.
LEMMA ReadVersion ==
    ASSUME TypeOK, VersionInv, StartUsesOneVersion, ReadField
    PROVE  VersionInv' /\ StartUsesOneVersion'
<1>1. /\ host \in 1 .. 9 /\ host' = host + 1
      /\ UNCHANGED <<fields, worker, read, step, overlap>>
  BY OrderFacts DEF ReadField, workerVars
<1>2. used \in Seq(Value) /\ overlap \in BOOLEAN
  BY DEF TypeOK
<1>3. used' = IF overlap THEN <<>> ELSE Append(used, fields[StartReads[host]])
  BY DEF ReadField
<1>4. CASE overlap
  <2>1. StartUsesOneVersion'
    BY <1>1, <1>4 DEF StartUsesOneVersion
  <2>. QED  BY <1>1, <1>4, <2>1 DEF VersionInv, Agrees
<1>5. CASE ~overlap
  <2>1. /\ step = 1
        /\ DOMAIN used = 1 .. host - 1
        /\ \A i \in DOMAIN used : used[i] = fields[StartReads[i]]
    BY <1>1, <1>5 DEF VersionInv
  <2>3. used' = Append(used, fields[StartReads[host]])
    BY <1>3, <1>5
  <2>4. Len(used) = host - 1
    BY <1>1, <1>2, <2>1
  <2>5. DOMAIN used' = 1 .. host
    BY <1>1, <1>2, <2>3, <2>4
  <2>6. \A i \in DOMAIN used' : used'[i] = fields[StartReads[i]]
    BY <1>1, <1>2, <2>1, <2>3, <2>4, <2>5
  <2>7. PICK c \in Versions : \A i \in 1 .. 9 : Agrees(c, StartReads[i])
    BY <2>1 DEF VersionInv
  <2>8. \A i \in DOMAIN used' : i \in 1 .. 9 /\ used'[i] \in Values(c, StartReads[i])
    BY <1>1, <2>5, <2>6, <2>7 DEF Agrees
  <2>9. StartUsesOneVersion'
    BY <2>8 DEF StartUsesOneVersion
  <2>10. DOMAIN used' = 1 .. host' - 1
    BY <1>1, <2>5
  <2>11. VersionInv'
    BY <1>1, <2>1, <2>6, <2>7, <2>10 DEF VersionInv, Agrees
  <2>. QED  BY <2>9, <2>11
<1>. QED  BY <1>2, <1>4, <1>5

LEMMA NextVersion ==
    TypeOK /\ VersionInv /\ StartUsesOneVersion /\ [Next]_vars =>
        VersionInv' /\ StartUsesOneVersion'
<1> SUFFICES ASSUME TypeOK, VersionInv, StartUsesOneVersion, [Next]_vars
             PROVE  VersionInv' /\ StartUsesOneVersion'
  OBVIOUS
<1>1. ASSUME NEW f \in Files, alive, Edit(f) PROVE VersionInv' /\ StartUsesOneVersion'
  BY <1>1, QuietVersion DEF Edit, workerVars, hostVars
<1>2. CASE CheckEmpty
  BY <1>2, QuietVersion DEF CheckEmpty, hostVars
<1>3. CASE CheckSame
  BY <1>3, QuietVersion DEF CheckSame, hostVars
<1>4. CASE CheckChanged
  BY <1>4, QuietVersion DEF CheckChanged, hostVars
<1>5. CASE Log
  BY <1>5, QuietVersion DEF Log, hostVars
<1>6. CASE LoadNothing
  BY <1>6, QuietVersion DEF LoadNothing, hostVars
<1>7. CASE LoadBroken
  BY <1>7, QuietVersion DEF LoadBroken, hostVars
<1>8. CASE LoadContent
  BY <1>8, QuietVersion DEF LoadContent, hostVars
<1>9. CASE Assign
  BY <1>9, AssignVersion
<1>10. CASE AssignBadString
  BY <1>10, QuietVersion DEF AssignBadString, hostVars
<1>11. CASE Attached
  <2>1. /\ host = -1 /\ host' = 0 /\ worker = "loop"
        /\ UNCHANGED <<fields, worker, read, step, used, overlap>>
    BY <1>11 DEF Attached, workerVars
  <2>2. ~(host' > 0 /\ ~overlap')
    BY <2>1
  <2>. QED  BY <2>1, <2>2 DEF VersionInv, StartUsesOneVersion, Agrees
<1>12. CASE Start
  BY <1>12, StartVersion
<1>13. CASE ReadField
  BY <1>13, ReadVersion
<1>14. CASE ReadTorn
  BY <1>14, QuietVersion DEF ReadTorn, hostVars
<1>15. CASE Activate
  <2>1. /\ host' = 0 /\ used' = <<>>
        /\ UNCHANGED <<fields, worker, read, step>>
    BY <1>15 DEF Activate, workerVars
  <2>2. StartUsesOneVersion'
    <3>1. NoKeys \in Versions
      BY DEF Versions
    <3>2. DOMAIN used' = {}
      BY <2>1
    <3>. QED  BY <3>1, <3>2 DEF StartUsesOneVersion
  <2>3. ~(host' > 0)
    BY <2>1
  <2>. QED  BY <2>1, <2>2, <2>3 DEF VersionInv, Agrees
<1>16. CASE SwitchLog
  BY <1>16, QuietVersion DEF SwitchLog, workerVars
<1>17. CASE UNCHANGED vars
  BY <1>17, QuietVersion DEF vars
<1>. QED
  BY <1>1, <1>2, <1>3, <1>4, <1>5, <1>6, <1>7, <1>8, <1>9, <1>10, <1>11, <1>12,
     <1>13, <1>14, <1>15, <1>16, <1>17 DEF Next, WorkerStep

\* What StartNavtexReceiver reads is of one version of the file, or the
\* defaults, unless the worker thread assigned fields meanwhile.
THEOREM StartIsOfOneVersion == Spec => []StartUsesOneVersion
<1>1. Init => TypeOK /\ VersionInv /\ StartUsesOneVersion
  BY InitTypeOK, InitVersion
<1>2. TypeOK /\ VersionInv /\ StartUsesOneVersion /\ [Next]_vars =>
          (TypeOK /\ VersionInv /\ StartUsesOneVersion)'
  BY NextTypeOK, NextVersion
<1>. QED  BY <1>1, <1>2, PTL DEF Spec

-----------------------------------------------------------------------------
\* What serialize has written is parsed to what it was written from, whatever
\* lies behind it in the memory.  Json computes this by recursion, so that it is
\* a hypothesis here; on MCSettings TLC checks it, the hash with ReadAsMeant and
\* that there is one with FaultHasCause.
ReadsBack ==
    \A f \in Written : \A p \in Parsed[f] : p.ok /\ p.node = Documents[f]

MeantInv ==
    /\ worker = "assign" /\ read.file \in Written =>
          read.hash = Documents[read.file].v
    /\ worker # "assign" /\ source \in Written =>
          \A f \in Field : Agrees(Documents[source].v, f)

\* Steps that assign nothing and begin no load.
LEMMA QuietMeant ==
    ASSUME MeantInv, UNCHANGED <<fields, source>>,
           \/ UNCHANGED <<worker, read>>
           \/ worker # "assign" /\ worker' # "assign"
    PROVE  MeantInv'
BY DEF MeantInv, Agrees

LEMMA InitMeant == Init => MeantInv
BY MarkerAssumption, FileAssumption DEF Init, MeantInv, Files

LEMMA NextMeant ==
    ReadsBack /\ TypeOK /\ VersionInv /\ MeantInv /\ [Next]_vars => MeantInv'
<1> SUFFICES ASSUME ReadsBack, TypeOK, VersionInv, MeantInv, [Next]_vars
             PROVE  MeantInv'
  OBVIOUS
<1>1. ASSUME NEW f \in Files, alive, Edit(f) PROVE MeantInv'
  BY <1>1, QuietMeant DEF Edit, workerVars, hostVars
<1>2. CASE CheckEmpty
  BY <1>2, QuietMeant DEF CheckEmpty, hostVars
<1>3. CASE CheckSame
  BY <1>3, QuietMeant DEF CheckSame, hostVars
<1>4. CASE CheckChanged
  BY <1>4, QuietMeant DEF CheckChanged, hostVars
<1>5. CASE Log
  BY <1>5, QuietMeant DEF Log, hostVars
<1>6. CASE LoadNothing
  BY <1>6, QuietMeant DEF LoadNothing, hostVars
<1>7. CASE LoadBroken
  BY <1>7, QuietMeant DEF LoadBroken, hostVars
<1>8. CASE LoadContent
  <2>1. PICK p \in Parsed[file] : read' = [file |-> file, hash |-> p.node.v]
    BY <1>8 DEF LoadContent
  <2>2. read'.file = file /\ read'.hash = p.node.v /\ worker' = "assign"
    BY <1>8, <2>1 DEF LoadContent
  <2>3. file \in Written => p.node = Documents[file]
    BY <2>1 DEF ReadsBack
  <2>. QED  BY <2>2, <2>3 DEF MeantInv
<1>9. CASE Assign
  <2>1. /\ worker = "assign"
        /\ \/ step < 12 /\ worker' = "assign" /\ read' = read
           \/ step = 12 /\ worker' = "loop" /\ source' = read.file
    BY <1>9, AdvanceFacts DEF Assign
  <2>2. CASE step < 12
    BY <2>1, <2>2 DEF MeantInv
  <2>3. CASE step = 12
    <3>1. \A i \in 1 .. 12 : fields'[Order[i]] \in Values(read.hash, Order[i])
      BY <1>9, <2>3, AssignAgrees
    <3>2. \A f \in Field : fields'[f] \in Values(read.hash, f)
      <4> TAKE f \in Field
      <4>1. PICK i \in 1 .. 12 : f = Order[i]
        BY OrderFacts
      <4>. QED  BY <3>1, <4>1
    <3>3. read.file \in Written => read.hash = Documents[read.file].v
      BY <2>1 DEF MeantInv
    <3>. QED  BY <2>1, <2>3, <3>2, <3>3 DEF MeantInv, Agrees
  <2>. QED  BY <2>1, <2>2, <2>3
<1>10. CASE AssignBadString
  BY <1>10, QuietMeant DEF AssignBadString, hostVars
<1>11. CASE Attached
  BY <1>11, QuietMeant DEF Attached, workerVars
<1>12. CASE Start
  BY <1>12, QuietMeant DEF Start, workerVars
<1>13. CASE ReadField
  BY <1>13, QuietMeant DEF ReadField, workerVars
<1>14. CASE ReadTorn
  BY <1>14, QuietMeant DEF ReadTorn, hostVars
<1>15. CASE Activate
  BY <1>15, QuietMeant DEF Activate, workerVars
<1>16. CASE SwitchLog
  BY <1>16, QuietMeant DEF SwitchLog, workerVars
<1>17. CASE UNCHANGED vars
  BY <1>17, QuietMeant DEF vars
<1>. QED
  BY <1>1, <1>2, <1>3, <1>4, <1>5, <1>6, <1>7, <1>8, <1>9, <1>10, <1>11, <1>12,
     <1>13, <1>14, <1>15, <1>16, <1>17 DEF Next, WorkerStep

\* If parse undoes serialize, a file written by serialize leaves every field
\* with the value of its key or its default, whatever was loaded before it and
\* whoever edits the file during the load.
THEOREM MeaningIsRead == ReadsBack => (Spec => []ReadAsMeant)
<1> SUFFICES ASSUME ReadsBack PROVE Spec => []ReadAsMeant
  OBVIOUS
<1>1. Init => TypeOK /\ VersionInv /\ StartUsesOneVersion /\ MeantInv
  BY InitTypeOK, InitVersion, InitMeant
<1>2. TypeOK /\ VersionInv /\ StartUsesOneVersion /\ MeantInv /\ [Next]_vars =>
          (TypeOK /\ VersionInv /\ StartUsesOneVersion /\ MeantInv)'
  BY NextTypeOK, NextVersion, NextMeant
<1>3. MeantInv => ReadAsMeant
  BY DEF MeantInv, ReadAsMeant, Agrees
<1>. QED  BY <1>1, <1>2, <1>3, PTL DEF Spec

-----------------------------------------------------------------------------
\* A fault stops everything, so its cause can still be seen.
LEMMA NextFault ==
    ReadsBack /\ FaultHasCause /\ [Next]_vars => FaultHasCause'
<1> SUFFICES ASSUME ReadsBack, FaultHasCause, [Next]_vars PROVE FaultHasCause'
  OBVIOUS
<1>1. CASE UNCHANGED vars
  BY <1>1 DEF vars, FaultHasCause, Torn
<1>2. CASE alive /\ Next
  <2>1. CASE CheckEmpty
    BY <2>1 DEF CheckEmpty, FaultHasCause
  <2>2. CASE Log
    BY <2>2 DEF Log, FaultHasCause, hostVars
  <2>3. CASE LoadBroken
    <3>1. file \notin Written
      BY <2>3, DocumentAssumption DEF LoadBroken, ReadsBack
    <3>. QED  BY <2>3, <3>1 DEF LoadBroken, FaultHasCause
  <2>4. CASE AssignBadString
    BY <2>4 DEF AssignBadString, FaultHasCause
  <2>5. CASE ReadTorn
    BY <2>5 DEF ReadTorn, Torn, FaultHasCause, hostVars
  <2>6. ASSUME ~(CheckEmpty \/ Log \/ LoadBroken \/ AssignBadString \/ ReadTorn)
        PROVE  alive'
    BY <1>2, <2>6 DEF Next, WorkerStep, Edit, CheckSame, CheckChanged, LoadNothing,
       LoadContent, Assign, Advance, Attached, Start, ReadField, Activate, SwitchLog,
       workerVars
  <2>7. alive' => FaultHasCause'
    BY DEF FaultHasCause
  <2>. QED  BY <2>1, <2>2, <2>3, <2>4, <2>5, <2>6, <2>7
<1>3. Next => alive
  BY DEF Next, WorkerStep, Attached, Start, ReadField, ReadTorn, Activate, SwitchLog
<1>. QED  BY <1>1, <1>2, <1>3

\* If parse undoes serialize, the process comes down over its settings only
\* from an empty file, a file nobody's serialize wrote, one without a port or
\* with something else in the place of one of its four strings, a log that was
\* stopped between the test of logger and its use, or a port that was read
\* while it was assigned.
THEOREM FaultsHaveCauses == ReadsBack => (Spec => []FaultHasCause)
<1> SUFFICES ASSUME ReadsBack PROVE Spec => []FaultHasCause
  OBVIOUS
<1>1. Init => FaultHasCause
  BY DEF Init, FaultHasCause
<1>2. FaultHasCause /\ [Next]_vars => FaultHasCause'
  BY NextFault
<1>. QED  BY <1>1, <1>2, PTL DEF Spec
=============================================================================
