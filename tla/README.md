# A verification project for the NAVTEX service

The repository is a Windows program that receives NAVTEX messages (weather and
navigational warnings) over a serial port or UDP, puts them together from NMEA
sentences, finds positions in them and stores them in an SQLite file that other
programs read. It consists of a service executable (`ns.cpp`), a library
(`navtex/`), an NMEA library (`nmea/`) and helpers (`tools/`, `json/`, `log/`).

This directory holds TLA+ modules of its core, the TLC runs that check them and
proofs about most of them: the way of a message from the sentence to the
database, Start and Stop, the service, the framing, the log.

## 1. The system

### Threads

| thread | code | does |
|---|---|---|
| host | whoever calls the library | `StartNavtexReceiver`, `StopNavtexReceiver`, callbacks, `ReloadSettings` |
| receiver | `nmea/channel.cpp`, `workerProc` | reads the port or the socket, runs the whole chain from sentence to database, forwards serial data to UDP |
| worker | `navtex/navtex.cpp`, `startWorker` | reloads the settings, sweeps the database |
| service main, `svcMain`, service worker | `ns.cpp` | life of the service |

The library has no lock of its own. SQLite serialises single statements.

### Components, their state and what makes them correct

| component | state | operations | interacts with | correct when |
|---|---|---|---|---|
| Message reassembly (`message.cpp`, `parsing.cpp`, `sentence.cpp`) | map `messages` from a byte to a slot with flags, parts, time, code | one per sentence: `parseNxNrx`, `parseCrNrx` | called by the receiver thread, calls the store | what is stored is a message that was sent, whole and in order; no slot holds a finished message; no line brings the process down |
| Message store (`db.cpp`) | tables `messages`, `objects` | `addMessage`, `removeExpiredMessages` | receiver and worker share one connection; `msgAddCb` tells the host | positions and callbacks name the right row; expired rows go, fresh ones stay |
| Receiver channel (`channel.cpp`, `nmea.cpp`, `serial_reader.cpp`, `udp_reader.cpp`) | channel flags, two readers with handles, a thread | Start, Stop, configure, connect, activate, read, write | host against receiver thread | nothing deleted or closed is used, no callback after Stop, no handle left |
| Windows service (`ns.cpp`) | `svcStatus`, stop event, thread handle | control handler, `svcInit`, `workerProc`, `main` | service control manager, next process through the named event | a stop ends the worker and is reported; STOPPED means what it says |
| Native framing (`navtex.cpp`) | `nativeMsg` | `processNativeProtocolLine` | called by the receiver thread | messages between ZCZC and NNNN, however the stream is cut into buffers |
| NMEA sentence parser (`sentence.cpp`) | the fields of a sentence | `extractAndParseAll`, `extractAndParse`, `parse` | called by the receiver thread, calls `onNewSentence` | the sentences that were sent, whatever a cut does to one |
| Position extraction (`parsing.cpp`) | none (works inside the text, and writes into it) | `extractPositions`, `extractPos` and its matchers | called when a message is built | positions as written, in order, each once; stays in the text |
| Calendar (`tools.cpp`) | none | `ddmmyyyy2time`, `hhmmss2time`, `getMonthLen` | `extractUtc`, `parseNxNrx` | agrees with the calendar |
| Settings (`settings.cpp`, `json/`) | fields, checksum | `loadIfChanged`, `load`, `parse` | written by the worker, read by all | fields are those of the file; readers see one version; a slip in the file does no harm |
| Library life cycle (`navtex.cpp`, `DllMain`) | `worker`, `stopNow`, `logger`, `settings` | attach, detach, `StartLog`, `StopLog` | loader lock | worker ends before what it uses; unloading ends |
| Logger (`log.cpp`) | file handle | start, stop, records, rotation | all threads | no record lost, handle valid, size bounded |
| Test tool, service installation, `navtex/!`, SQLite | - | - | - | not modelled, see section 7 |

### What is hard

Lines of several messages interleave, get lost or repeat, and different messages
may share a key; the loop over a buffer handles its last sentence twice; the
receiver and the worker thread touch the same tables between each other's
statements; the host deletes readers that the receiver thread may be using; in
the service, the control handler and the worker share one status structure, and
successive processes share one named event. `PROJECT.json` lists every hazard
with its line and the properties that cover it.

## 2. Modules

| module | models | role |
|---|---|---|
| `Assembly` | nothing of the code: the promise of reassembly | abstract specification |
| `Reassembly` | `message.cpp`, both handlers of `parsing.cpp`, the loop of `sentence.cpp` | detailed specification, implements `Assembly` |
| `MCReassembly` | traffic in which keys collide | TLC instance |
| `ReassemblyProofs` | - | theorems about `Reassembly` |
| `Store` | `db.cpp`, `processNativeMsg`, `doIteration`, the opening of the file | specification, a part of `Pipeline` |
| `Mailbox` | nothing of the code: the promise of receiver and database | abstract specification |
| `Pipeline`, `MCPipeline` | `Reassembly` and `Store` joined as `processNativeMsg` joins them, with crashes | composition, implements `Mailbox`, and TLC instance |
| `PipelineProofs` | - | theorems about `Store` and `Pipeline` |
| `Receiver` | `channel.cpp`, `nmea.cpp`, both readers, Start and Stop | specification |
| `Service` | `ns.cpp` | specification |
| `NativeFraming` | `processNativeProtocolLine` of `navtex.cpp` | specification, a part of `Framing` |
| `Framing`, `MCNativeFraming` | `onSentenceReceived` of `navtex.cpp`, `sentence.cpp` | specification and TLC instance |
| `ReceiverProofs`, `ServiceProofs`, `FramingProofs`, `LibraryProofs` | - | theorems about `Receiver`, `Service`, `Framing` and `NativeFraming`, `Library` |
| `Json` | `parse` and `serialize` of `json_lite` | operators, used by `MCSettings` |
| `Settings`, `MCSettings` | `settings.cpp`, the loop of the worker thread, `StartLog`, `StopLog` | specification and TLC instance |
| `Calendar`, `MCCalendar` | the dates of `tools.cpp`, `extractUtc`, the date fields of `parseNxNrx` | functions against a counted calendar |
| `Dates` | `skipDate`, `skipTime` of `parsing.cpp` | a part of `Positions` |
| `Positions`, `MCPositions` | `extractPositions`, `extractPos` and its matchers | specification and TLC instance |
| `SettingsProofs`, `TextProofs` | - | theorems about `Settings`; about `Positions` and `Calendar` |
| `Logger` | `log.cpp` | a part of `Library` |
| `Library` | `DllMain`, `startWorker`, `stopWorker`, `StartLog`, `StopLog`, `logger_helper.cpp` | specification |

### Reassembly

A sentence is a record of the fields the handlers look at (talker, lengths and
numbers, message code, status, time, text). `Sentences`, the set of sentences
that may arrive, is a constant. `Read(b)` is a call of `onSentenceReceived` with
any sequence of at most `MaxBuffer` sentences, so that loss, repetition and
reordering need no actions of their own. `Extract` handles one sentence of the
buffer, `Replay` handles the last one again, which `extractAndParseAll` does when
`extractAndParse` returns null and the fields are still there. Each handles the
sentence by exactly one of `Skip` (an early return), `Fault` (null pointer or an
index out of bounds), `Keep` (the line is stored) or `Finish` (the line completes
the message: it is stored if its code is good, and dropped from the map).

Abstracted: the characters of fields and texts; the concatenation of the parts
(`Delivery` keeps the sequence of parts); the checksum, whose verdict the loop
ignores. Kept: the cut of the number to a byte (`Key`), the different sources of
number, code and time of the two talkers, the order of the guards. `utc` is never
0: date fields that add up to 0 are replaced by what the text gives, a time after
1980 or -1 (`TimeIsNeverZero` of `Calendar` checks this). In the builds of the repository (debug
runtime, `/MDd`) an index out of bounds ends the process, as a null pointer does;
that is `alive = FALSE`.

`Assembly` knows keys, lines and labels only: `Hear` a fragment, `Finish` a
gapless run 1..n, `Flush`. The mapping takes an open slot to the fragments it
holds (`Latest`) and the deliveries to labelled texts (`Out`). Its `Label` is
free at `Finish`, since the code of a CR message is that of its last line.

### Store

`stored` and `objects` are functions from rowids to rows; a new rowid is one
above the largest, as SQLite gives it to an `integer primary key` without
AUTOINCREMENT, which means that rowids of deleted rows can come back. Each
statement is an action with a parameter `ok`: a statement may fail (the program
that reads the file may hold a lock, a table may be missing), and the code goes on
the way it does. `start` follows `StartNavtexReceiver` through `sqlite3_open`,
`checkDb` and `upgradeDb`; if the file cannot be opened everything goes on with a
handle on which every statement fails (`broken`). `VersionRead` is 0 whatever the
file holds: `getDbParam` looks for a column named `version`, but the query has only
`prop_value`. `Restart` may come at any time: apart from a crash, in the first
statement of the sweep a text of 103 to 105 characters goes into `query[100]`,
after which the statement runs or the process ends. Ages are counted up to one
above the largest expiry. `SweepMessages` changes nothing since SQLite refuses its
text (section 4). The unique indexes on columns that do not exist are never made;
that of `objects (msg_id, number)` cannot be violated as long as
`PositionsBelong` holds. Statements longer than `query[5000]` are outside the model.

### Pipeline and Mailbox

`Pipeline` extends both `Reassembly` and `Store`. A handler that completes a
message (`HandOver`) is also the `Parse` of `Store`; the receiver thread then runs
`addMessage` and the callback (`StoreTaken`) before it takes the next sentence,
while the worker's sweep and time go on. `StartReceiver` is Stop and Start: the
slots, which are static, stay, the buffer goes. `Crash` empties everything but the
file. `taken` is a history variable; the texts of `Store` are places in it.

`Mailbox` has a box, one message in hand and what was told: `Take`, `Put` under an
id never used, `Tell`, `Lose`. Under disciplined traffic (below) `Pipeline`
implements it with `Genuine`, the messages the stations sent, as its messages.
Whatever statement fails and wherever the process ends, rows are whole messages
that were sent, ids stay theirs, and only the message in hand can get lost.

### Receiver

The host is a sequence of steps (`api`), one for each call that touches the
channel or a reader; `worker` is where the channel's thread is. `object[k]` says
whether the reader of kind `k` is live or freed. What the thread does with a
freed reader, or with a serial port handle that was closed (`dataAvailable`
returns a number nobody wrote), is `Undefined`: the process ends or it goes
unnoticed. The host is sequential; calling Stop from the message callback, and
Start from two threads, are outside the model.

### Service

Every thread of a process has a program counter. `ReportSvcStatus` is two steps,
assigning the shared `svcStatus` and calling `SetServiceStatus` on it, because
another thread can come between them. The stop event belongs to all processes:
it exists while some process holds a handle. The service manager starts a
process once the one before has reported STOPPED, and sends a stop to a process
that reports RUNNING. `told`, `inherited`, `stopped` are history variables.

### NativeFraming and Framing

The stream is a sequence of tokens: halves of the two marks and stretches of
text. It arrives in buffers of any length (`Arrive`), so that a buffer may end
inside a mark; lost characters only make another stream. `Process` is one call of
`processNativeProtocolLine`, by one of its five branches: `Idle`, `Open`,
`Whole`, `More`, `Close`; what is left of a buffer is processed by the call to
itself. `cuts` remembers where buffers ended, for the property that compares the
messages with those of the whole stream (`Frames`). A message that is framed goes
through `processNativeMsg`, see `Store`.

`Framing` is `onSentenceReceived`: by the setting `useNativeProtocol` a buffer goes
there or to a `Sentence`. The setting is taken to fit the radio and not to change.
`Extract` is `extractAndParse` up to its call of `parse`: it takes what is between the
first '$' and the end of the line or of the buffer. `parse` is a step for each
character, at place `chr` of the stream: `AddChar`, `AddField`, `CheckSum`. The
digits of a right checksum stay in the last
field, and a wrong one ends the parsing, but its verdict is not used. `Call` is the
callback, `NoMore` the call that finds no '$', after which the fields of the last
sentence are still there.
`LineAssumption` says what a line of NMEA is: behind its '*' there are at most two
characters. The serial port is read every 10 ms for what has come so far
(`serial_reader.cpp:59`), so that a sentence is often cut: the part in the first
buffer is called back with as if it were whole, the rest is skipped. Digits that are
cut off are read from behind the string, and may be right (`luck`). `Reassembly`
begins where the callbacks of `Framing` end: a sentence that was cut is one with
other fields, a shorter text or too few of them.

### Settings and Json

`file` is what is on the disk. Files are opened without sharing, so a read sees a
file as its editor left it or fails (`Missing`). The worker's steps follow
`loadIfChanged`: `CheckSame` or `CheckChanged` (the first read, `calcCrc`), `Log`
(the logger was tested, is it still there?), `LoadNothing`, `LoadBroken` or
`LoadContent` (the second read, and `parse`), `Assign` (one field at a time). `Sum`
is any function that gives no file 0, collisions included. All twelve fields are
there, in the order of their assignment (`Order`); two of them the constructor leaves
unset (`Unset`). `Converted` is what a field makes of its node: the number of hours is
cut to a bool, a parity or a number of stop bits that is no known word becomes that of
the first word of the map, an address that `inet_addr` cannot read `INADDR_NONE`. The
host reads nine of the fields in `StartNavtexReceiver` (`Start`, `ReadField`,
`Activate`). The port is a `std::string`: read in the midst of its assignment (`Torn`)
it may be anything, or the process ends (`ReadTorn`); the other fields are written and
read in one step. `source`, `raced`, `overlap` are history variables, and so is `used`,
what `StartNavtexReceiver` has read: it decides nothing, and is forgotten at an overlap,
of which nothing is claimed but that it may end the process.

`Json` is the recursive descent over tokens (characters of literals and numbers are
left to the tokens; the words that merely start with `true` and numbers with two
dots are token kinds of their own). It keeps what the code makes of broken texts: an
open literal moves the offset behind the terminating zero, where the memory decides
(`past`), commas are optional, the first of two equal keys counts, text behind the
value is not looked at. A file of `Documents` is what `serialize` writes for a hash,
the others (`MCOddTexts`) are given as tokens. `Settings` takes what the parser makes
of a file as a constant, `Parsed`: a set of results, one for each content of the
memory behind the text. `MCSettings` gives it the results of `Json`; the proofs need
to know nothing of it. `load` casts nodes without looking at
their types: `Misread` is what may come out, and for a string, be it the port, the
parity, the stop bits or the address, the process may end (`BadString`,
`AssignBadString`); without a port it always does.
`serialize` has no caller in the repository; here it is the definition of a
well-formed file that `ReadAsMeant` needs. An empty hash comes out without its
closing brace (`DocumentAssumption`).

### Calendar

`Calendar` states the functions of `tools.cpp` as operators, and walks through the
calendar day by day with a number of days that only ever grows by one; `sent` is
the day a message names, `now` the day it is read. A `time_t` is a pair of days
and seconds, since TLC's integers end in 2038. `Behind` is the value the build
has behind the array of month lengths. Two assumptions bound the calendar: years
are those from 1980 (the code takes none before) to 9999 (four digits), and a
message is read within 365 days (a stamp has no year, so that the reader's clock
is taken for it; `StampError` says what one New Year does to it).

### Dates and Positions

`Dates` states `skipDate` and `skipTime` as tables of forms in the order of the
code's conditions. A place behind the text never matches, because the terminating
zero is no character of a form.

`Positions` runs `extractPositions` on a text, one turn of the loop of `extractPos`
at a time: `Scan` at a place without a digit; at a digit `ScanDigit`, `SkipDate`,
`SkipTime` and one of `queryDirtyPosition`, `Latitude`, `Longitude`; `Whole` is the
part at the end of the turn that looks for positions written as a whole. The
matchers write points and zeros into the text, so `text` is a variable. Angles are
whole numbers of 1/360000 degree; `atof` is modelled by what it reads, exponents
included (an `E` before a digit is one). `written` remembers the pieces the text was
made of, so that `ReadAsWritten` can compare.

### Logger and Library

`Logger` is `log.cpp` statement by statement, for each thread a stack of records,
because a rotation logs a record of its own in the midst of a record. Sizes are
counted in pieces (a record has three). The handle is `none`, `current` or `stale`;
`open` says whether a handle to the file is open at all, since `CreateFile` shares
for reading only and fails while there is one. Windows may also refuse whatever the
logger asks for, at any time: to open the file (a path, a right, a viewer's sharing
mode; `refused` remembers that the last `CreateFile` failed for such a reason), to move
the log or to delete the backup (`MoveFile` chooses what is held; `blocked` remembers
it). The place of writing is taken to be the end of the file, and the log files of several
`StartLog` to be one; two spellings of one path, which the code would take for two
loggers, are not modelled.

`Library` calls it: `DllMain` attaches (`StartClose`, `StartOpen`, `Attach`,
`Spawn`), the host logs and switches its log, and leaves by `FreeLibrary` or
`ExitProcess`; both run `DLL_PROCESS_DETACH` under the loader lock, which a thread
needs to begin and to end (`NotifyLoader`). `ExitProcess` terminates the worker first, as Windows
does. Starting the worker in DllMain and joining it there is modelled as it is.

## 3. Runs

| run | module, cfg | checks |
|---|---|---|
| reassembly | `MCReassembly` | `OpenSlotsWait`, `HeaderIsFixed`, `ReplayStoresOneLinersOnly`, `ImplementsAssembly` |
| pipeline | `MCPipeline` | `NoFault`, `Integrity`, `NothingLost`, `PositionsBelong`, `AnnouncedIsStored`, `FreshKeepsPositions`, `MissingWasTriedNow`, `ImplementsMailbox` |
| service | `Service.cfg` | `LeavesOnlyWhenTold`, `StoppedMeansLeft`, `StopLeaves`, `ProcessEnds` |
| service_stop | `Service`, `ServiceStop.cfg` | `StopTakesEffect`: violated |
| store_expiry | `Store`, `StoreExpiry.cfg` | `ExpiredAreDeleted`: violated |
| receiver | `Receiver.cfg` | `OnlyOvertakenDangles`, `QuietAfterStop`, `HandlesReleased`, `StopReturns` |
| native_framing | `MCNativeFraming` | `CleanStreamIsFramed`, `DeliversStretch`, `OnlyLastIsCut`, `EachIsCalled` |
| calendar | `MCCalendar` | `DateError`, `StampError`, `TimeIsNeverZero` |
| settings | `MCSettings` | `FieldsAreOfSum`, `ReadAsMeant`, `StartUsesOneVersion`, `FaultHasCause`, `EventuallyLoaded` |
| positions | `MCPositions` | `ReadAsWritten`, `Neighbours`, `StaysInText`, `MovesOn` |
| dates_short | `MCPositions`, `MCDatesShort.cfg` | `ShortDatesSkipped`: violated |
| library | `Library.cfg` | `SoundUnlessRaced`, `SettingsOutliveWorker`, `RotationMakesRoom`, `DetachEnds` |

What the runs show, and the bounds:

- **reassembly**. Two NX stations with serial 12 and a CR message number 268
  share one key; there are messages of one, two and three lines, a code that is
  not enabled, a malformed code, line 0, a length of 0, a sentence with too few
  fields, and CR messages of two lines. `MaxBuffer` is 2: a message of three lines spans
  several reads, and the second callback happens both for a single sentence and
  after another one. The number of reads is not bounded. Whatever comes, slots
  stay well formed and what is stored is a gapless run of latest lines of a key.
- **pipeline**. Traffic where no key is used by two messages (`Disciplined`, an
  assumption that TLC evaluates): an NX message of two lines and a CR message of
  one, whose number is 28 modulo 256, with two positions and none. Up to two
  messages are handed over; a buffer has up to two sentences, so that a whole
  message fits into a read, which `NothingLost` is about, and also comes in two
  reads, or with a foreign or repeated line (`PipelineLosesNone` is for every
  length of buffer). Expiry is 0 ticks and the period of the
  sweep 0, which lets it begin at any moment: a message can expire while its
  positions are stored, be swept, lose statements or be cut short by a crash, and
  the second message is stored after the sweep of the first. The number of starts,
  crashes, sweeps and ticks is not bounded. 712,668 states.
- **service**. Two instances, because the second one meets the event and the
  status left by the first; a third meets nothing else. Any of the calls
  `RegisterServiceCtrlHandler`, `CreateEvent`, `CreateThread` may fail.
- **service_stop**. One instance without failures is enough to lose STOPPED.
- **store_expiry**. One message and one position, expiry and period of one tick:
  enough for a message that is never deleted.
- **receiver**. Three calls of Start, in any order with Stop: twice in a row,
  after a Stop, and both. Every connect may fail.
- **native_framing**. All streams of up to six tokens, the length of a message of
  two tokens with both marks, and five longer ones with two or three messages,
  marks inside texts, repeated tails, noise; every way to cut them. Four streams of
  NMEA sentences: with a right and a wrong checksum and without, empty fields, noise, an empty
  line, an end of the stream in mid sentence; every way to cut them.
- **settings**. Documents: two with the same sum (digits swapped), one with nothing but
  a port, one without a port and with an item nobody asks for, one with a port and with
  the number 1 for the stop bits, which `serialize` writes and `load` takes for a string.
  Odd texts: a comma missing and a key twice; a last literal left open where a number
  belongs, so that it parses or not and its value is misread; a text that is no hash; an
  empty one; or no file. Edits, loads and Starts are not bounded.
  A document may be loaded, replaced by another, with an equal, a smaller or a larger sum,
  and restored. 752,152 states.
- **calendar**. Every day of eleven years: the first ones, one beyond 2038, those
  around 2100 and 2200, which are no leap years but count as such. Nothing else
  changes between years (`TextProofs` has all of them). Delays of up to two days cross every end of a month and of a year.
- **positions**. Pairs of positions written in seven ways, with lost digits, as
  halves or with the end missing, separated by blanks, letters, line ends, marks and
  dates, with dates, times and digits before and behind; and texts made of parts of
  one, two and four digits with separators between that resemble dates, times and
  latitudes. Two positions are enough: nothing is carried from one search to the
  third. 8,798 texts, every turn of the loop a state.
- **dates_short**. The same texts against the comments on the forms with a month of one digit.
- **library**. Both threads, two calls or records besides those of attaching and
  unloading, a log one piece below its limit or none, a full backup or none; any file
  refused whenever it is opened, moved or deleted; two records inside each other (`MaxDepth`), which suffices to
  see a third begin. 1,394,472 states. Several `StartLog` and `StopLog`, and unloading at any time.

Deadlock is not checked where the model rightly stops: a fault or undefined
behaviour ends the process (reassembly, receiver, settings), nobody stops a service
(service), the process ends (library), or the stream, the years or the text are
over (native_framing, calendar, positions). The pipeline run checks it.

Each property of a passing run has a mutant in the module it is about
(`PROJECT.json`, `mutants`): a plausible slip in the code that the property
catches.

## 4. What the checks found

1. **A stop can fail to be reported** (`src/ns.cpp:253`, run service_stop). The
   handler reports STOP_PENDING, sets the event and then reports
   `svcStatus.dwCurrentState` once more. Between its reading of the state and its
   call, the worker may write STOPPED; the handler's assignment overwrites it
   before the worker's `SetServiceStatus`, and the service manager never hears
   of STOPPED. The property needs fairness of all threads, which the run has.
2. **Expired messages are never deleted** (`src/navtex/db.cpp:183`, run
   store_expiry). The condition text closes a parenthesis that only the first
   statement opens. If it were repaired alone, `PositionsBelong` would fail: a
   message swept while its positions are being stored would leave them to the next
   message with its rowid.
3. **Short months are not skipped as documented** (`src/navtex/parsing.cpp:398`,
   run dates_short). For "yyyy-m-dd or yyyy-m-d" ten characters are stepped
   over, one or two too many. "dd-m-yyyy" is not recognised at all
   (`src/navtex/parsing.cpp:416`): the year is looked for one place too far.

Behaviour the models show without a statement to the contrary in the
repository: an NX message of one line at the end of a buffer is stored twice;
CR messages of several lines are stored under the code of their last line, and
usually thrown away; a CR line whose first line was lost ends the process;
messages with equal serial numbers share a slot and mix if both miss lines. A
native message keeps its NNNN if and only if one buffer holds all of it, and is
lost if a buffer ends right after ZCZC. Dates in months of less than 31 days come
out one to three days early, the last days of some months are refused, and a
message read after New Year is dated a year ahead. Settings whose characters have
the same sum as the old ones are not loaded, nor are those of a file that changes
or is held between the two reads, until the next change; a file that is empty, not
JSON or without a port ends the process, and so may one with another node where one of
the four strings should be, and a Start during a load.

Positions: the hemisphere of the longitude is lost in the forms dd-mm-ssN
ddd-mm-ssE, ddmm.mN dddmm.mE and N dd dd.ddE ddd dd.dd (`parsing.cpp:251`, `334`,
`602`), the third digit of its degrees in the second of them (`333`); the form ddN
dddE stores the longitude as latitude and a longitude nobody assigned (`537`-`538`);
minutes with a point are not read in the form dd-m (`302`, `362`); a lost digit
marked by `*` is a 0 in the form ddmm.mN (`265`); a line end right after a position
ends the extraction (`510`); an E before a digit or a dash is taken for an
exponent. `Read` and `Reached` in `Positions` say exactly what comes out.

Library: `FreeLibrary` never returns once the worker has seen the flag and waits for
the loader lock, or has not begun; at the end of a process there is no such wait,
because Windows has terminated the worker (`DetachEnds` states both). Two threads
in the logger can close and move the file under each other, and a log may fall
silent (`SoundUnlessRaced` holds without such a race and fails with one). Without one it
is silent only when it was stopped or when Windows refused the file the last time it was
asked for: the code tests the handle and tries again at the next `StartLog`, not before.
If the log or its backup cannot be moved or deleted, rotations go on inside each other
until the stack ends.

The database: the version is always read as 0. That is what makes up for a table
that an earlier Start failed to create (`MissingWasTriedNow` fails for a
`getDbVersion` that reads what was written).

## 5. Fairness

- `Service`: weak fairness of every thread of a running process (the system
  schedules them, none holds a lock). No fairness for the start of a process or
  for a stop.
- `Store` (`StoreSpec`): weak fairness of time; strong fairness of the steps of the sweep,
  which the loop in `startWorker` tries again for ever, so that neither restarts
  nor failing statements get in the way for ever. Only `ExpiredAreDeleted` uses it.
- `Receiver`: weak fairness of the host's call once begun and of the channel's
  thread. The host need never call.
- `Settings`: weak fairness of the worker thread, whose loop never ends while the
  library is attached. `EventuallyLoaded` uses it: a file that stays from some moment
  on is, from some moment on, the one that is loaded. What was loaded earlier does not count.
- `Library`: weak fairness of what a thread does once begun, the host's record or
  call and the worker's loop. Nobody need call or unload.
- `Reassembly`, `Pipeline`, `Framing`: none, nothing obliges a sender.
  `Calendar` and `Positions` state no liveness; that the loops of `extractPos` end
  is the action property `MovesOn`.

## 6. Proofs

`ReassemblyProofs` proves, for every set of sentences that satisfies
`SentenceAssumption`, every code alphabet and every bound on the buffer:

| theorem | statement |
|---|---|
| `TypeCorrect` | `Spec => []TypeOK` |
| `SlotsWait` | `Spec => []OpenSlotsWait` |
| `HeaderStays` | `Spec => HeaderIsFixed` |
| `ReplayStoresOneLiners` | `Spec => ReplayStoresOneLinersOnly` |
| `Implementation` | `Spec => ImplementsAssembly` |
| `DisciplinedTrafficIsSafe` | `Disciplined` implies `Spec => []NoFault` |
| `DisciplinedTrafficIsGenuine` | `Disciplined` implies `Spec => []Integrity` |
| `DisciplinedTrafficIsStored` | `Disciplined` implies `Spec => []NothingLost` |

They rest on `Invariance`, the inductive invariant

    IInv == TypeOK /\ OpenSlotsWait /\ TimeKnown /\ LastHandled

`OpenSlotsWait` alone is inductive given the types; it says that a slot misses a
line, so that a line makes it complete or leaves it waiting. `TimeKnown` (an
open slot has a time other than 0) is needed for `HeaderIsFixed`, because
`checkMessage` fills in a time that is 0. `LastHandled` says that before the
second callback the line of the last sentence is in its slot or the slot is gone;
so the second callback repeats a line and completes nothing, unless it opens a
slot of one line anew (`ReplayStoresOneLiners`). Disciplined traffic needs
`GenuineSlots` besides: each part of a slot is the line of that number of the
message that uses the key. `NothingLost` compares the end of a read with its whole
buffer; its invariant `Handled` says for every first line handled so far that its
message is stored or its slot holds every line of it handled since.

`PipelineProofs` proves, for every set of expiry times, every
period and every bound, all of it about `PipelineSpec`:

| theorem | statement |
|---|---|
| `PipelineTypes`, `PositionsBelongAlways`, `AnnouncedStays`, `FreshStaysWhole`, `EveryStartUpgrades` | `[]` of `StoreTypeOK`, `PositionsBelong`, `AnnouncedIsStored`, `FreshKeepsPositions`, `MissingWasTriedNow` |
| `PipelineIsSafe`, `PipelineIsGenuine`, `PipelineLosesNone` | `Disciplined` implies `[]` of `NoFault`, `Integrity`, `NothingLost` |
| `PipelineIsMailbox` | `Disciplined` implies `PipelineSpec => ImplementsMailbox` |

`StoreInvariance` is the inductive invariant of `Store`. `PositionsBelong` and
`AnnouncedIsStored` are not inductive alone: the rows of messages must be 1..n, so
that a new id is free (`Rows`; for the same reason `ObjectsBounded`), and the
message in hand must be the row `msgID` (`AtHand`). `FreshAtHand` is
`FreshKeepsPositions` for the message that is not announced yet, `Upgraded` counts
the tables `checkDb` has been through. For `Pipeline`, every step is a step of
`Store` or leaves it alone, and is a step of `Reassembly`, leaves it alone or
empties it (`Emptied`), so that both invariants carry over; `TakenInv` ties the
texts of the rows to the messages handed over. The refinement maps `HandOver` to
`Take`, `InsertMessage` to `Put` or a stutter, `Announce` to `Tell`, `Crash` to
`Lose` or a stutter, and everything else to a stutter.

`ServiceProofs`, `ReceiverProofs`, `LibraryProofs` have one inductive invariant each, `FramingProofs` three:

| module | for every | theorems |
|---|---|---|
| `ServiceProofs` | number of processes, set of failures | `ServiceTypes`: `[]TypeOK`; `NoWorkerLeavesUntold`: `[]LeavesOnlyWhenTold`; `StoppedHasLeft`: `[]StoppedMeansLeft` |
| `ReceiverProofs` | number of calls | `ReceiverTypes`: `[]TypeOK`; `DanglesOvertaken`: `[]OnlyOvertakenDangles`; `StopIsQuiet`: `[]QuietAfterStop`; `StopReleases`: `[]HandlesReleased` |
| `FramingProofs` | set of finite streams, cut anywhere | `FramingTypes`: `[]TypeOK`; `OpenMessageIsStretch`: `[]OpenIsStretch`; `MessagesAreStretches`: `DeliversStretch`; `SentencesAreAsSent`: `[]OnlyLastIsCut`; `SentencesAreCalled`: `[]EachIsCalled`; `CleanMessagesAreFrames`: `Spec => []CleanStreamIsFramed`; `NativeMessagesAreFrames`: `[](useNativeProtocol => CleanStreamIsFramed)` |
| `LibraryProofs` | size of the log, room on the stack, number of records | `LogIsSound`: `[]SoundUnlessRaced`; `RotationsEnd`: `RotationMakesRoom`; `SettingsLast`: `[]SettingsOutliveWorker` |

- `Service`: `StoppedMeansLeft` is about what the manager was told, which is what
  some thread assigned earlier. `StoppedIsOver` says of every place STOPPED can be in
  (the shared status, the handler's argument, the report) that the process is over,
  or about to be because it failed to make the event; `SetForHolders` and
  `LaterInherits` follow a set event into the process that finds it.
- `Receiver`: `StoppingIsSilent` says that the channel is not active from the first
  step of Stop on, `FreedWhileStopping` which readers may be gone at which step,
  `OnceStarted` that before `Activate` a channel started once has no iteration under
  way and no handle open.
- `NativeFraming`: the input and the open message are windows of the stream, one next
  to the other (`OpenIsStretch` and `TypeOK`). A step takes windows of windows, for
  which `WindowOfWindow` is enough. `StreamAssumption`: a stream is a sequence of
  tokens.
- Its frames: `Frames` is a recursive function, and `FramesAreChain` says what it
  returns without recursion: each frame is the first one behind the one before, and
  none is left behind the last (`Chain`). `Framed` compares the receiver with the chain.
  The messages are its first frames; the next one was not reached, or the open
  message is the part of its text that was looked at; a header that no tail follows can
  only come behind the last frame. That the receiver sees a mark of
  the stream in its buffer is `InputPlaces`, and where the clean cuts are needed: a
  mark that ends behind the buffer is not seen, and the buffer ended in it.
  `BufferInv` says that of the cuts only the end of the buffer at hand is
  behind the place looked at, so that a frame keeps its tail or not once and for all.
- `Framing`: in the midst of `parse`, `Made` is what the characters so far must have
  given: the fields before are those sent, the last one is the text from the
  last comma to `chr`, behind the '*' without it. `SentenceInv` says so of the
  sentence at hand and of all that were called back with. It is why `parse`
  is modelled character by character; with `Extract` giving all fields in one step, the
  same would be an induction over the text.
- Its calls: `CallInv` counts the calls for each place of the stream at every step
  (`DueInv`), for which it must know that `Starts` has what was extracted so far
  (`AtHandInv`), that calls are in order (`OrderInv`) and where buffers ended
  (`CutInv`). `Extract` is the step with the work: the sentence before it turns out not
  to be the last of its buffer, so that it stays at one call, and the new one is due
  once `parse` is done with it.
- `Library`: `SoundUnlessRaced` says nothing of a rotation under way. `Rotating` says
  how a thread finds the files in the midst of one, as long as nobody else has been
  there; `Nested` and `OneNested` that records lie inside each other only while their
  piece is in hand, and in one thread only; `Bounded` that the log and all
  pieces in hand together stay below the bound. `HostOpens` and `LogIsOpen` carry the
  handle through `StartLog`, `SettingsKept` orders the worker and its settings.

`SettingsProofs` proves, for every set of files and whatever the parser makes of
each of them:

| theorem | statement |
|---|---|
| `TypeCorrect` | `Spec => []TypeOK` |
| `SumOfFields` | `Spec => []FieldsAreOfSum` |
| `StartIsOfOneVersion` | `Spec => []StartUsesOneVersion` |
| `MeaningIsRead`, `FaultsHaveCauses` | `ReadsBack` implies `Spec => []ReadAsMeant`, `[]FaultHasCause` |

`FieldsAreOfSum` speaks of the end of a pass only. `SumInv` follows the pass: from the
first read on `crc` is the sum of the file, unless an edit raced with it, and what is
read the second time has that sum. For `StartUsesOneVersion` the fields must be of
one version whenever nothing is assigned, those assigned so far of the version at
hand, and what a start has read still the same as the fields (`VersionInv`); the
second and third are what an overlap breaks. `ReadsBack` says that `parse` gives back
what `serialize` has written. `Json` defines both by recursion, so that it is a
hypothesis; TLC checks it on the documents of the run.

`TextProofs` proves, of `Positions` for every set of texts of any length, and of
`Calendar` for every set of years, clock readings and field values and every byte
behind the array:

| theorem | statement |
|---|---|
| `PositionsTypeCorrect` | `Spec => []TypeOK` |
| `NeighboursOnly` | `Spec => []Neighbours` |
| `OutsideOnlyAtItsEnd` | `Spec => []StaysInText` |
| `SearchMovesOn` | `Spec => MovesOn` |
| `LegibleIsRead` | `Spec => [](LegibleText => ReadAsWritten)` |
| `DateFieldsKeepTheDay`, `StampIsUnderstood`, `TimeOfLine1IsNotZero` | `CalendarSpec => []` of `DateError`, `StampError`, `TimeIsNeverZero` |

- `PosInv` is `TypeOK /\ Place /\ Gaps /\ StaysInText`. `Place` says where `source`,
  `start` and a latitude that waits are in the text at each turn, and at which
  texts `start` may already be behind the end. `Gaps` says that every digit between
  a latitude and the search for its longitude, and between those of each position
  found, is in a date or time that lies there as a whole (`Clear`). The matchers
  write into the text; one lemma for each of them bounds where it writes and where
  it sends the search, behind all that has been passed.
- `LegibleIsRead` is about texts of any number of pieces, each of which is a stretch
  without digits, a date or a time with its blank, or a position in one of five forms:
  degrees, minutes and seconds; minutes, with or without a comma; decimal minutes;
  the same with a slash between; whole degrees (`Legible`). 536 of the 8,798 texts of the run
  are such texts. Its invariant `ReadInv` says that the search is in some piece k, or
  behind a position at the beginning of it, that the positions found are those of the
  pieces before k, in order and as `Read` says, that no position before ended its line,
  and that from the place of the search on the text is as it was written, whatever the
  matchers wrote before. Four things carry it from step to step:
  - what a matcher gives depends on a few characters only, one lemma for each form
    (`LatDmsFits` and the eight like it), so that at a piece the one matcher made for
    it fits, and those tried before it, a date and a time do not; with `Meaning`, the
    value that a reader of the text would give the digits, the coordinate returned
    is that of the piece (`LatIs`, `LonIs`, `SlashIs`, `ShortIs`), less what `Read` says
    is lost: `LonDecimalIs` is where a digit of the degrees goes;
  - `Number`, `Run` and `atof` are taken for the two or three digits they are given,
    and a fraction of any length for the thousandths it begins with;
  - `FlattenSeq` is followed from piece to piece (`UptoStep`), which gives the place of
    each piece (`Offsets`) and the list of what was read;
  - between pieces nothing is found: `NotSpaced` shows that pieces joined in any way
    never spell out the form that begins with a hemisphere, for it asks for a blank, digits
    and a point where no legible text has them.
  `~Exponent`, which `ReadAsWritten` has from the start, is needed: only with it the
  E of a longitude is no exponent to `atof` (`EndPlain`).
- The attempt to prove `StaysInText` showed that it was false as it stood: if a
  latitude waits and the last character of the text is a digit, or a date ends right
  before the last character, the next turn begins at the terminating zero and steps
  over it. A text with which TLC shows it is now one of the run, and the property has the
  disjunct `DigitAtEnd` for it.
- `CalendarInv` gives the number of a day in closed form (`DayOf`), in which the
  calendar that goes day by day and the sums of `ddmmyyyy2time` can be compared,
  and says that a message is read in the year it is sent or the next. The number of
  leap years is a cardinality that one lemma follows from year to year. The proof
  needs the error of `Off` for all years, not only those of the run, and so it counts
  every century without a leap day. It also showed that a refusal of `extractUtc`
  can be stated more sharply: no day up to the 28th is refused outside December.

The type invariants of `Reassembly`, `Service`, `Receiver` and `NativeFraming`, and
`OpenIsStretch`, are proved and are in no run.

The lemmas follow the code: what a slot is, what `Opened`, `Updated`, `Checked`
and `Delivery` return, what `Keep` and `Finish` change, and that `Keep` is a
`Hear` and `Finish` a `Finish` of `Assembly`.

Assumptions of the constants: sentences have the shape of `Shape`, form a finite
set and have no time 0; `Code` is part of `Char`; `MaxBuffer` is a number;
`NoPart` and `Free` are not a fragment and not a slot; expiries are a set of
numbers that is not empty, bounds are numbers; a stream is a sequence of tokens, and
an NMEA line has at most two characters behind its '*'; `PositionsIn` of a text is at most
`MaxPositions`; `None` is no message in hand. TLC evaluates all of them.

Model-checked only: liveness (`StopLeaves`, `ProcessEnds`, `StopReturns`,
`EventuallyLoaded`, `DetachEnds`), which is out of the prover's reach;
`ReadAsWritten` for texts that are not legible, with lost digits, with minutes behind a
point or with the form that begins with a hemisphere, whose last character
is searched again; and that `parse` undoes
`serialize` (`ReadsBack`), where `Json` needs RECURSIVE operators. An induction over data is
not available as a rule; where a recursive function is over numbers (`Frames`, the
leap years, the sums of month lengths), the proofs take the least place at which the claim fails, and refute it.

## 7. Not modelled, and why

- **SQLite** (`sqlite/`): vendored, and 236,729 of the repository's 240,869 lines
  of code (`sqlite3.c` 223,893, `sqlite3.h` 12,836). What its statements do to the tables of `db.cpp` is in `Store`; the library
  itself is no logic of this program. Any share of the implementation that the
  model covers is to be read against the 4,140 lines of the rest, of which it
  covers half of those that are not blank.
- Installation, start and stop from the command line (`ns.cpp`): calls into the
  service manager that keep no state. `test.cpp`: a loop around the API for manual
  use. `navtex/!`: an earlier copy of the tools that nothing builds. `res_def.h`:
  constants, copied from another program.
- The sum itself that `calcCRC` computes (`sentence.cpp:4`): the two digits are right or
  not. A change of `useNativeProtocol` while a stream comes in.
- `getValue`, `at`, `setAt` and `walkThrough` of `json/`, `ddmmyyyy2time` of a string
  and most conversions of `tools.cpp`: no caller, or a single expression.
- Rounding of floating point has no counterpart in TLA+; angles are exact here.
- Which parts of two strings come out when one is read while it is assigned.
- What undefined behaviour may do beyond ending the process, going unnoticed or
  giving any value of the right type: overruns of `query[100]`, `query[5000]`,
  `text[1000]` and of the read buffer by `strlen` (`navtex.cpp:195`).
- Calls of the host from inside a callback, or from several threads.

## 8. Plan

Every component with logic of its own has its module, and the safety properties of
all of them are proved, `ReadAsWritten` for legible texts. Left, in this order:

1. `ReadAsWritten` for the three forms that `Legible` leaves out. Two of them make the
   matchers write zeros into the text behind the place of the search, so that
   `Kept` has to say what they leave.
2. `NativeFraming` in place of `Reassembly` in front of `Store`: what a framed
   message goes through is the same `processNativeMsg`.
3. Calls of Start and Stop from inside a callback, and from several threads.
