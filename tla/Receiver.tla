------------------------------ MODULE Receiver ------------------------------
(***************************************************************************)
(* The life of a receiver channel: a host thread calls StartNavtexReceiver *)
(* and StopNavtexReceiver (navtex.cpp) while the channel's own thread      *)
(* reads from the serial port or the UDP socket, calls back and forwards   *)
(* serial data to UDP (nmea/channel.cpp, serial_reader.cpp,                *)
(* udp_reader.cpp).  Nothing is locked; a call of a reader is one step.    *)
(***************************************************************************)
EXTENDS Naturals

CONSTANT MaxStarts      \* bound: calls of StartNavtexReceiver

ASSUME StartsAssumption == MaxStarts \in Nat

Kind == {"serial", "udp"}

VARIABLES
    api,        \* where the host's call of Start or Stop is
    channel,    \* the global `reader` points to a channel
    running, active, type,  \* of the channel
    object,     \* object[k]: the reader of kind k: none, live or freed
    connected,  \* Reader::connected
    handle,     \* the reader holds an open port or socket
    lost,       \* open ports and sockets that nobody holds any more
    was,        \* configureChannel's local `connected`
    worker,     \* where Channel::workerProc is
    held,       \* its local `reader`
    alive,      \* FALSE once undefined behaviour has ended the process
    starts,     \* calls of Start so far
    restarted,  \* history: Start was called on a channel that was there
    touched,    \* history: the worker used a reader closed or freed
    overtaken   \* history: Start or Stop acted on the channel while the worker
                \* was in the middle of this iteration

readers == <<object, connected, handle, lost>>
host == <<api, channel, running, active, type, was, starts, restarted>>
vars == <<host, readers, worker, held, alive, touched, overtaken>>

Init ==
    /\ api = "idle" /\ channel = FALSE
    /\ running = FALSE /\ active = FALSE /\ type = "serial"
    /\ object = [k \in Kind |-> "none"]
    /\ connected = [k \in Kind |-> FALSE]
    /\ handle = [k \in Kind |-> FALSE]
    /\ lost = [k \in Kind |-> 0]
    /\ was = FALSE /\ worker = "none" /\ held = "serial"
    /\ alive = TRUE /\ starts = 0
    /\ restarted = FALSE /\ touched = FALSE /\ overtaken = FALSE

Open(k) == lost[k] + (IF handle[k] THEN 1 ELSE 0)

\* connect: a serial port opens only once; the handle held before is forgotten,
\* whether the new one opens or not.
Connect(k, works) ==
    LET opens == works /\ (k = "serial" => Open(k) = 0) IN
    /\ connected' = [connected EXCEPT ![k] = opens]
    /\ handle' = [handle EXCEPT ![k] = opens]
    /\ lost' = [lost EXCEPT ![k] = Open(k)]
    /\ UNCHANGED object

Disconnect(k) ==
    /\ connected' = [connected EXCEPT ![k] = FALSE]
    /\ handle' = [handle EXCEPT ![k] = FALSE]
    /\ UNCHANGED <<object, lost>>

\* ~Channel for one reader: disconnect and delete.
Free(k) ==
    /\ object' = [object EXCEPT ![k] = "freed"]
    /\ connected' = [connected EXCEPT ![k] = FALSE]
    /\ handle' = [handle EXCEPT ![k] = FALSE]
    /\ UNCHANGED lost

MidIteration == worker \in {"pick", "ask", "read", "callback", "forward"}

Goto(from, to) == api = from /\ api' = to

\* What a step of the host leaves alone.
HostOnly == UNCHANGED <<worker, held, alive, touched>>
Settled == UNCHANGED <<channel, running, active, type, was, starts, restarted>>
Overtakes == overtaken' = (overtaken \/ MidIteration)

-----------------------------------------------------------------------------
\* StartNavtexReceiver: the channel is created once, its thread with it.
Start ==
    /\ starts < MaxStarts /\ Goto("idle", "offSerial")
    /\ starts' = starts + 1
    /\ channel' = TRUE
    /\ IF channel
       THEN /\ restarted' = TRUE
            /\ UNCHANGED <<running, active, type, readers, worker>>
       ELSE /\ running' = TRUE /\ active' = FALSE /\ type' = "serial"
            /\ object' = [k \in Kind |-> "live"]
            /\ worker' = "test"
            /\ UNCHANGED <<restarted, connected, handle, lost>>
    /\ UNCHANGED <<was, held, alive, touched, overtaken>>

\* configureChannel, its first half: a connected reader is disconnected.
ConfigureOff(k, from, to) ==
    /\ Goto(from, to)
    /\ was' = connected[k]
    /\ IF connected[k] THEN Disconnect(k) ELSE UNCHANGED readers
    /\ Overtakes /\ HostOnly
    /\ UNCHANGED <<channel, running, active, type, starts, restarted>>

\* Its second half: it is connected again with the new parameters.
ConfigureOn(k, from, to) ==
    /\ Goto(from, to)
    /\ IF was THEN \E works \in BOOLEAN : Connect(k, works) ELSE UNCHANGED readers
    /\ Overtakes /\ HostOnly /\ Settled

\* setConnectionType, from the settings of the moment.
SetType ==
    /\ Goto("type", "connect")
    /\ type' \in Kind
    /\ Overtakes /\ HostOnly
    /\ UNCHANGED <<readers, channel, running, active, was, starts, restarted>>

\* connectChannel connects whether or not the reader is connected.
ConnectChannel ==
    /\ Goto("connect", "activate")
    /\ \E works \in BOOLEAN : Connect(type, works)
    /\ Overtakes /\ HostOnly /\ Settled

Activate ==
    /\ Goto("activate", "idle")
    /\ active' = TRUE
    /\ Overtakes /\ HostOnly
    /\ UNCHANGED <<readers, channel, running, type, was, starts, restarted>>

-----------------------------------------------------------------------------
\* Mutant: Stop leaves the channel active.
DeactivateForgotten ==
    /\ channel /\ Goto("idle", "close")
    /\ HostOnly /\ Settled /\ UNCHANGED <<readers, overtaken>>

\* StopNavtexReceiver, for a channel that is there.
Deactivate ==
    /\ channel /\ Goto("idle", "close")
    /\ active' = FALSE
    /\ Overtakes /\ HostOnly
    /\ UNCHANGED <<readers, channel, running, type, was, starts, restarted>>

Close ==
    /\ Goto("close", "freeSerial")
    /\ IF connected[type] THEN Disconnect(type) ELSE UNCHANGED readers
    /\ HostOnly /\ Settled /\ UNCHANGED overtaken

\* ~Channel deletes the readers before it stops the thread.
FreeReader(k, from, to) ==
    /\ Goto(from, to) /\ Free(k)
    /\ HostOnly /\ Settled /\ UNCHANGED overtaken

\* Mutant: the flag that ends the thread stays set.
StopRunningForgotten ==
    /\ Goto("stopRunning", "join")
    /\ HostOnly /\ Settled /\ UNCHANGED <<readers, overtaken>>

StopRunning ==
    /\ Goto("stopRunning", "join")
    /\ running' = FALSE
    /\ HostOnly
    /\ UNCHANGED <<readers, channel, active, type, was, starts, restarted, overtaken>>

\* Mutant: the thread is not waited for.
JoinDetached ==
    /\ Goto("join", "idle")
    /\ channel' = FALSE
    /\ object' = [k \in Kind |-> "none"]
    /\ UNCHANGED <<running, active, type, was, starts, restarted, connected,
                   handle, lost, worker, held, alive, touched, overtaken>>

\* join, then the channel is deleted and the global forgotten.
Join ==
    /\ worker = "ended" /\ Goto("join", "idle")
    /\ worker' = "none" /\ channel' = FALSE
    /\ object' = [k \in Kind |-> "none"]
    /\ UNCHANGED <<running, active, type, was, starts, restarted, connected,
                   handle, lost, held, alive, touched, overtaken>>

StartStep ==
    \/ ConfigureOff("serial", "offSerial", "onSerial")
    \/ ConfigureOn("serial", "onSerial", "offUdp")
    \/ ConfigureOff("udp", "offUdp", "onUdp")
    \/ ConfigureOn("udp", "onUdp", "type")
    \/ SetType \/ ConnectChannel \/ Activate

StopStep ==
    \/ Close
    \/ FreeReader("serial", "freeSerial", "freeUdp")
    \/ FreeReader("udp", "freeUdp", "stopRunning")
    \/ StopRunning \/ Join

-----------------------------------------------------------------------------
WorkerGoto(from, to) == worker = from /\ worker' = to

\* A deleted object, or a port handle that is not valid: commState is read
\* without having been written, and any amount of data is available.
Dangling(k) == object[k] = "freed" \/ (k = "serial" /\ ~handle[k])

\* Undefined behaviour ends the process, or goes unnoticed this time.
Undefined(from) ==
    /\ WorkerGoto(from, "sleep")
    /\ touched' = TRUE
    /\ alive' \in BOOLEAN
    /\ UNCHANGED <<readers, held, overtaken>>

Fine == UNCHANGED <<alive, touched>>

Test ==
    /\ \/ ~running /\ WorkerGoto("test", "ended")
       \/ running /\ active /\ WorkerGoto("test", "pick")
       \/ running /\ ~active /\ WorkerGoto("test", "sleep")
    /\ Fine /\ UNCHANGED <<readers, held, overtaken>>

Pick ==
    /\ WorkerGoto("pick", "ask")
    /\ held' = type
    /\ Fine /\ UNCHANGED <<readers, overtaken>>

\* reader->isConnected ()
Ask ==
    \/ object[held] = "freed" /\ Undefined("ask")
    \/ /\ object[held] # "freed"
       /\ WorkerGoto("ask", IF connected[held] THEN "read" ELSE "sleep")
       /\ Fine /\ UNCHANGED <<readers, held, overtaken>>

\* reader->getAvailableData: nothing, or a buffer for the callback.
ReadData ==
    \/ Dangling(held) /\ Undefined("read")
    \/ /\ ~Dangling(held)
       /\ WorkerGoto("read", "sleep") \/ WorkerGoto("read", "callback")
       /\ Fine /\ UNCHANGED <<readers, held, overtaken>>

\* onSentenceReceived has handled the data and forwards it if it is serial.
Callback ==
    /\ WorkerGoto("callback", IF type = "serial" THEN "forward" ELSE "sleep")
    /\ Fine /\ UNCHANGED <<readers, held, overtaken>>

\* Mutant: write connects every time.
ForwardReconnects ==
    \/ object["udp"] = "freed" /\ Undefined("forward")
    \/ /\ object["udp"] # "freed"
       /\ WorkerGoto("forward", "sleep")
       /\ \E works \in BOOLEAN : Connect("udp", works)
       /\ Fine /\ UNCHANGED <<held, overtaken>>

\* UdpReader::write connects if it has to.
Forward ==
    \/ object["udp"] = "freed" /\ Undefined("forward")
    \/ /\ object["udp"] # "freed"
       /\ WorkerGoto("forward", "sleep")
       /\ IF connected["udp"] THEN UNCHANGED readers
          ELSE \E works \in BOOLEAN : Connect("udp", works)
       /\ Fine /\ UNCHANGED <<held, overtaken>>

Sleep ==
    /\ WorkerGoto("sleep", "test")
    /\ overtaken' = FALSE
    /\ Fine /\ UNCHANGED <<readers, held>>

Host == alive /\ (Start \/ StartStep \/ Deactivate \/ StopStep)

Iterate ==
    Test \/ Pick \/ Ask \/ ReadData \/ Callback \/ Forward \/ Sleep

Worker == alive /\ Iterate /\ UNCHANGED host

Next == Host \/ Worker

\* A call of the host, once made, goes on; the worker thread is scheduled.
Fairness == WF_vars(alive /\ (StartStep \/ StopStep)) /\ WF_vars(Worker)

Spec == Init /\ [][Next]_vars /\ Fairness

-----------------------------------------------------------------------------
TypeOK ==
    /\ api \in {"idle", "offSerial", "onSerial", "offUdp", "onUdp", "type",
                "connect", "activate", "close", "freeSerial", "freeUdp",
                "stopRunning", "join"}
    /\ channel \in BOOLEAN /\ running \in BOOLEAN /\ active \in BOOLEAN
    /\ type \in Kind /\ held \in Kind
    /\ object \in [Kind -> {"none", "live", "freed"}]
    /\ connected \in [Kind -> BOOLEAN] /\ handle \in [Kind -> BOOLEAN]
    /\ lost \in [Kind -> Nat]
    /\ was \in BOOLEAN /\ alive \in BOOLEAN
    /\ worker \in {"none", "test", "pick", "ask", "read", "callback",
                   "forward", "sleep", "ended"}
    /\ starts \in 0..MaxStarts
    /\ restarted \in BOOLEAN /\ touched \in BOOLEAN /\ overtaken \in BOOLEAN
    /\ connected = handle

\* The worker uses a closed or deleted reader only in an iteration that Start or
\* Stop overtook: Stop clears `active` first, so no iteration that begins after
\* that touches what ~Channel deletes.
OnlyOvertakenDangles ==
    /\ (worker = "ask" /\ object[held] = "freed") => overtaken
    /\ (worker = "read" /\ Dangling(held)) => overtaken
    /\ (worker = "forward" /\ object["udp"] = "freed") => overtaken

\* When StopNavtexReceiver has returned, no thread of the channel is left to
\* call back.
QuietAfterStop == ~channel => worker = "none"

\* When it has returned, port and socket are closed, unless Start was called
\* twice in a row (connectChannel connects a connected reader once more).
HandlesReleased ==
    (~channel /\ ~restarted) => \A k \in Kind : Open(k) = 0

\* StopNavtexReceiver returns.
StopReturns == api = "close" ~> (api = "idle" \/ ~alive)
=============================================================================
