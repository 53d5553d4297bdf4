--------------------------- MODULE ReceiverProofs ---------------------------
(***************************************************************************)
(* The safety properties of Receiver, for any number of calls of Start.    *)
(* The inductive invariant says which of the host's steps may run with a   *)
(* reader deleted or a handle open: from Deactivate on the channel is not  *)
(* active, so that an iteration of the worker that is still under way was  *)
(* overtaken; and before Activate a channel that was started only once has *)
(* neither an iteration under way nor a handle open.                       *)
(***************************************************************************)
EXTENDS Receiver, TLAPS

Starting == {"offSerial", "onSerial", "offUdp", "onUdp", "type", "connect"}

Stopping == {"close", "freeSerial", "freeUdp", "stopRunning", "join"}

\* The host is inside a call only while there is a channel.
CallHasChannel == api # "idle" => channel

\* Between Deactivate and the end of the join no iteration is under way that
\* was not overtaken, and none begins.
StoppingIsSilent == api \in Stopping => ~active /\ (MidIteration => overtaken)

\* Readers are deleted one after the other, while the channel is stopping, and
\* a deleted reader holds nothing.
FreedWhileStopping ==
    /\ \A k \in Kind : object[k] = "freed" => api \in Stopping /\ ~handle[k]
    /\ api \in {"freeUdp", "stopRunning", "join"} => object["serial"] = "freed"
    /\ api \in {"stopRunning", "join"} => object["udp"] = "freed"

\* Until Start is called on a channel that is there, no handle is forgotten,
\* and the channel opens its first one in ConnectChannel.
OnceStarted ==
    ~restarted =>
        /\ ~was /\ \A k \in Kind : lost[k] = 0
        /\ ~channel => \A k \in Kind : ~handle[k]
        /\ api \in Starting \union {"activate"} => ~active /\ ~MidIteration
        /\ api \in Starting => \A k \in Kind : ~handle[k]

IInv ==
    /\ TypeOK
    /\ CallHasChannel
    /\ StoppingIsSilent
    /\ FreedWhileStopping
    /\ OnceStarted
    /\ OnlyOvertakenDangles
    /\ QuietAfterStop

-----------------------------------------------------------------------------
\* Where the invariant holds at first.
LEMMA InitInv == Init => IInv
<1>. SUFFICES ASSUME Init  PROVE IInv
  OBVIOUS
<1>1. starts \in 0..MaxStarts
  BY StartsAssumption DEF Init
<1>2. TypeOK
  BY <1>1 DEF Init, TypeOK, Kind
<1>3. CallHasChannel /\ StoppingIsSilent /\ FreedWhileStopping /\ OnceStarted
  BY DEF Init, CallHasChannel, StoppingIsSilent, FreedWhileStopping,
         OnceStarted, Starting, Stopping, MidIteration, Kind
<1>4. OnlyOvertakenDangles /\ QuietAfterStop
  BY DEF Init, OnlyOvertakenDangles, QuietAfterStop
<1>. QED
  BY <1>2, <1>3, <1>4 DEF IInv

\* What the three operations on a reader leave of its types.
LEMMA ReaderTypes ==
    ASSUME TypeOK, NEW k \in Kind,
           UNCHANGED readers \/ Disconnect(k) \/ Free(k)
               \/ \E works \in BOOLEAN : Connect(k, works)
    PROVE  /\ object' \in [Kind -> {"none", "live", "freed"}]
           /\ connected' \in [Kind -> BOOLEAN] /\ handle' \in [Kind -> BOOLEAN]
           /\ lost' \in [Kind -> Nat]
           /\ connected' = handle'
<1>1. CASE UNCHANGED readers
  BY <1>1 DEF TypeOK, readers
<1>2. CASE Disconnect(k)
  BY <1>2 DEF TypeOK, Disconnect
<1>3. CASE Free(k)
  BY <1>3 DEF TypeOK, Free
<1>4. ASSUME NEW works \in BOOLEAN, Connect(k, works)
      PROVE  /\ object' \in [Kind -> {"none", "live", "freed"}]
             /\ connected' \in [Kind -> BOOLEAN] /\ handle' \in [Kind -> BOOLEAN]
             /\ lost' \in [Kind -> Nat]
             /\ connected' = handle'
  <2>1. Open(k) \in Nat
    BY DEF TypeOK, Open
  <2>. DEFINE opens == works /\ (k = "serial" => Open(k) = 0)
  <2>2. opens \in BOOLEAN
    OBVIOUS
  <2>3. /\ connected' = [connected EXCEPT ![k] = opens]
        /\ handle' = [handle EXCEPT ![k] = opens]
        /\ lost' = [lost EXCEPT ![k] = Open(k)]
        /\ object' = object
    BY <1>4 DEF Connect
  <2>. QED
    BY <2>1, <2>2, <2>3 DEF TypeOK
<1>. QED
  BY <1>1, <1>2, <1>3, <1>4

-----------------------------------------------------------------------------
\* The parts of the invariant that say more than types.
Core ==
    /\ CallHasChannel /\ StoppingIsSilent /\ FreedWhileStopping
    /\ OnceStarted /\ OnlyOvertakenDangles /\ QuietAfterStop

\* StartNavtexReceiver: what the first half of the invariant needs of it is that
\* it resets no history.
LEMMA StartInv == IInv /\ alive /\ Start => IInv'
<1>. SUFFICES ASSUME IInv, alive, Start  PROVE IInv'
  OBVIOUS
<1>. DEFINE fresh == [k \in Kind |-> "live"]
<1>1. /\ starts' \in 0..MaxStarts /\ channel' = TRUE /\ api' = "offSerial"
      /\ connected' = connected /\ handle' = handle /\ lost' = lost
      /\ was' = was /\ held' = held /\ touched' = touched /\ alive' = alive
      /\ overtaken' = overtaken /\ api = "idle"
  BY StartsAssumption DEF IInv, TypeOK, Start, Goto, readers
<1>2. CASE channel
  <2>1. /\ restarted' = TRUE /\ running' = running /\ active' = active
        /\ type' = type /\ object' = object /\ worker' = worker
    BY <1>2 DEF Start, readers
  <2>. QED
    BY <1>1, <1>2, <2>1 DEF IInv, TypeOK, CallHasChannel, StoppingIsSilent,
       FreedWhileStopping, OnceStarted, OnlyOvertakenDangles, QuietAfterStop,
       Starting, Stopping, MidIteration, Dangling
<1>3. CASE ~channel
  <2>1. /\ restarted' = restarted /\ running' = TRUE /\ active' = FALSE
        /\ type' = "serial" /\ object' = fresh /\ worker' = "test"
    BY <1>3 DEF Start
  <2>2. /\ fresh \in [Kind -> {"none", "live", "freed"}]
        /\ \A k \in Kind : fresh[k] # "freed"
        /\ fresh["udp"] # "freed"
    BY DEF Kind
  <2>. HIDE DEF fresh
  <2>3. TypeOK'
    BY <1>1, <2>1, <2>2 DEF IInv, TypeOK, Kind
  <2>4. (CallHasChannel /\ StoppingIsSilent /\ FreedWhileStopping)'
    BY <1>1, <2>1, <2>2 DEF CallHasChannel, StoppingIsSilent,
       FreedWhileStopping, Stopping, MidIteration
  <2>5. OnceStarted'
    BY <1>1, <1>3, <2>1 DEF IInv, TypeOK, CallHasChannel, OnceStarted,
       Starting, MidIteration
  <2>6. (OnlyOvertakenDangles /\ QuietAfterStop)'
    BY <1>1, <2>1 DEF OnlyOvertakenDangles, QuietAfterStop
  <2>. QED
    BY <2>3, <2>4, <2>5, <2>6 DEF IInv
<1>. QED
  BY <1>2, <1>3

\* configureChannel, its first half, for the reader of kind k.
LEMMA ConfigureOffInv ==
    ASSUME IInv, NEW k \in Kind, NEW from \in Starting, NEW to \in Starting,
           ConfigureOff(k, from, to)
    PROVE  IInv'
<1>1. UNCHANGED readers \/ Disconnect(k)
  BY DEF ConfigureOff
<1>2. TypeOK'
  BY <1>1, ReaderTypes DEF IInv, TypeOK, ConfigureOff, Goto, Overtakes,
     HostOnly, Starting
<1>3. Core'
  BY <1>1 DEF IInv, TypeOK, Core, ConfigureOff, Disconnect, Goto, Overtakes,
         HostOnly, readers, Kind, CallHasChannel,
         StoppingIsSilent, FreedWhileStopping, OnceStarted,
         OnlyOvertakenDangles, QuietAfterStop, Starting, Stopping,
         MidIteration, Dangling
<1>. QED
  BY <1>2, <1>3 DEF IInv, Core

\* Its second half: only a reader that was connected is connected again, which
\* no reader is in the first Start.
LEMMA ConfigureOnInv ==
    ASSUME IInv, NEW k \in Kind, NEW from \in Starting, NEW to \in Starting,
           ConfigureOn(k, from, to)
    PROVE  IInv'
<1>1. \/ ~was /\ UNCHANGED readers
      \/ was /\ \E works \in BOOLEAN : Connect(k, works)
  BY DEF ConfigureOn
<1>2. TypeOK'
  BY <1>1, ReaderTypes DEF IInv, TypeOK, ConfigureOn, Goto, Overtakes,
     HostOnly, Settled, Starting
<1>3. object' = object
  BY <1>1 DEF readers, Connect
<1>4. Core'
  BY <1>1, <1>2, <1>3 DEF IInv, TypeOK, Core, ConfigureOn, Goto, Overtakes,
         HostOnly, Settled, readers, Kind, CallHasChannel,
         StoppingIsSilent, FreedWhileStopping, OnceStarted,
         OnlyOvertakenDangles, QuietAfterStop, Starting, Stopping,
         MidIteration, Dangling
<1>. QED
  BY <1>2, <1>4 DEF IInv, Core

\* setConnectionType, and the connection: until then a channel started once has
\* no handle open, so that none is forgotten.
LEMMA SetTypeInv == IInv /\ SetType => IInv'
<1>. SUFFICES ASSUME IInv, SetType  PROVE IInv'
  OBVIOUS
<1>1. TypeOK'
  BY DEF IInv, TypeOK, SetType, Goto, Overtakes, HostOnly, readers
<1>2. Core'
  BY DEF IInv, TypeOK, Core, SetType, Goto, Overtakes, HostOnly, readers,
         CallHasChannel, StoppingIsSilent, FreedWhileStopping, OnceStarted,
         OnlyOvertakenDangles, QuietAfterStop, Starting, Stopping,
         MidIteration, Dangling
<1>. QED
  BY <1>1, <1>2 DEF IInv, Core

LEMMA ConnectChannelInv == IInv /\ ConnectChannel => IInv'
<1>. SUFFICES ASSUME IInv, ConnectChannel  PROVE IInv'
  OBVIOUS
<1>1. PICK works \in BOOLEAN : Connect(type, works)
  BY DEF ConnectChannel
<1>2. type \in Kind
  BY DEF IInv, TypeOK
<1>3. TypeOK'
  BY <1>1, <1>2, ReaderTypes DEF IInv, TypeOK, ConnectChannel, Goto, Overtakes,
     HostOnly, Settled
<1>4. object' = object /\ lost' = [lost EXCEPT ![type] = Open(type)]
  BY <1>1 DEF Connect
<1>5. ~restarted => \A k \in Kind : lost'[k] = 0
  BY <1>2, <1>4 DEF IInv, TypeOK, OnceStarted, ConnectChannel, Goto, Starting,
     Open
<1>6. Core'
  BY <1>3, <1>4, <1>5 DEF IInv, TypeOK, Core, ConnectChannel, Goto, Overtakes,
         HostOnly, Settled, CallHasChannel, StoppingIsSilent, FreedWhileStopping, OnceStarted,
         OnlyOvertakenDangles, QuietAfterStop, Starting, Stopping,
         MidIteration, Dangling
<1>. QED
  BY <1>3, <1>6 DEF IInv, Core

\* The channel becomes active: Start has returned.
LEMMA ActivateInv == IInv /\ Activate => IInv'
<1>. SUFFICES ASSUME IInv, Activate  PROVE IInv'
  OBVIOUS
<1>1. TypeOK'
  BY DEF IInv, TypeOK, Activate, Goto, Overtakes, HostOnly, readers
<1>2. Core'
  BY DEF IInv, TypeOK, Core, Activate, Goto, Overtakes, HostOnly, readers, Kind, CallHasChannel,
         StoppingIsSilent, FreedWhileStopping, OnceStarted,
         OnlyOvertakenDangles, QuietAfterStop, Starting, Stopping,
         MidIteration, Dangling
<1>. QED
  BY <1>1, <1>2 DEF IInv, Core

\* Stop begins: what the worker is in the middle of is overtaken.
LEMMA DeactivateInv == IInv /\ Deactivate => IInv'
<1>. SUFFICES ASSUME IInv, Deactivate  PROVE IInv'
  OBVIOUS
<1>1. TypeOK'
  BY DEF IInv, TypeOK, Deactivate, Goto, Overtakes, HostOnly, readers
<1>2. Core'
  BY DEF IInv, TypeOK, Core, Deactivate, Goto, Overtakes, HostOnly, readers, Kind, CallHasChannel,
         StoppingIsSilent, FreedWhileStopping, OnceStarted,
         OnlyOvertakenDangles, QuietAfterStop, Starting, Stopping,
         MidIteration, Dangling
<1>. QED
  BY <1>1, <1>2 DEF IInv, Core

\* closeConnection: the worker may be about to read, in an overtaken iteration.
LEMMA CloseInv == IInv /\ Close => IInv'
<1>. SUFFICES ASSUME IInv, Close  PROVE IInv'
  OBVIOUS
<1>1. type \in Kind /\ (UNCHANGED readers \/ Disconnect(type))
  BY DEF IInv, TypeOK, Close
<1>2. TypeOK'
  BY <1>1, ReaderTypes DEF IInv, TypeOK, Close, Goto, HostOnly, Settled
<1>3. Core'
  BY <1>1 DEF IInv, TypeOK, Core, Close, Disconnect, Goto, HostOnly, Settled,
         readers, CallHasChannel, StoppingIsSilent, FreedWhileStopping, OnceStarted,
         OnlyOvertakenDangles, QuietAfterStop, Starting, Stopping,
         MidIteration, Dangling
<1>. QED
  BY <1>2, <1>3 DEF IInv, Core

\* ~Channel deletes a reader, and then the other.
LEMMA FreeReaderInv ==
    ASSUME IInv,
           FreeReader("serial", "freeSerial", "freeUdp")
               \/ FreeReader("udp", "freeUdp", "stopRunning")
    PROVE  IInv'
<1>1. PICK k \in Kind : /\ Free(k) /\ HostOnly /\ Settled
                        /\ overtaken' = overtaken
                        /\ \/ k = "serial" /\ api = "freeSerial" /\ api' = "freeUdp"
                           \/ k = "udp" /\ api = "freeUdp" /\ api' = "stopRunning"
  BY DEF FreeReader, Goto, Kind
<1>2. TypeOK'
  BY <1>1, ReaderTypes DEF IInv, TypeOK, HostOnly, Settled
<1>3. Core'
  BY <1>1 DEF IInv, TypeOK, Core, Free, HostOnly, Settled, Kind,
         CallHasChannel, StoppingIsSilent, FreedWhileStopping, OnceStarted,
         OnlyOvertakenDangles, QuietAfterStop, Starting, Stopping,
         MidIteration, Dangling
<1>. QED
  BY <1>2, <1>3 DEF IInv, Core

\* The flag that ends the worker.
LEMMA StopRunningInv == IInv /\ StopRunning => IInv'
<1>. SUFFICES ASSUME IInv, StopRunning  PROVE IInv'
  OBVIOUS
<1>1. TypeOK'
  BY DEF IInv, TypeOK, StopRunning, Goto, HostOnly, readers
<1>2. Core'
  BY DEF IInv, TypeOK, Core, StopRunning, Goto, HostOnly, readers, Kind, CallHasChannel,
         StoppingIsSilent, FreedWhileStopping, OnceStarted,
         OnlyOvertakenDangles, QuietAfterStop, Starting, Stopping,
         MidIteration, Dangling
<1>. QED
  BY <1>1, <1>2 DEF IInv, Core

\* The join: both readers are deleted, and hold nothing.
LEMMA JoinInv == IInv /\ Join => IInv'
<1>. SUFFICES ASSUME IInv, Join  PROVE IInv'
  OBVIOUS
<1>. DEFINE gone == [k \in Kind |-> "none"]
<1>1. /\ object' = gone /\ api = "join" /\ api' = "idle"
      /\ worker' = "none" /\ channel' = FALSE
      /\ UNCHANGED <<running, active, type, was, starts, restarted, connected,
                     handle, lost, held, alive, touched, overtaken>>
  BY DEF Join, Goto
<1>2. gone \in [Kind -> {"none", "live", "freed"}]
      /\ \A k \in Kind : gone[k] # "freed"
  OBVIOUS
<1>. HIDE DEF gone
<1>3. TypeOK'
  BY <1>1, <1>2 DEF IInv, TypeOK
<1>4. \A k \in Kind : ~handle[k]
  BY <1>1 DEF IInv, FreedWhileStopping, Kind
<1>5. Core'
  BY <1>1, <1>2, <1>4 DEF IInv, TypeOK, Core, CallHasChannel,
         StoppingIsSilent, FreedWhileStopping, OnceStarted,
         OnlyOvertakenDangles, QuietAfterStop, Starting, Stopping,
         MidIteration, Dangling
<1>. QED
  BY <1>3, <1>5 DEF IInv, Core

-----------------------------------------------------------------------------
\* The steps of the worker that leave the readers alone: only Test begins an
\* iteration, and only on an active channel; only Sleep forgets that one was
\* overtaken, and it is over then.
LEMMA QuietStepInv ==
    ASSUME IInv, UNCHANGED host, UNCHANGED readers,
           Test \/ Pick \/ Ask \/ ReadData \/ Callback \/ Sleep
    PROVE  IInv'
<1>. USE DEF WorkerGoto, Undefined, Fine
<1>1. TypeOK'
  <2>1. /\ worker' \in {"none", "test", "pick", "ask", "read", "callback",
                        "forward", "sleep", "ended"}
        /\ held' \in Kind /\ alive' \in BOOLEAN
        /\ touched' \in BOOLEAN /\ overtaken' \in BOOLEAN
    BY DEF IInv, TypeOK, Test, Pick, Ask, ReadData, Callback, Sleep
  <2>. QED
    BY <2>1 DEF IInv, TypeOK, host, readers
<1>2. worker # "none" /\ worker' # "none"
  BY DEF Test, Pick, Ask, ReadData, Callback, Sleep
<1>3. (CallHasChannel /\ FreedWhileStopping /\ QuietAfterStop)'
  BY <1>2 DEF IInv, CallHasChannel, FreedWhileStopping, QuietAfterStop, host,
     readers
<1>4. MidIteration' => overtaken' = overtaken /\ (MidIteration \/ active)
  BY DEF Test, Pick, Ask, ReadData, Callback, Sleep, MidIteration
<1>5. (StoppingIsSilent /\ OnceStarted)'
  BY <1>4 DEF IInv, StoppingIsSilent, OnceStarted, host, readers, Starting
<1>6. OnlyOvertakenDangles'
  <2>1. (\E k \in Kind : object[k] = "freed") => StoppingIsSilent /\ api \in Stopping
    BY DEF IInv, FreedWhileStopping
  <2>2. (worker' \in {"ask", "forward"} /\ \E k \in Kind : object[k] = "freed")
            => overtaken'
    BY <1>4, <1>5, <2>1 DEF StoppingIsSilent, MidIteration, host
  <2>3. worker' = "read" => worker = "ask" /\ held' = held /\ ~Dangling(held)
    BY DEF IInv, TypeOK, Test, Pick, Ask, ReadData, Callback, Sleep, Dangling
  <2>4. held' \in Kind /\ "udp" \in Kind
    BY <1>1 DEF TypeOK, Kind
  <2>. QED
    BY <2>2, <2>3, <2>4 DEF OnlyOvertakenDangles, Dangling, readers
<1>. QED
  BY <1>1, <1>3, <1>5, <1>6 DEF IInv

\* Forwarding opens the socket only if it is not open, so that none is forgotten.
LEMMA ForwardInv ==
    ASSUME IInv, UNCHANGED host, Forward
    PROVE  IInv'
<1>. USE DEF WorkerGoto, Undefined, Fine
<1>1. worker = "forward" /\ worker' = "sleep" /\ "udp" \in Kind
  BY DEF Forward, Kind
<1>2. /\ overtaken' = overtaken /\ held' = held
      /\ alive' \in BOOLEAN /\ touched' \in BOOLEAN
  BY DEF IInv, TypeOK, Forward
<1>3. \/ UNCHANGED readers
      \/ ~connected["udp"] /\ object["udp"] # "freed"
         /\ \E works \in BOOLEAN : Connect("udp", works)
  BY DEF Forward
<1>4. TypeOK'
  BY <1>1, <1>2, <1>3, ReaderTypes DEF IInv, TypeOK, host
<1>5. channel /\ worker # "none" /\ MidIteration /\ ~MidIteration'
  BY <1>1 DEF IInv, QuietAfterStop, MidIteration
<1>6. (CallHasChannel /\ StoppingIsSilent /\ QuietAfterStop)'
  BY <1>5 DEF IInv, CallHasChannel, StoppingIsSilent, QuietAfterStop, host
<1>7. FreedWhileStopping'
  BY <1>1, <1>3 DEF IInv, TypeOK, FreedWhileStopping, host, readers, Connect
<1>8. OnceStarted'
  <2>1. lost' = lost
    BY <1>1, <1>3 DEF IInv, TypeOK, Connect, readers, OnceStarted, Open
  <2>. QED
    BY <1>1, <1>5, <2>1 DEF IInv, OnceStarted, host, Starting
<1>9. OnlyOvertakenDangles'
  BY <1>1 DEF OnlyOvertakenDangles
<1>. QED
  BY <1>4, <1>6, <1>7, <1>8, <1>9 DEF IInv

LEMMA StutterInv == IInv /\ UNCHANGED vars => IInv'
BY DEF IInv, vars, host, readers, TypeOK, CallHasChannel, StoppingIsSilent,
   FreedWhileStopping, OnceStarted, OnlyOvertakenDangles, QuietAfterStop,
   MidIteration, Dangling

LEMMA NextInv == IInv /\ [Next]_vars => IInv'
<1>. SUFFICES ASSUME IInv, [Next]_vars  PROVE IInv'
  OBVIOUS
<1>1. CASE Host
  <2>1. CASE alive /\ Start
    BY <2>1, StartInv
  <2>2. CASE StartStep
    <3>. {"offSerial", "onSerial", "offUdp", "onUdp", "type"} \subseteq Starting
         /\ {"serial", "udp"} \subseteq Kind
      BY DEF Starting, Kind
    <3>. QED
      BY <2>2, ConfigureOffInv, ConfigureOnInv, SetTypeInv, ConnectChannelInv,
         ActivateInv DEF StartStep
  <2>3. CASE Deactivate
    BY <2>3, DeactivateInv
  <2>4. CASE StopStep
    BY <2>4, CloseInv, FreeReaderInv, StopRunningInv, JoinInv DEF StopStep
  <2>. QED
    BY <1>1, <2>1, <2>2, <2>3, <2>4 DEF Host
<1>2. CASE Worker
  <2>1. UNCHANGED host
    BY <1>2 DEF Worker
  <2>2. CASE Forward
    BY <2>1, <2>2, ForwardInv
  <2>3. CASE Test \/ Pick \/ Ask \/ ReadData \/ Callback \/ Sleep
    <3>1. UNCHANGED readers
      BY <2>3 DEF Test, Pick, Ask, ReadData, Callback, Sleep, Undefined
    <3>. QED
      BY <2>1, <2>3, <3>1, QuietStepInv
  <2>. QED
    BY <1>2, <2>2, <2>3 DEF Worker, Iterate
<1>3. CASE UNCHANGED vars
  BY <1>3, StutterInv
<1>. QED
  BY <1>1, <1>2, <1>3 DEF Next

THEOREM Invariance == Spec => []IInv
<1>. QED
  BY InitInv, NextInv, PTL DEF Spec

-----------------------------------------------------------------------------
\* The values the variables of a receiver take; a reader is connected exactly
\* while it holds a port or a socket.
THEOREM ReceiverTypes == Spec => []TypeOK
<1>. IInv => TypeOK
  BY DEF IInv
<1>. QED
  BY Invariance, PTL

\* However often a receiver is started and stopped, its thread uses a reader that
\* is closed or deleted only in an iteration that Start or Stop overtook.
THEOREM DanglesOvertaken == Spec => []OnlyOvertakenDangles
<1>. IInv => OnlyOvertakenDangles
  BY DEF IInv
<1>. QED
  BY Invariance, PTL

\* After StopNavtexReceiver no thread of the channel is left to call back.
THEOREM StopIsQuiet == Spec => []QuietAfterStop
<1>. IInv => QuietAfterStop
  BY DEF IInv
<1>. QED
  BY Invariance, PTL

\* After StopNavtexReceiver port and socket are closed, unless Start was called
\* twice in a row.
THEOREM StopReleases == Spec => []HandlesReleased
<1>1. IInv => HandlesReleased
  BY DEF IInv, TypeOK, OnceStarted, HandlesReleased, Open
<1>. QED
  BY <1>1, Invariance, PTL
=============================================================================
