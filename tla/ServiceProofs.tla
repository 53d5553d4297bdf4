---------------------------- MODULE ServiceProofs ----------------------------
(***************************************************************************)
(* The safety properties of Service, for any number of processes started   *)
(* one after the other and any of the failures.  A process is Over once    *)
(* its worker has left the loop, or there will be none and the stop event  *)
(* is not held.  The invariant says that STOPPED is only ever assigned,    *)
(* passed on or reported by a process that is Over, or by one that is      *)
(* about to be so since it has failed to make the event; and that a set    *)
(* event is held only by processes that may see it.                        *)
(***************************************************************************)
EXTENDS Service, TLAPS

\* Where svcMain may be.
SvcPlace == {"none", "register", "startPending", "startPendingSet", "event",
             "running", "runningSet", "create", "assign", "failed", "failedSet",
             "done"}

\* svcMain has no event yet, or will have none.
Eventless == {"none", "register", "startPending", "startPendingSet", "event",
              "failed", "failedSet"}

\* svcMain has reported RUNNING.
Launched == {"create", "assign", "done"}

Over(i) == Left(i) \/ (NoWorker(i) /\ i \notin holders)

\* What the threads of a process know of each other.
ThreadsAgree(i) ==
    /\ main[i] = "none" =>
          svc[i] = "none" /\ reported[i] = "NONE" /\ handler[i] = "idle"
    /\ handler[i] # "idle" => told[i] /\ svc[i] \in Launched
    /\ worker[i] # "none" => svc[i] \in {"assign", "done"}
    /\ status[i] = "RUNNING" => svc[i] \in Launched \union {"runningSet"}
    /\ reported[i] = "RUNNING" => svc[i] \in Launched
    /\ joinable[i] => worker[i] # "none"
    /\ main[i] = "waiting" => stopped[i]
    /\ svc[i] = "assign" => worker[i] # "none"

\* Where STOPPED may stand.
StoppedIsOver(i) ==
    /\ status[i] = "STOPPED" => Over(i) \/ svc[i] = "failedSet"
    /\ argument[i] = "STOPPED" => Over(i)
    /\ reported[i] = "STOPPED" => Over(i)
    /\ stopped[i] => Over(i)

\* Who holds the event.
HandleKept(i) ==
    /\ svc[i] \in Eventless => i \notin holders /\ ~inherited[i]
    /\ (svc[i] \in {"running", "runningSet", "create"} \/ worker[i] = "polling")
          => i \in holders \/ ~Running(i)

\* A process is started when those before are over.
StartedInTurn ==
    \A i, j \in Instance : (j < i /\ main[i] # "none") => Over(j)

\* Of two processes that hold the event the later one found it there.
LaterInherits ==
    \A i, j \in holders : j < i => inherited[i]

\* Once the event is set, every process that holds it was told to stop or found
\* it there.
SetForHolders == signalled => \A i \in holders : told[i] \/ inherited[i]

IInv ==
    /\ TypeOK
    /\ \A i \in Instance : ThreadsAgree(i) /\ StoppedIsOver(i) /\ HandleKept(i)
    /\ StartedInTurn
    /\ LaterInherits
    /\ SetForHolders
    /\ LeavesOnlyWhenTold

\* The parts of the invariant about one process.
Local(i) == ThreadsAgree(i) /\ StoppedIsOver(i) /\ HandleKept(i)

\* What a step of process i leaves of another.
Apart(i) ==
    \A j \in Instance \ {i} :
        /\ main'[j] = main[j] /\ svc'[j] = svc[j] /\ handler'[j] = handler[j]
        /\ argument'[j] = argument[j] /\ worker'[j] = worker[j]
        /\ joinable'[j] = joinable[j] /\ status'[j] = status[j]
        /\ reported'[j] = reported[j] /\ stopped'[j] = stopped[j]
        /\ told'[j] = told[j] /\ inherited'[j] = inherited[j]
        /\ j \in holders' <=> j \in holders

\* What a step of process i may do to it, to those before it and to the event.
Forward(i) ==
    /\ Over(i) => Over(i)'
    /\ (Left(i) => told[i] \/ inherited[i])'
    /\ told[i] => told'[i]
    /\ inherited[i] => inherited'[i]
    /\ main'[i] # "none" => \A j \in Instance : j < i => Over(j)
    /\ i \in holders' /\ i \notin holders =>
          (inherited'[i] <=> holders # {}) /\ \A j \in holders : j < i
    /\ signalled' => signalled \/ (i \in holders /\ told'[i])

-----------------------------------------------------------------------------
LEMMA InitInv == Init => IInv
<1>. SUFFICES ASSUME Init  PROVE IInv
  OBVIOUS
<1>1. TypeOK
  BY DEF Init, TypeOK, State
<1>2. ASSUME NEW i \in Instance  PROVE ThreadsAgree(i) /\ StoppedIsOver(i) /\ HandleKept(i)
  BY <1>2 DEF Init, ThreadsAgree, StoppedIsOver, HandleKept, Launched
<1>3. StartedInTurn /\ LaterInherits /\ SetForHolders /\ LeavesOnlyWhenTold
  BY DEF Init, StartedInTurn, LaterInherits, SetForHolders, LeavesOnlyWhenTold,
     Left
<1>. QED
  BY <1>1, <1>2, <1>3 DEF IInv

\* A process that is Over stays so, and what was told or found stays known:
\* the step of a process is checked at that process alone, and at the event.
LEMMA OtherProcesses ==
    ASSUME IInv, NEW i \in Instance, Apart(i), TypeOK', Local(i)', Forward(i)
    PROVE  IInv'
<1>. USE DEF Forward
<1>1. ASSUME NEW j \in Instance \ {i}  PROVE Local(j)' /\ (Over(j)' <=> Over(j))
  BY <1>1 DEF IInv, Apart, Local, ThreadsAgree, StoppedIsOver, HandleKept, Over, Left, NoWorker, Running,
     Eventless, Launched
<1>2. StartedInTurn'
  BY <1>1 DEF IInv, StartedInTurn, Apart, Instance
<1>3. holders \subseteq Instance /\ holders' \subseteq Instance
  BY DEF IInv, TypeOK
<1>4. LaterInherits'
  BY <1>3 DEF IInv, LaterInherits, Apart, Instance
<1>5. LeavesOnlyWhenTold'
  BY <1>1 DEF IInv, LeavesOnlyWhenTold, Apart, Left
<1>6. ASSUME signalled', NEW j \in holders'  PROVE told'[j] \/ inherited'[j]
  <2>1. CASE j \in holders /\ signalled
    BY <1>3, <2>1 DEF IInv, SetForHolders, Apart
  <2>2. CASE j \notin holders
    BY <1>3, <1>6, <2>2 DEF IInv, TypeOK, Apart
  <2>3. CASE j \in holders /\ ~signalled
    <3>1. i \in holders /\ told'[i] /\ j \in Instance
      BY <1>3, <1>6, <2>3
    <3>2. main[i] # "none"
      BY <3>1 DEF IInv, ThreadsAgree, HandleKept, Eventless
    <3>3. CASE j < i
      <4>1. Left(j)
        BY <2>3, <3>1, <3>2, <3>3 DEF IInv, StartedInTurn, Over
      <4>. QED
        BY <3>1, <3>3, <4>1 DEF IInv, LeavesOnlyWhenTold, Apart
    <3>4. CASE i < j
      BY <2>3, <3>1, <3>4 DEF IInv, LaterInherits, Apart, Instance
    <3>5. CASE i = j
      BY <3>1, <3>5
    <3>. QED
      BY <3>1, <3>3, <3>4, <3>5 DEF Instance
  <2>. QED
    BY <2>1, <2>2, <2>3
<1>7. SetForHolders'
  BY <1>6 DEF SetForHolders
<1>8. ASSUME NEW j \in Instance  PROVE (ThreadsAgree(j) /\ StoppedIsOver(j) /\ HandleKept(j))'
  BY <1>1, <1>8 DEF Local
<1>. QED
  BY <1>2, <1>4, <1>5, <1>7, <1>8 DEF IInv

-----------------------------------------------------------------------------

\* What reporting leaves of the types.
LEMMA ReportTypes ==
    ASSUME TypeOK, NEW i \in Instance,
           NoReport \/ SetServiceStatus(i) \/ \E value \in State : Assign(i, value)
    PROVE  /\ status' \in [Instance -> State]
           /\ reported' \in [Instance -> State]
           /\ stopped' \in [Instance -> BOOLEAN]
<1>1. CASE NoReport
  BY <1>1 DEF TypeOK, NoReport
<1>2. CASE SetServiceStatus(i)
  <2>. DEFINE now == stopped[i] \/ status[i] = "STOPPED"
  <2>1. stopped' = [stopped EXCEPT ![i] = now]
    BY <1>2 DEF SetServiceStatus
  <2>2. now \in BOOLEAN
    OBVIOUS
  <2>. HIDE DEF now
  <2>3. stopped' \in [Instance -> BOOLEAN]
    BY <2>1, <2>2 DEF TypeOK
  <2>. QED
    BY <1>2, <2>3 DEF TypeOK, SetServiceStatus
<1>3. CASE \E value \in State : Assign(i, value)
  BY <1>3 DEF TypeOK, Assign
<1>. QED
  BY <1>1, <1>2, <1>3

\* What closing the event leaves of the types.
LEMMA CloseTypes ==
    ASSUME TypeOK, NEW i \in Instance, CloseStopEvent(i)
    PROVE  /\ holders' \subseteq Instance
           /\ signalled' \in BOOLEAN
           /\ signalled' => holders' # {}
           /\ holders' \subseteq holders /\ (signalled' => signalled)
<1>1. holders' = holders \ {i} /\ signalled' = (signalled /\ holders # {i})
  BY DEF CloseStopEvent
<1>2. signalled' => holders \ {i} # {}
  <2>. SUFFICES ASSUME signalled'  PROVE holders \ {i} # {}
    OBVIOUS
  <2>1. holders # {} /\ holders # {i}
    BY <1>1 DEF TypeOK
  <2>. QED
    BY <2>1
<1>3. signalled' => signalled
  BY <1>1
<1>. QED
  BY <1>1, <1>2, <1>3 DEF TypeOK

\* A process starts when the one before has reported STOPPED, and so is Over; those
\* before that one were when it started.
LEMMA StartProcessInv ==
    ASSUME IInv, NEW i \in Instance, StartProcess(i)
    PROVE  IInv'
<1>. USE DEF StartProcess, NoReport
<1>1. TypeOK'
  BY DEF IInv, TypeOK, State
<1>2. Apart(i)
  BY DEF IInv, TypeOK, Apart
<1>3. Local(i)'
  BY DEF IInv, TypeOK, Local, ThreadsAgree, StoppedIsOver, HandleKept, Over, Left,
     NoWorker, Running, Eventless, Launched
<1>4. Forward(i)
  <2>1. main'[i] # "none" => \A j \in Instance : j < i => Over(j)
    <3>. SUFFICES ASSUME NEW j \in Instance, j < i  PROVE Over(j)
      OBVIOUS
    <3>1. i - 1 \in Instance /\ (i - 1) \in Nat /\ i > 1
      BY InstanceAssumption DEF Instance
    <3>2. reported[i - 1] = "STOPPED"
      BY <3>1
    <3>3. Over(i - 1) /\ main[i - 1] # "none"
      BY <3>1, <3>2 DEF IInv, StoppedIsOver, ThreadsAgree
    <3>4. j = i - 1 \/ j < i - 1
      BY <3>1 DEF Instance
    <3>. QED
      BY <3>1, <3>3, <3>4 DEF IInv, StartedInTurn
  <2>2. svc[i] = "none" /\ worker[i] = "none"
    BY DEF IInv, ThreadsAgree
  <2>. QED
    BY <2>1, <2>2 DEF Forward, Over, Left, NoWorker
<1>. QED
  BY <1>1, <1>2, <1>3, <1>4, OtherProcesses

\* A stop reaches a process that has reported RUNNING.
LEMMA DeliverStopInv ==
    ASSUME IInv, NEW i \in Instance, DeliverStop(i)
    PROVE  IInv'
<1>. USE DEF DeliverStop, NoReport
<1>1. TypeOK'
  BY DEF IInv, TypeOK, State
<1>2. Apart(i)
  BY DEF IInv, TypeOK, Apart
<1>3. Local(i)'
  BY DEF IInv, TypeOK, Local, ThreadsAgree, StoppedIsOver, HandleKept, Over, Left,
     NoWorker, Running, Eventless, Launched
<1>4. Forward(i)
  BY DEF IInv, TypeOK, Forward, StartedInTurn, LeavesOnlyWhenTold, Local, ThreadsAgree, StoppedIsOver, HandleKept, Over, Left,
     NoWorker, Running, Eventless, Launched
<1>. QED
  BY <1>1, <1>2, <1>3, <1>4, OtherProcesses

\* Without a handler the process ends before it has made anything.
LEMMA SvcRegisterInv ==
    ASSUME IInv, NEW i \in Instance, SvcThread(i), SvcRegister(i), NoReport,
           UNCHANGED <<handler, argument, worker, joinable, told, inherited>>
    PROVE  IInv'
<1>. USE DEF SvcRegister, SvcGoto, EndProcess, CloseStopEvent, NoReport
<1>1. TypeOK'
  <2>1. /\ holders' \subseteq Instance /\ signalled' \in BOOLEAN
        /\ signalled' => holders' # {}
    BY CloseTypes DEF IInv, TypeOK, CloseStopEvent
  <2>. QED
    BY <2>1 DEF IInv, TypeOK
<1>2. Apart(i)
  BY DEF IInv, TypeOK, Apart
<1>3. Local(i)'
  BY DEF IInv, TypeOK, Local, ThreadsAgree, StoppedIsOver, HandleKept, Over, Left,
     NoWorker, Running, Eventless, Launched
<1>4. Forward(i)
  BY DEF IInv, TypeOK, Forward, StartedInTurn, LeavesOnlyWhenTold, Local, ThreadsAgree, StoppedIsOver, HandleKept, Over, Left,
     NoWorker, Running, Eventless, Launched
<1>. QED
  BY <1>1, <1>2, <1>3, <1>4, OtherProcesses

\* svcMain reports for a process without a worker: STOPPED only without an event.
LEMMA SvcReportInv ==
    ASSUME IInv, NEW i \in Instance, SvcReport(i),
           UNCHANGED <<main, handler, argument, worker, joinable, signalled,
                       holders, told, inherited>>
    PROVE  IInv'
<1>. USE DEF SvcReport, SvcGoto, Assign, SetServiceStatus
<1>1. TypeOK'
  <2>1. SetServiceStatus(i) \/ \E value \in State : Assign(i, value)
    BY DEF SvcReport, State, SetServiceStatus, Assign
  <2>2. /\ status' \in [Instance -> State] /\ reported' \in [Instance -> State]
        /\ stopped' \in [Instance -> BOOLEAN]
    BY <2>1, ReportTypes DEF IInv
  <2>. QED
    BY <2>2 DEF IInv, TypeOK
<1>2. Apart(i)
  BY DEF IInv, TypeOK, Apart
<1>3. Local(i)'
  BY DEF IInv, TypeOK, Local, ThreadsAgree, StoppedIsOver, HandleKept, Over, Left,
     NoWorker, Running, Eventless, Launched
<1>4. Forward(i)
  BY DEF IInv, TypeOK, Forward, StartedInTurn, LeavesOnlyWhenTold, Local, ThreadsAgree, StoppedIsOver, HandleKept, Over, Left,
     NoWorker, Running, Eventless, Launched
<1>. QED
  BY <1>1, <1>2, <1>3, <1>4, OtherProcesses

\* The event is made, or the one of an earlier process is found.
LEMMA SvcCreateEventInv ==
    ASSUME IInv, NEW i \in Instance, SvcThread(i), SvcCreateEvent(i), NoReport,
           UNCHANGED <<main, handler, argument, worker, joinable, signalled, told>>
    PROVE  IInv'
<1>. USE DEF SvcCreateEvent, SvcGoto, NoReport
<1>1. TypeOK'
  <2>1. svc' \in [Instance -> SvcPlace]
    BY DEF IInv, TypeOK, SvcPlace
  <2>2. holders' \subseteq Instance /\ holders \subseteq holders'
    BY DEF IInv, TypeOK
  <2>3. inherited' \in [Instance -> BOOLEAN]
    BY DEF IInv, TypeOK
  <2>4. UNCHANGED <<main, handler, argument, worker, joinable, status, reported,
                    signalled, told, stopped>>
    OBVIOUS
  <2>. HIDE DEF SvcCreateEvent, NoReport
  <2>. QED
    BY <2>1, <2>2, <2>3, <2>4 DEF IInv, TypeOK, SvcPlace
<1>2. Apart(i)
  BY DEF IInv, TypeOK, Apart
<1>3. Local(i)'
  BY DEF IInv, TypeOK, Local, ThreadsAgree, StoppedIsOver, HandleKept, Over, Left,
     NoWorker, Running, Eventless, Launched
<1>4. Forward(i)
  <2>1. svc[i] = "event" /\ main[i] # "none" /\ worker[i] = "none" /\ i \notin holders
    BY DEF IInv, SvcThread, Local, ThreadsAgree, StoppedIsOver, HandleKept, Over, Left,
     NoWorker, Running, Eventless, Launched
  <2>2. ~Over(i) /\ ~Left(i)'
    BY <2>1 DEF Over, Left, NoWorker
  <2>3. ASSUME NEW j \in holders  PROVE j < i
    <3>1. j \in Instance /\ j # i /\ main[j] # "none"
      BY <2>1, <2>3 DEF IInv, TypeOK, ThreadsAgree, HandleKept, Eventless
    <3>2. ~(i < j)
      BY <2>2, <3>1 DEF IInv, StartedInTurn
    <3>. QED
      BY <3>1, <3>2 DEF Instance
  <2>4. \A j \in Instance : j < i => Over(j)
    BY <2>1 DEF IInv, StartedInTurn
  <2>5. ~inherited[i]
    BY <2>1 DEF IInv, HandleKept, Eventless
  <2>6. i \in holders' => (inherited'[i] <=> holders # {})
    BY <2>1, <1>1 DEF IInv, TypeOK
  <2>. QED
    BY <2>1, <2>2, <2>3, <2>4, <2>5, <2>6 DEF IInv, TypeOK, Forward
<1>. QED
  BY <1>1, <1>2, <1>3, <1>4, OtherProcesses

\* The worker begins, or there will be none.
LEMMA SvcCreateThreadInv ==
    ASSUME IInv, NEW i \in Instance, SvcThread(i), SvcCreateThread(i), NoReport,
           UNCHANGED <<main, handler, argument, signalled, holders, told,
                       inherited>>
    PROVE  IInv'
<1>. USE DEF SvcCreateThread, SvcGoto, NoReport
<1>1. TypeOK'
  <2>1. svc' \in [Instance -> SvcPlace]
    BY DEF IInv, TypeOK, SvcPlace
  <2>2. worker' \in {worker, [worker EXCEPT ![i] = "polling"]}
    OBVIOUS
  <2>3. joinable' \in [Instance -> BOOLEAN]
    BY DEF IInv, TypeOK
  <2>4. UNCHANGED <<main, handler, argument, status, reported, signalled, holders,
                    told, inherited, stopped>>
    OBVIOUS
  <2>. HIDE DEF SvcCreateThread, NoReport
  <2>. QED
    BY <2>1, <2>2, <2>3, <2>4 DEF IInv, TypeOK, SvcPlace
<1>2. Apart(i)
  BY DEF IInv, TypeOK, Apart
<1>3. Local(i)'
  BY DEF IInv, TypeOK, Local, ThreadsAgree, StoppedIsOver, HandleKept, Over, Left,
     NoWorker, Running, Eventless, Launched
<1>4. Forward(i)
  BY DEF IInv, TypeOK, Forward, StartedInTurn, LeavesOnlyWhenTold, Local, ThreadsAgree, StoppedIsOver, HandleKept, Over, Left,
     NoWorker, Running, Eventless, Launched
<1>. QED
  BY <1>1, <1>2, <1>3, <1>4, OtherProcesses

\* The handler passes on what it read of the status, and sets the event.
LEMMA HandlerThreadInv ==
    ASSUME IInv, NEW i \in Instance, HandlerThread(i)
    PROVE  IInv'
<1>. USE DEF HandlerThread, HandlerReport, HandlerSignal, HandlerRead, HandlerGoto,
         Assign, SetServiceStatus, NoReport
<1>1. TypeOK'
  <2>1. argument[i] \in State /\ status[i] \in State
    BY DEF IInv, TypeOK
  <2>2. NoReport \/ SetServiceStatus(i) \/ \E value \in State : Assign(i, value)
    BY <2>1 DEF HandlerThread, HandlerReport, State, SetServiceStatus, Assign,
       NoReport
  <2>3. /\ status' \in [Instance -> State] /\ reported' \in [Instance -> State]
        /\ stopped' \in [Instance -> BOOLEAN]
    BY <2>2, ReportTypes DEF IInv
  <2>4. holders' = holders
        /\ (signalled' = signalled \/ signalled' = (signalled \/ i \in holders))
    OBVIOUS
  <2>5. signalled' \in BOOLEAN
    BY <2>4 DEF IInv, TypeOK
  <2>6. signalled' => holders' # {}
    BY <2>4 DEF IInv, TypeOK
  <2>. QED
    BY <2>1, <2>3, <2>4, <2>5, <2>6 DEF IInv, TypeOK
<1>2. Apart(i)
  BY DEF IInv, TypeOK, Apart
<1>3. Local(i)'
  BY DEF IInv, TypeOK, Local, ThreadsAgree, StoppedIsOver, HandleKept, Over, Left,
     NoWorker, Running, Eventless, Launched
<1>4. Forward(i)
  BY DEF IInv, TypeOK, Forward, StartedInTurn, LeavesOnlyWhenTold, Local, ThreadsAgree, StoppedIsOver, HandleKept, Over, Left,
     NoWorker, Running, Eventless, Launched
<1>. QED
  BY <1>1, <1>2, <1>3, <1>4, OtherProcesses

\* The worker leaves when it sees the event set, and reports STOPPED after that.
LEMMA WorkerThreadInv ==
    ASSUME IInv, NEW i \in Instance, WorkerThread(i)
    PROVE  IInv'
<1>. USE DEF WorkerThread, WorkerLeave, WorkerReport, WorkerClose, WorkerGoto,
         Assign, SetServiceStatus, CloseStopEvent, NoReport
<1>1. TypeOK'
  <2>1. NoReport \/ SetServiceStatus(i) \/ \E value \in State : Assign(i, value)
    BY DEF State
  <2>2. /\ status' \in [Instance -> State] /\ reported' \in [Instance -> State]
        /\ stopped' \in [Instance -> BOOLEAN]
    BY <2>1, ReportTypes DEF IInv
  <2>3. UNCHANGED <<signalled, holders>> \/ CloseStopEvent(i)
    OBVIOUS
  <2>4. /\ holders' \subseteq Instance /\ signalled' \in BOOLEAN
        /\ signalled' => holders' # {}
    BY <2>3, CloseTypes DEF IInv, TypeOK
  <2>. QED
    BY <2>2, <2>4 DEF IInv, TypeOK
<1>2. Apart(i)
  BY DEF IInv, TypeOK, Apart
<1>3. Local(i)'
  BY DEF IInv, TypeOK, Local, ThreadsAgree, StoppedIsOver, HandleKept, Over, Left,
     NoWorker, Running, Eventless, Launched
<1>4. Forward(i)
  <2>1. main[i] # "none" /\ worker[i] # "none" /\ svc[i] \notin Eventless
    BY DEF IInv, Running, ThreadsAgree, Eventless
  <2>2. WorkerLeave(i) => told[i] \/ inherited[i]
    BY DEF IInv, HandleKept, SetForHolders
  <2>3. Left(i)'
    BY DEF IInv, TypeOK, Left
  <2>4. told[i] \/ inherited[i]
    BY <2>1, <2>2 DEF IInv, LeavesOnlyWhenTold, Left
  <2>5. holders' \subseteq holders /\ (signalled' => signalled)
    <3>1. UNCHANGED <<signalled, holders>> \/ CloseStopEvent(i)
      OBVIOUS
    <3>. QED
      BY <3>1, CloseTypes DEF IInv
  <2>. QED
    BY <2>1, <2>3, <2>4, <2>5 DEF IInv, Forward, Over, StartedInTurn
<1>. QED
  BY <1>1, <1>2, <1>3, <1>4, OtherProcesses

\* main ends the process when STOPPED was reported: the worker it terminates had
\* left its loop.
LEMMA MainThreadInv ==
    ASSUME IInv, NEW i \in Instance, MainThread(i)
    PROVE  IInv'
<1>. USE DEF MainThread, DispatcherReturns, MainJoins, MainTerminates, EndProcess,
         CloseStopEvent, NoReport
<1>1. TypeOK'
  <2>1. UNCHANGED <<signalled, holders>> \/ CloseStopEvent(i)
    OBVIOUS
  <2>2. /\ holders' \subseteq Instance /\ signalled' \in BOOLEAN
        /\ signalled' => holders' # {}
    BY <2>1, CloseTypes DEF IInv, TypeOK
  <2>. QED
    BY <2>2 DEF IInv, TypeOK
<1>2. Apart(i)
  BY DEF IInv, TypeOK, Apart
<1>3. Local(i)'
  BY DEF IInv, TypeOK, Local, ThreadsAgree, StoppedIsOver, HandleKept, Over, Left,
     NoWorker, Running, Eventless, Launched
<1>4. Forward(i)
  <2>1. main[i] # "none" /\ (MainTerminates(i) => Left(i))
    BY DEF IInv, ThreadsAgree, StoppedIsOver, Over, NoWorker
  <2>2. Left(i)' <=> Left(i)
    BY <2>1 DEF IInv, TypeOK, Left
  <2>3. NoWorker(i) => NoWorker(i)' \/ Left(i)'
    BY DEF IInv, TypeOK, NoWorker, Left
  <2>4. holders' \subseteq holders /\ (signalled' => signalled)
    <3>1. UNCHANGED <<signalled, holders>> \/ CloseStopEvent(i)
      OBVIOUS
    <3>. QED
      BY <3>1, CloseTypes DEF IInv
  <2>. QED
    BY <2>1, <2>2, <2>3, <2>4 DEF IInv, Forward, Over, StartedInTurn,
       LeavesOnlyWhenTold
<1>. QED
  BY <1>1, <1>2, <1>3, <1>4, OtherProcesses

LEMMA StutterInv == IInv /\ UNCHANGED vars => IInv'
BY DEF IInv, vars, TypeOK, ThreadsAgree, StoppedIsOver, HandleKept, Over, Left,
   NoWorker, Running, StartedInTurn, LaterInherits, SetForHolders,
   LeavesOnlyWhenTold

LEMMA NextInv == IInv /\ [Next]_vars => IInv'
<1>. SUFFICES ASSUME IInv, [Next]_vars  PROVE IInv'
  OBVIOUS
<1>1. ASSUME NEW i \in Instance, SvcThread(i)  PROVE IInv'
  BY <1>1, SvcRegisterInv, SvcReportInv, SvcCreateEventInv, SvcCreateThreadInv
     DEF SvcThread
<1>2. ASSUME NEW i \in Instance,
             StartProcess(i) \/ DeliverStop(i) \/ HandlerThread(i)
                 \/ WorkerThread(i) \/ MainThread(i)
      PROVE  IInv'
  BY <1>2, StartProcessInv, DeliverStopInv, HandlerThreadInv, WorkerThreadInv,
     MainThreadInv
<1>3. CASE UNCHANGED vars
  BY <1>3, StutterInv
<1>. QED
  BY <1>1, <1>2, <1>3 DEF Next

THEOREM Invariance == Spec => []IInv
<1>. QED
  BY InitInv, NextInv, PTL DEF Spec

-----------------------------------------------------------------------------
\* The values of the variables, in all processes; a set event has a holder.
THEOREM ServiceTypes == Spec => []TypeOK
<1>. IInv => TypeOK
  BY DEF IInv
<1>. QED
  BY Invariance, PTL

\* However many processes the SCM starts, and whatever fails, a worker leaves its
\* loop only after its own handler was told to stop, or in a process that found
\* the event of an earlier one.
THEOREM NoWorkerLeavesUntold == Spec => []LeavesOnlyWhenTold
<1>. IInv => LeavesOnlyWhenTold
  BY DEF IInv
<1>. QED
  BY Invariance, PTL

\* What the SCM takes for stopped has no worker in its loop, and gets none.
THEOREM StoppedHasLeft == Spec => []StoppedMeansLeft
<1>1. IInv => StoppedMeansLeft
  BY DEF IInv, StoppedIsOver, Over, StoppedMeansLeft
<1>. QED
  BY <1>1, Invariance, PTL
=============================================================================
