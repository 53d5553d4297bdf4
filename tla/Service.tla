------------------------------ MODULE Service -------------------------------
(***************************************************************************)
(* The Windows service of ns.cpp: in every process the threads of main,    *)
(* svcMain, the control handler (it runs on main's thread, inside the      *)
(* dispatcher) and workerProc share one SERVICE_STATUS and one named stop  *)
(* event.  Instances are the processes the service control manager (SCM)   *)
(* starts one after the other; it starts one as soon as the one before has *)
(* reported STOPPED, while that process may still be running.              *)
(*                                                                         *)
(* ReportSvcStatus takes two steps, the assignments to svcStatus and the   *)
(* call of SetServiceStatus, since another thread can run between them.    *)
(***************************************************************************)
EXTENDS Naturals

CONSTANTS
    LastInstance,   \* bound: processes started one after the other
    Failures        \* the calls that may fail: "handler", "event", "thread"

ASSUME InstanceAssumption == LastInstance \in Nat \ {0}

ASSUME FailureAssumption == Failures \subseteq {"handler", "event", "thread"}

Instance == 1..LastInstance

State == {"NONE", "START_PENDING", "RUNNING", "STOP_PENDING", "STOPPED"}

VARIABLES
    main,       \* none, dispatching (StartServiceCtrlDispatcher), waiting, exited
    svc,        \* where svcMain and svcInit are
    handler,    \* where svcCtrlHandler is, idle between controls
    argument,   \* the value of dwCurrentState that the handler passes on
    worker,     \* where workerProc is
    joinable,   \* the global `worker` holds the thread
    status,     \* svcStatus.dwCurrentState
    reported,   \* the state last given to SetServiceStatus
    signalled,  \* the stop event is set
    holders,    \* the processes with an open handle of the stop event
    told,       \* history: the handler was called with SERVICE_CONTROL_STOP
    inherited,  \* history: CreateEvent found the event of another process
    stopped     \* history: STOPPED was given to SetServiceStatus

vars == <<main, svc, handler, argument, worker, joinable, status, reported,
          signalled, holders, told, inherited, stopped>>

Init ==
    /\ main = [i \in Instance |-> "none"]
    /\ svc = [i \in Instance |-> "none"]
    /\ handler = [i \in Instance |-> "idle"]
    /\ argument = [i \in Instance |-> "NONE"]
    /\ worker = [i \in Instance |-> "none"]
    /\ joinable = [i \in Instance |-> FALSE]
    /\ status = [i \in Instance |-> "NONE"]
    /\ reported = [i \in Instance |-> "NONE"]
    /\ signalled = FALSE
    /\ holders = {}
    /\ told = [i \in Instance |-> FALSE]
    /\ inherited = [i \in Instance |-> FALSE]
    /\ stopped = [i \in Instance |-> FALSE]

Running(i) == main[i] \in {"dispatching", "waiting"}

\* ReportSvcStatus, first the shared structure ...
Assign(i, value) ==
    /\ status' = [status EXCEPT ![i] = value]
    /\ UNCHANGED <<reported, stopped>>

\* ... then the SCM.
SetServiceStatus(i) ==
    /\ reported' = [reported EXCEPT ![i] = status[i]]
    /\ stopped' = [stopped EXCEPT ![i] = @ \/ status[i] = "STOPPED"]
    /\ UNCHANGED status

NoReport == UNCHANGED <<status, reported, stopped>>

\* CloseHandle; the event is gone with its last handle.
CloseStopEvent(i) ==
    /\ holders' = holders \ {i}
    /\ signalled' = (signalled /\ holders # {i})

-----------------------------------------------------------------------------
\* The SCM creates a process; main calls StartServiceCtrlDispatcher, which
\* runs svcMain on a thread of its own.
StartProcess(i) ==
    /\ main[i] = "none"
    /\ i > 1 => reported[i - 1] = "STOPPED"
    /\ main' = [main EXCEPT ![i] = "dispatching"]
    /\ svc' = [svc EXCEPT ![i] = "register"]
    /\ NoReport
    /\ UNCHANGED <<handler, argument, worker, joinable, signalled, holders,
                   told, inherited>>

SvcGoto(i, from, to) == svc[i] = from /\ svc' = [svc EXCEPT ![i] = to]

\* exit (0), or the end of main: every thread ends, every handle is closed.
EndProcess(i) ==
    /\ main' = [main EXCEPT ![i] = "exited"]
    /\ CloseStopEvent(i)

\* RegisterServiceCtrlHandler.
SvcRegister(i) ==
    \/ /\ SvcGoto(i, "register", "startPending")
       /\ UNCHANGED <<main, signalled, holders>>
    \/ /\ "handler" \in Failures
       /\ SvcGoto(i, "register", "done")
       /\ EndProcess(i)

\* The three reports of svcMain and svcInit.
SvcReport(i) ==
    \/ SvcGoto(i, "startPending", "startPendingSet") /\ Assign(i, "START_PENDING")
    \/ SvcGoto(i, "startPendingSet", "event") /\ SetServiceStatus(i)
    \/ SvcGoto(i, "running", "runningSet") /\ Assign(i, "RUNNING")
    \/ SvcGoto(i, "runningSet", "create") /\ SetServiceStatus(i)
    \/ SvcGoto(i, "failed", "failedSet") /\ Assign(i, "STOPPED")
    \/ SvcGoto(i, "failedSet", "done") /\ SetServiceStatus(i)

\* CreateEvent by name: an event of that name is opened as it is.
SvcCreateEvent(i) ==
    \/ /\ SvcGoto(i, "event", "running")
       /\ holders' = holders \union {i}
       /\ inherited' = [inherited EXCEPT ![i] = holders # {}]
    \/ /\ "event" \in Failures
       /\ SvcGoto(i, "event", "failed")
       /\ UNCHANGED <<holders, inherited>>

\* CreateThread, whose result is not looked at; then the global is assigned.
SvcCreateThread(i) ==
    \/ /\ SvcGoto(i, "create", "assign")
       /\ worker' = [worker EXCEPT ![i] = "polling"]
       /\ UNCHANGED joinable
    \/ /\ "thread" \in Failures
       /\ SvcGoto(i, "create", "done")
       /\ UNCHANGED <<worker, joinable>>
    \/ /\ SvcGoto(i, "assign", "done")
       /\ joinable' = [joinable EXCEPT ![i] = TRUE]
       /\ UNCHANGED worker

SvcThread(i) ==
    /\ Running(i)
    /\ \/ /\ SvcRegister(i) /\ NoReport
          /\ UNCHANGED <<handler, argument, worker, joinable, told, inherited>>
       \/ /\ SvcReport(i)
          /\ UNCHANGED <<main, handler, argument, worker, joinable, signalled,
                         holders, told, inherited>>
       \/ /\ SvcCreateEvent(i) /\ NoReport
          /\ UNCHANGED <<main, handler, argument, worker, joinable, signalled,
                         told>>
       \/ /\ SvcCreateThread(i) /\ NoReport
          /\ UNCHANGED <<main, handler, argument, signalled, holders, told,
                         inherited>>

-----------------------------------------------------------------------------
\* The SCM delivers SERVICE_CONTROL_STOP to a service it takes for running.
DeliverStop(i) ==
    /\ main[i] = "dispatching" /\ handler[i] = "idle"
    /\ reported[i] = "RUNNING"
    /\ handler' = [handler EXCEPT ![i] = "pending"]
    /\ told' = [told EXCEPT ![i] = TRUE]
    /\ NoReport
    /\ UNCHANGED <<main, svc, argument, worker, joinable, signalled, holders,
                   inherited>>

HandlerGoto(i, from, to) ==
    handler[i] = from /\ handler' = [handler EXCEPT ![i] = to]

\* Mutant: the handler reports for the worker.
HandlerReportStopped(i) ==
    \/ HandlerGoto(i, "pending", "pendingSet") /\ Assign(i, "STOP_PENDING")
    \/ HandlerGoto(i, "pendingSet", "signal") /\ SetServiceStatus(i)
    \/ HandlerGoto(i, "again", "againSet") /\ Assign(i, "STOPPED")
    \/ HandlerGoto(i, "againSet", "idle") /\ SetServiceStatus(i)

HandlerReport(i) ==
    \/ HandlerGoto(i, "pending", "pendingSet") /\ Assign(i, "STOP_PENDING")
    \/ HandlerGoto(i, "pendingSet", "signal") /\ SetServiceStatus(i)
    \/ HandlerGoto(i, "again", "againSet") /\ Assign(i, argument[i])
    \/ HandlerGoto(i, "againSet", "idle") /\ SetServiceStatus(i)

\* Mutant: the event is set only while main's thread handle is there.
HandlerSignalJoinable(i) ==
    /\ HandlerGoto(i, "signal", "read")
    /\ signalled' = (signalled \/ (i \in holders /\ joinable[i]))

\* SetEvent, which fails on a handle that the worker has closed.
HandlerSignal(i) ==
    /\ HandlerGoto(i, "signal", "read")
    /\ signalled' = (signalled \/ i \in holders)

\* The argument of the second ReportSvcStatus is read before the call.
HandlerRead(i) ==
    /\ HandlerGoto(i, "read", "again")
    /\ argument' = [argument EXCEPT ![i] = status[i]]

HandlerThread(i) ==
    /\ main[i] = "dispatching"
    /\ \/ HandlerReport(i) /\ UNCHANGED <<argument, signalled>>
       \/ HandlerSignal(i) /\ NoReport /\ UNCHANGED argument
       \/ HandlerRead(i) /\ NoReport /\ UNCHANGED signalled
    /\ UNCHANGED <<main, svc, worker, joinable, holders, told, inherited>>

-----------------------------------------------------------------------------
WorkerGoto(i, from, to) ==
    worker[i] = from /\ worker' = [worker EXCEPT ![i] = to]

\* Mutant: any return of WaitForSingleObject ends the loop.
WorkerLeaveAnyway(i) == WorkerGoto(i, "polling", "stopped")

\* WaitForSingleObject finds the event set; until then the loop goes round.
WorkerLeave(i) == WorkerGoto(i, "polling", "stopped") /\ signalled

WorkerReport(i) ==
    \/ WorkerGoto(i, "stopped", "stoppedSet") /\ Assign(i, "STOPPED")
    \/ WorkerGoto(i, "stoppedSet", "close") /\ SetServiceStatus(i)

WorkerClose(i) == WorkerGoto(i, "close", "done") /\ CloseStopEvent(i)

WorkerThread(i) ==
    /\ Running(i)
    /\ \/ WorkerLeave(i) /\ NoReport /\ UNCHANGED <<signalled, holders>>
       \/ WorkerReport(i) /\ UNCHANGED <<signalled, holders>>
       \/ WorkerClose(i) /\ NoReport
    /\ UNCHANGED <<main, svc, handler, argument, joinable, told, inherited>>

-----------------------------------------------------------------------------
\* StartServiceCtrlDispatcher returns once the service has reported STOPPED.
DispatcherReturns(i) ==
    /\ main[i] = "dispatching" /\ handler[i] = "idle" /\ stopped[i]
    /\ main' = [main EXCEPT ![i] = "waiting"]
    /\ UNCHANGED <<worker, signalled, holders>>

\* Mutant: main waits for a worker that need not exist.
MainJoinsWorker(i) ==
    /\ main[i] = "waiting"
    /\ worker[i] = "done"
    /\ EndProcess(i)
    /\ UNCHANGED worker

\* The wait ends with the worker, or at once without one.
MainJoins(i) ==
    /\ main[i] = "waiting"
    /\ joinable[i] => worker[i] = "done"
    /\ EndProcess(i)
    /\ UNCHANGED worker

\* The wait of 3 s runs out: TerminateThread.
MainTerminates(i) ==
    /\ main[i] = "waiting" /\ joinable[i] /\ worker[i] # "done"
    /\ worker' = [worker EXCEPT ![i] = "killed"]
    /\ EndProcess(i)

MainThread(i) ==
    /\ DispatcherReturns(i) \/ MainJoins(i) \/ MainTerminates(i)
    /\ NoReport
    /\ UNCHANGED <<svc, handler, argument, joinable, told, inherited>>

-----------------------------------------------------------------------------
Next == \E i \in Instance :
    \/ StartProcess(i) \/ DeliverStop(i)
    \/ SvcThread(i) \/ HandlerThread(i) \/ WorkerThread(i) \/ MainThread(i)

\* The system schedules every thread; nobody has to start or stop a service.
Fairness == \A i \in Instance :
    /\ WF_vars(SvcThread(i)) /\ WF_vars(HandlerThread(i))
    /\ WF_vars(WorkerThread(i)) /\ WF_vars(MainThread(i))

Spec == Init /\ [][Next]_vars /\ Fairness

-----------------------------------------------------------------------------
TypeOK ==
    /\ main \in [Instance -> {"none", "dispatching", "waiting", "exited"}]
    /\ svc \in [Instance -> {"none", "register", "startPending",
                "startPendingSet", "event", "running", "runningSet", "create",
                "assign", "failed", "failedSet", "done"}]
    /\ handler \in [Instance -> {"idle", "pending", "pendingSet", "signal",
                    "read", "again", "againSet"}]
    /\ argument \in [Instance -> State]
    /\ worker \in [Instance -> {"none", "polling", "stopped", "stoppedSet",
                   "close", "done", "killed"}]
    /\ joinable \in [Instance -> BOOLEAN]
    /\ status \in [Instance -> State]
    /\ reported \in [Instance -> State]
    /\ signalled \in BOOLEAN
    /\ holders \subseteq Instance
    /\ signalled => holders # {}
    /\ told \in [Instance -> BOOLEAN]
    /\ inherited \in [Instance -> BOOLEAN]
    /\ stopped \in [Instance -> BOOLEAN]

Left(i) == worker[i] \notin {"none", "polling"}

NoWorker(i) == worker[i] = "none" /\ svc[i] = "done"

\* The worker leaves its loop only after the handler of its own process was
\* told to stop, unless the process found the event of the one before: the
\* event is named (SVC_EVT_NAME), and the one before closes it after STOPPED.
LeavesOnlyWhenTold ==
    \A i \in Instance : Left(i) => (told[i] \/ inherited[i])

\* While the SCM takes the service for stopped, the worker has left its loop or
\* there is none and will be none.
StoppedMeansLeft ==
    \A i \in Instance : reported[i] = "STOPPED" => (Left(i) \/ NoWorker(i))

\* After a stop the worker leaves its loop, if there is a worker.
StopLeaves == \A i \in Instance : told[i] ~> (Left(i) \/ NoWorker(i))

\* A process whose service has reported STOPPED ends (main, ns.cpp).
ProcessEnds == \A i \in Instance : stopped[i] ~> main[i] = "exited"

\* "-p stops the service" (ns.cpp, showUsage): a stop that the handler has
\* taken is followed by a report of STOPPED.
StopTakesEffect == \A i \in Instance : told[i] ~> stopped[i]
=============================================================================
