------------------------------ MODULE Library ------------------------------
(***************************************************************************)
(* The life of the library in a process: DllMain, the worker thread with   *)
(* its settings, StartLog and StopLog, and what both threads log.  The     *)
(* host unloads the library with FreeLibrary or ends its process; in both  *)
(* cases DllMain runs under the loader lock, which a thread needs to end.  *)
(***************************************************************************)
EXTENDS Logger

CONSTANT MaxCalls   \* calls of the host and records of the worker

VARIABLES
    host,       \* where the host is
    how,        \* how it leaves: "free", "exit", or "none" yet
    worker,     \* where the worker thread is
    logger,     \* whether the pointer is set
    settings,   \* whether there are settings
    stopNow,    \* the flag of the worker's loop
    lock,       \* whether DllMain runs, under the loader lock
    calls,      \* counts up to MaxCalls
    alive       \* FALSE once the process is brought down

vars == <<logVars, host, how, worker, logger, settings, stopNow, lock, calls, alive>>

ASSUME LibraryAssumption == Thread = {"host", "worker"} /\ MaxCalls \in Nat

Init ==
    /\ LogInit
    /\ host = "start" /\ how = "none" /\ worker = "none"
    /\ logger = FALSE /\ settings = FALSE /\ stopNow = FALSE
    /\ lock = TRUE /\ calls = 0 /\ alive = TRUE

Counted == calls < MaxCalls /\ calls' = calls + 1

\* The host goes on when its record is written.
HostAt(place) == alive /\ host = place /\ ~InLogger("host")

\* _logger in the host, the only thread that sets the pointer.
HostLogs == IF logger THEN addLogRecord("host") ELSE UNCHANGED stack

-----------------------------------------------------------------------------
\* Mutant: what was open is not closed.
StartCloseNothing ==
    /\ HostAt("start")
    /\ logger' = TRUE
    /\ host' = "open"
    /\ Race("host")
    /\ UNCHANGED <<log, bak, handle, open, refused, blocked, stack, how, worker,
                   settings, stopNow, lock, calls, alive>>

\* Logger::start, in DllMain and in StartLog: what was open is closed.
StartClose ==
    /\ HostAt("start")
    /\ logger' = TRUE
    /\ IF handle = "none" THEN UNCHANGED <<handle, open>> ELSE Close
    /\ host' = "open"
    /\ Race("host")
    /\ UNCHANGED <<log, bak, refused, blocked, stack, how, worker, settings, stopNow,
                   lock, calls, alive>>

StartOpen ==
    /\ HostAt("open")
    /\ Create
    /\ IF handle' = "none" THEN UNCHANGED stack ELSE addLogRecord("host")
    /\ host' = IF lock THEN "attach" ELSE "idle"
    /\ Race("host")
    /\ UNCHANGED <<bak, blocked, how, worker, logger, settings, stopNow, lock, calls,
                   alive>>

\* new Settings, and startWorker announces the worker.
Attach ==
    /\ HostAt("attach")
    /\ settings' = TRUE
    /\ HostLogs
    /\ host' = "spawn"
    /\ UNCHANGED <<log, bak, handle, open, refused, raced, blocked, how, worker, logger,
                   stopNow, lock, calls, alive>>

\* The thread exists; it begins when DllMain has returned.
Spawn ==
    /\ HostAt("spawn")
    /\ worker' = "created"
    /\ lock' = FALSE
    /\ host' = "idle"
    /\ UNCHANGED <<logVars, how, logger, settings, stopNow, calls, alive>>

\* A function of the library logs.
Call ==
    /\ HostAt("idle") /\ Counted
    /\ logger
    /\ HostLogs
    /\ UNCHANGED <<log, bak, handle, open, refused, raced, blocked, host, how, worker,
                   logger, settings, stopNow, lock, alive>>

StartLog ==
    /\ HostAt("idle") /\ Counted
    /\ host' = "start"
    /\ UNCHANGED <<logVars, how, worker, logger, settings, stopNow, lock, alive>>

\* Logger::stop, in StopLog and in DllMain.
StopLog ==
    /\ HostAt("idle") /\ Counted
    /\ host' = "stop"
    /\ UNCHANGED <<logVars, how, worker, logger, settings, stopNow, lock, alive>>

StopRecord ==
    /\ HostAt("stop")
    /\ IF logger /\ handle # "none"
       THEN addLogRecord("host") /\ host' = "close"
       ELSE UNCHANGED stack /\ host' = "stopped"
    /\ UNCHANGED <<log, bak, handle, open, refused, raced, blocked, how, worker, logger,
                   settings, stopNow, lock, calls, alive>>

StopClose ==
    /\ HostAt("close")
    /\ open' = (open /\ handle # "current")
    /\ handle' = "none"
    /\ host' = "stopped"
    /\ Race("host")
    /\ UNCHANGED <<log, bak, refused, blocked, stack, how, worker, logger, settings,
                   stopNow, lock, calls, alive>>

Stopped ==
    /\ HostAt("stopped")
    /\ logger' = FALSE
    /\ host' = IF lock THEN "detach" ELSE "idle"
    /\ UNCHANGED <<logVars, how, worker, settings, stopNow, lock, calls, alive>>

\* FreeLibrary.
FreeLibrary ==
    /\ HostAt("idle")
    /\ how' = "free"
    /\ lock' = TRUE
    /\ host' = "stop"
    /\ UNCHANGED <<logVars, worker, logger, settings, stopNow, calls, alive>>

\* The process ends: the other threads are terminated first, wherever they are.
ExitProcess ==
    /\ HostAt("idle")
    /\ how' = "exit"
    /\ lock' = TRUE
    /\ host' = "stop"
    /\ worker' = "ended"
    /\ stack' = [stack EXCEPT !["worker"] = <<>>]
    /\ UNCHANGED <<log, bak, handle, open, refused, raced, blocked, logger, settings,
                   stopNow, calls, alive>>

\* Mutant: the flag is not set.
StopWorkerSilent ==
    /\ HostAt("detach")
    /\ host' = "join"
    /\ UNCHANGED <<logVars, how, worker, logger, settings, stopNow, lock, calls, alive>>

\* stopWorker; the record it would write comes after StopLog.
StopWorker ==
    /\ HostAt("detach")
    /\ stopNow' = TRUE
    /\ host' = "join"
    /\ UNCHANGED <<logVars, how, worker, logger, settings, lock, calls, alive>>

\* Mutant: the worker is told to stop and not waited for.
JoinDetached ==
    /\ HostAt("join")
    /\ host' = "delete"
    /\ UNCHANGED <<logVars, how, worker, logger, settings, stopNow, lock, calls, alive>>

Join ==
    /\ HostAt("join")
    /\ worker = "ended"
    /\ host' = "delete"
    /\ UNCHANGED <<logVars, how, worker, logger, settings, stopNow, lock, calls, alive>>

Delete ==
    /\ HostAt("delete")
    /\ settings' = FALSE
    /\ lock' = FALSE
    /\ host' = "gone"
    /\ UNCHANGED <<logVars, how, worker, logger, stopNow, calls, alive>>

HostStep ==
    \/ StartClose \/ StartOpen \/ Attach \/ Spawn \/ StopRecord \/ StopClose
    \/ Stopped \/ StopWorker \/ Join \/ Delete

-----------------------------------------------------------------------------
WorkerAt(place) == alive /\ worker = place /\ ~InLogger("worker")

\* A thread calls DllMain, under the loader lock, when it begins and when it ends.
NotifyLoader ==
    \E way \in {<<"created", "loop">>, <<"leave", "ended">>} :
        /\ WorkerAt(way[1]) /\ ~lock
        /\ worker' = way[2]
        /\ UNCHANGED <<logVars, host, how, logger, settings, stopNow, lock, calls, alive>>

\* One turn of the loop, which uses the settings and may have something to log.
Turn ==
    /\ WorkerAt("loop") /\ ~stopNow /\ logger /\ Counted
    /\ worker' = "log"
    /\ UNCHANGED <<logVars, host, how, logger, settings, stopNow, lock, alive>>

\* The pointer was set when it was tested.  If it is not any more, whether it
\* is read again depends on the build.
WorkerLogs ==
    /\ WorkerAt("log")
    /\ worker' = "loop"
    /\ \/ addLogRecord("worker") /\ UNCHANGED alive
       \/ ~logger /\ alive' = FALSE /\ UNCHANGED stack
    /\ UNCHANGED <<log, bak, handle, open, refused, raced, blocked, host, how, logger,
                   settings, stopNow, lock, calls>>

Leave ==
    /\ WorkerAt("loop") /\ stopNow
    /\ worker' = "leave"
    /\ UNCHANGED <<logVars, host, how, logger, settings, stopNow, lock, calls, alive>>

WorkerStep == NotifyLoader \/ Turn \/ WorkerLogs \/ Leave

Log(t) ==
    /\ alive
    /\ LogStep(t)
    /\ UNCHANGED <<host, how, worker, logger, settings, stopNow, lock, calls, alive>>

Overflow(t) ==
    /\ alive /\ Overflows(t)
    /\ alive' = FALSE
    /\ UNCHANGED <<logVars, host, how, worker, logger, settings, stopNow, lock, calls>>

Next ==
    \/ HostStep \/ Call \/ StartLog \/ StopLog \/ FreeLibrary \/ ExitProcess
    \/ WorkerStep
    \/ \E t \in Thread : Log(t) \/ Overflow(t)

Spec ==
    /\ Init /\ [][Next]_vars
    /\ WF_vars(HostStep) /\ WF_vars(Log("host") \/ Overflow("host"))
    /\ WF_vars(WorkerStep) /\ WF_vars(Log("worker") \/ Overflow("worker"))

-----------------------------------------------------------------------------
\* As long as no two threads meet in the logger, the log keeps what it is given:
\* a backup holds what made the log too large, never less; the log exceeds the
\* size by no more than the pieces that both threads have in hand, one for each
\* record, unless a file could not be moved or deleted; and after a start it is
\* silent only when it was stopped or when the file, last asked for, was refused
\* from outside: the logger never shuts itself out.
SoundUnlessRaced ==
    ~raced => /\ bak # NoFile => bak > MaxSize
              /\ log > MaxSize + MaxDepth + 1 => blocked
              /\ (host = "idle" /\ logger) => handle # "none" \/ refused

\* A record begun inside another finds room in the file.
BeginsInRoom(t) ==
    Len(stack'[t]) > Len(stack[t]) /\ InLogger(t) => log' <= MaxSize \/ raced' \/ blocked

\* A rotation makes room before it begins its own record in the new file: the
\* records begun inside records come to an end, unless a file cannot be moved.
RotationMakesRoom == [][\A t \in Thread : BeginsInRoom(t)]_vars

\* The settings are there as long as the worker uses them.
SettingsOutliveWorker == worker \in {"loop", "log"} => settings

\* DllMain returns at the end of a process; FreeLibrary hangs, and only where
\* the worker cannot end, or begin, without the loader lock.
DetachEnds ==
    how # "none" ~> \/ host = "gone" \/ ~alive
                    \/ how = "free" /\ host = "join" /\ worker \in {"created", "leave"}
=============================================================================
