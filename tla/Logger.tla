------------------------------- MODULE Logger -------------------------------
(***************************************************************************)
(* log.cpp: one log file, written by several threads through one Logger.   *)
(* A record is three pieces (prefix, text, line end); addToLog writes one, *)
(* and when the file has grown too large moves it to its backup and opens  *)
(* a new one, from the midst of a record.  Nothing is locked.  Library     *)
(* says who calls.                                                         *)
(*                                                                         *)
(* The sizes of files are counted in pieces, up to Largest.  Whenever a    *)
(* file is to be moved, deleted or opened, Windows may refuse, for a right *)
(* or for what others do with the file.                                    *)
(***************************************************************************)
EXTENDS Integers, Sequences

CONSTANTS
    Thread,     \* the threads
    MaxSize,    \* a larger file is moved away
    MaxDepth    \* records that fit on the stack, each begun inside the last

ASSUME LoggerAssumption == MaxSize \in Nat /\ MaxDepth \in Nat \ {0}

VARIABLES
    log, bak,   \* the sizes of the two files, NoFile without one
    handle,     \* the member: "none", "current", or "stale" once it is closed
    open,       \* whether a handle to the log is open, a forgotten one too
    refused,    \* history: the last CreateFile failed, and not for a handle of ours
    stack,      \* for each thread the records it is in, the innermost first
    raced,      \* history: a thread was in the logger while another changed the
                \* handle or moved the files, or met a handle it had closed
    blocked     \* history: a file was held when it was to be moved or deleted

logVars == <<log, bak, handle, open, refused, stack, raced, blocked>>

NoFile == -1

Largest == MaxSize + MaxDepth + 2

Frame == [part : 1 .. 3, phase : {"size", "close", "move", "create", "write"}]

LogInit ==
    /\ log \in {NoFile, MaxSize} /\ bak \in {NoFile, MaxSize + 1}
    /\ handle = "none" /\ open = FALSE /\ refused = FALSE
    /\ stack = [t \in Thread |-> <<>>]
    /\ raced = FALSE /\ blocked = FALSE

InLogger(t) == stack[t] # <<>>

\* Thread t changes the handle, while another may be using it.
Race(t) == raced' = (raced \/ \E u \in Thread \ {t} : InLogger(u))

-----------------------------------------------------------------------------
\* addLogRecord is called and begins with addLogPrefix.
addLogRecord(t) == stack' = [stack EXCEPT ![t] = <<[part |-> 1, phase |-> "size"]>> \o @]

At(t, phase) == stack[t] # <<>> /\ Head(stack[t]).phase = phase

Goto(t, phase) == stack' = [stack EXCEPT ![t][1].phase = phase]

\* The piece is done with: the next, or back to the record around this one,
\* which writes the piece that was in its hand.
Done(t) ==
    IF Head(stack[t]).part < 3
    THEN stack' = [stack EXCEPT ![t][1] = [part |-> @.part + 1, phase |-> "size"]]
    ELSE stack' = [stack EXCEPT ![t] = Tail(@)]

\* Closing, through the member, a handle that is closed already does nothing.
Close ==
    /\ open' = (open /\ handle # "current")
    /\ handle' = "stale"

\* CreateFile shares the file for reading only, so that it fails while another
\* handle is open; and it may fail for what is not the library's doing: the path,
\* a right, or how somebody else has the file open.
Create ==
    \/ /\ handle' = "none"
       /\ refused' = ~open
       /\ UNCHANGED <<open, log>>
    \/ /\ ~open
       /\ handle' = "current" /\ open' = TRUE
       /\ refused' = FALSE
       /\ log' = IF log = NoFile THEN 0 ELSE log

\* GetFileSize of a closed handle gives INVALID_FILE_SIZE, a large number.
TooLarge == handle = "stale" \/ log > MaxSize

GetFileSize(t) ==
    /\ At(t, "size")
    /\ IF handle = "none" THEN Done(t)
       ELSE Goto(t, IF TooLarge THEN "close" ELSE "write")
    /\ raced' = (raced \/ handle = "stale")
    /\ UNCHANGED <<log, bak, handle, open, refused, blocked>>

CloseHandle(t) ==
    /\ At(t, "close")
    /\ Close
    /\ Goto(t, "move")
    /\ Race(t)
    /\ UNCHANGED <<log, bak, refused, blocked>>

\* Mutant: the old backup is not deleted.
RoomOnce(held) == bak = NoFile

\* Whether there is no backup any more.
Room(held) == bak = NoFile \/ "bak" \notin held

\* DeleteFile of the backup and MoveFile, whose results are not looked at; held
\* are the files that Windows does not let go.
MoveFile(t) ==
    /\ At(t, "move")
    /\ \E held \in SUBSET {"log", "bak"} :
          LET moved == Room(held) /\ log # NoFile /\ ~open /\ "log" \notin held IN
          /\ bak' = IF moved THEN log ELSE IF Room(held) THEN NoFile ELSE bak
          /\ log' = IF moved THEN NoFile ELSE log
          /\ blocked' = (blocked \/ held # {})
    /\ Goto(t, "create")
    /\ Race(t)
    /\ UNCHANGED <<handle, open, refused>>

\* The new file is begun with a record of its own, before the piece in hand.
CreateFile(t) ==
    /\ At(t, "create")
    /\ Len(stack[t]) < MaxDepth
    /\ Create
    /\ LET here == <<[Head(stack[t]) EXCEPT !.phase = "write"]>> \o Tail(stack[t]) IN
       stack' = [stack EXCEPT ![t] =
                    IF handle' = "none" THEN here
                    ELSE <<[part |-> 1, phase |-> "size"]>> \o here]
    /\ Race(t)
    /\ UNCHANGED <<bak, blocked>>

\* The result of WriteFile is not looked at.
WriteFile(t) ==
    /\ At(t, "write")
    /\ log' = IF handle = "current" /\ log < Largest THEN log + 1 ELSE log
    /\ Done(t)
    /\ UNCHANGED <<bak, handle, open, refused, raced, blocked>>

LogStep(t) ==
    \/ GetFileSize(t) \/ CloseHandle(t) \/ MoveFile(t)
    \/ CreateFile(t) \/ WriteFile(t)

\* A rotation would begin a record more than the stack has room for.
Overflows(t) == At(t, "create") /\ Len(stack[t]) = MaxDepth
=============================================================================
