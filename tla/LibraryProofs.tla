---------------------------- MODULE LibraryProofs ----------------------------
(***************************************************************************)
(* The safety of the library's log and of its settings, for a log of any   *)
(* size and any room on the stack.  While no two threads have met in the   *)
(* logger, a thread that rotates is alone with the files, so that each of  *)
(* its steps finds them as the last one left them; and every piece that is *)
(* in hand was found to fit, so that the log and the pieces in hand        *)
(* together stay below a bound.                                            *)
(***************************************************************************)
EXTENDS Library, TLAPS, SequenceTheorems

Phase == {"size", "close", "move", "create", "write"}

Size == {NoFile} \union Nat

LogTypes ==
    /\ log \in Size /\ bak \in Size
    /\ handle \in {"none", "current", "stale"} /\ open \in BOOLEAN
    /\ refused \in BOOLEAN
    /\ stack \in [Thread -> Seq(Frame)]
    /\ raced \in BOOLEAN /\ blocked \in BOOLEAN

HostPlaces == {"start", "open", "attach", "spawn", "idle", "stop", "close",
               "stopped", "detach", "join", "delete", "gone"}

HostTypes ==
    /\ host \in HostPlaces /\ how \in {"none", "free", "exit"}
    /\ worker \in {"none", "created", "loop", "log", "leave", "ended"}
    /\ logger \in BOOLEAN /\ settings \in BOOLEAN /\ stopNow \in BOOLEAN
    /\ lock \in BOOLEAN /\ alive \in BOOLEAN

-----------------------------------------------------------------------------
\* The worker thread begins after the settings and ends before them.
SettingsKept ==
    /\ worker \notin {"none", "ended"} => settings
    /\ host = "spawn" => settings
    /\ host = "delete" => worker = "ended"
    /\ host \in {"attach", "spawn"} => lock /\ worker = "none"
    /\ (host \in {"start", "open"} /\ lock) => worker = "none"
    /\ host = "idle" => ~lock

\* Once the log is started the logger has a handle until it is stopped, unless it
\* was refused the file when it asked for it last.
LogIsOpen == (host \in {"idle", "attach", "spawn"} /\ logger) => handle # "none" \/ refused

-----------------------------------------------------------------------------
\* How many records thread t is in.
Depth(t) == Len(stack[t])

\* A record is begun inside another one only while that one has a piece in hand.
Nested(t) ==
    /\ Depth(t) <= MaxDepth
    /\ \A n \in 2..Depth(t) : stack[t][n].phase = "write"

\* A thread on its way through a rotation, and how it finds the files; whoever
\* enters the logger meanwhile has yet to look at the size.
Rotating(t) ==
    /\ (At(t, "close") \/ At(t, "move")) => log > MaxSize
    /\ (At(t, "move") \/ At(t, "create")) =>
          /\ handle = "stale"
          /\ \A u \in Thread \ {t} : InLogger(u) => At(u, "size") /\ Depth(u) = 1
    /\ At(t, "create") => log = NoFile \/ blocked

\* At most one thread is in a record inside a record.
OneNested ==
    \A t, u \in Thread : t # u => Depth(t) <= 1 \/ Depth(u) <= 1

\* The pieces that thread t has in hand and will write without asking again.
InHand(t) ==
    IF Depth(t) = 0 THEN 0
    ELSE IF At(t, "write") THEN Depth(t) ELSE Depth(t) - 1

\* What there is and what is in hand.
Bounded ==
    \A t, u \in Thread : t # u => log + InHand(t) + InHand(u) <= MaxSize + MaxDepth + 1

Alone ==
    /\ open <=> handle = "current"
    /\ \A t \in Thread : Rotating(t)
    /\ OneNested
    /\ bak # NoFile => bak > MaxSize
    /\ ~blocked => Bounded

LogInv ==
    /\ LogTypes
    /\ \A t \in Thread : Nested(t)
    /\ ~raced => Alone

\* Between the closing and the opening of a start, the worker has at most come as
\* far as the size, and seen no handle.
HostOpens ==
    host = "open" =>
        /\ handle # "current" /\ ~InLogger("host")
        /\ InLogger("worker") => At("worker", "size") /\ Depth("worker") = 1

IInv ==
    /\ LogInv
    /\ HostTypes
    /\ SettingsKept
    /\ ~raced => LogIsOpen /\ HostOpens

-----------------------------------------------------------------------------
\* What the constants are.
LEMMA Constants ==
    /\ MaxSize \in Nat /\ MaxDepth \in Nat /\ MaxDepth >= 1
    /\ "host" \in Thread /\ "worker" \in Thread
    /\ Thread = {"host", "worker"} /\ NoFile \in Int /\ NoFile = -1
BY LoggerAssumption, LibraryAssumption DEF NoFile

\* The head of the stack and its depth tell all that matters of a thread.
LEMMA StackFacts ==
    ASSUME LogTypes, NEW t \in Thread
    PROVE  /\ stack[t] \in Seq(Frame) /\ Depth(t) \in Nat
           /\ InLogger(t) <=> Depth(t) > 0
           /\ InLogger(t) => \E p \in Phase : \A q : At(t, q) <=> q = p
           /\ ~InLogger(t) => \A q : ~At(t, q)
<1>1. stack[t] \in Seq(Frame)
  BY DEF LogTypes
<1>2. Depth(t) \in Nat /\ (InLogger(t) <=> Depth(t) > 0)
  BY <1>1 DEF Depth, InLogger
<1>3. ASSUME InLogger(t)  PROVE Head(stack[t]).phase \in Phase
  <2>1. stack[t] # <<>>
    BY <1>3 DEF InLogger
  <2>2. Head(stack[t]) \in Frame
    BY <1>1, <2>1, HeadTailProperties
  <2>. QED
    BY <2>2 DEF Frame, Phase
<1>. QED
  BY <1>1, <1>2, <1>3 DEF At, InLogger

\* A thread begins a record outside any other: it has yet to look at the size.
LEMMA BeginShape ==
    ASSUME LogTypes, NEW t \in Thread, ~InLogger(t), addLogRecord(t)
    PROVE  /\ stack' \in [Thread -> Seq(Frame)]
           /\ Depth(t)' = 1 /\ At(t, "size")' /\ Nested(t)'
           /\ \A u \in Thread \ {t} : stack'[u] = stack[u]
<1>. DEFINE frame == [part |-> 1, phase |-> "size"]
<1>1. frame \in Frame /\ <<frame>> \in Seq(Frame)
  BY DEF Frame
<1>2. stack[t] = <<>>
  BY DEF InLogger
<1>3. stack' = [stack EXCEPT ![t] = <<frame>> \o stack[t]]
  BY DEF addLogRecord
<1>4. <<frame>> \o stack[t] = <<frame>>
  BY <1>1, <1>2, ConcatEmptySeq
<1>5. stack' = [stack EXCEPT ![t] = <<frame>>]
  BY <1>3, <1>4
<1>6. stack'[t] = <<frame>> /\ \A u \in Thread \ {t} : stack'[u] = stack[u]
  BY <1>5 DEF LogTypes
<1>7. stack' \in [Thread -> Seq(Frame)]
  BY <1>1, <1>5 DEF LogTypes
<1>. QED
  BY <1>6, <1>7, Constants DEF Depth, At, Nested

\* A record goes on to another phase.
LEMMA GotoShape ==
    ASSUME LogTypes, NEW t \in Thread, InLogger(t), Nested(t),
           NEW p \in Phase, Goto(t, p)
    PROVE  /\ stack' \in [Thread -> Seq(Frame)]
           /\ Depth(t)' = Depth(t) /\ At(t, p)' /\ Nested(t)'
           /\ \A u \in Thread \ {t} : stack'[u] = stack[u]
<1>. DEFINE s == stack[t]
            r == [s EXCEPT ![1] = [s[1] EXCEPT !.phase = p]]
<1>1. s \in Seq(Frame) /\ s # <<>> /\ 1 \in 1..Len(s)
  BY DEF LogTypes, InLogger
<1>2. [s[1] EXCEPT !.phase = p] \in Frame
  <2>1. s[1] \in Frame
    BY <1>1
  <2>. HIDE DEF s
  <2>. QED
    BY <2>1 DEF Frame, Phase
<1>3. r \in Seq(Frame) /\ Len(r) = Len(s)
  BY <1>1, <1>2, ExceptSeq
<1>4. r[1].phase = p /\ \A n \in 2..Len(s) : r[n] = s[n]
  BY <1>1 DEF Frame
<1>5. stack' = [stack EXCEPT ![t] = r]
  BY DEF Goto
<1>6. stack'[t] = r /\ \A u \in Thread \ {t} : stack'[u] = stack[u]
  BY <1>5 DEF LogTypes
<1>7. stack' \in [Thread -> Seq(Frame)]
  BY <1>3, <1>5 DEF LogTypes
<1>8. Head(r) = r[1] /\ r # <<>>
  BY <1>1, <1>3
<1>. HIDE DEF r
<1>. QED
  BY <1>3, <1>4, <1>6, <1>7, <1>8 DEF Depth, At, Nested

\* A piece is done with: the record has another one, or it is left.
LEMMA DoneShape ==
    ASSUME LogTypes, NEW t \in Thread, InLogger(t), Nested(t), Done(t)
    PROVE  /\ stack' \in [Thread -> Seq(Frame)]
           /\ Nested(t)'
           /\ \/ Depth(t)' = Depth(t) /\ At(t, "size")'
              \/ /\ Depth(t)' = Depth(t) - 1
                 /\ Depth(t)' > 0 => At(t, "write")'
           /\ \A u \in Thread \ {t} : stack'[u] = stack[u]
<1>. DEFINE s == stack[t]
            e == [part |-> s[1].part + 1, phase |-> "size"]
            r == [s EXCEPT ![1] = e]
<1>1. s \in Seq(Frame) /\ s # <<>> /\ 1 \in 1..Len(s) /\ Len(s) \in Nat
  BY DEF LogTypes, InLogger
<1>2. s[1] \in Frame /\ Head(s) = s[1]
  BY <1>1
<1>. HIDE DEF s
<1>3. CASE Head(s).part < 3
  <2>1. e \in Frame
    BY <1>2, <1>3 DEF Frame
  <2>2. stack' = [stack EXCEPT ![t] = r]
    BY <1>3 DEF Done, s
  <2>. HIDE DEF e
  <2>3. /\ r \in Seq(Frame) /\ Len(r) = Len(s) /\ r[1] = e
        /\ \A n \in 2..Len(s) : r[n] = s[n]
    BY <1>1, <2>1, ExceptSeq
  <2>4. r # <<>> /\ Head(r).phase = "size"
    BY <1>1, <2>3 DEF e
  <2>. HIDE DEF r
  <2>5. stack'[t] = r /\ \A u \in Thread \ {t} : stack'[u] = stack[u]
    BY <2>2 DEF LogTypes
  <2>6. stack' \in [Thread -> Seq(Frame)]
    BY <2>2, <2>3 DEF LogTypes
  <2>. QED
    BY <1>1, <2>3, <2>4, <2>5, <2>6 DEF Depth, At, Nested, s
<1>4. CASE ~(Head(s).part < 3)
  <2>1. stack' = [stack EXCEPT ![t] = Tail(s)]
    BY <1>4 DEF Done, s
  <2>2. /\ Tail(s) \in Seq(Frame) /\ Len(Tail(s)) = Len(s) - 1
        /\ \A n \in 1..Len(Tail(s)) : Tail(s)[n] = s[n + 1]
    BY <1>1, HeadTailProperties
  <2>3. stack'[t] = Tail(s) /\ \A u \in Thread \ {t} : stack'[u] = stack[u]
    BY <2>1 DEF LogTypes
  <2>4. stack' \in [Thread -> Seq(Frame)]
    BY <2>1, <2>2 DEF LogTypes
  <2>5. \A n \in 1..Len(Tail(s)) : Tail(s)[n].phase = "write"
    BY <1>1, <2>2 DEF Nested, Depth, s
  <2>6. Len(Tail(s)) > 0 => Tail(s) # <<>> /\ Head(Tail(s)) = Tail(s)[1]
    <3>1. \A q \in Seq(Frame) : Len(q) > 0 => q # <<>> /\ Head(q) = q[1]
      OBVIOUS
    <3>. QED
      BY <2>2, <3>1
  <2>7. Depth(t)' = Depth(t) - 1 /\ (Depth(t)' > 0 => At(t, "write")')
    BY <1>1, <2>2, <2>3, <2>5, <2>6 DEF Depth, At, s
  <2>8. Nested(t)'
    BY <1>1, <2>2, <2>3, <2>5, Constants DEF Nested, Depth, s
  <2>. QED
    BY <2>3, <2>4, <2>7, <2>8
<1>. QED
  BY <1>3, <1>4

\* After a rotation the piece in hand is written; before it, if there is a new
\* file, comes a record inside this one.
LEMMA CreateShape ==
    ASSUME LogTypes, NEW t \in Thread, Nested(t), CreateFile(t)
    PROVE  /\ stack' \in [Thread -> Seq(Frame)]
           /\ Nested(t)'
           /\ handle' = "none" => Depth(t)' = Depth(t) /\ At(t, "write")'
           /\ handle' # "none" => Depth(t)' = Depth(t) + 1 /\ At(t, "size")'
           /\ \A u \in Thread \ {t} : stack'[u] = stack[u]
<1>. DEFINE s == stack[t]
            e == [Head(s) EXCEPT !.phase = "write"]
            here == <<e>> \o Tail(s)
            top == [part |-> 1, phase |-> "size"]
<1>1. s \in Seq(Frame) /\ s # <<>> /\ Len(s) \in Nat /\ Len(s) < MaxDepth
  BY DEF LogTypes, CreateFile, At
<1>2. /\ Head(s) \in Frame /\ Tail(s) \in Seq(Frame) /\ Len(Tail(s)) = Len(s) - 1
      /\ \A n \in 1..Len(Tail(s)) : Tail(s)[n] = s[n + 1]
  BY <1>1, HeadTailProperties
<1>3. e \in Frame /\ e.phase = "write" /\ top \in Frame /\ top.phase = "size"
  BY <1>2 DEF Frame
<1>4. stack' = [stack EXCEPT ![t] = IF handle' = "none" THEN here ELSE <<top>> \o here]
  BY DEF CreateFile
<1>5. \A n \in 2..Len(s) : s[n].phase = "write"
  BY DEF Nested, Depth
<1>. HIDE DEF s, e, top
<1>6. /\ here \in Seq(Frame) /\ Len(here) = Len(s) /\ here # <<>>
      /\ Head(here) = e /\ \A n \in 1..Len(here) : here[n].phase = "write"
  <2>1. <<e>> \in Seq(Frame) /\ Len(<<e>>) = 1
    BY <1>3
  <2>2. here \in Seq(Frame) /\ Len(here) = Len(s)
    BY <1>1, <1>2, <2>1
  <2>3. here[1] = e /\ \A n \in 2..Len(s) : here[n] = Tail(s)[n - 1]
    BY <1>1, <1>2, <2>1
  <2>4. \A n \in 2..Len(s) : here[n] = s[n]
    BY <1>1, <1>2, <2>3
  <2>. HIDE DEF here
  <2>. QED
    BY <1>1, <1>3, <1>5, <2>2, <2>3, <2>4
<1>. HIDE DEF here
<1>7. /\ <<top>> \o here \in Seq(Frame) /\ Len(<<top>> \o here) = Len(s) + 1
      /\ <<top>> \o here # <<>> /\ Head(<<top>> \o here) = top
      /\ \A n \in 2..(Len(s) + 1) : (<<top>> \o here)[n] = here[n - 1]
  <2>1. <<top>> \in Seq(Frame) /\ Len(<<top>>) = 1
    BY <1>3
  <2>. QED
    BY <1>1, <1>6, <2>1
<1>8. \A u \in Thread \ {t} : stack'[u] = stack[u]
  BY <1>4 DEF LogTypes
<1>9. stack' \in [Thread -> Seq(Frame)]
  BY <1>4, <1>6, <1>7 DEF LogTypes
<1>10. CASE handle' = "none"
  <2>1. stack'[t] = here
    BY <1>4, <1>10 DEF LogTypes
  <2>. QED
    BY <1>1, <1>3, <1>6, <1>8, <1>9, <1>10, <2>1, Constants
       DEF Depth, At, Nested, s
<1>11. CASE handle' # "none"
  <2>1. stack'[t] = <<top>> \o here
    BY <1>4, <1>11 DEF LogTypes
  <2>2. \A n \in 2..(Len(s) + 1) : (<<top>> \o here)[n].phase = "write"
    BY <1>1, <1>6, <1>7
  <2>3. Nested(t)'
    BY <1>1, <1>7, <2>1, <2>2, Constants DEF Depth, Nested
  <2>. QED
    BY <1>3, <1>7, <1>8, <1>9, <1>11, <2>1, <2>3 DEF Depth, At, s
<1>. QED
  BY <1>10, <1>11

-----------------------------------------------------------------------------
\* What a step that raises no race finds and leaves: it is enough to look at the
\* thread whose stack it changes, since nobody else is in the way.
Files == <<log, bak, handle, open, refused, raced, blocked>>

\* What is in hand follows from the depth and from whether the innermost record
\* is about to be written.
LEMMA InHandFacts ==
    ASSUME LogTypes, NEW t \in Thread
    PROVE  /\ InHand(t) \in Nat /\ InHand(t) <= Depth(t)
           /\ Depth(t) = 0 => InHand(t) = 0
           /\ Depth(t) > 0 /\ At(t, "write") => InHand(t) = Depth(t)
           /\ Depth(t) > 0 /\ ~At(t, "write") => InHand(t) = Depth(t) - 1
BY StackFacts DEF InHand

LEMMA BeginInv ==
    ASSUME LogInv, NEW t \in Thread, ~InLogger(t), addLogRecord(t), UNCHANGED Files
    PROVE  LogInv'
<1>1. /\ stack' \in [Thread -> Seq(Frame)] /\ Depth(t)' = 1 /\ At(t, "size")'
      /\ Nested(t)' /\ \A u \in Thread \ {t} : stack'[u] = stack[u]
  BY BeginShape DEF LogInv
<1>2. LogTypes /\ LogTypes'
  BY <1>1 DEF LogInv, LogTypes, Files
<1>3. ASSUME NEW u \in Thread \ {t}
      PROVE  /\ Depth(u)' = Depth(u) /\ (Nested(u) => Nested(u)')
             /\ InHand(u)' = InHand(u) /\ (InLogger(u)' <=> InLogger(u))
             /\ \A p : At(u, p)' <=> At(u, p)
  BY <1>1 DEF Depth, Nested, InHand, InLogger, At
<1>4. InHand(t)' = 0 /\ InHand(t) = 0 /\ Depth(t) = 0
  <2>1. ~At(t, "write")'
    BY <1>1 DEF At
  <2>2. InHand(t)' = 0
    BY <1>1, <2>1 DEF InHand
  <2>3. Depth(t) = 0
    BY <1>2, StackFacts
  <2>. QED
    BY <2>2, <2>3 DEF InHand
<1>5. ASSUME ~raced  PROVE Alone'
  <2>1. Alone
    BY <1>5 DEF LogInv
  <2>2. Rotating(t)'
    BY <1>1 DEF Rotating, At
  <2>3. ASSUME NEW u \in Thread \ {t}  PROVE Rotating(u)'
    BY <1>1, <1>3, <2>1, <2>3 DEF Alone, Rotating, Files
  <2>4. OneNested'
    BY <1>1, <1>3, <2>1 DEF Alone, OneNested
  <2>5. ~blocked => Bounded'
    BY <1>3, <1>4, <2>1 DEF Alone, Bounded, Files
  <2>. QED
    BY <2>1, <2>2, <2>3, <2>4, <2>5 DEF Alone, Files
<1>. QED
  BY <1>1, <1>2, <1>3, <1>5 DEF LogInv, Files

\* The end of the process takes the worker out of the logger, wherever it is.
LEMMA EmptyInv ==
    ASSUME LogInv, stack' = [stack EXCEPT !["worker"] = <<>>], UNCHANGED Files
    PROVE  LogInv'
<1>. DEFINE t == "worker"
<1>1. /\ t \in Thread /\ stack' \in [Thread -> Seq(Frame)] /\ stack'[t] = <<>>
      /\ \A u \in Thread \ {t} : stack'[u] = stack[u]
  BY Constants DEF LogInv, LogTypes
<1>2. LogTypes /\ LogTypes'
  BY <1>1 DEF LogInv, LogTypes, Files
<1>3. ASSUME NEW u \in Thread \ {t}
      PROVE  /\ Depth(u)' = Depth(u) /\ (Nested(u) => Nested(u)')
             /\ InHand(u)' = InHand(u) /\ (InLogger(u)' <=> InLogger(u))
             /\ \A p : At(u, p)' <=> At(u, p)
  BY <1>1 DEF Depth, Nested, InHand, InLogger, At
<1>4. /\ Depth(t)' = 0 /\ InHand(t)' = 0 /\ ~InLogger(t)' /\ Nested(t)'
      /\ \A p : ~At(t, p)'
  BY <1>1, Constants DEF Depth, InHand, InLogger, Nested, At
<1>5. InHand(t) \in Nat /\ \A u \in Thread : InHand(u) \in Nat
  BY <1>1, <1>2, InHandFacts
<1>. HIDE DEF t
<1>6. ASSUME ~raced  PROVE Alone'
  <2>1. Alone
    BY <1>6 DEF LogInv
  <2>2. Rotating(t)'
    BY <1>4 DEF Rotating
  <2>3. ASSUME NEW u \in Thread \ {t}  PROVE Rotating(u)'
    BY <1>3, <1>4, <2>1, <2>3 DEF Alone, Rotating, Files
  <2>4. OneNested'
    BY <1>3, <1>4, <2>1 DEF Alone, OneNested
  <2>5. ~blocked => Bounded'
    <3>. SUFFICES ASSUME ~blocked, NEW u \in Thread, NEW v \in Thread, u # v
                  PROVE  log + InHand(u)' + InHand(v)' <= MaxSize + MaxDepth + 1
      BY DEF Bounded, Files
    <3>1. InHand(u)' <= InHand(u) /\ InHand(v)' <= InHand(v)
      BY <1>3, <1>4, <1>5
    <3>2. InHand(u)' \in Nat /\ InHand(v)' \in Nat /\ log \in Int
      BY <1>2, <1>3, <1>4, <1>5, Constants DEF LogTypes, Size
    <3>3. log + InHand(u) + InHand(v) <= MaxSize + MaxDepth + 1
      BY <2>1 DEF Alone, Bounded
    <3>. QED
      BY <1>5, <3>1, <3>2, <3>3, Constants
  <2>. QED
    BY <2>1, <2>2, <2>3, <2>4, <2>5 DEF Alone, Files
<1>. QED
  BY <1>2, <1>3, <1>4, <1>6 DEF LogInv, Files

\* The host opens or closes the handle outside any record.  Without a race nobody
\* is in the logger, so that there is nothing else to look at.
LEMMA HandleInv ==
    ASSUME LogInv, ~InLogger("host"), Race("host"),
           handle' \in {"none", "current", "stale"}, open' \in BOOLEAN, refused' \in BOOLEAN,
           ~raced => (open' <=> handle' = "current"),
           log' = log \/ (log = NoFile /\ log' = 0),
           UNCHANGED <<bak, blocked>>,
           UNCHANGED stack \/ addLogRecord("host")
    PROVE  LogInv'
<1>. DEFINE t == "host"
<1>1. /\ t \in Thread /\ stack' \in [Thread -> Seq(Frame)] /\ Nested(t)'
      /\ \A u \in Thread \ {t} : stack'[u] = stack[u]
      /\ \/ stack'[t] = <<>> /\ Depth(t)' = 0
         \/ Depth(t)' = 1 /\ At(t, "size")'
  <2>1. CASE UNCHANGED stack
    BY <2>1, Constants DEF LogInv, LogTypes, InLogger, Depth, Nested
  <2>2. CASE addLogRecord("host")
    BY <2>2, BeginShape, Constants DEF LogInv
  <2>. QED
    BY <2>1, <2>2
<1>2. raced' \in BOOLEAN /\ (raced => raced')
      /\ (~raced' => \A u \in Thread \ {t} : ~InLogger(u))
  BY DEF Race, LogInv, LogTypes
<1>3. LogTypes /\ LogTypes'
  BY <1>1, <1>2 DEF LogInv, LogTypes, Size
<1>4. ASSUME NEW u \in Thread \ {t}
      PROVE  /\ Nested(u)' /\ (InLogger(u)' <=> InLogger(u))
             /\ ~InLogger(u) => /\ Depth(u)' = 0 /\ InHand(u)' = 0
                                /\ \A p : ~At(u, p)'
  BY <1>1 DEF LogInv, Depth, Nested, InHand, InLogger, At
<1>5. InHand(t)' = 0 /\ \A p : At(t, p)' => p = "size"
  BY <1>1 DEF InHand, At
<1>. HIDE DEF t
<1>6. ASSUME ~raced'  PROVE Alone'
  <2>1. Alone /\ \A u \in Thread \ {t} : ~InLogger(u)
    BY <1>2, <1>6 DEF LogInv
  <2>2. \A u \in Thread : Rotating(u)'
    BY <1>4, <1>5, <2>1 DEF Rotating
  <2>3. OneNested'
    BY <1>1, <1>4, <2>1 DEF OneNested
  <2>4. ~blocked => Bounded'
    <3>1. \A u \in Thread : InHand(u)' = 0
      BY <1>4, <1>5, <2>1
    <3>2. ~blocked => log <= MaxSize + MaxDepth + 1
      <4>. SUFFICES ASSUME ~blocked  PROVE log <= MaxSize + MaxDepth + 1
        OBVIOUS
      <4>1. log + InHand("host") + InHand("worker") <= MaxSize + MaxDepth + 1
        BY <2>1, Constants DEF Alone, Bounded
      <4>2. InHand("host") \in Nat /\ InHand("worker") \in Nat /\ log \in Int
        BY <1>3, InHandFacts, Constants DEF LogTypes, Size
      <4>. QED
        BY <4>1, <4>2, Constants
    <3>3. log' \in Int
      BY <1>3, Constants DEF LogTypes, Size
    <3>. QED
      BY <3>1, <3>2, <3>3, Constants DEF Bounded
  <2>. QED
    BY <1>2, <1>6, <2>1, <2>2, <2>3, <2>4 DEF Alone
<1>. QED
  BY <1>1, <1>3, <1>4, <1>6 DEF LogInv

\* What both a Goto and a Done leave of the threads: no record is begun.
Steps(t) ==
    /\ stack' \in [Thread -> Seq(Frame)] /\ Nested(t)'
    /\ \A u \in Thread \ {t} : stack'[u] = stack[u]
    /\ Depth(t)' <= Depth(t)

LEMMA OtherThread ==
    ASSUME NEW t \in Thread, NEW u \in Thread \ {t}, stack'[u] = stack[u]
    PROVE  /\ Depth(u)' = Depth(u) /\ (Nested(u) => Nested(u)')
           /\ InHand(u)' = InHand(u) /\ (InLogger(u)' <=> InLogger(u))
           /\ \A p : At(u, p)' <=> At(u, p)
BY DEF Depth, Nested, InHand, InLogger, At

\* The part of the invariant that is about depths alone.
LEMMA NestedStep ==
    ASSUME LogInv, NEW t \in Thread, Steps(t)
    PROVE  /\ \A u \in Thread : Nested(u)'
           /\ OneNested => OneNested'
<1>1. ASSUME NEW u \in Thread \ {t}  PROVE Nested(u)' /\ Depth(u)' = Depth(u)
  BY OtherThread DEF LogInv, Steps
<1>2. Nested(t)' /\ Depth(t)' <= Depth(t) /\ \A u \in Thread : Depth(u) \in Nat
  BY StackFacts DEF LogInv, Steps
<1>3. \A u \in Thread : Depth(u)' \in Nat
  BY DEF Steps, Depth
<1>4. ASSUME OneNested  PROVE OneNested'
  <2>. SUFFICES ASSUME NEW u \in Thread, NEW v \in Thread, u # v
                PROVE  Depth(u)' <= 1 \/ Depth(v)' <= 1
    BY DEF OneNested
  <2>1. Depth(u)' <= Depth(u) /\ Depth(v)' <= Depth(v)
    BY <1>1, <1>2
  <2>. QED
    BY <1>2, <1>3, <1>4, <2>1 DEF OneNested
<1>. QED
  BY <1>1, <1>2, <1>4

\* It is enough to compare one thread with the other.
LEMMA BoundedAgain ==
    ASSUME LogTypes', NEW t \in Thread,
           \A u \in Thread \ {t} :
               log' + InHand(t)' + InHand(u)' <= MaxSize + MaxDepth + 1
    PROVE  Bounded'
<1>1. \A u \in Thread : Depth(u)' \in Nat
  BY DEF LogTypes, Depth
<1>2. \A u \in Thread : InHand(u)' \in Int
  BY <1>1 DEF InHand
<1>3. log' \in Int
  BY Constants DEF LogTypes, Size
<1>. SUFFICES ASSUME NEW v \in Thread, NEW w \in Thread, v # w
              PROVE  log' + InHand(v)' + InHand(w)' <= MaxSize + MaxDepth + 1
  BY DEF Bounded
<1>4. CASE v = t
  BY <1>4
<1>5. CASE w = t
  <2>1. log' + InHand(t)' + InHand(v)' <= MaxSize + MaxDepth + 1
    BY <1>5
  <2>. QED
    BY <1>2, <1>3, <1>5, <2>1
<1>. QED
  BY <1>4, <1>5, Constants

\* The size is read: a piece that fits is in hand now.
LEMMA GetFileSizeInv ==
    ASSUME LogInv, NEW t \in Thread, GetFileSize(t)
    PROVE  LogInv' /\ Steps(t)
<1>1. /\ At(t, "size") /\ InLogger(t) /\ Depth(t) \in Nat /\ Depth(t) > 0
      /\ InHand(t) = Depth(t) - 1
  BY StackFacts DEF LogInv, GetFileSize, At, InLogger, InHand
<1>2. /\ UNCHANGED <<log, bak, handle, open, refused, blocked>>
      /\ raced' = (raced \/ handle = "stale")
  BY DEF GetFileSize
<1>3. Steps(t) /\ Depth(t)' \in Nat
      /\ \/ handle = "none" /\ InHand(t)' = InHand(t)
               /\ (At(t, "size")' \/ At(t, "write")' \/ Depth(t)' = 0)
         \/ TooLarge /\ InHand(t)' = InHand(t) /\ At(t, "close")'
         \/ ~TooLarge /\ InHand(t)' = Depth(t) /\ At(t, "write")'
  <2>1. CASE handle = "none"
    <3>1. Done(t)
      BY <2>1 DEF GetFileSize
    <3>2. /\ stack' \in [Thread -> Seq(Frame)] /\ Nested(t)'
          /\ \/ Depth(t)' = Depth(t) /\ At(t, "size")'
             \/ /\ Depth(t)' = Depth(t) - 1
                /\ Depth(t)' > 0 => At(t, "write")'
          /\ \A u \in Thread \ {t} : stack'[u] = stack[u]
      BY <1>1, <3>1, DoneShape DEF LogInv
    <3>3. InHand(t)' = InHand(t)
      BY <1>1, <3>2 DEF InHand, At
    <3>. QED
      BY <1>1, <2>1, <3>2, <3>3 DEF Steps
  <2>2. CASE handle # "none"
    <3>1. PICK p \in {"close", "write"} :
              Goto(t, p) /\ p = IF TooLarge THEN "close" ELSE "write"
      BY <2>2 DEF GetFileSize
    <3>2. /\ stack' \in [Thread -> Seq(Frame)] /\ Nested(t)'
          /\ Depth(t)' = Depth(t) /\ At(t, p)'
          /\ \A u \in Thread \ {t} : stack'[u] = stack[u]
      <4>1. p \in Phase
        BY DEF Phase
      <4>. QED
        BY <1>1, <3>1, <4>1, GotoShape DEF LogInv
    <3>3. InHand(t)' = IF p = "write" THEN Depth(t) ELSE Depth(t) - 1
      BY <1>1, <3>2 DEF InHand, At
    <3>. QED
      BY <1>1, <3>1, <3>2, <3>3 DEF Steps
  <2>. QED
    BY <2>1, <2>2
<1>4. LogTypes'
  BY <1>2, <1>3 DEF LogInv, LogTypes, Steps
<1>5. ASSUME NEW u \in Thread \ {t}
      PROVE  /\ Depth(u)' = Depth(u) /\ InHand(u)' = InHand(u)
             /\ (InLogger(u)' <=> InLogger(u)) /\ \A p : At(u, p)' <=> At(u, p)
  BY <1>3, OtherThread DEF Steps
<1>6. ASSUME ~raced'  PROVE Alone'
  <2>1. Alone /\ handle # "stale"
    BY <1>2, <1>6 DEF LogInv
  <2>2. TooLarge <=> log > MaxSize
    BY <2>1 DEF TooLarge
  <2>3. Rotating(t)'
    BY <1>2, <1>3, <2>2 DEF Rotating, At, Depth
  <2>4. ASSUME NEW u \in Thread \ {t}  PROVE Rotating(u)'
    BY <1>2, <1>5, <2>1, <2>4 DEF Alone, Rotating
  <2>5. ~blocked => Bounded'
    <3>. SUFFICES ASSUME ~blocked, NEW u \in Thread \ {t}
                  PROVE  log' + InHand(t)' + InHand(u)' <= MaxSize + MaxDepth + 1
      BY <1>4, BoundedAgain
    <3>1. InHand(u) \in Nat /\ InHand(u) <= Depth(u) /\ Depth(u) \in Nat
          /\ log \in Int
      BY InHandFacts, StackFacts, Constants DEF LogInv, LogTypes, Size
    <3>2. CASE InHand(t)' = InHand(t)
      BY <1>2, <1>5, <2>1, <3>2 DEF Alone, Bounded
    <3>3. CASE ~TooLarge /\ InHand(t)' = Depth(t)
      <4>1. Depth(t) <= MaxDepth /\ Depth(u) <= MaxDepth
        BY DEF LogInv, Nested
      <4>2. Depth(t) <= 1 \/ Depth(u) <= 1
        BY <2>1 DEF Alone, OneNested
      <4>3. log <= MaxSize
        BY <2>2, <3>1, <3>3, Constants
      <4>. QED
        BY <1>1, <1>2, <1>5, <3>1, <3>3, <4>1, <4>2, <4>3, Constants
    <3>. QED
      BY <1>3, <3>2, <3>3
  <2>. QED
    BY <1>2, <1>3, <2>1, <2>3, <2>4, <2>5, NestedStep DEF Alone
<1>. QED
  BY <1>2, <1>3, <1>4, <1>6, NestedStep DEF LogInv

\* A thread that raises no race has the logger to itself.
LEMMA AloneFacts ==
    ASSUME LogInv, NEW t \in Thread, Race(t)
    PROVE  /\ raced' \in BOOLEAN
           /\ ~raced' => /\ Alone
                         /\ \A u \in Thread \ {t} :
                               ~InLogger(u) /\ Depth(u) = 0 /\ InHand(u) = 0
<1>1. raced' \in BOOLEAN /\ (raced => raced')
      /\ (~raced' => \A u \in Thread \ {t} : ~InLogger(u))
  BY DEF Race, LogInv, LogTypes
<1>2. ASSUME NEW u \in Thread, ~InLogger(u)  PROVE Depth(u) = 0 /\ InHand(u) = 0
  BY <1>2, StackFacts DEF LogInv, InHand
<1>. QED
  BY <1>1, <1>2 DEF LogInv

\* The rotation begins: the handle is closed.
LEMMA CloseHandleInv ==
    ASSUME LogInv, NEW t \in Thread, CloseHandle(t)
    PROVE  LogInv' /\ Steps(t)
<1>1. /\ At(t, "close") /\ InLogger(t) /\ Depth(t) \in Nat /\ Depth(t) > 0
      /\ InHand(t) = Depth(t) - 1 /\ Race(t)
  BY StackFacts DEF LogInv, CloseHandle, At, InLogger, InHand
<1>2. /\ UNCHANGED <<log, bak, refused, blocked>> /\ handle' = "stale"
      /\ open' = (open /\ handle # "current")
  BY DEF CloseHandle, Close
<1>3. Steps(t) /\ InHand(t)' = InHand(t) /\ At(t, "move")'
  <2>1. /\ stack' \in [Thread -> Seq(Frame)] /\ Nested(t)'
        /\ Depth(t)' = Depth(t) /\ At(t, "move")'
        /\ \A u \in Thread \ {t} : stack'[u] = stack[u]
    <3>1. Goto(t, "move") /\ "move" \in Phase
      BY DEF CloseHandle, Phase
    <3>. QED
      BY <1>1, <3>1, GotoShape DEF LogInv
  <2>2. InHand(t)' = Depth(t) - 1
    BY <1>1, <2>1 DEF InHand, At
  <2>. QED
    BY <1>1, <2>1, <2>2 DEF Steps
<1>4. LogTypes'
  <2>1. open' \in BOOLEAN
    BY <1>2 DEF LogInv, LogTypes
  <2>. QED
    BY <1>1, <1>2, <1>3, <2>1, AloneFacts DEF LogInv, LogTypes, Steps
<1>5. ASSUME NEW u \in Thread \ {t}
      PROVE  /\ Depth(u)' = Depth(u) /\ InHand(u)' = InHand(u)
             /\ (InLogger(u)' <=> InLogger(u)) /\ \A p : At(u, p)' <=> At(u, p)
  BY <1>3, OtherThread DEF Steps
<1>6. ASSUME ~raced'  PROVE Alone'
  <2>1. /\ Alone /\ \A u \in Thread \ {t} : ~InLogger(u) /\ InHand(u) = 0
    BY <1>1, <1>6, AloneFacts
  <2>2. ~open'
    BY <1>2, <2>1 DEF Alone
  <2>3. log > MaxSize
    BY <1>1, <2>1 DEF Alone, Rotating
  <2>4. Rotating(t)'
    BY <1>2, <1>3, <1>5, <2>1, <2>3 DEF Rotating, At
  <2>5. ASSUME NEW u \in Thread \ {t}  PROVE Rotating(u)'
    BY <1>5, <2>1, <2>5, StackFacts DEF Rotating, LogInv
  <2>6. ~blocked => Bounded'
    BY <1>2, <1>3, <1>4, <1>5, <2>1, BoundedAgain DEF Alone, Bounded
  <2>. QED
    BY <1>2, <1>3, <2>1, <2>2, <2>4, <2>5, <2>6, NestedStep DEF Alone
<1>. QED
  BY <1>2, <1>3, <1>4, <1>6, NestedStep DEF LogInv

\* The files are moved: the backup is what was too large, and the log is gone
\* unless Windows does not let one of them go.
LEMMA MoveFileInv ==
    ASSUME LogInv, NEW t \in Thread, MoveFile(t)
    PROVE  LogInv' /\ Steps(t)
<1>1. /\ At(t, "move") /\ InLogger(t) /\ Depth(t) \in Nat /\ Depth(t) > 0
      /\ InHand(t) = Depth(t) - 1 /\ Race(t)
  BY StackFacts DEF LogInv, MoveFile, At, InLogger, InHand
<1>2. /\ UNCHANGED <<handle, open, refused>> /\ blocked' \in BOOLEAN
      /\ blocked => blocked'
      /\ \/ bak' = log /\ log' = NoFile
         \/ bak' \in {bak, NoFile} /\ log' = log
      /\ ~blocked' /\ log # NoFile /\ ~open => log' = NoFile
  <2>1. PICK held \in SUBSET {"log", "bak"} :
            LET moved == Room(held) /\ log # NoFile /\ ~open /\ "log" \notin held IN
            /\ bak' = IF moved THEN log ELSE IF Room(held) THEN NoFile ELSE bak
            /\ log' = IF moved THEN NoFile ELSE log
            /\ blocked' = (blocked \/ held # {})
    BY DEF MoveFile
  <2>. QED
    BY <2>1 DEF MoveFile, Room, LogInv, LogTypes
<1>3. Steps(t) /\ InHand(t)' = InHand(t) /\ At(t, "create")'
  <2>1. /\ stack' \in [Thread -> Seq(Frame)] /\ Nested(t)'
        /\ Depth(t)' = Depth(t) /\ At(t, "create")'
        /\ \A u \in Thread \ {t} : stack'[u] = stack[u]
    <3>1. Goto(t, "create") /\ "create" \in Phase
      BY DEF MoveFile, Phase
    <3>. QED
      BY <1>1, <3>1, GotoShape DEF LogInv
  <2>2. InHand(t)' = Depth(t) - 1
    BY <1>1, <2>1 DEF InHand, At
  <2>. QED
    BY <1>1, <2>1, <2>2 DEF Steps
<1>4. LogTypes'
  <2>1. log' \in Size /\ bak' \in Size
    BY <1>2 DEF LogInv, LogTypes, Size
  <2>. QED
    BY <1>1, <1>2, <1>3, <2>1, AloneFacts DEF LogInv, LogTypes, Steps
<1>5. ASSUME NEW u \in Thread \ {t}
      PROVE  /\ Depth(u)' = Depth(u) /\ InHand(u)' = InHand(u)
             /\ (InLogger(u)' <=> InLogger(u)) /\ \A p : At(u, p)' <=> At(u, p)
  BY <1>3, OtherThread DEF Steps
<1>6. ASSUME ~raced'  PROVE Alone'
  <2>1. /\ Alone /\ \A u \in Thread \ {t} : ~InLogger(u) /\ InHand(u) = 0
    BY <1>1, <1>6, AloneFacts
  <2>2. handle = "stale" /\ ~open /\ log > MaxSize /\ log \in Int /\ log # NoFile
    BY <1>1, <2>1, Constants DEF Alone, Rotating, LogInv, LogTypes, Size
  <2>3. ~blocked' => log' = NoFile /\ ~blocked
    BY <1>2, <2>2
  <2>4. Rotating(t)'
    BY <1>2, <1>3, <1>5, <2>1, <2>2, <2>3 DEF Rotating, At
  <2>5. ASSUME NEW u \in Thread \ {t}  PROVE Rotating(u)'
    BY <1>5, <2>1, <2>5, StackFacts DEF Rotating, LogInv
  <2>6. ~blocked' => Bounded'
    <3>. SUFFICES ASSUME ~blocked', NEW u \in Thread \ {t}
                  PROVE  log' + InHand(t)' + InHand(u)' <= MaxSize + MaxDepth + 1
      BY <1>4, BoundedAgain
    <3>1. log + InHand(t) + InHand(u) <= MaxSize + MaxDepth + 1
      BY <2>1, <2>3 DEF Alone, Bounded
    <3>. QED
      BY <1>1, <1>3, <1>5, <2>1, <2>2, <2>3, <3>1, Constants
  <2>7. bak' # NoFile => bak' > MaxSize
    BY <1>2, <2>1, <2>2 DEF Alone
  <2>. QED
    BY <1>2, <1>3, <2>1, <2>4, <2>5, <2>6, <2>7, NestedStep DEF Alone
<1>. QED
  BY <1>2, <1>3, <1>4, <1>6, NestedStep DEF LogInv

\* A file that is opened is the current one; one that is not, though the logger
\* had no handle open, was refused.
LEMMA CreateFacts ==
    ASSUME Create, open \in BOOLEAN
    PROVE  /\ open' \in BOOLEAN /\ refused' \in BOOLEAN /\ handle' \in {"none", "current"}
           /\ log' = log \/ (log = NoFile /\ log' = 0)
           /\ ~open => /\ open' <=> handle' = "current"
                       /\ handle' = "current" \/ refused'
<1>1. CASE handle' = "none" /\ refused' = ~open /\ UNCHANGED <<open, log>>
  BY <1>1
<1>2. CASE /\ ~open /\ handle' = "current" /\ open' = TRUE /\ refused' = FALSE
           /\ log' = IF log = NoFile THEN 0 ELSE log
  BY <1>2
<1>. QED
  BY <1>1, <1>2 DEF Create

\* The new file: the record in it is begun while the file is empty.
LEMMA CreateFileInv ==
    ASSUME LogInv, NEW t \in Thread, CreateFile(t)
    PROVE  /\ LogInv'
           /\ (~raced' /\ ~blocked) => log' <= MaxSize
           /\ ~raced' => handle' = "current" \/ refused'
<1>1. /\ At(t, "create") /\ InLogger(t) /\ Depth(t) \in Nat /\ Depth(t) > 0
      /\ Race(t) /\ Depth(t) < MaxDepth /\ Create /\ Nested(t)
  BY StackFacts DEF LogInv, CreateFile, At, InLogger, Depth
<1>2. UNCHANGED <<bak, blocked>>
  BY DEF CreateFile
<1>3. /\ stack' \in [Thread -> Seq(Frame)] /\ Nested(t)'
      /\ handle' = "none" => Depth(t)' = Depth(t) /\ At(t, "write")'
      /\ handle' # "none" => Depth(t)' = Depth(t) + 1 /\ At(t, "size")'
      /\ \A u \in Thread \ {t} : stack'[u] = stack[u]
  BY <1>1, CreateShape DEF LogInv
<1>4. LogTypes'
  <2>1. /\ log' \in Size /\ open' \in BOOLEAN /\ refused' \in BOOLEAN
        /\ handle' \in {"none", "current", "stale"}
    <3>1. log \in Size /\ open \in BOOLEAN /\ 0 \in Size
      BY DEF LogInv, LogTypes, Size
    <3>. QED
      BY <1>1, <3>1, CreateFacts
  <2>. QED
    BY <1>1, <1>2, <1>3, <2>1, AloneFacts DEF LogInv, LogTypes
<1>5. ASSUME NEW u \in Thread \ {t}
      PROVE  /\ Depth(u)' = Depth(u) /\ InHand(u)' = InHand(u)
             /\ (InLogger(u)' <=> InLogger(u)) /\ (Nested(u) => Nested(u)')
  BY <1>3, OtherThread
<1>6. ASSUME ~raced'
      PROVE  /\ Alone' /\ (handle' = "current" \/ refused')
             /\ ~blocked => log' <= MaxSize
  <2>1. /\ Alone
        /\ \A u \in Thread \ {t} : ~InLogger(u) /\ Depth(u) = 0 /\ InHand(u) = 0
    BY <1>1, <1>6, AloneFacts
  <2>2. /\ handle = "stale" /\ ~open /\ (log = NoFile \/ blocked)
    BY <1>1, <2>1 DEF Alone, Rotating
  <2>3. /\ open' <=> handle' = "current"
        /\ handle' = "current" \/ (handle' = "none" /\ refused')
        /\ log' = log \/ (log = NoFile /\ log' = 0)
    BY <1>1, <2>2, CreateFacts DEF LogInv, LogTypes
  <2>4. InHand(t)' = Depth(t) /\ \A p : At(t, p)' => p \in {"size", "write"}
    <3>1. CASE handle' = "current"
      BY <1>1, <1>3, <3>1 DEF InHand, At
    <3>2. CASE handle' = "none"
      BY <1>1, <1>3, <3>2 DEF InHand, At
    <3>. QED
      BY <2>3, <3>1, <3>2
  <2>5. Rotating(t)'
    BY <2>4 DEF Rotating
  <2>6. ASSUME NEW u \in Thread \ {t}  PROVE Rotating(u)'
    BY <1>3, <2>1, <2>6 DEF Rotating, At, InLogger
  <2>7. OneNested'
    BY <1>5, <2>1, Constants DEF OneNested
  <2>8. ~blocked => log' <= MaxSize
    BY <2>2, <2>3, Constants
  <2>9. ~blocked => Bounded'
    <3>. SUFFICES ASSUME ~blocked, NEW u \in Thread \ {t}
                  PROVE  log' + InHand(t)' + InHand(u)' <= MaxSize + MaxDepth + 1
      BY <1>4, BoundedAgain
    <3>1. log' \in Int
      BY <1>4, Constants DEF LogTypes, Size
    <3>. QED
      BY <1>1, <1>5, <2>1, <2>4, <2>8, <3>1, Constants
  <2>. QED
    BY <1>2, <2>1, <2>3, <2>5, <2>6, <2>7, <2>8, <2>9 DEF Alone
<1>. QED
  BY <1>2, <1>3, <1>4, <1>5, <1>6 DEF LogInv

\* A piece goes from the hand into the log.
LEMMA WriteFileInv ==
    ASSUME LogInv, NEW t \in Thread, WriteFile(t)
    PROVE  LogInv' /\ Steps(t)
<1>1. /\ At(t, "write") /\ InLogger(t) /\ Depth(t) \in Nat /\ Depth(t) > 0
      /\ InHand(t) = Depth(t) /\ Nested(t)
  BY StackFacts DEF LogInv, WriteFile, At, InLogger, InHand
<1>2. /\ UNCHANGED <<bak, handle, open, refused, raced, blocked>>
      /\ log' = log \/ log' = log + 1
  BY DEF WriteFile
<1>3. Steps(t) /\ InHand(t)' = InHand(t) - 1
      /\ (At(t, "size")' \/ At(t, "write")' \/ Depth(t)' = 0)
  <2>1. /\ stack' \in [Thread -> Seq(Frame)] /\ Nested(t)'
        /\ \/ Depth(t)' = Depth(t) /\ At(t, "size")'
           \/ /\ Depth(t)' = Depth(t) - 1
              /\ Depth(t)' > 0 => At(t, "write")'
        /\ \A u \in Thread \ {t} : stack'[u] = stack[u]
    <3>1. Done(t)
      BY DEF WriteFile
    <3>. QED
      BY <1>1, <3>1, DoneShape DEF LogInv
  <2>2. InHand(t)' = Depth(t) - 1
    BY <1>1, <2>1 DEF InHand, At
  <2>. QED
    BY <1>1, <2>1, <2>2 DEF Steps
<1>4. log \in Int /\ log >= -1 /\ LogTypes'
  <2>1. log \in Int /\ log >= -1 /\ log' \in Size
    BY <1>2, Constants DEF LogInv, LogTypes, Size
  <2>. QED
    BY <1>2, <1>3, <2>1 DEF LogInv, LogTypes, Steps
<1>5. ASSUME NEW u \in Thread \ {t}
      PROVE  /\ Depth(u)' = Depth(u) /\ InHand(u)' = InHand(u)
             /\ (InLogger(u)' <=> InLogger(u)) /\ \A p : At(u, p)' <=> At(u, p)
  BY <1>3, OtherThread DEF Steps
<1>6. ASSUME ~raced'  PROVE Alone'
  <2>1. Alone
    BY <1>2, <1>6 DEF LogInv
  <2>2. Rotating(t)'
    BY <1>3 DEF Rotating, At, Depth
  <2>3. ASSUME NEW u \in Thread \ {t}  PROVE Rotating(u)'
    <3>1. ~At(u, "move") /\ ~At(u, "create")
      BY <1>1, <2>1 DEF Alone, Rotating, At
    <3>2. At(u, "close") => log > MaxSize
      BY <2>1 DEF Alone, Rotating
    <3>. QED
      BY <1>2, <1>4, <1>5, <3>1, <3>2, Constants DEF Rotating
  <2>4. ~blocked => Bounded'
    <3>. SUFFICES ASSUME ~blocked, NEW u \in Thread \ {t}
                  PROVE  log' + InHand(t)' + InHand(u)' <= MaxSize + MaxDepth + 1
      BY <1>4, BoundedAgain
    <3>1. log + InHand(t) + InHand(u) <= MaxSize + MaxDepth + 1
      BY <2>1 DEF Alone, Bounded
    <3>2. InHand(u) \in Nat
      BY InHandFacts DEF LogInv
    <3>. QED
      BY <1>1, <1>2, <1>3, <1>4, <1>5, <3>1, <3>2, Constants
  <2>. QED
    BY <1>2, <1>3, <2>1, <2>2, <2>3, <2>4, NestedStep DEF Alone
<1>. QED
  BY <1>2, <1>3, <1>4, <1>6, NestedStep DEF LogInv

\* All of it together, and what the host's part of the invariant needs.
LEMMA LogStepInv ==
    ASSUME LogInv, NEW t \in Thread, LogStep(t)
    PROVE  /\ LogInv' /\ (raced => raced')
           /\ ~raced' => UNCHANGED <<handle, refused>> \/ handle' # "none" \/ refused'
           /\ \A u \in Thread \ {t} : stack'[u] = stack[u]
           /\ BeginsInRoom(t)
<1>1. raced => raced'
  BY DEF LogStep, GetFileSize, CloseHandle, MoveFile, CreateFile, WriteFile, Race
<1>2. CASE CreateFile(t)
  <2>1. LogInv' /\ (~raced' /\ ~blocked => log' <= MaxSize)
        /\ (~raced' => handle' = "current" \/ refused')
    BY <1>2, CreateFileInv
  <2>2. \A u \in Thread \ {t} : stack'[u] = stack[u]
    BY <1>2, CreateShape DEF LogInv
  <2>. QED
    BY <1>1, <2>1, <2>2 DEF BeginsInRoom
<1>3. CASE GetFileSize(t) \/ CloseHandle(t) \/ MoveFile(t) \/ WriteFile(t)
  <2>1. LogInv' /\ Steps(t)
    BY <1>3, GetFileSizeInv, CloseHandleInv, MoveFileInv, WriteFileInv
  <2>2. UNCHANGED <<handle, refused>> \/ handle' # "none"
    BY <1>3 DEF GetFileSize, CloseHandle, Close, MoveFile, WriteFile
  <2>3. Depth(t) \in Nat /\ Depth(t)' \in Nat
    BY <2>1, StackFacts DEF LogInv, Steps, Depth
  <2>4. BeginsInRoom(t)
    BY <2>1, <2>3 DEF Steps, Depth, BeginsInRoom
  <2>. QED
    BY <1>1, <2>1, <2>2, <2>4 DEF Steps
<1>. QED
  BY <1>2, <1>3 DEF LogStep

-----------------------------------------------------------------------------
LEMMA LogInitInv == LogInit => LogInv
<1>. SUFFICES ASSUME LogInit  PROVE LogInv
  OBVIOUS
<1>1. /\ log \in Size /\ bak \in Size /\ log <= MaxSize /\ log \in Int
      /\ bak # NoFile => bak > MaxSize
  BY Constants DEF LogInit, Size
<1>2. /\ handle = "none" /\ open = FALSE /\ refused = FALSE
      /\ raced = FALSE /\ blocked = FALSE
  BY DEF LogInit
<1>3. ASSUME NEW t \in Thread
      PROVE  stack[t] = <<>> /\ Depth(t) = 0 /\ InHand(t) = 0 /\ \A p : ~At(t, p)
  BY DEF LogInit, Depth, InHand, At
<1>4. LogTypes
  <2>1. stack = [t \in Thread |-> <<>>]
    BY DEF LogInit
  <2>2. <<>> \in Seq(Frame)
    OBVIOUS
  <2>3. stack \in [Thread -> Seq(Frame)]
    BY <2>1, <2>2
  <2>. QED
    BY <1>1, <1>2, <2>3 DEF LogTypes
<1>5. \A t \in Thread : Nested(t) /\ Rotating(t)
  BY <1>3, Constants DEF Nested, Rotating
<1>6. OneNested /\ Bounded
  BY <1>1, <1>3, Constants DEF OneNested, Bounded
<1>. QED
  BY <1>1, <1>2, <1>4, <1>5, <1>6 DEF LogInv, Alone

LEMMA LogQuietInv == LogInv /\ UNCHANGED logVars => LogInv'
<1>. SUFFICES ASSUME LogInv, UNCHANGED logVars  PROVE LogInv'
  OBVIOUS
<1>1. ASSUME NEW t \in Thread
      PROVE  /\ Nested(t)' <=> Nested(t)
             /\ Rotating(t)' <=> Rotating(t)
  BY DEF logVars, Nested, Depth, Rotating, At, InLogger
<1>2. (OneNested' <=> OneNested) /\ (Bounded' <=> Bounded)
  BY DEF logVars, OneNested, Bounded, InHand, Depth, At
<1>3. LogTypes'
  BY DEF logVars, LogInv, LogTypes
<1>4. ~raced' => Alone'
  BY <1>1, <1>2 DEF logVars, LogInv, Alone
<1>. QED
  BY <1>1, <1>3, <1>4 DEF logVars, LogInv

LEMMA InitInv == Init => IInv
<1>. SUFFICES ASSUME Init  PROVE IInv
  OBVIOUS
<1>1. LogInv
  BY LogInitInv DEF Init
<1>2. HostTypes /\ SettingsKept /\ LogIsOpen /\ HostOpens
  BY DEF Init, HostTypes, HostPlaces, SettingsKept, LogIsOpen, HostOpens
<1>. QED
  BY <1>1, <1>2 DEF IInv

-----------------------------------------------------------------------------
\* Where the two threads are, and what there is for them.
LEMMA LifeInv ==
    ASSUME HostTypes, SettingsKept, Next
    PROVE  HostTypes' /\ SettingsKept'
<1>. USE DEF HostTypes, HostPlaces, SettingsKept, HostAt, WorkerAt
<1>1. CASE StartClose
  BY <1>1 DEF StartClose
<1>2. CASE StartOpen
  BY <1>2 DEF StartOpen
<1>3. CASE Attach
  BY <1>3 DEF Attach
<1>4. CASE Spawn
  BY <1>4 DEF Spawn
<1>5. CASE StopRecord
  BY <1>5 DEF StopRecord
<1>6. CASE StopClose
  BY <1>6 DEF StopClose
<1>7. CASE Stopped
  BY <1>7 DEF Stopped
<1>8. CASE StopWorker
  BY <1>8 DEF StopWorker
<1>9. CASE Join
  BY <1>9 DEF Join
<1>10. CASE Delete
  BY <1>10 DEF Delete
<1>11. CASE Call
  BY <1>11 DEF Call
<1>12. CASE StartLog
  BY <1>12 DEF StartLog
<1>13. CASE StopLog
  BY <1>13 DEF StopLog
<1>14. CASE FreeLibrary
  BY <1>14 DEF FreeLibrary
<1>15. CASE ExitProcess
  BY <1>15 DEF ExitProcess
<1>16. CASE NotifyLoader
  BY <1>16 DEF NotifyLoader
<1>17. CASE Turn
  BY <1>17 DEF Turn
<1>18. CASE WorkerLogs
  BY <1>18 DEF WorkerLogs
<1>19. CASE Leave
  BY <1>19 DEF Leave
<1>20. CASE \E t \in Thread : Log(t)
  BY <1>20 DEF Log
<1>21. CASE \E t \in Thread : Overflow(t)
  <2>1. /\ alive' = FALSE
        /\ UNCHANGED <<host, how, worker, logger, settings, stopNow, lock>>
    BY <1>21 DEF Overflow
  <2>2. HostTypes'
    BY <2>1
  <2>3. SettingsKept'
    BY <2>1
  <2>. QED
    BY <2>2, <2>3
<1>. QED
  BY <1>1, <1>2, <1>3, <1>4, <1>5, <1>6, <1>7, <1>8, <1>9, <1>10, <1>11, <1>12, <1>13,
     <1>14, <1>15, <1>16, <1>17, <1>18, <1>19, <1>20, <1>21
     DEF Next, HostStep, WorkerStep

\* What is shown of every step: the invariant of the log, the host's part of it
\* while there is no race, and where records are begun.
Kept ==
    /\ LogInv'
    /\ ~raced' => ~raced /\ LogIsOpen' /\ HostOpens'
    /\ \A t \in Thread : BeginsInRoom(t)

\* No record is begun inside another.
LEMMA NoneInside ==
    ASSUME LogTypes,
           \A t \in Thread : \/ stack'[t] = stack[t] \/ stack'[t] = <<>> \/ ~InLogger(t)
    PROVE  \A t \in Thread : BeginsInRoom(t)
<1>. SUFFICES ASSUME NEW t \in Thread, InLogger(t)  PROVE ~(Len(stack'[t]) > Len(stack[t]))
  BY DEF BeginsInRoom
<1>1. Len(stack[t]) \in Nat
  BY StackFacts DEF Depth
<1>2. stack'[t] = stack[t] \/ stack'[t] = <<>>
  OBVIOUS
<1>3. CASE stack'[t] = stack[t]
  BY <1>1, <1>3
<1>4. CASE stack'[t] = <<>>
  BY <1>1, <1>4
<1>. QED
  BY <1>2, <1>3, <1>4

\* The steps that do nothing to the log.
LEMMA QuietKept ==
    ASSUME IInv, UNCHANGED logVars,
           ~raced => LogIsOpen' /\ (host' = "open" => host = "open")
    PROVE  Kept
<1>1. LogInv'
  BY LogQuietInv DEF IInv
<1>2. \A t \in Thread : BeginsInRoom(t)
  BY NoneInside DEF IInv, LogInv, logVars
<1>3. HostOpens /\ (host' = "open" => host = "open") => HostOpens'
  BY DEF HostOpens, logVars, InLogger, At, Depth
<1>. QED
  BY <1>1, <1>2, <1>3 DEF Kept, IInv, logVars

\* The steps with which a thread begins a record.
LEMMA BeginKept ==
    ASSUME IInv, NEW t \in Thread, ~InLogger(t), addLogRecord(t), UNCHANGED Files,
           ~raced => LogIsOpen',
           host' = "open" => host = "open" /\ t = "worker"
    PROVE  Kept
<1>1. LogInv'
  BY BeginInv DEF IInv
<1>2. /\ Depth(t)' = 1 /\ At(t, "size")'
      /\ \A u \in Thread \ {t} : stack'[u] = stack[u]
  BY BeginShape DEF IInv, LogInv
<1>3. \A u \in Thread : BeginsInRoom(u)
  BY <1>2, NoneInside DEF IInv, LogInv
<1>4. HostOpens => HostOpens'
  BY <1>2, Constants DEF HostOpens, Files, InLogger
<1>. QED
  BY <1>1, <1>3, <1>4 DEF Kept, IInv, Files

-----------------------------------------------------------------------------
\* The host opens or closes the handle.
LEMMA StartCloseKept == IInv /\ StartClose => Kept
<1>. SUFFICES ASSUME IInv, StartClose  PROVE Kept
  OBVIOUS
<1>1. /\ host = "start" /\ ~InLogger("host") /\ Race("host") /\ host' = "open"
      /\ UNCHANGED <<log, bak, refused, blocked, stack>>
      /\ handle' = (IF handle = "none" THEN "none" ELSE "stale")
      /\ open' = (IF handle = "none" THEN open ELSE open /\ handle # "current")
  BY DEF StartClose, HostAt, Close
<1>2. open' \in BOOLEAN /\ handle' \in {"none", "current", "stale"} /\ refused' \in BOOLEAN
  BY <1>1 DEF IInv, LogInv, LogTypes
<1>3. ~raced => (open' <=> handle' = "current")
  BY <1>1 DEF IInv, LogInv, Alone
<1>4. LogInv'
  BY <1>1, <1>2, <1>3, HandleInv DEF IInv
<1>5. \A t \in Thread : BeginsInRoom(t)
  BY <1>1, NoneInside DEF IInv, LogInv
<1>6. ~raced' => ~raced /\ ~InLogger("worker")
  BY <1>1, Constants DEF Race, IInv, LogInv, LogTypes
<1>7. ~raced' => HostOpens' /\ LogIsOpen'
  BY <1>1, <1>6 DEF HostOpens, LogIsOpen, InLogger
<1>. QED
  BY <1>4, <1>5, <1>6, <1>7 DEF Kept

LEMMA StartOpenKept == IInv /\ StartOpen => Kept
<1>. SUFFICES ASSUME IInv, StartOpen  PROVE Kept
  OBVIOUS
<1>1. /\ host = "open" /\ ~InLogger("host") /\ Race("host") /\ host' # "open"
      /\ UNCHANGED <<bak, blocked>> /\ Create
      /\ UNCHANGED stack \/ addLogRecord("host")
  BY DEF StartOpen, HostAt
<1>2. /\ open' \in BOOLEAN /\ handle' \in {"none", "current", "stale"}
      /\ refused' \in BOOLEAN
      /\ log' = log \/ (log = NoFile /\ log' = 0)
      /\ ~open => (open' <=> handle' = "current") /\ (handle' = "current" \/ refused')
  <2>1. open \in BOOLEAN
    BY DEF IInv, LogInv, LogTypes
  <2>. QED
    BY <1>1, <2>1, CreateFacts
<1>3. ~raced => ~open
  BY <1>1 DEF IInv, LogInv, Alone, HostOpens
<1>4. LogInv'
  BY <1>1, <1>2, <1>3, HandleInv DEF IInv
<1>5. \A t \in Thread : BeginsInRoom(t)
  <2>1. \A t \in Thread \ {"host"} : stack'[t] = stack[t]
    BY <1>1, BeginShape, Constants DEF IInv, LogInv
  <2>. QED
    BY <1>1, <2>1, NoneInside, Constants DEF IInv, LogInv
<1>6. ~raced' => ~raced
  BY <1>1 DEF Race
<1>7. ~raced' => HostOpens' /\ LogIsOpen'
  BY <1>1, <1>2, <1>3, <1>6 DEF HostOpens, LogIsOpen
<1>. QED
  BY <1>4, <1>5, <1>6, <1>7 DEF Kept

LEMMA StopCloseKept == IInv /\ StopClose => Kept
<1>. SUFFICES ASSUME IInv, StopClose  PROVE Kept
  OBVIOUS
<1>1. /\ ~InLogger("host") /\ Race("host") /\ host' = "stopped"
      /\ UNCHANGED <<log, bak, refused, blocked, stack>>
      /\ handle' = "none" /\ open' = (open /\ handle # "current")
  BY DEF StopClose, HostAt
<1>2. open' \in BOOLEAN /\ handle' \in {"none", "current", "stale"} /\ refused' \in BOOLEAN
  BY <1>1 DEF IInv, LogInv, LogTypes
<1>3. ~raced => (open' <=> handle' = "current")
  BY <1>1 DEF IInv, LogInv, Alone
<1>4. LogInv'
  BY <1>1, <1>2, <1>3, HandleInv DEF IInv
<1>5. \A t \in Thread : BeginsInRoom(t)
  BY <1>1, NoneInside DEF IInv, LogInv
<1>6. ~raced' => ~raced
  BY <1>1 DEF Race
<1>7. HostOpens' /\ LogIsOpen'
  BY <1>1 DEF HostOpens, LogIsOpen
<1>. QED
  BY <1>4, <1>5, <1>6, <1>7 DEF Kept

\* A thread goes on in the logger.  While the log is being started, the worker can
\* only find that there is no handle, or that it is in the host's way.
LEMMA LogKept == ASSUME IInv, NEW t \in Thread, Log(t)  PROVE Kept
<1>1. LogStep(t) /\ UNCHANGED <<host, logger>>
  BY DEF Log
<1>2. /\ LogInv' /\ (raced => raced')
      /\ ~raced' => UNCHANGED <<handle, refused>> \/ handle' # "none" \/ refused'
      /\ \A u \in Thread \ {t} : stack'[u] = stack[u]
      /\ BeginsInRoom(t)
  BY <1>1, LogStepInv DEF IInv
<1>3. raced \in BOOLEAN /\ raced' \in BOOLEAN
  BY <1>2 DEF IInv, LogInv, LogTypes
<1>4. \A u \in Thread \ {t} : BeginsInRoom(u)
  <2>. SUFFICES ASSUME NEW u \in Thread \ {t}
                PROVE  ~(Len(stack'[u]) > Len(stack[u]))
    BY DEF BeginsInRoom
  <2>1. Len(stack[u]) \in Nat
    BY StackFacts DEF Depth, IInv, LogInv
  <2>. QED
    BY <1>2, <2>1
<1>5. ~raced' => LogIsOpen'
  BY <1>1, <1>2, <1>3 DEF IInv, LogIsOpen
<1>6. ASSUME ~raced'  PROVE HostOpens'
  <2>. SUFFICES ASSUME host = "open"  PROVE HostOpens'
    BY <1>1 DEF HostOpens
  <2>1. /\ handle # "current" /\ ~InLogger("host")
        /\ InLogger("worker") => At("worker", "size") /\ Depth("worker") = 1
    BY <1>2, <1>3, <1>6 DEF IInv, HostOpens
  <2>2. InLogger(t)
    BY <1>1 DEF LogStep, GetFileSize, CloseHandle, MoveFile, CreateFile, WriteFile,
                At, InLogger
  <2>3. t = "worker" /\ At(t, "size") /\ Depth(t) = 1
    BY <2>1, <2>2, Constants
  <2>4. GetFileSize(t)
    BY <1>1, <2>3 DEF LogStep, CloseHandle, MoveFile, CreateFile, WriteFile, At
  <2>5. handle = "none" /\ handle' = handle /\ Done(t)
    BY <1>6, <2>1, <2>4 DEF GetFileSize, IInv, LogInv, LogTypes
  <2>6. /\ Depth(t)' \in Nat
        /\ \/ Depth(t)' = 1 /\ At(t, "size")'
           \/ Depth(t)' = 0
    <3>1. Depth(t)' \in Nat
      BY <1>2, StackFacts DEF LogInv, LogTypes, Depth
    <3>. QED
      BY <2>2, <2>3, <2>5, <3>1, DoneShape DEF IInv, LogInv
  <2>7. Depth(t)' = 0 => ~InLogger(t)'
    BY <1>2 DEF Depth, InLogger, LogInv, LogTypes
  <2>8. ~InLogger("host")'
    BY <1>2, <2>1, <2>3, Constants DEF InLogger
  <2>. QED
    BY <2>1, <2>3, <2>5, <2>6, <2>7, <2>8 DEF HostOpens
<1>. QED
  BY <1>2, <1>3, <1>4, <1>5, <1>6 DEF Kept

\* The process ends: the worker is taken out of the logger.
LEMMA ExitKept == IInv /\ ExitProcess => Kept
<1>. SUFFICES ASSUME IInv, ExitProcess  PROVE Kept
  OBVIOUS
<1>1. /\ stack' = [stack EXCEPT !["worker"] = <<>>] /\ UNCHANGED Files
      /\ host' = "stop"
  BY DEF ExitProcess, Files
<1>2. LogInv'
  BY <1>1, EmptyInv DEF IInv
<1>3. \A t \in Thread : stack'[t] = stack[t] \/ stack'[t] = <<>>
  BY <1>1 DEF IInv, LogInv, LogTypes
<1>4. \A t \in Thread : BeginsInRoom(t)
  BY <1>3, NoneInside DEF IInv, LogInv
<1>. QED
  BY <1>1, <1>2, <1>4 DEF Kept, Files, LogIsOpen, HostOpens

\* The steps of the host that do nothing to the log or only begin a record.
LEMMA HostKept ==
    ASSUME IInv,
           Attach \/ Spawn \/ StopRecord \/ Stopped \/ StopWorker \/ Join \/ Delete
           \/ Call \/ StartLog \/ StopLog \/ FreeLibrary
    PROVE  Kept
<1>. DEFINE Recorded == /\ addLogRecord("host") /\ UNCHANGED Files /\ ~InLogger("host")
                        /\ host' # "open" /\ (~raced => LogIsOpen')
            Quiet == /\ UNCHANGED logVars /\ host' # "open"
                     /\ ~raced => LogIsOpen'
<1>1. Recorded => Kept
  BY BeginKept, Constants
<1>2. Quiet => Kept
  BY QuietKept
<1>3. ~raced => LogIsOpen
  BY DEF IInv
<1>4. CASE Attach
  BY <1>1, <1>2, <1>3, <1>4
     DEF Attach, HostAt, HostLogs, LogIsOpen, logVars, Files
<1>5. CASE Spawn
  BY <1>2, <1>3, <1>5 DEF Spawn, HostAt, LogIsOpen, logVars
<1>6. CASE StopRecord
  BY <1>1, <1>2, <1>6 DEF StopRecord, HostAt, LogIsOpen, logVars, Files
<1>7. CASE Stopped
  BY <1>2, <1>7 DEF Stopped, LogIsOpen
<1>8. CASE StopWorker \/ Join \/ Delete \/ StartLog \/ StopLog \/ FreeLibrary
  BY <1>2, <1>8 DEF StopWorker, Join, Delete, StartLog, StopLog, FreeLibrary, LogIsOpen
<1>9. CASE Call
  BY <1>1, <1>3, <1>9 DEF Call, HostAt, HostLogs, LogIsOpen, Files
<1>. QED
  BY <1>4, <1>5, <1>6, <1>7, <1>8, <1>9

\* The steps of the worker outside the logger, and those that end the process.
LEMMA WorkerKept ==
    ASSUME IInv, WorkerStep \/ \E t \in Thread : Overflow(t)
    PROVE  Kept
<1>. DEFINE Quiet == UNCHANGED <<logVars, host, logger>>
<1>1. Quiet => Kept
  BY QuietKept DEF IInv, LogIsOpen, logVars
<1>2. CASE NotifyLoader \/ Turn \/ Leave
  BY <1>1, <1>2 DEF NotifyLoader, Turn, Leave
<1>3. CASE \E t \in Thread : Overflow(t)
  BY <1>1, <1>3 DEF Overflow
<1>4. CASE WorkerLogs
  <2>1. CASE addLogRecord("worker")
    <3>1. ~InLogger("worker") /\ UNCHANGED Files /\ UNCHANGED <<host, logger>>
      BY <1>4 DEF WorkerLogs, WorkerAt, Files
    <3>2. ~raced => LogIsOpen'
      BY <3>1 DEF IInv, LogIsOpen, Files
    <3>. QED
      BY <2>1, <3>1, <3>2, BeginKept, Constants
  <2>2. CASE UNCHANGED stack
    BY <1>1, <1>4, <2>2 DEF WorkerLogs, logVars
  <2>. QED
    BY <1>4, <2>1, <2>2 DEF WorkerLogs
<1>. QED
  BY <1>2, <1>3, <1>4 DEF WorkerStep

LEMMA NextKept == IInv /\ Next => Kept
<1>. SUFFICES ASSUME IInv, Next  PROVE Kept
  OBVIOUS
<1>. QED
  BY StartCloseKept, StartOpenKept, StopCloseKept, LogKept, ExitKept, HostKept,
     WorkerKept DEF Next, HostStep

LEMMA NextInv == IInv /\ [Next]_vars => IInv'
<1>. SUFFICES ASSUME IInv, [Next]_vars  PROVE IInv'
  OBVIOUS
<1>1. CASE Next
  BY <1>1, LifeInv, NextKept DEF IInv, Kept
<1>2. CASE UNCHANGED vars
  <2>1. UNCHANGED logVars
        /\ UNCHANGED <<host, how, worker, logger, settings, stopNow, lock, alive>>
    BY <1>2 DEF vars
  <2>2. Kept
    BY <2>1, QuietKept DEF IInv, LogIsOpen, logVars
  <2>. QED
    BY <2>1, <2>2 DEF IInv, Kept, HostTypes, SettingsKept
<1>. QED
  BY <1>1, <1>2

-----------------------------------------------------------------------------
\* The inductive invariant: of the threads in the logger only one rotates, what is
\* in hand still fits, and the settings outlive their user.
THEOREM Invariance == Spec => []IInv
<1>. QED
  BY InitInv, NextInv, PTL DEF Spec

\* For every size of the log and every room on the stack: as long as no two threads
\* have met in the logger, a backup holds what was too large, the log grows beyond
\* its size by no more than what was in hand, and a log that is started has a handle
\* unless the file was refused from outside when it was last asked for.
THEOREM LogIsSound == Spec => []SoundUnlessRaced
<1>1. IInv => SoundUnlessRaced
  <2>. SUFFICES ASSUME IInv, ~raced  PROVE SoundUnlessRaced
    BY DEF SoundUnlessRaced
  <2>1. bak # NoFile => bak > MaxSize
    BY DEF IInv, LogInv, Alone
  <2>2. (host = "idle" /\ logger) => handle # "none" \/ refused
    BY DEF IInv, LogIsOpen
  <2>3. ASSUME ~blocked  PROVE ~(log > MaxSize + MaxDepth + 1)
    <3>1. log + InHand("host") + InHand("worker") <= MaxSize + MaxDepth + 1
      BY <2>3, Constants DEF IInv, LogInv, Alone, Bounded
    <3>2. InHand("host") \in Nat /\ InHand("worker") \in Nat /\ log \in Int
      BY InHandFacts, Constants DEF IInv, LogInv, LogTypes, Size
    <3>. QED
      BY <3>1, <3>2, Constants
  <2>. QED
    BY <2>1, <2>2, <2>3 DEF SoundUnlessRaced
<1>. QED
  BY <1>1, Invariance, PTL

\* A record that a rotation begins inside another finds a file with room for it, so
\* that rotations do not go on from one to the next until the stack is used up.
THEOREM RotationsEnd == Spec => RotationMakesRoom
<1>1. IInv /\ [Next]_vars => [\A t \in Thread : BeginsInRoom(t)]_vars
  BY NextKept DEF Kept
<1>. QED
  BY <1>1, Invariance, PTL DEF Spec, RotationMakesRoom

\* The settings are deleted only when the worker has left its loop.
THEOREM SettingsLast == Spec => []SettingsOutliveWorker
<1>1. IInv => SettingsOutliveWorker
  BY DEF IInv, SettingsKept, SettingsOutliveWorker
<1>. QED
  BY <1>1, Invariance, PTL

=============================================================================
