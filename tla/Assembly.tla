------------------------------ MODULE Assembly ------------------------------
(***************************************************************************)
(* What reassembly promises, without counters, talkers or buffers.  For    *)
(* every key there is a set of fragments heard since line 1 opened it.  A  *)
(* message handed over is always a gapless run of fragments 1..n of one    *)
(* key, each of them the latest heard for its line, and handing it over    *)
(* empties the key.  Reassembly.tla implements this specification.         *)
(***************************************************************************)
EXTENDS Naturals, Sequences

CONSTANTS
    Keys,       \* what the receiver tells messages apart by
    Line,       \* the line numbers a message may have
    Fragment,   \* the text of one line
    Label,      \* what a message is stored under
    Wanted      \* the labels that are stored; the others are thrown away

VARIABLES
    latest,     \* latest[k]: line number -> fragment, for the lines heard
    out         \* the messages handed over since the last read, in order

vars == <<latest, out>>

Nothing == [i \in {} |-> i]

\* The heard fragments f with line l replaced by, or extended with, b.
Overlay(f, l, b) == [i \in DOMAIN f \union {l} |-> IF i = l THEN b ELSE f[i]]

Init == latest = [k \in Keys |-> Nothing] /\ out = <<>>

\* A line is only heard for a key that line 1 has opened.
Audible(k, l) == l = 1 \/ latest[k] # Nothing

Hear(k, l, b) ==
    /\ Audible(k, l)
    /\ latest' = [latest EXCEPT ![k] = Overlay(@, l, b)]
    /\ UNCHANGED out

Finish(k, l, b) ==
    LET whole == Overlay(latest[k], l, b) IN
    /\ Audible(k, l)
    /\ \E n \in Line : DOMAIN whole = 1..n
    /\ latest' = [latest EXCEPT ![k] = Nothing]
    /\ \E label \in Label :
          out' = IF label \in Wanted
                 THEN Append(out, [label |-> label, text |-> whole]) ELSE out

\* The reader of `out` takes what is there.
Flush == out' = <<>> /\ UNCHANGED latest

Next ==
    \/ \E k \in Keys, l \in Line, b \in Fragment :
           Hear(k, l, b) \/ Finish(k, l, b)
    \/ Flush

Spec == Init /\ [][Next]_vars
=============================================================================
