----------------------------- MODULE MCPipeline -----------------------------
(***************************************************************************)
(* Traffic in which no two messages share a key: an NX message of two      *)
(* lines and a CR message of one line, number 284, which is 28 modulo 256. *)
(* The text of the first holds two positions, that of the second none.     *)
(***************************************************************************)
EXTENDS Pipeline

CONSTANTS D, E, t1, t2, t3

MCChar == {D, E}
MCText == {t1, t2, t3}

Line(talker, id, total, line, seq, utc, text) ==
    [talker |-> talker, full |-> TRUE, total |-> total, line |-> line,
     seq |-> seq, id |-> id, valid |-> talker = "CR", utc |-> utc,
     text |-> text]

DA12 == [station |-> D, subject |-> E, serial |-> 12]
EA3 == [station |-> E, subject |-> D, serial |-> 3]

MCSentences ==
    {Line("NX", DA12, 2, 1, 0, 5, t1), Line("NX", DA12, 2, 2, 0, 9, t2),
     Line("CR", EA3, 1, 1, 284, -1, t3)}

MCPositionsIn(text) == IF Len(text) = 1 THEN 0 ELSE 2

ASSUME DisciplinedTraffic == Disciplined
=============================================================================
