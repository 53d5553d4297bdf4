---------------------------- MODULE MCReassembly ----------------------------
(***************************************************************************)
(* Any traffic: two NX messages of different stations share the serial     *)
(* number 12, a CR message shares the key with them modulo 256 (268), and  *)
(* there are malformed lines.                                              *)
(***************************************************************************)
EXTENDS Reassembly

CONSTANTS D, E, lower, t1, t2

MCChar == {D, E, lower}
MCCode == {D, E}
MCText == {t1, t2}

NX(id, total, line, utc, text) ==
    [talker |-> "NX", full |-> TRUE, total |-> total, line |-> line, seq |-> 0,
     id |-> id, valid |-> FALSE, utc |-> utc, text |-> text]

CR(seq, id, total, line, valid, text) ==
    [talker |-> "CR", full |-> TRUE, total |-> total, line |-> line,
     seq |-> seq, id |-> id, valid |-> valid, utc |-> -1, text |-> text]

DA12 == [station |-> D, subject |-> E, serial |-> 12]
EA12 == [station |-> E, subject |-> D, serial |-> 12]
Bad12 == [station |-> D, subject |-> lower, serial |-> 12]

MCSentences ==
    {NX(DA12, 2, 1, 5, t1), NX(DA12, 2, 2, -1, t2),
     NX(EA12, 1, 1, 7, t2),
     NX(EA12, 3, 1, 7, t2), NX(EA12, 3, 3, -1, t1), NX(EA12, 3, 2, -1, t1),
     NX(Bad12, 1, 1, -1, t1),
     NX(NoID, 2, 0, -1, t1), NX(NoID, 0, 1, -1, t1),
     CR(268, DA12, 1, 1, TRUE, t1),
     CR(0, DA12, 2, 1, TRUE, t1), CR(0, NoID, 2, 2, TRUE, t2),
     [NX(DA12, 2, 2, -1, t1) EXCEPT !.full = FALSE]}
=============================================================================
