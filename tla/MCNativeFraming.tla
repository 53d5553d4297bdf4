-------------------------- MODULE MCNativeFraming --------------------------
(***************************************************************************)
(* Every stream of at most six tokens, and longer ones: two and three      *)
(* messages, one with headers in its text, one whose tail repeats, one     *)
(* with noise between messages.  NMEA sentences: a right and a wrong       *)
(* checksum, none, empty fields, noise, no line end.                       *)
(***************************************************************************)
EXTENDS Framing

CONSTANTS a, b

MCText == {a, b, "$", ",", "*", "C", "c", "E"}

Short == UNION {[1..n -> {"Z", "N", a}] : n \in 1..6}

MCLines == {
    <<a, "$", a, ",", b, "*", "C", "c", "E", "$", b, "E">>,
    <<"$", ",", "*", b, "c", "E", "$", a, ",", ",", b, a, "E">>,
    <<"E", "$", "E", a, "$", ",", b, a, ",", "*", "C", "c", "E">>,
    <<"$", a, "*", "C", "c", "E", "$", ",", b, "E", "$", a, a>>}

MCStreams == Short \union MCLines \union {
    <<"Z", "Z", a, "N", "N", "Z", "Z", b, "N", "N">>,
    <<"Z", "Z", a, b, "N", "N", a, b, "Z", "Z", b, a, "N", "N">>,
    <<"Z", "Z", a, "Z", "Z", b, "N", "N", "N", "N", "Z", "Z", a>>,
    <<"Z", "Z", "Z", a, "N", a, "N", "N", "N", "Z", "Z", b, "N", "N">>,
    <<a, "Z", "Z", a, "N", "N", "Z", "Z", "N", "N", "Z", "Z", b, "N", "N">>}
=============================================================================
