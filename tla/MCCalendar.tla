----------------------------- MODULE MCCalendar -----------------------------
(***************************************************************************)
(* Every day of the first years that ddmmyyyy2time takes, of some years    *)
(* beyond 2038, and of those around the first centuries that have no leap  *)
(* day; two days of delay.                                                 *)
(***************************************************************************)
EXTENDS Calendar

MCYears == 1980..1984 \union {2039} \union 2099..2101 \union 2200..2201

At(h, m, s) == [hr |-> h, min |-> m, sec |-> s]

MCClock == {At(0, 0, 0), At(0, 0, 1), At(23, 59, 59), At(24, 0, 0),
            At(0, 60, 0), At(12, 0, 60)}
=============================================================================
