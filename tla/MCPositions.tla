---------------------------- MODULE MCPositions ----------------------------
(***************************************************************************)
(* Texts of two positions written in different ways with what may stand    *)
(* before, between and behind them, and texts that resemble dates, times   *)
(* and latitudes.                                                          *)
(***************************************************************************)
EXTENDS Positions

MCChar == {ToString(n) : n \in 0 .. 9}
          \union {" ", "\n", "-", "/", ":", ".", ",", "*", "N", "S", "E", "W", "M"}

\* Degrees and minutes, these in thousandths.
A(d, m) == d * Deg + m * 6

P(form, chars, la, lo) == [form |-> form, chars |-> chars, lat |-> la, lon |-> lo]

T(chars) == P("text", chars, 0, 0)

Places ==
    {P("dms", <<"1","2","-","3","0","-","3","6","N"," ","0","2","0","-","1","5","-","3","6","W">>,
       A(12, 30600), -A(20, 15600)),
     P("minutes", <<"1","3","-","3","0",",","5","S"," ","0","2","1","-","1","5",",","5","W">>,
       -A(13, 30500), -A(21, 15500)),
     P("minutes", <<"1","2","-","3","0","N"," ","0","2","0","-","1","5","E">>, A(12, 30000), A(20, 15000)),
     P("decimal", <<"1","2","3","0",".","5","N"," ","0","2","1","1","5",".","5","W">>,
       A(12, 30500), -A(21, 15500)),
     P("spaced", <<"N"," ","1","2"," ","3","0",".","5","0","E"," ","0","2","0"," ","1","5",".","5","0">>,
       A(12, 30500), A(20, 15500)),
     P("slash", <<"1","2","3","0",".","5","0","S","/","0","2","0","1","5",".","5","0","W">>,
       -A(12, 30500), -A(20, 15500)),
     P("short", <<"1","2","N"," ","0","2","0","W">>, A(12, 0), -A(20, 0)),
     P("stub", <<"1","2","S","2","0","E">>, -A(12, 0), A(20, 0)),
     P("point", <<"1","2","-","3","0",".","5","N"," ","0","2","0","-","1","5",".","5","E">>,
       A(12, 30500), A(20, 15500)),
     P("lost", <<"1","*","-","3","0","N"," ","0","2","0","-","1","5","E">>, 0, A(20, 15000)),
     P("lost", <<"1","2","-","3","0","N"," ","0","2","*","-","1","5","W">>, A(12, 30000), 0),
     P("invented", <<"1","*","3","0",".","5","N"," ","0","2","0","1","5",".","5","E">>, 0, 0),
     P("half", <<"1","2","-","3","0","N">>, A(12, 30000), 0),
     P("open", <<"1","2","-","3","0","N"," ","0","2","0","-","1","5">>, A(12, 30000), A(20, 15000))}

Before ==
    {<<>>, <<T(<<"N">>), T(<<" ">>)>>, <<T(<<"1","2",":","3","0"," ">>)>>,
     <<T(<<"1","2","-","0","2","-","2","0","1","2"," ">>)>>}

Between ==
    {T(<<" ">>), T(<<" ","M"," ">>), T(<<"\n">>), T(<<" ","\n">>), T(<<",">>), T(<<"-">>),
     T(<<" ","2","0","1","2","-","0","1","-","0","2"," ">>)}

Behind ==
    {<<>>, <<T(<<" ">>)>>, <<T(<<" ","2">>)>>,
     <<T(<<" ","2","0","1","2","-","0","2","-","1","2">>)>>,
     <<T(<<" ","2","0","1","2","-","0","2","-","1","2"," ">>)>>}

\* Texts that resemble dates, times and latitudes.
Years == {<<"2","0","1","2">>, <<"1","2","0","2">>}

Pairs == {<<"1","2">>, <<"2","0">>}

Parts == Years \union Pairs \union {<<"2">>}

Tails == {<<>>, <<" ">>, <<"N">>, <<"2">>, <<" ","1","2",":","0","2"," ">>,
          <<" ","1","2","-","0","2","-","2","0","N">>}

DateTexts ==
    {x \o s \o y \o s \o z \o t :
         x \in Parts, y \in Pairs \union {<<"2">>}, z \in Parts,
         s \in {<<"-">>, <<" ">>, <<":">>}, t \in Tails}

MCWritings ==
    {b \o <<x, T(<<" ">>), y>> : b \in Before, x, y \in Places}
    \union {<<x, m, y>> \o e : x, y \in Places, m \in Between, e \in Behind}
    \union {<<T(t)>> : t \in DateTexts}
=============================================================================
