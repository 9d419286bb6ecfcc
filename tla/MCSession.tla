------------------------------ MODULE MCSession ------------------------------
EXTENDS Session

CONSTANTS c1, c2

(* Single messages, and those whose meeting in a read matters; the end may
   follow.                                                                    *)
First == {<<>>, <<"TO">>, <<"WALL">>, <<"ENPS">>, <<"ENPS", "TO">>,
          <<"WALL", "TO">>, <<"TO", "PROM">>}

Ended(told) == told \cup {Append(t, "LOSE") : t \in told \ {<<>>, <<"ENPS">>}}

Both(x, y) == [c \in Client |-> IF c = c1 THEN x ELSE y]

(* The second player is silent, or its one move crosses the first player's.   *)
MCExchanges ==
    {Both(x, <<>>) : x \in Ended(First)}
    \cup {Both(x, <<"TO">>) : x \in Ended({<<>>, <<"TO">>})}

==============================================================================
