---------------------------- MODULE MCTableStore ----------------------------
EXTENDS TableStore

CONSTANTS x, call, v, w

\* x, "__call" and 3 collide in a part of four slots; 2 starts behind them.
MCHash == [k \in Keys |-> IF k = x THEN 1 ELSE IF k = call THEN 5
                                        ELSE IF k = 3 THEN 1 ELSE 2]

MCValuesOf == [k \in Keys |-> IF k = call THEN {v, w} ELSE {v}]
=============================================================================
