-------------------------- MODULE MCWorkStealingOnce --------------------------
EXTENDS WorkStealingOnce

CONSTANTS q1, q2, q3, q4

LaneNo(w) == w[1] + (IF K > 1 THEN 2 * w[2] ELSE 0)
MCFeeders == {w \in [1..K -> {0, 1}] : LaneNo(w) \in {0, 1}}
Lane(i) == CHOOSE w \in [1..K -> {0, 1}] : LaneNo(w) = i
MCHome == [q \in Item |-> Lane(IF q \in {q1, q2, q3} THEN 0 ELSE 1)]
=============================================================================
