---------------------------- MODULE MCRingManager ----------------------------
EXTENDS RingManager

CONSTANT Steps    \* remain_step of every query

MCLength == [n \in 1..Size |-> Steps]
=============================================================================
