------------------------------ MODULE MCUrwRing ------------------------------
EXTENDS UrwRing

CONSTANTS q1, q2, q3, q4

MCWalkLen == [q \in Query |-> IF q = q1 THEN 1 ELSE 0]
=============================================================================
