---------------------------- MODULE MCSecondOrder ----------------------------
(***************************************************************************)
(* An instance of SecondOrder in which the neighbours of the last vertex   *)
(* fill three words.                                                       *)
(***************************************************************************)
EXTENDS SecondOrder

List(vs) == [offset |-> 0, vs |-> vs]

\* The current vertex has the neighbours 1 to 4 in one word, the last one 1 to 9 in three.
MCStep == [last |-> 11, curr |-> List(<<1, 2, 3, 4>>), prev |-> List([i \in 1..9 |-> i]),
           final |-> FALSE]

MCSteps == {MCStep}
MCWalks == {<<MCStep>>}

\* GroundTruth: the words that leave merge_weight are the first of those that node2vec asks
\* for.  adj_test.cpp computes them for neighbor_mask alone (lines 206 to 214: 2 for a vertex
\* of the last list, 4 for any other) and counts the differences.
GroundTruth ==
  /\ Len(weighed) <= Len(due)
  /\ \A k \in DOMAIN weighed : weighed[k] = due[k]
=============================================================================
