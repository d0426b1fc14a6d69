------------------------------- MODULE WorkPool -------------------------------
(***************************************************************************)
(* What a work-stealing scheduler promises: a pool of queries.  A query    *)
(* that is put in is taken out exactly once, by whichever lane.            *)
(***************************************************************************)
CONSTANT Query

VARIABLES pool,     \* queries put in and not yet taken
          taken     \* queries taken out

vars == <<pool, taken>>

Init == pool = {} /\ taken = {}

Put(q) ==
  /\ q \notin pool \cup taken
  /\ pool' = pool \cup {q}
  /\ UNCHANGED taken

Take(q) ==
  /\ q \in pool
  /\ pool' = pool \ {q}
  /\ taken' = taken \cup {q}

Next == \E q \in Query : Put(q) \/ Take(q)

Spec == /\ Init
        /\ [][Next]_vars
        /\ \A q \in Query : WF_vars(Take(q))
=============================================================================
