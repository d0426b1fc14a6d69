--------------------------- MODULE LookupService ---------------------------
(***************************************************************************)
(* What the vertex cache promises to vd_scheduler, whatever it keeps: each *)
(* vertex asked for gets the descriptor memory holds for it, once and in   *)
(* the order of the requests; a walk that has ended (bit 31 set) gets an   *)
(* empty list.                                                             *)
(***************************************************************************)
EXTENDS Integers, Sequences

CONSTANTS Memory,   \* the descriptor <<start, size>> of every vertex
          Walks     \* the requests: [v, ended, last]

VARIABLES asked, answered

vars == <<asked, answered>>

Descriptor(q) == IF q.ended THEN <<q.v, 0>> ELSE Memory[q.v]

Init == asked = << >> /\ answered = << >>

Ask == /\ \E q \in Walks : asked' = Append(asked, q)
       /\ UNCHANGED answered

Answer ==
  /\ Len(answered) < Len(asked)
  /\ LET q == asked[Len(answered) + 1]
     IN  answered' = Append(answered, [vd |-> Descriptor(q), last |-> q.last])
  /\ UNCHANGED asked

Next == Ask \/ Answer

Spec == Init /\ [][Next]_vars /\ WF_vars(Answer)
=============================================================================
