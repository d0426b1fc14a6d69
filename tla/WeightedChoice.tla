--------------------------- MODULE WeightedChoice ---------------------------
(***************************************************************************)
(* What the weighted sampling kernels promise: every list of entries is    *)
(* answered once, in order, by the address of one of its entries whose     *)
(* weight is not zero, or by None when there is none.                      *)
(***************************************************************************)
EXTENDS Integers, Sequences

VARIABLES lists,     \* the lists: address of the first entry and a weight per entry
          answers    \* the answers so far

vars == <<lists, answers>>

None == -1           \* 0x80000000: the walk has ended

Choices(l) ==
  LET weighted == {i \in DOMAIN l.weights : l.weights[i] # 0}
  IN  IF weighted = {} THEN {None} ELSE {l.addr + i - 1 : i \in weighted}

Init == answers = << >>

Answer ==
  /\ Len(answers) < Len(lists)
  /\ LET n == Len(answers) + 1
     IN  \E v \in Choices(lists[n]) :
           answers' = Append(answers, [vertex |-> v, id |-> n, last |-> n = Len(lists)])
  /\ UNCHANGED lists

Spec == Init /\ [][Answer]_vars /\ WF_vars(Answer)
=============================================================================
