--------------------------- MODULE SecondOrderService ---------------------------
(***************************************************************************)
(* What the second-order step of a node2vec walk promises to the sampling  *)
(* kernels: for every memory word of the neighbours of a vertex one word   *)
(* of weights, in the order of the steps, and each weight the one that     *)
(* node2vec gives a neighbour: to go back to the last vertex, to go to one *)
(* of its neighbours, to go anywhere else.                                 *)
(***************************************************************************)
EXTENDS Integers, SequencesExt

CONSTANTS Word,    \* entries in a memory word (16)
          Steps    \* the steps a walk may ask for

VARIABLES due,      \* words of weights asked for, from the first on
          weighed   \* words of weights handed on

vars == <<due, weighed>>

\* A list of neighbours as it lies in memory: it starts at some entry of a word.  What
\* the words hold before and after it reads as pad.
Words(list, pad) ==
  LET n == (list.offset + Len(list.vs) + Word - 1) \div Word
      Entry(i) == IF i \in 1..Len(list.vs) THEN list.vs[i] ELSE pad
  IN  [k \in 1..(IF list.vs = << >> THEN 0 ELSE n) |->
         [i \in 1..Word |-> Entry((k - 1) * Word + i - list.offset)]]

Return == 1
Near   == 2
Far    == 4

\* No vertex is 0, which marks the entries outside a list.
Weight(v, step) ==
  IF v = 0 THEN 0
  ELSE IF v = step.last THEN Return
  ELSE IF v \in ToSet(step.prev.vs) THEN Near ELSE Far

WeightsOf(step) ==
  LET words == Words(step.curr, 0)
  IN  [k \in DOMAIN words |-> [i \in 1..Word |-> Weight(words[k][i], step)]]

Init == due = << >> /\ weighed = << >>

\* A walk that has ended asks for nothing.
Ask ==
  /\ due' # due
  /\ \E s \in Steps : due' = due \o WeightsOf(s)
  /\ UNCHANGED weighed

Answer ==
  /\ Len(weighed) < Len(due)
  /\ weighed' = Append(weighed, due[Len(weighed) + 1])
  /\ UNCHANGED due

Spec == Init /\ [][Ask \/ Answer]_vars /\ WF_vars(Answer)
=============================================================================
