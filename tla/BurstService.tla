---------------------------- MODULE BurstService ----------------------------
(***************************************************************************)
(* What the burst engine of the dynamic walks promises to the kernels      *)
(* around it: every neighbour list asked for is answered once, in the      *)
(* order of the requests (fetch_next pairs the answers with the steps by   *)
(* order alone), from exactly the memory words the list covers, and the    *)
(* last answer of a round carries the last flag.                           *)
(***************************************************************************)
EXTENDS Integers, Sequences

CONSTANTS Word,    \* entries in a memory word (16)
          Lists    \* the lists that may be asked for: <<start, size>>

VARIABLES asked, answered

vars == <<asked, answered>>

\* The addresses of the words a list lies in, in order.
WordsOf(l) ==
  IF l[2] = 0 THEN << >>
  ELSE LET first == l[1] - (l[1] % Word)
           count == (l[1] + l[2] - 1 - first) \div Word + 1
       IN  [k \in 1..count |-> first + (k - 1) * Word]

Reply(request) == [words |-> WordsOf(request.list), last |-> request.last]

Init == asked = << >> /\ answered = << >>

Ask ==
  /\ \E l \in Lists, last \in BOOLEAN : asked' = Append(asked, [list |-> l, last |-> last])
  /\ UNCHANGED answered

Answer ==
  /\ Len(answered) < Len(asked)
  /\ answered' = Append(answered, Reply(asked[Len(answered) + 1]))
  /\ UNCHANGED asked

Next == Ask \/ Answer

Spec == Init /\ [][Next]_vars /\ WF_vars(Answer)
=============================================================================
