------------------------- MODULE BurstEngine_proof -------------------------
(***************************************************************************)
(* The burst engine of the weighted walks, for every round, word, burst,   *)
(* depth and number of ids: its inductive invariant, and the steps of the  *)
(* engines, the merges and sample. (MCWeightedWalk_proof has the steps of  *)
(* vd_scheduler, cmd_generator and the host, and the theorems.) A list     *)
(* takes one of three ways, and its words meet those of other lists at two *)
(* merges that sort by ids, which go round. The argument has two layers.   *)
(* First (Way), the words on their way are items at 13 places. The words   *)
(* further on come before those behind them (Ordered), none is lost        *)
(* (Present), and the numbers of commands and of lists rise in that order  *)
(* (Numbered, Bursts), so that a merge that takes the number that is due   *)
(* never overtakes anything. Not more numbers are on their way than slots, *)
(* so the ids, numbers modulo IdRange, tell them apart. Second (BurstInv), *)
(* every stream and register carries the items of its place, each value    *)
(* with the address, mask, flags and ids of its item.                      *)
(***************************************************************************)
EXTENDS MCWeightedWalk, FiniteSetTheorems, SequenceTheorems, TLAPS

IsSeq(s) == \E S : s \in Seq(S)

\* Reading and writing a stream.
LEMMA SeqAppend ==
  ASSUME NEW s, IsSeq(s), NEW e
  PROVE  IsSeq(Append(s, e)) /\ Len(Append(s, e)) = Len(s) + 1 /\ Len(s) \in Nat
<1>1. PICK S : s \in Seq(S)
  BY DEF IsSeq
<1>2. s \in Seq(S \cup {e})
  BY <1>1
<1>3. Append(s, e) \in Seq(S \cup {e}) /\ Len(Append(s, e)) = Len(s) + 1 /\ Len(s) \in Nat
  BY <1>2
<1> QED
  BY <1>3 DEF IsSeq

\* And without its first element.
LEMMA SeqTail ==
  ASSUME NEW s, IsSeq(s), s # << >>
  PROVE  IsSeq(Tail(s)) /\ Len(Tail(s)) = Len(s) - 1 /\ Len(s) \in Nat \ {0}
<1>1. PICK S : s \in Seq(S)
  BY DEF IsSeq
<1>2. Tail(s) \in Seq(S) /\ Len(Tail(s)) = Len(s) - 1 /\ Len(s) \in Nat \ {0}
  BY <1>1
<1> QED
  BY <1>2 DEF IsSeq

\* A stream has a length.
LEMMA SeqLen ==
  ASSUME NEW s, IsSeq(s)
  PROVE  Len(s) \in Nat /\ (s = << >> => Len(s) = 0)
<1>1. PICK S : s \in Seq(S)
  BY DEF IsSeq
<1> QED
  BY <1>1

\* The empty stream, and those of one element.
LEMMA SeqSmall == /\ IsSeq(<< >>) /\ Len(<< >>) = 0
                  /\ \A e : IsSeq(<<e>>) /\ Len(<<e>>) = 1
<1>1. << >> \in Seq({})
  OBVIOUS
<1>2. \A e : <<e>> \in Seq({e})
  OBVIOUS
<1> QED
  BY <1>1, <1>2 DEF IsSeq

-----------------------------------------------------------------------------
(***************************************************************************)
(* The words on their way, apart from the streams that carry them: items   *)
(* at 13 places, the moves between them, and what a move keeps if the      *)
(* condition of the merge it passes holds.                                 *)
(***************************************************************************)

\* The places of the words that are on their way, in the order of the stages: the lists
\* between vd_scheduler and cmd_generator (1) and in cmd_generator (2); the commands, the
\* words to send and the words sent of the single engine (3, 4, 5), of the long engine (6, 7,
\* 8) and of the one-word engine (9, 10, 11); the words behind intra_merge (12) and behind
\* inter_merge (13).  An item stands for the words lo..hi of request req; num is the number
\* of the command it belongs to, and top the last word of that command.
Places == 1..13
Item == [req : Nat, lo : Nat, hi : Nat, num : Nat, top : Nat]
\* What is at each place, the oldest item first.
Placing(P) == P \in [Places -> Seq(Item)]

\* The words of x come before those of y.
Before(x, y) == x.req < y.req \/ (x.req = y.req /\ x.hi < y.lo)

\* Place p comes after place r on some way.
Behind(r, p) ==
  /\ r < p
  /\ ~(r <= 2 /\ p \in 3..5)
  /\ ~(r \in 3..5 /\ p \in 6..12)
  /\ ~(r \in 6..8 /\ p \in 9..11)

\* From which place to which a word goes on.
Routes == {<<1, 2>>, <<2, 6>>, <<2, 9>>, <<3, 4>>, <<4, 5>>, <<6, 7>>, <<7, 8>>,
           <<9, 10>>, <<10, 11>>, <<8, 12>>, <<11, 12>>, <<5, 13>>, <<12, 13>>}

\* The words further on come before those behind them.
Ordered(P) ==
  \A p \in Places, r \in Places : \A i \in 1..Len(P[p]), j \in 1..Len(P[r]) :
    Behind(r, p) \/ (r = p /\ i < j) => Before(P[p][i], P[r][j])

\* What an item at place p can be: lists of one word take the single engine, the others are
\* cut; a list is whole until it is cut, a command until its engine has taken it.
Stands(p, x, c) ==
  /\ x.req \in 1..Len(c) /\ 1 <= x.lo /\ x.lo <= x.hi /\ x.hi <= x.top /\ x.top <= c[x.req]
  /\ p \in 3..5 => c[x.req] = 1
  /\ p \in 1..2 \cup 6..12 => c[x.req] # 1
  /\ p = 1 => x.lo = 1
  /\ p \in 1..2 => x.hi = c[x.req]
  /\ p \in {3, 4, 6, 7, 9, 10} => x.hi = x.top
  /\ p \in {5, 8, 11, 12, 13} => x.lo = x.hi

\* Every item is what an item at its place can be.
Located(P, c) == \A p \in Places : \A i \in 1..Len(P[p]) : Stands(p, P[p][i], c)

\* Word k of list i comes after word sk of list si, the last that sample has seen.
After(i, k, si, sk) == i > si \/ (i = si /\ k > sk)

\* No word on its way has been seen by sample.
Unseen(P, si, sk) ==
  \A p \in Places : \A i \in 1..Len(P[p]) : After(P[p][i].req, P[p][i].lo, si, sk)

\* Item x holds word k of list i.
Holds(x, i, k) == x.req = i /\ x.lo <= k /\ k <= x.hi

\* Every word that sample has not seen yet is on its way.
Present(P, c, si, sk) ==
  \A i \in 1..Len(c) : \A k \in 1..c[i] : After(i, k, si, sk) =>
    \E p \in Places : \E j \in 1..Len(P[p]) : Holds(P[p][j], i, k)

-----------------------------------------------------------------------------

\* A sequence without its first element, element by element.
LEMMA TailAt ==
  ASSUME NEW T, NEW s \in Seq(T), s # << >>
  PROVE  /\ Tail(s) \in Seq(T) /\ Len(s) \in Nat /\ Len(s) >= 1 /\ Len(Tail(s)) = Len(s) - 1
         /\ Head(s) = s[1]
         /\ \A i \in 1..Len(Tail(s)) : i + 1 \in 1..Len(s) /\ Tail(s)[i] = s[i + 1]
         /\ \A i \in 1..Len(s) : i # 1 => i - 1 \in 1..Len(Tail(s)) /\ Tail(s)[i - 1] = s[i]
OBVIOUS

\* A sequence with one element more, element by element.
LEMMA AppendAt ==
  ASSUME NEW T, NEW s \in Seq(T), NEW v \in T
  PROVE  /\ Append(s, v) \in Seq(T) /\ Len(s) \in Nat /\ Len(Append(s, v)) = Len(s) + 1
         /\ \A i \in 1..Len(s) : i \in 1..Len(Append(s, v)) /\ Append(s, v)[i] = s[i]
         /\ Append(s, v)[Len(s) + 1] = v /\ Len(s) + 1 \in 1..Len(Append(s, v))
OBVIOUS

\* Item z is the end of item x.
PartOf(z, x) == z.req = x.req /\ z.num = x.num /\ z.top = x.top /\ z.hi = x.hi /\ z.lo >= x.lo

\* What is left of item h without its front m.
Remainder(h, m) == [h EXCEPT !.lo = m.hi + 1]

\* The front m of the first item at p goes to the end of r.
FrontOf(P, p, m) ==
  /\ P[p] # << >> /\ m \in Item
  /\ m.req = P[p][1].req /\ m.lo = P[p][1].lo /\ m.lo <= m.hi /\ m.hi <= P[p][1].hi

\* The placing after the move.
MoveTo(P, p, r, m) ==
  [P EXCEPT ![p] = IF m.hi = P[p][1].hi THEN Tail(@)
   ELSE [@ EXCEPT ![1] = Remainder(P[p][1], m)],
            ![r] = Append(@, m)]

\* Where the items of Q come from: Off is 1 if the first of p has left.
Shift(P, p, m, q) == IF q = p /\ m.hi = P[p][1].hi THEN 1 ELSE 0

\* Every item of Q other than the one moved is an item of P, or what is left of it.
Tracked(P, Q, p, r, m) ==
  \A q \in Places : \A i \in 1..Len(Q[q]) :
    \/ q = r /\ i = Len(Q[r]) /\ Q[q][i] = m
    \/ \E j \in 1..Len(P[q]) :
         /\ j = i + Shift(P, p, m, q) /\ PartOf(Q[q][i], P[q][j])
         /\ q = p /\ j = 1 => m.hi < P[p][1].hi /\ Q[q][i] = Remainder(P[p][1], m)
         /\ ~(q = p /\ j = 1) => Q[q][i] = P[q][j]

\* Every item of P other than the first one at p is still where it was.
Kept(P, Q, p) ==
  \A q \in Places : \A j \in 1..Len(P[q]) :
    ~(q = p /\ j = 1) => \E i \in 1..Len(Q[q]) : Q[q][i] = P[q][j]

\* What a move leaves, item by item.
Moved(P, Q, p, r, m) ==
  /\ Placing(Q)
  /\ \A q \in Places : q \notin {p, r} => Q[q] = P[q]
  /\ Len(P[p]) >= 1 /\ Len(Q[p]) = Len(P[p]) - Shift(P, p, m, p) /\ Len(Q[r]) = Len(P[r]) + 1
  /\ Q[r][Len(Q[r])] = m
  /\ Tracked(P, Q, p, r, m) /\ Kept(P, Q, p)
  /\ m.hi < P[p][1].hi => Len(Q[p]) >= 1 /\ Q[p][1] = Remainder(P[p][1], m)

\* An item is a part of itself.
LEMMA WithinSelf ==
  ASSUME NEW x \in Item
  PROVE  PartOf(x, x)
BY DEF PartOf, Item

\* What is left of an item is an item with another first word.
LEMMA RestItem ==
  ASSUME NEW h \in Item, NEW m \in Item
  PROVE  /\ Remainder(h, m) \in Item /\ Remainder(h, m).req = h.req
            /\ Remainder(h, m).num = h.num
         /\ Remainder(h, m).top = h.top /\ Remainder(h, m).hi = h.hi
            /\ Remainder(h, m).lo = m.hi + 1
BY DEF Remainder, Item

\* What is left of an item is its end.
LEMMA RestWithin ==
  ASSUME NEW h \in Item, NEW m \in Item, m.lo = h.lo, m.lo <= m.hi
  PROVE  PartOf(Remainder(h, m), h)
<1>1. h.lo \in Nat /\ m.lo \in Nat /\ m.hi \in Nat
  BY DEF Item
<1>2. m.hi + 1 >= h.lo
  BY <1>1
<1> QED
  BY <1>2, RestItem DEF PartOf

\* Moving the front of an item from one place to another does what Moved says.
LEMMA MoveIs ==
  ASSUME NEW P, Placing(P), NEW p \in Places, NEW r \in Places, p # r, NEW m, FrontOf(P, p, m)
  PROVE  Moved(P, MoveTo(P, p, r, m), p, r, m)
<1>1. PICK Q : Q = MoveTo(P, p, r, m)
  OBVIOUS
<1>2. PICK sp \in Seq(Item), sr \in Seq(Item) : sp = P[p] /\ sr = P[r]
  BY DEF Placing
<1>3. sp # << >> /\ m \in Item
  BY <1>2 DEF FrontOf
<1>4. PICK h \in Item : h = sp[1] /\ h = Head(sp)
  <2>1. Head(sp) = sp[1] /\ sp[1] \in Item
    BY <1>3
  <2> QED
    BY <2>1
<1>5. PICK up : up = (IF m.hi = h.hi THEN Tail(sp) ELSE [sp EXCEPT ![1] = Remainder(h, m)])
  OBVIOUS
<1>6. /\ Q[p] = up /\ Q[r] = Append(sr, m) /\ DOMAIN Q = Places
      /\ \A q \in Places : q \notin {p, r} => Q[q] = P[q]
  BY <1>1, <1>2, <1>4, <1>5 DEF MoveTo, Placing
<1>7. ASSUME m.hi = h.hi PROVE Moved(P, Q, p, r, m)
  <2>1. up = Tail(sp)
    BY <1>5, <1>7
  <2>2. Placing(Q)
    <3>1. up \in Seq(Item) /\ Append(sr, m) \in Seq(Item)
      BY <1>3, <2>1, TailAt, AppendAt
    <3>2. \A q \in Places : Q[q] \in Seq(Item)
      BY <1>6, <3>1 DEF Placing
    <3>3. Q = [q \in Places |-> Q[q]]
      BY <1>1, <1>6 DEF MoveTo, Placing
    <3> QED
      BY <3>2, <3>3 DEF Placing
  <2>3. \A q : Shift(P, p, m, q) = IF q = p THEN 1 ELSE 0
    BY <1>2, <1>4, <1>7 DEF Shift
  <2>4. ASSUME NEW q \in Places, NEW i \in 1..Len(Q[q])
        PROVE  \/ q = r /\ i = Len(Q[r]) /\ Q[q][i] = m
               \/ \E j \in 1..Len(P[q]) :
                    /\ j = i + Shift(P, p, m, q) /\ PartOf(Q[q][i], P[q][j])
                    /\ q = p /\ j = 1 => m.hi < P[p][1].hi /\ Q[q][i] = Remainder(P[p][1], m)
                    /\ ~(q = p /\ j = 1) => Q[q][i] = P[q][j]
    <3>1. CASE q = p
      <4>1. i + 1 \in 1..Len(sp) /\ up[i] = sp[i + 1] /\ i \in Nat /\ i >= 1
        BY <1>3, <1>6, <2>1, <3>1, TailAt
      <4>2. sp[i + 1] \in Item
        BY <4>1
      <4>3. PartOf(sp[i + 1], sp[i + 1])
        BY <4>2 DEF PartOf, Item
      <4> QED
        BY <1>2, <1>6, <2>3, <3>1, <4>1, <4>3
    <3>2. CASE q # p /\ q # r
      <4>1. Q[q] = P[q] /\ P[q] \in Seq(Item)
        BY <1>6, <3>2 DEF Placing
      <4>2. P[q][i] \in Item /\ i \in 1..Len(P[q]) /\ i \in Nat
        BY <4>1
      <4>3. PartOf(P[q][i], P[q][i])
        BY <4>2, WithinSelf
      <4> QED
        BY <2>3, <3>2, <4>1, <4>2, <4>3
    <3>3. CASE q = r
      <4>1. Len(Append(sr, m)) = Len(sr) + 1 /\ Len(sr) \in Nat
            /\ Append(sr, m)[Len(sr) + 1] = m
            /\ \A k \in 1..Len(sr) : Append(sr, m)[k] = sr[k]
        BY <1>3, AppendAt
      <4>2. i \in 1..(Len(sr) + 1) /\ i \in Nat
        BY <1>6, <3>3, <4>1
      <4>3. CASE i = Len(sr) + 1
        BY <1>6, <3>3, <4>1, <4>3
      <4>4. CASE i # Len(sr) + 1
        <5>1. i \in 1..Len(sr) /\ Q[r][i] = sr[i] /\ sr[i] \in Item
          BY <1>6, <4>1, <4>2, <4>4
        <5>2. PartOf(sr[i], sr[i])
          BY <5>1, WithinSelf
        <5> QED
          BY <1>2, <2>3, <3>3, <4>2, <5>1, <5>2
      <4> QED
        BY <4>3, <4>4
    <3> QED
      BY <3>1, <3>2, <3>3
  <2>5. ASSUME NEW q \in Places, NEW j \in 1..Len(P[q]), ~(q = p /\ j = 1)
        PROVE  \E i \in 1..Len(Q[q]) : Q[q][i] = P[q][j]
    <3>1. CASE q = p
      <4>1. j - 1 \in 1..Len(up) /\ up[j - 1] = sp[j]
        BY <1>2, <1>3, <2>1, <2>5, <3>1, TailAt
      <4> QED
        BY <1>2, <1>6, <3>1, <4>1
    <3>2. CASE q # p /\ q # r
      BY <1>6, <3>2
    <3>3. CASE q = r
      <4>1. j \in 1..Len(Append(sr, m)) /\ Append(sr, m)[j] = sr[j]
        BY <1>2, <1>3, <3>3, AppendAt
      <4> QED
        BY <1>2, <1>6, <3>3, <4>1
    <3> QED
      BY <3>1, <3>2, <3>3
  <2>6. Len(sp) >= 1 /\ Len(up) = Len(sp) - 1 /\ Len(Append(sr, m)) = Len(sr) + 1
        /\ Append(sr, m)[Len(Append(sr, m))] = m
    BY <1>3, <2>1, TailAt, AppendAt
  <2>7. ~(m.hi < P[p][1].hi)
    BY <1>2, <1>4, <1>7 DEF Item
  <2>8. Len(P[p]) >= 1 /\ Len(Q[p]) = Len(P[p]) - Shift(P, p, m, p)
    BY <1>2, <1>6, <2>3, <2>6
  <2>9. Len(Q[r]) = Len(P[r]) + 1 /\ Q[r][Len(Q[r])] = m
    BY <1>2, <1>6, <2>6
  <2>10. Tracked(P, Q, p, r, m)
    BY <2>4 DEF Tracked
  <2>11. Kept(P, Q, p)
    BY <2>5 DEF Kept
  <2> QED
    BY <1>6, <2>2, <2>7, <2>8, <2>9, <2>10, <2>11 DEF Moved
<1>8. ASSUME m.hi # h.hi PROVE Moved(P, Q, p, r, m)
  <2>0. m.hi < h.hi
    <3>1. m.hi <= h.hi
      BY <1>2, <1>4 DEF FrontOf
    <3>2. m.hi \in Nat /\ h.hi \in Nat
      BY <1>3, <1>4 DEF Item
    <3> QED
      BY <1>8, <3>1, <3>2
  <2>1. up = [sp EXCEPT ![1] = Remainder(h, m)]
    BY <1>5, <1>8
  <2>a. /\ Remainder(h, m) \in Item /\ Len(sp) \in Nat /\ Len(sp) >= 1
        /\ up \in Seq(Item) /\ Len(up) = Len(sp) /\ up[1] = Remainder(h, m)
        /\ \A i \in 1..Len(sp) : i # 1 => up[i] = sp[i]
    <3>1. Remainder(h, m) \in Item
      BY <1>3, RestItem
    <3> QED
      BY <1>3, <2>1, <3>1
  <2>2. Placing(Q)
    <3>1. Append(sr, m) \in Seq(Item)
      BY <1>3, AppendAt
    <3>2. \A q \in Places : Q[q] \in Seq(Item)
      BY <1>6, <2>a, <3>1 DEF Placing
    <3>3. Q = [q \in Places |-> Q[q]]
      BY <1>1, <1>6 DEF MoveTo, Placing
    <3> QED
      BY <3>2, <3>3 DEF Placing
  <2>3. \A q : Shift(P, p, m, q) = 0
    BY <1>2, <1>4, <1>8 DEF Shift
  <2>4. ASSUME NEW q \in Places, NEW i \in 1..Len(Q[q])
        PROVE  \/ q = r /\ i = Len(Q[r]) /\ Q[q][i] = m
               \/ \E j \in 1..Len(P[q]) :
                    /\ j = i + Shift(P, p, m, q) /\ PartOf(Q[q][i], P[q][j])
                    /\ q = p /\ j = 1 => m.hi < P[p][1].hi /\ Q[q][i] = Remainder(P[p][1], m)
                    /\ ~(q = p /\ j = 1) => Q[q][i] = P[q][j]
    <3>1. CASE q = p
      <4>1. i \in 1..Len(sp) /\ i \in Nat /\ sp[i] \in Item
        BY <1>6, <2>a, <3>1
      <4>2. CASE i = 1
        <5>1. PartOf(Remainder(h, m), h)
          <6>1. m.lo = h.lo /\ m.lo <= m.hi
            BY <1>2, <1>4 DEF FrontOf
          <6> QED
            BY <1>3, <1>4, <6>1, RestItem, RestWithin
        <5> QED
          BY <1>2, <1>4, <1>6, <2>0, <2>3, <2>a, <3>1, <4>1, <4>2, <5>1
      <4>3. CASE i # 1
        <5>1. PartOf(sp[i], sp[i])
          BY <4>1, WithinSelf
        <5> QED
          BY <1>2, <1>6, <2>3, <2>a, <3>1, <4>1, <4>3, <5>1
      <4> QED
        BY <4>2, <4>3
    <3>2. CASE q # p /\ q # r
      <4>1. Q[q] = P[q] /\ P[q] \in Seq(Item)
        BY <1>6, <3>2 DEF Placing
      <4>2. P[q][i] \in Item /\ i \in 1..Len(P[q]) /\ i \in Nat
        BY <4>1
      <4>3. PartOf(P[q][i], P[q][i])
        BY <4>2, WithinSelf
      <4> QED
        BY <2>3, <3>2, <4>1, <4>2, <4>3
    <3>3. CASE q = r
      <4>1. Len(Append(sr, m)) = Len(sr) + 1 /\ Len(sr) \in Nat
            /\ Append(sr, m)[Len(sr) + 1] = m
            /\ \A k \in 1..Len(sr) : Append(sr, m)[k] = sr[k]
        BY <1>3, AppendAt
      <4>2. i \in 1..(Len(sr) + 1) /\ i \in Nat
        BY <1>6, <3>3, <4>1
      <4>3. CASE i = Len(sr) + 1
        BY <1>6, <3>3, <4>1, <4>3
      <4>4. CASE i # Len(sr) + 1
        <5>1. i \in 1..Len(sr) /\ Q[r][i] = sr[i] /\ sr[i] \in Item
          BY <1>6, <4>1, <4>2, <4>4
        <5>2. PartOf(sr[i], sr[i])
          BY <5>1, WithinSelf
        <5> QED
          BY <1>2, <2>3, <3>3, <4>2, <5>1, <5>2
      <4> QED
        BY <4>3, <4>4
    <3> QED
      BY <3>1, <3>2, <3>3
  <2>5. ASSUME NEW q \in Places, NEW j \in 1..Len(P[q]), ~(q = p /\ j = 1)
        PROVE  \E i \in 1..Len(Q[q]) : Q[q][i] = P[q][j]
    <3>1. CASE q = p
      BY <1>2, <1>6, <2>5, <2>a, <3>1
    <3>2. CASE q # p /\ q # r
      BY <1>6, <3>2
    <3>3. CASE q = r
      <4>1. j \in 1..Len(Append(sr, m)) /\ Append(sr, m)[j] = sr[j]
        BY <1>2, <1>3, <3>3, AppendAt
      <4> QED
        BY <1>2, <1>6, <3>3, <4>1
    <3> QED
      BY <3>1, <3>2, <3>3
  <2>6. Len(Append(sr, m)) = Len(sr) + 1 /\ Append(sr, m)[Len(Append(sr, m))] = m
    BY <1>3, AppendAt
  <2>7. Len(P[p]) >= 1 /\ Len(Q[p]) = Len(P[p]) - Shift(P, p, m, p) /\ Len(Q[r]) = Len(P[r]) + 1
    BY <1>2, <1>6, <2>3, <2>6, <2>a
  <2>8. Q[r][Len(Q[r])] = m /\ Len(Q[p]) >= 1 /\ Q[p][1] = Remainder(P[p][1], m)
    BY <1>2, <1>4, <1>6, <2>6, <2>a
  <2>9. Tracked(P, Q, p, r, m)
    BY <2>4 DEF Tracked
  <2>10. Kept(P, Q, p)
    BY <2>5 DEF Kept
  <2> QED
    BY <1>6, <2>2, <2>7, <2>8, <2>9, <2>10 DEF Moved
<1> QED
  BY <1>1, <1>7, <1>8

\* A route goes forward, and what is behind a place is behind where it goes on to.
LEMMA RouteFacts ==
  ASSUME NEW p \in Places, NEW r \in Places, <<p, r>> \in Routes
  PROVE  /\ p # r /\ Behind(p, r) /\ ~Behind(r, p) /\ ~Behind(r, r) /\ ~Behind(p, p)
         /\ \A t \in Places : Behind(r, t) => Behind(p, t) /\ t # p
BY DEF Places, Routes, Behind

\* Items that are within ordered items are ordered.
LEMMA BeforeWithin ==
  ASSUME NEW x \in Item, NEW y \in Item, NEW u \in Item, NEW v \in Item,
         Before(x, y), PartOf(u, x), PartOf(v, y)
  PROVE  Before(u, v)
<1>1. /\ x.hi \in Nat /\ y.lo \in Nat /\ u.hi = x.hi /\ v.lo \in Nat /\ v.lo >= y.lo
      /\ u.req = x.req /\ v.req = y.req
  BY DEF PartOf, Item
<1>2. x.req < y.req \/ (x.req = y.req /\ x.hi < y.lo)
  BY DEF Before
<1> QED
  BY <1>1, <1>2 DEF Before

\* The front of an item is an item that comes where the item comes.
LEMMA FrontItem ==
  ASSUME NEW P, Placing(P), NEW p \in Places, NEW m, FrontOf(P, p, m)
  PROVE  /\ P[p][1] \in Item /\ m \in Item /\ 1 \in 1..Len(P[p])
         /\ m.req = P[p][1].req /\ m.lo = P[p][1].lo /\ m.lo <= m.hi /\ m.hi <= P[p][1].hi
         /\ \A y \in Item : Before(P[p][1], y) => Before(m, y)
         /\ \A y \in Item : Before(y, P[p][1]) => Before(y, m)
<1>1. PICK s \in Seq(Item) : s = P[p]
  BY DEF Placing
<1>2. s # << >> /\ m \in Item
      /\ m.req = s[1].req /\ m.lo = s[1].lo /\ m.lo <= m.hi /\ m.hi <= s[1].hi
  BY <1>1 DEF FrontOf
<1>3. s[1] \in Item /\ 1 \in 1..Len(s)
  BY <1>2
<1>4. PICK h \in Item : h = s[1]
  BY <1>3
<1>5. /\ h.req \in Nat /\ h.lo \in Nat /\ h.hi \in Nat /\ m.hi \in Nat /\ m.hi <= h.hi
      /\ m.req = h.req /\ m.lo = h.lo
  BY <1>2, <1>4 DEF Item
<1>6. ASSUME NEW y \in Item, Before(h, y) PROVE Before(m, y)
  <2>1. y.lo \in Nat /\ (h.req < y.req \/ (h.req = y.req /\ h.hi < y.lo))
    BY <1>6 DEF Before, Item
  <2> QED
    BY <1>5, <2>1 DEF Before
<1>7. ASSUME NEW y \in Item, Before(y, h) PROVE Before(y, m)
  BY <1>5, <1>7 DEF Before
<1> QED
  BY <1>1, <1>2, <1>3, <1>4, <1>6, <1>7

\* A place holds a sequence of items.
LEMMA PlacedItem ==
  ASSUME NEW P, Placing(P), NEW p \in Places
  PROVE  P[p] \in Seq(Item) /\ Len(P[p]) \in Nat /\ \A i \in 1..Len(P[p]) : P[p][i] \in Item
<1>1. PICK s \in Seq(Item) : s = P[p]
  BY DEF Placing
<1>2. Len(s) \in Nat /\ \A i \in 1..Len(s) : s[i] \in Item
  OBVIOUS
<1> QED
  BY <1>1, <1>2

\* No item that does not pass p but meets it at r has to go before m.
Clear(P, p, r, m) ==
  \A t \in Places : \A j \in 1..Len(P[t]) :
    Behind(t, r) /\ t # p /\ ~Behind(t, p) => Before(m, P[t][j])

\* A move keeps the order of the words, if nothing that meets it where it goes has to go
\* first: the one condition that the merges have to see to.
LEMMA MoveOrdered ==
  ASSUME NEW P, Placing(P), NEW Q, NEW p \in Places, NEW r \in Places, <<p, r>> \in Routes,
         NEW m, FrontOf(P, p, m), Moved(P, Q, p, r, m), Ordered(P),
         Clear(P, p, r, m)
  PROVE  Ordered(Q)
<1>0. Placing(Q)
  BY DEF Moved, Tracked, Kept
<1>1. SUFFICES ASSUME NEW a \in Places, NEW b \in Places, NEW i \in 1..Len(Q[a]),
                      NEW j \in 1..Len(Q[b]), Behind(b, a) \/ (b = a /\ i < j)
               PROVE  Before(Q[a][i], Q[b][j])
  BY DEF Ordered
<1>2. PICK h : h = P[p][1]
  OBVIOUS
<1>3. /\ h \in Item /\ m \in Item /\ 1 \in 1..Len(P[p])
      /\ \A y \in Item : Before(h, y) => Before(m, y)
      /\ \A y \in Item : Before(y, h) => Before(y, m)
      /\ m.req = h.req
  BY <1>2, FrontItem
<1>4. \A q \in Places : \A k \in 1..Len(P[q]) : P[q][k] \in Item
  BY PlacedItem
<1>5. Q[a][i] \in Item /\ Q[b][j] \in Item /\ Len(Q[a]) \in Nat /\ Len(Q[b]) \in Nat
  BY <1>0, PlacedItem
<1>6. /\ p # r /\ Behind(p, r) /\ ~Behind(r, p) /\ ~Behind(r, r) /\ ~Behind(p, p)
      /\ \A t \in Places : Behind(r, t) => Behind(p, t) /\ t # p
  BY RouteFacts
<1>7. \A q \in Places : \A k \in 1..Len(Q[q]) :
       \/ q = r /\ k = Len(Q[r]) /\ Q[q][k] = m
       \/ \E n \in 1..Len(P[q]) :
            /\ n = k + Shift(P, p, m, q) /\ PartOf(Q[q][k], P[q][n])
            /\ q = p /\ n = 1 => m.hi < h.hi /\ Q[q][k] = Remainder(h, m)
            /\ ~(q = p /\ n = 1) => Q[q][k] = P[q][n]
  BY <1>2 DEF Moved, Tracked, Kept
<1>8. \A q : Shift(P, p, m, q) \in {0, 1}
  BY DEF Shift
<1>9. CASE a = r /\ i = Len(Q[r]) /\ Q[a][i] = m
  <2>1. Behind(b, r)
    BY <1>1, <1>5, <1>9
  <2>2. b # r
    BY <1>6, <2>1
  <2>3. PICK n \in 1..Len(P[b]) :
            /\ n = j + Shift(P, p, m, b) /\ PartOf(Q[b][j], P[b][n])
            /\ b = p /\ n = 1 => m.hi < h.hi /\ Q[b][j] = Remainder(h, m)
            /\ ~(b = p /\ n = 1) => Q[b][j] = P[b][n]
    BY <1>7, <2>2
  <2>4. CASE b = p /\ n = 1
    <3>3. Q[b][j] = Remainder(h, m) /\ m.hi \in Nat
      BY <1>3, <2>3, <2>4 DEF Item
    <3>1. Q[b][j].req = m.req /\ Q[b][j].lo = m.hi + 1 /\ m.hi \in Nat
      BY <1>3, <3>3, RestItem
    <3>2. m.hi < Q[b][j].lo
      BY <3>1
    <3> QED
      BY <1>9, <3>1, <3>2 DEF Before
  <2>5. CASE b = p /\ n # 1
    <3>1. Before(h, P[p][n])
      BY <1>2, <1>3, <2>3, <2>5 DEF Ordered
    <3> QED
      BY <1>3, <1>4, <1>9, <2>3, <2>5, <3>1
  <2>6. CASE b # p /\ Behind(b, p)
    <3>1. Before(h, P[b][n])
      BY <1>2, <1>3, <2>3, <2>6 DEF Ordered
    <3> QED
      BY <1>3, <1>4, <1>9, <2>3, <2>6, <3>1
  <2>7. CASE b # p /\ ~Behind(b, p)
    BY <1>9, <2>1, <2>3, <2>7 DEF Clear
  <2> QED
    BY <2>4, <2>5, <2>6, <2>7
<1>10. CASE ~(a = r /\ i = Len(Q[r]) /\ Q[a][i] = m)
  <2>1. PICK k \in 1..Len(P[a]) :
            /\ k = i + Shift(P, p, m, a) /\ PartOf(Q[a][i], P[a][k])
            /\ a = p /\ k = 1 => m.hi < h.hi /\ Q[a][i] = Remainder(h, m)
            /\ ~(a = p /\ k = 1) => Q[a][i] = P[a][k]
    BY <1>7, <1>10
  <2>2. CASE b = r /\ j = Len(Q[r]) /\ Q[b][j] = m
    <3>1. CASE a = r
      <4>1. k \in 1..Len(P[r]) /\ ~(a = p /\ k = 1)
        BY <1>6, <2>1, <3>1
      <4>2. Before(P[r][k], h)
        BY <1>2, <1>3, <1>6, <4>1 DEF Ordered
      <4> QED
        BY <1>3, <1>4, <2>1, <2>2, <3>1, <4>1, <4>2
    <3>2. CASE a # r
      <4>1. Behind(r, a)
        BY <1>1, <2>2, <3>2
      <4>2. Behind(p, a) /\ a # p
        BY <1>6, <4>1
      <4>3. Before(P[a][k], h)
        BY <1>2, <1>3, <2>1, <4>2 DEF Ordered
      <4> QED
        BY <1>3, <1>4, <2>1, <2>2, <4>2, <4>3
    <3> QED
      BY <3>1, <3>2
  <2>3. CASE ~(b = r /\ j = Len(Q[r]) /\ Q[b][j] = m)
    <3>1. PICK n \in 1..Len(P[b]) : n = j + Shift(P, p, m, b) /\ PartOf(Q[b][j], P[b][n])
      BY <1>7, <2>3
    <3>2. Behind(b, a) \/ (b = a /\ k < n)
      <4>1. CASE b = a /\ i < j
        <5>1. k < n
          BY <1>8, <2>1, <3>1, <4>1
        <5> QED
          BY <4>1, <5>1
      <4> QED
        BY <1>1, <4>1
    <3>3. Before(P[a][k], P[b][n])
      BY <2>1, <3>1, <3>2 DEF Ordered
    <3> QED
      BY <1>4, <1>5, <2>1, <3>1, <3>3, BeforeWithin
  <2> QED
    BY <2>2, <2>3
<1> QED
  BY <1>9, <1>10

\* A move keeps every item where it can be, if it does so for the two it makes.
LEMMA MoveLocated ==
  ASSUME NEW P, Placing(P), NEW Q, NEW p \in Places, NEW r \in Places, p # r, NEW c,
         NEW m, FrontOf(P, p, m), Moved(P, Q, p, r, m), Located(P, c),
         Stands(r, m, c), m.hi < P[p][1].hi => Stands(p, Remainder(P[p][1], m), c)
  PROVE  Located(Q, c)
<1>1. SUFFICES ASSUME NEW q \in Places, NEW k \in 1..Len(Q[q]) PROVE Stands(q, Q[q][k], c)
  BY DEF Located
<1>2. \/ q = r /\ k = Len(Q[r]) /\ Q[q][k] = m
      \/ \E n \in 1..Len(P[q]) :
            /\ q = p /\ n = 1 => m.hi < P[p][1].hi /\ Q[q][k] = Remainder(P[p][1], m)
            /\ ~(q = p /\ n = 1) => Q[q][k] = P[q][n]
  BY DEF Moved, Tracked, Kept
<1>3. CASE q = r /\ k = Len(Q[r]) /\ Q[q][k] = m
  BY <1>3
<1>4. ASSUME NEW n \in 1..Len(P[q]),
             q = p /\ n = 1 => m.hi < P[p][1].hi /\ Q[q][k] = Remainder(P[p][1], m),
             ~(q = p /\ n = 1) => Q[q][k] = P[q][n]
      PROVE  Stands(q, Q[q][k], c)
  <2>1. Stands(q, P[q][n], c)
    BY DEF Located
  <2> QED
    BY <1>4, <2>1
<1> QED
  BY <1>2, <1>3, <1>4

\* A move shows sample nothing.
LEMMA MoveUnseen ==
  ASSUME NEW P, Placing(P), NEW Q, NEW p \in Places, NEW r \in Places, p # r,
         NEW si \in Nat, NEW sk \in Nat,
         NEW m, FrontOf(P, p, m), Moved(P, Q, p, r, m), Unseen(P, si, sk)
  PROVE  Unseen(Q, si, sk)
<1>1. SUFFICES ASSUME NEW q \in Places, NEW k \in 1..Len(Q[q])
               PROVE  After(Q[q][k].req, Q[q][k].lo, si, sk)
  BY DEF Unseen
<1>2. PICK h : h = P[p][1]
  OBVIOUS
<1>3. h \in Item /\ m \in Item /\ 1 \in 1..Len(P[p]) /\ m.req = h.req /\ m.lo = h.lo
  BY <1>2, FrontItem
<1>4. \/ q = r /\ k = Len(Q[r]) /\ Q[q][k] = m
      \/ \E n \in 1..Len(P[q]) : PartOf(Q[q][k], P[q][n])
  BY DEF Moved, Tracked, Kept
<1>5. CASE q = r /\ k = Len(Q[r]) /\ Q[q][k] = m
  <2>1. After(h.req, h.lo, si, sk)
    BY <1>2, <1>3 DEF Unseen
  <2> QED
    BY <1>3, <1>5, <2>1
<1>6. ASSUME NEW n \in 1..Len(P[q]), PartOf(Q[q][k], P[q][n])
      PROVE  After(Q[q][k].req, Q[q][k].lo, si, sk)
  <2>1. After(P[q][n].req, P[q][n].lo, si, sk)
    BY DEF Unseen
  <2>2. Placing(Q)
    BY DEF Moved, Tracked, Kept
  <2>3. PICK x \in Item, z \in Item : x = P[q][n] /\ z = Q[q][k]
    BY <2>2, PlacedItem
  <2>4. z.lo >= x.lo /\ z.lo \in Nat /\ x.lo \in Nat /\ z.req = x.req
    BY <1>6, <2>3 DEF PartOf, Item
  <2> QED
    BY <2>1, <2>3, <2>4 DEF After
<1> QED
  BY <1>4, <1>5, <1>6

\* A move loses no word.
LEMMA MovePresent ==
  ASSUME NEW P, Placing(P), NEW Q, NEW p \in Places, NEW r \in Places, p # r,
         NEW c \in Seq(Nat),
         NEW si, NEW sk,
         NEW m, FrontOf(P, p, m), Moved(P, Q, p, r, m), Present(P, c, si, sk)
  PROVE  Present(Q, c, si, sk)
<1>1. SUFFICES ASSUME NEW i \in 1..Len(c), NEW k \in 1..c[i], After(i, k, si, sk)
               PROVE  \E q \in Places : \E j \in 1..Len(Q[q]) : Holds(Q[q][j], i, k)
  BY DEF Present
<1>5. PICK q \in Places : \E j \in 1..Len(P[q]) : Holds(P[q][j], i, k)
  BY <1>1 DEF Present
<1>2. PICK j \in 1..Len(P[q]) : Holds(P[q][j], i, k)
  BY <1>5
<1>3. CASE ~(q = p /\ j = 1)
  <2>1. PICK n \in 1..Len(Q[q]) : Q[q][n] = P[q][j]
    BY <1>3 DEF Moved, Tracked, Kept
  <2> QED
    BY <1>2, <2>1
<1>4. CASE q = p /\ j = 1
  <2>1. PICK h : h = P[p][1]
    OBVIOUS
  <2>2. /\ h \in Item /\ m \in Item /\ m.req = h.req /\ m.lo = h.lo /\ m.hi <= h.hi
    BY <2>1, FrontItem
  <2>3. h.req = i /\ h.lo <= k /\ k <= h.hi
    BY <1>2, <1>4, <2>1 DEF Holds
  <2>4. k \in Nat /\ m.hi \in Nat /\ h.hi \in Nat /\ i \in Nat
    <3>1. c[i] \in Nat
      OBVIOUS
    <3> QED
      BY <2>2, <3>1 DEF Item
  <2>5. CASE k <= m.hi
    <3>1. Holds(m, i, k)
      BY <2>2, <2>3, <2>5 DEF Holds
    <3>2. Q[r][Len(Q[r])] = m /\ Len(Q[r]) \in 1..Len(Q[r])
      <4>1. Len(Q[r]) = Len(P[r]) + 1 /\ Len(P[r]) \in Nat /\ Q[r][Len(Q[r])] = m
        BY PlacedItem DEF Moved, Tracked, Kept
      <4> QED
        BY <4>1
    <3> QED
      BY <3>1, <3>2
  <2>6. CASE ~(k <= m.hi)
    <3>1. m.hi < h.hi
      BY <2>3, <2>4, <2>6
    <3>2. Len(Q[p]) >= 1 /\ Q[p][1] = Remainder(h, m)
      BY <2>1, <3>1 DEF Moved, Tracked, Kept
    <3>3. Len(Q[p]) \in Nat
      BY PlacedItem DEF Moved, Tracked, Kept
    <3>4. Holds(Remainder(h, m), i, k)
      <4>1. Remainder(h, m).req = i /\ Remainder(h, m).hi = h.hi
            /\ Remainder(h, m).lo = m.hi + 1
        BY <2>2, <2>3, RestItem
      <4>2. m.hi + 1 <= k
        BY <2>4, <2>6
      <4> QED
        BY <2>3, <4>1, <4>2 DEF Holds
    <3>5. 1 \in 1..Len(Q[p])
      BY <3>2, <3>3
    <3> QED
      BY <3>2, <3>4, <3>5
  <2> QED
    BY <2>5, <2>6
<1> QED
  BY <1>3, <1>4

-----------------------------------------------------------------------------
(***************************************************************************)
(* The numbers of the commands, by which intra_merge puts the words of the *)
(* two engines of cmd_generator in order.                                  *)
(***************************************************************************)

\* The places between cmd_generator and intra_merge.
Cutting == 6..11

\* The numbers of the commands on their way are those from the one intra_merge waits for on.
NumRange(P, cd, G) ==
  \A p \in Cutting : \A i \in 1..Len(P[p]) : cd <= P[p][i].num /\ P[p][i].num < G

\* Two items are of the same command.
SameCommand(x, y) == x.req = y.req /\ x.top = y.top

\* Lower numbers come first, and a number is that of one command of one engine.
NumOrder(P) ==
  \A p \in Cutting, r \in Cutting : \A i \in 1..Len(P[p]), j \in 1..Len(P[r]) :
    /\ P[p][i].num < P[r][j].num => Before(P[p][i], P[r][j])
    /\ P[p][i].num = P[r][j].num => (p <= 8 <=> r <= 8) /\ SameCommand(P[p][i], P[r][j])

\* The last word of every command from the one intra_merge waits for on is on its way.
NumAll(P, cd, G) ==
  \A n \in cd..(G - 1) : \E p \in Cutting : \E i \in 1..Len(P[p]) :
    P[p][i].num = n /\ P[p][i].hi = P[p][i].top

\* The commands on their way, by number: cd is the next one due, G the next one given.
Numbered(P, cd, G) == NumRange(P, cd, G) /\ NumOrder(P) /\ NumAll(P, cd, G)

\* The words of z are among those of x.
Inside(z, x) == z.req = x.req /\ x.lo <= z.lo /\ z.hi <= x.hi

\* Items inside of ordered items are ordered.
LEMMA BeforeInside ==
  ASSUME NEW x \in Item, NEW y \in Item, NEW u \in Item, NEW v \in Item,
         Before(x, y), Inside(u, x), Inside(v, y)
  PROVE  Before(u, v)
<1>1. /\ x.hi \in Nat /\ y.lo \in Nat /\ u.hi \in Nat /\ u.hi <= x.hi /\ v.lo \in Nat
      /\ v.lo >= y.lo /\ u.req = x.req /\ v.req = y.req
  BY DEF Inside, Item
<1>2. x.req < y.req \/ (x.req = y.req /\ x.hi < y.lo)
  BY DEF Before
<1> QED
  BY <1>1, <1>2 DEF Before

\* Every item after a move was, in whole or in part, an item before it.
LEMMA MoveOrigins ==
  ASSUME NEW P, Placing(P), NEW Q, NEW p \in Places, NEW r \in Places, p # r,
         NEW m, FrontOf(P, p, m), Moved(P, Q, p, r, m)
  PROVE  \A q \in Places : \A k \in 1..Len(Q[q]) : \E o \in Places : \E n \in 1..Len(P[o]) :
           /\ Inside(Q[q][k], P[o][n]) /\ (o = q \/ (o = p /\ q = r))
           /\ m.num = P[p][1].num /\ m.top = P[p][1].top
                => Q[q][k].num = P[o][n].num /\ Q[q][k].top = P[o][n].top
<1> SUFFICES ASSUME NEW q \in Places, NEW k \in 1..Len(Q[q])
             PROVE  \E o \in Places : \E n \in 1..Len(P[o]) :
           /\ Inside(Q[q][k], P[o][n]) /\ (o = q \/ (o = p /\ q = r))
           /\ m.num = P[p][1].num /\ m.top = P[p][1].top
                => Q[q][k].num = P[o][n].num /\ Q[q][k].top = P[o][n].top
  OBVIOUS
<1>1. \/ q = r /\ k = Len(Q[r]) /\ Q[q][k] = m
      \/ \E n \in 1..Len(P[q]) : PartOf(Q[q][k], P[q][n])
  BY DEF Moved, Tracked, Kept
<1>2. CASE q = r /\ k = Len(Q[r]) /\ Q[q][k] = m
  <2>1. PICK h : h = P[p][1]
    OBVIOUS
  <2>2. /\ h \in Item /\ m \in Item /\ 1 \in 1..Len(P[p]) /\ m.req = h.req /\ m.lo = h.lo
        /\ m.hi <= h.hi
    BY <2>1, FrontItem
  <2>3. Inside(m, h)
    BY <2>2 DEF Inside, Item
  <2> QED
    BY <1>2, <2>1, <2>2, <2>3
<1>3. ASSUME NEW n \in 1..Len(P[q]), PartOf(Q[q][k], P[q][n])
      PROVE  /\ Inside(Q[q][k], P[q][n])
             /\ Q[q][k].num = P[q][n].num /\ Q[q][k].top = P[q][n].top
  <2>1. P[q][n] \in Item
    BY PlacedItem
  <2>2. PICK x, z : x \in Item /\ x = P[q][n] /\ z = Q[q][k]
    BY <2>1
  <2>3. z.req = x.req /\ z.num = x.num /\ z.top = x.top /\ z.hi = x.hi /\ z.lo >= x.lo
        /\ x.hi \in Nat
    BY <1>3, <2>2 DEF PartOf, Item
  <2> QED
    BY <2>2, <2>3 DEF Inside
<1> QED
  BY <1>1, <1>2, <1>3

\* Every end of an item before a move is the end of an item after it.
LEMMA MoveEnds ==
  ASSUME NEW P, Placing(P), NEW Q, NEW p \in Places, NEW r \in Places, p # r,
         NEW m, FrontOf(P, p, m), Moved(P, Q, p, r, m),
         NEW o \in Places, NEW n \in 1..Len(P[o])
  PROVE  \/ \E k \in 1..Len(Q[o]) :
              /\ Q[o][k].req = P[o][n].req /\ Q[o][k].num = P[o][n].num
              /\ Q[o][k].top = P[o][n].top /\ Q[o][k].hi = P[o][n].hi
         \/ /\ o = p /\ n = 1 /\ m.hi = P[p][1].hi /\ m.req = P[p][1].req
            /\ Len(Q[r]) \in 1..Len(Q[r]) /\ Q[r][Len(Q[r])] = m
<1>1. CASE ~(o = p /\ n = 1)
  <2>1. \E k \in 1..Len(Q[o]) : Q[o][k] = P[o][n]
    BY <1>1 DEF Moved, Tracked, Kept
  <2> QED
    BY <2>1
<1>2. CASE o = p /\ n = 1
  <2>1. PICK h : h = P[p][1]
    OBVIOUS
  <2>2. h \in Item /\ m \in Item /\ m.req = h.req /\ m.hi <= h.hi
    BY <2>1, FrontItem
  <2>3. m.hi = h.hi \/ m.hi < h.hi
    BY <2>2 DEF Item
  <2>4. Len(P[r]) \in Nat /\ Len(Q[p]) \in Nat
    BY PlacedItem DEF Moved, Tracked, Kept
  <2>5. CASE m.hi = h.hi
    <3>1. Len(Q[r]) = Len(P[r]) + 1 /\ Q[r][Len(Q[r])] = m
      BY DEF Moved, Tracked, Kept
    <3>2. Len(Q[r]) \in 1..Len(Q[r])
      BY <2>4, <3>1
    <3>3. m.hi = P[p][1].hi /\ m.req = P[p][1].req
      BY <2>1, <2>2, <2>5
    <3> QED
      BY <1>2, <3>1, <3>2, <3>3
  <2>6. CASE m.hi < h.hi
    <3>1. Len(Q[p]) >= 1 /\ Q[p][1] = Remainder(h, m)
      BY <2>1, <2>6 DEF Moved, Tracked, Kept
    <3>2. 1 \in 1..Len(Q[p])
      BY <2>4, <3>1
    <3>3. /\ Remainder(h, m).req = h.req /\ Remainder(h, m).num = h.num
          /\ Remainder(h, m).top = h.top /\ Remainder(h, m).hi = h.hi
      BY <2>2, RestItem
    <3>4. /\ Q[o][1].req = P[o][n].req /\ Q[o][1].num = P[o][n].num
          /\ Q[o][1].top = P[o][n].top /\ Q[o][1].hi = P[o][n].hi
      BY <1>2, <2>1, <3>1, <3>3
    <3> QED
      BY <1>2, <3>2, <3>4
  <2> QED
    BY <2>3, <2>5, <2>6
<1> QED
  BY <1>1, <1>2

\* The places of the commands are places.
LEMMA CuttingPlaces == \A q \in Cutting : q \in Places
BY DEF Cutting, Places

\* What changes no command keeps their numbers.
LEMMA NumKept ==
  ASSUME NEW P, NEW Q, NEW cd, NEW G, \A q \in Cutting : Q[q] = P[q], Numbered(P, cd, G)
  PROVE  Numbered(Q, cd, G)
<1>1. NumRange(Q, cd, G)
  BY DEF Numbered, NumRange
<1>2. NumOrder(Q)
  <2> SUFFICES ASSUME NEW a \in Cutting, NEW b \in Cutting, NEW i \in 1..Len(Q[a]),
                      NEW j \in 1..Len(Q[b])
               PROVE  /\ Q[a][i].num < Q[b][j].num => Before(Q[a][i], Q[b][j])
                      /\ Q[a][i].num = Q[b][j].num
                           => (a <= 8 <=> b <= 8) /\ SameCommand(Q[a][i], Q[b][j])
    BY DEF NumOrder
  <2>1. Q[a] = P[a] /\ Q[b] = P[b]
    OBVIOUS
  <2>2. /\ P[a][i].num < P[b][j].num => Before(P[a][i], P[b][j])
        /\ P[a][i].num = P[b][j].num => (a <= 8 <=> b <= 8) /\ SameCommand(P[a][i], P[b][j])
    BY <2>1 DEF Numbered, NumOrder
  <2> QED
    BY <2>1, <2>2
<1>3. NumAll(Q, cd, G)
  <2> SUFFICES ASSUME NEW n \in cd..(G - 1)
               PROVE  \E p \in Cutting : \E i \in 1..Len(Q[p]) :
                        Q[p][i].num = n /\ Q[p][i].hi = Q[p][i].top
    BY DEF NumAll
  <2>1. \E p \in Cutting : \E i \in 1..Len(P[p]) : P[p][i].num = n /\ P[p][i].hi = P[p][i].top
    BY DEF Numbered, NumAll
  <2> QED
    BY <2>1
<1> QED
  BY <1>1, <1>2, <1>3 DEF Numbered

\* A move inside an engine.
LEMMA NumInside ==
  ASSUME NEW P, Placing(P), NEW Q, NEW p \in Cutting,
         NEW r \in Cutting, p # r, p <= 8 <=> r <= 8,
         NEW m, FrontOf(P, p, m), Moved(P, Q, p, r, m), NEW cd, NEW G, Numbered(P, cd, G),
         m.num = P[p][1].num, m.top = P[p][1].top
  PROVE  Numbered(Q, cd, G)
<1>0. p \in Places /\ r \in Places /\ Placing(Q)
  BY CuttingPlaces DEF Moved, Tracked, Kept
<1>1. ASSUME NEW q \in Cutting, NEW k \in 1..Len(Q[q])
      PROVE  \E o \in Cutting : \E n \in 1..Len(P[o]) :
           /\ Inside(Q[q][k], P[o][n]) /\ (o <= 8 <=> q <= 8)
           /\ Q[q][k].num = P[o][n].num /\ Q[q][k].top = P[o][n].top
  <2>1. q \in Places
    BY CuttingPlaces
  <2>2. PICK o \in Places : \E n \in 1..Len(P[o]) :
           /\ Inside(Q[q][k], P[o][n]) /\ (o = q \/ (o = p /\ q = r))
           /\ Q[q][k].num = P[o][n].num /\ Q[q][k].top = P[o][n].top
    BY <1>0, <2>1, MoveOrigins
  <2>3. o \in Cutting /\ (o <= 8 <=> q <= 8)
    BY <2>2
  <2> QED
    BY <2>2, <2>3
<1>2. NumRange(Q, cd, G)
  <2> SUFFICES ASSUME NEW q \in Cutting, NEW k \in 1..Len(Q[q])
               PROVE  cd <= Q[q][k].num /\ Q[q][k].num < G
    BY DEF NumRange
  <2>1. PICK o \in Cutting : \E n \in 1..Len(P[o]) : Q[q][k].num = P[o][n].num
    BY <1>1
  <2> QED
    BY <2>1 DEF Numbered, NumRange
<1>3. NumOrder(Q)
  <2> SUFFICES ASSUME NEW a \in Cutting, NEW b \in Cutting, NEW i \in 1..Len(Q[a]),
                      NEW j \in 1..Len(Q[b])
               PROVE  /\ Q[a][i].num < Q[b][j].num => Before(Q[a][i], Q[b][j])
                      /\ Q[a][i].num = Q[b][j].num
                           => (a <= 8 <=> b <= 8) /\ SameCommand(Q[a][i], Q[b][j])
    BY DEF NumOrder
  <2>1. PICK o \in Cutting : \E n \in 1..Len(P[o]) :
           /\ Inside(Q[a][i], P[o][n]) /\ (o <= 8 <=> a <= 8)
           /\ Q[a][i].num = P[o][n].num /\ Q[a][i].top = P[o][n].top
    BY <1>1
  <2>2. PICK n \in 1..Len(P[o]) :
           /\ Inside(Q[a][i], P[o][n])
           /\ Q[a][i].num = P[o][n].num /\ Q[a][i].top = P[o][n].top
    BY <2>1
  <2>3. PICK oo \in Cutting : \E nn \in 1..Len(P[oo]) :
           /\ Inside(Q[b][j], P[oo][nn]) /\ (oo <= 8 <=> b <= 8)
           /\ Q[b][j].num = P[oo][nn].num /\ Q[b][j].top = P[oo][nn].top
    BY <1>1
  <2>4. PICK nn \in 1..Len(P[oo]) :
           /\ Inside(Q[b][j], P[oo][nn])
           /\ Q[b][j].num = P[oo][nn].num /\ Q[b][j].top = P[oo][nn].top
    BY <2>3
  <2>5. /\ P[o][n].num < P[oo][nn].num => Before(P[o][n], P[oo][nn])
        /\ P[o][n].num = P[oo][nn].num
             => (o <= 8 <=> oo <= 8) /\ SameCommand(P[o][n], P[oo][nn])
    BY DEF Numbered, NumOrder
  <2>6. P[o][n] \in Item /\ P[oo][nn] \in Item /\ Q[a][i] \in Item /\ Q[b][j] \in Item
    BY <1>0, CuttingPlaces, PlacedItem
  <2>7. Q[a][i].num < Q[b][j].num => Before(Q[a][i], Q[b][j])
    BY <2>2, <2>4, <2>5, <2>6, BeforeInside
  <2>8. Q[a][i].num = Q[b][j].num
           => (a <= 8 <=> b <= 8) /\ SameCommand(Q[a][i], Q[b][j])
    BY <2>1, <2>2, <2>3, <2>4, <2>5 DEF SameCommand, Inside
  <2> QED
    BY <2>7, <2>8
<1>4. NumAll(Q, cd, G)
  <2> SUFFICES ASSUME NEW n \in cd..(G - 1)
               PROVE  \E q \in Cutting : \E i \in 1..Len(Q[q]) :
                        Q[q][i].num = n /\ Q[q][i].hi = Q[q][i].top
    BY DEF NumAll
  <2>1. PICK o \in Cutting : \E i \in 1..Len(P[o]) : P[o][i].num = n /\ P[o][i].hi = P[o][i].top
    BY DEF Numbered, NumAll
  <2>2. PICK i \in 1..Len(P[o]) : P[o][i].num = n /\ P[o][i].hi = P[o][i].top
    BY <2>1
  <2>3. \/ \E k \in 1..Len(Q[o]) :
                /\ Q[o][k].req = P[o][i].req /\ Q[o][k].num = P[o][i].num
                /\ Q[o][k].top = P[o][i].top /\ Q[o][k].hi = P[o][i].hi
        \/ /\ o = p /\ i = 1 /\ m.hi = P[p][1].hi /\ m.req = P[p][1].req
           /\ Len(Q[r]) \in 1..Len(Q[r]) /\ Q[r][Len(Q[r])] = m
    <3>1. o \in Places
      BY CuttingPlaces
    <3> QED
      BY <1>0, <3>1, MoveEnds
  <2> QED
    BY <2>2, <2>3
<1> QED
  BY <1>2, <1>3, <1>4 DEF Numbered

\* A new command.
LEMMA NumCut ==
  ASSUME NEW P, Placing(P), NEW Q, NEW r \in {6, 9},
         NEW m, FrontOf(P, 2, m), Moved(P, Q, 2, r, m), Ordered(P),
         NEW cd \in Nat, NEW G \in Nat, cd <= G, Numbered(P, cd, G), m.num = G, m.hi = m.top
  PROVE  Numbered(Q, cd, G + 1)
<1>0. 2 \in Places /\ r \in Places /\ r \in Cutting /\ 2 # r /\ 2 \notin Cutting /\ Placing(Q)
  BY DEF Moved, Tracked, Kept, Places, Cutting
<1>1. ASSUME NEW q \in Cutting, NEW k \in 1..Len(Q[q])
      PROVE  \/ q = r /\ k = Len(Q[r]) /\ Q[q][k] = m
             \/ \E n \in 1..Len(P[q]) : Q[q][k] = P[q][n]
  <2>1. q \in Places /\ q # 2
    BY <1>0, CuttingPlaces
  <2> QED
    BY <2>1 DEF Moved, Tracked, Kept
<1>2. ASSUME NEW q \in Cutting, NEW n \in 1..Len(P[q])
      PROVE  P[q][n] \in Item /\ P[q][n].num < G /\ cd <= P[q][n].num /\ Before(P[q][n], m)
  <2>1. q \in Places /\ Behind(2, q)
    BY DEF Places, Cutting, Behind
  <2>2. 1 \in 1..Len(P[2]) /\ \A y \in Item : Before(y, P[2][1]) => Before(y, m)
    BY <1>0, FrontItem
  <2>3. P[q][n] \in Item /\ Before(P[q][n], P[2][1])
    BY <1>0, <2>1, <2>2, PlacedItem DEF Ordered
  <2>4. cd <= P[q][n].num /\ P[q][n].num < G
    BY DEF Numbered, NumRange
  <2> QED
    BY <2>2, <2>3, <2>4
<1>3. NumRange(Q, cd, G + 1)
  <2> SUFFICES ASSUME NEW q \in Cutting, NEW k \in 1..Len(Q[q])
               PROVE  cd <= Q[q][k].num /\ Q[q][k].num < G + 1
    BY DEF NumRange
  <2>1. CASE q = r /\ k = Len(Q[r]) /\ Q[q][k] = m
    BY <2>1
  <2>2. ASSUME NEW n \in 1..Len(P[q]), Q[q][k] = P[q][n]
        PROVE  cd <= Q[q][k].num /\ Q[q][k].num < G + 1
    BY <1>2, <2>2 DEF Item
  <2> QED
    BY <1>1, <2>1, <2>2
<1>4. NumOrder(Q)
  <2> SUFFICES ASSUME NEW a \in Cutting, NEW b \in Cutting, NEW i \in 1..Len(Q[a]),
                      NEW j \in 1..Len(Q[b])
               PROVE  /\ Q[a][i].num < Q[b][j].num => Before(Q[a][i], Q[b][j])
                      /\ Q[a][i].num = Q[b][j].num
                           => (a <= 8 <=> b <= 8) /\ SameCommand(Q[a][i], Q[b][j])
    BY DEF NumOrder
  <2>1. CASE Q[a][i] = m /\ a = r
    <3>1. CASE Q[b][j] = m /\ b = r
      BY <2>1, <3>1 DEF SameCommand
    <3>2. ASSUME NEW n \in 1..Len(P[b]), Q[b][j] = P[b][n]
          PROVE  Q[b][j].num < Q[a][i].num /\ Q[b][j].num \in Nat
      BY <1>2, <2>1, <3>2 DEF Item
    <3> QED
      BY <1>1, <2>1, <3>1, <3>2
  <2>2. ASSUME NEW k \in 1..Len(P[a]), Q[a][i] = P[a][k]
        PROVE  /\ Q[a][i].num < Q[b][j].num => Before(Q[a][i], Q[b][j])
               /\ Q[a][i].num = Q[b][j].num
                    => (a <= 8 <=> b <= 8) /\ SameCommand(Q[a][i], Q[b][j])
    <3>1. CASE Q[b][j] = m /\ b = r
      <4>1. Q[a][i].num < G /\ Q[a][i].num \in Nat /\ Before(Q[a][i], m)
        BY <1>2, <2>2 DEF Item
      <4> QED
        BY <3>1, <4>1
    <3>2. ASSUME NEW n \in 1..Len(P[b]), Q[b][j] = P[b][n]
          PROVE  /\ Q[a][i].num < Q[b][j].num => Before(Q[a][i], Q[b][j])
                 /\ Q[a][i].num = Q[b][j].num
                      => (a <= 8 <=> b <= 8) /\ SameCommand(Q[a][i], Q[b][j])
      BY <2>2, <3>2 DEF Numbered, NumOrder
    <3> QED
      BY <1>1, <3>1, <3>2
  <2> QED
    BY <1>1, <2>1, <2>2
<1>5. NumAll(Q, cd, G + 1)
  <2> SUFFICES ASSUME NEW n \in cd..((G + 1) - 1)
               PROVE  \E q \in Cutting : \E i \in 1..Len(Q[q]) :
                        Q[q][i].num = n /\ Q[q][i].hi = Q[q][i].top
    BY DEF NumAll
  <2>1. CASE n = G
    <3>1. Len(Q[r]) = Len(P[r]) + 1 /\ Len(P[r]) \in Nat /\ Q[r][Len(Q[r])] = m
      BY <1>0, PlacedItem DEF Moved, Tracked, Kept
    <3>2. Len(Q[r]) \in 1..Len(Q[r])
      BY <3>1
    <3> QED
      BY <1>0, <2>1, <3>1, <3>2
  <2>2. CASE n # G
    <3>1. n \in cd..(G - 1)
      BY <2>2
    <3>2. PICK o \in Cutting : \E i \in 1..Len(P[o]) : P[o][i].num = n
               /\ P[o][i].hi = P[o][i].top
      BY <3>1 DEF Numbered, NumAll
    <3>3. PICK i \in 1..Len(P[o]) : P[o][i].num = n /\ P[o][i].hi = P[o][i].top
      BY <3>2
    <3>4. o \in Places /\ o # 2
      BY <1>0, CuttingPlaces
    <3>5. \E k \in 1..Len(Q[o]) : Q[o][k] = P[o][i]
      BY <3>4 DEF Moved, Tracked, Kept
    <3> QED
      BY <3>3, <3>5
  <2> QED
    BY <2>1, <2>2
<1> QED
  BY <1>3, <1>4, <1>5 DEF Numbered

\* intra_merge takes the word that is due: nothing of the other engine is before it.
LEMMA IntraApart ==
  ASSUME NEW P, Placing(P), NEW p \in {8, 11}, NEW m, FrontOf(P, p, m), m = P[p][1],
         NEW cd \in Nat, NEW G \in Nat, Numbered(P, cd, G), m.num = cd, Ordered(P)
  PROVE  Clear(P, p, 12, m)
<1> SUFFICES ASSUME NEW t \in Places, NEW j \in 1..Len(P[t]), Behind(t, 12), t # p,
                      ~Behind(t, p)
             PROVE  Before(m, P[t][j])
  BY DEF Clear
<1>1. t \in Cutting /\ ~(t <= 8 <=> p <= 8) /\ p \in Cutting /\ p \in Places
  BY DEF Places, Behind, Cutting
<1>2. 1 \in 1..Len(P[p]) /\ m \in Item
  BY <1>1, FrontItem
<1>3. P[t][j] \in Item
  BY PlacedItem
<1>4. m.num # P[t][j].num /\ (m.num < P[t][j].num => Before(m, P[t][j]))
  BY <1>1, <1>2 DEF Numbered, NumOrder
<1>5. cd <= P[t][j].num
  BY <1>1 DEF Numbered, NumRange
<1> QED
  BY <1>3, <1>4, <1>5 DEF Item

\* A merge goes on to its next number behind a last word.
Follows(e, n, last) == e = IF last THEN n + 1 ELSE n

\* Taking the word that is due keeps the numbers, from the next one due on.
LEMMA NumIntra ==
  ASSUME NEW P, Placing(P), NEW Q, NEW p \in {8, 11}, NEW m, FrontOf(P, p, m), m = P[p][1],
         Moved(P, Q, p, 12, m), Ordered(P), NEW c, Located(P, c),
         NEW cd \in Nat, NEW G \in Nat, Numbered(P, cd, G), m.num = cd,
         NEW e \in Nat, Follows(e, cd, m.hi = m.top)
  PROVE  Numbered(Q, e, G)
<1>e. e = IF m.hi = m.top THEN cd + 1 ELSE cd
  BY DEF Follows
<1>0. p \in Places /\ p \in Cutting /\ p # 12 /\ 12 \in Places /\ 12 \notin Cutting
  BY DEF Places, Cutting
<1>h. 1 \in 1..Len(P[p]) /\ m \in Item
  BY <1>0, FrontItem
<1>1. ASSUME NEW q \in Cutting, NEW k \in 1..Len(Q[q])
      PROVE  \E n \in 1..Len(P[q]) : Q[q][k] = P[q][n] /\ ~(q = p /\ n = 1)
  <2>1. q \in Places /\ q # 12
    BY <1>0, CuttingPlaces
  <2>2. ~(m.hi < P[p][1].hi)
    BY <1>h DEF Item
  <2> QED
    BY <2>1, <2>2 DEF Moved, Tracked, Kept
<1>2. ASSUME NEW q \in Cutting, NEW n \in 1..Len(P[q]), ~(q = p /\ n = 1), m.hi = m.top
      PROVE  P[q][n].num # cd
  <2> SUFFICES ASSUME P[q][n].num = cd PROVE FALSE
    OBVIOUS
  <2>1. PICK x \in Item : x = P[q][n]
    BY CuttingPlaces, PlacedItem
  <2>2. (q <= 8 <=> p <= 8) /\ x.req = m.req /\ x.top = m.top
    BY <1>0, <1>h, <2>1 DEF Numbered, NumOrder, SameCommand
  <2>3. Before(m, x)
    <3>1. CASE q = p
      <4>1. 1 < n
        BY <1>2, <3>1
      <4> QED
        BY <1>0, <1>h, <2>1, <3>1, <4>1 DEF Ordered
    <3>2. CASE q # p
      <4>1. Behind(q, p) /\ q \in Places
        BY <2>2, <3>2 DEF Behind, Cutting, Places
      <4> QED
        BY <1>0, <1>h, <2>1, <4>1 DEF Ordered
    <3> QED
      BY <3>1, <3>2
  <2>4. x.lo <= x.hi /\ x.hi <= x.top
    BY <2>1, CuttingPlaces DEF Located, Stands
  <2>5. m.hi < x.lo
    BY <1>h, <2>2, <2>3 DEF Before, Item
  <2> QED
    BY <1>2, <1>h, <2>1, <2>2, <2>4, <2>5 DEF Item
<1>3. NumRange(Q, e, G)
  <2> SUFFICES ASSUME NEW q \in Cutting, NEW k \in 1..Len(Q[q])
               PROVE  e <= Q[q][k].num /\ Q[q][k].num < G
    BY DEF NumRange
  <2>1. PICK n \in 1..Len(P[q]) : Q[q][k] = P[q][n] /\ ~(q = p /\ n = 1)
    BY <1>1
  <2>2. P[q][n] \in Item /\ cd <= P[q][n].num /\ P[q][n].num < G
    BY CuttingPlaces, PlacedItem DEF Numbered, NumRange
  <2>3. m.hi = m.top => P[q][n].num # cd
    BY <1>2, <2>1
  <2> QED
    BY <1>e, <2>1, <2>2, <2>3 DEF Item
<1>4. NumOrder(Q)
  <2> SUFFICES ASSUME NEW a \in Cutting, NEW b \in Cutting, NEW i \in 1..Len(Q[a]),
                      NEW j \in 1..Len(Q[b])
               PROVE  /\ Q[a][i].num < Q[b][j].num => Before(Q[a][i], Q[b][j])
                      /\ Q[a][i].num = Q[b][j].num
                           => (a <= 8 <=> b <= 8) /\ SameCommand(Q[a][i], Q[b][j])
    BY DEF NumOrder
  <2>1. PICK k \in 1..Len(P[a]) : Q[a][i] = P[a][k]
    BY <1>1
  <2>2. PICK n \in 1..Len(P[b]) : Q[b][j] = P[b][n]
    BY <1>1
  <2> QED
    BY <2>1, <2>2 DEF Numbered, NumOrder
<1>5. NumAll(Q, e, G)
  <2> SUFFICES ASSUME NEW n \in e..(G - 1)
               PROVE  \E q \in Cutting : \E i \in 1..Len(Q[q]) :
                        Q[q][i].num = n /\ Q[q][i].hi = Q[q][i].top
    BY DEF NumAll
  <2>1. n \in cd..(G - 1) /\ (m.hi = m.top => n # cd)
    BY <1>e
  <2>2. PICK o \in Cutting : \E i \in 1..Len(P[o]) : P[o][i].num = n /\ P[o][i].hi = P[o][i].top
    BY <2>1 DEF Numbered, NumAll
  <2>3. PICK i \in 1..Len(P[o]) : P[o][i].num = n /\ P[o][i].hi = P[o][i].top
    BY <2>2
  <2>4. ~(o = p /\ i = 1)
    BY <2>1, <2>3
  <2>5. \E k \in 1..Len(Q[o]) : Q[o][k] = P[o][i]
    BY <2>4, CuttingPlaces DEF Moved, Tracked, Kept
  <2> QED
    BY <2>3, <2>5
<1> QED
  BY <1>3, <1>4, <1>5 DEF Numbered

\* intra_merge is never ahead of the numbers given.
LEMMA NumIntraLess ==
  ASSUME NEW P, Placing(P), NEW p \in {8, 11}, NEW m, FrontOf(P, p, m), m = P[p][1],
         NEW cd \in Nat, NEW G \in Nat, Numbered(P, cd, G), m.num = cd,
         NEW e \in Nat, Follows(e, cd, m.hi = m.top)
  PROVE  e <= G
<1>0. p \in Places /\ p \in Cutting
  BY DEF Places, Cutting
<1>1. 1 \in 1..Len(P[p])
  BY <1>0, FrontItem
<1>2. m.num < G
  BY <1>0, <1>1 DEF Numbered, NumRange
<1> QED
  BY <1>2 DEF Follows

-----------------------------------------------------------------------------
(***************************************************************************)
(* The numbers of the lists, by which inter_merge puts the words of the    *)
(* two ways in order, and the word that sample sees next.                  *)
(***************************************************************************)

\* The bursts are numbered in the order of the lists.
Ranked(c, bn, NB) ==
  /\ bn \in Seq(Nat) /\ Len(bn) = Len(c)
  /\ \A i \in 1..Len(c) : c[i] # 0 => bn[i] < NB
  /\ \A i, j \in 1..Len(c) : i < j /\ c[i] # 0 /\ c[j] # 0 => bn[i] < bn[j]

\* The places before the stream to the sampling kernels.
Waiting == 1..12

\* The places before the stream to the sampling kernels are places.
LEMMA WaitingPlaces == \A q \in Waiting : q \in Places
BY DEF Waiting, Places

\* The numbers of the lists on their way are those from the one inter_merge waits for on.
BurstRange(P, bn, cb) ==
  \A q \in Waiting : \A k \in 1..Len(P[q]) : cb <= bn[P[q][k].req]

\* The last word of every list from the one inter_merge waits for on is on its way.
BurstAll(P, c, bn, cb, NB) ==
  \A n \in cb..(NB - 1) : \E q \in Waiting : \E k \in 1..Len(P[q]) :
    bn[P[q][k].req] = n /\ P[q][k].hi = c[P[q][k].req]

\* The lists on their way, by number: cb is the next one due, NB the next one given.
Bursts(P, c, bn, cb, NB) ==
  Ranked(c, bn, NB) /\ BurstRange(P, bn, cb) /\ BurstAll(P, c, bn, cb, NB)

\* The bounds of an item that is on its way.
LEMMA ItemFacts ==
  ASSUME NEW P, Placing(P), NEW c \in Seq(Nat), Located(P, c), NEW q \in Places,
         NEW k \in 1..Len(P[q])
  PROVE  \E x \in Item :
           /\ x = P[q][k] /\ x.req \in 1..Len(c) /\ x.lo \in Nat /\ x.hi \in Nat
              /\ x.top \in Nat
           /\ 1 <= x.lo /\ x.lo <= x.hi /\ x.hi <= x.top /\ x.top <= c[x.req]
           /\ c[x.req] \in Nat /\ c[x.req] # 0 /\ x.hi <= c[x.req]
<1>1. PICK x \in Item : x = P[q][k]
  BY PlacedItem
<1>2. /\ x.req \in 1..Len(c) /\ 1 <= x.lo /\ x.lo <= x.hi /\ x.hi <= x.top /\ x.top <= c[x.req]
  BY <1>1 DEF Located, Stands
<1>3. x.lo \in Nat /\ x.hi \in Nat /\ x.top \in Nat
  BY DEF Item
<1>4. c[x.req] \in Nat
  BY <1>2
<1>5. c[x.req] # 0 /\ x.hi <= c[x.req]
  BY <1>2, <1>3, <1>4
<1> WITNESS x \in Item
<1> QED
  BY <1>1, <1>2, <1>3, <1>4, <1>5

\* Numbers of lists are numbers.
LEMMA RankedType ==
  ASSUME NEW c, NEW bn, NEW NB, Ranked(c, bn, NB)
  PROVE  \A i \in 1..Len(c) : bn[i] \in Nat
<1>1. bn \in Seq(Nat) /\ Len(bn) = Len(c)
  BY DEF Ranked
<1>2. \A i \in 1..Len(bn) : bn[i] \in Nat
  BY <1>1
<1> QED
  BY <1>1, <1>2

\* A move that does not pass inter_merge keeps the numbers of the lists.
LEMMA BurstInside ==
  ASSUME NEW P, Placing(P), NEW Q, NEW p \in Waiting, NEW r \in Waiting, p # r,
         NEW m, FrontOf(P, p, m), Moved(P, Q, p, r, m), NEW c, NEW bn, NEW cb, NEW NB,
         Bursts(P, c, bn, cb, NB)
  PROVE  Bursts(Q, c, bn, cb, NB)
<1>0. \A q \in Waiting : q \in Places
  BY WaitingPlaces
<1>p. p \in Places /\ r \in Places
  BY <1>0
<1>1. BurstRange(Q, bn, cb)
  <2> SUFFICES ASSUME NEW q \in Waiting, NEW k \in 1..Len(Q[q])
               PROVE  cb <= bn[Q[q][k].req]
    BY DEF BurstRange
  <2>q. q \in Places
    BY <1>0
  <2>1. PICK o \in Places : \E n \in 1..Len(P[o]) :
              Inside(Q[q][k], P[o][n]) /\ (o = q \/ (o = p /\ q = r))
    BY <1>p, <2>q, MoveOrigins
  <2>2. o \in Waiting
    BY <2>1
  <2>3. PICK n \in 1..Len(P[o]) : Q[q][k].req = P[o][n].req
    BY <2>1 DEF Inside
  <2> QED
    BY <2>2, <2>3 DEF Bursts, BurstRange
<1>2. BurstAll(Q, c, bn, cb, NB)
  <2> SUFFICES ASSUME NEW n \in cb..(NB - 1)
               PROVE  \E q \in Waiting : \E k \in 1..Len(Q[q]) :
                        bn[Q[q][k].req] = n /\ Q[q][k].hi = c[Q[q][k].req]
    BY DEF BurstAll
  <2>1. PICK o \in Waiting : \E k \in 1..Len(P[o]) :
           bn[P[o][k].req] = n /\ P[o][k].hi = c[P[o][k].req]
    BY DEF Bursts, BurstAll
  <2>2. PICK k \in 1..Len(P[o]) : bn[P[o][k].req] = n /\ P[o][k].hi = c[P[o][k].req]
    BY <2>1
  <2>o. o \in Places
    BY <1>0
  <2>3. \/ \E i \in 1..Len(Q[o]) :
                /\ Q[o][i].req = P[o][k].req /\ Q[o][i].num = P[o][k].num
                /\ Q[o][i].top = P[o][k].top /\ Q[o][i].hi = P[o][k].hi
        \/ /\ o = p /\ k = 1 /\ m.hi = P[p][1].hi /\ m.req = P[p][1].req
           /\ Len(Q[r]) \in 1..Len(Q[r]) /\ Q[r][Len(Q[r])] = m
    BY <1>p, <2>o, MoveEnds, SMTT(30)
  <2> QED
    BY <2>2, <2>3
<1> QED
  BY <1>1, <1>2 DEF Bursts

\* inter_merge takes the list that is due: nothing of the other way is before it.
LEMMA InterApart ==
  ASSUME NEW P, Placing(P), NEW p \in {5, 12}, NEW m, FrontOf(P, p, m), m = P[p][1],
         NEW c \in Seq(Nat), Located(P, c), NEW bn, NEW cb \in Nat, NEW NB \in Nat,
         Bursts(P, c, bn, cb, NB), bn[m.req] = cb, Ordered(P)
  PROVE  Clear(P, p, 13, m)
<1> SUFFICES ASSUME NEW t \in Places, NEW j \in 1..Len(P[t]), Behind(t, 13), t # p,
                      ~Behind(t, p)
             PROVE  Before(m, P[t][j])
  BY DEF Clear
<1>0. p \in Places /\ t \in Waiting /\ t \in 1..12
  BY DEF Places, Behind, Waiting
<1>1. 1 \in 1..Len(P[p])
  BY <1>0, FrontItem
<1>2. PICK h \in Item : h = P[p][1] /\ h.req \in 1..Len(c) /\ c[h.req] # 0
  BY <1>0, <1>1, ItemFacts
<1>3. PICK y \in Item : y = P[t][j] /\ y.req \in 1..Len(c) /\ c[y.req] # 0
  BY ItemFacts
<1>4. h.req # y.req
  <2>1. Stands(p, h, c)
    BY <1>0, <1>1, <1>2 DEF Located
  <2>2. Stands(t, y, c)
    BY <1>3 DEF Located
  <2>3. CASE p = 5
    <3>1. t \in 1..2 \cup 6..12
      BY <1>0, <2>3 DEF Behind
    <3>2. c[y.req] # 1
      BY <2>2, <3>1 DEF Stands
    <3>3. c[h.req] = 1
      BY <2>1, <2>3 DEF Stands
    <3> QED
      BY <3>2, <3>3
  <2>4. CASE p = 12
    <3>1. t \in 3..5
      BY <1>0, <2>4 DEF Behind
    <3>2. c[y.req] = 1
      BY <2>2, <3>1 DEF Stands
    <3>3. c[h.req] # 1
      BY <2>1, <2>4 DEF Stands
    <3> QED
      BY <3>2, <3>3
  <2> QED
    BY <2>3, <2>4
<1>5. cb <= bn[y.req]
  BY <1>0, <1>3 DEF Bursts, BurstRange
<1>6. ~(y.req < h.req)
  <2>1. y.req < h.req => bn[y.req] < bn[h.req]
    BY <1>2, <1>3 DEF Bursts, Ranked
  <2>2. bn[y.req] \in Nat
    BY <1>3, RankedType DEF Bursts
  <2> QED
    BY <1>2, <1>5, <2>1, <2>2
<1>i. h.req \in Int /\ y.req \in Int
  BY <1>2, <1>3
<1>7. h.req < y.req
  BY <1>i, <1>4, <1>6
<1> QED
  BY <1>2, <1>3, <1>7 DEF Before

\* It goes on to the next number behind the last word of a list.
FollowsBurst(e, cb, c, m) == e = IF m.hi = c[m.req] THEN cb + 1 ELSE cb

\* Taking the word that is due keeps the numbers, from the next one due on.
LEMMA BurstInter ==
  ASSUME NEW P, Placing(P), NEW Q, NEW p \in {5, 12}, NEW m, FrontOf(P, p, m), m = P[p][1],
         Moved(P, Q, p, 13, m), Ordered(P), NEW c \in Seq(Nat), Located(P, c),
         NEW bn, NEW cb \in Nat, NEW NB \in Nat, Bursts(P, c, bn, cb, NB), bn[m.req] = cb,
         NEW e \in Nat, FollowsBurst(e, cb, c, m)
  PROVE  Bursts(Q, c, bn, e, NB)
<1>e. e = IF m.hi = c[m.req] THEN cb + 1 ELSE cb
  BY DEF FollowsBurst
<1>0. p \in Places /\ p \in Waiting /\ p # 13 /\ 13 \in Places
      /\ \A q \in Waiting : q \in Places /\ q # 13
  BY DEF Places, Waiting
<1>1. 1 \in 1..Len(P[p])
  BY <1>0, FrontItem
<1>2. PICK h \in Item : /\ h = P[p][1] /\ h.req \in 1..Len(c) /\ c[h.req] # 0 /\ h.hi \in Nat
                        /\ h.hi <= c[h.req]
  BY <1>0, <1>1, ItemFacts
<1>3. ASSUME NEW q \in Waiting, NEW k \in 1..Len(Q[q])
      PROVE  \E n \in 1..Len(P[q]) : Q[q][k] = P[q][n] /\ ~(q = p /\ n = 1)
  <2>1. q \in Places /\ q # 13
    BY <1>0
  <2>2. ~(m.hi < P[p][1].hi)
    BY <1>2 DEF Item
  <2> QED
    BY <2>1, <2>2 DEF Moved, Tracked, Kept
<1>4. ASSUME NEW q \in Waiting, NEW n \in 1..Len(P[q]), ~(q = p /\ n = 1), m.hi = c[m.req]
      PROVE  bn[P[q][n].req] # cb
  <2> SUFFICES ASSUME bn[P[q][n].req] = cb PROVE FALSE
    OBVIOUS
  <2>q. q \in Places
    BY <1>0
  <2>1. PICK y \in Item : /\ y = P[q][n] /\ y.req \in 1..Len(c) /\ c[y.req] # 0 /\ y.lo \in Nat
                          /\ y.lo <= y.hi /\ y.hi <= c[y.req] /\ y.hi \in Nat
                             /\ c[y.req] \in Nat
    BY <2>q, ItemFacts
  <2>2. y.req = h.req
    <3>1. bn[h.req] = cb /\ bn[y.req] = cb
      BY <1>2, <2>1
    <3>2. y.req < h.req => bn[y.req] < bn[h.req]
      BY <1>2, <2>1 DEF Bursts, Ranked
    <3>3. h.req < y.req => bn[h.req] < bn[y.req]
      BY <1>2, <2>1 DEF Bursts, Ranked
    <3>4. ~(y.req < h.req) /\ ~(h.req < y.req)
      BY <3>1, <3>2, <3>3
    <3>5. y.req \in Nat /\ h.req \in Nat
      BY DEF Item
    <3> QED
      BY <3>4, <3>5
  <2>3. Before(h, y)
    <3>1. CASE q = p
      <4>1. 1 < n
        BY <1>4, <3>1
      <4> QED
        BY <1>0, <1>1, <1>2, <2>1, <3>1, <4>1 DEF Ordered
    <3>2. CASE q # p /\ Behind(q, p)
      BY <1>0, <1>1, <1>2, <2>1, <3>2 DEF Ordered
    <3>3. CASE q # p /\ ~Behind(q, p)
      <4>1. Behind(q, 13)
        BY DEF Behind, Waiting
      <4> QED
        BY <1>0, <1>2, <2>1, <3>3, <4>1, InterApart DEF Clear
    <3> QED
      BY <3>1, <3>2, <3>3
  <2>4. h.hi < y.lo
    BY <1>2, <2>1, <2>2, <2>3 DEF Before
  <2>5. h.hi = c[y.req]
    BY <1>2, <1>4, <2>2
  <2>6. PICK a \in Nat, b \in Nat, d \in Nat : a = y.lo /\ b = y.hi /\ d = c[y.req]
    BY <2>1
  <2>7. a <= b /\ b <= d /\ d < a
    BY <2>1, <2>4, <2>5, <2>6
  <2> QED
    BY <2>7
<1>5. BurstRange(Q, bn, e)
  <2> SUFFICES ASSUME NEW q \in Waiting, NEW k \in 1..Len(Q[q])
               PROVE  e <= bn[Q[q][k].req]
    BY DEF BurstRange
  <2>1. PICK n \in 1..Len(P[q]) : Q[q][k] = P[q][n] /\ ~(q = p /\ n = 1)
    BY <1>3
  <2>q. q \in Places
    BY <1>0
  <2>2. PICK y \in Item : y = P[q][n] /\ y.req \in 1..Len(c)
    BY <2>q, ItemFacts
  <2>3. bn[y.req] \in Nat /\ cb <= bn[y.req]
    BY <2>2, RankedType DEF Bursts, BurstRange
  <2>4. m.hi = c[m.req] => bn[y.req] # cb
    BY <1>4, <2>1, <2>2
  <2>5. bn[Q[q][k].req] = bn[y.req]
    BY <2>1, <2>2
  <2>6. e <= bn[y.req]
    BY <1>e, <2>3, <2>4
  <2> QED
    BY <2>5, <2>6
<1>6. BurstAll(Q, c, bn, e, NB)
  <2> SUFFICES ASSUME NEW n \in e..(NB - 1)
               PROVE  \E q \in Waiting : \E k \in 1..Len(Q[q]) :
                        bn[Q[q][k].req] = n /\ Q[q][k].hi = c[Q[q][k].req]
    BY DEF BurstAll
  <2>1. n \in cb..(NB - 1) /\ (m.hi = c[m.req] => n # cb)
    BY <1>e
  <2>2. PICK o \in Waiting : \E k \in 1..Len(P[o]) :
           bn[P[o][k].req] = n /\ P[o][k].hi = c[P[o][k].req]
    BY <2>1 DEF Bursts, BurstAll
  <2>3. PICK k \in 1..Len(P[o]) : bn[P[o][k].req] = n /\ P[o][k].hi = c[P[o][k].req]
    BY <2>2
  <2>4. ~(o = p /\ k = 1)
    BY <2>1, <2>3
  <2>5. \E i \in 1..Len(Q[o]) : Q[o][i] = P[o][k]
    BY <1>0, <2>4 DEF Moved, Tracked, Kept
  <2> QED
    BY <2>3, <2>5
<1> QED
  BY <1>5, <1>6 DEF Bursts

\* inter_merge is never ahead of the numbers given.
LEMMA BurstInterLess ==
  ASSUME NEW P, Placing(P), NEW p \in {5, 12}, NEW m, FrontOf(P, p, m), m = P[p][1],
         NEW c \in Seq(Nat), Located(P, c),
         NEW bn, NEW cb \in Nat, NEW NB \in Nat, Bursts(P, c, bn, cb, NB), bn[m.req] = cb,
         NEW e \in Nat, FollowsBurst(e, cb, c, m)
  PROVE  e <= NB
<1>0. p \in Places
  BY DEF Places
<1>1. 1 \in 1..Len(P[p])
  BY <1>0, FrontItem
<1>2. PICK h \in Item : h = P[p][1] /\ h.req \in 1..Len(c) /\ c[h.req] # 0
  BY <1>0, <1>1, ItemFacts
<1>3. bn[h.req] < NB
  BY <1>2 DEF Bursts, Ranked
<1> QED
  BY <1>2, <1>3 DEF FollowsBurst

-----------------------------------------------------------------------------

\* Between the words sample has seen and the first that reaches it there is none.
Progress(c, si, sk) ==
  /\ si \in 0..Len(c) /\ sk \in Nat
  /\ si = 0 => sk = 0
  /\ si # 0 => 1 <= sk /\ sk <= c[si]

\* The next word that reaches sample is the next one of its list, or the first one of the
\* next list that has words: this is what the order of the words is for.
LEMMA NextWord ==
  ASSUME NEW P, Placing(P), NEW c \in Seq(Nat), Located(P, c), Ordered(P),
         NEW si, NEW sk, Progress(c, si, sk), Present(P, c, si, sk), Unseen(P, si, sk),
         P[13] # << >>
  PROVE  \E h \in Item :
           /\ h = P[13][1] /\ h.req \in 1..Len(c) /\ h.lo = h.hi /\ 1 <= h.lo
           /\ h.lo <= c[h.req] /\ si <= h.req
           /\ h.req = si => h.lo = sk + 1
           /\ h.req # si => h.lo = 1 /\ (si # 0 => sk = c[si])
           /\ \A i \in 1..Len(c) : si < i /\ i < h.req => c[i] = 0
<1>0. 13 \in Places
  BY DEF Places
<1>1. 1 \in 1..Len(P[13])
  <2>1. PICK s \in Seq(Item) : s = P[13]
    BY <1>0, PlacedItem
  <2>2. s # << >> => 1 \in 1..Len(s)
    OBVIOUS
  <2> QED
    BY <2>1, <2>2
<1>2. PICK h \in Item : /\ h = P[13][1] /\ h.req \in 1..Len(c) /\ h.lo \in Nat /\ 1 <= h.lo
                        /\ h.lo <= h.hi /\ h.hi <= c[h.req] /\ c[h.req] \in Nat /\ h.hi \in Nat
  BY <1>0, <1>1, ItemFacts
<1>3. h.lo = h.hi
  BY <1>0, <1>1, <1>2 DEF Located, Stands
<1>4. After(h.req, h.lo, si, sk)
  BY <1>0, <1>1, <1>2 DEF Unseen
<1>5. ASSUME NEW i \in 1..Len(c), NEW k \in 1..c[i], After(i, k, si, sk)
      PROVE  h.req < i \/ (h.req = i /\ h.lo <= k)
  <2>1. PICK q \in Places : \E j \in 1..Len(P[q]) : Holds(P[q][j], i, k)
    BY <1>5 DEF Present
  <2>2. PICK j \in 1..Len(P[q]) : Holds(P[q][j], i, k)
    BY <2>1
  <2>3. PICK z \in Item : z = P[q][j] /\ z.lo \in Nat
    BY ItemFacts
  <2>4. z.req = i /\ z.lo <= k
    BY <2>2, <2>3 DEF Holds
  <2>5. (q = 13 /\ j = 1) \/ (q = 13 /\ 1 < j) \/ Behind(q, 13)
    BY DEF Behind, Places
  <2>6. CASE q = 13 /\ j = 1
    BY <1>2, <2>3, <2>4, <2>6
  <2>7. CASE (q = 13 /\ 1 < j) \/ Behind(q, 13)
    <3>1. Before(h, z)
      BY <1>0, <1>1, <1>2, <2>3, <2>7 DEF Ordered
    <3>2. c[i] \in Nat /\ k \in Nat
      OBVIOUS
    <3>3. h.req < i \/ (h.req = i /\ h.hi < z.lo)
      BY <2>4, <3>1 DEF Before
    <3>4. h.hi < z.lo => h.lo <= k
      <4>1. PICK a \in Nat, b \in Nat, d \in Nat : a = h.lo /\ b = h.hi /\ d = z.lo
        BY <1>2, <2>3
      <4>2. a <= b /\ d <= k
        BY <1>2, <2>4, <4>1
      <4> QED
        BY <3>2, <4>1, <4>2
    <3> QED
      BY <3>3, <3>4
  <2> QED
    BY <2>5, <2>6, <2>7
<1>6. si \in 0..Len(c) /\ sk \in Nat /\ (si # 0 => 1 <= sk /\ sk <= c[si] /\ c[si] \in Nat)
  BY DEF Progress
<1>7. si <= h.req /\ (h.req = si => h.lo > sk)
  BY <1>2, <1>4, <1>6 DEF After
<1>8. CASE si # 0 /\ sk < c[si]
  <2>1. sk + 1 \in 1..c[si] /\ si \in 1..Len(c) /\ After(si, sk + 1, si, sk)
    BY <1>6, <1>8 DEF After
  <2>2. h.req < si \/ (h.req = si /\ h.lo <= sk + 1)
    BY <1>5, <2>1
  <2>3. h.req = si /\ h.lo = sk + 1
    BY <1>2, <1>6, <1>7, <2>2
  <2>4. \A i \in 1..Len(c) : ~(si < i /\ i < h.req)
    BY <1>2, <1>6, <2>3
  <2>5. h.lo <= c[h.req]
    BY <1>2, <1>3
  <2> WITNESS h \in Item
  <2> QED
    BY <1>2, <1>3, <1>6, <2>3, <2>4, <2>5
<1>9. CASE ~(si # 0 /\ sk < c[si])
  <2>1. si # 0 => sk = c[si]
    BY <1>6, <1>9
  <2>2. si < h.req
    BY <1>2, <1>3, <1>6, <1>7, <2>1
  <2>3. h.lo = 1
    <3>1. 1 \in 1..c[h.req] /\ After(h.req, 1, si, sk)
      BY <1>2, <2>2 DEF After
    <3>2. h.lo <= 1
      BY <1>2, <1>5, <3>1
    <3> QED
      BY <1>2, <3>2
  <2>4. ASSUME NEW i \in 1..Len(c), si < i, i < h.req PROVE c[i] = 0
    <3>1. c[i] \in Nat
      OBVIOUS
    <3>2. CASE c[i] # 0
      <4>1. 1 \in 1..c[i] /\ After(i, 1, si, sk)
        BY <2>4, <3>1, <3>2 DEF After
      <4>2. h.req < i \/ h.req = i
        BY <1>5, <4>1
      <4> QED
        BY <1>2, <2>4, <4>2
    <3> QED
      BY <3>2
  <2>5. h.lo <= c[h.req] /\ si <= h.req /\ h.req # si
    BY <1>2, <1>3, <1>6, <2>2
  <2> WITNESS h \in Item
  <2> QED
    BY <1>2, <1>3, <2>1, <2>3, <2>4, <2>5
<1> QED
  BY <1>8, <1>9

-----------------------------------------------------------------------------
(***************************************************************************)
(* The account of the words on their way, and the steps of the engine that *)
(* change it.                                                              *)
(***************************************************************************)

\* The words on their way: c is how many words each list asked for has, si and sk the last
\* word sample has seen, cd and G the numbers of commands due and given, cb and NB those of
\* lists, and bn the number of each list.
Way(P, c, si, sk, cd, G, bn, cb, NB) ==
  /\ Placing(P) /\ c \in Seq(Nat) /\ Ordered(P) /\ Located(P, c)
  /\ Progress(c, si, sk) /\ Unseen(P, si, sk) /\ Present(P, c, si, sk)
  /\ cd \in Nat /\ G \in Nat /\ cd <= G /\ Numbered(P, cd, G)
  /\ cb \in Nat /\ NB \in Nat /\ cb <= NB /\ Bursts(P, c, bn, cb, NB)

\* Where no two ways meet, what is behind the next place is behind this one.
LEMMA NotMerging ==
  ASSUME NEW p \in Places, NEW r \in Places, <<p, r>> \in Routes, r \notin {12, 13},
         NEW t \in Places, Behind(t, r), t # p
  PROVE  Behind(t, p)
BY DEF Places, Routes, Behind

\* A word goes on inside of an engine.
LEMMA StepInside ==
  ASSUME NEW P, NEW c, NEW si, NEW sk, NEW cd, NEW G, NEW bn, NEW cb, NEW NB,
         Way(P, c, si, sk, cd, G, bn, cb, NB),
         NEW p \in Places, NEW r \in Places, <<p, r>> \in Routes, p # 2, r \notin {12, 13},
         NEW m, FrontOf(P, p, m), m.num = P[p][1].num, m.top = P[p][1].top,
         Stands(r, m, c), m.hi < P[p][1].hi => Stands(p, Remainder(P[p][1], m), c)
  PROVE  Way(MoveTo(P, p, r, m), c, si, sk, cd, G, bn, cb, NB)
<1>0. /\ Placing(P) /\ c \in Seq(Nat) /\ Ordered(P) /\ Located(P, c)
      /\ Progress(c, si, sk) /\ Unseen(P, si, sk) /\ Present(P, c, si, sk)
      /\ cd \in Nat /\ G \in Nat /\ cd <= G /\ Numbered(P, cd, G)
      /\ cb \in Nat /\ NB \in Nat /\ cb <= NB /\ Bursts(P, c, bn, cb, NB)
  BY DEF Way
<1>1. PICK Q : Q = MoveTo(P, p, r, m)
  OBVIOUS
<1>2. p # r
  BY RouteFacts
<1>3. Moved(P, Q, p, r, m) /\ Placing(Q)
  <2>1. Moved(P, Q, p, r, m)
    BY <1>0, <1>1, <1>2, MoveIs
  <2> QED
    BY <2>1 DEF Moved, Tracked, Kept
<1>4. Ordered(Q)
  <2>1. Clear(P, p, r, m)
    BY NotMerging DEF Clear
  <2> QED
    BY <1>0, <1>3, <2>1, MoveOrdered
<1>5. Located(Q, c)
  BY <1>0, <1>2, <1>3, MoveLocated
<1>6. Unseen(Q, si, sk)
  <2>1. si \in Nat /\ sk \in Nat
    BY <1>0 DEF Progress
  <2> QED
    BY <1>0, <1>2, <1>3, <2>1, MoveUnseen
<1>7. Present(Q, c, si, sk)
  BY <1>0, <1>2, <1>3, MovePresent
<1>8. Numbered(Q, cd, G)
  <2>1. CASE p \in Cutting
    <3>1. r \in Cutting /\ (p <= 8 <=> r <= 8)
      BY <2>1 DEF Routes, Cutting
    <3> QED
      BY <1>0, <1>2, <1>3, <2>1, <3>1, NumInside
  <2>2. CASE p \notin Cutting
    <3>1. r \notin Cutting
      BY <2>2 DEF Routes, Cutting, Places
    <3>2. \A q \in Cutting : Q[q] = P[q]
      BY <1>3, <2>2, <3>1, CuttingPlaces DEF Moved, Tracked, Kept
    <3> QED
      BY <1>0, <3>2, NumKept
  <2> QED
    BY <2>1, <2>2
<1>9. Bursts(Q, c, bn, cb, NB)
  <2>1. p \in Waiting /\ r \in Waiting
    BY DEF Waiting, Places, Routes
  <2> QED
    BY <1>0, <1>2, <1>3, <2>1, BurstInside
<1> QED
  BY <1>0, <1>1, <1>3, <1>4, <1>5, <1>6, <1>7, <1>8, <1>9 DEF Way

\* cmd_generator cuts off the front of a list and gives it a number.
LEMMA StepCut ==
  ASSUME NEW P, NEW c, NEW si, NEW sk, NEW cd, NEW G, NEW bn, NEW cb, NEW NB,
         Way(P, c, si, sk, cd, G, bn, cb, NB), NEW r \in {6, 9},
         NEW m, FrontOf(P, 2, m), m.num = G, m.hi = m.top,
         Stands(r, m, c), m.hi < P[2][1].hi => Stands(2, Remainder(P[2][1], m), c)
  PROVE  Way(MoveTo(P, 2, r, m), c, si, sk, cd, G + 1, bn, cb, NB)
<1>0. /\ Placing(P) /\ c \in Seq(Nat) /\ Ordered(P) /\ Located(P, c)
      /\ Progress(c, si, sk) /\ Unseen(P, si, sk) /\ Present(P, c, si, sk)
      /\ cd \in Nat /\ G \in Nat /\ cd <= G /\ Numbered(P, cd, G)
      /\ cb \in Nat /\ NB \in Nat /\ cb <= NB /\ Bursts(P, c, bn, cb, NB)
  BY DEF Way
<1>1. PICK Q : Q = MoveTo(P, 2, r, m)
  OBVIOUS
<1>2. 2 # r /\ 2 \in Places /\ r \in Places /\ <<2, r>> \in Routes /\ r \notin {12, 13}
  BY DEF Places, Routes
<1>3. Moved(P, Q, 2, r, m) /\ Placing(Q)
  <2>1. Moved(P, Q, 2, r, m)
    BY <1>0, <1>1, <1>2, MoveIs
  <2> QED
    BY <2>1 DEF Moved, Tracked, Kept
<1>4. Ordered(Q)
  <2>1. Clear(P, 2, r, m)
    BY <1>2, NotMerging DEF Clear
  <2> QED
    BY <1>0, <1>2, <1>3, <2>1, MoveOrdered
<1>5. Located(Q, c)
  BY <1>0, <1>2, <1>3, MoveLocated
<1>6. Unseen(Q, si, sk)
  <2>1. si \in Nat /\ sk \in Nat
    BY <1>0 DEF Progress
  <2> QED
    BY <1>0, <1>2, <1>3, <2>1, MoveUnseen
<1>7. Present(Q, c, si, sk)
  BY <1>0, <1>2, <1>3, MovePresent
<1>8. Numbered(Q, cd, G + 1)
  BY <1>0, <1>3, NumCut
<1>9. Bursts(Q, c, bn, cb, NB)
  <2>1. 2 \in Waiting /\ r \in Waiting
    BY DEF Waiting
  <2> QED
    BY <1>0, <1>2, <1>3, <2>1, BurstInside
<1>10. G + 1 \in Nat /\ cd <= G + 1
  BY <1>0
<1> QED
  BY <1>0, <1>1, <1>3, <1>4, <1>5, <1>6, <1>7, <1>8, <1>9, <1>10 DEF Way

\* intra_merge passes on the word of the command that is due.
LEMMA StepIntra ==
  ASSUME NEW P, NEW c, NEW si, NEW sk, NEW cd, NEW G, NEW bn, NEW cb, NEW NB,
         Way(P, c, si, sk, cd, G, bn, cb, NB), NEW p \in {8, 11},
         NEW m, FrontOf(P, p, m), m = P[p][1], m.num = cd, Stands(12, m, c)
  PROVE  Way(MoveTo(P, p, 12, m), c, si, sk, IF m.hi = m.top THEN cd + 1 ELSE cd,
             G, bn, cb, NB)
<1>0. /\ Placing(P) /\ c \in Seq(Nat) /\ Ordered(P) /\ Located(P, c)
      /\ Progress(c, si, sk) /\ Unseen(P, si, sk) /\ Present(P, c, si, sk)
      /\ cd \in Nat /\ G \in Nat /\ cd <= G /\ Numbered(P, cd, G)
      /\ cb \in Nat /\ NB \in Nat /\ cb <= NB /\ Bursts(P, c, bn, cb, NB)
  BY DEF Way
<1>1. PICK Q : Q = MoveTo(P, p, 12, m)
  OBVIOUS
<1>2. p # 12 /\ 12 \in Places /\ p \in Places /\ <<p, 12>> \in Routes
  BY DEF Places, Routes
<1>a. ~(m.hi < P[p][1].hi)
  <2>1. m \in Item
    BY DEF FrontOf
  <2> QED
    BY <2>1 DEF Item
<1>3. Moved(P, Q, p, 12, m) /\ Placing(Q)
  <2>1. Moved(P, Q, p, 12, m)
    BY <1>0, <1>1, <1>2, MoveIs
  <2> QED
    BY <2>1 DEF Moved, Tracked, Kept
<1>4. Ordered(Q)
  <2>1. Clear(P, p, 12, m)
    BY <1>0, IntraApart
  <2> QED
    BY <1>0, <1>2, <1>3, <2>1, MoveOrdered
<1>5. Located(Q, c)
  BY <1>0, <1>2, <1>3, <1>a, MoveLocated
<1>6. Unseen(Q, si, sk)
  <2>1. si \in Nat /\ sk \in Nat
    BY <1>0 DEF Progress
  <2> QED
    BY <1>0, <1>2, <1>3, <2>1, MoveUnseen
<1>7. Present(Q, c, si, sk)
  BY <1>0, <1>2, <1>3, MovePresent
<1>e. PICK e \in Nat : e = IF m.hi = m.top THEN cd + 1 ELSE cd
  BY <1>0
<1>f. Follows(e, cd, m.hi = m.top)
  BY <1>e DEF Follows
<1>8. Numbered(Q, e, G)
  BY <1>0, <1>3, <1>f, NumIntra
<1>g. e <= G
  BY <1>0, <1>f, NumIntraLess
<1>9. Bursts(Q, c, bn, cb, NB)
  <2>1. 12 \in Waiting /\ p \in Waiting
    BY DEF Waiting
  <2> QED
    BY <1>0, <1>2, <1>3, <2>1, BurstInside
<1> QED
  BY <1>0, <1>1, <1>3, <1>4, <1>5, <1>6, <1>7, <1>8, <1>9, <1>e, <1>g DEF Way

\* inter_merge passes on the word of the list that is due.
LEMMA StepInter ==
  ASSUME NEW P, NEW c, NEW si, NEW sk, NEW cd, NEW G, NEW bn, NEW cb, NEW NB,
         Way(P, c, si, sk, cd, G, bn, cb, NB), NEW p \in {5, 12},
         NEW m, FrontOf(P, p, m), m = P[p][1], bn[m.req] = cb, Stands(13, m, c)
  PROVE  Way(MoveTo(P, p, 13, m), c, si, sk, cd, G, bn,
             IF m.hi = c[m.req] THEN cb + 1 ELSE cb, NB)
<1>0. /\ Placing(P) /\ c \in Seq(Nat) /\ Ordered(P) /\ Located(P, c)
      /\ Progress(c, si, sk) /\ Unseen(P, si, sk) /\ Present(P, c, si, sk)
      /\ cd \in Nat /\ G \in Nat /\ cd <= G /\ Numbered(P, cd, G)
      /\ cb \in Nat /\ NB \in Nat /\ cb <= NB /\ Bursts(P, c, bn, cb, NB)
  BY DEF Way
<1>1. PICK Q : Q = MoveTo(P, p, 13, m)
  OBVIOUS
<1>2. p # 13 /\ 13 \in Places /\ p \in Places /\ <<p, 13>> \in Routes
  BY DEF Places, Routes
<1>a. ~(m.hi < P[p][1].hi)
  <2>1. m \in Item
    BY DEF FrontOf
  <2> QED
    BY <2>1 DEF Item
<1>3. Moved(P, Q, p, 13, m) /\ Placing(Q)
  <2>1. Moved(P, Q, p, 13, m)
    BY <1>0, <1>1, <1>2, MoveIs
  <2> QED
    BY <2>1 DEF Moved, Tracked, Kept
<1>4. Ordered(Q)
  <2>1. Clear(P, p, 13, m)
    BY <1>0, InterApart
  <2> QED
    BY <1>0, <1>2, <1>3, <2>1, MoveOrdered
<1>5. Located(Q, c)
  BY <1>0, <1>2, <1>3, <1>a, MoveLocated
<1>6. Unseen(Q, si, sk)
  <2>1. si \in Nat /\ sk \in Nat
    BY <1>0 DEF Progress
  <2> QED
    BY <1>0, <1>2, <1>3, <2>1, MoveUnseen
<1>7. Present(Q, c, si, sk)
  BY <1>0, <1>2, <1>3, MovePresent
<1>8. Numbered(Q, cd, G)
  <2>1. p \notin Cutting /\ 13 \notin Cutting
    BY DEF Cutting
  <2>2. \A q \in Cutting : Q[q] = P[q]
    BY <1>3, <2>1, CuttingPlaces DEF Moved, Tracked, Kept
  <2> QED
    BY <1>0, <2>2, NumKept
<1>e. PICK e \in Nat : e = IF m.hi = c[m.req] THEN cb + 1 ELSE cb
  BY <1>0
<1>f. FollowsBurst(e, cb, c, m)
  BY <1>e DEF FollowsBurst
<1>9. Bursts(Q, c, bn, e, NB)
  <2>1. /\ Placing(P) /\ c \in Seq(Nat) /\ Ordered(P) /\ Located(P, c)
        /\ cb \in Nat /\ NB \in Nat /\ Bursts(P, c, bn, cb, NB)
    BY <1>0
  <2>2. Moved(P, Q, p, 13, m)
    BY <1>3
  <2> HIDE <1>1
  <2> QED
    BY <2>1, <2>2, <1>e, <1>f, BurstInter
<1>g. e <= NB
  BY <1>0, <1>f, BurstInterLess
<1> QED
  BY <1>0, <1>1, <1>3, <1>4, <1>5, <1>6, <1>7, <1>8, <1>9, <1>e, <1>g DEF Way

\* A list enters.
Enter(P, r, x) == [P EXCEPT ![r] = Append(@, x)]

\* What entering leaves, item by item.
Entered(P, Q, r, x) ==
  /\ Placing(Q) /\ \A q \in Places : q # r => Q[q] = P[q]
  /\ Len(Q[r]) \in 1..Len(Q[r]) /\ Q[r][Len(Q[r])] = x
  /\ \A q \in Places : \A i \in 1..Len(Q[q]) :
       \/ q = r /\ i = Len(Q[r]) /\ Q[q][i] = x
       \/ i \in 1..Len(P[q]) /\ Q[q][i] = P[q][i]
  /\ \A q \in Places : \A i \in 1..Len(P[q]) : i \in 1..Len(Q[q]) /\ Q[q][i] = P[q][i]

\* Entering does what Entered says.
LEMMA EnterIs ==
  ASSUME NEW P, Placing(P), NEW r \in Places, NEW x \in Item
  PROVE  Entered(P, Enter(P, r, x), r, x)
<1>1. PICK Q : Q = Enter(P, r, x)
  OBVIOUS
<1>2. PICK s \in Seq(Item) : s = P[r]
  BY PlacedItem
<1>a. PICK t : t = Append(s, x)
  OBVIOUS
<1>3. /\ t \in Seq(Item) /\ t = Append(s, x) /\ Len(s) \in Nat /\ Len(t) = Len(s) + 1
      /\ \A i \in 1..Len(s) : i \in 1..Len(t) /\ t[i] = s[i]
      /\ t[Len(s) + 1] = x
  BY <1>a, AppendAt
<1>4. Q[r] = t /\ DOMAIN Q = Places /\ \A q \in Places : q # r => Q[q] = P[q]
  BY <1>1, <1>2, <1>3 DEF Enter, Placing
<1>5. Placing(Q)
  <2>1. \A q \in Places : Q[q] \in Seq(Item)
    BY <1>3, <1>4 DEF Placing
  <2>2. Q = [q \in Places |-> Q[q]]
    BY <1>1, <1>4 DEF Enter, Placing
  <2> QED
    BY <2>1, <2>2 DEF Placing
<1>6. ASSUME NEW q \in Places, NEW i \in 1..Len(Q[q])
      PROVE  \/ q = r /\ i = Len(Q[r]) /\ Q[q][i] = x
             \/ i \in 1..Len(P[q]) /\ Q[q][i] = P[q][i]
  <2>1. CASE q = r
    <3>1. i \in 1..Len(t) /\ i \in Nat
      BY <1>4, <2>1
    <3>2. i = Len(t) \/ i \in 1..Len(s)
      BY <1>3, <3>1
    <3>3. i = Len(t) => t[i] = x
      BY <1>3
    <3> QED
      BY <1>2, <1>3, <1>4, <2>1, <3>2, <3>3
  <2>2. CASE q # r
    BY <1>4, <2>2
  <2> QED
    BY <2>1, <2>2
<1>7. ASSUME NEW q \in Places, NEW i \in 1..Len(P[q])
      PROVE  i \in 1..Len(Q[q]) /\ Q[q][i] = P[q][i]
  BY <1>2, <1>3, <1>4
<1>8. Len(t) \in 1..Len(t) /\ t[Len(t)] = x
  BY <1>3
<1> QED
  BY <1>1, <1>4, <1>5, <1>6, <1>7, <1>8 DEF Entered

\* The counts of the lists after one more.
LEMMA AppendCount ==
  ASSUME NEW c \in Seq(Nat), NEW k \in Nat
  PROVE  /\ Append(c, k) \in Seq(Nat) /\ Len(c) \in Nat /\ Len(Append(c, k)) = Len(c) + 1
         /\ \A i \in 1..Len(c) : i \in 1..Len(Append(c, k)) /\ Append(c, k)[i] = c[i]
         /\ Append(c, k)[Len(c) + 1] = k
         /\ \A i \in 1..Len(Append(c, k)) : i \in 1..Len(c) \/ i = Len(c) + 1
OBVIOUS

\* What a further list changes for those that are on their way.
LEMMA MoreLists ==
  ASSUME NEW P, NEW c, NEW si, NEW sk, NEW cd, NEW G, NEW bn, NEW cb, NEW NB,
         Way(P, c, si, sk, cd, G, bn, cb, NB), NEW k \in Nat, NEW d, d = Append(c, k)
  PROVE  /\ Located(P, d) /\ Progress(d, si, sk)
         /\ \A i \in 1..Len(d) : \A w \in 1..d[i] : After(i, w, si, sk) /\ i # Len(c) + 1 =>
              \E p \in Places : \E j \in 1..Len(P[p]) : Holds(P[p][j], i, w)
<1>0. c \in Seq(Nat) /\ Located(P, c) /\ Progress(c, si, sk) /\ Present(P, c, si, sk)
  BY DEF Way
<1>1. /\ d \in Seq(Nat) /\ Len(c) \in Nat /\ Len(d) = Len(c) + 1
      /\ \A i \in 1..Len(c) : i \in 1..Len(d) /\ d[i] = c[i]
      /\ \A i \in 1..Len(d) : i \in 1..Len(c) \/ i = Len(c) + 1
  BY <1>0, AppendCount
<1>2. Located(P, d)
  <2> SUFFICES ASSUME NEW q \in Places, NEW j \in 1..Len(P[q]) PROVE Stands(q, P[q][j], d)
    BY DEF Located
  <2>1. Stands(q, P[q][j], c)
    BY <1>0 DEF Located
  <2>2. P[q][j].req \in 1..Len(c)
    BY <2>1 DEF Stands
  <2>3. P[q][j].req \in 1..Len(d) /\ d[P[q][j].req] = c[P[q][j].req]
    BY <1>1, <2>2
  <2> QED
    BY <2>1, <2>3 DEF Stands
<1>3. Progress(d, si, sk)
  <2>1. si \in 0..Len(c) /\ (si # 0 => si \in 1..Len(c))
    BY <1>0, <1>1 DEF Progress
  <2>2. si # 0 => d[si] = c[si]
    BY <1>1, <2>1
  <2>3. si \in 0..Len(d)
    BY <1>1, <2>1
  <2> QED
    BY <1>0, <2>2, <2>3 DEF Progress
<1>4. ASSUME NEW i \in 1..Len(d), NEW w \in 1..d[i], After(i, w, si, sk), i # Len(c) + 1
      PROVE  \E p \in Places : \E j \in 1..Len(P[p]) : Holds(P[p][j], i, w)
  <2>1. i \in 1..Len(c) /\ w \in 1..c[i]
    BY <1>1, <1>4
  <2> QED
    BY <1>0, <1>4, <2>1 DEF Present
<1> QED
  BY <1>2, <1>3, <1>4

\* The number of a list.
RankedMore(c, k, d, bn, NB, e) ==
  /\ Ranked(d, e, NB + 1) /\ (k = 0 => Ranked(d, e, NB))
  /\ \A i \in 1..Len(c) : e[i] = bn[i]
  /\ e[Len(c) + 1] = NB

\* One more list gets the next number; an empty list leaves it to the next one.
LEMMA RankMore ==
  ASSUME NEW c \in Seq(Nat), NEW k \in Nat, NEW d, d = Append(c, k), NEW bn, NEW NB \in Nat,
         NEW e, e = Append(bn, NB), Ranked(c, bn, NB)
  PROVE  RankedMore(c, k, d, bn, NB, e)
<1>1. /\ d \in Seq(Nat) /\ Len(c) \in Nat /\ Len(d) = Len(c) + 1
      /\ \A i \in 1..Len(c) : i \in 1..Len(d) /\ d[i] = c[i]
      /\ d[Len(c) + 1] = k
      /\ \A i \in 1..Len(d) : i \in 1..Len(c) \/ i = Len(c) + 1
  BY AppendCount
<1>2. bn \in Seq(Nat) /\ Len(bn) = Len(c)
  BY DEF Ranked
<1>3. /\ e \in Seq(Nat) /\ Len(e) = Len(c) + 1 /\ \A i \in 1..Len(c) : e[i] = bn[i]
      /\ e[Len(c) + 1] = NB
  BY <1>2, AppendCount
<1>4. \A i \in 1..Len(c) : bn[i] \in Nat /\ (c[i] # 0 => bn[i] < NB)
  BY RankedType DEF Ranked
<1>5. ASSUME NEW i \in 1..Len(d), d[i] # 0 PROVE e[i] < NB + 1 /\ (k = 0 => e[i] < NB)
  <2>1. CASE i \in 1..Len(c)
    BY <1>1, <1>3, <1>4, <1>5, <2>1
  <2>2. CASE i = Len(c) + 1
    BY <1>1, <1>3, <1>5, <2>2
  <2> QED
    BY <1>1, <2>1, <2>2
<1>6. ASSUME NEW i \in 1..Len(d), NEW j \in 1..Len(d), i < j, d[i] # 0, d[j] # 0
      PROVE  e[i] < e[j]
  <2>1. i \in 1..Len(c) /\ c[i] # 0 /\ e[i] = bn[i]
    <3>1. i # Len(c) + 1
      BY <1>1, <1>6
    <3> QED
      BY <1>1, <1>3, <1>6, <3>1
  <2>2. CASE j \in 1..Len(c)
    <3>1. c[j] # 0 /\ e[j] = bn[j]
      BY <1>1, <1>3, <1>6, <2>2
    <3> QED
      BY <1>6, <2>1, <2>2, <3>1 DEF Ranked
  <2>3. CASE j = Len(c) + 1
    BY <1>3, <1>4, <2>1, <2>3
  <2> QED
    BY <1>1, <2>2, <2>3
<1> QED
  BY <1>1, <1>3, <1>5, <1>6 DEF Ranked, RankedMore

\* An empty list puts no word on its way.
LEMMA EnterEmpty ==
  ASSUME NEW P, NEW c, NEW si, NEW sk, NEW cd, NEW G, NEW bn, NEW cb, NEW NB,
         Way(P, c, si, sk, cd, G, bn, cb, NB)
  PROVE  Way(P, Append(c, 0), si, sk, cd, G, Append(bn, NB), cb, NB)
<1>0. /\ Placing(P) /\ c \in Seq(Nat) /\ Ordered(P) /\ Located(P, c)
      /\ Progress(c, si, sk) /\ Unseen(P, si, sk) /\ Present(P, c, si, sk)
      /\ cd \in Nat /\ G \in Nat /\ cd <= G /\ Numbered(P, cd, G)
      /\ cb \in Nat /\ NB \in Nat /\ cb <= NB /\ Bursts(P, c, bn, cb, NB)
  BY DEF Way
<1>1. PICK d, e : d = Append(c, 0) /\ e = Append(bn, NB)
  OBVIOUS
<1>2. /\ d \in Seq(Nat) /\ Len(c) \in Nat /\ Len(d) = Len(c) + 1
      /\ \A i \in 1..Len(c) : i \in 1..Len(d) /\ d[i] = c[i]
      /\ d[Len(c) + 1] = 0
  BY <1>0, <1>1, AppendCount
<1>3. Located(P, d) /\ Progress(d, si, sk)
  BY <1>1, MoreLists
<1>4. Present(P, d, si, sk)
  <2> SUFFICES ASSUME NEW i \in 1..Len(d), NEW w \in 1..d[i], After(i, w, si, sk)
               PROVE  \E p \in Places : \E j \in 1..Len(P[p]) : Holds(P[p][j], i, w)
    BY DEF Present
  <2>1. i # Len(c) + 1
    BY <1>2
  <2> QED
    BY <1>1, <2>1, MoreLists
<1>r. Ranked(c, bn, NB)
  BY <1>0 DEF Bursts
<1>5. Ranked(d, e, NB) /\ \A i \in 1..Len(c) : e[i] = bn[i]
  <2>1. PICK k \in Nat : k = 0
    OBVIOUS
  <2>2. d = Append(c, k)
    BY <1>1, <2>1
  <2> QED
    <3>1. RankedMore(c, k, d, bn, NB, e)
      BY <1>0, <1>1, <1>r, <2>2, RankMore
    <3> QED
      BY <2>1, <3>1 DEF RankedMore
<1>6. BurstRange(P, e, cb)
  <2> SUFFICES ASSUME NEW q \in Waiting, NEW j \in 1..Len(P[q]) PROVE cb <= e[P[q][j].req]
    BY DEF BurstRange
  <2>1. P[q][j].req \in 1..Len(c)
    BY <1>0, WaitingPlaces DEF Located, Stands
  <2> QED
    BY <1>0, <1>5, <2>1 DEF Bursts, BurstRange
<1>7. BurstAll(P, d, e, cb, NB)
  <2> SUFFICES ASSUME NEW n \in cb..(NB - 1)
               PROVE  \E q \in Waiting : \E j \in 1..Len(P[q]) :
                        e[P[q][j].req] = n /\ P[q][j].hi = d[P[q][j].req]
    BY DEF BurstAll
  <2>1. PICK q \in Waiting : \E j \in 1..Len(P[q]) :
                        bn[P[q][j].req] = n /\ P[q][j].hi = c[P[q][j].req]
    BY <1>0 DEF Bursts, BurstAll
  <2>2. PICK j \in 1..Len(P[q]) : bn[P[q][j].req] = n /\ P[q][j].hi = c[P[q][j].req]
    BY <2>1
  <2>3. P[q][j].req \in 1..Len(c)
    BY <1>0, WaitingPlaces DEF Located, Stands
  <2> QED
    BY <1>2, <1>5, <2>2, <2>3
<1> QED
  BY <1>0, <1>1, <1>2, <1>3, <1>4, <1>5, <1>6, <1>7 DEF Way, Bursts

\* A list of one word goes to the single engine, a longer one to cmd_generator.
LEMMA EnterWay ==
  ASSUME NEW P, NEW c, NEW si, NEW sk, NEW cd, NEW G, NEW bn, NEW cb, NEW NB,
         Way(P, c, si, sk, cd, G, bn, cb, NB), NEW k \in Nat \ {0}, NEW r \in {1, 3},
         r = 3 => k = 1, r = 1 => k # 1, NEW x \in Item,
         x.req = Len(c) + 1, x.lo = 1, x.hi = k, x.top = k
  PROVE  Way(Enter(P, r, x), Append(c, k), si, sk, cd, G, Append(bn, NB), cb, NB + 1)
<1>0. /\ Placing(P) /\ c \in Seq(Nat) /\ Ordered(P) /\ Located(P, c)
      /\ Progress(c, si, sk) /\ Unseen(P, si, sk) /\ Present(P, c, si, sk)
      /\ cd \in Nat /\ G \in Nat /\ cd <= G /\ Numbered(P, cd, G)
      /\ cb \in Nat /\ NB \in Nat /\ cb <= NB /\ Bursts(P, c, bn, cb, NB)
  BY DEF Way
<1>1. PICK d, e, Q : d = Append(c, k) /\ e = Append(bn, NB) /\ Q = Enter(P, r, x)
  OBVIOUS
<1>2. /\ d \in Seq(Nat) /\ Len(c) \in Nat /\ Len(d) = Len(c) + 1
      /\ \A i \in 1..Len(c) : i \in 1..Len(d) /\ d[i] = c[i]
      /\ d[Len(c) + 1] = k
  BY <1>0, <1>1, AppendCount
<1>3. Located(P, d) /\ Progress(d, si, sk)
  BY <1>1, MoreLists
<1>4. Entered(P, Q, r, x) /\ r \in Places
  <2>1. r \in Places
    BY DEF Places
  <2> QED
    BY <1>0, <1>1, <2>1, EnterIs
<1>5. /\ Placing(Q) /\ Len(Q[r]) \in 1..Len(Q[r]) /\ Q[r][Len(Q[r])] = x
      /\ \A q \in Places : q # r => Q[q] = P[q]
      /\ \A q \in Places : \A i \in 1..Len(Q[q]) :
           \/ q = r /\ i = Len(Q[r]) /\ Q[q][i] = x
           \/ i \in 1..Len(P[q]) /\ Q[q][i] = P[q][i]
      /\ \A q \in Places : \A i \in 1..Len(P[q]) : i \in 1..Len(Q[q]) /\ Q[q][i] = P[q][i]
  BY <1>4 DEF Entered
<1>6. ASSUME NEW q \in Places, NEW i \in 1..Len(P[q])
      PROVE  P[q][i].req \in 1..Len(c) /\ Before(P[q][i], x)
  <2>1. P[q][i].req \in 1..Len(c)
    BY <1>0 DEF Located, Stands
  <2> QED
    BY <1>2, <2>1 DEF Before
<1>7. Ordered(Q)
  <2> SUFFICES ASSUME NEW a \in Places, NEW b \in Places, NEW i \in 1..Len(Q[a]),
                      NEW j \in 1..Len(Q[b]), Behind(b, a) \/ (b = a /\ i < j)
               PROVE  Before(Q[a][i], Q[b][j])
    BY DEF Ordered
  <2>1. CASE a = r /\ i = Len(Q[r]) /\ Q[a][i] = x
    <3>1. ~Behind(b, r)
      BY DEF Behind, Places
    <3>2. b = r /\ i < j /\ j \in 1..Len(Q[r])
      BY <2>1, <3>1
    <3>3. Len(Q[r]) \in Nat
      BY <1>4, <1>5, PlacedItem
    <3> QED
      BY <2>1, <3>2, <3>3
  <2>2. CASE i \in 1..Len(P[a]) /\ Q[a][i] = P[a][i]
    <3>1. CASE b = r /\ j = Len(Q[r]) /\ Q[b][j] = x
      BY <1>6, <2>2, <3>1
    <3>2. CASE j \in 1..Len(P[b]) /\ Q[b][j] = P[b][j]
      BY <1>0, <2>2, <3>2 DEF Ordered
    <3> QED
      BY <1>5, <3>1, <3>2
  <2> QED
    BY <1>5, <2>1, <2>2
<1>8. Located(Q, d)
  <2> SUFFICES ASSUME NEW q \in Places, NEW j \in 1..Len(Q[q]) PROVE Stands(q, Q[q][j], d)
    BY DEF Located
  <2>1. Stands(r, x, d)
    <3>1. Len(c) + 1 \in 1..Len(d) /\ 1 <= k
      BY <1>2
    <3>2. CASE r = 1
      BY <1>2, <3>1, <3>2 DEF Stands
    <3>3. CASE r = 3
      BY <1>2, <3>1, <3>3 DEF Stands
    <3> QED
      BY <3>2, <3>3
  <2>2. j \in 1..Len(P[q]) => Stands(q, P[q][j], d)
    BY <1>3 DEF Located
  <2> QED
    BY <1>5, <2>1, <2>2
<1>9. Unseen(Q, si, sk)
  <2> SUFFICES ASSUME NEW q \in Places, NEW j \in 1..Len(Q[q])
               PROVE  After(Q[q][j].req, Q[q][j].lo, si, sk)
    BY DEF Unseen
  <2>1. After(x.req, x.lo, si, sk)
    BY <1>0, <1>2 DEF After, Progress
  <2>2. j \in 1..Len(P[q]) => After(P[q][j].req, P[q][j].lo, si, sk)
    BY <1>0 DEF Unseen
  <2> QED
    BY <1>5, <2>1, <2>2
<1>10. Present(Q, d, si, sk)
  <2> SUFFICES ASSUME NEW i \in 1..Len(d), NEW w \in 1..d[i], After(i, w, si, sk)
               PROVE  \E p \in Places : \E j \in 1..Len(Q[p]) : Holds(Q[p][j], i, w)
    BY DEF Present
  <2>1. CASE i = Len(c) + 1
    <3>1. Holds(x, i, w)
      <4>1. w \in 1..k
        BY <1>2, <2>1
      <4> QED
        BY <2>1, <4>1 DEF Holds
    <3> QED
      BY <1>4, <1>5, <3>1
  <2>2. CASE i # Len(c) + 1
    <3>1. PICK p \in Places : \E j \in 1..Len(P[p]) : Holds(P[p][j], i, w)
      BY <1>1, <2>2, MoreLists
    <3> QED
      BY <1>5, <3>1
  <2> QED
    BY <2>1, <2>2
<1>11. Numbered(Q, cd, G)
  <2>1. \A q \in Cutting : Q[q] = P[q]
    BY <1>5, CuttingPlaces DEF Cutting
  <2> QED
    BY <1>0, <2>1, NumKept
<1>12. Ranked(d, e, NB + 1) /\ (\A i \in 1..Len(c) : e[i] = bn[i]) /\ e[Len(c) + 1] = NB
  <2>1. Ranked(c, bn, NB)
    BY <1>0 DEF Bursts
  <2>2. RankedMore(c, k, d, bn, NB, e)
    BY <1>0, <1>1, <2>1, RankMore
  <2> QED
    BY <2>2 DEF RankedMore
<1>13. BurstRange(Q, e, cb)
  <2> SUFFICES ASSUME NEW q \in Waiting, NEW j \in 1..Len(Q[q]) PROVE cb <= e[Q[q][j].req]
    BY DEF BurstRange
  <2>1. CASE Q[q][j] = x
    BY <1>0, <1>12, <2>1
  <2>2. CASE j \in 1..Len(P[q]) /\ Q[q][j] = P[q][j]
    <3>1. P[q][j].req \in 1..Len(c)
      BY <1>6, <2>2, WaitingPlaces
    <3> QED
      BY <1>0, <1>12, <2>2, <3>1 DEF Bursts, BurstRange
  <2> QED
    BY <1>5, <2>1, <2>2, WaitingPlaces
<1>14. BurstAll(Q, d, e, cb, NB + 1)
  <2> SUFFICES ASSUME NEW n \in cb..((NB + 1) - 1)
               PROVE  \E q \in Waiting : \E j \in 1..Len(Q[q]) :
                        e[Q[q][j].req] = n /\ Q[q][j].hi = d[Q[q][j].req]
    BY DEF BurstAll
  <2>1. CASE n = NB
    <3>1. r \in Waiting
      BY DEF Waiting
    <3>2. e[Q[r][Len(Q[r])].req] = n /\ Q[r][Len(Q[r])].hi = d[Q[r][Len(Q[r])].req]
      BY <1>2, <1>5, <1>12, <2>1
    <3> QED
      BY <1>5, <3>1, <3>2
  <2>2. CASE n # NB
    <3>0. n \in cb..(NB - 1)
      BY <1>0, <2>2
    <3>1. PICK q \in Waiting : \E j \in 1..Len(P[q]) :
                        bn[P[q][j].req] = n /\ P[q][j].hi = c[P[q][j].req]
      BY <1>0, <3>0 DEF Bursts, BurstAll
    <3>2. PICK j \in 1..Len(P[q]) : bn[P[q][j].req] = n /\ P[q][j].hi = c[P[q][j].req]
      BY <3>1
    <3>q. q \in Places
      BY WaitingPlaces
    <3>3. P[q][j].req \in 1..Len(c) /\ j \in 1..Len(Q[q]) /\ Q[q][j] = P[q][j]
      BY <1>5, <1>6, <3>q
    <3>4. e[Q[q][j].req] = n /\ Q[q][j].hi = d[Q[q][j].req]
      BY <1>2, <1>12, <3>2, <3>3
    <3> QED
      BY <3>3, <3>4
  <2> QED
    BY <2>1, <2>2
<1>15. NB + 1 \in Nat /\ cb <= NB + 1
  BY <1>0
<1> QED
  BY <1>0, <1>1, <1>2, <1>3, <1>5, <1>7, <1>8, <1>9, <1>10, <1>11, <1>12, <1>13, <1>14,
     <1>15 DEF Way, Bursts

\* sample takes the first word.
Leave(P) == [P EXCEPT ![13] = Tail(@)]

\* What leaving leaves, item by item.
Left(P, Q) ==
  /\ Placing(Q) /\ \A q \in Places : q # 13 => Q[q] = P[q]
  /\ 1 \in 1..Len(P[13])
  /\ \A q \in Places : \A i \in 1..Len(Q[q]) : \E j \in 1..Len(P[q]) :
       /\ j = (IF q = 13 THEN i + 1 ELSE i) /\ Q[q][i] = P[q][j] /\ ~(q = 13 /\ j = 1)
  /\ \A q \in Places : \A j \in 1..Len(P[q]) :
       ~(q = 13 /\ j = 1) => \E i \in 1..Len(Q[q]) : Q[q][i] = P[q][j]

\* Leaving does what Left says.
LEMMA LeaveIs ==
  ASSUME NEW P, Placing(P), P[13] # << >>
  PROVE  Left(P, Leave(P))
<1>0. 13 \in Places
  BY DEF Places
<1>1. PICK Q : Q = Leave(P)
  OBVIOUS
<1>2. PICK s \in Seq(Item) : s = P[13]
  BY <1>0, PlacedItem
<1>3. PICK t : t = Tail(s)
  OBVIOUS
<1>4. /\ t \in Seq(Item) /\ Len(s) \in Nat /\ Len(s) >= 1 /\ Len(t) = Len(s) - 1
      /\ \A i \in 1..Len(t) : i + 1 \in 1..Len(s) /\ t[i] = s[i + 1]
      /\ \A i \in 1..Len(s) : i # 1 => i - 1 \in 1..Len(t) /\ t[i - 1] = s[i]
  BY <1>2, <1>3, TailAt
<1>5. Q[13] = t /\ DOMAIN Q = Places /\ \A q \in Places : q # 13 => Q[q] = P[q]
  BY <1>0, <1>1, <1>2, <1>3 DEF Leave, Placing
<1>6. Placing(Q)
  <2>1. \A q \in Places : Q[q] \in Seq(Item)
    BY <1>4, <1>5 DEF Placing
  <2>2. Q = [q \in Places |-> Q[q]]
    BY <1>1, <1>5 DEF Leave, Placing
  <2> QED
    BY <2>1, <2>2 DEF Placing
<1>7. ASSUME NEW q \in Places, NEW i \in 1..Len(Q[q])
      PROVE  \E j \in 1..Len(P[q]) :
               j = (IF q = 13 THEN i + 1 ELSE i) /\ Q[q][i] = P[q][j] /\ ~(q = 13 /\ j = 1)
  <2>1. CASE q = 13
    <3>1. i + 1 \in 1..Len(s) /\ t[i] = s[i + 1] /\ i + 1 # 1
      BY <1>4, <1>5, <2>1
    <3> QED
      BY <1>2, <1>5, <2>1, <3>1
  <2>2. CASE q # 13
    BY <1>5, <2>2
  <2> QED
    BY <2>1, <2>2
<1>8. ASSUME NEW q \in Places, NEW j \in 1..Len(P[q]), ~(q = 13 /\ j = 1)
      PROVE  \E i \in 1..Len(Q[q]) : Q[q][i] = P[q][j]
  <2>1. CASE q = 13
    <3>1. j - 1 \in 1..Len(t) /\ t[j - 1] = s[j]
      BY <1>2, <1>4, <1>8, <2>1
    <3> QED
      BY <1>2, <1>5, <2>1, <3>1
  <2>2. CASE q # 13
    BY <1>5, <2>2
  <2> QED
    BY <2>1, <2>2
<1>9. 1 \in 1..Len(P[13])
  BY <1>2, <1>4
<1> QED
  BY <1>1, <1>5, <1>6, <1>7, <1>8, <1>9 DEF Left

\* sample has then seen that word.
LEMMA LeaveWay ==
  ASSUME NEW P, NEW c, NEW si, NEW sk, NEW cd, NEW G, NEW bn, NEW cb, NEW NB,
         Way(P, c, si, sk, cd, G, bn, cb, NB), P[13] # << >>
  PROVE  Way(Leave(P), c, P[13][1].req, P[13][1].lo, cd, G, bn, cb, NB)
<1>0. /\ Placing(P) /\ c \in Seq(Nat) /\ Ordered(P) /\ Located(P, c)
      /\ Progress(c, si, sk) /\ Unseen(P, si, sk) /\ Present(P, c, si, sk)
      /\ cd \in Nat /\ G \in Nat /\ cd <= G /\ Numbered(P, cd, G)
      /\ cb \in Nat /\ NB \in Nat /\ cb <= NB /\ Bursts(P, c, bn, cb, NB)
  BY DEF Way
<1>1. PICK Q : Q = Leave(P)
  OBVIOUS
<1>2. Left(P, Q) /\ 13 \in Places
  BY <1>0, <1>1, LeaveIs DEF Places
<1>3. /\ Placing(Q) /\ \A q \in Places : q # 13 => Q[q] = P[q]
      /\ 1 \in 1..Len(P[13])
      /\ \A q \in Places : \A i \in 1..Len(Q[q]) : \E j \in 1..Len(P[q]) :
           /\ j = (IF q = 13 THEN i + 1 ELSE i) /\ Q[q][i] = P[q][j] /\ ~(q = 13 /\ j = 1)
      /\ \A q \in Places : \A j \in 1..Len(P[q]) :
           ~(q = 13 /\ j = 1) => \E i \in 1..Len(Q[q]) : Q[q][i] = P[q][j]
  BY <1>2 DEF Left
<1>4. PICK h \in Item :
           /\ h = P[13][1] /\ h.req \in 1..Len(c) /\ h.lo = h.hi /\ 1 <= h.lo
           /\ h.lo <= c[h.req] /\ si <= h.req
           /\ h.req = si => h.lo = sk + 1
  BY <1>0, NextWord
<1>5. h.lo \in Nat /\ h.req \in Nat /\ si \in Nat /\ sk \in Nat
  BY <1>0 DEF Item, Progress
<1>6. ASSUME NEW q \in Places, NEW j \in 1..Len(P[q]), ~(q = 13 /\ j = 1)
      PROVE  Before(h, P[q][j])
  <2>1. CASE q = 13
    <3>1. 1 < j
      BY <1>6, <2>1
    <3> QED
      BY <1>0, <1>2, <1>3, <1>4, <2>1, <3>1 DEF Ordered
  <2>2. CASE q # 13
    <3>1. Behind(q, 13)
      BY <2>2 DEF Behind, Places
    <3> QED
      BY <1>0, <1>2, <1>3, <1>4, <3>1 DEF Ordered
  <2> QED
    BY <2>1, <2>2
<1>7. Ordered(Q)
  <2> SUFFICES ASSUME NEW a \in Places, NEW b \in Places, NEW i \in 1..Len(Q[a]),
                      NEW j \in 1..Len(Q[b]), Behind(b, a) \/ (b = a /\ i < j)
               PROVE  Before(Q[a][i], Q[b][j])
    BY DEF Ordered
  <2>1. PICK k \in 1..Len(P[a]) : k = (IF a = 13 THEN i + 1 ELSE i) /\ Q[a][i] = P[a][k]
    BY <1>3
  <2>2. PICK n \in 1..Len(P[b]) : n = (IF b = 13 THEN j + 1 ELSE j) /\ Q[b][j] = P[b][n]
    BY <1>3
  <2>3. b = a /\ i < j => k < n
    BY <2>1, <2>2
  <2> QED
    BY <1>0, <2>1, <2>2, <2>3 DEF Ordered
<1>8. Located(Q, c)
  <2> SUFFICES ASSUME NEW q \in Places, NEW i \in 1..Len(Q[q]) PROVE Stands(q, Q[q][i], c)
    BY DEF Located
  <2>1. PICK k \in 1..Len(P[q]) : Q[q][i] = P[q][k]
    BY <1>3
  <2> QED
    BY <1>0, <2>1 DEF Located
<1>9. Progress(c, h.req, h.lo)
  BY <1>0, <1>4, <1>5 DEF Progress
<1>10. Unseen(Q, h.req, h.lo)
  <2> SUFFICES ASSUME NEW q \in Places, NEW i \in 1..Len(Q[q])
               PROVE  After(Q[q][i].req, Q[q][i].lo, h.req, h.lo)
    BY DEF Unseen
  <2>1. PICK k \in 1..Len(P[q]) : Q[q][i] = P[q][k] /\ ~(q = 13 /\ k = 1)
    BY <1>3
  <2>2. PICK y \in Item : y = P[q][k]
    BY <1>0, PlacedItem
  <2>3. h.req < y.req \/ (h.req = y.req /\ h.hi < y.lo)
    BY <1>6, <2>1, <2>2 DEF Before
  <2>4. y.req \in Nat /\ y.lo \in Nat
    BY DEF Item
  <2> QED
    BY <1>4, <1>5, <2>1, <2>2, <2>3, <2>4 DEF After
<1>11. Present(Q, c, h.req, h.lo)
  <2> SUFFICES ASSUME NEW i \in 1..Len(c), NEW k \in 1..c[i], After(i, k, h.req, h.lo)
               PROVE  \E q \in Places : \E j \in 1..Len(Q[q]) : Holds(Q[q][j], i, k)
    BY DEF Present
  <2>0. c[i] \in Nat /\ k \in Nat /\ i \in Nat
    BY <1>0
  <2>1. After(i, k, si, sk)
    BY <1>4, <1>5, <2>0 DEF After
  <2>2. PICK q \in Places : \E j \in 1..Len(P[q]) : Holds(P[q][j], i, k)
    BY <1>0, <2>1 DEF Present
  <2>3. PICK j \in 1..Len(P[q]) : Holds(P[q][j], i, k)
    BY <2>2
  <2>4. ~(q = 13 /\ j = 1)
    <3>1. Holds(h, i, k) => i = h.req /\ k = h.lo
      BY <1>4, <1>5, <2>0 DEF Holds
    <3>2. ~After(h.req, h.lo, h.req, h.lo)
      BY <1>5 DEF After
    <3>3. ~Holds(h, i, k)
      BY <3>1, <3>2
    <3> QED
      BY <1>4, <2>3, <3>3
  <2>5. \E n \in 1..Len(Q[q]) : Q[q][n] = P[q][j]
    BY <1>3, <2>4
  <2> QED
    BY <2>3, <2>5
<1>12. Numbered(Q, cd, G)
  <2>1. \A q \in Cutting : Q[q] = P[q]
    BY <1>3, CuttingPlaces DEF Cutting
  <2> QED
    BY <1>0, <2>1, NumKept
<1>13. Bursts(Q, c, bn, cb, NB)
  <2>1. \A q \in Waiting : Q[q] = P[q]
    BY <1>3, WaitingPlaces DEF Waiting
  <2>2. BurstRange(Q, bn, cb)
    BY <1>0, <2>1 DEF Bursts, BurstRange
  <2>3. BurstAll(Q, c, bn, cb, NB)
    <3> SUFFICES ASSUME NEW n \in cb..(NB - 1)
                 PROVE  \E q \in Waiting : \E k \in 1..Len(Q[q]) :
                          bn[Q[q][k].req] = n /\ Q[q][k].hi = c[Q[q][k].req]
      BY DEF BurstAll
    <3>1. PICK q \in Waiting : \E k \in 1..Len(P[q]) :
                          bn[P[q][k].req] = n /\ P[q][k].hi = c[P[q][k].req]
      BY <1>0 DEF Bursts, BurstAll
    <3>2. Q[q] = P[q]
      BY <2>1
    <3> QED
      BY <3>1, <3>2
  <2> QED
    BY <1>0, <2>2, <2>3 DEF Bursts
<1> QED
  BY <1>0, <1>1, <1>3, <1>4, <1>7, <1>8, <1>9, <1>10, <1>11, <1>12, <1>13 DEF Way

\* When sample has seen the last word there is none left anywhere.
LEMMA NothingLeft ==
  ASSUME NEW P, NEW c, NEW si, NEW sk, NEW cd, NEW G, NEW bn, NEW cb, NEW NB,
         Way(P, c, si, sk, cd, G, bn, cb, NB),
         \A i \in 1..Len(c) : c[i] # 0 => i < si \/ (i = si /\ sk = c[i])
  PROVE  (\A q \in Places : P[q] = << >>) /\ cd = G /\ cb = NB
<1>0. /\ Placing(P) /\ c \in Seq(Nat) /\ Ordered(P) /\ Located(P, c)
      /\ Progress(c, si, sk) /\ Unseen(P, si, sk) /\ Present(P, c, si, sk)
      /\ cd \in Nat /\ G \in Nat /\ cd <= G /\ Numbered(P, cd, G)
      /\ cb \in Nat /\ NB \in Nat /\ cb <= NB /\ Bursts(P, c, bn, cb, NB)
  BY DEF Way
<1>1. ASSUME NEW q \in Places, NEW j \in 1..Len(P[q]) PROVE FALSE
  <2>1. PICK y \in Item : /\ y = P[q][j] /\ y.req \in 1..Len(c) /\ y.lo \in Nat /\ y.hi \in Nat
                          /\ y.lo <= y.hi /\ y.hi <= c[y.req] /\ c[y.req] # 0
                          /\ c[y.req] \in Nat
    <3>1. PICK y \in Item :
             /\ y = P[q][j] /\ y.req \in 1..Len(c) /\ y.lo \in Nat /\ y.hi \in Nat
             /\ y.top \in Nat /\ 1 <= y.lo /\ y.lo <= y.hi /\ y.hi <= y.top
             /\ y.top <= c[y.req] /\ c[y.req] \in Nat /\ c[y.req] # 0 /\ y.hi <= c[y.req]
      BY <1>0, ItemFacts
    <3> QED
      BY <3>1
  <2>2. y.req > si \/ (y.req = si /\ y.lo > sk)
    BY <1>0, <2>1 DEF Unseen, After
  <2>3. y.req < si \/ (y.req = si /\ sk = c[y.req])
    BY <2>1
  <2>4. si \in Nat /\ sk \in Nat /\ y.req \in Nat
    <3>1. si \in 0..Len(c) /\ sk \in Nat
      BY <1>0 DEF Progress
    <3>2. y.req \in Nat
      BY <2>1 DEF Item
    <3> QED
      BY <1>0, <3>1, <3>2
  <2> QED
    BY <2>1, <2>2, <2>3, <2>4
<1>2. ASSUME NEW q \in Places PROVE P[q] = << >>
  <2>1. PICK s \in Seq(Item) : s = P[q]
    BY <1>0, PlacedItem
  <2>2. ~(1 \in 1..Len(s))
    BY <1>1, <2>1
  <2>3. s = << >>
    BY <2>2
  <2> QED
    BY <2>1, <2>3
<1>3. cd = G
  <2>1. CASE cd < G
    <3>1. cd \in cd..(G - 1)
      BY <1>0, <2>1
    <3>2. \E p \in Cutting : \E i \in 1..Len(P[p]) : P[p][i].num = cd
      BY <1>0, <3>1 DEF Numbered, NumAll
    <3> QED
      BY <1>1, <3>2, CuttingPlaces
  <2> QED
    BY <1>0, <2>1
<1>4. cb = NB
  <2>1. CASE cb < NB
    <3>1. cb \in cb..(NB - 1)
      BY <1>0, <2>1
    <3>2. \E p \in Waiting : \E i \in 1..Len(P[p]) : bn[P[p][i].req] = cb
      BY <1>0, <3>1 DEF Bursts, BurstAll
    <3> QED
      BY <1>1, <3>2, WaitingPlaces
  <2> QED
    BY <1>0, <2>1
<1> QED
  BY <1>2, <1>3, <1>4

-----------------------------------------------------------------------------
\* There are not more numbers on their way than slots.
LEMMA CountSlots ==
  ASSUME NEW D \in Nat, NEW f, NEW a \in Nat, NEW b \in Nat,
         \A n \in a..(b - 1) : \E s \in (1..15) \X (1..D) : f[s] = n
  PROVE  b <= a + 15 * D
<1>1. PICK S : S = (1..15) \X (1..D)
  OBVIOUS
<1>2. IsFiniteSet(S) /\ Cardinality(S) = 15 * D
  <2>1. \A n \in Nat : IsFiniteSet(1..n) /\ Cardinality(1..n) = n
    <3> TAKE n \in Nat
    <3>i. 1 \in Int /\ n \in Int
      OBVIOUS
    <3>1. IsFiniteSet(1..n) /\ Cardinality(1..n) = IF 1 > n THEN 0 ELSE n - 1 + 1
      BY <3>i, FS_Interval, ZenonT(30)
    <3> QED
      BY <3>1
  <2>2. /\ IsFiniteSet(1..15) /\ Cardinality(1..15) = 15
        /\ IsFiniteSet(1..D) /\ Cardinality(1..D) = D
    BY <2>1
  <2>3. IsFiniteSet(S) /\ Cardinality(S) = Cardinality(1..15) * Cardinality(1..D)
    BY <1>1, <2>2, FS_Product
  <2> QED
    BY <2>2, <2>3
<1>3. PICK R : R = {s \in S : f[s] \in a..(b - 1)}
  OBVIOUS
<1>4. R \in SUBSET S
  BY <1>3
<1>5. IsFiniteSet(R) /\ Cardinality(R) <= Cardinality(S)
  BY <1>2, <1>4, FS_Subset
<1>6. PICK g : g = [s \in R |-> f[s]]
  OBVIOUS
<1>7. g \in Surjection(R, a..(b - 1))
  <2>1. g \in [R -> a..(b - 1)]
    BY <1>3, <1>6
  <2>2. \A n \in a..(b - 1) : \E s \in R : g[s] = n
    BY <1>1, <1>3, <1>6
  <2> QED
    BY <2>1, <2>2 DEF Surjection
<1>8. Cardinality(a..(b - 1)) <= Cardinality(R)
  BY <1>5, <1>7, FS_Surjection
<1>9. Cardinality(a..(b - 1)) = IF a > b - 1 THEN 0 ELSE (b - 1) - a + 1
  BY FS_Interval
<1>10. Cardinality(R) \in Nat /\ Cardinality(S) \in Nat
  BY <1>2, <1>5, FS_CardinalityType
<1> QED
  BY <1>2, <1>5, <1>8, <1>9, <1>10

\* An item has one of at most 15 * D slots.
LEMMA SlotOf ==
  ASSUME NEW P, Placing(P), NEW D \in Nat, \A q \in Places : Len(P[q]) <= D,
         NEW q \in Places, NEW j \in 1..Len(P[q])
  PROVE  <<q, j>> \in (1..15) \X (1..D)
<1>1. Len(P[q]) \in Nat /\ Len(P[q]) <= D
  BY PlacedItem
<1>2. j \in 1..D
  BY <1>1
<1>3. q \in 1..15
  BY DEF Places
<1> QED
  BY <1>2, <1>3

\* Not more numbers are on their way than slots, so that numbers modulo anything as large
\* tell the commands, and the lists, apart.
LEMMA FewNumbers ==
  ASSUME NEW P, NEW c, NEW si, NEW sk, NEW cd, NEW G, NEW bn, NEW cb, NEW NB,
         Way(P, c, si, sk, cd, G, bn, cb, NB), NEW D \in Nat, \A q \in Places : Len(P[q]) <= D
  PROVE  G <= cd + 15 * D /\ NB <= cb + 15 * D
<1>0. /\ Placing(P) /\ cd \in Nat /\ G \in Nat /\ Numbered(P, cd, G)
      /\ cb \in Nat /\ NB \in Nat /\ Bursts(P, c, bn, cb, NB)
  BY DEF Way
<1>1. G <= cd + 15 * D
  <2>1. PICK f : f = [s \in (1..15) \X (1..D) |-> P[s[1]][s[2]].num]
    OBVIOUS
  <2>2. ASSUME NEW n \in cd..(G - 1) PROVE \E s \in (1..15) \X (1..D) : f[s] = n
    <3>1. PICK q \in Cutting : \E i \in 1..Len(P[q]) : P[q][i].num = n
      BY <1>0 DEF Numbered, NumAll
    <3>2. PICK i \in 1..Len(P[q]) : P[q][i].num = n
      BY <3>1
    <3>q. q \in Places
      BY CuttingPlaces
    <3>3. <<q, i>> \in (1..15) \X (1..D)
      BY <1>0, <3>q, SlotOf
    <3>4. f[<<q, i>>] = n
      BY <2>1, <3>2, <3>3
    <3> QED
      BY <3>3, <3>4
  <2> QED
    BY <1>0, <2>2, CountSlots
<1>2. NB <= cb + 15 * D
  <2>1. PICK f : f = [s \in (1..15) \X (1..D) |-> bn[P[s[1]][s[2]].req]]
    OBVIOUS
  <2>2. ASSUME NEW n \in cb..(NB - 1) PROVE \E s \in (1..15) \X (1..D) : f[s] = n
    <3>1. PICK q \in Waiting : \E i \in 1..Len(P[q]) : bn[P[q][i].req] = n
      BY <1>0 DEF Bursts, BurstAll
    <3>2. PICK i \in 1..Len(P[q]) : bn[P[q][i].req] = n
      BY <3>1
    <3>q. q \in Places
      BY WaitingPlaces
    <3>3. <<q, i>> \in (1..15) \X (1..D)
      BY <1>0, <3>q, SlotOf
    <3>4. f[<<q, i>>] = n
      BY <2>1, <3>2, <3>3
    <3> QED
      BY <3>3, <3>4
  <2> QED
    BY <1>0, <2>2, CountSlots
<1> QED
  BY <1>1, <1>2

-----------------------------------------------------------------------------
(***************************************************************************)
(* The answers, which update_merge puts in order.                          *)
(***************************************************************************)

\* sample has seen all the words of list i.
SeenAll(c, i, si, sk) == i < si \/ (i = si /\ sk = c[i])

\* A rising sequence of numbers between lo and hi.
Rising(s, lo, hi) ==
  /\ s \in Seq(Nat) /\ \A i \in 1..Len(s) : s[i] \in lo..hi
  /\ \A i, j \in 1..Len(s) : i < j => s[i] < s[j]

\* The answers on their way behind the n given ones: U those vd_scheduler gives for the empty
\* lists, A those sample gives for the others, both in the order of the lists.
Answers(c, si, sk, U, A, n) ==
  /\ n \in Nat /\ n <= Len(c)
  /\ Rising(U, n + 1, Len(c)) /\ Rising(A, n + 1, Len(c))
  /\ \A i \in 1..Len(U) : c[U[i]] = 0
  /\ \A i \in 1..Len(A) : c[A[i]] # 0 /\ SeenAll(c, A[i], si, sk)
  /\ \A i \in (n + 1)..Len(c) : c[i] = 0 => \E k \in 1..Len(U) : U[k] = i
  /\ \A i \in (n + 1)..Len(c) : c[i] # 0
     /\ SeenAll(c, i, si, sk) => \E k \in 1..Len(A) : A[k] = i
  /\ \A i \in 1..n : c[i] # 0 => SeenAll(c, i, si, sk)

\* A larger number at the end keeps a sequence rising.
LEMMA RisingAppend ==
  ASSUME NEW s, NEW lo \in Nat, NEW hi \in Nat, Rising(s, lo, hi), NEW m \in Nat, lo <= m,
         NEW k \in Nat, hi <= k, m <= k, \A i \in 1..Len(s) : s[i] < m
  PROVE  Rising(Append(s, m), lo, k)
<1>1. s \in Seq(Nat)
  BY DEF Rising
<1>2. PICK t : t = Append(s, m)
  OBVIOUS
<1>3. /\ t \in Seq(Nat) /\ Len(s) \in Nat /\ Len(t) = Len(s) + 1
      /\ \A i \in 1..Len(s) : i \in 1..Len(t) /\ t[i] = s[i]
      /\ t[Len(s) + 1] = m /\ \A i \in 1..Len(t) : i \in 1..Len(s) \/ i = Len(s) + 1
  BY <1>1, <1>2, AppendCount
<1>4. ASSUME NEW i \in 1..Len(t) PROVE t[i] \in lo..k
  <2>1. i \in 1..Len(s) => t[i] \in lo..hi
    BY <1>3 DEF Rising
  <2> QED
    BY <1>3, <2>1
<1>5. ASSUME NEW i \in 1..Len(t), NEW j \in 1..Len(t), i < j PROVE t[i] < t[j]
  <2>1. i \in 1..Len(s) /\ t[i] = s[i]
    BY <1>3, <1>5
  <2>2. CASE j \in 1..Len(s)
    BY <1>3, <1>5, <2>1, <2>2 DEF Rising
  <2>3. CASE j = Len(s) + 1
    BY <1>3, <2>1, <2>3
  <2> QED
    BY <1>3, <2>2, <2>3
<1> QED
  BY <1>2, <1>3, <1>4, <1>5 DEF Rising

\* Without its first number, the lowest, a sequence rises above it.
LEMMA RisingTail ==
  ASSUME NEW s, NEW lo \in Nat, NEW hi \in Nat, Rising(s, lo, hi), s # << >>, s[1] = lo
  PROVE  /\ Rising(Tail(s), lo + 1, hi) /\ lo <= hi
         /\ \A i \in 1..Len(Tail(s)) : i + 1 \in 1..Len(s) /\ Tail(s)[i] = s[i + 1]
         /\ \A i \in 1..Len(s) : s[i] # lo => \E j \in 1..Len(Tail(s)) : Tail(s)[j] = s[i]
<1>1. s \in Seq(Nat)
  BY DEF Rising
<1>2. PICK t : t = Tail(s)
  OBVIOUS
<1>3. /\ t \in Seq(Nat) /\ Len(s) \in Nat /\ Len(s) >= 1 /\ Len(t) = Len(s) - 1
      /\ \A i \in 1..Len(t) : i + 1 \in 1..Len(s) /\ t[i] = s[i + 1]
      /\ \A i \in 1..Len(s) : i # 1 => i - 1 \in 1..Len(t) /\ t[i - 1] = s[i]
  BY <1>1, <1>2, TailAt
<1>4. ASSUME NEW i \in 1..Len(t) PROVE t[i] \in (lo + 1)..hi
  <2>1. i + 1 \in 1..Len(s) /\ 1 \in 1..Len(s) /\ 1 < i + 1
    BY <1>3
  <2>2. s[1] < s[i + 1] /\ s[i + 1] \in lo..hi
    BY <2>1 DEF Rising
  <2> QED
    BY <1>3, <2>2
<1>5. ASSUME NEW i \in 1..Len(t), NEW j \in 1..Len(t), i < j PROVE t[i] < t[j]
  <2>1. i + 1 \in 1..Len(s) /\ j + 1 \in 1..Len(s) /\ i + 1 < j + 1
    BY <1>3, <1>5
  <2>2. s[i + 1] < s[j + 1]
    BY <2>1 DEF Rising
  <2> QED
    BY <1>3, <2>2
<1>6. ASSUME NEW i \in 1..Len(s), s[i] # lo PROVE \E j \in 1..Len(t) : t[j] = s[i]
  <2>1. i - 1 \in 1..Len(t) /\ t[i - 1] = s[i]
    BY <1>3, <1>6
  <2> QED
    BY <2>1
<1>7. lo <= hi
  <2>1. 1 \in 1..Len(s)
    BY <1>3
  <2> QED
    BY <2>1 DEF Rising
<1> QED
  BY <1>2, <1>3, <1>4, <1>5, <1>6, <1>7 DEF Rising

\* A rising sequence rises between wider bounds.
LEMMA RisingMore ==
  ASSUME NEW s, NEW lo \in Nat, NEW hi \in Nat, Rising(s, lo, hi), NEW a \in Nat, a <= lo,
         NEW k \in Nat, hi <= k
  PROVE  Rising(s, a, k)
BY DEF Rising

\* A rising sequence without the lowest number rises above it.
LEMMA RisingLower ==
  ASSUME NEW s, NEW lo \in Nat, NEW hi \in Nat,
         Rising(s, lo, hi), \A i \in 1..Len(s) : s[i] # lo
  PROVE  Rising(s, lo + 1, hi)
BY DEF Rising

\* A further list, empty or not.
LEMMA AnswersEnter ==
  ASSUME NEW c \in Seq(Nat), NEW si, NEW sk, Progress(c, si, sk), NEW U, NEW A, NEW n,
         Answers(c, si, sk, U, A, n), NEW k \in Nat, NEW V,
         V = IF k = 0 THEN Append(U, Len(c) + 1) ELSE U
  PROVE  Answers(Append(c, k), si, sk, V, A, n)
<1>1. PICK d : d = Append(c, k)
  OBVIOUS
<1>2. /\ d \in Seq(Nat) /\ Len(c) \in Nat /\ Len(d) = Len(c) + 1
      /\ \A i \in 1..Len(c) : i \in 1..Len(d) /\ d[i] = c[i]
      /\ d[Len(c) + 1] = k /\ \A i \in 1..Len(d) : i \in 1..Len(c) \/ i = Len(c) + 1
  BY <1>1, AppendCount
<1>3. /\ n \in Nat /\ n <= Len(c) /\ Rising(U, n + 1, Len(c)) /\ Rising(A, n + 1, Len(c))
      /\ \A i \in 1..Len(U) : c[U[i]] = 0 /\ U[i] \in 1..Len(c)
      /\ \A i \in 1..Len(A) : c[A[i]] # 0 /\ SeenAll(c, A[i], si, sk) /\ A[i] \in 1..Len(c)
  BY DEF Answers, Rising
<1>4. si \in 0..Len(c) /\ sk \in Nat
  BY DEF Progress
<1>5. ASSUME NEW i \in 1..Len(c) PROVE SeenAll(d, i, si, sk) <=> SeenAll(c, i, si, sk)
  BY <1>2 DEF SeenAll
<1>6. Rising(A, n + 1, Len(d)) /\ Rising(V, n + 1, Len(d))
  <2>1. n + 1 \in Nat /\ Len(c) \in Nat /\ Len(d) \in Nat /\ Len(c) <= Len(d)
    BY <1>2, <1>3
  <2>2. Rising(A, n + 1, Len(d)) /\ Rising(U, n + 1, Len(d))
    BY <1>3, <2>1, RisingMore
  <2>3. \A i \in 1..Len(U) : U[i] < Len(c) + 1
    BY <1>2, <1>3
  <2>4. Len(c) + 1 \in Nat /\ n + 1 <= Len(c) + 1 /\ Len(c) + 1 <= Len(d)
    BY <1>2, <1>3
  <2>5. Rising(Append(U, Len(c) + 1), n + 1, Len(d))
    BY <1>3, <2>1, <2>3, <2>4, RisingAppend
  <2> QED
    BY <2>2, <2>5
<1>7. U \in Seq(Nat)
  BY <1>3 DEF Rising
<1>8. \A i \in 1..Len(V) : d[V[i]] = 0
  <2> TAKE i \in 1..Len(V)
  <2>1. CASE k = 0
    <3>1. /\ Len(U) \in Nat /\ V[Len(U) + 1] = Len(c) + 1 /\ Len(V) = Len(U) + 1
          /\ \A j \in 1..Len(U) : V[j] = U[j]
      BY <1>2, <1>7, <2>1, AppendCount
    <3>2. i \in 1..Len(U) \/ i = Len(U) + 1
      BY <3>1
    <3> QED
      BY <1>2, <1>3, <2>1, <3>1, <3>2
  <2>2. CASE k # 0
    BY <1>2, <1>3, <2>2
  <2> QED
    BY <2>1, <2>2
<1>9. \A i \in 1..Len(A) : d[A[i]] # 0 /\ SeenAll(d, A[i], si, sk)
  BY <1>2, <1>3, <1>5
<1>10. ASSUME NEW i \in (n + 1)..Len(d), d[i] = 0 PROVE \E j \in 1..Len(V) : V[j] = i
  <2>1. CASE i \in (n + 1)..Len(c)
    <3>1. c[i] = 0
      BY <1>2, <1>3, <1>10, <2>1
    <3>2. PICK j \in 1..Len(U) : U[j] = i
      BY <2>1, <3>1 DEF Answers
    <3>3. CASE k = 0
      <4>1. j \in 1..Len(V) /\ V[j] = U[j]
        BY <1>2, <1>7, <3>3, AppendCount
      <4> QED
        BY <3>2, <4>1
    <3>4. CASE k # 0
      BY <3>2, <3>4
    <3> QED
      BY <3>3, <3>4
  <2>2. CASE i = Len(c) + 1
    <3>1. k = 0
      BY <1>2, <1>10, <2>2
    <3>2. /\ Len(U) \in Nat /\ V[Len(U) + 1] = Len(c) + 1 /\ Len(V) = Len(U) + 1
      BY <1>2, <1>7, <3>1, AppendCount
    <3>3. Len(U) + 1 \in 1..Len(V)
      BY <3>2
    <3> QED
      BY <2>2, <3>2, <3>3
  <2> QED
    BY <1>2, <1>3, <2>1, <2>2
<1>11. ASSUME NEW i \in (n + 1)..Len(d), d[i] # 0, SeenAll(d, i, si, sk)
       PROVE  \E j \in 1..Len(A) : A[j] = i
  <2>1. i # Len(c) + 1
    BY <1>2, <1>4, <1>11 DEF SeenAll
  <2>2. i \in (n + 1)..Len(c) /\ i \in 1..Len(c)
    BY <1>2, <1>3, <2>1
  <2>3. c[i] # 0 /\ SeenAll(c, i, si, sk)
    BY <1>2, <1>5, <1>11, <2>2
  <2> QED
    BY <2>2, <2>3 DEF Answers
<1>12. ASSUME NEW i \in 1..n, d[i] # 0 PROVE SeenAll(d, i, si, sk)
  <2>1. i \in 1..Len(c)
    BY <1>2, <1>3
  <2> QED
    BY <1>2, <1>5, <1>12, <2>1 DEF Answers
<1>13. n <= Len(d)
  BY <1>2, <1>3
<1> QED
  BY <1>1, <1>3, <1>6, <1>8, <1>9, <1>10, <1>11, <1>12, <1>13 DEF Answers

\* sample goes on by one word.
LEMMA AnswersLeave ==
  ASSUME NEW P, NEW c, NEW si, NEW sk, NEW cd, NEW G, NEW bn, NEW cb, NEW NB,
         Way(P, c, si, sk, cd, G, bn, cb, NB), P[13] # << >>,
         NEW U, NEW A, NEW n, Answers(c, si, sk, U, A, n),
         NEW h, h = P[13][1], NEW B, B = IF h.hi = c[h.req] THEN Append(A, h.req) ELSE A
  PROVE  Answers(c, h.req, h.lo, U, B, n)
<1>1. /\ Placing(P) /\ c \in Seq(Nat) /\ Ordered(P) /\ Located(P, c)
      /\ Progress(c, si, sk) /\ Unseen(P, si, sk) /\ Present(P, c, si, sk)
  BY DEF Way
<1>2. /\ h \in Item /\ h.req \in 1..Len(c) /\ h.lo = h.hi /\ 1 <= h.lo
      /\ h.lo <= c[h.req] /\ si <= h.req
      /\ h.req = si => h.lo = sk + 1
      /\ h.req # si => h.lo = 1 /\ (si # 0 => sk = c[si])
      /\ \A i \in 1..Len(c) : si < i /\ i < h.req => c[i] = 0
  <2>1. \E g \in Item :
           /\ g = P[13][1] /\ g.req \in 1..Len(c) /\ g.lo = g.hi /\ 1 <= g.lo
           /\ g.lo <= c[g.req] /\ si <= g.req
           /\ g.req = si => g.lo = sk + 1
           /\ g.req # si => g.lo = 1 /\ (si # 0 => sk = c[si])
           /\ \A i \in 1..Len(c) : si < i /\ i < g.req => c[i] = 0
    BY <1>1, NextWord
  <2> QED
    BY <2>1
<1>3. /\ n \in Nat /\ n <= Len(c) /\ Rising(U, n + 1, Len(c)) /\ Rising(A, n + 1, Len(c))
      /\ \A i \in 1..Len(U) : c[U[i]] = 0
      /\ \A i \in 1..Len(A) : c[A[i]] # 0 /\ SeenAll(c, A[i], si, sk)
      /\ \A i \in (n + 1)..Len(c) : c[i] = 0 => \E k \in 1..Len(U) : U[k] = i
      /\ \A i \in (n + 1)..Len(c) :
           c[i] # 0 /\ SeenAll(c, i, si, sk) => \E k \in 1..Len(A) : A[k] = i
      /\ \A i \in 1..n : c[i] # 0 => SeenAll(c, i, si, sk)
  BY DEF Answers
<1>b. \A i \in 1..Len(A) : A[i] \in 1..Len(c)
  <2> TAKE i \in 1..Len(A)
  <2>1. A[i] \in (n + 1)..Len(c) /\ n \in Nat /\ Len(c) \in Nat
    BY <1>1, <1>3 DEF Rising
  <2> QED
    BY <2>1
<1>4. /\ h.lo \in Nat /\ h.req \in Nat /\ si \in Nat /\ sk \in Nat /\ Len(c) \in Nat
      /\ si \in 0..Len(c) /\ c[h.req] \in Nat /\ (si # 0 => sk <= c[si])
  <2>1. h.lo \in Nat /\ h.req \in Nat
    BY <1>2 DEF Item
  <2>2. c \in Seq(Nat) /\ Progress(c, si, sk)
    BY <1>1
  <2>3. Len(c) \in Nat /\ c[h.req] \in Nat
    BY <1>2, <2>2
  <2>4. si \in 0..Len(c) /\ sk \in Nat /\ (si # 0 => sk <= c[si])
    BY <2>2 DEF Progress
  <2> QED
    BY <2>1, <2>3, <2>4
<1>5. c[h.req] # 0 /\ ~SeenAll(c, h.req, si, sk)
  <2>1. h.req = si => sk < c[si]
    BY <1>2, <1>4
  <2> QED
    BY <1>2, <1>4, <2>1 DEF SeenAll
<1>6. ASSUME NEW i \in 1..Len(c), c[i] # 0
      PROVE  SeenAll(c, i, h.req, h.lo) <=>
               SeenAll(c, i, si, sk) \/ (i = h.req /\ h.lo = c[h.req])
  <2>1. i <= si \/ i >= h.req
    BY <1>2, <1>4, <1>6
  <2>2. CASE i < si
    BY <1>2, <1>4, <2>2 DEF SeenAll
  <2>3. CASE i = si /\ i # h.req
    <3>1. sk = c[si] /\ i < h.req
      BY <1>2, <1>4, <2>3
    <3> QED
      BY <2>3, <3>1 DEF SeenAll
  <2>4. CASE i = h.req
    BY <1>5, <2>4 DEF SeenAll
  <2>5. CASE i > h.req
    BY <1>2, <1>4, <2>5 DEF SeenAll
  <2> QED
    BY <1>4, <2>1, <2>2, <2>3, <2>4, <2>5
<1>7. h.req \in (n + 1)..Len(c)
  BY <1>2, <1>3, <1>4, <1>5
<1>8. ASSUME NEW i \in 1..Len(A) PROVE A[i] < h.req
  <2>1. SeenAll(c, A[i], si, sk) /\ A[i] \in Nat /\ A[i] # h.req
    BY <1>3, <1>5, <1>b
  <2>2. A[i] <= si
    BY <1>4, <2>1 DEF SeenAll
  <2> QED
    BY <1>2, <1>4, <2>1, <2>2
<1>a. A \in Seq(Nat)
  BY <1>3 DEF Rising
<1>9. CASE h.lo = c[h.req]
  <2>1. B = Append(A, h.req)
    BY <1>2, <1>9
  <2>2. /\ Len(A) \in Nat /\ B[Len(A) + 1] = h.req /\ Len(B) = Len(A) + 1
        /\ \A j \in 1..Len(A) : j \in 1..Len(B) /\ B[j] = A[j]
        /\ \A i \in 1..Len(B) : i \in 1..Len(A) \/ i = Len(A) + 1
        /\ Len(A) + 1 \in 1..Len(B)
    <3>1. /\ Len(A) \in Nat /\ B[Len(A) + 1] = h.req /\ Len(B) = Len(A) + 1
          /\ \A j \in 1..Len(A) : j \in 1..Len(B) /\ B[j] = A[j]
          /\ \A i \in 1..Len(B) : i \in 1..Len(A) \/ i = Len(A) + 1
      BY <1>4, <1>a, <2>1, AppendCount
    <3> QED
      BY <3>1
  <2>3. Rising(B, n + 1, Len(c))
    <3>1. n + 1 \in Nat /\ n + 1 <= h.req /\ h.req <= Len(c) /\ Len(c) <= Len(c)
      BY <1>3, <1>4, <1>7
    <3>2. \A i \in 1..Len(A) : A[i] < h.req
      BY <1>8
    <3>3. Rising(A, n + 1, Len(c))
      BY <1>3
    <3>4. Rising(Append(A, h.req), n + 1, Len(c))
      BY <1>4, <3>1, <3>2, <3>3, RisingAppend
    <3> QED
      BY <2>1, <3>4
  <2>4. ASSUME NEW i \in 1..Len(B) PROVE c[B[i]] # 0 /\ SeenAll(c, B[i], h.req, h.lo)
    <3>1. CASE i \in 1..Len(A)
      BY <1>3, <1>6, <1>b, <2>2, <3>1
    <3>2. CASE i = Len(A) + 1
      BY <1>5, <1>9, <2>2, <3>2 DEF SeenAll
    <3> QED
      BY <2>2, <3>1, <3>2
  <2>5. ASSUME NEW i \in (n + 1)..Len(c), c[i] # 0, SeenAll(c, i, h.req, h.lo)
        PROVE  \E k \in 1..Len(B) : B[k] = i
    <3>0. i \in 1..Len(c)
      BY <1>3
    <3>1. CASE SeenAll(c, i, si, sk)
      <4>1. PICK k \in 1..Len(A) : A[k] = i
        BY <1>3, <2>5, <3>1
      <4> QED
        BY <2>2, <4>1
    <3>2. CASE i = h.req
      BY <2>2, <3>2
    <3> QED
      BY <1>6, <2>5, <3>0, <3>1, <3>2
  <2>6. ASSUME NEW i \in 1..n, c[i] # 0 PROVE SeenAll(c, i, h.req, h.lo)
    <3>1. i \in 1..Len(c)
      BY <1>3, <1>4
    <3> QED
      BY <1>3, <1>6, <2>6, <3>1
  <2> QED
    BY <1>3, <2>3, <2>4, <2>5, <2>6 DEF Answers
<1>10. CASE h.lo # c[h.req]
  <2>1. B = A
    BY <1>2, <1>10
  <2>2. ASSUME NEW i \in 1..Len(c), c[i] # 0
        PROVE  SeenAll(c, i, h.req, h.lo) <=> SeenAll(c, i, si, sk)
    BY <1>6, <1>10, <2>2
  <2>3. \A i \in 1..Len(A) : SeenAll(c, A[i], h.req, h.lo)
    BY <1>3, <1>b, <2>2
  <2>4. ASSUME NEW i \in (n + 1)..Len(c), c[i] # 0, SeenAll(c, i, h.req, h.lo)
        PROVE  \E k \in 1..Len(A) : A[k] = i
    <3>1. i \in 1..Len(c)
      BY <1>3
    <3> QED
      BY <1>3, <2>2, <2>4, <3>1
  <2>5. ASSUME NEW i \in 1..n, c[i] # 0 PROVE SeenAll(c, i, h.req, h.lo)
    <3>1. i \in 1..Len(c)
      BY <1>3, <1>4
    <3> QED
      BY <1>3, <2>2, <2>5, <3>1
  <2> QED
    BY <1>3, <2>1, <2>3, <2>4, <2>5 DEF Answers
<1> QED
  BY <1>9, <1>10

\* update_merge answers the list that is due.
LEMMA AnswersUpdate ==
  ASSUME NEW c \in Seq(Nat), NEW si \in Nat, NEW sk \in Nat, NEW U, NEW A, NEW n,
         Answers(c, si, sk, U, A, n)
  PROVE  /\ U # << >> /\ U[1] = n + 1 => Answers(c, si, sk, Tail(U), A, n + 1)
         /\ A # << >> /\ A[1] = n + 1 => Answers(c, si, sk, U, Tail(A), n + 1)
<1>3. /\ n \in Nat /\ n <= Len(c) /\ Rising(U, n + 1, Len(c)) /\ Rising(A, n + 1, Len(c))
      /\ \A i \in 1..Len(U) : c[U[i]] = 0
      /\ \A i \in 1..Len(A) : c[A[i]] # 0 /\ SeenAll(c, A[i], si, sk)
      /\ \A i \in (n + 1)..Len(c) : c[i] = 0 => \E k \in 1..Len(U) : U[k] = i
      /\ \A i \in (n + 1)..Len(c) :
           c[i] # 0 /\ SeenAll(c, i, si, sk) => \E k \in 1..Len(A) : A[k] = i
      /\ \A i \in 1..n : c[i] # 0 => SeenAll(c, i, si, sk)
  BY DEF Answers
<1>4. n + 1 \in Nat /\ Len(c) \in Nat /\ U \in Seq(Nat) /\ A \in Seq(Nat)
  BY <1>3 DEF Rising
<1>5. ASSUME U # << >>, U[1] = n + 1 PROVE Answers(c, si, sk, Tail(U), A, n + 1)
  <2>1. PICK V : V = Tail(U)
    OBVIOUS
  <2>2. /\ Rising(V, (n + 1) + 1, Len(c)) /\ n + 1 <= Len(c)
        /\ \A i \in 1..Len(V) : i + 1 \in 1..Len(U) /\ V[i] = U[i + 1]
        /\ \A i \in 1..Len(U) : U[i] # n + 1 => \E j \in 1..Len(V) : V[j] = U[i]
    BY <1>3, <1>4, <1>5, <2>1, RisingTail
  <2>3. c[n + 1] = 0
    <3>1. 1 \in 1..Len(U)
      BY <1>4, <1>5
    <3> QED
      BY <1>3, <1>5, <3>1
  <2>4. Rising(A, (n + 1) + 1, Len(c))
    <3>1. \A i \in 1..Len(A) : A[i] # n + 1
      BY <1>3, <2>3
    <3> QED
      BY <1>3, <1>4, <3>1, RisingLower
  <2>5. \A i \in 1..Len(V) : c[V[i]] = 0
    <3> TAKE i \in 1..Len(V)
    <3>1. i + 1 \in 1..Len(U) /\ V[i] = U[i + 1]
      BY <2>2
    <3>2. c[U[i + 1]] = 0
      BY <1>3, <3>1
    <3> QED
      BY <3>1, <3>2
  <2>6. ASSUME NEW i \in ((n + 1) + 1)..Len(c), c[i] = 0 PROVE \E k \in 1..Len(V) : V[k] = i
    <3>1. i \in (n + 1)..Len(c) /\ i # n + 1
      BY <1>3
    <3>2. PICK k \in 1..Len(U) : U[k] = i
      BY <1>3, <2>6, <3>1
    <3> QED
      BY <2>2, <3>1, <3>2
  <2>7. ASSUME NEW i \in ((n + 1) + 1)..Len(c), c[i] # 0, SeenAll(c, i, si, sk)
        PROVE  \E k \in 1..Len(A) : A[k] = i
    <3>1. i \in (n + 1)..Len(c)
      BY <1>3
    <3> QED
      BY <1>3, <2>7, <3>1
  <2>8. ASSUME NEW i \in 1..(n + 1), c[i] # 0 PROVE SeenAll(c, i, si, sk)
    <3>1. i \in 1..n
      BY <1>3, <2>3, <2>8
    <3> QED
      BY <1>3, <2>8, <3>1
  <2> QED
    BY <1>3, <1>4, <2>1, <2>2, <2>4, <2>5, <2>6, <2>7, <2>8 DEF Answers
<1>6. ASSUME A # << >>, A[1] = n + 1 PROVE Answers(c, si, sk, U, Tail(A), n + 1)
  <2>1. PICK B : B = Tail(A)
    OBVIOUS
  <2>2. /\ Rising(B, (n + 1) + 1, Len(c)) /\ n + 1 <= Len(c)
        /\ \A i \in 1..Len(B) : i + 1 \in 1..Len(A) /\ B[i] = A[i + 1]
        /\ \A i \in 1..Len(A) : A[i] # n + 1 => \E j \in 1..Len(B) : B[j] = A[i]
    BY <1>3, <1>4, <1>6, <2>1, RisingTail
  <2>3. c[n + 1] # 0 /\ SeenAll(c, n + 1, si, sk)
    <3>1. 1 \in 1..Len(A)
      BY <1>4, <1>6
    <3> QED
      BY <1>3, <1>6, <3>1
  <2>4. Rising(U, (n + 1) + 1, Len(c))
    <3>1. \A i \in 1..Len(U) : U[i] # n + 1
      BY <1>3, <2>3
    <3> QED
      BY <1>3, <1>4, <3>1, RisingLower
  <2>5. \A i \in 1..Len(B) : c[B[i]] # 0 /\ SeenAll(c, B[i], si, sk)
    <3> TAKE i \in 1..Len(B)
    <3>1. i + 1 \in 1..Len(A) /\ B[i] = A[i + 1]
      BY <2>2
    <3>2. c[A[i + 1]] # 0 /\ SeenAll(c, A[i + 1], si, sk)
      BY <1>3, <3>1
    <3> QED
      BY <3>1, <3>2
  <2>6. ASSUME NEW i \in ((n + 1) + 1)..Len(c), c[i] # 0, SeenAll(c, i, si, sk)
        PROVE  \E k \in 1..Len(B) : B[k] = i
    <3>1. i \in (n + 1)..Len(c) /\ i # n + 1
      BY <1>3
    <3>2. PICK k \in 1..Len(A) : A[k] = i
      BY <1>3, <2>6, <3>1
    <3> QED
      BY <2>2, <3>1, <3>2
  <2>7. ASSUME NEW i \in ((n + 1) + 1)..Len(c), c[i] = 0 PROVE \E k \in 1..Len(U) : U[k] = i
    <3>1. i \in (n + 1)..Len(c)
      BY <1>3
    <3> QED
      BY <1>3, <2>7, <3>1
  <2>8. ASSUME NEW i \in 1..(n + 1), c[i] # 0 PROVE SeenAll(c, i, si, sk)
    <3>1. i \in 1..n \/ i = n + 1
      BY <1>3
    <3> QED
      BY <1>3, <2>3, <2>8, <3>1
  <2> QED
    BY <1>3, <1>4, <2>1, <2>2, <2>4, <2>5, <2>6, <2>7, <2>8 DEF Answers
<1> QED
  BY <1>5, <1>6

\* Two slots stand for no place: they are those of the two kinds of answers.
LEMMA PlacesEnd == \A q \in Places : q # 14 /\ q # 15
BY DEF Places

\* Not more lists are unanswered than slots, so that the ids tell them apart.
LEMMA FewRequests ==
  ASSUME NEW P, NEW c, NEW si, NEW sk, NEW cd, NEW G, NEW bn, NEW cb, NEW NB,
         Way(P, c, si, sk, cd, G, bn, cb, NB), NEW D \in Nat, \A q \in Places : Len(P[q]) <= D,
         NEW U, NEW A, NEW n, Answers(c, si, sk, U, A, n), Len(U) <= D, Len(A) <= D
  PROVE  Len(c) <= n + 15 * D
<1>1. /\ Placing(P) /\ c \in Seq(Nat) /\ Located(P, c)
      /\ Progress(c, si, sk) /\ Present(P, c, si, sk)
  BY DEF Way
<1>2. /\ n \in Nat /\ U \in Seq(Nat) /\ A \in Seq(Nat)
      /\ \A i \in (n + 1)..Len(c) : c[i] = 0 => \E k \in 1..Len(U) : U[k] = i
      /\ \A i \in (n + 1)..Len(c) :
           c[i] # 0 /\ SeenAll(c, i, si, sk) => \E k \in 1..Len(A) : A[k] = i
  BY DEF Answers, Rising
<1>3. PICK f : f = [s \in (1..15) \X (1..D) |->
                      IF s[1] = 14 THEN U[s[2]]
                      ELSE IF s[1] = 15 THEN A[s[2]] ELSE P[s[1]][s[2]].req]
  OBVIOUS
<1>4. ASSUME NEW i \in (n + 1)..((Len(c) + 1) - 1) PROVE \E s \in (1..15) \X (1..D) : f[s] = i
  <2>0. i \in (n + 1)..Len(c) /\ i \in 1..Len(c) /\ c[i] \in Nat /\ i \in Nat
    BY <1>1, <1>2
  <2>1. CASE c[i] = 0
    <3>1. PICK k \in 1..Len(U) : U[k] = i
      BY <1>2, <2>0, <2>1
    <3>2. <<14, k>> \in (1..15) \X (1..D)
      BY <1>2
    <3>3. f[<<14, k>>] = i
      BY <1>3, <3>1, <3>2
    <3> QED
      BY <3>2, <3>3
  <2>2. CASE c[i] # 0 /\ SeenAll(c, i, si, sk)
    <3>1. PICK k \in 1..Len(A) : A[k] = i
      BY <1>2, <2>0, <2>2
    <3>2. <<15, k>> \in (1..15) \X (1..D)
      BY <1>2
    <3>3. f[<<15, k>>] = i
      BY <1>3, <3>1, <3>2
    <3> QED
      BY <3>2, <3>3
  <2>3. CASE c[i] # 0 /\ ~SeenAll(c, i, si, sk)
    <3>1. c[i] \in 1..c[i] /\ After(i, c[i], si, sk)
      BY <1>1, <2>0, <2>3 DEF After, SeenAll, Progress
    <3>2. PICK q \in Places : \E j \in 1..Len(P[q]) : Holds(P[q][j], i, c[i])
      BY <1>1, <2>0, <3>1 DEF Present
    <3>3. PICK j \in 1..Len(P[q]) : P[q][j].req = i
      BY <3>2 DEF Holds
    <3>4. <<q, j>> \in (1..15) \X (1..D)
      BY <1>1, SlotOf
    <3>5. f[<<q, j>>] = i
      <4>1. q # 14 /\ q # 15
        BY <3>2, PlacesEnd
      <4> QED
        BY <1>3, <3>3, <3>4, <4>1
    <3> QED
      BY <3>4, <3>5
  <2> QED
    BY <2>1, <2>2, <2>3
<1>5. Len(c) + 1 <= (n + 1) + 15 * D
  <2>1. n + 1 \in Nat /\ Len(c) + 1 \in Nat
    BY <1>1, <1>2
  <2> QED
    BY <1>4, <2>1, CountSlots
<1> QED
  BY <1>1, <1>2, <1>5

-----------------------------------------------------------------------------
(***************************************************************************)
(* The words of a list and the ids, as the code computes them.             *)
(***************************************************************************)

\* The address of the word an entry is in.
Align(a) == Burst!Align(a)

\* How many entries k words have.
Off(k) == k * Word

\* Words have entries.
LEMMA OffType ==
  ASSUME Burst!BurstAssumption
  PROVE  Off(0) = 0 /\ Off(1) = Word /\ Word \in Nat \ {0} /\ \A k \in Nat : Off(k) \in Nat
BY DEF Off, Burst!BurstAssumption

\* Words follow each other.
LEMMA OffAdd ==
  ASSUME Burst!BurstAssumption, NEW j \in Nat, NEW k \in Nat
  PROVE  Off(j + k) = Off(j) + Off(k)
BY DEF Off, Burst!BurstAssumption

\* Words do not overlap.
LEMMA OffLess ==
  ASSUME Burst!BurstAssumption, NEW j \in Nat, NEW k \in Nat, j < k
  PROVE  Off(j) + Word <= Off(k)
<1>1. k = j + (1 + (k - j - 1)) /\ k - j - 1 \in Nat /\ 1 + (k - j - 1) \in Nat
  OBVIOUS
<1>2. Off(k) = Off(j) + (Off(1) + Off(k - j - 1))
  BY <1>1, OffAdd
<1> QED
  BY <1>1, <1>2, OffType

\* An address is the offset in a word.
LEMMA DivMod ==
  ASSUME Burst!BurstAssumption, NEW a \in Nat
  PROVE  /\ a \div Word \in Nat /\ a % Word \in Nat /\ a % Word < Word
         /\ a = Off(a \div Word) + (a % Word)
BY DEF Off, Burst!BurstAssumption

\* The word of an address.
LEMMA AlignIs ==
  ASSUME Burst!BurstAssumption, NEW q \in Nat, NEW r \in Nat, r < Word
  PROVE  Align(Off(q) + r) = Off(q)
<1>1. Off(q) + r \in Nat
  BY OffType
<1>2. PICK p \in Nat, s \in Nat : s < Word /\ Off(q) + r = Off(p) + s /\ s = (Off(q) + r) % Word
  BY <1>1, DivMod
<1>0. Off(q) \in Nat /\ Off(p) \in Nat /\ Word \in Nat
  BY OffType
<1>3. p = q
  <2>1. p < q => Off(p) + Word <= Off(q)
    BY OffLess
  <2>2. q < p => Off(q) + Word <= Off(p)
    BY OffLess
  <2> QED
    BY <1>0, <1>2, <2>1, <2>2
<1>4. s = r
  BY <1>0, <1>2, <1>3
<1> QED
  BY <1>0, <1>2, <1>4 DEF Align, Burst!Align

\* How many words a list has, and the address of its word k.
Count(l) == IF l[2] = 0 THEN 0 ELSE (l[1] + l[2] - 1 - Align(l[1])) \div Word + 1
Addr(l, k) == Align(l[1]) + Off(k - 1)

\* The words of a list.
LEMMA ListShape ==
  ASSUME Burst!BurstAssumption, NEW l \in Nat \X Nat, l[2] # 0
  PROVE  \E q \in Nat, c \in Nat :
           /\ c # 0 /\ Align(l[1]) = Off(q) /\ Count(l) = c
           /\ Off(q) <= l[1] /\ l[1] < Off(q) + Word
           /\ Off(q + c) < l[1] + l[2] + Word /\ l[1] + l[2] <= Off(q + c)
           /\ Align(l[1] + l[2] - 1) = Off(q + (c - 1))
<1>1. l[1] \in Nat /\ l[2] \in Nat \ {0}
  OBVIOUS
<1>2. PICK q \in Nat, r \in Nat : r < Word /\ l[1] = Off(q) + r /\ Align(l[1]) = Off(q)
  <2>1. PICK q \in Nat, r \in Nat : r < Word /\ l[1] = Off(q) + r
    BY <1>1, DivMod
  <2> QED
    BY <2>1, AlignIs
<1>3. PICK n : n = l[1] + l[2] - 1 - Off(q)
  OBVIOUS
<1>0. Off(q) \in Nat /\ Word \in Nat
  BY OffType
<1>4. n \in Nat
  BY <1>0, <1>1, <1>2, <1>3
<1>5. PICK d \in Nat, s \in Nat : s < Word /\ n = Off(d) + s /\ d = n \div Word
  BY <1>4, DivMod
<1>6. Count(l) = d + 1
  BY <1>1, <1>2, <1>3, <1>5 DEF Count
<1>a. Off(d) \in Nat /\ Off(q + d) = Off(q) + Off(d)
  BY OffType, OffAdd
<1>7. l[1] + l[2] - 1 = Off(q + d) + s
  <2>1. PICK a \in Nat, z \in Nat : a = l[1] /\ z = l[2]
    BY <1>1
  <2>2. a + z - 1 - Off(q) = Off(d) + s
    BY <1>3, <1>5, <2>1
  <2>3. a + z - 1 = Off(q) + Off(d) + s
    BY <1>0, <1>a, <2>2
  <2> QED
    BY <1>a, <2>1, <2>3
<1>8. Align(l[1] + l[2] - 1) = Off(q + d)
  <2>1. q + d \in Nat
    OBVIOUS
  <2> QED
    BY <1>5, <1>7, <2>1, AlignIs
<1>9. Off(q + (d + 1)) = Off(q + d) + Word
  <2>1. PICK e \in Nat : e = q + d
    OBVIOUS
  <2>2. Off(e + 1) = Off(e) + Off(1)
    BY OffAdd
  <2>3. q + (d + 1) = e + 1
    BY <2>1
  <2> QED
    BY <2>1, <2>2, <2>3, OffType
<1>b. q + d \in Nat /\ d + 1 \in Nat /\ d + 1 # 0 /\ (d + 1) - 1 = d /\ Off(q + d) \in Nat
  BY OffType
<1> WITNESS q \in Nat, d + 1 \in Nat
<1> QED
  BY <1>0, <1>1, <1>2, <1>5, <1>6, <1>7, <1>8, <1>9, <1>b

\* Words of a list are Word apart.
LEMMA AddrFacts ==
  ASSUME Burst!BurstAssumption, NEW l \in Nat \X Nat
  PROVE  /\ Addr(l, 1) = Align(l[1])
         /\ \A k \in Nat : Addr(l, k + 1) \in Nat
         /\ \A k, n \in Nat : k # 0 => Addr(l, k + n) = Addr(l, k) + n * Word
         /\ \A k, m \in Nat : k # 0 /\ k < m => Addr(l, k) + Word <= Addr(l, m)
<1>1. Align(l[1]) \in Nat
  <2>1. l[1] \in Nat
    OBVIOUS
  <2>2. PICK q \in Nat, r \in Nat : r < Word /\ l[1] = Off(q) + r
    BY <2>1, DivMod
  <2> QED
    BY <2>2, AlignIs, OffType
<1>2. \A k \in Nat : Addr(l, k + 1) = Align(l[1]) + Off(k) /\ Off(k) \in Nat
  BY OffType DEF Addr
<1>3. ASSUME NEW k \in Nat, NEW n \in Nat, k # 0 PROVE Addr(l, k + n) = Addr(l, k) + n * Word
  <2>1. PICK j \in Nat : j = k - 1
    BY <1>3
  <2>2. k = j + 1 /\ k + n = (j + n) + 1
    BY <1>3, <2>1
  <2>3. Off(j + n) = Off(j) + Off(n) /\ Off(j) \in Nat /\ Off(n) \in Nat
    BY OffAdd, OffType
  <2>4. Addr(l, k + n) = Align(l[1]) + Off(j + n) /\ Addr(l, k) = Align(l[1]) + Off(j)
    BY <1>2, <2>2
  <2>5. Off(n) = n * Word
    BY DEF Off
  <2> QED
    BY <1>1, <2>3, <2>4, <2>5
<1>4. ASSUME NEW k \in Nat, NEW m \in Nat, k # 0, k < m PROVE Addr(l, k) + Word <= Addr(l, m)
  <2>1. PICK j \in Nat, i \in Nat : j = k - 1 /\ i = m - 1
    BY <1>4
  <2>2. k = j + 1 /\ m = i + 1 /\ j < i
    BY <1>4, <2>1
  <2>3. Off(j) + Word <= Off(i)
    BY <2>2, OffLess
  <2>4. Addr(l, m) = Align(l[1]) + Off(i) /\ Addr(l, k) = Align(l[1]) + Off(j)
    BY <1>2, <2>2
  <2> QED
    BY <1>1, <1>2, <2>3, <2>4, OffType
<1>5. Addr(l, 1) = Align(l[1])
  <2>1. Addr(l, 0 + 1) = Align(l[1]) + Off(0)
    BY <1>2
  <2> QED
    BY <1>1, <2>1, OffType
<1>6. \A k \in Nat : Addr(l, k + 1) \in Nat
  <2> TAKE k \in Nat
  <2>1. Addr(l, k + 1) = Align(l[1]) + Off(k) /\ Off(k) \in Nat
    BY <1>2
  <2> QED
    BY <1>1, <2>1
<1> QED
  BY <1>3, <1>4, <1>5, <1>6

\* What vd_scheduler and cmd_generator compute of a list, by its words: whether it lies in
\* one word, where it begins and ends in its first and last one, and the end address.
LEMMA ListFacts ==
  ASSUME Burst!BurstAssumption, NEW l \in Nat \X Nat, l[2] # 0
  PROVE  \E c \in Nat :
           /\ c # 0 /\ c = Count(l)
           /\ Align(l[1]) = Align(l[1] + l[2] - 1) <=> c = 1
           /\ Addr(l, 1) <= l[1] /\ l[1] < Addr(l, 1) + Word
           /\ Addr(l, c) < l[1] + l[2] /\ l[1] + l[2] <= Addr(l, c + 1)
           /\ \A vd : vd.start = l[1] /\ vd.size = l[2] => Burst!EndAddr(vd) = Addr(l, c + 1)
<1>1. PICK q \in Nat, c \in Nat :
           /\ c # 0 /\ Align(l[1]) = Off(q) /\ Count(l) = c
           /\ Off(q) <= l[1] /\ l[1] < Off(q) + Word
           /\ Off(q + c) < l[1] + l[2] + Word /\ l[1] + l[2] <= Off(q + c)
           /\ Align(l[1] + l[2] - 1) = Off(q + (c - 1))
  BY ListShape
<1>2. PICK d \in Nat : c = d + 1
  <2>1. c - 1 \in Nat /\ c = (c - 1) + 1
    BY <1>1
  <2> QED
    BY <2>1
<1>3. PICK e \in Nat : e = q + d
  OBVIOUS
<1>4. q + c = e + 1 /\ q + (c - 1) = e
  BY <1>2, <1>3
<1>5. /\ Off(e + 1) = Off(e) + Word /\ Off(e) = Off(q) + Off(d) /\ Off(c) = Off(d) + Word
      /\ Off(e) \in Nat /\ Off(q) \in Nat /\ Off(d) \in Nat /\ Word \in Nat \ {0}
  <2>1. Off(e + 1) = Off(e) + Off(1) /\ Off(q + d) = Off(q) + Off(d)
        /\ Off(d + 1) = Off(d) + Off(1)
    BY OffAdd
  <2> QED
    BY <1>2, <1>3, <2>1, OffType
<1>6. Addr(l, 1) = Off(q) /\ Addr(l, c) = Off(e) /\ Addr(l, c + 1) = Off(e + 1)
  <2>1. Addr(l, 1) = Off(q)
    BY <1>1, AddrFacts
  <2>2. (c + 1) - 1 = c /\ c - 1 = d
    BY <1>2
  <2>3. Addr(l, c + 1) = Off(q) + Off(c) /\ Addr(l, c) = Off(q) + Off(d)
    BY <1>1, <2>2 DEF Addr
  <2> QED
    BY <1>5, <2>1, <2>3
<1>7. Align(l[1]) = Align(l[1] + l[2] - 1) <=> c = 1
  <2>1. Off(d) = 0 <=> d = 0
    <3>1. 0 < d => Off(0) + Word <= Off(d)
      BY OffLess
    <3> QED
      BY <1>5, <3>1, OffType
  <2> QED
    BY <1>1, <1>2, <1>4, <1>5, <2>1
<1>8. PICK z \in Nat : z = l[1] + l[2]
  OBVIOUS
<1>9. Off(e) < z /\ z <= Off(e) + Word
  BY <1>1, <1>4, <1>5, <1>8
<1>10. (IF Align(z) = z THEN z ELSE Align(z) + Word) = Off(e + 1)
  <2>1. CASE z = Off(e + 1)
    <3>1. Align(Off(e + 1) + 0) = Off(e + 1)
      BY <1>5, AlignIs
    <3>2. Align(z) = z
      BY <1>5, <2>1, <3>1
    <3> QED
      BY <2>1, <3>2
  <2>2. CASE z # Off(e + 1)
    <3>1. PICK r \in Nat : r = z - Off(e)
      BY <1>5, <1>9
    <3>2. r < Word /\ r # 0 /\ z = Off(e) + r
      BY <1>5, <1>9, <2>2, <3>1
    <3>3. Align(z) = Off(e)
      BY <3>2, AlignIs
    <3> QED
      BY <1>5, <3>2, <3>3
  <2> QED
    BY <2>1, <2>2
<1>11. ASSUME NEW vd, vd.start = l[1], vd.size = l[2]
       PROVE  Burst!EndAddr(vd) = Addr(l, c + 1)
  BY <1>6, <1>8, <1>10, <1>11 DEF Burst!EndAddr, Align, Burst!Align
<1>12. /\ c = Count(l)
       /\ Addr(l, 1) <= l[1] /\ l[1] < Addr(l, 1) + Word
       /\ Addr(l, c) < l[1] + l[2] /\ l[1] + l[2] <= Addr(l, c + 1)
  BY <1>1, <1>5, <1>6, <1>8, <1>9
<1> WITNESS c \in Nat
<1> QED
  BY <1>1, <1>7, <1>11, <1>12

\* The words of the list that BurstService answers with.
LEMMA ListWords ==
  ASSUME NEW l
  PROVE  Burst!Service!WordsOf(l) = [k \in 1..Count(l) |-> Addr(l, k)]
<1>1. CASE l[2] = 0
  <2>1. Burst!Service!WordsOf(l) = << >> /\ Count(l) = 0
    BY <1>1 DEF Burst!Service!WordsOf, Count
  <2>2. 1..0 = {}
    OBVIOUS
  <2>3. << >> = [k \in {} |-> Addr(l, k)]
    OBVIOUS
  <2> QED
    BY <2>1, <2>2, <2>3
<1>2. CASE l[2] # 0
  <2>1. PICK first : first = l[1] - (l[1] % Word)
    OBVIOUS
  <2>2. PICK c : c = (l[1] + l[2] - 1 - first) \div Word + 1
    OBVIOUS
  <2>3. Align(l[1]) = first /\ Count(l) = c
    BY <1>2, <2>1, <2>2 DEF Count, Align, Burst!Align
  <2>4. Burst!Service!WordsOf(l) = [k \in 1..c |-> first + (k - 1) * Word]
    BY <1>2, <2>1, <2>2 DEF Burst!Service!WordsOf
  <2>5. [k \in 1..Count(l) |-> Addr(l, k)] = [k \in 1..c |-> first + (k - 1) * Word]
    BY <2>3 DEF Addr, Off
  <2> QED
    BY <2>4, <2>5
<1> QED
  BY <1>1, <1>2

\* What is left of a list from word k on, and what cmd_generator makes of it.
LEMMA CutFacts ==
  ASSUME Burst!BurstAssumption, NEW l \in Nat \X Nat, l[2] # 0,
         NEW k \in Nat, k # 0, NEW c \in Nat, c = Count(l), k <= c
  PROVE  /\ Addr(l, c + 1) >= Addr(l, k) + MaxLen * Word <=> k + MaxLen <= c + 1
         /\ \A n \in Nat : k + n <= c + 1 =>
              (Addr(l, k) + n * Word = Addr(l, c + 1) <=> k + n = c + 1)
<1>1. \A n \in Nat : Addr(l, k + n) = Addr(l, k) + n * Word
  BY AddrFacts
<1>2. \A i, j \in Nat : i # 0 /\ i < j => Addr(l, i) + Word <= Addr(l, j)
  BY AddrFacts
<1>3. \A i \in Nat : i # 0 => Addr(l, i) \in Nat
  <2> TAKE i \in Nat
  <2> HAVE i # 0
  <2>1. PICK j \in Nat : i = j + 1
    <3>1. i - 1 \in Nat /\ i = (i - 1) + 1
      OBVIOUS
    <3> QED
      BY <3>1
  <2>2. Addr(l, j + 1) \in Nat
    BY AddrFacts
  <2> QED
    BY <2>1, <2>2
<1>4. Word \in Nat /\ Word > 0 /\ MaxLen \in Nat
  BY DEF Burst!BurstAssumption
<1>5. ASSUME NEW i \in Nat, NEW j \in Nat, i # 0, j # 0
      PROVE  (Addr(l, i) <= Addr(l, j) <=> i <= j) /\ (Addr(l, i) = Addr(l, j) <=> i = j)
  <2>1. Addr(l, i) \in Nat /\ Addr(l, j) \in Nat
    BY <1>3, <1>5
  <2>2. i < j => Addr(l, i) + Word <= Addr(l, j)
    BY <1>2, <1>5
  <2>3. j < i => Addr(l, j) + Word <= Addr(l, i)
    BY <1>2, <1>5
  <2> QED
    BY <1>4, <2>1, <2>2, <2>3
<1>6. k + MaxLen \in Nat /\ k + MaxLen # 0 /\ c + 1 \in Nat /\ c + 1 # 0
  BY <1>4
<1>7. Addr(l, c + 1) >= Addr(l, k) + MaxLen * Word <=> k + MaxLen <= c + 1
  <2>1. Addr(l, k + MaxLen) = Addr(l, k) + MaxLen * Word
    BY <1>1, <1>4
  <2>2. Addr(l, k + MaxLen) <= Addr(l, c + 1) <=> k + MaxLen <= c + 1
    BY <1>5, <1>6
  <2>3. Addr(l, k + MaxLen) \in Nat /\ Addr(l, c + 1) \in Nat
    BY <1>3, <1>6
  <2> QED
    BY <2>1, <2>2, <2>3
<1>8. ASSUME NEW n \in Nat, k + n <= c + 1
      PROVE  Addr(l, k) + n * Word = Addr(l, c + 1) <=> k + n = c + 1
  <2>1. Addr(l, k + n) = Addr(l, k) + n * Word
    BY <1>1
  <2>2. k + n \in Nat /\ k + n # 0
    OBVIOUS
  <2>3. Addr(l, k + n) = Addr(l, c + 1) <=> k + n = c + 1
    BY <1>5, <1>6, <2>2
  <2> QED
    BY <2>1, <2>3
<1> QED
  BY <1>7, <1>8

\* The id of the m-th list or command.
Id(b, m) == (b + m) % IdRange

\* The remainder of a number that is a multiple and a rest.
LEMMA ModIs ==
  ASSUME NEW n \in Nat \ {0}, NEW q \in Nat, NEW r \in Nat, r < n
  PROVE  (q * n + r) % n = r
OBVIOUS

\* A number is a multiple and a rest.
LEMMA ModSplit ==
  ASSUME NEW n \in Nat \ {0}, NEW a \in Nat
  PROVE  \E q \in Nat, r \in Nat : r < n /\ a = q * n + r /\ r = a % n
<1>1. a \div n \in Nat /\ a % n \in Nat /\ a % n < n /\ a = (a \div n) * n + (a % n)
  OBVIOUS
<1> QED
  BY <1>1

\* The successor of a remainder.
LEMMA ModNext ==
  ASSUME NEW n \in Nat \ {0}, NEW a \in Nat
  PROVE  ((a % n) + 1) % n = (a + 1) % n
<1>1. PICK q \in Nat, r \in Nat : r < n /\ a = q * n + r /\ r = a % n
  BY ModSplit
<1>2. CASE r + 1 < n
  <2>1. (q * n + (r + 1)) % n = r + 1 /\ (0 * n + (r + 1)) % n = r + 1
    BY <1>2, ModIs
  <2>2. q * n + (r + 1) = a + 1 /\ 0 * n + (r + 1) = r + 1
    BY <1>1
  <2> QED
    BY <1>1, <2>1, <2>2
<1>3. CASE r + 1 = n
  <2>1. ((q + 1) * n + 0) % n = 0 /\ (1 * n + 0) % n = 0
    BY ModIs
  <2>2. (q + 1) * n + 0 = q * n + n /\ 1 * n + 0 = n
    OBVIOUS
  <2>3. a + 1 = q * n + n
    <3>1. PICK m \in Nat : m = q * n
      OBVIOUS
    <3>2. a = m + r
      BY <1>1, <3>1
    <3>3. a + 1 = m + n
      BY <1>3, <3>2
    <3> QED
      BY <3>1, <3>3
  <2> QED
    BY <1>1, <1>3, <2>1, <2>2, <2>3
<1> QED
  BY <1>1, <1>2, <1>3

\* Numbers less than n apart have different remainders by n.
LEMMA ModApart ==
  ASSUME NEW n \in Nat \ {0}, NEW a \in Nat, NEW c \in Nat, a <= c, c < a + n, a % n = c % n
  PROVE  a = c
<1>1. PICK q \in Nat, r \in Nat : r < n /\ a = q * n + r /\ r = a % n
  BY ModSplit
<1>2. PICK p \in Nat, s \in Nat : s < n /\ c = p * n + s /\ s = c % n
  BY ModSplit
<1>3. r = s
  BY <1>1, <1>2
<1>4. ASSUME p > q PROVE FALSE
  <2>1. PICK d \in Nat : p = q + 1 + d
    <3>1. p - q - 1 \in Nat /\ p = q + 1 + (p - q - 1)
      BY <1>4
    <3> QED
      BY <3>1
  <2>2. p * n = q * n + n + d * n /\ d * n \in Nat /\ q * n \in Nat
    BY <2>1
  <2> QED
    BY <1>1, <1>2, <1>3, <2>2
<1>5. ASSUME p < q PROVE FALSE
  <2>1. PICK d \in Nat : q = p + 1 + d
    <3>1. q - p - 1 \in Nat /\ q = p + 1 + (q - p - 1)
      BY <1>5
    <3> QED
      BY <3>1
  <2>2. q * n = p * n + n + d * n /\ d * n \in Nat /\ p * n \in Nat
    BY <2>1
  <2> QED
    BY <1>1, <1>2, <1>3, <2>2
<1>6. p = q
  BY <1>4, <1>5
<1> QED
  BY <1>1, <1>2, <1>3, <1>6

\* Ids go round, never reach the dummy id, and are different for lists less than IdRange
\* apart.
LEMMA IdFacts ==
  ASSUME Burst!BurstAssumption, NEW b \in Base, NEW m \in Nat
  PROVE  /\ Id(b, m) \in 0..(IdRange - 1) /\ Id(b, m) # Burst!Dummy
         /\ Burst!Succ(Id(b, m)) = Id(b, m + 1)
         /\ Id(b, 0) = b
         /\ \A k \in Nat : m <= k /\ k < m + IdRange /\ Id(b, k) = Id(b, m) => k = m
<1>1. b \in Nat /\ b < IdRange /\ IdRange \in Nat \ {0}
  BY DEF Burst!BurstAssumption
<1>2. b + m \in Nat
  BY <1>1
<1>3. (b + m) % IdRange \in 0..(IdRange - 1)
  <2>1. PICK q \in Nat, r \in Nat : r < IdRange /\ r = (b + m) % IdRange
    BY <1>1, <1>2, ModSplit
  <2> QED
    BY <1>1, <2>1
<1>4. (((b + m) % IdRange) + 1) % IdRange = ((b + m) + 1) % IdRange
  BY <1>1, <1>2, ModNext
<1>5. (b + m) + 1 = b + (m + 1)
  BY <1>1
<1>6. ASSUME NEW k \in Nat, m <= k, k < m + IdRange, Id(b, k) = Id(b, m)
      PROVE  k = m
  <2>1. b + k \in Nat /\ b + m <= b + k /\ b + k < (b + m) + IdRange
    BY <1>1, <1>6
  <2>2. b + m = b + k
    BY <1>1, <1>2, <1>6, <2>1, ModApart DEF Id
  <2> QED
    BY <1>1, <2>2
<1>7. Id(b, 0) = b
  <2>1. (0 * IdRange + b) % IdRange = b
    BY <1>1, ModIs
  <2>2. 0 * IdRange + b = b + 0
    BY <1>1
  <2> QED
    BY <2>1, <2>2 DEF Id
<1>8. Id(b, m) # Burst!Dummy
  BY <1>1, <1>3 DEF Id, Burst!Dummy
<1> QED
  BY <1>3, <1>4, <1>5, <1>6, <1>7, <1>8 DEF Id, Burst!Succ

-----------------------------------------------------------------------------
(***************************************************************************)
(* The streams, and what the values they carry say.                        *)
(***************************************************************************)

\* The lists a round may ask for.
Askable == UNION {{r[i] : i \in DOMAIN r} : r \in BurstRounds}

\* A list that fills a long burst begins with a memory word, and ends with one if it ends
\* in a long burst: then the mask of a long burst hides nothing of it and shows nothing else.
WholeBursts(l) ==
  Count(l) >= MaxLen =>
    /\ Addr(l, 1) = l[1]
    /\ \A q \in Nat : Count(l) = q * MaxLen => Addr(l, Count(l) + 1) = l[1] + l[2]
\* Every list a round may ask for is of that kind.
Exact == \A l \in Askable : WholeBursts(l)

\* The entries of a list in its word k, and all of them.
EntriesOf(l, k) == {a \in Addr(l, k)..(Addr(l, k) + Word - 1) : l[1] <= a /\ a < l[1] + l[2]}
AllEntries(l) == l[1]..(l[1] + l[2] - 1)

\* What vd_scheduler knows of request i when it sends it on.
Keys(L, c, b, bn) ==
  [i \in 1..Len(L) |-> [l |-> L[i].list, last |-> L[i].last, c |-> c[i],
                        id |-> Id(b, i - 1), burst |-> Id(b, bn[i])]]

\* What cmd_generator is told of a list.
ListIs(v, k) ==
  v.start = k.l[1] /\ v.size = k.l[2] /\ v.id = k.id /\ v.burst = k.burst /\ v.last = k.last

\* A command of a list that fetches the words of item x.
CmdIs(v, x, k, b) ==
  /\ v.addr = Addr(k.l, x.lo) /\ v.len = x.hi - x.lo + 1 /\ v.len <= MaxLen
  /\ v.id = k.id /\ v.burst = k.burst
  /\ v.ends <=> x.hi = k.c
  /\ k.c # 1 => v.dyn = Id(b, x.num)
  /\ v.ends => v.last = k.last
  /\ Exact => \A j \in 0..(x.hi - x.lo) : Burst!Unmasked(v, j) = EntriesOf(k.l, x.lo + j)

\* The word of a list that is item x.
WordIs(v, x, k, b) ==
  /\ v.addr = Addr(k.l, x.lo) /\ v.id = k.id /\ v.burst = k.burst
  /\ v.ends <=> x.hi = k.c
  /\ v.frees <=> x.hi = x.top
  /\ k.c # 1 => v.dyn = Id(b, x.num)
  /\ v.ends => v.last = k.last
  /\ Exact => v.entries = EntriesOf(k.l, x.lo)

\* The answer to a list.
AnswerIs(v, k) ==
  /\ v.id = k.id /\ v.last = k.last /\ v.words = [i \in 1..k.c |-> Addr(k.l, i)]
  /\ Exact => v.entries = AllEntries(k.l)

\* A value of a stream stands for an item, or for the list it answers.
Like(kind, v, x, K, b) ==
  /\ kind = "list" => ListIs(v, K[x.req])
  /\ kind = "cmd" => CmdIs(v, x, K[x.req], b)
  /\ kind = "word" => WordIs(v, x, K[x.req], b)
  /\ kind = "answer" => AnswerIs(v, K[x])

\* The list, or command, that makes the engines return.
StopList ==
  [start |-> 0, size |-> Burst!DummySize, id |-> Burst!Dummy, burst |-> 0, last |-> TRUE]
Stops(kind, v) == IF kind = "list" THEN v = StopList ELSE kind = "cmd" /\ v.id = Burst!Dummy

\* A stream carries the items t and then d dummies.
Stream(kind, s, t, d, K, b) ==
  /\ IsSeq(s) /\ Len(s) = Len(t) + d /\ d \in {0, 1}
  /\ \A i \in 1..Len(t) : Like(kind, s[i], t[i], K, b)
  /\ d = 1 => Stops(kind, s[Len(t) + 1])

\* Streams, element by element.
LEMMA SeqAt ==
  ASSUME NEW s, IsSeq(s)
  PROVE  /\ Len(s) \in Nat /\ (s = << >> <=> Len(s) = 0)
         /\ s # << >> => /\ Head(s) = s[1] /\ IsSeq(Tail(s)) /\ Len(Tail(s)) = Len(s) - 1
                         /\ \A i \in 1..Len(Tail(s)) : Tail(s)[i] = s[i + 1]
         /\ \A v : /\ IsSeq(Append(s, v)) /\ Len(Append(s, v)) = Len(s) + 1
                   /\ Append(s, v)[Len(s) + 1] = v
                   /\ \A i \in 1..Len(s) : Append(s, v)[i] = s[i]
<1>1. PICK S : s \in Seq(S)
  BY DEF IsSeq
<1>2. /\ Len(s) \in Nat /\ (s = << >> <=> Len(s) = 0)
  BY <1>1
<1>3. ASSUME s # << >>
      PROVE  /\ Head(s) = s[1] /\ IsSeq(Tail(s)) /\ Len(Tail(s)) = Len(s) - 1
             /\ \A i \in 1..Len(Tail(s)) : Tail(s)[i] = s[i + 1]
  <2>1. Tail(s) \in Seq(S) /\ Head(s) = s[1] /\ Len(Tail(s)) = Len(s) - 1
        /\ \A i \in 1..Len(Tail(s)) : Tail(s)[i] = s[i + 1]
    BY <1>1, <1>3, TailAt
  <2> QED
    BY <2>1 DEF IsSeq
<1>4. ASSUME NEW v
      PROVE  /\ IsSeq(Append(s, v)) /\ Len(Append(s, v)) = Len(s) + 1
             /\ Append(s, v)[Len(s) + 1] = v
             /\ \A i \in 1..Len(s) : Append(s, v)[i] = s[i]
  <2>1. s \in Seq(S \cup {v}) /\ v \in S \cup {v}
    BY <1>1
  <2>2. /\ Append(s, v) \in Seq(S \cup {v}) /\ Len(Append(s, v)) = Len(s) + 1
        /\ \A i \in 1..Len(s) : i \in 1..Len(Append(s, v)) /\ Append(s, v)[i] = s[i]
        /\ Append(s, v)[Len(s) + 1] = v
    BY <2>1, AppendAt
  <2> QED
    BY <2>2 DEF IsSeq
<1> QED
  BY <1>2, <1>3, <1>4

\* A stream is as long as the items it carries and the dummy.
LEMMA StreamSize ==
  ASSUME NEW kind, NEW T, NEW t \in Seq(T), NEW s, NEW d, NEW K, NEW b,
         Stream(kind, s, t, d, K, b)
  PROVE  /\ Len(s) \in Nat /\ Len(t) \in Nat /\ Len(t) <= Len(s) /\ IsSeq(s)
         /\ s = << >> <=> t = << >> /\ d = 0
<1>1. IsSeq(s) /\ Len(s) = Len(t) + d /\ d \in {0, 1}
  BY DEF Stream
<1>2. Len(s) \in Nat /\ (s = << >> <=> Len(s) = 0)
  BY <1>1, SeqAt
<1>3. Len(t) \in Nat /\ (t = << >> <=> Len(t) = 0)
  OBVIOUS
<1> QED
  BY <1>1, <1>2, <1>3

\* Reading a stream: an item, or the dummy.
LEMMA StreamRead ==
  ASSUME NEW kind, NEW T, NEW t \in Seq(T), NEW s, NEW d, NEW K, NEW b,
         Stream(kind, s, t, d, K, b),
         s # << >>
  PROVE  /\ t # << >> => Like(kind, Head(s), t[1], K, b)
            /\ Stream(kind, Tail(s), Tail(t), d, K, b)
         /\ t = << >> => d = 1 /\ Stops(kind, Head(s)) /\ Stream(kind, Tail(s), t, 0, K, b)
<1>1. /\ IsSeq(s) /\ Len(s) = Len(t) + d /\ d \in {0, 1}
      /\ \A i \in 1..Len(t) : Like(kind, s[i], t[i], K, b)
      /\ d = 1 => Stops(kind, s[Len(t) + 1])
  BY DEF Stream
<1>2. /\ Len(s) \in Nat /\ Len(s) # 0 /\ Head(s) = s[1] /\ IsSeq(Tail(s))
      /\ Len(Tail(s)) = Len(s) - 1 /\ \A i \in 1..Len(Tail(s)) : Tail(s)[i] = s[i + 1]
  BY <1>1, SeqAt
<1>3. ASSUME t # << >>
      PROVE  Like(kind, Head(s), t[1], K, b) /\ Stream(kind, Tail(s), Tail(t), d, K, b)
  <2>1. /\ Len(t) \in Nat /\ Len(t) >= 1 /\ Len(Tail(t)) = Len(t) - 1
        /\ \A i \in 1..Len(Tail(t)) : i + 1 \in 1..Len(t) /\ Tail(t)[i] = t[i + 1]
    BY <1>3, TailAt
  <2>2. 1 \in 1..Len(t)
    BY <2>1
  <2>3. Like(kind, Head(s), t[1], K, b)
    BY <1>1, <1>2, <2>2
  <2>4. Len(Tail(s)) = Len(Tail(t)) + d
    BY <1>1, <1>2, <2>1
  <2>5. ASSUME NEW i \in 1..Len(Tail(t)) PROVE Like(kind, Tail(s)[i], Tail(t)[i], K, b)
    <3>1. i + 1 \in 1..Len(t) /\ Tail(t)[i] = t[i + 1] /\ i \in 1..Len(Tail(s))
      BY <1>1, <2>1, <2>4
    <3>2. Tail(s)[i] = s[i + 1]
      BY <1>2, <3>1
    <3> QED
      BY <1>1, <3>1, <3>2
  <2>6. ASSUME d = 1 PROVE Stops(kind, Tail(s)[Len(Tail(t)) + 1])
    <3>1. Len(Tail(t)) + 1 \in 1..Len(Tail(s)) /\ (Len(Tail(t)) + 1) + 1 = Len(t) + 1
      BY <1>1, <1>2, <2>1, <2>6
    <3>2. Tail(s)[Len(Tail(t)) + 1] = s[Len(t) + 1]
      BY <1>2, <3>1
    <3> QED
      BY <1>1, <2>6, <3>2
  <2>7. Stream(kind, Tail(s), Tail(t), d, K, b)
    BY <1>1, <1>2, <2>4, <2>5, <2>6 DEF Stream
  <2> QED
    BY <2>3, <2>7
<1>4. ASSUME t = << >>
      PROVE  d = 1 /\ Stops(kind, Head(s)) /\ Stream(kind, Tail(s), t, 0, K, b)
  <2>1. Len(t) = 0
    BY <1>4
  <2>2. d = 1 /\ Stops(kind, s[0 + 1]) /\ Len(Tail(s)) = 0 + 0
    BY <1>1, <1>2, <2>1
  <2> QED
    BY <1>2, <2>1, <2>2 DEF Stream
<1> QED
  BY <1>3, <1>4

\* Writing a stream: an item, or the dummy.
LEMMA StreamWrite ==
  ASSUME NEW kind, NEW T, NEW t \in Seq(T), NEW s, NEW K, NEW b, Stream(kind, s, t, 0, K, b),
         NEW v
  PROVE  /\ \A x \in T
              : Like(kind, v, x, K, b) => Stream(kind, Append(s, v), Append(t, x), 0, K, b)
         /\ Stops(kind, v) => Stream(kind, Append(s, v), t, 1, K, b)
<1>1. /\ IsSeq(s) /\ Len(s) = Len(t) + 0
      /\ \A i \in 1..Len(t) : Like(kind, s[i], t[i], K, b)
  BY DEF Stream
<1>2. PICK u : u = Append(s, v)
  OBVIOUS
<1>3. Len(t) \in Nat /\ Len(s) = Len(t)
  BY <1>1
<1>4. /\ IsSeq(u) /\ Len(u) = Len(t) + 1 /\ u[Len(t) + 1] = v
      /\ \A i \in 1..Len(t) : u[i] = s[i]
  BY <1>1, <1>2, <1>3, SeqAt
<1>5. ASSUME NEW x \in T, Like(kind, v, x, K, b) PROVE Stream(kind, u, Append(t, x), 0, K, b)
  <2>1. /\ Len(Append(t, x)) = Len(t) + 1 /\ Append(t, x)[Len(t) + 1] = x
        /\ \A i \in 1..Len(t) : Append(t, x)[i] = t[i]
    BY AppendAt
  <2>2. ASSUME NEW i \in 1..Len(Append(t, x)) PROVE Like(kind, u[i], Append(t, x)[i], K, b)
    <3>1. i \in 1..Len(t) \/ i = Len(t) + 1
      BY <1>3, <2>1
    <3>2. CASE i \in 1..Len(t)
      BY <1>1, <1>4, <2>1, <3>2
    <3>3. CASE i = Len(t) + 1
      BY <1>4, <1>5, <2>1, <3>3
    <3> QED
      BY <3>1, <3>2, <3>3
  <2>3. Len(u) = Len(Append(t, x)) + 0
    BY <1>3, <1>4, <2>1
  <2> QED
    BY <1>4, <2>2, <2>3 DEF Stream
<1>6. ASSUME Stops(kind, v) PROVE Stream(kind, u, t, 1, K, b)
  BY <1>1, <1>4, <1>6 DEF Stream
<1> QED
  BY <1>2, <1>5, <1>6

-----------------------------------------------------------------------------
(***************************************************************************)
(* The inductive invariant: the streams and registers carry the words on   *)
(* their way.                                                              *)
(***************************************************************************)

\* The command stream, the words to send and the output of each engine.
At == [e \in Burst!Engines |-> IF e = "single" THEN 3 ELSE IF e = "long" THEN 6 ELSE 9]

\* Word k of an item.
Piece(x, k) == [x EXCEPT !.lo = k, !.hi = k]

\* An engine sends the words of one command.
Working(s, t, K, b) ==
  /\ IsSeq(s) /\ Len(s) <= MaxLen
  /\ \/ t = << >> /\ s = << >>
     \/ /\ Len(t) = 1 /\ Len(s) = t[1].hi - t[1].lo + 1
        /\ \A j \in 1..Len(s) : WordIs(s[j], Piece(t[1], t[1].lo + (j - 1)), K[t[1].req], b)

\* Where cmd_generator may cut: after whole long bursts, or when none fits any more.
Starts(lo, n) ==
  \E q \in Nat : lo = q * MaxLen + 1 \/ (q * MaxLen < lo /\ n < q * MaxLen + MaxLen)

\* cmd_generator: between two lists, in a list, or in the list that stops the engines.
Cutter(g, t, st, K) ==
  \/ t = << >> /\ st = 2 /\ g = <<StopList, 0>>
  \/ t = << >> /\ st = 3 /\ g = <<StopList, MaxLen * Word>>
  \/ t = << >> /\ st \notin {2, 3} /\ g = << >>
  \/ /\ Len(t) = 1 /\ st \in {0, 1} /\ Starts(t[1].lo, K[t[1].req].c)
     /\ \E v : ListIs(v, K[t[1].req]) /\ g = <<v, Addr(K[t[1].req].l, t[1].lo)>>

\* Every stream and register between vd_scheduler and sample carries the items of its place.
Chain(P, K, b, dum, st) ==
  /\ Stream("list", vds, P[1], IF st = 1 THEN 1 ELSE 0, K, b)
  /\ Cutter(gen, P[2], st, K)
  /\ DOMAIN cmd = Burst!Engines /\ DOMAIN work = Burst!Engines /\ DOMAIN out = Burst!Engines
  /\ \A e \in Burst!Engines :
       /\ Stream("cmd", cmd[e], P[At[e]], dum[e], K, b)
       /\ Working(work[e], P[At[e] + 1], K, b)
       /\ Stream("word", out[e], P[At[e] + 2], 0, K, b)
  /\ Stream("word", dynamic, P[12], 0, K, b)
  /\ Stream("word", sync, P[13], 0, K, b)

\* What is known of the lists L: c is how many words each has, bn the number of each.
KeyTableOf(L, K, c, b, bn) ==
  /\ IsSeq(L) /\ Len(L) = Len(c) /\ K = Keys(L, c, b, bn)
  /\ \A i \in 1..Len(c) : /\ L[i].list \in Askable /\ c[i] = Count(L[i].list)
                         /\ L[i].last \in BOOLEAN
KeyTable(K, c, b, bn) == KeyTableOf(lists, K, c, b, bn)

\* The answers on their way and those given are those of the lists.
Replying(U, A, K, b) ==
  /\ Stream("answer", update, U, 0, K, b) /\ Stream("answer", sampled, A, 0, K, b)
  /\ IsSeq(replies) /\ \A i \in 1..Len(replies) : AnswerIs(replies[i], K[i])

\* sample has gone through the first sk words of list si.
Sampling(K, si, sk) ==
  IF si # 0 /\ sk < K[si].c
  THEN /\ seen.words = [i \in 1..sk |-> Addr(K[si].l, i)]
       /\ Exact => seen.entries = UNION {EntriesOf(K[si].l, i) : i \in 1..sk}
  ELSE seen = Burst!Nothing

\* The ids to give, and the ids the merges wait for, are the numbers modulo IdRange.
Ids(b, NB, G, cb, cd) ==
  /\ next = [sync |-> Id(b, Len(lists)), burst |-> Id(b, NB), dyn |-> Id(b, G)]
  /\ current = [sync |-> Id(b, Len(replies)), burst |-> Id(b, cb), dyn |-> Id(b, cd)]

\* How far the end of a round has come: the list that stops the engines has not been sent
\* (st = 0), is in its stream (1), is to be cut into a long burst (2) and a word (3), or has
\* been cut (4); dum says to which engines a dummy command is under way.
Stopping(P, dum, st) ==
  /\ st \in 0..4 /\ dum \in [Burst!Engines -> {0, 1}]
  /\ burstPc \in {"main", "stopSingle", "stopDynamic"}
  /\ st = 0 <=> burstTodo # << >> \/ burstPc # "main"
  /\ burstTodo # << >> => burstPc = "main"
  /\ st \in {2, 3, 4} => P[1] = << >>
  /\ dum["single"] = 1 => burstTodo = << >> /\ burstPc # "stopSingle"
  /\ dum["long"] = 1 => st \in {3, 4}
  /\ dum["one"] = 1 => st = 4
  /\ burstOn["single"] <=> burstTodo # << >> \/ burstPc = "stopSingle" \/ dum["single"] = 1
  /\ burstOn["long"] <=> st \in {0, 1, 2} \/ dum["long"] = 1
  /\ burstOn["one"] <=> st \in {0, 1, 2, 3} \/ dum["one"] = 1

\* Types, and the depths of the streams.
BurstTypes ==
  /\ burstRound \in 0..MaxRounds /\ burstOn \in [Burst!Engines -> BOOLEAN]
  /\ IsSeq(burstTodo) /\ \A i \in 1..Len(burstTodo) : burstTodo[i] \in Askable
  /\ Len(vds) <= Depth /\ Len(update) <= Depth /\ Len(dynamic) <= Depth
  /\ Len(sync) <= Depth /\ Len(sampled) <= Depth
  /\ \A e \in Burst!Engines : Len(cmd[e]) <= Depth /\ Len(out[e]) <= Depth

\* All of it, for one account of the words on their way.
Good(b, P, K, c, si, sk, cd, G, bn, cb, NB, U, A, dum, st) ==
  /\ Way(P, c, si, sk, cd, G, bn, cb, NB) /\ Answers(c, si, sk, U, A, Len(replies))
  /\ KeyTable(K, c, b, bn) /\ Chain(P, K, b, dum, st) /\ Replying(U, A, K, b)
  /\ Sampling(K, si, sk) /\ Ids(b, NB, G, cb, cd) /\ Stopping(P, dum, st) /\ BurstTypes

\* The inductive invariant of the burst engine: there is an account of the words on their
\* way that the streams carry, in order and with the right numbers.
BurstInv ==
  \E b \in Base : \E P, K, c, si, sk, cd, G, bn, cb, NB, U, A, dum, st :
    Good(b, P, K, c, si, sk, cd, G, bn, cb, NB, U, A, dum, st)

-----------------------------------------------------------------------------
\* The places of the engines.
LEMMA AtFacts ==
  /\ Burst!Engines = {"one", "long", "single"}
  /\ At["single"] = 3 /\ At["long"] = 6 /\ At["one"] = 9
  /\ \A e \in Burst!Engines : At[e] \in {3, 6, 9} /\ At[e] \in Places /\ At[e] + 1 \in Places
                              /\ At[e] + 2 \in Places
  /\ \A e, f \in Burst!Engines : e # f => At[e] # At[f]
BY DEF At, Burst!Engines, Places

\* What the table says of list i.
LEMMA ListOf ==
  ASSUME Burst!BurstAssumption, NEW b, NEW K, NEW c, NEW bn,
         KeyTable(K, c, b, bn), c \in Seq(Nat),
         NEW i \in 1..Len(c)
  PROVE  /\ K[i].l \in Askable /\ K[i].l \in Nat \X Nat /\ K[i].c = c[i]
            /\ K[i].c = Count(K[i].l)
         /\ K[i].id = Id(b, i - 1) /\ K[i].burst = Id(b, bn[i]) /\ K[i].c \in Nat
         /\ K[i].l[2] = 0 <=> K[i].c = 0
         /\ K[i].l = lists[i].list /\ K[i].last = lists[i].last /\ K[i].last \in BOOLEAN
<1>1. /\ IsSeq(lists) /\ Len(lists) = Len(c) /\ K = Keys(lists, c, b, bn)
      /\ lists[i].list \in Askable /\ c[i] = Count(lists[i].list) /\ lists[i].last \in BOOLEAN
  BY DEF KeyTable, KeyTableOf
<1>2. K[i] = [l |-> lists[i].list, last |-> lists[i].last, c |-> c[i],
              id |-> Id(b, i - 1), burst |-> Id(b, bn[i])]
  BY <1>1 DEF Keys
<1>3. lists[i].list \in Nat \X Nat
  <2>1. PICK r \in BurstRounds : lists[i].list \in {r[j] : j \in DOMAIN r}
    BY <1>1 DEF Askable
  <2>2. r \in Seq(Nat \X Nat)
    BY DEF Burst!BurstAssumption
  <2> QED
    BY <2>1, <2>2
<1>4. lists[i].list[2] = 0 <=> c[i] = 0
  <2>1. PICK l \in Nat \X Nat : l = lists[i].list
    BY <1>3
  <2>2. l[2] # 0 => Count(l) # 0
    <3>1. ASSUME l[2] # 0 PROVE Count(l) # 0
      <4>1. PICK k \in Nat : k # 0 /\ k = Count(l)
        BY <3>1, ListFacts
      <4> QED
        BY <4>1
    <3> QED
      BY <3>1
  <2>3. l[2] = 0 => Count(l) = 0
    BY DEF Count
  <2> QED
    BY <1>1, <2>1, <2>2, <2>3
<1>5. c[i] \in Nat
  OBVIOUS
<1> QED
  BY <1>1, <1>2, <1>3, <1>4, <1>5

\* Nothing is longer than the depth of a stream.
LEMMA PlacesShort ==
  ASSUME Burst!BurstAssumption, NEW P, Placing(P), NEW K, NEW b, NEW dum, NEW st,
         Chain(P, K, b, dum, st), BurstTypes
  PROVE  \A q \in Places : Len(P[q]) <= Depth
<1>1. \A q \in Places : P[q] \in Seq(Item) /\ Len(P[q]) \in Nat
  BY PlacedItem
<1>2. /\ Len(vds) <= Depth /\ Len(dynamic) <= Depth /\ Len(sync) <= Depth
      /\ \A e \in Burst!Engines : Len(cmd[e]) <= Depth /\ Len(out[e]) <= Depth
      /\ Depth \in Nat /\ 1 <= Depth
  BY DEF BurstTypes, Burst!BurstAssumption
<1>3. ASSUME NEW kind, NEW s, NEW q \in Places, NEW d, Stream(kind, s, P[q], d, K, b),
             Len(s) <= Depth
      PROVE  Len(P[q]) <= Depth
  <2>1. PICK t \in Seq(Item) : t = P[q]
    BY <1>1
  <2>2. Len(s) \in Nat /\ Len(t) \in Nat /\ Len(t) <= Len(s)
    BY <1>3, <2>1, StreamSize
  <2>3. Depth \in Nat
    BY <1>2
  <2>4. Len(t) <= Depth
    <3>1. PICK m, n : m = Len(t) /\ n = Len(s)
      OBVIOUS
    <3>2. m \in Nat /\ n \in Nat /\ m <= n /\ n <= Depth
      BY <1>3, <2>2, <3>1
    <3>3. m <= Depth
      BY <2>3, <3>2
    <3> QED
      BY <3>1, <3>3
  <2> QED
    BY <2>1, <2>4
<1>p. 1 \in Places /\ 2 \in Places /\ 12 \in Places /\ 13 \in Places
  BY DEF Places
<1>4. Len(P[1]) <= Depth /\ Len(P[12]) <= Depth /\ Len(P[13]) <= Depth
  BY <1>2, <1>3, <1>p DEF Chain
<1>5. ASSUME NEW q \in Places, P[q] = << >> \/ Len(P[q]) = 1 PROVE Len(P[q]) <= Depth
  <2>1. PICK m : m = Len(P[q])
    OBVIOUS
  <2>2. m = 0 \/ m = 1
    BY <1>5, <2>1, SeqSmall
  <2>3. Depth \in Nat /\ 1 <= Depth
    BY <1>2
  <2>4. m <= Depth
    BY <2>2, <2>3
  <2> QED
    BY <2>1, <2>4
<1>6. Len(P[2]) <= Depth
  <2>1. P[2] = << >> \/ Len(P[2]) = 1
    BY DEF Chain, Cutter
  <2> QED
    BY <1>5, <1>p, <2>1
<1>7. ASSUME NEW e \in Burst!Engines
      PROVE  Len(P[At[e]]) <= Depth /\ Len(P[At[e] + 1]) <= Depth /\ Len(P[At[e] + 2]) <= Depth
  <2>1. At[e] \in Places /\ At[e] + 1 \in Places /\ At[e] + 2 \in Places
    BY AtFacts
  <2>2. Stream("cmd", cmd[e], P[At[e]], dum[e], K, b)
        /\ Stream("word", out[e], P[At[e] + 2], 0, K, b)
    BY DEF Chain
  <2>3. P[At[e] + 1] = << >> \/ Len(P[At[e] + 1]) = 1
    BY DEF Chain, Working
  <2> QED
    BY <1>2, <1>3, <1>5, <2>1, <2>2, <2>3
<1>8. /\ Len(P[3]) <= Depth /\ Len(P[3 + 1]) <= Depth /\ Len(P[3 + 2]) <= Depth
      /\ Len(P[6]) <= Depth /\ Len(P[6 + 1]) <= Depth /\ Len(P[6 + 2]) <= Depth
      /\ Len(P[9]) <= Depth /\ Len(P[9 + 1]) <= Depth /\ Len(P[9 + 2]) <= Depth
  BY <1>7, AtFacts
<1>9. /\ 3 + 1 = 4 /\ 3 + 2 = 5 /\ 6 + 1 = 7 /\ 6 + 2 = 8 /\ 9 + 1 = 10 /\ 9 + 2 = 11
  OBVIOUS
<1>10. /\ Len(P[3]) <= Depth /\ Len(P[4]) <= Depth /\ Len(P[5]) <= Depth /\ Len(P[6]) <= Depth
       /\ Len(P[7]) <= Depth /\ Len(P[8]) <= Depth /\ Len(P[9]) <= Depth
       /\ Len(P[10]) <= Depth /\ Len(P[11]) <= Depth
  BY <1>8, <1>9
<1>11. ASSUME NEW q \in Places PROVE q \in {1, 2, 3, 4, 5, 6, 7, 8, 9, 10, 11, 12, 13}
  BY DEF Places
<1> SUFFICES ASSUME NEW q \in Places PROVE Len(P[q]) <= Depth
  OBVIOUS
<1> QED
  BY <1>4, <1>6, <1>10, <1>11

\* A word of an item is an item of the same command.
LEMMA PieceIs ==
  ASSUME NEW x \in Item, NEW k \in Nat
  PROVE  /\ Piece(x, k) \in Item /\ Piece(x, k).req = x.req /\ Piece(x, k).num = x.num
         /\ Piece(x, k).top = x.top /\ Piece(x, k).lo = k /\ Piece(x, k).hi = k
BY DEF Piece, Item

\* The item at the head of a stream.
LEMMA HeadFacts ==
  ASSUME NEW P, NEW c, NEW si, NEW sk, NEW cd, NEW G, NEW bn, NEW cb, NEW NB,
         Way(P, c, si, sk, cd, G, bn, cb, NB), NEW q \in Places, P[q] # << >>
  PROVE  \E x \in Item :
           /\ x = P[q][1] /\ 1 \in 1..Len(P[q]) /\ Stands(q, x, c)
           /\ x.req \in 1..Len(c) /\ x.lo \in Nat /\ x.hi \in Nat /\ x.top \in Nat
              /\ x.num \in Nat
           /\ 1 <= x.lo /\ x.lo <= x.hi /\ x.hi <= x.top /\ x.top <= c[x.req]
           /\ c[x.req] \in Nat /\ c[x.req] # 0 /\ FrontOf(P, q, x) /\ c \in Seq(Nat)
<1>1. Placing(P) /\ Located(P, c) /\ c \in Seq(Nat)
  BY DEF Way
<1>2. PICK t \in Seq(Item) : t = P[q]
  BY <1>1, PlacedItem
<1>3. t # << >> /\ 1 \in 1..Len(t) /\ t[1] \in Item
  BY <1>2
<1>4. PICK x \in Item : x = t[1]
  BY <1>3
<1>5. Stands(q, x, c)
  BY <1>1, <1>2, <1>3, <1>4 DEF Located
<1>6. /\ x.req \in 1..Len(c) /\ 1 <= x.lo /\ x.lo <= x.hi /\ x.hi <= x.top /\ x.top <= c[x.req]
  BY <1>5 DEF Stands
<1>7. x.lo \in Nat /\ x.hi \in Nat /\ x.top \in Nat /\ x.num \in Nat /\ x.req \in Nat
  BY DEF Item
<1>8. c[x.req] \in Nat
  BY <1>1, <1>6
<1>9. FrontOf(P, q, x)
  BY <1>2, <1>3, <1>4, <1>6, <1>7 DEF FrontOf
<1>10. c[x.req] # 0
  BY <1>6, <1>7, <1>8
<1> WITNESS x \in Item
<1> QED
  BY <1>1, <1>2, <1>3, <1>4, <1>5, <1>6, <1>7, <1>8, <1>9, <1>10

\* What a move leaves.
LEMMA MoveAt ==
  ASSUME NEW P, Placing(P), NEW p \in Places, NEW r \in Places, p # r, P[p] # << >>,
         NEW m \in Item, NEW h, h = P[p][1], NEW Q, Q = MoveTo(P, p, r, m)
  PROVE  /\ \A q \in Places : q # p /\ q # r => Q[q] = P[q]
         /\ Q[r] = Append(P[r], m)
         /\ m.hi = h.hi => Q[p] = Tail(P[p])
         /\ Len(P[p]) = 1 /\ m.hi = h.hi => Q[p] = << >>
         /\ Len(P[p]) = 1 /\ m.hi # h.hi => Q[p] = <<Remainder(h, m)>>
<1>1. PICK s \in Seq(Item) : s = P[p]
  BY PlacedItem
<1>2. PICK v : v = IF m.hi = h.hi THEN Tail(s) ELSE [s EXCEPT ![1] = Remainder(h, m)]
  OBVIOUS
<1>3. Q = [P EXCEPT ![p] = v, ![r] = Append(P[r], m)]
  BY <1>1, <1>2 DEF MoveTo
<1>4. DOMAIN P = Places
  BY DEF Placing
<1>5. Q[p] = v /\ Q[r] = Append(P[r], m) /\ \A q \in Places : q # p /\ q # r => Q[q] = P[q]
  BY <1>3, <1>4
<1>6. Len(s) = 1 => Tail(s) = << >>
  <2>1. ASSUME Len(s) = 1 PROVE Tail(s) = << >>
    <3>1. s # << >>
      BY <1>1
    <3>2. PICK u : u = Tail(s)
      OBVIOUS
    <3>3. u \in Seq(Item) /\ Len(u) = 0
      BY <2>1, <3>1, <3>2, TailAt
    <3>4. u = << >>
      BY <3>3
    <3> QED
      BY <3>2, <3>4
  <2> QED
    BY <2>1
<1>7. Len(s) = 1 => [s EXCEPT ![1] = Remainder(h, m)] = <<Remainder(h, m)>>
  <2>1. ASSUME Len(s) = 1 PROVE [s EXCEPT ![1] = Remainder(h, m)] = <<Remainder(h, m)>>
    <3>1. PICK y : y = Remainder(h, m)
      OBVIOUS
    <3>2. h \in Item
      BY <1>1, <2>1
    <3>3. y \in Item
      BY <3>1, <3>2, RestItem
    <3>4. PICK u : u = [s EXCEPT ![1] = y]
      OBVIOUS
    <3>5. u \in Seq(Item) /\ Len(u) = 1 /\ u[1] = y
      <4>1. 1 \in 1..Len(s)
        BY <2>1
      <4>2. /\ [s EXCEPT ![1] = y] \in Seq(Item) /\ Len([s EXCEPT ![1] = y]) = Len(s)
            /\ \A j \in 1..Len(s) : [s EXCEPT ![1] = y][j] = IF j = 1 THEN y ELSE s[j]
        BY <3>3, <4>1, ExceptSeq
      <4>3. u \in Seq(Item) /\ Len(u) = 1
        BY <2>1, <3>4, <4>2
      <4>4. u[1] = y
        BY <3>4, <4>1, <4>2
      <4> QED
        BY <4>3, <4>4
    <3>6. <<y>> \in Seq(Item) /\ Len(<<y>>) = 1 /\ <<y>>[1] = y
      BY <3>3
    <3>7. \A i \in 1..Len(u) : u[i] = <<y>>[i]
      BY <3>5, <3>6
    <3>8. u = <<y>>
      BY <3>5, <3>6, <3>7, SeqEqual
    <3> QED
      BY <3>1, <3>4, <3>8
  <2> QED
    BY <2>1
<1> QED
  BY <1>1, <1>2, <1>5, <1>6, <1>7

\* A function on 1..n is a stream.
LEMMA FunctionSeq ==
  ASSUME NEW n \in Nat, NEW f, f = [j \in 1..n |-> f[j]]
  PROVE  IsSeq(f) /\ Len(f) = n
<1>1. PICK S : S = {f[j] : j \in 1..n}
  OBVIOUS
<1>2. \A j \in 1..n : f[j] \in S
  BY <1>1
<1>3. f \in [1..n -> S]
  BY <1>2
<1>4. f \in Seq(S) /\ Len(f) = n
  BY <1>3
<1> QED
  BY <1>4 DEF IsSeq

\* The words of a command.
LEMMA WordsWork ==
  ASSUME Burst!BurstAssumption, NEW K, NEW b, NEW h \in Item, NEW k, k = K[h.req],
         k.l \in Nat \X Nat, k.c \in Nat, 1 <= h.lo, h.lo <= h.hi, h.hi = h.top, h.hi <= k.c,
         NEW v, CmdIs(v, h, k, b)
  PROVE  Working(Burst!WordsFor(v), <<h>>, K, b)
<1>1. PICK lo \in Nat, hi \in Nat : lo = h.lo /\ hi = h.hi /\ 1 <= lo /\ lo <= hi /\ hi <= k.c
  BY DEF Item
<1>2. PICK n \in Nat : n = hi - lo + 1 /\ n = v.len /\ n <= MaxLen
  <2>1. hi - lo + 1 \in Nat /\ v.len = hi - lo + 1
    BY <1>1 DEF CmdIs
  <2> QED
    BY <2>1 DEF CmdIs
<1>3. PICK W : W = Burst!WordsFor(v)
  OBVIOUS
<1>4. W = [j \in 1..n |->
             [addr |-> v.addr + Word * (j - 1), entries |-> Burst!Unmasked(v, j - 1),
              id |-> v.id,
              burst |-> v.burst, ends |-> Burst!EndsList(v, j), dyn |-> v.dyn,
              frees |-> j = v.len, last |-> v.last]]
  BY <1>2, <1>3 DEF Burst!WordsFor
<1>5. IsSeq(W) /\ Len(W) = n
  BY <1>4, FunctionSeq
<1>6. ASSUME NEW j \in 1..n PROVE WordIs(W[j], Piece(h, lo + (j - 1)), k, b)
  <2>1. PICK x : x = Piece(h, lo + (j - 1))
    OBVIOUS
  <2>2. PICK i \in Nat : i = j - 1
    <3>1. j - 1 \in Nat
      OBVIOUS
    <3> QED
      BY <3>1
  <2>3. lo + i \in Nat /\ lo + i <= hi /\ (j = n <=> lo + i = hi) /\ lo + (j - 1) = lo + i
        /\ i \in 0..(hi - lo)
    BY <1>1, <1>2, <2>2
  <2>4. x \in Item /\ x.num = h.num /\ x.top = hi /\ x.lo = lo + i /\ x.hi = lo + i
    BY <1>1, <2>1, <2>3, PieceIs
  <2>a. PICK frees : frees = (j = v.len)
    OBVIOUS
  <2>5. W[j] = [addr |-> v.addr + Word * i, entries |-> Burst!Unmasked(v, i), id |-> v.id,
                burst |-> v.burst, ends |-> Burst!EndsList(v, j), dyn |-> v.dyn,
                frees |-> frees, last |-> v.last]
    BY <1>4, <2>2, <2>a
  <2>6. W[j].addr = Addr(k.l, lo + i)
    <3>1. Addr(k.l, lo + i) = Addr(k.l, lo) + i * Word
      BY <1>1, AddrFacts
    <3>2. v.addr = Addr(k.l, lo)
      BY <1>1 DEF CmdIs
    <3>3. Word * i = i * Word
      BY DEF Burst!BurstAssumption
    <3> QED
      BY <2>5, <3>1, <3>2, <3>3
  <2>7. W[j].ends <=> v.ends /\ j = n
    <3>1. W[j].ends = Burst!EndsList(v, j)
      BY <2>5
    <3>2. Burst!EndsList(v, j) <=> v.ends /\ j = n
      BY <1>2 DEF Burst!EndsList
    <3> QED
      BY <3>1, <3>2, Zenon
  <2>8. v.ends <=> hi = k.c
    BY <1>1 DEF CmdIs
  <2>9. W[j].ends <=> lo + i = k.c
    <3>1. lo + i = k.c => hi = k.c /\ j = n
      BY <1>1, <2>3
    <3>2. hi = k.c /\ j = n => lo + i = k.c
      BY <2>3
    <3> QED
      BY <2>7, <2>8, <3>1, <3>2
  <2>10. W[j].frees <=> lo + i = hi
    <3>1. W[j].frees = frees
      BY <2>5
    <3>2. (j = v.len) <=> lo + i = hi
      BY <1>2, <2>3
    <3> QED
      BY <2>a, <3>1, <3>2, Zenon
  <2>11. W[j].id = k.id /\ W[j].burst = k.burst /\ (k.c # 1 => W[j].dyn = Id(b, h.num))
    BY <2>5 DEF CmdIs
  <2>12. W[j].ends => W[j].last = k.last
    <3>1. W[j].last = v.last
      BY <2>5
    <3>2. v.ends => v.last = k.last
      BY DEF CmdIs
    <3> QED
      BY <2>7, <3>1, <3>2
  <2>13. Exact => W[j].entries = EntriesOf(k.l, lo + i)
    <3>1. Exact => Burst!Unmasked(v, i) = EntriesOf(k.l, lo + i)
      BY <1>1, <2>3 DEF CmdIs
    <3> QED
      BY <2>5, <3>1
  <2> QED
    BY <2>1, <2>3, <2>4, <2>6, <2>9, <2>10, <2>11, <2>12, <2>13 DEF WordIs
<1>7. <<h>>[1] = h /\ Len(<<h>>) = 1
  OBVIOUS
<1> QED
  BY <1>1, <1>2, <1>3, <1>5, <1>6, <1>7 DEF Working

-----------------------------------------------------------------------------
(***************************************************************************)
(* The engines, the merges and sample keep the invariant.                  *)
(***************************************************************************)

\* The places of an engine are different, and its words go from one to the next.
LEMMA AtApart ==
  ASSUME NEW e \in Burst!Engines
  PROVE  /\ At[e] \in Places /\ At[e] + 1 \in Places /\ At[e] + 2 \in Places
         /\ At[e] \notin {1, 2, 12, 13} /\ At[e] + 1 \notin {1, 2, 12, 13}
         /\ At[e] + 2 \notin {1, 2, 12, 13}
         /\ At[e] # At[e] + 1 /\ At[e] # At[e] + 2 /\ At[e] + 1 # At[e] + 2
         /\ <<At[e], At[e] + 1>> \in {<<3, 4>>, <<6, 7>>, <<9, 10>>}
         /\ <<At[e] + 1, At[e] + 2>> \in {<<4, 5>>, <<7, 8>>, <<10, 11>>}
         /\ <<At[e], At[e] + 1>> \in Routes /\ <<At[e] + 1, At[e] + 2>> \in Routes
<1>3. PICK y : y = At[e]
  OBVIOUS
<1>4. y \in {3, 6, 9}
  BY <1>3, AtFacts
<1>5. /\ y \in Places /\ y + 1 \in Places /\ y + 2 \in Places
      /\ y \notin {1, 2, 12, 13} /\ y + 1 \notin {1, 2, 12, 13} /\ y + 2 \notin {1, 2, 12, 13}
      /\ y # y + 1 /\ y # y + 2 /\ y + 1 # y + 2
  BY <1>4 DEF Places
<1>6. /\ <<y, y + 1>> \in {<<3, 4>>, <<6, 7>>, <<9, 10>>}
      /\ <<y + 1, y + 2>> \in {<<4, 5>>, <<7, 8>>, <<10, 11>>}
  <2>1. (y = 3 /\ y + 1 = 4 /\ y + 2 = 5) \/ (y = 6 /\ y + 1 = 7 /\ y + 2 = 8)
        \/ (y = 9 /\ y + 1 = 10 /\ y + 2 = 11)
    BY <1>4
  <2> QED
    BY <2>1
<1>7. <<y, y + 1>> \in Routes /\ <<y + 1, y + 2>> \in Routes
  BY <1>6 DEF Routes
<1> QED
  BY <1>3, <1>5, <1>6, <1>7

\* The places of two engines are different.
LEMMA OtherEngine ==
  ASSUME NEW e \in Burst!Engines, NEW f \in Burst!Engines, f # e
  PROVE  /\ At[f] # At[e] /\ At[f] # At[e] + 1 /\ At[f] # At[e] + 2
         /\ At[f] + 1 # At[e] /\ At[f] + 1 # At[e] + 1 /\ At[f] + 1 # At[e] + 2
         /\ At[f] + 2 # At[e] /\ At[f] + 2 # At[e] + 1 /\ At[f] + 2 # At[e] + 2
         /\ At[f] \in Places /\ At[f] + 1 \in Places /\ At[f] + 2 \in Places
<1>1. PICK x, y : x = At[f] /\ y = At[e]
  OBVIOUS
<1>2. x \in {3, 6, 9} /\ y \in {3, 6, 9} /\ x # y
  BY <1>1, AtFacts
<1>3. /\ x # y /\ x # y + 1 /\ x # y + 2 /\ x + 1 # y /\ x + 1 # y + 1 /\ x + 1 # y + 2
      /\ x + 2 # y /\ x + 2 # y + 1 /\ x + 2 # y + 2
      /\ x \in Places /\ x + 1 \in Places /\ x + 2 \in Places
  BY <1>2 DEF Places
<1> QED
  BY <1>1, <1>3

\* What moving a whole item leaves.
LEMMA MoveWhole ==
  ASSUME NEW P, Placing(P), NEW p \in Places, NEW r \in Places, p # r, P[p] # << >>,
         NEW h \in Item, h = P[p][1], NEW Q, Q = MoveTo(P, p, r, h)
  PROVE  /\ \A q \in Places : q # p /\ q # r => Q[q] = P[q]
         /\ Q[r] = Append(P[r], h) /\ Q[p] = Tail(P[p])
<1>1. /\ \A q \in Places : q # p /\ q # r => Q[q] = P[q]
      /\ Q[r] = Append(P[r], h)
      /\ h.hi = h.hi => Q[p] = Tail(P[p])
  BY MoveAt
<1> QED
  BY <1>1

\* What the steps between vd_scheduler and sample leave as it is.
LEMMA RestKept ==
  ASSUME NEW b, NEW P, NEW K, NEW c, NEW si, NEW sk, NEW cd, NEW G, NEW bn, NEW cb, NEW NB,
         NEW U, NEW A, NEW dum, NEW st,
         Good(b, P, K, c, si, sk, cd, G, bn, cb, NB, U, A, dum, st),
         UNCHANGED <<lists, replies, update, sampled>>
  PROVE  /\ Answers(c, si, sk, U, A, Len(replies))' /\ KeyTable(K, c, b, bn)'
         /\ Replying(U, A, K, b)'
<1>1. /\ Answers(c, si, sk, U, A, Len(replies)) /\ KeyTable(K, c, b, bn) /\ Replying(U, A, K, b)
  BY DEF Good
<1>2. lists' = lists /\ replies' = replies /\ update' = update /\ sampled' = sampled
  OBVIOUS
<1>3. Answers(c, si, sk, U, A, Len(replies))'
  BY <1>1, <1>2
<1>4. KeyTable(K, c, b, bn)'
  BY <1>1, <1>2 DEF KeyTable
<1>5. Replying(U, A, K, b)'
  BY <1>1, <1>2 DEF Replying
<1> QED
  BY <1>3, <1>4, <1>5

\* What sample has seen stays.
LEMMA SeenKept ==
  ASSUME NEW K, NEW si, NEW sk, Sampling(K, si, sk), seen' = seen
  PROVE  Sampling(K, si, sk)'
BY DEF Sampling

\* An engine takes a command, or the dummy that makes it return.
LEMMA TakeCommandKeeps ==
  ASSUME Burst!BurstAssumption, NEW b \in Base, NEW P, NEW K, NEW c, NEW si, NEW sk, NEW cd,
         NEW G, NEW bn, NEW cb, NEW NB, NEW U, NEW A, NEW dum, NEW st,
         Good(b, P, K, c, si, sk, cd, G, bn, cb, NB, U, A, dum, st),
         NEW e \in Burst!Engines, Burst!TakeCommand(e)
  PROVE  BurstInv'
<1>0. /\ Way(P, c, si, sk, cd, G, bn, cb, NB) /\ KeyTable(K, c, b, bn)
         /\ Chain(P, K, b, dum, st)
      /\ Sampling(K, si, sk) /\ Ids(b, NB, G, cb, cd) /\ Stopping(P, dum, st) /\ BurstTypes
  BY DEF Good
<1>1. /\ burstOn[e] /\ work[e] = << >> /\ cmd[e] # << >>
      /\ cmd' = [cmd EXCEPT ![e] = Tail(@)]
      /\ UNCHANGED <<lists, replies, burstRound, burstTodo, burstPc, next, update, vds, gen,
                     out, dynamic, sync, seen, sampled, current>>
      /\ IF Head(cmd[e]).id = Burst!Dummy
         THEN burstOn' = [burstOn EXCEPT ![e] = FALSE] /\ work' = work
         ELSE work' = [work EXCEPT ![e] = Burst!WordsFor(Head(cmd[e]))] /\ burstOn' = burstOn
  BY DEF Burst!TakeCommand
<1>2. /\ Answers(c, si, sk, U, A, Len(replies))' /\ KeyTable(K, c, b, bn)'
         /\ Replying(U, A, K, b)'
      /\ Sampling(K, si, sk)'
  BY <1>0, <1>1, RestKept, SeenKept
<1>3. Ids(b, NB, G, cb, cd)'
  BY <1>0, <1>1 DEF Ids
<1>4. PICK p, r : p = At[e] /\ r = At[e] + 1
  OBVIOUS
<1>5. /\ p \in Places /\ r \in Places /\ p # r /\ <<p, r>> \in Routes /\ p # 2
      /\ r \notin {12, 13} /\ p \notin {1, 2, 12, 13} /\ r \notin {1, 2, 12, 13}
      /\ <<p, r>> \in {<<3, 4>>, <<6, 7>>, <<9, 10>>}
  BY <1>4, AtApart
<1>a. (p = 3 /\ r = 4) \/ (p = 6 /\ r = 7) \/ (p = 9 /\ r = 10)
  BY <1>5
<1>6. /\ DOMAIN cmd = Burst!Engines /\ DOMAIN work = Burst!Engines
      /\ Stream("cmd", cmd[e], P[p], dum[e], K, b) /\ Working(work[e], P[r], K, b)
  BY <1>0, <1>4 DEF Chain
<1>7. PICK C : C = cmd[e]
  OBVIOUS
<1>8. Placing(P) /\ P[p] \in Seq(Item) /\ P[r] \in Seq(Item) /\ c \in Seq(Nat)
  BY <1>0, <1>5, PlacedItem DEF Way
<1>9. /\ P[p] # << >> => Like("cmd", Head(C), P[p][1], K, b)
         /\ Stream("cmd", Tail(C), Tail(P[p]), dum[e], K, b)
      /\ P[p] = << >> => dum[e] = 1 /\ Stops("cmd", Head(C))
         /\ Stream("cmd", Tail(C), P[p], 0, K, b)
  <2>1. PICK t \in Seq(Item) : t = P[p]
    BY <1>8
  <2>2. Stream("cmd", C, t, dum[e], K, b) /\ C # << >>
    BY <1>1, <1>6, <1>7, <2>1
  <2>3. /\ t # << >> => Like("cmd", Head(C), t[1], K, b)
           /\ Stream("cmd", Tail(C), Tail(t), dum[e], K, b)
        /\ t = << >> => dum[e] = 1 /\ Stops("cmd", Head(C))
           /\ Stream("cmd", Tail(C), t, 0, K, b)
    BY <2>2, StreamRead
  <2> QED
    BY <2>1, <2>3
<1>10. P[r] = << >>
  <2>1. SUFFICES ASSUME P[r] # << >> PROVE FALSE
    OBVIOUS
  <2>2. PICK x \in Item : x = P[r][1] /\ x.lo \in Nat /\ x.hi \in Nat /\ x.lo <= x.hi
    BY <1>0, <1>5, <2>1, HeadFacts
  <2>3. Len(work[e]) = x.hi - x.lo + 1
    BY <1>6, <2>1, <2>2 DEF Working
  <2>4. Len(work[e]) = 0
    BY <1>1, SeqSmall
  <2>5. x.hi - x.lo + 1 # 0
    BY <2>2
  <2> QED
    BY <2>3, <2>4, <2>5
<1>11. ASSUME burstOn' \in [Burst!Engines -> BOOLEAN] PROVE BurstTypes'
  <2>1. \A f \in Burst!Engines : Len(cmd'[f]) <= Depth /\ Len(out'[f]) <= Depth
    <3> TAKE f \in Burst!Engines
    <3>1. CASE f # e
      BY <1>0, <1>1, <1>6, <3>1 DEF BurstTypes
    <3>2. CASE f = e
      <4>1. cmd'[f] = Tail(C) /\ Len(C) <= Depth /\ Len(out'[f]) <= Depth
        BY <1>0, <1>1, <1>6, <1>7, <3>2 DEF BurstTypes
      <4>2. IsSeq(C) /\ C # << >>
        BY <1>1, <1>6, <1>7 DEF Stream
      <4>3. Len(Tail(C)) = Len(C) - 1 /\ Len(C) \in Nat
        BY <4>2, SeqAt
      <4>4. Depth \in Nat
        BY DEF Burst!BurstAssumption
      <4> QED
        BY <4>1, <4>3, <4>4
    <3> QED
      BY <3>1, <3>2
  <2> QED
    BY <1>0, <1>1, <1>11, <2>1 DEF BurstTypes
<1>12. CASE P[p] # << >>
  <2>1. PICK h \in Item :
           /\ h = P[p][1] /\ 1 \in 1..Len(P[p]) /\ Stands(p, h, c)
           /\ h.req \in 1..Len(c) /\ h.lo \in Nat /\ h.hi \in Nat /\ h.top \in Nat
              /\ h.num \in Nat
           /\ 1 <= h.lo /\ h.lo <= h.hi /\ h.hi <= h.top /\ h.top <= c[h.req]
           /\ c[h.req] \in Nat /\ c[h.req] # 0 /\ FrontOf(P, p, h) /\ c \in Seq(Nat)
    BY <1>0, <1>5, <1>12, HeadFacts
  <2>2. CmdIs(Head(C), h, K[h.req], b)
    BY <1>9, <1>12, <2>1 DEF Like
  <2>3. PICK k : k = K[h.req]
    OBVIOUS
  <2>4. k.l \in Nat \X Nat /\ k.c = c[h.req] /\ k.id = Id(b, h.req - 1) /\ h.req - 1 \in Nat
    <3>1. PICK i \in 1..Len(c) : i = h.req
      BY <2>1
    <3>2. K[i].l \in Nat \X Nat /\ K[i].c = c[i] /\ K[i].id = Id(b, i - 1)
      BY <1>0, <2>1, ListOf
    <3>3. i - 1 \in Nat
      OBVIOUS
    <3> QED
      BY <2>3, <3>1, <3>2, <3>3
  <2>5. Head(C).id # Burst!Dummy
    BY <2>2, <2>3, <2>4, IdFacts DEF CmdIs
  <2>6. work' = [work EXCEPT ![e] = Burst!WordsFor(Head(C))] /\ burstOn' = burstOn
    BY <1>1, <1>7, <2>5
  <2>7. h.hi = h.top /\ h.hi <= k.c
    BY <1>5, <2>1, <2>4 DEF Stands
  <2>8. Working(Burst!WordsFor(Head(C)), <<h>>, K, b)
    BY <2>1, <2>2, <2>3, <2>4, <2>7, WordsWork
  <2>9. PICK Q : Q = MoveTo(P, p, r, h)
    OBVIOUS
  <2>10. Way(Q, c, si, sk, cd, G, bn, cb, NB)
    <3>1. Stands(r, h, c)
      <4>1. CASE p = 3 /\ r = 4
        BY <2>1, <2>7, <4>1 DEF Stands
      <4>2. CASE p = 6 /\ r = 7
        BY <2>1, <2>7, <4>2 DEF Stands
      <4>3. CASE p = 9 /\ r = 10
        BY <2>1, <2>7, <4>3 DEF Stands
      <4> QED
        BY <1>a, <4>1, <4>2, <4>3
    <3>2. ~(h.hi < P[p][1].hi)
      BY <2>1
    <3> QED
      BY <1>0, <1>5, <2>1, <2>9, <3>1, <3>2, StepInside
  <2>11. /\ \A q \in Places : q # p /\ q # r => Q[q] = P[q]
         /\ Q[r] = Append(P[r], h) /\ Q[p] = Tail(P[p])
    <3>1. Placing(P) /\ P[p] # << >> /\ h = P[p][1] /\ Q = MoveTo(P, p, r, h) /\ p # r
      BY <1>5, <1>8, <1>12, <2>1, <2>9
    <3> QED
      BY <1>5, <3>1, MoveWhole
  <2>12. Q[r] = <<h>>
    BY <1>10, <2>11
  <2>13. ASSUME NEW f \in Burst!Engines
         PROVE  /\ Stream("cmd", cmd'[f], Q[At[f]], dum[f], K, b)
                /\ Working(work'[f], Q[At[f] + 1], K, b)
                /\ Stream("word", out'[f], Q[At[f] + 2], 0, K, b)
    <3>1. CASE f = e
      <4>1. cmd'[f] = Tail(C) /\ work'[f] = Burst!WordsFor(Head(C)) /\ out'[f] = out[f]
        BY <1>1, <1>6, <1>7, <2>6, <3>1
      <4>2. Q[At[f] + 2] = P[At[f] + 2]
        BY <1>4, <2>11, <3>1, AtApart
      <4>3. Stream("word", out[f], P[At[f] + 2], 0, K, b)
        BY <1>0 DEF Chain
      <4> QED
        BY <1>4, <1>9, <1>12, <2>8, <2>11, <2>12, <3>1, <4>1, <4>2, <4>3
    <3>2. CASE f # e
      <4>1. cmd'[f] = cmd[f] /\ work'[f] = work[f] /\ out'[f] = out[f]
        BY <1>1, <1>6, <2>6, <3>2
      <4>2. /\ At[f] # p /\ At[f] # r /\ At[f] + 1 # p /\ At[f] + 1 # r /\ At[f] + 2 # p
            /\ At[f] + 2 # r
            /\ At[f] \in Places /\ At[f] + 1 \in Places /\ At[f] + 2 \in Places
        BY <1>4, <3>2, OtherEngine
      <4>3. Q[At[f]] = P[At[f]] /\ Q[At[f] + 1] = P[At[f] + 1] /\ Q[At[f] + 2] = P[At[f] + 2]
        BY <2>11, <4>2
      <4> QED
        BY <1>0, <4>1, <4>3 DEF Chain
    <3> QED
      BY <3>1, <3>2
  <2>14. Q[1] = P[1] /\ Q[2] = P[2] /\ Q[12] = P[12] /\ Q[13] = P[13]
    BY <1>5, <2>11 DEF Places
  <2>15. DOMAIN cmd' = Burst!Engines /\ DOMAIN work' = Burst!Engines
         /\ DOMAIN out' = Burst!Engines
    BY <1>0, <1>1, <2>6 DEF Chain
  <2>16. Chain(Q, K, b, dum, st)'
    BY <1>0, <1>1, <2>13, <2>14, <2>15 DEF Chain
  <2>17. Stopping(Q, dum, st)'
    BY <1>0, <1>1, <2>6, <2>14 DEF Stopping
  <2>18. BurstTypes'
    BY <1>0, <1>11, <2>6 DEF BurstTypes
  <2>19. Good(b, Q, K, c, si, sk, cd, G, bn, cb, NB, U, A, dum, st)'
    BY <1>2, <1>3, <2>10, <2>16, <2>17, <2>18 DEF Good
  <2> QED
    BY <2>19 DEF BurstInv
<1>13. CASE P[p] = << >>
  <2>1. dum[e] = 1 /\ Head(C).id = Burst!Dummy /\ Stream("cmd", Tail(C), P[p], 0, K, b)
    BY <1>9, <1>13 DEF Stops
  <2>2. work' = work /\ burstOn' = [burstOn EXCEPT ![e] = FALSE]
    BY <1>1, <1>7, <2>1
  <2>3. PICK D : D = [dum EXCEPT ![e] = 0]
    OBVIOUS
  <2>4. /\ D \in [Burst!Engines -> {0, 1}] /\ D[e] = 0
        /\ \A f \in Burst!Engines : f # e => D[f] = dum[f]
    BY <1>0, <2>3 DEF Stopping
  <2>5. ASSUME NEW f \in Burst!Engines
        PROVE  /\ Stream("cmd", cmd'[f], P[At[f]], D[f], K, b)
               /\ Working(work'[f], P[At[f] + 1], K, b)
               /\ Stream("word", out'[f], P[At[f] + 2], 0, K, b)
    <3>1. CASE f = e
      <4>1. cmd'[f] = Tail(C) /\ work'[f] = work[f] /\ out'[f] = out[f]
        BY <1>1, <1>6, <1>7, <2>2, <3>1
      <4>2. Stream("word", out[f], P[At[f] + 2], 0, K, b)
            /\ Working(work[f], P[At[f] + 1], K, b)
        BY <1>0 DEF Chain
      <4>3. Stream("cmd", cmd'[f], P[At[f]], D[f], K, b)
        BY <1>4, <2>1, <2>4, <3>1, <4>1
      <4> QED
        BY <4>1, <4>2, <4>3
    <3>2. CASE f # e
      <4>1. cmd'[f] = cmd[f] /\ work'[f] = work[f] /\ out'[f] = out[f] /\ D[f] = dum[f]
        BY <1>1, <1>6, <2>2, <2>4, <3>2
      <4> QED
        BY <1>0, <4>1 DEF Chain
    <3> QED
      BY <3>1, <3>2
  <2>6. DOMAIN cmd' = Burst!Engines /\ DOMAIN work' = Burst!Engines
        /\ DOMAIN out' = Burst!Engines
    BY <1>0, <1>1, <2>2 DEF Chain
  <2>7. Chain(P, K, b, D, st)'
    BY <1>0, <1>1, <2>5, <2>6 DEF Chain
  <2>8. burstOn' \in [Burst!Engines -> BOOLEAN] /\ burstOn'[e] = FALSE
        /\ \A f \in Burst!Engines : f # e => burstOn'[f] = burstOn[f]
    BY <1>0, <2>2 DEF BurstTypes
  <2>9. Stopping(P, D, st)'
    <3>1. "one" \in Burst!Engines /\ "long" \in Burst!Engines /\ "single" \in Burst!Engines
          /\ e \in {"one", "long", "single"}
      BY DEF Burst!Engines
    <3>2. CASE e = "single"
      BY <1>0, <1>1, <2>1, <2>4, <2>8, <3>1, <3>2 DEF Stopping
    <3>3. CASE e = "long"
      BY <1>0, <1>1, <2>1, <2>4, <2>8, <3>1, <3>3 DEF Stopping
    <3>4. CASE e = "one"
      BY <1>0, <1>1, <2>1, <2>4, <2>8, <3>1, <3>4 DEF Stopping
    <3> QED
      BY <3>1, <3>2, <3>3, <3>4
  <2>10. BurstTypes'
    BY <1>11, <2>8
  <2>11. Good(b, P, K, c, si, sk, cd, G, bn, cb, NB, U, A, D, st)'
    BY <1>0, <1>2, <1>3, <2>7, <2>9, <2>10 DEF Good
  <2> QED
    BY <2>11 DEF BurstInv
<1> QED
  BY <1>12, <1>13

\* Reading and writing keep a stream within its depth.
LEMMA DepthKept ==
  ASSUME Burst!BurstAssumption, NEW s, IsSeq(s)
  PROVE  /\ s # << >> /\ Len(s) <= Depth => Len(Tail(s)) <= Depth
         /\ \A v : Burst!Room(s) => Len(Append(s, v)) <= Depth
<1>1. Depth \in Nat /\ Len(s) \in Nat
  BY SeqAt DEF Burst!BurstAssumption
<1>2. ASSUME s # << >>, Len(s) <= Depth PROVE Len(Tail(s)) <= Depth
  <2>1. PICK m, n : m = Len(Tail(s)) /\ n = Len(s)
    OBVIOUS
  <2>2. m = n - 1 /\ n \in Nat /\ n <= Depth
    BY <1>1, <1>2, <2>1, SeqAt
  <2>3. m <= Depth
    BY <1>1, <2>2
  <2> QED
    BY <2>1, <2>3
<1>3. ASSUME NEW v, Burst!Room(s) PROVE Len(Append(s, v)) <= Depth
  <2>1. PICK m, n : m = Len(Append(s, v)) /\ n = Len(s)
    OBVIOUS
  <2>2. m = n + 1 /\ n \in Nat /\ n < Depth
    BY <1>1, <1>3, <2>1, SeqAt DEF Burst!Room
  <2>3. m <= Depth
    BY <1>1, <2>2
  <2> QED
    BY <2>1, <2>3
<1> QED
  BY <1>2, <1>3

\* An engine sends the first of its words.
LEMMA WorkTail ==
  ASSUME Burst!BurstAssumption, NEW K, NEW b, NEW s, NEW x \in Item,
         Working(s, <<x>>, K, b), x.lo <= x.hi,
         NEW m, m = Piece(x, x.lo)
  PROVE  /\ WordIs(Head(s), m, K[x.req], b)
         /\ x.lo = x.hi => Working(Tail(s), << >>, K, b)
         /\ x.lo # x.hi => Working(Tail(s), <<Remainder(x, m)>>, K, b)
<1>1. PICK lo \in Nat, hi \in Nat : lo = x.lo /\ hi = x.hi /\ lo <= hi
  BY DEF Item
<1>2. <<x>>[1] = x /\ Len(<<x>>) = 1 /\ <<x>> # << >>
  OBVIOUS
<1>3. /\ IsSeq(s) /\ Len(s) <= MaxLen /\ Len(s) = hi - lo + 1
      /\ \A j \in 1..Len(s) : WordIs(s[j], Piece(x, lo + (j - 1)), K[x.req], b)
  BY <1>1, <1>2 DEF Working
<1>4. PICK t : t = Tail(s)
  OBVIOUS
<1>5. s # << >>
  <2>1. hi - lo + 1 # 0
    BY <1>1
  <2> QED
    BY <1>3, <2>1, SeqSmall
<1>6. /\ Head(s) = s[1] /\ IsSeq(t) /\ Len(t) = hi - lo /\ Len(s) = Len(t) + 1 /\ Len(t) \in Nat
      /\ \A j \in 1..Len(t) : t[j] = s[j + 1]
  <2>1. /\ Head(s) = s[1] /\ IsSeq(t) /\ Len(t) = Len(s) - 1 /\ Len(s) \in Nat
        /\ \A j \in 1..Len(t) : t[j] = s[j + 1]
    BY <1>3, <1>4, <1>5, SeqAt
  <2>2. Len(t) = hi - lo /\ Len(s) = Len(t) + 1 /\ hi - lo \in Nat
    BY <1>1, <1>3, <2>1
  <2> QED
    BY <2>1, <2>2
<1>7. WordIs(Head(s), m, K[x.req], b)
  <2>1. 1 \in 1..Len(s) /\ lo + (1 - 1) = lo
    BY <1>6
  <2>2. WordIs(s[1], Piece(x, lo + (1 - 1)), K[x.req], b)
    BY <1>3, <2>1
  <2> QED
    BY <1>1, <1>6, <2>1, <2>2
<1>8. ASSUME x.lo = x.hi PROVE Working(t, << >>, K, b)
  <2>1. Len(t) = 0
    BY <1>1, <1>6, <1>8
  <2>2. t = << >>
    BY <1>6, <2>1, SeqAt
  <2>3. Len(t) <= MaxLen
    BY <2>1 DEF Burst!BurstAssumption
  <2> QED
    BY <1>6, <2>1, <2>2, <2>3 DEF Working
<1>9. ASSUME x.lo # x.hi PROVE Working(t, <<Remainder(x, m)>>, K, b)
  <2>1. PICK y : y = Remainder(x, m)
    OBVIOUS
  <2>2. y = [x EXCEPT !.lo = lo + 1] /\ y.req = x.req /\ y.lo = lo + 1 /\ y.hi = hi
    BY <1>1, <2>1, PieceIs DEF Remainder, Item
  <2>3. ASSUME NEW j \in 1..Len(t) PROVE WordIs(t[j], Piece(y, y.lo + (j - 1)), K[y.req], b)
    <3>0. PICK n \in Nat : n = Len(t) /\ Len(s) = n + 1
      BY <1>6
    <3>1. j + 1 \in 1..Len(s) /\ lo + ((j + 1) - 1) = lo + j /\ y.lo + (j - 1) = lo + j
      <4>1. j \in 1..n
        BY <3>0
      <4>2. j + 1 \in 1..(n + 1) /\ lo + ((j + 1) - 1) = lo + j /\ (lo + 1) + (j - 1) = lo + j
        BY <1>1, <4>1
      <4> QED
        BY <2>2, <3>0, <4>2
    <3>2. WordIs(s[j + 1], Piece(x, lo + j), K[x.req], b)
      BY <1>3, <3>1
    <3>3. Piece(y, lo + j) = Piece(x, lo + j)
      BY <2>2 DEF Piece, Item
    <3> QED
      BY <1>6, <2>2, <3>1, <3>2, <3>3
  <2>4. <<y>>[1] = y /\ Len(<<y>>) = 1
    OBVIOUS
  <2>5. Len(t) = y.hi - y.lo + 1 /\ Len(t) <= MaxLen
    <3>1. hi - (lo + 1) + 1 = hi - lo
      BY <1>1
    <3>2. Len(t) = y.hi - y.lo + 1
      BY <1>6, <2>2, <3>1
    <3>3. Len(t) <= MaxLen
      <4>1. PICK a \in Nat : a = Len(t) /\ Len(s) = a + 1
        BY <1>6
      <4>2. a + 1 <= MaxLen
        BY <1>3, <4>1
      <4> QED
        BY <4>1, <4>2 DEF Burst!BurstAssumption
    <3> QED
      BY <3>2, <3>3
  <2>6. Working(t, <<y>>, K, b)
    BY <1>6, <2>3, <2>4, <2>5 DEF Working
  <2> QED
    BY <2>1, <2>6
<1> QED
  BY <1>4, <1>7, <1>8, <1>9

\* An engine sends a word of its command.
LEMMA SendWordKeeps ==
  ASSUME Burst!BurstAssumption, NEW b \in Base, NEW P, NEW K, NEW c, NEW si, NEW sk, NEW cd,
         NEW G, NEW bn, NEW cb, NEW NB, NEW U, NEW A, NEW dum, NEW st,
         Good(b, P, K, c, si, sk, cd, G, bn, cb, NB, U, A, dum, st),
         NEW e \in Burst!Engines, Burst!SendWord(e)
  PROVE  BurstInv'
<1>0. /\ Way(P, c, si, sk, cd, G, bn, cb, NB) /\ KeyTable(K, c, b, bn)
         /\ Chain(P, K, b, dum, st)
      /\ Sampling(K, si, sk) /\ Ids(b, NB, G, cb, cd) /\ Stopping(P, dum, st) /\ BurstTypes
  BY DEF Good
<1>1. /\ work[e] # << >> /\ Burst!Room(out[e])
      /\ out' = [out EXCEPT ![e] = Append(@, Head(work[e]))]
      /\ work' = [work EXCEPT ![e] = Tail(@)]
      /\ UNCHANGED <<lists, replies, burstRound, burstTodo, burstPc, next, update, vds, gen,
                     cmd, burstOn, dynamic, sync, seen, sampled, current>>
  BY DEF Burst!SendWord
<1>2. /\ Answers(c, si, sk, U, A, Len(replies))' /\ KeyTable(K, c, b, bn)'
         /\ Replying(U, A, K, b)'
      /\ Sampling(K, si, sk)'
  BY <1>0, <1>1, RestKept, SeenKept
<1>3. Ids(b, NB, G, cb, cd)'
  BY <1>0, <1>1 DEF Ids
<1>4. PICK p, r : p = At[e] + 1 /\ r = At[e] + 2
  OBVIOUS
<1>5. /\ p \in Places /\ r \in Places /\ p # r /\ <<p, r>> \in Routes /\ p # 2
      /\ r \notin {12, 13} /\ p \notin {1, 2, 12, 13} /\ r \notin {1, 2, 12, 13}
      /\ <<p, r>> \in {<<4, 5>>, <<7, 8>>, <<10, 11>>}
      /\ At[e] \in Places /\ At[e] # p /\ At[e] # r
  BY <1>4, AtApart
<1>a. (p = 4 /\ r = 5) \/ (p = 7 /\ r = 8) \/ (p = 10 /\ r = 11)
  BY <1>5
<1>6. /\ DOMAIN cmd = Burst!Engines /\ DOMAIN work = Burst!Engines /\ DOMAIN out = Burst!Engines
      /\ Working(work[e], P[p], K, b) /\ Stream("word", out[e], P[r], 0, K, b)
  BY <1>0, <1>4 DEF Chain
<1>7. Placing(P) /\ P[p] \in Seq(Item) /\ P[r] \in Seq(Item) /\ c \in Seq(Nat)
  BY <1>0, <1>5, PlacedItem DEF Way
<1>8. P[p] # << >> /\ Len(P[p]) = 1
  BY <1>1, <1>6 DEF Working
<1>9. PICK x \in Item :
           /\ x = P[p][1] /\ 1 \in 1..Len(P[p]) /\ Stands(p, x, c)
           /\ x.req \in 1..Len(c) /\ x.lo \in Nat /\ x.hi \in Nat /\ x.top \in Nat
              /\ x.num \in Nat
           /\ 1 <= x.lo /\ x.lo <= x.hi /\ x.hi <= x.top /\ x.top <= c[x.req]
           /\ c[x.req] \in Nat /\ c[x.req] # 0 /\ FrontOf(P, p, x) /\ c \in Seq(Nat)
  BY <1>0, <1>5, <1>8, HeadFacts
<1>10. P[p] = <<x>>
  <2>1. PICK t \in Seq(Item) : t = P[p]
    BY <1>7
  <2>2. Len(t) = 1 /\ t[1] = x
    BY <1>8, <1>9, <2>1
  <2>3. t = <<x>>
    BY <2>2
  <2> QED
    BY <2>1, <2>3
<1>11. PICK m : m = Piece(x, x.lo)
  OBVIOUS
<1>12. /\ m \in Item /\ m.req = x.req /\ m.num = x.num /\ m.top = x.top /\ m.lo = x.lo
          /\ m.hi = x.lo
  BY <1>9, <1>11, PieceIs
<1>13. /\ WordIs(Head(work[e]), m, K[x.req], b)
       /\ x.lo = x.hi => Working(Tail(work[e]), << >>, K, b)
       /\ x.lo # x.hi => Working(Tail(work[e]), <<Remainder(x, m)>>, K, b)
  <2>1. Working(work[e], <<x>>, K, b)
    BY <1>6, <1>10
  <2> QED
    BY <1>9, <1>11, <2>1, WorkTail
<1>14. PICK Q : Q = MoveTo(P, p, r, m)
  OBVIOUS
<1>15. FrontOf(P, p, m)
  BY <1>8, <1>9, <1>12 DEF FrontOf
<1>16. Way(Q, c, si, sk, cd, G, bn, cb, NB)
  <2>1. Stands(r, m, c)
    <3>1. CASE p = 4 /\ r = 5
      BY <1>9, <1>12, <3>1 DEF Stands
    <3>2. CASE p = 7 /\ r = 8
      BY <1>9, <1>12, <3>2 DEF Stands
    <3>3. CASE p = 10 /\ r = 11
      BY <1>9, <1>12, <3>3 DEF Stands
    <3> QED
      BY <1>a, <3>1, <3>2, <3>3
  <2>2. ASSUME m.hi < P[p][1].hi PROVE Stands(p, Remainder(P[p][1], m), c)
    <3>1. PICK y : y = Remainder(P[p][1], m)
      OBVIOUS
    <3>0. x.lo < x.hi
      BY <1>9, <1>12, <2>2
    <3>a. y = Remainder(x, m)
      BY <1>9, <3>1
    <3>2. y.req = x.req /\ y.lo = x.lo + 1 /\ y.hi = x.hi /\ y.top = x.top /\ x.lo < x.hi
      BY <1>12, <3>0, <3>a, RestItem
    <3>3. p \in {4, 7, 10}
      BY <1>a
    <3>4. Stands(p, y, c)
      BY <1>9, <3>2, <3>3 DEF Stands
    <3> QED
      BY <3>1, <3>4
  <2> QED
    BY <1>0, <1>5, <1>9, <1>12, <1>14, <1>15, <2>1, <2>2, StepInside
<1>17. /\ \A q \in Places : q # p /\ q # r => Q[q] = P[q]
       /\ Q[r] = Append(P[r], m)
       /\ x.lo = x.hi => Q[p] = << >>
       /\ x.lo # x.hi => Q[p] = <<Remainder(x, m)>>
  <2>1. /\ \A q \in Places : q # p /\ q # r => Q[q] = P[q]
        /\ Q[r] = Append(P[r], m)
        /\ Len(P[p]) = 1 /\ m.hi = x.hi => Q[p] = << >>
        /\ Len(P[p]) = 1 /\ m.hi # x.hi => Q[p] = <<Remainder(x, m)>>
    <3>1. Placing(P) /\ P[p] # << >> /\ x = P[p][1] /\ Q = MoveTo(P, p, r, m) /\ p # r
          /\ m \in Item
      BY <1>5, <1>7, <1>8, <1>9, <1>12, <1>14
    <3> QED
      BY <1>5, <3>1, MoveAt
  <2> QED
    BY <1>8, <1>12, <2>1
<1>18. Working(Tail(work[e]), Q[p], K, b)
  BY <1>13, <1>17
<1>19. Stream("word", Append(out[e], Head(work[e])), Q[r], 0, K, b)
  <2>1. PICK t \in Seq(Item) : t = P[r]
    BY <1>7
  <2>2. Like("word", Head(work[e]), m, K, b)
    BY <1>12, <1>13 DEF Like
  <2>3. Stream("word", out[e], t, 0, K, b)
    BY <1>6, <2>1
  <2>4. Stream("word", Append(out[e], Head(work[e])), Append(t, m), 0, K, b)
    BY <1>12, <2>2, <2>3, StreamWrite
  <2> QED
    BY <1>17, <2>1, <2>4
<1>20. ASSUME NEW f \in Burst!Engines
       PROVE  /\ Stream("cmd", cmd'[f], Q[At[f]], dum[f], K, b)
              /\ Working(work'[f], Q[At[f] + 1], K, b)
              /\ Stream("word", out'[f], Q[At[f] + 2], 0, K, b)
  <2>1. CASE f = e
    <3>1. cmd'[f] = cmd[f] /\ work'[f] = Tail(work[e])
          /\ out'[f] = Append(out[e], Head(work[e]))
      BY <1>1, <1>6, <2>1
    <3>2. Q[At[f]] = P[At[f]]
      BY <1>5, <1>17, <2>1
    <3>3. Stream("cmd", cmd[f], P[At[f]], dum[f], K, b)
      BY <1>0 DEF Chain
    <3> QED
      BY <1>4, <1>18, <1>19, <2>1, <3>1, <3>2, <3>3
  <2>2. CASE f # e
    <3>1. cmd'[f] = cmd[f] /\ work'[f] = work[f] /\ out'[f] = out[f]
      BY <1>1, <1>6, <2>2
    <3>2. /\ At[f] # p /\ At[f] # r /\ At[f] + 1 # p /\ At[f] + 1 # r /\ At[f] + 2 # p
          /\ At[f] + 2 # r
          /\ At[f] \in Places /\ At[f] + 1 \in Places /\ At[f] + 2 \in Places
      BY <1>4, <2>2, OtherEngine
    <3>3. Q[At[f]] = P[At[f]] /\ Q[At[f] + 1] = P[At[f] + 1] /\ Q[At[f] + 2] = P[At[f] + 2]
      BY <1>17, <3>2
    <3> QED
      BY <1>0, <3>1, <3>3 DEF Chain
  <2> QED
    BY <2>1, <2>2
<1>21. Q[1] = P[1] /\ Q[2] = P[2] /\ Q[12] = P[12] /\ Q[13] = P[13]
  BY <1>5, <1>17 DEF Places
<1>22. DOMAIN cmd' = Burst!Engines /\ DOMAIN work' = Burst!Engines
       /\ DOMAIN out' = Burst!Engines
  BY <1>1, <1>6
<1>23. Chain(Q, K, b, dum, st)'
  BY <1>0, <1>1, <1>20, <1>21, <1>22 DEF Chain
<1>24. Stopping(Q, dum, st)'
  BY <1>0, <1>1, <1>21 DEF Stopping
<1>25. BurstTypes'
  <2>1. \A f \in Burst!Engines : Len(cmd'[f]) <= Depth /\ Len(out'[f]) <= Depth
    <3> TAKE f \in Burst!Engines
    <3>1. CASE f # e
      BY <1>0, <1>1, <1>6, <3>1 DEF BurstTypes
    <3>2. CASE f = e
      <4>1. out'[f] = Append(out[e], Head(work[e])) /\ IsSeq(out[e]) /\ Len(cmd'[f]) <= Depth
        BY <1>0, <1>1, <1>6, <3>2 DEF BurstTypes, Stream
      <4> QED
        BY <1>1, <4>1, DepthKept
    <3> QED
      BY <3>1, <3>2
  <2> QED
    BY <1>0, <1>1, <2>1 DEF BurstTypes
<1>26. Good(b, Q, K, c, si, sk, cd, G, bn, cb, NB, U, A, dum, st)'
  BY <1>2, <1>3, <1>16, <1>23, <1>24, <1>25 DEF Good
<1> QED
  BY <1>26 DEF BurstInv

\* No two commands on their way have the same dynamic id, no two lists the same burst id.
LEMMA NumDue ==
  ASSUME Burst!BurstAssumption, NEW b \in Base, NEW P, NEW K, NEW c, NEW si, NEW sk, NEW cd,
         NEW G, NEW bn, NEW cb, NEW NB, NEW dum, NEW st,
         Way(P, c, si, sk, cd, G, bn, cb, NB), Chain(P, K, b, dum, st), BurstTypes
  PROVE  /\ \A q \in Cutting : P[q] # << >>
            /\ Id(b, P[q][1].num) = Id(b, cd) => P[q][1].num = cd
         /\ \A q \in Waiting : P[q] # << >> /\ Id(b, bn[P[q][1].req]) = Id(b, cb)
              => bn[P[q][1].req] = cb
<1>1. /\ Placing(P) /\ cd \in Nat /\ G \in Nat /\ cd <= G /\ Numbered(P, cd, G)
      /\ cb \in Nat /\ NB \in Nat /\ cb <= NB /\ Bursts(P, c, bn, cb, NB)
  BY DEF Way
<1>2. \A q \in Places : Len(P[q]) <= Depth
  BY <1>1, PlacesShort
<1>3. PICK D \in Nat, R \in Nat : D = Depth /\ R = IdRange /\ R >= 15 * D
  BY DEF Burst!BurstAssumption
<1>4. G <= cd + 15 * D /\ NB <= cb + 15 * D
  BY <1>2, <1>3, FewNumbers
<1>5. ASSUME NEW q \in Cutting, P[q] # << >>, Id(b, P[q][1].num) = Id(b, cd)
      PROVE  P[q][1].num = cd
  <2>1. q \in Places
    BY CuttingPlaces
  <2>2. PICK h \in Item :
           /\ h = P[q][1] /\ 1 \in 1..Len(P[q]) /\ h.num \in Nat
    BY <1>5, <2>1, HeadFacts
  <2>3. cd <= h.num /\ h.num < G
    BY <1>1, <2>2 DEF Numbered, NumRange
  <2>4. h.num < cd + R
    <3>1. PICK n \in Nat : n = h.num
      BY <2>2
    <3>2. n < cd + R
      BY <1>1, <1>3, <1>4, <2>3, <3>1
    <3> QED
      BY <3>1, <3>2
  <2> QED
    BY <1>1, <1>3, <1>5, <2>2, <2>3, <2>4, IdFacts
<1>6. ASSUME NEW q \in Waiting, P[q] # << >>, Id(b, bn[P[q][1].req]) = Id(b, cb)
      PROVE  bn[P[q][1].req] = cb
  <2>1. q \in Places
    BY WaitingPlaces
  <2>2. PICK h \in Item :
           /\ h = P[q][1] /\ 1 \in 1..Len(P[q]) /\ h.req \in 1..Len(c) /\ c[h.req] # 0
    BY <1>6, <2>1, HeadFacts
  <2>3. PICK n : n = bn[h.req]
    OBVIOUS
  <2>4. n \in Nat
    BY <1>1, <2>2, <2>3, RankedType DEF Bursts
  <2>5. cb <= n /\ n < NB
    BY <1>1, <2>2, <2>3 DEF Bursts, BurstRange, Ranked
  <2>6. n < cb + R
    BY <1>1, <1>3, <1>4, <2>4, <2>5
  <2> QED
    BY <1>1, <1>3, <1>6, <2>2, <2>3, <2>4, <2>5, <2>6, IdFacts
<1> QED
  BY <1>5, <1>6

\* The word of the command that is due goes to inter_merge.
LEMMA IntraMergeKeeps ==
  ASSUME Burst!BurstAssumption, NEW b \in Base, NEW P, NEW K, NEW c, NEW si, NEW sk, NEW cd,
         NEW G, NEW bn, NEW cb, NEW NB, NEW U, NEW A, NEW dum, NEW st,
         Good(b, P, K, c, si, sk, cd, G, bn, cb, NB, U, A, dum, st),
         NEW e \in Burst!Engines, Burst!IntraMerge(e)
  PROVE  BurstInv'
<1>0. /\ Way(P, c, si, sk, cd, G, bn, cb, NB) /\ KeyTable(K, c, b, bn)
         /\ Chain(P, K, b, dum, st)
      /\ Sampling(K, si, sk) /\ Ids(b, NB, G, cb, cd) /\ Stopping(P, dum, st) /\ BurstTypes
  BY DEF Good
<1>1. /\ e \in {"one", "long"}
      /\ out[e] # << >> /\ Head(out[e]).dyn = current.dyn /\ Burst!Room(dynamic)
      /\ dynamic' = Append(dynamic, Head(out[e]))
      /\ out' = [out EXCEPT ![e] = Tail(@)]
      /\ current' = IF Head(out[e]).frees THEN [current EXCEPT !.dyn = Burst!Succ(@)]
           ELSE current
      /\ UNCHANGED <<lists, replies, burstRound, burstTodo, burstPc, next, update, vds, gen,
                     cmd, burstOn, work, sync, seen, sampled>>
  BY DEF Burst!IntraMerge
<1>2. /\ Answers(c, si, sk, U, A, Len(replies))' /\ KeyTable(K, c, b, bn)'
         /\ Replying(U, A, K, b)'
      /\ Sampling(K, si, sk)'
  BY <1>0, <1>1, RestKept, SeenKept
<1>3. PICK p : p = At[e] + 2
  OBVIOUS
<1>4. p \in {8, 11}
  <2>1. At[e] \in {6, 9}
    BY <1>1, AtFacts
  <2> QED
    BY <1>3, <2>1
<1>5. p \in Places /\ p # 12 /\ 12 \in Places /\ p \in Cutting /\ p \notin {1, 2, 12, 13}
  BY <1>4 DEF Places, Cutting
<1>6. /\ DOMAIN out = Burst!Engines /\ Stream("word", out[e], P[p], 0, K, b)
      /\ Stream("word", dynamic, P[12], 0, K, b)
  BY <1>0, <1>3 DEF Chain
<1>7. Placing(P) /\ P[p] \in Seq(Item) /\ P[12] \in Seq(Item) /\ c \in Seq(Nat) /\ cd \in Nat
  BY <1>0, <1>5, PlacedItem DEF Way
<1>8. /\ P[p] # << >> /\ Like("word", Head(out[e]), P[p][1], K, b)
      /\ Stream("word", Tail(out[e]), Tail(P[p]), 0, K, b)
  <2>1. PICK t \in Seq(Item) : t = P[p]
    BY <1>7
  <2>2. Stream("word", out[e], t, 0, K, b)
    BY <1>6, <2>1
  <2>3. t # << >>
    BY <1>1, <2>2, StreamSize
  <2>4. Like("word", Head(out[e]), t[1], K, b) /\ Stream("word", Tail(out[e]), Tail(t), 0, K, b)
    BY <1>1, <2>2, <2>3, StreamRead
  <2> QED
    BY <2>1, <2>3, <2>4
<1>9. PICK h \in Item :
           /\ h = P[p][1] /\ 1 \in 1..Len(P[p]) /\ Stands(p, h, c)
           /\ h.req \in 1..Len(c) /\ h.lo \in Nat /\ h.hi \in Nat /\ h.top \in Nat
              /\ h.num \in Nat
           /\ 1 <= h.lo /\ h.lo <= h.hi /\ h.hi <= h.top /\ h.top <= c[h.req]
           /\ c[h.req] \in Nat /\ c[h.req] # 0 /\ FrontOf(P, p, h) /\ c \in Seq(Nat)
  BY <1>0, <1>5, <1>8, HeadFacts
<1>10. c[h.req] # 1 /\ h.lo = h.hi
  BY <1>4, <1>9 DEF Stands
<1>11. WordIs(Head(out[e]), h, K[h.req], b)
  BY <1>8, <1>9 DEF Like
<1>12. K[h.req].c # 1
  <2>1. PICK i \in 1..Len(c) : i = h.req
    BY <1>9
  <2>2. K[i].c = c[i]
    BY <1>0, <1>9, ListOf
  <2> QED
    BY <1>10, <2>1, <2>2
<1>13. Head(out[e]).dyn = Id(b, h.num)
  BY <1>11, <1>12 DEF WordIs
<1>14. Head(out[e]).frees <=> h.hi = h.top
  BY <1>11 DEF WordIs
<1>15. h.num = cd
  <2>1. current.dyn = Id(b, cd)
    BY <1>0 DEF Ids
  <2>2. Id(b, P[p][1].num) = Id(b, cd)
    BY <1>1, <1>9, <1>13, <2>1
  <2> QED
    BY <1>0, <1>5, <1>8, <1>9, <2>2, NumDue
<1>16. PICK f : f = IF h.hi = h.top THEN cd + 1 ELSE cd
  OBVIOUS
<1>17. PICK Q : Q = MoveTo(P, p, 12, h)
  OBVIOUS
<1>18. Way(Q, c, si, sk, f, G, bn, cb, NB)
  <2>1. Stands(12, h, c)
    <3>1. CASE p = 8
      BY <1>9, <3>1 DEF Stands
    <3>2. CASE p = 11
      BY <1>9, <3>2 DEF Stands
    <3> QED
      BY <1>4, <3>1, <3>2
  <2> QED
    BY <1>0, <1>4, <1>9, <1>15, <1>16, <1>17, <2>1, StepIntra
<1>19. Ids(b, NB, G, cb, f)'
  <2>1. next' = [sync |-> Id(b, Len(lists')), burst |-> Id(b, NB), dyn |-> Id(b, G)]
    BY <1>0, <1>1 DEF Ids
  <2>2. current = [sync |-> Id(b, Len(replies)), burst |-> Id(b, cb), dyn |-> Id(b, cd)]
        /\ replies' = replies
    BY <1>0, <1>1 DEF Ids
  <2>3. Burst!Succ(Id(b, cd)) = Id(b, cd + 1)
    BY <1>7, IdFacts
  <2>4. CASE h.hi = h.top
    BY <1>1, <1>14, <1>16, <2>1, <2>2, <2>3, <2>4 DEF Ids
  <2>5. CASE h.hi # h.top
    BY <1>1, <1>14, <1>16, <2>1, <2>2, <2>5 DEF Ids
  <2> QED
    BY <2>4, <2>5
<1>20. /\ \A q \in Places : q # p /\ q # 12 => Q[q] = P[q]
       /\ Q[12] = Append(P[12], h) /\ Q[p] = Tail(P[p])
  <2>1. Placing(P) /\ P[p] # << >> /\ h = P[p][1] /\ Q = MoveTo(P, p, 12, h) /\ p # 12
    BY <1>5, <1>7, <1>8, <1>9, <1>17
  <2> QED
    BY <1>5, <2>1, MoveWhole
<1>21. Stream("word", dynamic', Q[12], 0, K, b)
  <2>1. PICK t \in Seq(Item) : t = P[12]
    BY <1>7
  <2>2. Like("word", Head(out[e]), h, K, b) /\ Stream("word", dynamic, t, 0, K, b)
    BY <1>6, <1>8, <1>9, <2>1
  <2>3. Stream("word", Append(dynamic, Head(out[e])), Append(t, h), 0, K, b)
    BY <2>2, StreamWrite
  <2> QED
    BY <1>1, <1>20, <2>1, <2>3
<1>22. ASSUME NEW g \in Burst!Engines
       PROVE  /\ Stream("cmd", cmd'[g], Q[At[g]], dum[g], K, b)
              /\ Working(work'[g], Q[At[g] + 1], K, b)
              /\ Stream("word", out'[g], Q[At[g] + 2], 0, K, b)
  <2>0. cmd'[g] = cmd[g] /\ work'[g] = work[g]
    BY <1>1
  <2>a. /\ At[g] \in Places /\ At[g] + 1 \in Places /\ At[g] + 2 \in Places
        /\ At[g] # 12 /\ At[g] + 1 # 12 /\ At[g] + 2 # 12
    BY AtApart
  <2>1. CASE g = e
    <3>1. out'[g] = Tail(out[e])
      BY <1>1, <1>6, <2>1
    <3>2. At[g] # p /\ At[g] + 1 # p
      BY <1>3, <2>1, AtApart
    <3>3. Q[At[g]] = P[At[g]] /\ Q[At[g] + 1] = P[At[g] + 1]
      BY <1>20, <2>a, <3>2
    <3>4. Stream("cmd", cmd[g], P[At[g]], dum[g], K, b) /\ Working(work[g], P[At[g] + 1], K, b)
      BY <1>0 DEF Chain
    <3>5. Q[At[g] + 2] = Tail(P[p])
      BY <1>3, <1>20, <2>1
    <3> QED
      BY <1>8, <2>0, <3>1, <3>3, <3>4, <3>5
  <2>2. CASE g # e
    <3>1. out'[g] = out[g]
      BY <1>1, <1>6, <2>2
    <3>2. At[g] # p /\ At[g] + 1 # p /\ At[g] + 2 # p
      BY <1>3, <2>2, OtherEngine
    <3>3. Q[At[g]] = P[At[g]] /\ Q[At[g] + 1] = P[At[g] + 1] /\ Q[At[g] + 2] = P[At[g] + 2]
      BY <1>20, <2>a, <3>2
    <3> QED
      BY <1>0, <2>0, <3>1, <3>3 DEF Chain
  <2> QED
    BY <2>1, <2>2
<1>23. Q[1] = P[1] /\ Q[2] = P[2] /\ Q[13] = P[13]
  BY <1>5, <1>20 DEF Places
<1>24. DOMAIN cmd' = Burst!Engines /\ DOMAIN work' = Burst!Engines
       /\ DOMAIN out' = Burst!Engines
  BY <1>0, <1>1 DEF Chain
<1>25. Chain(Q, K, b, dum, st)'
  BY <1>0, <1>1, <1>21, <1>22, <1>23, <1>24 DEF Chain
<1>26. Stopping(Q, dum, st)'
  BY <1>0, <1>1, <1>23 DEF Stopping
<1>27. BurstTypes'
  <2>1. \A g \in Burst!Engines : Len(cmd'[g]) <= Depth /\ Len(out'[g]) <= Depth
    <3> TAKE g \in Burst!Engines
    <3>1. CASE g # e
      BY <1>0, <1>1, <1>6, <3>1 DEF BurstTypes
    <3>2. CASE g = e
      <4>1. out'[g] = Tail(out[e]) /\ IsSeq(out[e]) /\ Len(cmd'[g]) <= Depth
            /\ Len(out[e]) <= Depth
        BY <1>0, <1>1, <1>6, <3>2 DEF BurstTypes, Stream
      <4> QED
        BY <1>1, <4>1, DepthKept
    <3> QED
      BY <3>1, <3>2
  <2>2. Len(dynamic') <= Depth
    <3>1. IsSeq(dynamic)
      BY <1>6 DEF Stream
    <3> QED
      BY <1>1, <3>1, DepthKept
  <2> QED
    BY <1>0, <1>1, <2>1, <2>2 DEF BurstTypes
<1>28. Good(b, Q, K, c, si, sk, f, G, bn, cb, NB, U, A, dum, st)'
  BY <1>2, <1>18, <1>19, <1>25, <1>26, <1>27 DEF Good
<1> QED
  BY <1>28 DEF BurstInv

\* The word of the list that is due goes to the sampling kernels.
LEMMA InterMergeKeeps ==
  ASSUME Burst!BurstAssumption, NEW b \in Base, NEW P, NEW K, NEW c, NEW si, NEW sk, NEW cd,
         NEW G, NEW bn, NEW cb, NEW NB, NEW U, NEW A, NEW dum, NEW st,
         Good(b, P, K, c, si, sk, cd, G, bn, cb, NB, U, A, dum, st),
         NEW single \in BOOLEAN, Burst!InterMerge(single)
  PROVE  BurstInv'
<1>0. /\ Way(P, c, si, sk, cd, G, bn, cb, NB) /\ KeyTable(K, c, b, bn)
         /\ Chain(P, K, b, dum, st)
      /\ Sampling(K, si, sk) /\ Ids(b, NB, G, cb, cd) /\ Stopping(P, dum, st) /\ BurstTypes
  BY DEF Good
<1>1. PICK from : from = IF single THEN out["single"] ELSE dynamic
  OBVIOUS
<1>2. /\ from # << >> /\ Head(from).burst = current.burst /\ Burst!Room(sync)
      /\ sync' = Append(sync, Head(from))
      /\ current' = IF Head(from).ends THEN [current EXCEPT !.burst = Burst!Succ(@)]
           ELSE current
      /\ IF single
         THEN out' = [out EXCEPT !["single"] = Tail(@)] /\ UNCHANGED dynamic
         ELSE dynamic' = Tail(dynamic) /\ UNCHANGED out
      /\ UNCHANGED <<lists, replies, burstRound, burstTodo, burstPc, next, update, vds, gen,
                     cmd,
                     burstOn, work, seen, sampled>>
  BY <1>1 DEF Burst!InterMerge
<1>3. /\ Answers(c, si, sk, U, A, Len(replies))' /\ KeyTable(K, c, b, bn)'
         /\ Replying(U, A, K, b)'
      /\ Sampling(K, si, sk)'
  BY <1>0, <1>2, RestKept, SeenKept
<1>4. PICK p : p = IF single THEN 5 ELSE 12
  OBVIOUS
<1>a. /\ p \in {5, 12} /\ (single => p = 5) /\ (~single => p = 12)
  BY <1>4
<1>5. p \in Places /\ p # 13 /\ 13 \in Places /\ p \in Waiting /\ p \notin {1, 2, 13}
  BY <1>a DEF Places, Waiting
<1>6. /\ DOMAIN out = Burst!Engines /\ Stream("word", sync, P[13], 0, K, b)
      /\ Stream("word", from, P[p], 0, K, b)
  <2>1. DOMAIN out = Burst!Engines /\ Stream("word", sync, P[13], 0, K, b)
        /\ Stream("word", dynamic, P[12], 0, K, b)
    BY <1>0 DEF Chain
  <2>2. Stream("word", out["single"], P[At["single"] + 2], 0, K, b)
    BY <1>0, AtFacts DEF Chain
  <2>3. At["single"] + 2 = 5
    BY AtFacts
  <2>4. CASE single
    BY <1>1, <1>a, <2>1, <2>2, <2>3, <2>4
  <2>5. CASE ~single
    BY <1>1, <1>a, <2>1, <2>5
  <2> QED
    BY <2>4, <2>5
<1>7. Placing(P) /\ P[p] \in Seq(Item) /\ P[13] \in Seq(Item) /\ c \in Seq(Nat) /\ cb \in Nat
  BY <1>0, <1>5, PlacedItem DEF Way
<1>8. /\ P[p] # << >> /\ Like("word", Head(from), P[p][1], K, b)
      /\ Stream("word", Tail(from), Tail(P[p]), 0, K, b)
  <2>1. PICK t \in Seq(Item) : t = P[p]
    BY <1>7
  <2>2. Stream("word", from, t, 0, K, b)
    BY <1>6, <2>1
  <2>3. t # << >>
    BY <1>2, <2>2, StreamSize
  <2>4. Like("word", Head(from), t[1], K, b) /\ Stream("word", Tail(from), Tail(t), 0, K, b)
    BY <1>2, <2>2, <2>3, StreamRead
  <2> QED
    BY <2>1, <2>3, <2>4
<1>9. PICK h \in Item :
           /\ h = P[p][1] /\ 1 \in 1..Len(P[p]) /\ Stands(p, h, c)
           /\ h.req \in 1..Len(c) /\ h.lo \in Nat /\ h.hi \in Nat /\ h.top \in Nat
              /\ h.num \in Nat
           /\ 1 <= h.lo /\ h.lo <= h.hi /\ h.hi <= h.top /\ h.top <= c[h.req]
           /\ c[h.req] \in Nat /\ c[h.req] # 0 /\ FrontOf(P, p, h) /\ c \in Seq(Nat)
  BY <1>0, <1>5, <1>8, HeadFacts
<1>10. WordIs(Head(from), h, K[h.req], b)
  BY <1>8, <1>9 DEF Like
<1>11. K[h.req].c = c[h.req] /\ K[h.req].burst = Id(b, bn[h.req])
  <2>1. PICK i \in 1..Len(c) : i = h.req
    BY <1>9
  <2>2. K[i].c = c[i] /\ K[i].burst = Id(b, bn[i])
    BY <1>0, <1>9, ListOf
  <2> QED
    BY <2>1, <2>2
<1>12. Head(from).burst = Id(b, bn[h.req]) /\ (Head(from).ends <=> h.hi = c[h.req])
  BY <1>10, <1>11 DEF WordIs
<1>13. bn[h.req] = cb
  <2>1. current.burst = Id(b, cb)
    BY <1>0 DEF Ids
  <2>2. Id(b, bn[P[p][1].req]) = Id(b, cb)
    BY <1>2, <1>9, <1>12, <2>1
  <2> QED
    BY <1>0, <1>5, <1>8, <1>9, <2>2, NumDue
<1>14. PICK f : f = IF h.hi = c[h.req] THEN cb + 1 ELSE cb
  OBVIOUS
<1>15. PICK Q : Q = MoveTo(P, p, 13, h)
  OBVIOUS
<1>16. Way(Q, c, si, sk, cd, G, bn, f, NB)
  <2>1. Stands(13, h, c)
    <3>1. CASE p = 5
      BY <1>9, <3>1 DEF Stands
    <3>2. CASE p = 12
      BY <1>9, <3>2 DEF Stands
    <3> QED
      BY <1>a, <3>1, <3>2
  <2> QED
    BY <1>0, <1>a, <1>9, <1>13, <1>14, <1>15, <2>1, StepInter
<1>17. Ids(b, NB, G, f, cd)'
  <2>1. next' = [sync |-> Id(b, Len(lists')), burst |-> Id(b, NB), dyn |-> Id(b, G)]
    BY <1>0, <1>2 DEF Ids
  <2>2. current = [sync |-> Id(b, Len(replies)), burst |-> Id(b, cb), dyn |-> Id(b, cd)]
        /\ replies' = replies
    BY <1>0, <1>2 DEF Ids
  <2>3. Burst!Succ(Id(b, cb)) = Id(b, cb + 1)
    BY <1>7, IdFacts
  <2>4. CASE h.hi = c[h.req]
    BY <1>2, <1>12, <1>14, <2>1, <2>2, <2>3, <2>4 DEF Ids
  <2>5. CASE h.hi # c[h.req]
    BY <1>2, <1>12, <1>14, <2>1, <2>2, <2>5 DEF Ids
  <2> QED
    BY <2>4, <2>5
<1>18. /\ \A q \in Places : q # p /\ q # 13 => Q[q] = P[q]
       /\ Q[13] = Append(P[13], h) /\ Q[p] = Tail(P[p])
  <2>1. Placing(P) /\ P[p] # << >> /\ h = P[p][1] /\ Q = MoveTo(P, p, 13, h) /\ p # 13
    BY <1>5, <1>7, <1>8, <1>9, <1>15
  <2> QED
    BY <1>5, <2>1, MoveWhole
<1>19. Stream("word", sync', Q[13], 0, K, b)
  <2>1. PICK t \in Seq(Item) : t = P[13]
    BY <1>7
  <2>2. Like("word", Head(from), h, K, b) /\ Stream("word", sync, t, 0, K, b)
    BY <1>6, <1>8, <1>9, <2>1
  <2>3. Stream("word", Append(sync, Head(from)), Append(t, h), 0, K, b)
    BY <2>2, StreamWrite
  <2> QED
    BY <1>2, <1>18, <2>1, <2>3
<1>20. Q[1] = P[1] /\ Q[2] = P[2]
  BY <1>5, <1>18 DEF Places
<1>21. ASSUME NEW g \in Burst!Engines
       PROVE  /\ Stream("cmd", cmd'[g], Q[At[g]], dum[g], K, b)
              /\ Working(work'[g], Q[At[g] + 1], K, b)
              /\ Stream("word", out'[g], Q[At[g] + 2], 0, K, b)
  <2>0. cmd'[g] = cmd[g] /\ work'[g] = work[g]
    BY <1>2
  <2>a. /\ At[g] \in Places /\ At[g] + 1 \in Places /\ At[g] + 2 \in Places
        /\ At[g] \notin {12, 13} /\ At[g] + 1 \notin {12, 13} /\ At[g] + 2 \notin {12, 13}
    BY AtApart
  <2>b. /\ Stream("cmd", cmd[g], P[At[g]], dum[g], K, b) /\ Working(work[g], P[At[g] + 1], K, b)
        /\ Stream("word", out[g], P[At[g] + 2], 0, K, b)
    BY <1>0 DEF Chain
  <2>1. CASE ~single
    <3>1. out'[g] = out[g] /\ At[g] # p /\ At[g] + 1 # p /\ At[g] + 2 # p
      BY <1>2, <1>a, <2>1, <2>a
    <3>2. Q[At[g]] = P[At[g]] /\ Q[At[g] + 1] = P[At[g] + 1] /\ Q[At[g] + 2] = P[At[g] + 2]
      BY <1>18, <2>a, <3>1
    <3> QED
      BY <2>0, <2>b, <3>1, <3>2
  <2>2. CASE single /\ g = "single"
    <3>1. out'[g] = Tail(from) /\ At[g] = 3 /\ p = 5
      BY <1>1, <1>2, <1>6, <1>a, <2>2, AtFacts
    <3>2. Q[At[g]] = P[At[g]] /\ Q[At[g] + 1] = P[At[g] + 1] /\ Q[At[g] + 2] = Tail(P[p])
      <4>1. 3 \in Places /\ 4 \in Places /\ 3 + 1 = 4 /\ 3 + 2 = 5
        BY DEF Places
      <4>2. Q[3] = P[3] /\ Q[4] = P[4] /\ Q[5] = Tail(P[p])
        BY <1>18, <3>1, <4>1
      <4> QED
        BY <3>1, <4>1, <4>2
    <3> QED
      BY <1>8, <2>0, <2>b, <3>1, <3>2
  <2>3. CASE single /\ g # "single"
    <3>1. out'[g] = out[g]
      BY <1>2, <1>6, <2>3
    <3>2. At[g] # p /\ At[g] + 1 # p /\ At[g] + 2 # p
      <4>1. At["single"] = 3 /\ "single" \in Burst!Engines
        BY AtFacts
      <4>2. /\ At[g] # 3 + 2 /\ At[g] + 1 # 3 + 2 /\ At[g] + 2 # 3 + 2
        BY <2>3, <4>1, OtherEngine
      <4>3. p = 3 + 2
        BY <1>a, <2>3
      <4> QED
        BY <4>2, <4>3
    <3>3. Q[At[g]] = P[At[g]] /\ Q[At[g] + 1] = P[At[g] + 1] /\ Q[At[g] + 2] = P[At[g] + 2]
      BY <1>18, <2>a, <3>2
    <3> QED
      BY <2>0, <2>b, <3>1, <3>3
  <2> QED
    BY <2>1, <2>2, <2>3
<1>22. DOMAIN cmd' = Burst!Engines /\ DOMAIN work' = Burst!Engines
       /\ DOMAIN out' = Burst!Engines
  BY <1>0, <1>2 DEF Chain
<1>23. Stream("word", dynamic', Q[12], 0, K, b)
  <2>1. CASE single
    <3>1. Q[12] = P[12]
      BY <1>18, <1>a, <2>1 DEF Places
    <3> QED
      BY <1>0, <1>2, <2>1, <3>1 DEF Chain
  <2>2. CASE ~single
    BY <1>1, <1>2, <1>8, <1>18, <1>a, <2>2
  <2> QED
    BY <2>1, <2>2
<1>24. Chain(Q, K, b, dum, st)'
  BY <1>0, <1>2, <1>19, <1>20, <1>21, <1>22, <1>23 DEF Chain
<1>25. Stopping(Q, dum, st)'
  BY <1>0, <1>2, <1>20 DEF Stopping
<1>26. BurstTypes'
  <2>0. IsSeq(from) /\ IsSeq(sync)
    BY <1>6 DEF Stream
  <2>1. \A g \in Burst!Engines : Len(cmd'[g]) <= Depth /\ Len(out'[g]) <= Depth
    <3> TAKE g \in Burst!Engines
    <3>1. CASE ~(single /\ g = "single")
      BY <1>0, <1>2, <1>6, <3>1 DEF BurstTypes
    <3>2. CASE single /\ g = "single"
      <4>1. out'[g] = Tail(from) /\ Len(cmd'[g]) <= Depth /\ Len(from) <= Depth
        BY <1>0, <1>1, <1>2, <1>6, <3>2 DEF BurstTypes
      <4> QED
        BY <1>2, <2>0, <4>1, DepthKept
    <3> QED
      BY <3>1, <3>2
  <2>2. Len(sync') <= Depth
    BY <1>2, <2>0, DepthKept
  <2>3. Len(dynamic') <= Depth
    <3>1. Len(dynamic) <= Depth
      BY <1>0 DEF BurstTypes
    <3>2. CASE single
      BY <1>2, <3>1, <3>2
    <3>3. CASE ~single
      <4>1. dynamic' = Tail(from) /\ Len(from) <= Depth
        BY <1>1, <1>2, <3>1, <3>3
      <4> QED
        BY <1>2, <2>0, <4>1, DepthKept
    <3> QED
      BY <3>2, <3>3
  <2> QED
    BY <1>0, <1>2, <2>1, <2>2, <2>3 DEF BurstTypes
<1>27. Good(b, Q, K, c, si, sk, cd, G, bn, f, NB, U, A, dum, st)'
  BY <1>3, <1>16, <1>17, <1>24, <1>25, <1>26 DEF Good
<1> QED
  BY <1>27 DEF BurstInv

\* Every entry of a list is in one of its words.
LEMMA AllWords ==
  ASSUME Burst!BurstAssumption, NEW l \in Nat \X Nat, l[2] # 0, NEW c, c = Count(l)
  PROVE  UNION {EntriesOf(l, i) : i \in 1..c} = AllEntries(l)
<1>1. PICK x \in Nat, y \in Nat : x = l[1] /\ y = l[2]
  OBVIOUS
<1>2. /\ c \in Nat /\ Addr(l, 1) <= x /\ x + y <= Addr(l, c + 1)
  BY <1>1, ListFacts
<1>3. PICK a \in Nat : a = Addr(l, 1) /\ a = Align(x)
  <2>1. Addr(l, 1) = Align(x) /\ Addr(l, 0 + 1) \in Nat
    BY <1>1, AddrFacts
  <2> QED
    BY <2>1
<1>4. ASSUME NEW e \in UNION {EntriesOf(l, i) : i \in 1..c} PROVE e \in AllEntries(l)
  <2>1. PICK i \in 1..c : e \in EntriesOf(l, i)
    OBVIOUS
  <2>2. e \in Addr(l, i)..(Addr(l, i) + Word - 1) /\ l[1] <= e /\ e < l[1] + l[2]
    BY <2>1 DEF EntriesOf
  <2>3. e \in Int
    BY <2>2
  <2>4. e \in x..(x + y - 1)
    BY <1>1, <2>2, <2>3
  <2> QED
    BY <1>1, <2>4 DEF AllEntries
<1>5. ASSUME NEW e \in AllEntries(l) PROVE e \in UNION {EntriesOf(l, i) : i \in 1..c}
  <2>1. e \in Nat /\ x <= e /\ e < x + y
    BY <1>1, <1>5 DEF AllEntries
  <2>2. PICK d \in Nat : d = e - a
    <3>1. e - a \in Nat
      BY <1>2, <1>3, <2>1
    <3> QED
      BY <3>1
  <2>3. PICK q \in Nat, r \in Nat : d = Off(q) + r /\ r < Word
    <3>1. /\ d \div Word \in Nat /\ d % Word \in Nat /\ d % Word < Word
          /\ d = Off(d \div Word) + (d % Word)
      BY DivMod
    <3> QED
      BY <3>1
  <2>4. Addr(l, q + 1) = a + Off(q)
    <3>1. (q + 1) - 1 = q
      OBVIOUS
    <3> QED
      BY <1>1, <1>3, <3>1 DEF Addr
  <2>5. Addr(l, c + 1) = a + Off(c)
    <3>1. (c + 1) - 1 = c
      BY <1>2
    <3> QED
      BY <1>1, <1>3, <3>1 DEF Addr
  <2>6. Off(q) \in Nat /\ Off(c) \in Nat /\ Word \in Nat /\ Word # 0
    BY <1>2, OffType
  <2>7. q < c
    <3>1. SUFFICES ASSUME ~(q < c) PROVE FALSE
      OBVIOUS
    <3>2. c = q \/ c < q
      BY <1>2, <3>1
    <3>3. Off(c) <= Off(q)
      <4>1. CASE c = q
        BY <2>6, <4>1
      <4>2. CASE c < q
        <5>1. Off(c) + Word <= Off(q)
          BY <1>2, <4>2, OffLess
        <5> QED
          BY <2>6, <5>1
      <4> QED
        BY <3>2, <4>1, <4>2
    <3> QED
      BY <1>2, <2>1, <2>2, <2>3, <2>5, <2>6, <3>3
  <2>8. PICK i \in 1..c : i = q + 1
    <3>1. q + 1 \in 1..c
      BY <1>2, <2>7
    <3> QED
      BY <3>1
  <2>9. e \in Addr(l, i)..(Addr(l, i) + Word - 1)
    <3>1. PICK z : z = Addr(l, i)
      OBVIOUS
    <3>2. z = a + Off(q)
      BY <2>4, <2>8, <3>1
    <3>3. e \in z..(z + Word - 1)
      BY <2>1, <2>2, <2>3, <2>6, <3>2
    <3> QED
      BY <3>1, <3>3
  <2>10. e \in EntriesOf(l, i)
    BY <1>1, <2>1, <2>9 DEF EntriesOf
  <2> QED
    BY <2>10
<1> QED
  BY <1>4, <1>5

\* The words of a list up to one, and up to the next.
LEMMA AppendWord ==
  ASSUME NEW n \in Nat, n # 0, NEW l, NEW s, s = [i \in 1..(n - 1) |-> Addr(l, i)]
  PROVE  Append(s, Addr(l, n)) = [i \in 1..n |-> Addr(l, i)]
<1>1. PICK S : S = {Addr(l, i) : i \in 1..n}
  OBVIOUS
<1>2. PICK f : f = [i \in 1..n |-> Addr(l, i)]
  OBVIOUS
<1>3. f \in [1..n -> S]
  BY <1>1, <1>2
<1>4. f \in Seq(S) /\ Len(f) = n
  BY <1>3
<1>5. n - 1 \in Nat /\ \A i \in 1..(n - 1) : i \in 1..n
  OBVIOUS
<1>6. s \in [1..(n - 1) -> S]
  BY <1>1, <1>5
<1>7. s \in Seq(S) /\ Len(s) = n - 1
  BY <1>5, <1>6
<1>8. Addr(l, n) \in S
  <2>1. n \in 1..n
    OBVIOUS
  <2> QED
    BY <1>1, <2>1
<1>9. PICK g : g = Append(s, Addr(l, n))
  OBVIOUS
<1>10. /\ g \in Seq(S) /\ Len(g) = Len(s) + 1 /\ g[Len(s) + 1] = Addr(l, n)
       /\ \A i \in 1..Len(s) : g[i] = s[i]
  BY <1>7, <1>8, <1>9, AppendAt
<1>11. Len(g) = n /\ g[n] = Addr(l, n)
  <2>1. (n - 1) + 1 = n
    OBVIOUS
  <2> QED
    BY <1>7, <1>10, <2>1
<1>12. \A i \in 1..n : g[i] = f[i]
  <2> TAKE i \in 1..n
  <2>1. CASE i = n
    BY <1>2, <1>11, <2>1
  <2>2. CASE i # n
    <3>1. i \in 1..(n - 1)
      BY <2>2
    <3> QED
      BY <1>2, <1>7, <1>10, <3>1
  <2> QED
    BY <2>1, <2>2
<1>13. g = f
  BY <1>4, <1>10, <1>11, <1>12, SeqEqual
<1> QED
  BY <1>2, <1>9, <1>13

\* Word n, the first of item h, is the next one sample sees.
NextSeen(P, K, c, h, n) ==
  /\ h = P[13][1] /\ h.req \in 1..Len(c) /\ h.lo = n /\ h.hi = n /\ n # 0 /\ n <= c[h.req]
  /\ seen.words = [i \in 1..(n - 1) |-> Addr(K[h.req].l, i)]
  /\ Exact => seen.entries = UNION {EntriesOf(K[h.req].l, i) : i \in 1..(n - 1)}

\* What sample has seen of the list the next word belongs to.
LEMMA SeenSoFar ==
  ASSUME Burst!BurstAssumption, NEW b, NEW P, NEW K, NEW c, NEW si, NEW sk, NEW cd,
         NEW G, NEW bn, NEW cb, NEW NB, Way(P, c, si, sk, cd, G, bn, cb, NB),
         KeyTable(K, c, b, bn), Sampling(K, si, sk), P[13] # << >>
  PROVE  \E h \in Item, n \in Nat : NextSeen(P, K, c, h, n)
<1>1. /\ Placing(P) /\ c \in Seq(Nat) /\ Located(P, c) /\ Ordered(P) /\ Progress(c, si, sk)
      /\ Present(P, c, si, sk) /\ Unseen(P, si, sk)
  BY DEF Way
<1>2. PICK h \in Item :
           /\ h = P[13][1] /\ h.req \in 1..Len(c) /\ h.lo = h.hi /\ 1 <= h.lo
           /\ h.lo <= c[h.req] /\ si <= h.req
           /\ h.req = si => h.lo = sk + 1
           /\ h.req # si => h.lo = 1 /\ (si # 0 => sk = c[si])
  BY <1>1, NextWord
<1>3. PICK n \in Nat : n = h.lo /\ n # 0
  BY <1>2 DEF Item
<1>4. CASE h.req = si
  <2>1. si # 0 /\ sk \in Nat /\ n - 1 = sk /\ sk < c[si]
    <3>1. si \in 0..Len(c) /\ sk \in Nat /\ h.req # 0 /\ c[h.req] \in Nat
      BY <1>1, <1>2 DEF Progress
    <3> QED
      BY <1>2, <1>3, <1>4, <3>1
  <2>2. K[si].c = c[si]
    <3>1. PICK i \in 1..Len(c) : i = si
      BY <1>2, <1>4
    <3>2. K[i].c = c[i]
      BY <1>1, ListOf
    <3> QED
      BY <3>1, <3>2
  <2>3. /\ seen.words = [i \in 1..sk |-> Addr(K[si].l, i)]
        /\ Exact => seen.entries = UNION {EntriesOf(K[si].l, i) : i \in 1..sk}
    BY <2>1, <2>2 DEF Sampling
  <2>4. /\ seen.words = [i \in 1..(n - 1) |-> Addr(K[h.req].l, i)]
        /\ Exact => seen.entries = UNION {EntriesOf(K[h.req].l, i) : i \in 1..(n - 1)}
    BY <1>4, <2>1, <2>3
  <2> QED
    BY <1>2, <1>3, <2>4 DEF NextSeen
<1>5. CASE h.req # si
  <2>1. ~(si # 0 /\ sk < K[si].c)
    <3>1. SUFFICES ASSUME si # 0 PROVE ~(sk < K[si].c)
      OBVIOUS
    <3>2. PICK i \in 1..Len(c) : i = si
      BY <1>1, <3>1 DEF Progress
    <3>3. K[i].c = c[i]
      BY <1>1, ListOf
    <3>4. sk = c[si] /\ sk \in Nat
      BY <1>1, <1>2, <1>5, <3>1 DEF Progress
    <3> QED
      BY <3>2, <3>3, <3>4
  <2>2. seen = Burst!Nothing
    BY <2>1 DEF Sampling
  <2>3. n = 1 /\ n - 1 = 0
    BY <1>2, <1>3, <1>5
  <2>4. 1..(n - 1) = {}
    BY <2>3
  <2>5. seen.words = << >> /\ seen.entries = {}
    BY <2>2 DEF Burst!Nothing
  <2>6. [i \in 1..(n - 1) |-> Addr(K[h.req].l, i)] = << >>
    BY <2>4
  <2>7. UNION {EntriesOf(K[h.req].l, i) : i \in 1..(n - 1)} = {}
    BY <2>4
  <2> QED
    BY <1>2, <1>3, <2>5, <2>6, <2>7 DEF NextSeen
<1> QED
  BY <1>4, <1>5

\* sample goes through a word, and answers at the one that ends the list.
LEMMA SampleKeeps ==
  ASSUME Burst!BurstAssumption, NEW b \in Base, NEW P, NEW K, NEW c, NEW si, NEW sk, NEW cd,
         NEW G, NEW bn, NEW cb, NEW NB, NEW U, NEW A, NEW dum, NEW st,
         Good(b, P, K, c, si, sk, cd, G, bn, cb, NB, U, A, dum, st),
         Burst!Sample
  PROVE  BurstInv'
<1>0. /\ Way(P, c, si, sk, cd, G, bn, cb, NB) /\ KeyTable(K, c, b, bn)
         /\ Chain(P, K, b, dum, st)
      /\ Sampling(K, si, sk) /\ Ids(b, NB, G, cb, cd) /\ Stopping(P, dum, st) /\ BurstTypes
      /\ Answers(c, si, sk, U, A, Len(replies)) /\ Replying(U, A, K, b)
  BY DEF Good
<1>1. PICK w, now : w = Head(sync) /\ now = [words |-> Append(seen.words, w.addr),
                                             entries |-> seen.entries \cup w.entries]
  OBVIOUS
<1>2. /\ sync # << >> /\ sync' = Tail(sync)
      /\ IF w.ends
         THEN /\ Burst!Room(sampled)
              /\ sampled' = Append(sampled, Burst!Result(w.id, w.last, now))
              /\ seen' = Burst!Nothing
         ELSE seen' = now /\ UNCHANGED sampled
      /\ UNCHANGED <<lists, replies, burstRound, burstTodo, burstPc, next, update, vds, gen,
                     cmd,
                     burstOn, work, out, dynamic, current>>
  BY <1>1 DEF Burst!Sample
<1>3. /\ Placing(P) /\ P[13] \in Seq(Item) /\ c \in Seq(Nat) /\ 13 \in Places
      /\ Stream("word", sync, P[13], 0, K, b)
  <2>1. 13 \in Places
    BY DEF Places
  <2> QED
    BY <1>0, <2>1, PlacedItem DEF Way, Chain
<1>4. /\ P[13] # << >> /\ Like("word", w, P[13][1], K, b)
      /\ Stream("word", Tail(sync), Tail(P[13]), 0, K, b)
  <2>1. PICK t \in Seq(Item) : t = P[13]
    BY <1>3
  <2>2. Stream("word", sync, t, 0, K, b)
    BY <1>3, <2>1
  <2>3. t # << >>
    BY <1>2, <2>2, StreamSize
  <2>4. Like("word", Head(sync), t[1], K, b) /\ Stream("word", Tail(sync), Tail(t), 0, K, b)
    BY <1>2, <2>2, <2>3, StreamRead
  <2> QED
    BY <1>1, <2>1, <2>3, <2>4
<1>5. PICK h \in Item, n \in Nat :
           /\ h = P[13][1] /\ h.req \in 1..Len(c) /\ h.lo = n /\ h.hi = n /\ n # 0
              /\ n <= c[h.req]
           /\ seen.words = [i \in 1..(n - 1) |-> Addr(K[h.req].l, i)]
           /\ Exact => seen.entries = UNION {EntriesOf(K[h.req].l, i) : i \in 1..(n - 1)}
  <2>1. PICK h \in Item, n \in Nat : NextSeen(P, K, c, h, n)
    BY <1>0, <1>4, SeenSoFar
  <2> QED
    BY <2>1 DEF NextSeen
<1>6. PICK r \in 1..Len(c) : r = h.req
  BY <1>5
<1>7. PICK k : k = K[r]
  OBVIOUS
<1>8. /\ k.l \in Nat \X Nat /\ k.c = c[r] /\ k.c = Count(k.l) /\ (k.l[2] = 0 <=> k.c = 0)
         /\ k.c \in Nat
  BY <1>0, <1>3, <1>7, ListOf
<1>9. WordIs(w, h, k, b)
  BY <1>4, <1>5, <1>6, <1>7 DEF Like
<1>10. /\ w.addr = Addr(k.l, n) /\ w.id = k.id /\ (w.ends <=> n = k.c)
          /\ (w.ends => w.last = k.last)
       /\ Exact => w.entries = EntriesOf(k.l, n)
  BY <1>5, <1>9 DEF WordIs
<1>11. now.words = [i \in 1..n |-> Addr(k.l, i)]
  <2>1. PICK s : s = seen.words
    OBVIOUS
  <2>2. s = [i \in 1..(n - 1) |-> Addr(k.l, i)]
    BY <1>5, <1>6, <1>7, <2>1
  <2>3. Append(s, Addr(k.l, n)) = [i \in 1..n |-> Addr(k.l, i)]
    BY <1>5, <2>2, AppendWord
  <2> QED
    BY <1>1, <1>10, <2>1, <2>3
<1>12. ASSUME Exact PROVE now.entries = UNION {EntriesOf(k.l, i) : i \in 1..n}
  <2>1. seen.entries = UNION {EntriesOf(k.l, i) : i \in 1..(n - 1)}
    BY <1>5, <1>6, <1>7, <1>12
  <2>2. 1..n = (1..(n - 1)) \cup {n}
    BY <1>5
  <2>3. UNION {EntriesOf(k.l, i) : i \in 1..n}
          = (UNION {EntriesOf(k.l, i) : i \in 1..(n - 1)}) \cup EntriesOf(k.l, n)
    BY <2>2
  <2> QED
    BY <1>1, <1>10, <1>12, <2>1, <2>3
<1>13. PICK Q : Q = Leave(P)
  OBVIOUS
<1>14. Way(Q, c, h.req, h.lo, cd, G, bn, cb, NB)
  BY <1>0, <1>4, <1>5, <1>13, LeaveWay
<1>15. Q[13] = Tail(P[13]) /\ \A q \in Places : q # 13 => Q[q] = P[q]
  BY <1>3, <1>13 DEF Leave, Placing
<1>16. PICK B : B = IF h.hi = c[h.req] THEN Append(A, h.req) ELSE A
  OBVIOUS
<1>17. Answers(c, h.req, h.lo, U, B, Len(replies))
  <2>1. PICK N : N = Len(replies)
    OBVIOUS
  <2>2. Answers(c, si, sk, U, A, N) /\ h = P[13][1]
    BY <1>0, <1>5, <2>1
  <2>a. Way(P, c, si, sk, cd, G, bn, cb, NB) /\ P[13] # << >>
    BY <1>0, <1>4
  <2>b. \A x, y : x = P[13][1] /\ y = (IF x.hi = c[x.req] THEN Append(A, x.req) ELSE A)
                  => Answers(c, x.req, x.lo, U, y, N)
    BY <2>2, <2>a, AnswersLeave
  <2>3. Answers(c, h.req, h.lo, U, B, N)
    BY <1>16, <2>2, <2>b
  <2> QED
    BY <2>1, <2>3
<1>18. Answers(c, h.req, h.lo, U, B, Len(replies))'
  <2>1. replies' = replies
    BY <1>2
  <2> QED
    BY <1>17, <2>1
<1>19. KeyTable(K, c, b, bn)'
  BY <1>0, <1>2 DEF KeyTable
<1>20. Ids(b, NB, G, cb, cd)'
  BY <1>0, <1>2 DEF Ids
<1>21. w.ends <=> h.hi = c[h.req]
  BY <1>5, <1>6, <1>8, <1>10
<1>22. IsSeq(sampled) /\ A \in Seq(Nat)
  BY <1>0 DEF Replying, Stream, Answers, Rising
<1>23. Stream("answer", sampled', B, 0, K, b)
  <2>0. Stream("answer", sampled, A, 0, K, b)
    BY <1>0 DEF Replying
  <2>1. CASE w.ends
    <3>1. n = k.c /\ k.c # 0
      BY <1>5, <1>10, <2>1
    <3>2. PICK v : v = Burst!Result(w.id, w.last, now)
      OBVIOUS
    <3>3. v = [id |-> w.id, last |-> w.last, words |-> now.words, entries |-> now.entries]
      BY <3>2 DEF Burst!Result
    <3>4. v.id = k.id /\ v.last = k.last /\ v.words = [i \in 1..k.c |-> Addr(k.l, i)]
      BY <1>10, <1>11, <2>1, <3>1, <3>3
    <3>5. Exact => v.entries = AllEntries(k.l)
      <4>1. UNION {EntriesOf(k.l, i) : i \in 1..k.c} = AllEntries(k.l)
        BY <1>8, <3>1, AllWords
      <4> QED
        BY <1>12, <3>1, <3>3, <4>1
    <3>6. AnswerIs(v, k)
      BY <3>4, <3>5 DEF AnswerIs
    <3>7. Like("answer", v, r, K, b) /\ r \in Nat
      BY <1>7, <3>6 DEF Like
    <3>8. Stream("answer", Append(sampled, v), Append(A, r), 0, K, b)
      BY <1>22, <2>0, <3>7, StreamWrite
    <3>9. B = Append(A, r) /\ sampled' = Append(sampled, v)
      BY <1>2, <1>6, <1>16, <1>21, <2>1, <3>2
    <3> QED
      BY <3>8, <3>9
  <2>2. CASE ~w.ends
    <3>1. B = A /\ sampled' = sampled
      BY <1>2, <1>16, <1>21, <2>2
    <3> QED
      BY <2>0, <3>1
  <2> QED
    BY <2>1, <2>2
<1>24. Replying(U, B, K, b)'
  BY <1>0, <1>2, <1>23 DEF Replying
<1>25. Sampling(K, h.req, h.lo)'
  <2>1. h.req # 0 /\ K[h.req] = k
    BY <1>6, <1>7
  <2>2. CASE w.ends
    <3>1. ~(h.lo < K[h.req].c) /\ seen' = Burst!Nothing
      BY <1>2, <1>5, <1>10, <2>1, <2>2
    <3> QED
      BY <3>1 DEF Sampling
  <2>3. CASE ~w.ends
    <3>1. n < k.c
      BY <1>5, <1>6, <1>8, <1>10, <2>3
    <3>2. seen' = now
      BY <1>2, <2>3
    <3>3. /\ seen'.words = [i \in 1..h.lo |-> Addr(K[h.req].l, i)]
          /\ Exact => seen'.entries = UNION {EntriesOf(K[h.req].l, i) : i \in 1..h.lo}
      BY <1>5, <1>11, <1>12, <2>1, <3>2
    <3>4. h.req # 0 /\ h.lo < K[h.req].c
      BY <1>5, <2>1, <3>1
    <3> QED
      BY <3>3, <3>4 DEF Sampling
  <2> QED
    BY <2>2, <2>3
<1>26. ASSUME NEW g \in Burst!Engines
       PROVE  /\ Stream("cmd", cmd'[g], Q[At[g]], dum[g], K, b)
              /\ Working(work'[g], Q[At[g] + 1], K, b)
              /\ Stream("word", out'[g], Q[At[g] + 2], 0, K, b)
  <2>1. /\ At[g] \in Places /\ At[g] + 1 \in Places /\ At[g] + 2 \in Places
        /\ At[g] # 13 /\ At[g] + 1 # 13 /\ At[g] + 2 # 13
    BY AtApart
  <2>2. Q[At[g]] = P[At[g]] /\ Q[At[g] + 1] = P[At[g] + 1] /\ Q[At[g] + 2] = P[At[g] + 2]
    BY <1>15, <2>1
  <2> QED
    BY <1>0, <1>2, <2>2 DEF Chain
<1>27. Q[1] = P[1] /\ Q[2] = P[2] /\ Q[12] = P[12]
  BY <1>15 DEF Places
<1>28. Stream("word", sync', Q[13], 0, K, b)
  BY <1>2, <1>4, <1>15
<1>29. Chain(Q, K, b, dum, st)'
  BY <1>0, <1>2, <1>26, <1>27, <1>28 DEF Chain
<1>30. Stopping(Q, dum, st)'
  BY <1>0, <1>2, <1>27 DEF Stopping
<1>31. BurstTypes'
  <2>1. Len(sync') <= Depth
    <3>1. IsSeq(sync) /\ Len(sync) <= Depth
      BY <1>0, <1>3 DEF Stream, BurstTypes
    <3> QED
      BY <1>2, <3>1, DepthKept
  <2>2. Len(sampled') <= Depth
    <3>1. CASE w.ends
      BY <1>2, <1>22, <3>1, DepthKept
    <3>2. CASE ~w.ends
      BY <1>0, <1>2, <3>2 DEF BurstTypes
    <3> QED
      BY <3>1, <3>2
  <2> QED
    BY <1>0, <1>2, <2>1, <2>2 DEF BurstTypes
<1>32. Good(b, Q, K, c, h.req, h.lo, cd, G, bn, cb, NB, U, B, dum, st)'
  BY <1>14, <1>18, <1>19, <1>20, <1>24, <1>25, <1>29, <1>30, <1>31 DEF Good
<1> QED
  BY <1>32 DEF BurstInv

\* The answer with the id that is due is the next one.
LEMMA AnswerDue ==
  ASSUME Burst!BurstAssumption, NEW b \in Base, NEW P, NEW K, NEW c, NEW si, NEW sk, NEW cd,
         NEW G, NEW bn, NEW cb, NEW NB, NEW U, NEW A, NEW dum, NEW st,
         Good(b, P, K, c, si, sk, cd, G, bn, cb, NB, U, A, dum, st),
         NEW V, V = U \/ V = A, V # << >>, NEW n, n = Len(replies)
  PROVE  /\ V[1] \in 1..Len(c) /\ n \in Nat /\ V \in Seq(Nat)
         /\ K[V[1]].id = Id(b, V[1] - 1)
         /\ K[V[1]].id = Id(b, n) => V[1] = n + 1
<1>0. /\ Way(P, c, si, sk, cd, G, bn, cb, NB) /\ KeyTable(K, c, b, bn)
         /\ Chain(P, K, b, dum, st)
      /\ BurstTypes /\ Answers(c, si, sk, U, A, n) /\ Replying(U, A, K, b)
  BY DEF Good
<1>1. Placing(P) /\ c \in Seq(Nat)
  BY <1>0 DEF Way
<1>2. n \in Nat /\ n <= Len(c) /\ Rising(U, n + 1, Len(c)) /\ Rising(A, n + 1, Len(c))
  BY <1>0 DEF Answers
<1>3. V \in Seq(Nat) /\ \A i \in 1..Len(V) : V[i] \in (n + 1)..Len(c)
  <2>1. CASE V = U
    BY <1>2, <2>1 DEF Rising
  <2>2. CASE V = A
    BY <1>2, <2>2 DEF Rising
  <2> QED
    BY <2>1, <2>2
<1>4. 1 \in 1..Len(V)
  BY <1>3
<1>5. PICK v : v = V[1] /\ v \in (n + 1)..Len(c)
  BY <1>3, <1>4
<1>6. PICK L \in Nat : L = Len(c)
  BY <1>1
<1>7. v \in 1..Len(c) /\ v - 1 \in Nat /\ n <= v - 1 /\ v <= L
  BY <1>2, <1>5, <1>6
<1>8. K[v].id = Id(b, v - 1)
  BY <1>0, <1>1, <1>7, ListOf
<1>9. PICK D \in Nat, R \in Nat : D = Depth /\ R = IdRange /\ R >= 15 * D
  BY DEF Burst!BurstAssumption
<1>10. L <= n + 15 * D
  <2>1. \A q \in Places : Len(P[q]) <= D
    BY <1>0, <1>1, <1>9, PlacesShort
  <2>2. Len(U) <= D /\ Len(A) <= D
    <3>1. Stream("answer", update, U, 0, K, b) /\ Stream("answer", sampled, A, 0, K, b)
          /\ Len(update) <= D /\ Len(sampled) <= D
      BY <1>0, <1>9 DEF Replying, BurstTypes
    <3>2. U \in Seq(Nat) /\ A \in Seq(Nat)
      BY <1>2 DEF Rising
    <3>3. Len(U) \in Nat /\ Len(update) \in Nat /\ Len(U) <= Len(update)
      BY <3>1, <3>2, StreamSize
    <3>4. Len(A) \in Nat /\ Len(sampled) \in Nat /\ Len(A) <= Len(sampled)
      BY <3>1, <3>2, StreamSize
    <3>5. PICK i, j, k, m : i = Len(U) /\ j = Len(update) /\ k = Len(A) /\ m = Len(sampled)
      OBVIOUS
    <3>6. i <= D /\ k <= D
      BY <1>9, <3>1, <3>3, <3>4, <3>5
    <3> QED
      BY <3>5, <3>6
  <2>3. Len(c) <= n + 15 * D
    BY <1>0, <1>9, <2>1, <2>2, FewRequests
  <2> QED
    BY <1>6, <2>3
<1>11. v - 1 < n + R
  BY <1>2, <1>6, <1>7, <1>9, <1>10
<1>12. ASSUME K[v].id = Id(b, n) PROVE v = n + 1
  <2>1. Id(b, v - 1) = Id(b, n)
    BY <1>8, <1>12
  <2>2. v - 1 = n
    BY <1>2, <1>7, <1>9, <1>11, <2>1, IdFacts
  <2> QED
    BY <1>7, <2>2
<1> QED
  BY <1>2, <1>3, <1>5, <1>7, <1>8, <1>12

\* update_merge gives the answer that is due, which is the one of the next list.
LEMMA UpdateMergeKeeps ==
  ASSUME Burst!BurstAssumption, NEW b \in Base, NEW P, NEW K, NEW c, NEW si, NEW sk, NEW cd,
         NEW G, NEW bn, NEW cb, NEW NB, NEW U, NEW A, NEW dum, NEW st,
         Good(b, P, K, c, si, sk, cd, G, bn, cb, NB, U, A, dum, st),
         NEW empty \in BOOLEAN, Burst!UpdateMerge(empty)
  PROVE  /\ BurstInv'
         /\ \E v : /\ replies' = Append(replies, v) /\ lists' = lists
                   /\ Len(replies) + 1 \in 1..Len(c)
                   /\ AnswerIs(v, K[Len(replies) + 1])
<1>0. /\ Way(P, c, si, sk, cd, G, bn, cb, NB) /\ KeyTable(K, c, b, bn)
         /\ Chain(P, K, b, dum, st)
      /\ Sampling(K, si, sk) /\ Ids(b, NB, G, cb, cd) /\ Stopping(P, dum, st) /\ BurstTypes
      /\ Answers(c, si, sk, U, A, Len(replies)) /\ Replying(U, A, K, b)
  BY DEF Good
<1>1. PICK from, V : /\ from = IF empty THEN update ELSE sampled
                     /\ V = IF empty THEN U ELSE A
  OBVIOUS
<1>2. /\ from # << >> /\ Head(from).id = current.sync
      /\ replies' = Append(replies, Head(from))
      /\ IF empty THEN update' = Tail(update) /\ UNCHANGED sampled
                  ELSE sampled' = Tail(sampled) /\ UNCHANGED update
      /\ current' = [current EXCEPT !.sync = Burst!Succ(@)]
      /\ UNCHANGED <<lists, burstRound, burstTodo, burstPc, next, vds, gen, cmd, burstOn, work,
                     out, dynamic, sync, seen>>
  BY <1>1 DEF Burst!UpdateMerge
<1>3. PICK n : n = Len(replies)
  OBVIOUS
<1>4. /\ Stream("answer", update, U, 0, K, b) /\ Stream("answer", sampled, A, 0, K, b)
      /\ Stream("answer", from, V, 0, K, b) /\ U \in Seq(Nat) /\ A \in Seq(Nat)
         /\ V \in Seq(Nat)
  <2>1. U \in Seq(Nat) /\ A \in Seq(Nat)
    BY <1>0 DEF Answers, Rising
  <2>2. Stream("answer", update, U, 0, K, b) /\ Stream("answer", sampled, A, 0, K, b)
    BY <1>0 DEF Replying
  <2>3. CASE empty
    BY <1>1, <2>1, <2>2, <2>3
  <2>4. CASE ~empty
    BY <1>1, <2>1, <2>2, <2>4
  <2> QED
    BY <2>1, <2>2, <2>3, <2>4
<1>5. V # << >> /\ Like("answer", Head(from), V[1], K, b)
      /\ Stream("answer", Tail(from), Tail(V), 0, K, b)
  <2>1. V # << >>
    BY <1>2, <1>4, StreamSize
  <2> QED
    BY <1>2, <1>4, <2>1, StreamRead
<1>6. /\ V[1] \in 1..Len(c) /\ n \in Nat /\ (K[V[1]].id = Id(b, n) => V[1] = n + 1)
  <2>1. V = U \/ V = A
    BY <1>1
  <2> QED
    BY <1>3, <1>5, <2>1, AnswerDue
<1>7. AnswerIs(Head(from), K[V[1]])
  BY <1>5 DEF Like
<1>8. V[1] = n + 1
  <2>1. Head(from).id = K[V[1]].id
    BY <1>7 DEF AnswerIs
  <2>2. current.sync = Id(b, n)
    BY <1>0, <1>3 DEF Ids
  <2> QED
    BY <1>2, <1>6, <2>1, <2>2
<1>9. n + 1 \in 1..Len(c) /\ AnswerIs(Head(from), K[n + 1])
  BY <1>6, <1>7, <1>8
<1>10. IsSeq(replies) /\ \A i \in 1..Len(replies) : AnswerIs(replies[i], K[i])
  BY <1>0 DEF Replying
<1>11. /\ IsSeq(replies') /\ Len(replies') = n + 1 /\ replies'[n + 1] = Head(from)
       /\ \A i \in 1..n : replies'[i] = replies[i]
  BY <1>2, <1>3, <1>10, SeqAt
<1>12. \A i \in 1..Len(replies') : AnswerIs(replies'[i], K[i])
  <2> TAKE i \in 1..Len(replies')
  <2>1. i \in 1..n \/ i = n + 1
    BY <1>6, <1>11
  <2>2. CASE i \in 1..n
    BY <1>3, <1>10, <1>11, <2>2
  <2>3. CASE i = n + 1
    BY <1>9, <1>11, <2>3
  <2> QED
    BY <2>1, <2>2, <2>3
<1>13. PICK U2, A2 : U2 = (IF empty THEN Tail(U) ELSE U) /\ A2 = (IF empty THEN A ELSE Tail(A))
  OBVIOUS
<1>14. Answers(c, si, sk, U2, A2, n + 1)
  <2>1. c \in Seq(Nat) /\ si \in Nat /\ sk \in Nat /\ Answers(c, si, sk, U, A, n)
    BY <1>0, <1>3 DEF Way, Progress
  <2>2. /\ U # << >> /\ U[1] = n + 1 => Answers(c, si, sk, Tail(U), A, n + 1)
        /\ A # << >> /\ A[1] = n + 1 => Answers(c, si, sk, U, Tail(A), n + 1)
    BY <2>1, AnswersUpdate
  <2>3. CASE empty
    <3>1. V = U /\ U2 = Tail(U) /\ A2 = A
      BY <1>1, <1>13, <2>3
    <3> QED
      BY <1>5, <1>8, <2>2, <3>1
  <2>4. CASE ~empty
    <3>1. V = A /\ U2 = U /\ A2 = Tail(A)
      BY <1>1, <1>13, <2>4
    <3> QED
      BY <1>5, <1>8, <2>2, <3>1
  <2> QED
    BY <2>3, <2>4
<1>15. Answers(c, si, sk, U2, A2, Len(replies))'
  BY <1>11, <1>14
<1>16. Stream("answer", update', U2, 0, K, b) /\ Stream("answer", sampled', A2, 0, K, b)
  <2>1. CASE empty
    <3>1. from = update /\ V = U /\ U2 = Tail(U) /\ A2 = A /\ update' = Tail(update)
          /\ sampled' = sampled
      BY <1>1, <1>2, <1>13, <2>1
    <3> QED
      BY <1>4, <1>5, <3>1
  <2>2. CASE ~empty
    <3>1. from = sampled /\ V = A /\ U2 = U /\ A2 = Tail(A) /\ sampled' = Tail(sampled)
          /\ update' = update
      BY <1>1, <1>2, <1>13, <2>2
    <3> QED
      BY <1>4, <1>5, <3>1
  <2> QED
    BY <2>1, <2>2
<1>17. Replying(U2, A2, K, b)'
  BY <1>11, <1>12, <1>16 DEF Replying
<1>18. KeyTable(K, c, b, bn)' /\ Sampling(K, si, sk)' /\ Stopping(P, dum, st)'
  <2>1. KeyTable(K, c, b, bn)'
    BY <1>0, <1>2 DEF KeyTable
  <2>2. Sampling(K, si, sk)'
    BY <1>0, <1>2 DEF Sampling
  <2>3. Stopping(P, dum, st)'
    BY <1>0, <1>2 DEF Stopping
  <2> QED
    BY <2>1, <2>2, <2>3
<1>19. Ids(b, NB, G, cb, cd)'
  <2>1. next' = [sync |-> Id(b, Len(lists')), burst |-> Id(b, NB), dyn |-> Id(b, G)]
    BY <1>0, <1>2 DEF Ids
  <2>2. current = [sync |-> Id(b, n), burst |-> Id(b, cb), dyn |-> Id(b, cd)]
    BY <1>0, <1>3 DEF Ids
  <2>3. Burst!Succ(Id(b, n)) = Id(b, n + 1)
    BY <1>6, IdFacts
  <2>4. current' = [sync |-> Id(b, n + 1), burst |-> Id(b, cb), dyn |-> Id(b, cd)]
    BY <1>2, <2>2, <2>3
  <2> QED
    BY <1>11, <2>1, <2>4 DEF Ids
<1>20. Chain(P, K, b, dum, st)'
  BY <1>0, <1>2 DEF Chain
<1>21. BurstTypes'
  <2>1. IsSeq(update) /\ IsSeq(sampled)
    BY <1>4 DEF Stream
  <2>2. Len(update') <= Depth /\ Len(sampled') <= Depth
    <3>1. Len(update) <= Depth /\ Len(sampled) <= Depth
      BY <1>0 DEF BurstTypes
    <3>2. CASE empty
      <4>1. update # << >> /\ update' = Tail(update) /\ sampled' = sampled
        BY <1>1, <1>2, <3>2
      <4> QED
        BY <2>1, <3>1, <4>1, DepthKept
    <3>3. CASE ~empty
      <4>1. sampled # << >> /\ sampled' = Tail(sampled) /\ update' = update
        BY <1>1, <1>2, <3>3
      <4> QED
        BY <2>1, <3>1, <4>1, DepthKept
    <3> QED
      BY <3>2, <3>3
  <2> QED
    BY <1>0, <1>2, <2>2 DEF BurstTypes
<1>22. Good(b, P, K, c, si, sk, cd, G, bn, cb, NB, U2, A2, dum, st)'
  BY <1>0, <1>15, <1>17, <1>18, <1>19, <1>20, <1>21 DEF Good
<1>23. BurstInv'
  BY <1>22 DEF BurstInv
<1> QED
  BY <1>2, <1>3, <1>9, <1>23
=============================================================================
